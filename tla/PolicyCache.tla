----------------------------- MODULE PolicyCache -----------------------------
(***************************************************************************)
(* Policies per installation: a webhook is resolved to its installation    *)
(* (resolveInstallation), the repository's context is looked up under that *)
(* installation (RepositoryRegistry), and its policies come through a      *)
(* cache with a time to live (PerRepoPolicyCache), which an                *)
(* installation's change event invalidates.  A load is awaited, and the    *)
(* policy or the cache can change meanwhile.                               *)
(*                                                                         *)
(* Installations here have a repository of the same name each; the cache's *)
(* key is its installation, the three kinds being alike.  Time is counted  *)
(* in ticks down to an entry's expiry.                                     *)
(***************************************************************************)
EXTENDS Naturals, FiniteSets

CONSTANTS
    Installations,      \* installations with a repository of that name
    Getters,            \* webhooks being handled at the same time
    TtlTicks,           \* ttlMs
    MaxPolicyChanges    \* bound: changes of a policy or of the registry

ASSUME CacheAssumption == TtlTicks \in Nat /\ MaxPolicyChanges \in Nat

VARIABLES
    policy,     \* per installation: the version of its policy
    registry,   \* installations whose repository is registered
    cache,      \* [installations cached -> version and ticks left]
    getter,     \* per getter: the get it is in
    reply,      \* what the last step returned to a getter, if anything
    changes

cacheVars == <<policy, registry, cache, getter, reply, changes>>

NoReply == [installation |-> "none"]
NotGetting == [pc |-> "not_getting"]

CacheInit ==
    /\ policy = [i \in Installations |-> 0]
    /\ registry \in SUBSET Installations
    /\ cache = [i \in {} |-> {}]
    /\ getter = [g \in Getters |-> NotGetting]
    /\ reply = NoReply /\ changes = 0

-----------------------------------------------------------------------------

Gets(g, call) == getter' = [getter EXCEPT ![g] = call]

IsFresh_Mutant(i) == i \in DOMAIN cache

IsFresh(i) == i \in DOMAIN cache /\ cache[i].left > 0

(* resolveInstallation: a header that is a positive number decides, also    *)
(* when no such installation is known; otherwise the payload does.          *)
Named == Installations \union {"other", "none"}

Resolves(header, payload) ==
    IF header # "none" THEN {header} ELSE IF payload # "none" THEN {payload} ELSE {}

(* A webhook arrives; without an installation it is refused.                *)
ResolveWebhook(g) ==
    /\ getter[g] = NotGetting
    /\ \E header, payload \in Named : \E i \in Resolves(header, payload) :
          Gets(g, [pc |-> "lookup", installation |-> i])
    /\ reply' = NoReply
    /\ UNCHANGED <<policy, registry, cache, changes>>

(* The registry answers; of a repository it has, the cache is asked at      *)
(* once, and a hit is answered.                                             *)
GetPolicy(g) ==
    /\ getter[g].pc = "lookup"
    /\ LET i == getter[g].installation
       IN IF i \notin registry THEN Gets(g, NotGetting) /\ reply' = NoReply
          ELSE IF IsFresh(i)
          THEN /\ reply' = [installation |-> i, version |-> cache[i].version]
               /\ Gets(g, NotGetting)
          ELSE Gets(g, [pc |-> "load", installation |-> i]) /\ reply' = NoReply
    /\ UNCHANGED <<policy, registry, cache, changes>>

(* The loader reads the policy. *)
LoadPolicy(g) ==
    /\ getter[g].pc = "load"
    /\ Gets(g, [pc |-> "set", installation |-> getter[g].installation,
                version |-> policy[getter[g].installation]])
    /\ reply' = NoReply
    /\ UNCHANGED <<policy, registry, cache, changes>>

(* The entry's time starts now, however long the load took, and whatever    *)
(* was invalidated since.                                                   *)
StorePolicy(g) ==
    /\ getter[g].pc = "set"
    /\ LET i == getter[g].installation
           version == getter[g].version
       IN /\ cache' = [j \in DOMAIN cache \union {i} |->
                         IF j = i THEN [version |-> version, left |-> TtlTicks] ELSE cache[j]]
          /\ reply' = [installation |-> i, version |-> version]
    /\ Gets(g, NotGetting)
    /\ UNCHANGED <<policy, registry, changes>>

LoadThrows(g) ==
    /\ getter[g].pc = "load"
    /\ Gets(g, NotGetting)
    /\ reply' = NoReply
    /\ UNCHANGED <<policy, registry, cache, changes>>

-----------------------------------------------------------------------------

(* A policy changes; the event that would invalidate it may be for another  *)
(* repository of the installation only, or not come at all.                 *)
ChangePolicy(i) ==
    /\ changes < MaxPolicyChanges
    /\ changes' = changes + 1
    /\ policy' = [policy EXCEPT ![i] = @ + 1]
    /\ reply' = NoReply
    /\ UNCHANGED <<registry, cache, getter>>

(* invalidate. *)
Invalidate(i) ==
    /\ i \in DOMAIN cache
    /\ cache' = [j \in DOMAIN cache \ {i} |-> cache[j]]
    /\ reply' = NoReply
    /\ UNCHANGED <<policy, registry, getter, changes>>

(* upsert or remove of the registry. *)
Register(i) ==
    /\ changes < MaxPolicyChanges
    /\ changes' = changes + 1
    /\ registry' = IF i \in registry THEN registry \ {i} ELSE registry \union {i}
    /\ reply' = NoReply
    /\ UNCHANGED <<policy, cache, getter>>

CacheTick ==
    /\ \E i \in DOMAIN cache : cache[i].left > 0
    /\ cache' = [i \in DOMAIN cache |->
                   [cache[i] EXCEPT !.left = IF @ = 0 THEN 0 ELSE @ - 1]]
    /\ reply' = NoReply
    /\ UNCHANGED <<policy, registry, getter, changes>>

GetterStep(g) == GetPolicy(g) \/ LoadPolicy(g) \/ StorePolicy(g)

CacheNext ==
    \/ \E g \in Getters : ResolveWebhook(g) \/ GetterStep(g) \/ LoadThrows(g)
    \/ \E i \in Installations : ChangePolicy(i) \/ Invalidate(i) \/ Register(i)
    \/ CacheTick

-----------------------------------------------------------------------------

CacheTypeOK ==
    /\ policy \in [Installations -> 0 .. MaxPolicyChanges]
    /\ registry \subseteq Installations /\ DOMAIN cache \subseteq Installations
    /\ \A i \in DOMAIN cache :
         cache[i] \in [version : 0 .. MaxPolicyChanges, left : 0 .. TtlTicks]
    /\ changes \in 0 .. MaxPolicyChanges

(* per-repo-policy-cache.ts: once an installation's policy stays as it is,  *)
(* the cache stops serving what came before -- even when the change went    *)
(* unannounced, and even when a load that had read the old policy stores it *)
(* after the invalidation.                                                  *)
StalePolicyIsForgotten ==
    \A i \in Installations : \A v \in 0 .. MaxPolicyChanges :
        <>[](policy[i] = v) => <>[](reply.installation = i => reply.version = v)

=============================================================================
