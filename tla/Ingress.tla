------------------------------ MODULE Ingress ------------------------------
(***************************************************************************)
(* handleGithubWebhook and the stores it consults, on top of EventBus.     *)
(* A request carries a delivery id and a body; GitHub repeats a delivery   *)
(* when it gets no good answer, and sometimes when it did.  The handler    *)
(* looks the delivery up, remembers it, maps it, drops an echo of the      *)
(* orchestrator's own mutations, stores the payload and publishes the      *)
(* event, each of them awaited while other requests are handled.           *)
(*                                                                         *)
(* A body is what the pipeline can tell apart: an "event" of somebody      *)
(* else, an event of the bot's "own" account, a type or an action that is  *)
(* "unsupported", or something "malformed" that the schema refuses.        *)
(***************************************************************************)
EXTENDS EventBus

CONSTANTS
    Deliveries,     \* values of x-github-delivery
    Bodies,         \* the bodies GitHub sends, among AllBodies
    Events,         \* the topic of mapped events
    Notices         \* the topics webhook.github.rejected, .deduped, .observed

AllBodies == {"event", "own", "unsupported", "malformed"}

(* Every request publishes once at most: its message is keyed by it. *)
Requests == Tasks

ASSUME BodyAssumption == Bodies \subseteq AllBodies /\ None \notin AllBodies
ASSUME IngressAssumption ==
    /\ {Events, Notices, Dlq} \subseteq Topics
    /\ Keys = Requests

Answers == {"accepted", "deduped", "rejected", "unsupported", "failed"}

ASSUME AnswerAssumption == None \notin Answers

VARIABLES
    request,    \* per request: control point, delivery, body, the answer it gets
    remembered  \* the dedup store: the body each delivery was remembered with

ingressVars == <<request, remembered>>
vars == <<busVars, ingressVars>>

RequestPC ==
    {"new", "lookup", "remember", "map", "match", "store", "answering"}

Request ==
    [pc : RequestPC, delivery : Deliveries \union {None},
     body : AllBodies \union {None}, answer : Answers \union {None}]

TypeOK ==
    /\ BusTypeOK
    /\ request \in [Requests -> Request]
    /\ remembered \in [Deliveries -> AllBodies \union {None}]

Init ==
    /\ BusInit
    /\ request = [r \in Requests |->
                    [pc |-> "new", delivery |-> None, body |-> None, answer |-> None]]
    /\ remembered = [d \in Deliveries |-> None]

-----------------------------------------------------------------------------

At(r, pc) == request[r].pc = pc
Goto(r, pc) == request' = [request EXCEPT ![r].pc = pc]
Answer(r, answer) ==
    request' = [request EXCEPT ![r].pc = "answering", ![r].answer = answer]

(* The answer is sent when the drain of the request, if any, has returned. *)
Answered(r) == At(r, "answering") /\ stack[r] = <<>>

PublishAndAnswer(r, topic, answer) ==
    /\ Publish(r, <<>>, [topic |-> topic, key |-> r, failed |-> <<>>])
    /\ Answer(r, answer)
    /\ UNCHANGED <<listens, got>>

(* A signed delivery, or a repetition of one. *)
Arrive(r, d, body) ==
    /\ At(r, "new")
    /\ request' = [request EXCEPT ![r] = [pc |-> "lookup", delivery |-> d,
                                          body |-> body, answer |-> None]]
    /\ UNCHANGED <<busVars, remembered>>

(* A request whose signature does not verify. *)
ArriveUnsigned(r) ==
    /\ At(r, "new")
    /\ PublishAndAnswer(r, Notices, "rejected")
    /\ UNCHANGED remembered

Lookup_Mutant(r) ==
    /\ At(r, "lookup")
    /\ IF remembered[request[r].delivery] # None
       THEN PublishAndAnswer(r, Notices, "deduped")
       ELSE Goto(r, "remember") /\ UNCHANGED busVars
    /\ UNCHANGED remembered

(* The delivery is known with this content, or not. *)
Lookup(r) ==
    /\ At(r, "lookup")
    /\ IF remembered[request[r].delivery] = request[r].body
       THEN PublishAndAnswer(r, Notices, "deduped")
       ELSE Goto(r, "remember") /\ UNCHANGED busVars
    /\ UNCHANGED remembered

Remember(r) ==
    /\ At(r, "remember")
    /\ remembered' = [remembered EXCEPT ![request[r].delivery] = request[r].body]
    /\ Goto(r, "map")
    /\ UNCHANGED busVars

(* mapGithubEvent: the error of a malformed body leaves the handler. *)
Map(r) ==
    /\ At(r, "map")
    /\ IF request[r].body = "unsupported" THEN PublishAndAnswer(r, Notices, "unsupported")
       ELSE /\ UNCHANGED busVars
            /\ IF request[r].body = "malformed" THEN Answer(r, "failed")
               ELSE Goto(r, IF request[r].body = "own" THEN "match" ELSE "store")
    /\ UNCHANGED remembered

(* Origin suppression: a recent mutation of the bot explains the event. *)
MatchEcho(r) ==
    /\ At(r, "match")
    /\ PublishAndAnswer(r, Notices, "accepted")
    /\ UNCHANGED remembered

MatchNothing(r) ==
    /\ At(r, "match")
    /\ Goto(r, "store")
    /\ UNCHANGED <<busVars, remembered>>

(* The raw payload is written, and the event published. *)
StoreAndPublish(r) ==
    /\ At(r, "store")
    /\ PublishAndAnswer(r, Events, "accepted")
    /\ UNCHANGED remembered

(* The write of the payload throws, and the handler with it. *)
StoreFails(r) ==
    /\ At(r, "store")
    /\ Answer(r, "failed")
    /\ UNCHANGED <<busVars, remembered>>

(* The 24-hour window of a delivery has passed. *)
Forget(d) ==
    /\ remembered[d] # None
    /\ remembered' = [remembered EXCEPT ![d] = None]
    /\ UNCHANGED <<busVars, request>>

Handle(r) ==
    \/ Lookup(r)
    \/ Remember(r)
    \/ Map(r)
    \/ MatchEcho(r)
    \/ MatchNothing(r)
    \/ StoreAndPublish(r)
    \/ StoreFails(r)

Next ==
    \/ \E r \in Requests, d \in Deliveries, body \in Bodies : Arrive(r, d, body)
    \/ \E r \in Requests : ArriveUnsigned(r)
    \/ \E r \in Requests : Handle(r)
    \/ \E d \in Deliveries : Forget(d)
    \/ \E p \in Tasks : Drain(p) /\ UNCHANGED ingressVars
    \/ Subscriptions /\ UNCHANGED ingressVars

Spec == Init /\ [][Next]_vars

(* Awaits come back and consumers return or throw. *)
FairSpec == Spec /\ \A r \in Requests : WF_vars(Handle(r) \/ (Drain(r) /\ UNCHANGED ingressVars))

-----------------------------------------------------------------------------

Same(r, s) ==
    request[r].delivery = request[s].delivery /\ request[r].body = request[s].body

(* A request that has arrived gets an answer, although publish() waits for  *)
(* consumers that throw, for their retries and for the dead letters.        *)
RequestsAreAnswered == \A r \in Requests : ~At(r, "new") ~> Answered(r)

(* A request is dropped as a duplicate only if another one brought the very *)
(* same content under the same delivery id and was remembered: reusing an   *)
(* id for other content, forgetting and racing requests lose nothing here.  *)
DuplicatesRepeat ==
    \A r \in Requests :
        request[r].answer = "deduped" =>
            \E s \in Requests \ {r} :
                Same(r, s) /\ ~\E pc \in {"new", "lookup", "remember"} : At(s, pc)

(* handleGithubWebhook, header: "Returns 200 even on dedup hits so GitHub   *)
(* doesn't retry", and the dedup-then-publish path is to stay atomic        *)
(* (makeDedup).  A delivery is answered as a duplicate only if one of its   *)
(* requests was answered well or still may be.  The code does not keep it.  *)
DuplicateWasHandled ==
    \A r \in Requests :
        Answered(r) /\ request[r].answer = "deduped" =>
            \E s \in Requests \ {r} :
                Same(r, s) /\ request[s].answer \notin {"failed", "deduped"}

=============================================================================
