----------------------------- MODULE PrRegistry -----------------------------
(***************************************************************************)
(* What the pull requests of workflow runs promise to the callers of       *)
(* createPr(), with no listing, no row version, no calls in flight and no  *)
(* crash in sight: a head of a run is opened once, under a number nobody   *)
(* else has; a run is registered under one of its own pull requests; and   *)
(* callers are answered, once and for good, with what their run is         *)
(* registered under at that moment.  PullRequests is shown to implement    *)
(* this.                                                                   *)
(***************************************************************************)

CONSTANTS
    Calls,      \* callers
    None        \* no number, no answer

VARIABLES
    opened,     \* pull requests [number, run, head]
    registered, \* per run: the number of its pull request, or none
    asked,      \* per caller: the run it asks for, or none
    answer      \* per caller: the number it was answered with, or none

registryVars == <<opened, registered, asked, answer>>

RegistryInit ==
    /\ opened = {}
    /\ \A r \in DOMAIN registered : registered[r] = None
    /\ asked = [c \in Calls |-> None]
    /\ answer = [c \in Calls |-> None]

Ask ==
    /\ \E c \in Calls, r \in DOMAIN registered :
         asked[c] = None /\ asked' = [asked EXCEPT ![c] = r]
    /\ UNCHANGED <<opened, registered, answer>>

Open ==
    /\ \E p \in opened' :
         /\ opened' = opened \union {p}
         /\ \A q \in opened : q.number # p.number /\ ~(q.run = p.run /\ q.head = p.head)
    /\ UNCHANGED <<registered, asked, answer>>

Register ==
    /\ \E p \in opened :
         /\ p.run \in DOMAIN registered
         /\ registered' = [registered EXCEPT ![p.run] = p.number]
    /\ UNCHANGED <<opened, asked, answer>>

(* Those who share a call are answered together. *)
Answer ==
    /\ \E r \in DOMAIN registered : \E together \in SUBSET {c \in Calls : asked[c] = r} :
         /\ registered[r] # None
         /\ \A c \in together : answer[c] = None
         /\ answer' = [c \in Calls |-> IF c \in together THEN registered[r] ELSE answer[c]]
    /\ UNCHANGED <<opened, registered, asked>>

RegistrySpec == RegistryInit /\ [][Ask \/ Open \/ Register \/ Answer]_registryVars

=============================================================================
