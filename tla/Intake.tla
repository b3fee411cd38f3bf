------------------------------- MODULE Intake -------------------------------
(***************************************************************************)
(* Chat messages become issues: a delivery is verified and normalised, its *)
(* key is claimed (Deduplicator), the message is classified (classifier),  *)
(* the session is advanced by a message or a reply (clarifier) and, once   *)
(* ready, an issue is requested on the bus (IntakeIssueCreator) for the    *)
(* trusted runner to post.  A sweeper drops sessions nobody answers.       *)
(*                                                                         *)
(* The claim and the new session are one row of intake_sessions, as        *)
(* dedup.ts says of production.  The loop that calls these services, the   *)
(* sweeper's job and the trusted runner are not in the source: they are    *)
(* modelled as the services' comments oblige them to be.                   *)
(***************************************************************************)
EXTENDS Integers, FiniteSets

CONSTANTS
    Messages,       \* messages people send: each its own dedup key
    Sessions,       \* session ids the handlers draw from
    Receivers,      \* deliveries and replies being handled at the same time
    WindowTicks,    \* the dedup window and the inactivity timeout, in ticks
    MaxQuestions,   \* maxRounds of the clarifier
    MaxDeliveries,  \* bound: deliveries and replies altogether
    MaxCrashes      \* bound: handlers that die

ASSUME IntakeAssumption ==
    /\ WindowTicks \in Nat \ {0} /\ MaxQuestions \in Nat
    /\ MaxDeliveries \in Nat /\ MaxCrashes \in Nat

(* What normalising and scanning a message finds in it: a mention of the    *)
(* bot with a keyword, a wish to drop the matter, signs of an injection     *)
(* (which matter once the message is enough for an issue).                  *)
Signs == {{}, {"explicit"}, {"abandon"}, {"explicit", "suspicious"}}

SessionStates == {"pending", "confirming", "ready", "dropped"}
Ended == {"ready", "dropped"}
Oldest == WindowTicks + 1
Ages == 0 .. Oldest

VARIABLES
    claims,     \* dedup rows: per message, the session that claimed it, or none
    session,    \* intake_sessions; a session that is not opened is absent
    receiver,   \* per receiver: what it is handling
    requests,   \* issue.create_requested events on the bus
    posted,     \* per session: how many issues were opened for it
    deliveries, crashes

intakeVars == <<claims, session, receiver, requests, posted, deliveries, crashes>>

Waiting == [pc |-> "waiting"]

IntakeInit ==
    /\ claims = <<>>
    /\ session = <<>>
    /\ receiver = [r \in Receivers |-> Waiting]
    /\ requests = {}
    /\ posted = [s \in Sessions |-> 0]
    /\ deliveries = 0 /\ crashes = 0

Handles(r, work) == receiver' = [receiver EXCEPT ![r] = work]

-----------------------------------------------------------------------------

(* freshSession. *)
FreshSession(message) ==
    [state |-> "pending", round |-> 0, reason |-> "none", message |-> message,
     sinceUser |-> 0, sinceOpened |-> 0]

InWindow_Mutant(message) ==
    /\ message \in DOMAIN claims
    /\ session[claims[message]].sinceOpened < WindowTicks
    /\ posted[claims[message]] > 0

(* A row older than the window counts as evicted. *)
InWindow(message) ==
    /\ message \in DOMAIN claims
    /\ session[claims[message]].sinceOpened < WindowTicks

(* A message without a sender or an id is not an event. *)
Normalize(message, complete, signs) ==
    IF complete THEN [pc |-> "claim", message |-> message, signs |-> signs] ELSE Waiting

(* Either adapter: a delivery whose signature or payload is not in order    *)
(* stops there.                                                             *)
Receive(r, message) ==
    /\ receiver[r] = Waiting
    /\ deliveries < MaxDeliveries
    /\ deliveries' = deliveries + 1
    /\ \E authentic, complete \in BOOLEAN, signs \in Signs :
         Handles(r, IF authentic THEN Normalize(message, complete, signs) ELSE Waiting)
    /\ UNCHANGED <<claims, session, requests, posted, crashes>>

(* DedupStore.claim inserts or returns the row that is there, in one step.  *)
(* A duplicate is answered with the existing session.                       *)
Claim(r) ==
    /\ receiver[r].pc = "claim"
    /\ LET message == receiver[r].message
           unused == Sessions \ DOMAIN session
       IN IF InWindow(message)
          THEN Handles(r, Waiting) /\ UNCHANGED <<claims, session>>
          ELSE /\ unused # {}
               /\ LET s == CHOOSE x \in unused : TRUE
                  IN /\ claims' = [m \in DOMAIN claims \union {message} |->
                                     IF m = message THEN s ELSE claims[m]]
                     /\ session' = [x \in DOMAIN session \union {s} |->
                                      IF x = s THEN FreshSession(message) ELSE session[x]]
                     /\ Handles(r, [pc |-> "classify", session |-> s,
                                    signs |-> receiver[r].signs])
    /\ UNCHANGED <<requests, posted, deliveries, crashes>>

(* A person answers the clarifier, or writes again after the session ended. *)
Reply(r, s) ==
    /\ receiver[r] = Waiting
    /\ deliveries < MaxDeliveries
    /\ deliveries' = deliveries + 1
    /\ s \in DOMAIN session
    /\ \E signs \in Signs :
         Handles(r, [pc |-> "classify", session |-> s, signs |-> signs])
    /\ UNCHANGED <<claims, session, requests, posted, crashes>>

-----------------------------------------------------------------------------

(* advance.  confident is whether the confidence reaches the threshold.     *)
Advance(prev, signs, confident) ==
    LET heard == [prev EXCEPT !.sinceUser = 0]
    IN  IF prev.state \in Ended THEN prev
        ELSE IF "abandon" \in signs
             THEN [heard EXCEPT !.state = "dropped", !.reason = "user_abandoned"]
        ELSE IF "explicit" \in signs \/ confident THEN [heard EXCEPT !.state = "ready"]
        ELSE IF prev.round + 1 > MaxQuestions
             THEN [heard EXCEPT !.state = "dropped", !.reason = "max_rounds"]
        ELSE [heard EXCEPT !.state = "confirming", !.round = prev.round + 1]

(* classify takes the fast path on an explicit trigger, unless the source's *)
(* mode is off: then it hears nothing and asks no model.                    *)
Classify(mode, signs) == IF mode = "off" THEN signs \ {"explicit"} ELSE signs

(* Without a trigger the language model's answer, awaited meanwhile, gives  *)
(* the confidence.  A session that is done and ready has its issue          *)
(* requested, by whichever message finds it so.  What mode the source of    *)
(* the message has is left open.                                            *)
AdvanceSession(r) ==
    /\ receiver[r].pc = "classify"
    /\ \E confident \in BOOLEAN, mode \in {"on", "off"} :
         LET s == receiver[r].session
             next == Advance(session[s], Classify(mode, receiver[r].signs),
                             confident /\ mode # "off")
         IN /\ session' = [session EXCEPT ![s] = next]
            /\ Handles(r, IF next.state = "ready"
                          THEN [pc |-> "request", session |-> s, signs |-> receiver[r].signs]
                          ELSE Waiting)
    /\ UNCHANGED <<claims, requests, posted, deliveries, crashes>>

(* IntakeIssueCreator.request publishes and awaits the bus. *)
RequestIssue(r) ==
    /\ receiver[r].pc = "request"
    /\ requests' = requests \union
         {[session |-> receiver[r].session,
           suspected |-> "suspicious" \in receiver[r].signs]}
    /\ Handles(r, Waiting)
    /\ UNCHANGED <<claims, session, posted, deliveries, crashes>>

(* The trusted runner refuses what looks like an injection, and is          *)
(* idempotent on the session id.                                            *)
ConsumeRequest ==
    /\ \E q \in requests :
         /\ requests' = requests \ {q}
         /\ posted' = [posted EXCEPT ![q.session] =
                         IF q.suspected \/ @ > 0 THEN @ ELSE @ + 1]
    /\ UNCHANGED <<claims, session, receiver, deliveries, crashes>>

ReceiverDies(r) ==
    /\ receiver[r] # Waiting
    /\ crashes < MaxCrashes
    /\ crashes' = crashes + 1
    /\ Handles(r, Waiting)
    /\ UNCHANGED <<claims, session, requests, posted, deliveries>>

-----------------------------------------------------------------------------

Older(age) == IF age = Oldest THEN age ELSE age + 1

PassTime ==
    /\ session' = [s \in DOMAIN session |->
                     [session[s] EXCEPT !.sinceUser = Older(@), !.sinceOpened = Older(@)]]
    /\ session' # session
    /\ UNCHANGED <<claims, receiver, requests, posted, deliveries, crashes>>

IsInactive_Mutant(s) == session[s].state = "confirming" /\ session[s].sinceUser > WindowTicks

(* isInactive, dropForInactivity. *)
IsInactive(s) == session[s].state \notin Ended /\ session[s].sinceUser > WindowTicks

Sweep(s) ==
    /\ s \in DOMAIN session
    /\ IsInactive(s)
    /\ session' = [session EXCEPT ![s].state = "dropped",
                                  ![s].reason = "inactivity_timeout", ![s].sinceUser = 0]
    /\ UNCHANGED <<claims, receiver, requests, posted, deliveries, crashes>>

ReceiverStep(r) == Claim(r) \/ AdvanceSession(r) \/ RequestIssue(r)

IntakeNext ==
    \/ \E r \in Receivers :
         \/ \E m \in Messages : Receive(r, m)
         \/ \E s \in Sessions : Reply(r, s)
         \/ ReceiverStep(r)
         \/ ReceiverDies(r)
    \/ ConsumeRequest
    \/ PassTime
    \/ \E s \in Sessions : Sweep(s)

-----------------------------------------------------------------------------

IntakeTypeOK ==
    /\ DOMAIN claims \subseteq Messages /\ DOMAIN session \subseteq Sessions
    /\ \A m \in DOMAIN claims : claims[m] \in DOMAIN session
    /\ \A s \in DOMAIN session :
         session[s] \in [state : SessionStates, round : 0 .. MaxQuestions, message : Messages,
                         reason : {"none", "user_abandoned", "max_rounds", "inactivity_timeout"},
                         sinceUser : Ages, sinceOpened : Ages]
    /\ posted \in [Sessions -> Nat]
    /\ deliveries \in 0 .. MaxDeliveries /\ crashes \in 0 .. MaxCrashes

(* dedup.ts: within the window one message opens one session and one issue, *)
(* however often it is delivered, whoever replies to the ended session and  *)
(* whichever handlers die; and no issue is opened for a dropped session.    *)
OneIssuePerWindow ==
    /\ \A m \in Messages :
         LET recent == {s \in DOMAIN session :
                          session[s].message = m /\ session[s].sinceOpened < WindowTicks}
         IN Cardinality(recent) <= 1
    /\ \A s \in Sessions :
         /\ posted[s] <= 1
         /\ posted[s] = 1 => s \in DOMAIN session /\ session[s].state = "ready"

(* clarifier.ts: every session ends, answered, given up or swept, even one  *)
(* whose handler died before it asked anything.                             *)
EverySessionEnds ==
    \A s \in Sessions :
        s \in DOMAIN session ~> s \in DOMAIN session /\ session[s].state \in Ended

=============================================================================
