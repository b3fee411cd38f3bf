---------------------------- MODULE StageProofs -----------------------------
(***************************************************************************)
(* Five stages an issue passes, and all the stages and stores side by      *)
(* side, for any number of messages, handlers, findings, callers, rounds   *)
(* and tasks.                                                              *)
(*                                                                         *)
(* Intake: a message opens one issue in its window.  A handler may die     *)
(* between claiming a message and recording its session, so the argument   *)
(* goes by the claim: a session that is recent is the one its message's    *)
(* claim names.                                                            *)
(*                                                                         *)
(* Reviews: a row of the findings says who closed it.  The calls that      *)
(* close rows overlap with the reviews that report them, so the argument   *)
(* follows each call: what it still means to close is harmless, and what   *)
(* it closed it will audit.                                                *)
(*                                                                         *)
(* The test-fix loop: its verdicts follow from its rounds.  The gate that  *)
(* was counted is one ahead of the rounds that are recorded; the argument  *)
(* is that the count of a fingerprint is the number of rounds that showed  *)
(* it, and one more while such a gate is held.                             *)
(*                                                                         *)
(* The tasks' worktrees: what is applied is what the tasks left.  The      *)
(* results are those of the tasks in their order, and task ids are unique, *)
(* so that an overlay changes no more once its task returned; the merge is *)
(* a function of the results.                                              *)
(*                                                                         *)
(* The drift scan: its types only; what it promises is liveness.           *)
(*                                                                         *)
(* Side by side: a step of the whole is a step of one component, and       *)
(* leaves the others alone.  So each component behaves as its own          *)
(* specification says, and what is proved of it holds of the whole.        *)
(***************************************************************************)
EXTENDS MCStages, PlanningProofs, StoreProofs


-----------------------------------------------------------------------------
(* Intake *)

(* Rows of intake_sessions. *)
SessionRow ==
    [state : SessionStates, round : 0 .. MaxQuestions, message : Messages,
     reason : {"none", "user_abandoned", "max_rounds", "inactivity_timeout"},
     sinceUser : Ages, sinceOpened : Ages]

(* What a handler can be doing. *)
Handling ==
    {Waiting} \union [pc : {"claim"}, message : Messages, signs : Signs]
    \union [pc : {"classify", "request"}, session : Sessions, signs : Signs]

(* The shapes of the state, without its bounds. *)
IntakeShapes ==
    /\ DOMAIN session \subseteq Sessions
    /\ session \in [DOMAIN session -> SessionRow]
    /\ DOMAIN claims \subseteq Messages
    /\ claims \in [DOMAIN claims -> DOMAIN session]
    /\ receiver \in [Receivers -> Handling]
    /\ posted \in [Sessions -> Nat]

(* Session s ended with enough for an issue. *)
IsReady(s) == s \in DOMAIN session /\ session[s].state = "ready"

(* A recent session is the one its message's claim names: a claim is given  *)
(* away only when the session it named is no longer recent.                 *)
RecentIsClaimed ==
    \A s \in DOMAIN session :
        session[s].sinceOpened < WindowTicks =>
            /\ session[s].message \in DOMAIN claims
            /\ claims[session[s].message] = s

(* From the decision that a session is ready to its issue, nobody undoes it. *)
ReadyStaysReady ==
    /\ \A r \in Receivers :
         /\ receiver[r].pc \in {"classify", "request"} => receiver[r].session \in DOMAIN session
         /\ receiver[r].pc = "request" => IsReady(receiver[r].session)
    /\ \A q \in requests : IsReady(q.session)
    /\ \A s \in Sessions : posted[s] <= 1 /\ (posted[s] = 1 => IsReady(s))

IntakeInv == IntakeShapes /\ RecentIsClaimed /\ ReadyStaysReady

-----------------------------------------------------------------------------

(* One recent session per message, because one claim names one session. *)
LEMMA IntakeInvImplies == IntakeInv => OneIssuePerWindow
<1> SUFFICES ASSUME IntakeInv PROVE OneIssuePerWindow
  OBVIOUS
<1>1. ASSUME NEW m \in Messages
      PROVE  Cardinality({s \in DOMAIN session :
                session[s].message = m /\ session[s].sinceOpened < WindowTicks}) <= 1
  <2> DEFINE recent == {s \in DOMAIN session :
                session[s].message = m /\ session[s].sinceOpened < WindowTicks}
  <2>1. recent \in SUBSET {claims[m]}
    BY DEF IntakeInv, RecentIsClaimed
  <2>2. IsFiniteSet({claims[m]}) /\ Cardinality({claims[m]}) = 1
    BY FS_Singleton
  <2> HIDE DEF recent
  <2>3. Cardinality(recent) <= 1
    BY <2>1, <2>2, FS_Subset
  <2> QED
    BY <2>3 DEF recent
<1>2. \A s \in Sessions :
         /\ posted[s] <= 1
         /\ posted[s] = 1 => s \in DOMAIN session /\ session[s].state = "ready"
  BY DEF IntakeInv, ReadyStaysReady, IsReady
<1> QED
  BY <1>1, <1>2 DEF OneIssuePerWindow

(* Before the first message there is nothing to hold. *)
LEMMA IntakeInitInv == IntakeInit => IntakeInv
BY DEF IntakeInit, IntakeInv, IntakeShapes, RecentIsClaimed, ReadyStaysReady, Handling, Waiting

(* What advance makes of a session. *)
LEMMA AdvanceFacts ==
    ASSUME NEW prev \in SessionRow, NEW signs, NEW confident \in BOOLEAN
    PROVE  /\ Advance(prev, signs, confident) \in SessionRow
           /\ Advance(prev, signs, confident).message = prev.message
           /\ Advance(prev, signs, confident).sinceOpened = prev.sinceOpened
           /\ prev.state \in Ended => Advance(prev, signs, confident) = prev
<1> DEFINE next == Advance(prev, signs, confident)
           heard == [prev EXCEPT !.sinceUser = 0]
<1>1. heard \in SessionRow /\ heard.message = prev.message
      /\ heard.sinceOpened = prev.sinceOpened
  BY IntakeAssumption DEF SessionRow, Ages, Oldest
<1>2. CASE prev.state \in Ended
  BY <1>2 DEF Advance
<1>3. CASE prev.state \notin Ended
  <2>1. \/ next = [heard EXCEPT !.state = "dropped", !.reason = "user_abandoned"]
        \/ next = [heard EXCEPT !.state = "ready"]
        \/ next = [heard EXCEPT !.state = "dropped", !.reason = "max_rounds"]
        \/ prev.round + 1 <= MaxQuestions
           /\ next = [heard EXCEPT !.state = "confirming", !.round = prev.round + 1]
    BY <1>3, IntakeAssumption DEF Advance, SessionRow
  <2> HIDE DEF next, heard
  <2>2. prev.round + 1 <= MaxQuestions => prev.round + 1 \in 0 .. MaxQuestions
    BY IntakeAssumption DEF SessionRow
  <2>3. {"dropped", "ready", "confirming"} \subseteq SessionStates
    BY DEF SessionStates
  <2> DEFINE Keeps == next \in SessionRow /\ next.message = prev.message
                      /\ next.sinceOpened = prev.sinceOpened
  <2>4. ASSUME next = [heard EXCEPT !.state = "dropped", !.reason = "user_abandoned"] PROVE Keeps
    BY <1>1, <2>3, <2>4 DEF SessionRow
  <2>5. ASSUME next = [heard EXCEPT !.state = "ready"] PROVE Keeps
    BY <1>1, <2>3, <2>5 DEF SessionRow
  <2>6. ASSUME next = [heard EXCEPT !.state = "dropped", !.reason = "max_rounds"] PROVE Keeps
    BY <1>1, <2>3, <2>6 DEF SessionRow
  <2>7. ASSUME prev.round + 1 <= MaxQuestions,
               next = [heard EXCEPT !.state = "confirming", !.round = prev.round + 1]
        PROVE  Keeps
    <3> DEFINE n == prev.round + 1
    <3>1. n \in 0 .. MaxQuestions /\ next = [heard EXCEPT !.state = "confirming", !.round = n]
      BY <2>2, <2>7
    <3> HIDE DEF n
    <3> QED
      BY <1>1, <2>3, <3>1 DEF SessionRow
  <2>8. Keeps
    BY <2>1, <2>4, <2>5, <2>6, <2>7
  <2> QED
    BY <1>3, <2>8 DEF next
<1> QED
  BY <1>2, <1>3

(* Sessions may change as long as they keep message and age and none that   *)
(* was ready stops being so.                                                *)
LEMMA SessionsChange ==
    ASSUME IntakeInv, DOMAIN session' = DOMAIN session, UNCHANGED claims,
           \A s \in DOMAIN session :
              /\ session'[s].message = session[s].message
              /\ session'[s].sinceOpened < WindowTicks => session[s].sinceOpened < WindowTicks
    PROVE  RecentIsClaimed'
BY DEF IntakeInv, RecentIsClaimed

(* Every delivery, reply, sweep, crash and tick keeps the invariant. *)
LEMMA IntakeNextInv == IntakeInv /\ [IntakeNext]_intakeVars => IntakeInv'
<1> SUFFICES ASSUME IntakeInv, [IntakeNext]_intakeVars PROVE IntakeInv'
  OBVIOUS
<1>1. ASSUME NEW r \in Receivers, NEW m \in Messages, Receive(r, m) PROVE IntakeInv'
  <2>1. UNCHANGED <<claims, session, requests, posted>>
        /\ \E work \in {Waiting} \union [pc : {"claim"}, message : Messages, signs : Signs] :
              receiver' = [receiver EXCEPT ![r] = work]
    BY <1>1 DEF Receive, Handles, Normalize
  <2>2. PICK work \in {Waiting} \union [pc : {"claim"}, message : Messages, signs : Signs] :
              receiver' = [receiver EXCEPT ![r] = work]
    BY <2>1
  <2>3. IntakeShapes'
    BY <2>1, <2>2 DEF IntakeInv, IntakeShapes, Handling
  <2>4. work.pc \in {"waiting", "claim"}
    BY DEF Waiting
  <2>5. ReadyStaysReady'
    BY <2>1, <2>2, <2>4 DEF IntakeInv, IntakeShapes, ReadyStaysReady, IsReady
  <2> QED
    BY <2>1, <2>3, <2>5 DEF IntakeInv, RecentIsClaimed
<1>2. ASSUME NEW r \in Receivers, NEW s \in Sessions, Reply(r, s) PROVE IntakeInv'
  <2>1. UNCHANGED <<claims, session, requests, posted>> /\ s \in DOMAIN session
        /\ \E signs \in Signs : receiver' = [receiver EXCEPT ![r] =
                                   [pc |-> "classify", session |-> s, signs |-> signs]]
    BY <1>2 DEF Reply, Handles
  <2>2. IntakeShapes'
    BY <2>1 DEF IntakeInv, IntakeShapes, Handling
  <2>3. ReadyStaysReady'
    BY <2>1 DEF IntakeInv, IntakeShapes, ReadyStaysReady, IsReady
  <2> QED
    BY <2>1, <2>2, <2>3 DEF IntakeInv, RecentIsClaimed
<1>3. ASSUME NEW r \in Receivers, Claim(r) PROVE IntakeInv'
  <2> DEFINE message == receiver[r].message
             s == CHOOSE x \in Sessions \ DOMAIN session : TRUE
  <2>1. receiver[r].pc = "claim" /\ UNCHANGED <<requests, posted>>
    BY <1>3 DEF Claim
  <2>2. message \in Messages /\ receiver[r].signs \in Signs
    BY <2>1 DEF IntakeInv, IntakeShapes, Handling, Waiting
  <2>3. CASE InWindow(message)
    <3>1. receiver' = [receiver EXCEPT ![r] = Waiting] /\ UNCHANGED <<claims, session>>
      BY <1>3, <2>3 DEF Claim, Handles
    <3>2. IntakeShapes'
      BY <2>1, <3>1 DEF IntakeInv, IntakeShapes, Handling
    <3>3. ReadyStaysReady'
      BY <2>1, <3>1 DEF IntakeInv, IntakeShapes, ReadyStaysReady, IsReady, Waiting
    <3> QED
      BY <3>1, <3>2, <3>3 DEF IntakeInv, RecentIsClaimed
  <2>4. CASE ~InWindow(message)
    <3>1. /\ Sessions \ DOMAIN session # {}
          /\ claims' = [m \in DOMAIN claims \union {message} |-> IF m = message THEN s ELSE claims[m]]
          /\ session' = [x \in DOMAIN session \union {s} |->
                            IF x = s THEN FreshSession(message) ELSE session[x]]
          /\ receiver' = [receiver EXCEPT ![r] =
                            [pc |-> "classify", session |-> s, signs |-> receiver[r].signs]]
      BY <1>3, <2>4 DEF Claim, Handles
    <3>2. s \in Sessions /\ s \notin DOMAIN session
      BY <3>1
    <3> HIDE DEF s, message
    <3>3. FreshSession(message) \in SessionRow /\ FreshSession(message).message = message
      BY <2>2, IntakeAssumption DEF FreshSession, SessionRow, SessionStates, Ages, Oldest
    <3>4. IntakeShapes'
      BY <2>1, <2>2, <3>1, <3>2, <3>3 DEF IntakeInv, IntakeShapes, Handling
    <3>5. RecentIsClaimed'
      <4> SUFFICES ASSUME NEW x \in DOMAIN session', session'[x].sinceOpened < WindowTicks
                   PROVE  session'[x].message \in DOMAIN claims' /\ claims'[session'[x].message] = x
        BY DEF RecentIsClaimed
      <4>1. CASE x = s
        BY <3>1, <3>3, <4>1
      <4>2. CASE x # s
        <5>1. session'[x] = session[x] /\ x \in DOMAIN session
          BY <3>1, <4>2
        <5>2. session[x].message \in DOMAIN claims /\ claims[session[x].message] = x
          BY <5>1 DEF IntakeInv, RecentIsClaimed
        <5>3. session[x].message # message
          BY <2>4, <5>1, <5>2 DEF InWindow
        <5> QED
          BY <3>1, <5>1, <5>2, <5>3
      <4> QED
        BY <4>1, <4>2
    <3>6. ReadyStaysReady'
      BY <2>1, <3>1, <3>2 DEF IntakeInv, IntakeShapes, ReadyStaysReady, IsReady
    <3> QED
      BY <3>4, <3>5, <3>6 DEF IntakeInv
  <2> QED
    BY <2>3, <2>4
<1>4. ASSUME NEW r \in Receivers, AdvanceSession(r) PROVE IntakeInv'
  <2> DEFINE s == receiver[r].session
  <2>1. receiver[r].pc = "classify" /\ UNCHANGED <<claims, requests, posted>>
    BY <1>4 DEF AdvanceSession
  <2>2. s \in Sessions /\ s \in DOMAIN session /\ receiver[r].signs \in Signs
        /\ session[s] \in SessionRow
    BY <2>1 DEF IntakeInv, IntakeShapes, ReadyStaysReady, Handling, Waiting
  <2>3. PICK confident \in BOOLEAN, mode \in {"on", "off"} :
          LET next == Advance(session[s], Classify(mode, receiver[r].signs),
                              confident /\ mode # "off")
          IN /\ session' = [session EXCEPT ![s] = next]
             /\ receiver' = [receiver EXCEPT ![r] =
                   IF next.state = "ready"
                   THEN [pc |-> "request", session |-> s, signs |-> receiver[r].signs]
                   ELSE Waiting]
    BY <1>4 DEF AdvanceSession, Handles
  <2> DEFINE next == Advance(session[s], Classify(mode, receiver[r].signs),
                             confident /\ mode # "off")
  <2>4. /\ next \in SessionRow
        /\ next.message = session[s].message /\ next.sinceOpened = session[s].sinceOpened
        /\ session[s].state \in Ended => next = session[s]
    BY <2>2, AdvanceFacts
  <2>5. /\ session' = [session EXCEPT ![s] = next]
        /\ receiver' = [receiver EXCEPT ![r] =
              IF next.state = "ready"
              THEN [pc |-> "request", session |-> s, signs |-> receiver[r].signs]
              ELSE Waiting]
    BY <2>3
  <2> HIDE DEF next, s
  <2>6. IntakeShapes'
    BY <2>1, <2>2, <2>4, <2>5 DEF IntakeInv, IntakeShapes, Handling
  <2>7. RecentIsClaimed'
    BY <2>1, <2>2, <2>4, <2>5, SessionsChange DEF IntakeInv, IntakeShapes
  <2>8. \A x \in DOMAIN session : IsReady(x) => IsReady(x)'
    BY <2>2, <2>4, <2>5 DEF IsReady, Ended, IntakeInv, IntakeShapes
  <2>9. /\ DOMAIN session' = DOMAIN session /\ session'[s] = next
        /\ receiver'[r].pc \in {"request", "waiting"}
        /\ receiver'[r].pc = "request" => receiver'[r].session = s /\ next.state = "ready"
        /\ \A x \in Receivers \ {r} : receiver'[x] = receiver[x]
    BY <2>2, <2>5 DEF IntakeInv, IntakeShapes, Waiting
  <2>10. ReadyStaysReady'
    <3>1. ASSUME NEW x \in Receivers, receiver'[x].pc \in {"classify", "request"}
          PROVE  /\ receiver'[x].session \in DOMAIN session'
                 /\ receiver'[x].pc = "request" => session'[receiver'[x].session].state = "ready"
      <4>1. CASE x = r
        BY <2>2, <2>9, <3>1, <4>1
      <4>2. CASE x # r
        <5>1. receiver'[x] = receiver[x]
          BY <2>9, <4>2
        <5>2. receiver[x].session \in DOMAIN session
              /\ (receiver[x].pc = "request" => IsReady(receiver[x].session))
          BY <3>1, <5>1 DEF IntakeInv, ReadyStaysReady
        <5> QED
          BY <2>8, <2>9, <5>1, <5>2 DEF IsReady
      <4> QED
        BY <4>1, <4>2
    <3>2. \A q \in requests' : q.session \in DOMAIN session' /\ session'[q.session].state = "ready"
      BY <2>1, <2>8 DEF IntakeInv, ReadyStaysReady, IsReady
    <3>4. \A x \in Receivers :
            /\ receiver'[x].pc \in {"classify", "request"} => receiver'[x].session \in DOMAIN session'
            /\ receiver'[x].pc = "request" => receiver'[x].session \in DOMAIN session'
                                             /\ session'[receiver'[x].session].state = "ready"
      BY <3>1
    <3>5. \A x \in Receivers :
            /\ receiver'[x].pc \in {"classify", "request"} => receiver'[x].session \in DOMAIN session'
            /\ receiver'[x].pc = "request" => IsReady(receiver[x].session)'
      BY <3>4 DEF IsReady
    <3>6. \A q \in requests' : IsReady(q.session)'
      BY <3>2 DEF IsReady
    <3>7. \A x \in Sessions : posted'[x] <= 1 /\ (posted'[x] = 1 => IsReady(x)')
      BY <2>1, <2>8 DEF IntakeInv, ReadyStaysReady, IsReady
    <3> QED
      BY <3>5, <3>6, <3>7 DEF ReadyStaysReady
  <2> QED
    BY <2>6, <2>7, <2>10 DEF IntakeInv
<1>5. ASSUME NEW r \in Receivers, RequestIssue(r) PROVE IntakeInv'
  <2>1. /\ receiver[r].pc = "request" /\ UNCHANGED <<claims, session, posted>>
        /\ \A q \in requests' : q \in requests \/ q.session = receiver[r].session
        /\ receiver' = [receiver EXCEPT ![r] = Waiting]
    BY <1>5 DEF RequestIssue, Handles
  <2>2. IntakeShapes'
    BY <2>1 DEF IntakeInv, IntakeShapes, Handling
  <2>3. ReadyStaysReady'
    BY <2>1 DEF IntakeInv, IntakeShapes, ReadyStaysReady, IsReady, Waiting
  <2> QED
    BY <2>1, <2>2, <2>3 DEF IntakeInv, RecentIsClaimed
<1>6. CASE ConsumeRequest
  <2>1. PICK q \in requests :
          /\ requests' = requests \ {q}
          /\ posted' = [posted EXCEPT ![q.session] =
                          IF q.suspected \/ @ > 0 THEN @ ELSE @ + 1]
    BY <1>6 DEF ConsumeRequest
  <2>2. UNCHANGED <<claims, session, receiver>>
    BY <1>6 DEF ConsumeRequest
  <2>3. q.session \in Sessions /\ IsReady(q.session)
    BY DEF IntakeInv, IntakeShapes, ReadyStaysReady, IsReady
  <2>4. \A x \in Sessions : posted[x] \in {0, 1}
    BY DEF IntakeInv, IntakeShapes, ReadyStaysReady
  <2>5. posted' \in [Sessions -> Nat]
        /\ \A x \in Sessions : posted'[x] \in {0, 1} /\ (x # q.session => posted'[x] = posted[x])
    <3>1. posted \in [Sessions -> Nat]
      BY DEF IntakeInv, IntakeShapes
    <3>2. posted'[q.session] \in {0, 1} /\ \A x \in Sessions \ {q.session} : posted'[x] = posted[x]
      BY <2>1, <2>3, <2>4, <3>1
    <3>3. DOMAIN posted' = Sessions /\ posted' = [x \in Sessions |-> posted'[x]]
      BY <2>1, <3>1
    <3> QED
      BY <2>4, <3>2, <3>3
  <2>6. IntakeShapes'
    BY <2>2, <2>5 DEF IntakeInv, IntakeShapes
  <2>7. ReadyStaysReady'
    BY <2>1, <2>2, <2>3, <2>5 DEF IntakeInv, ReadyStaysReady, IsReady
  <2> QED
    BY <2>2, <2>6, <2>7 DEF IntakeInv, RecentIsClaimed
<1>7. CASE PassTime
  <2>1. /\ session' = [s \in DOMAIN session |->
              [session[s] EXCEPT !.sinceUser = Older(@), !.sinceOpened = Older(@)]]
        /\ UNCHANGED <<claims, receiver, requests, posted>>
    BY <1>7 DEF PassTime
  <2>2. \A age \in Ages : Older(age) \in Ages /\ Older(age) >= age
    BY IntakeAssumption DEF Ages, Older, Oldest
  <2>3. ASSUME NEW s \in DOMAIN session
        PROVE  /\ session'[s] \in SessionRow
               /\ session'[s].message = session[s].message
               /\ session'[s].state = session[s].state
               /\ session'[s].sinceOpened >= session[s].sinceOpened
               /\ session[s].sinceOpened \in Ages /\ session'[s].sinceOpened \in Ages
    <3>1. session[s] \in SessionRow
      BY DEF IntakeInv, IntakeShapes
    <3> QED
      BY <2>1, <2>2, <3>1 DEF SessionRow
  <2>4. DOMAIN session' = DOMAIN session
    BY <2>1
  <2>5. IntakeShapes'
    BY <2>1, <2>3, <2>4 DEF IntakeInv, IntakeShapes
  <2>6. \A s \in DOMAIN session :
          session'[s].sinceOpened < WindowTicks => session[s].sinceOpened < WindowTicks
    BY <2>3, IntakeAssumption DEF Ages, Oldest
  <2>7. RecentIsClaimed'
    BY <2>1, <2>3, <2>4, <2>6, SessionsChange
  <2>8. ReadyStaysReady'
    BY <2>1, <2>3, <2>4 DEF IntakeInv, ReadyStaysReady, IsReady
  <2> QED
    BY <2>5, <2>7, <2>8 DEF IntakeInv
<1>8. ASSUME NEW s \in Sessions, Sweep(s) PROVE IntakeInv'
  <2>1. /\ s \in DOMAIN session /\ session[s].state \notin Ended
        /\ session' = [session EXCEPT ![s].state = "dropped",
                                      ![s].reason = "inactivity_timeout", ![s].sinceUser = 0]
        /\ UNCHANGED <<claims, receiver, requests, posted>>
    BY <1>8 DEF Sweep, IsInactive
  <2>2. session[s] \in SessionRow /\ DOMAIN session' = DOMAIN session
    BY <2>1 DEF IntakeInv, IntakeShapes
  <2>3. session'[s] \in SessionRow /\ session'[s].message = session[s].message
        /\ session'[s].sinceOpened = session[s].sinceOpened
        /\ \A x \in DOMAIN session : x # s => session'[x] = session[x]
    BY <2>1, <2>2, IntakeAssumption
       DEF IntakeInv, IntakeShapes, SessionRow, SessionStates, Ages, Oldest
  <2>4. session' \in [DOMAIN session -> SessionRow]
    BY <2>1, <2>2, <2>3 DEF IntakeInv, IntakeShapes
  <2>5. IntakeShapes'
    BY <2>1, <2>2, <2>4 DEF IntakeInv, IntakeShapes
  <2>6. RecentIsClaimed'
    BY <2>1, <2>2, <2>3, SessionsChange
  <2>7. \A x \in DOMAIN session : IsReady(x) => IsReady(x)'
    BY <2>1, <2>2, <2>3 DEF IsReady, Ended
  <2>8. ReadyStaysReady'
    BY <2>1, <2>2, <2>7 DEF IntakeInv, ReadyStaysReady, IsReady
  <2> QED
    BY <2>5, <2>6, <2>8 DEF IntakeInv
<1>9. ASSUME NEW r \in Receivers, ReceiverDies(r) PROVE IntakeInv'
  <2>1. receiver' = [receiver EXCEPT ![r] = Waiting]
        /\ UNCHANGED <<claims, session, requests, posted>>
    BY <1>9 DEF ReceiverDies, Handles
  <2>2. IntakeShapes'
    BY <2>1 DEF IntakeInv, IntakeShapes, Handling
  <2>3. ReadyStaysReady'
    BY <2>1 DEF IntakeInv, IntakeShapes, ReadyStaysReady, IsReady, Waiting
  <2> QED
    BY <2>1, <2>2, <2>3 DEF IntakeInv, RecentIsClaimed
<1>10. CASE UNCHANGED intakeVars
  BY <1>10 DEF intakeVars, IntakeInv, IntakeShapes, RecentIsClaimed, ReadyStaysReady, IsReady
<1> QED
  BY <1>1, <1>2, <1>3, <1>4, <1>5, <1>6, <1>7, <1>8, <1>9, <1>10 DEF IntakeNext, ReceiverStep

(* dedup.ts, clarifier.ts: for any messages, sessions and handlers, within  *)
(* the window one message opens one session and one issue, and no issue is  *)
(* opened for a dropped session.                                            *)
THEOREM MessagesOpenOneIssue ==
    IntakeInit /\ [][IntakeNext]_intakeVars => []OneIssuePerWindow
<1>1. IntakeInit => IntakeInv
  BY IntakeInitInv
<1>2. IntakeInv /\ [IntakeNext]_intakeVars => IntakeInv'
  BY IntakeNextInv
<1>3. IntakeInv => OneIssuePerWindow
  BY IntakeInvImplies
<1> QED
  BY <1>1, <1>2, <1>3, PTL

(* What the invariant of intake leaves open. *)
IntakeBounds == deliveries \in 0 .. MaxDeliveries /\ crashes \in 0 .. MaxCrashes

(* The states of claims and sessions have the types they are declared with. *)
LEMMA IntakeTypes == IntakeInit /\ [][IntakeNext]_intakeVars => []IntakeTypeOK
<1>1. IntakeInit => IntakeInv /\ IntakeBounds
  BY IntakeInitInv, IntakeAssumption DEF IntakeInit, IntakeBounds
<1>2. IntakeInv /\ IntakeBounds /\ [IntakeNext]_intakeVars => IntakeInv' /\ IntakeBounds'
  <2> SUFFICES ASSUME IntakeInv, IntakeBounds, [IntakeNext]_intakeVars PROVE IntakeBounds'
    BY IntakeNextInv
  <2>1. \/ deliveries < MaxDeliveries /\ deliveries' = deliveries + 1 /\ crashes' = crashes
        \/ crashes < MaxCrashes /\ crashes' = crashes + 1 /\ deliveries' = deliveries
        \/ UNCHANGED <<deliveries, crashes>>
    BY DEF IntakeNext, Receive, Reply, ReceiverStep, Claim, AdvanceSession, RequestIssue,
           ReceiverDies, ConsumeRequest, PassTime, Sweep, intakeVars
  <2> QED
    BY <2>1, IntakeAssumption DEF IntakeBounds
<1>3. IntakeInv /\ IntakeBounds => IntakeTypeOK
  BY DEF IntakeInv, IntakeShapes, SessionRow, IntakeBounds, IntakeTypeOK
<1> QED
  BY <1>1, <1>2, <1>3, PTL

-----------------------------------------------------------------------------
(* Reviews *)

(* Who a closed row can name. *)
Actors == DismissedBy \union {"", "cgao:reviewer:code", "cgao:reviewer:security"}

(* Rows of review_findings. *)
FindingRow ==
    [class : Classes, blocking : BOOLEAN, status : {"open", "fixed", "dismissed"},
     closedBy : Actors]

(* A review between two of its awaits. *)
RunningReview ==
    [pc : {"store", "record", "summary"}, head : Heads,
     findings : SUBSET Finding, todo : SUBSET Finding]

(* Calls about rows that are there. *)
Finds(rows) == [pc : {"find"}, rest : SUBSET rows, actor : Actors]
Writes(rows) ==
    [pc : {"set", "audit"}, hash : rows, via : {"markFixed", "dismiss", "omission"},
     status : {"fixed", "dismissed"}, actor : Actors, rest : SUBSET rows]
LifecycleCalls(rows) == {Resting} \union Finds(rows) \union Writes(rows)

(* The shapes of the state, without its bounds. *)
ReviewShapes ==
    /\ prHead \in Heads
    /\ review \in [Classes -> {Resting} \union RunningReview]
    /\ findingRows \in [DOMAIN findingRows -> FindingRow]
    /\ closer \in [Closers -> LifecycleCalls(DOMAIN findingRows)]

(* What a call may go on to close for not being mentioned never blocks, and *)
(* what blocks is closed by those who may.                                  *)
Harmless(call) ==
    /\ call.pc = "find" => call.rest # {}
    /\ call.pc \in {"find", "set", "audit"} => \A h \in call.rest : ~findingRows[h].blocking
    /\ call.pc \in {"set", "audit"} /\ findingRows[call.hash].blocking =>
          call.via # "omission" /\ MayCloseBlocking(call.actor, call.hash)

(* A change of a row is in the audit trail, died on its way there, or is    *)
(* about to be written.                                                     *)
Recorded(change) ==
    \/ change \in findingAudit \union unrecorded
    \/ \E k \in Closers : closer[k].pc = "audit" /\ Change(closer[k]) = change

(* Whatever was closed stays closed, was harmless if omitted, was closed by *)
(* those who may if it blocks, and is audited.                              *)
ClosuresAreOfRows ==
    \A c \in closures :
        /\ c.change.hash \in DOMAIN findingRows
        /\ findingRows[c.change.hash].status # "open"
        /\ findingRows[c.change.hash].blocking =>
              c.via # "omission" /\ MayCloseBlocking(c.change.by, c.change.hash)
        /\ Recorded(c.change)

(* A row that is not open shows its close. *)
ClosedRowsSayWho ==
    \A h \in DOMAIN findingRows :
        findingRows[h].status # "open" =>
            \E c \in closures : c.change = [hash |-> h, status |-> findingRows[h].status,
                                            by |-> findingRows[h].closedBy]

ReviewInv ==
    /\ ReviewShapes
    /\ \A k \in Closers : Harmless(closer[k])
    /\ ClosuresAreOfRows
    /\ ClosedRowsSayWho

-----------------------------------------------------------------------------

(* The invariant says it outright; what it adds is about calls that run. *)
LEMMA ReviewInvImplies == ReviewInv => ClosuresAreAccountedFor
BY DEF ReviewInv, ClosuresAreOfRows, ClosedRowsSayWho, Recorded, ClosuresAreAccountedFor

(* Without rows there is nothing to account for. *)
LEMMA ReviewInitInv == ReviewInit => ReviewInv
BY ReviewAssumption DEF ReviewInit, ReviewInv, ReviewShapes, LifecycleCalls, Harmless, ClosuresAreOfRows,
       ClosedRowsSayWho, Resting

(* Parsing an answer gives findings. *)
LEMMA ParseGivesFindings ==
    ASSUME NEW class \in Classes, NEW answer \in Answers[class]
    PROVE  Parse(class, answer) \in SUBSET Finding
<1>1. answer \in SUBSET Finding
  BY ReviewAssumption
<1>2. ASSUME NEW f \in answer
      PROVE  [f EXCEPT !.blocking = f.blocking /\ class = "security"] \in Finding
  <2>1. f \in Finding
    BY <1>1
  <2>2. (f.blocking /\ class = "security") \in BOOLEAN
    OBVIOUS
  <2> QED
    BY <2>1, <2>2 DEF Finding
<1> QED
  BY <1>1, <1>2 DEF Parse

(* The runners' steps that leave the rows alone touch no closing. *)
LEMMA RunnerStepKeeps ==
    ASSUME ReviewInv, prHead' \in Heads, review' \in [Classes -> {Resting} \union RunningReview],
           UNCHANGED <<findingRows, lifecycleVars>>
    PROVE  ReviewInv'
BY DEF ReviewInv, ReviewShapes, Harmless, MayCloseBlocking, ClosuresAreOfRows, ClosedRowsSayWho,
       Recorded, lifecycleVars

(* A call that begins or goes on, before it has written anything. *)
LEMMA NewCallKeeps ==
    ASSUME ReviewInv, NEW k \in Closers, NEW call \in LifecycleCalls(DOMAIN findingRows),
           closer[k].pc # "audit", call.pc # "audit", Harmless(call),
           closer' = [closer EXCEPT ![k] = call],
           UNCHANGED <<prHead, review, findingRows, findingAudit, unrecorded, closures>>
    PROVE  ReviewInv'
<1>1. closer'[k] = call /\ (\A j \in Closers \ {k} : closer'[j] = closer[j])
  BY DEF ReviewInv, ReviewShapes
<1>2. ReviewShapes'
  BY DEF ReviewInv, ReviewShapes
<1>3. \A j \in Closers : Harmless(closer[j])'
  BY <1>1 DEF ReviewInv, Harmless, MayCloseBlocking
<1>4. \A change : Recorded(change) => Recorded(change)'
  BY <1>1 DEF Recorded
<1>5. ClosuresAreOfRows'
  BY <1>4 DEF ReviewInv, ClosuresAreOfRows, MayCloseBlocking
<1>6. ClosedRowsSayWho'
  BY DEF ReviewInv, ClosedRowsSayWho
<1> QED
  BY <1>2, <1>3, <1>5, <1>6 DEF ReviewInv

(* Recording a finding adds an open row or leaves the row there is, so that *)
(* no close is undone.                                                      *)
LEMMA RecordFindingKeeps ==
    ASSUME ReviewInv, NEW class \in Classes, RecordFinding(class)
    PROVE  ReviewInv'
<1> DEFINE todo == review[class].todo
           f == CHOOSE g \in todo : TRUE
           hash == FindingHash(review[class].head, class, f)
<1>1. UNCHANGED <<prHead, closer, findingAudit, closures, unrecorded>> /\ review[class].pc = "record"
  BY DEF RecordFinding, lifecycleVars
<1>2. review[class] \in RunningReview
  BY <1>1 DEF ReviewInv, ReviewShapes, Resting
<1>3. CASE todo = {}
  <2>1. review' = [review EXCEPT ![class].pc = "summary"] /\ UNCHANGED findingRows
    BY <1>3 DEF RecordFinding
  <2>2. review' \in [Classes -> {Resting} \union RunningReview]
    BY <1>2, <2>1 DEF ReviewInv, ReviewShapes, RunningReview
  <2> QED
    BY <1>1, <2>1, <2>2, RunnerStepKeeps DEF lifecycleVars, RecordFinding, ReviewInv, ReviewShapes
<1>4. CASE todo # {}
  <2>1. /\ findingRows' = Upsert(findingRows, hash, OpenRow(class, f))
        /\ review' = [review EXCEPT ![class].todo = @ \ {f}]
    BY <1>4 DEF RecordFinding
  <2>2. f \in Finding
    BY <1>2, <1>4 DEF RunningReview
  <2>3. OpenRow(class, f) \in FindingRow /\ OpenRow(class, f).status = "open"
    BY <2>2 DEF OpenRow, FindingRow, Actors, Finding
  <2> HIDE DEF f, hash, todo
  <2>4. /\ DOMAIN findingRows' = DOMAIN findingRows \union {hash}
        /\ \A h \in DOMAIN findingRows : findingRows'[h] = findingRows[h]
        /\ hash \notin DOMAIN findingRows => findingRows'[hash] = OpenRow(class, f)
        /\ findingRows' \in [DOMAIN findingRows' -> FindingRow]
    BY <2>1, <2>3 DEF Upsert, ReviewInv, ReviewShapes
  <2>5. review' \in [Classes -> {Resting} \union RunningReview]
    BY <1>2, <2>1 DEF ReviewInv, ReviewShapes, RunningReview
  <2>6. closer' \in [Closers -> LifecycleCalls(DOMAIN findingRows')]
    <3>1. LifecycleCalls(DOMAIN findingRows) \subseteq LifecycleCalls(DOMAIN findingRows')
      BY <2>4 DEF LifecycleCalls, Finds, Writes
    <3> QED
      BY <1>1, <3>1 DEF ReviewInv, ReviewShapes
  <2>7. ASSUME NEW k \in Closers PROVE Harmless(closer[k])'
    <3>1. Harmless(closer[k]) /\ closer[k] \in LifecycleCalls(DOMAIN findingRows)
      BY DEF ReviewInv, ReviewShapes
    <3>2. closer[k].pc \in {"find", "set", "audit"} => closer[k].rest \subseteq DOMAIN findingRows
      BY <3>1 DEF LifecycleCalls, Finds, Writes, Resting
    <3>3. closer[k].pc \in {"set", "audit"} => closer[k].hash \in DOMAIN findingRows
      BY <3>1 DEF LifecycleCalls, Finds, Writes, Resting
    <3> QED
      BY <1>1, <2>4, <3>1, <3>2, <3>3 DEF Harmless, MayCloseBlocking
  <2>8. ClosuresAreOfRows'
    BY <1>1, <2>4 DEF ReviewInv, ClosuresAreOfRows, Recorded, MayCloseBlocking
  <2>9. ClosedRowsSayWho'
    BY <1>1, <2>3, <2>4 DEF ReviewInv, ClosedRowsSayWho
  <2> QED
    BY <1>1, <2>4, <2>5, <2>6, <2>7, <2>8, <2>9 DEF ReviewInv, ReviewShapes
<1> QED
  BY <1>3, <1>4

(* Only an open row is closed, by the call that goes on to audit it. *)
LEMMA SetFindingStatusKeeps ==
    ASSUME ReviewInv, NEW k \in Closers, SetFindingStatus(k)
    PROVE  ReviewInv'
<1> DEFINE call == closer[k]
<1>1. /\ call.pc = "set"
      /\ findingRows' = [findingRows EXCEPT ![call.hash].status = call.status,
                                            ![call.hash].closedBy = call.actor]
      /\ closures' = closures \union {[change |-> Change(call), via |-> call.via]}
      /\ closer' = [closer EXCEPT ![k] = [call EXCEPT !.pc = "audit"]]
      /\ UNCHANGED <<prHead, review, findingAudit, unrecorded>>
  BY DEF SetFindingStatus, Call, runnerVars
<1>2. call \in Writes(DOMAIN findingRows) /\ Harmless(call)
  BY <1>1 DEF ReviewInv, ReviewShapes, LifecycleCalls, Finds, Resting
<1> DEFINE moved == [call EXCEPT !.pc = "audit"]
<1>3. /\ moved \in Writes(DOMAIN findingRows) /\ moved.pc = "audit"
      /\ moved.hash = call.hash /\ moved.via = call.via /\ moved.rest = call.rest
      /\ moved.status = call.status /\ moved.actor = call.actor
  BY <1>2 DEF Writes
<1>4. /\ call.hash \in DOMAIN findingRows /\ findingRows[call.hash] \in FindingRow
      /\ call.status \in {"fixed", "dismissed"} /\ call.actor \in Actors
      /\ call.rest \subseteq DOMAIN findingRows
  BY <1>2 DEF ReviewInv, ReviewShapes, Writes
<1>5. /\ closer'[k] = moved
      /\ \A j \in Closers \ {k} : closer'[j] = closer[j]
      /\ closer' \in [Closers -> LifecycleCalls(DOMAIN findingRows)]
  BY <1>1, <1>3 DEF ReviewInv, ReviewShapes, LifecycleCalls
<1> HIDE DEF call, moved
<1>6. /\ DOMAIN findingRows' = DOMAIN findingRows
      /\ \A h \in DOMAIN findingRows \ {call.hash} : findingRows'[h] = findingRows[h]
      /\ findingRows'[call.hash] \in FindingRow
      /\ findingRows'[call.hash].status = call.status
      /\ findingRows'[call.hash].closedBy = call.actor
      /\ findingRows'[call.hash].blocking = findingRows[call.hash].blocking
      /\ findingRows'[call.hash].class = findingRows[call.hash].class
  <2> DEFINE old == findingRows[call.hash]
             done == [[old EXCEPT !.status = call.status] EXCEPT !.closedBy = call.actor]
  <2>1. findingRows' = [findingRows EXCEPT ![call.hash] = done]
    BY <1>1, <1>4
  <2>2. done \in FindingRow /\ done.status = call.status /\ done.closedBy = call.actor
        /\ done.blocking = old.blocking /\ done.class = old.class
    BY <1>4 DEF FindingRow
  <2> HIDE DEF done, old
  <2>3. DOMAIN findingRows' = DOMAIN findingRows /\ findingRows'[call.hash] = done
        /\ \A h \in DOMAIN findingRows \ {call.hash} : findingRows'[h] = findingRows[h]
    BY <1>4, <2>1
  <2> QED
    BY <2>2, <2>3 DEF old
<1>7. ReviewShapes'
  <2>1. findingRows' \in [DOMAIN findingRows' -> FindingRow]
    <3>1. \A h \in DOMAIN findingRows : findingRows'[h] \in FindingRow
      BY <1>6 DEF ReviewInv, ReviewShapes
    <3> QED
      BY <1>1, <1>6, <3>1 DEF ReviewInv, ReviewShapes
  <2> QED
    BY <1>1, <1>5, <1>6, <2>1 DEF ReviewInv, ReviewShapes
<1>8. \A h \in DOMAIN findingRows :
        /\ findingRows'[h].blocking = findingRows[h].blocking
        /\ \A by : MayCloseBlocking(by, h) <=> MayCloseBlocking(by, h)'
  BY <1>6 DEF MayCloseBlocking
<1>9. ASSUME NEW j \in Closers PROVE Harmless(closer[j])'
  <2>1. Harmless(closer[j]) /\ closer[j] \in LifecycleCalls(DOMAIN findingRows)
    BY DEF ReviewInv, ReviewShapes
  <2>2. CASE j = k
    BY <1>2, <1>3, <1>4, <1>5, <1>8, <2>2, <1>1 DEF Harmless
  <2>3. CASE j # k
    <3>1. closer[j].pc \in {"find", "set", "audit"} => closer[j].rest \subseteq DOMAIN findingRows
      BY <2>1 DEF LifecycleCalls, Finds, Writes, Resting
    <3>2. closer[j].pc \in {"set", "audit"} => closer[j].hash \in DOMAIN findingRows
      BY <2>1 DEF LifecycleCalls, Finds, Writes, Resting
    <3> QED
      BY <1>5, <1>8, <2>1, <2>3, <3>1, <3>2 DEF Harmless
  <2> QED
    BY <2>2, <2>3
<1>10. /\ \A change : Recorded(change) => Recorded(change)'
       /\ \A change : change = Change(call) => Recorded(change)'
  <2>1. Change(moved) = Change(call)
    BY <1>3 DEF Change
  <2>2. \A j \in Closers : closer[j].pc = "audit" => j # k
    BY <1>1 DEF call
  <2> QED
    BY <1>1, <1>3, <1>5, <2>1, <2>2 DEF Recorded
<1>11. ClosuresAreOfRows'
  <2> SUFFICES ASSUME NEW c \in closures'
               PROVE  /\ c.change.hash \in DOMAIN findingRows'
                      /\ findingRows'[c.change.hash].status # "open"
                      /\ findingRows'[c.change.hash].blocking =>
                            c.via # "omission" /\ MayCloseBlocking(c.change.by, c.change.hash)'
                      /\ Recorded(c.change)'
    BY DEF ClosuresAreOfRows
  <2>1. CASE c \in closures
    <3>1. c.change.hash \in DOMAIN findingRows /\ findingRows[c.change.hash].status # "open"
          /\ (findingRows[c.change.hash].blocking =>
                 c.via # "omission" /\ MayCloseBlocking(c.change.by, c.change.hash))
          /\ Recorded(c.change)
      BY <2>1 DEF ReviewInv, ClosuresAreOfRows
    <3>2. Recorded(c.change)'
      BY <1>10, <3>1
    <3> QED
      BY <1>4, <1>6, <1>8, <3>1, <3>2
  <2>2. CASE c = [change |-> Change(call), via |-> call.via]
    <3>1. /\ c.change = Change(call) /\ c.change.hash = call.hash
          /\ c.change.by = call.actor /\ c.via = call.via
      BY <2>2 DEF Change
    <3>3. Recorded(c.change)'
      BY <1>10, <3>1
    <3>2. findingRows[call.hash].blocking =>
            call.via # "omission" /\ MayCloseBlocking(call.actor, call.hash)
      BY <1>1, <1>2 DEF Harmless, call
    <3> QED
      BY <1>4, <1>6, <1>8, <3>1, <3>2, <3>3
  <2> QED
    BY <1>1, <2>1, <2>2
<1>12. ClosedRowsSayWho'
  <2> SUFFICES ASSUME NEW h \in DOMAIN findingRows, findingRows'[h].status # "open"
               PROVE  \E c \in closures' :
                        c.change = [hash |-> h, status |-> findingRows'[h].status,
                                    by |-> findingRows'[h].closedBy]
    BY <1>6 DEF ClosedRowsSayWho
  <2>1. CASE h = call.hash
    <3> DEFINE c == [change |-> Change(call), via |-> call.via]
    <3>1. c \in closures' /\ c.change = [hash |-> h, status |-> findingRows'[h].status,
                                         by |-> findingRows'[h].closedBy]
      BY <1>1, <1>6, <2>1 DEF Change
    <3> QED
      BY <3>1
  <2>2. CASE h # call.hash
    BY <1>1, <1>6, <2>2 DEF ReviewInv, ClosedRowsSayWho
  <2> QED
    BY <2>1, <2>2
<1> QED
  BY <1>7, <1>9, <1>11, <1>12 DEF ReviewInv

(* A call that ends, or goes on to the next row, leaves what it wrote       *)
(* recorded.                                                                *)
LEMMA CallEndsKeeps ==
    ASSUME ReviewInv, NEW k \in Closers, NEW call \in LifecycleCalls(DOMAIN findingRows),
           call.pc # "audit", Harmless(call), closer' = [closer EXCEPT ![k] = call],
           closer[k].pc = "audit" => Change(closer[k]) \in findingAudit' \union unrecorded',
           findingAudit \subseteq findingAudit', unrecorded \subseteq unrecorded',
           UNCHANGED <<prHead, review, findingRows, closures>>
    PROVE  ReviewInv'
<1>1. closer'[k] = call /\ (\A j \in Closers \ {k} : closer'[j] = closer[j])
  BY DEF ReviewInv, ReviewShapes
<1>2. ReviewShapes'
  BY DEF ReviewInv, ReviewShapes
<1>3. \A j \in Closers : Harmless(closer[j])'
  BY <1>1 DEF ReviewInv, Harmless, MayCloseBlocking
<1>4. \A change : Recorded(change) => Recorded(change)'
  BY <1>1 DEF Recorded
<1>5. ClosuresAreOfRows'
  BY <1>4 DEF ReviewInv, ClosuresAreOfRows, MayCloseBlocking
<1>6. ClosedRowsSayWho'
  BY DEF ReviewInv, ClosedRowsSayWho
<1> QED
  BY <1>2, <1>3, <1>5, <1>6 DEF ReviewInv

(* The calls that begin are about rows that are there; those that close for *)
(* omission are about rows that do not block, the others by those who may.  *)
LEMMA WritingFits ==
    ASSUME NEW hash \in DOMAIN findingRows, NEW via \in {"markFixed", "dismiss", "omission"},
           NEW status \in {"fixed", "dismissed"}, NEW actor \in Actors,
           NEW rest \in SUBSET DOMAIN findingRows,
           \A h \in rest : ~findingRows[h].blocking,
           findingRows[hash].blocking => via # "omission" /\ MayCloseBlocking(actor, hash)
    PROVE  /\ Writing(hash, via, status, actor, rest) \in LifecycleCalls(DOMAIN findingRows)
           /\ Writing(hash, via, status, actor, rest).pc = "set"
           /\ Harmless(Writing(hash, via, status, actor, rest))
BY DEF Writing, LifecycleCalls, Writes, Harmless

(* Every step of a review and of a closer keeps the invariant. *)
LEMMA ReviewNextInv == ReviewInv /\ [ReviewNext]_reviewVars => ReviewInv'
<1> SUFFICES ASSUME ReviewInv, [ReviewNext]_reviewVars PROVE ReviewInv'
  OBVIOUS
<1>1. CASE PushForReview
  BY <1>1, RunnerStepKeeps DEF PushForReview, runnerVars, ReviewInv, ReviewShapes
<1>2. ASSUME NEW c \in Classes, StartReview(c) PROVE ReviewInv'
  <2>1. PICK answer \in Answers[c] :
          review' = [review EXCEPT ![c] =
             [pc |-> "store", head |-> prHead, findings |-> Parse(c, answer),
              todo |-> Parse(c, answer)]]
    BY <1>2 DEF StartReview
  <2>2. Parse(c, answer) \in SUBSET Finding
    BY ParseGivesFindings
  <2>3. UNCHANGED <<findingRows, lifecycleVars>> /\ prHead \in Heads /\ prHead' \in Heads
    BY <1>2 DEF StartReview, ReviewInv, ReviewShapes
  <2>4. review' \in [Classes -> {Resting} \union RunningReview]
    BY <2>1, <2>2, <2>3 DEF ReviewInv, ReviewShapes, RunningReview
  <2> QED
    BY <2>3, <2>4, RunnerStepKeeps
<1>3. ASSUME NEW c \in Classes, StoreResult(c) PROVE ReviewInv'
  <2>1. review[c] \in RunningReview
    BY <1>3 DEF StoreResult, ReviewInv, ReviewShapes, Resting
  <2>2. review' \in [Classes -> {Resting} \union RunningReview]
    BY <1>3, <2>1 DEF StoreResult, ReviewInv, ReviewShapes, RunningReview
  <2> QED
    BY <1>3, <2>2, RunnerStepKeeps DEF StoreResult, ReviewInv, ReviewShapes
<1>4. ASSUME NEW c \in Classes, RecordFinding(c) PROVE ReviewInv'
  BY <1>4, RecordFindingKeeps
<1>5. ASSUME NEW c \in Classes, PostSummary(c) \/ ReviewThrows(c) PROVE ReviewInv'
  BY <1>5, RunnerStepKeeps DEF PostSummary, ReviewThrows, ReviewInv, ReviewShapes
<1>6. ASSUME NEW k \in Closers, MarkFixed(k) PROVE ReviewInv'
  <2>1. PICK hash \in DOMAIN findingRows, class \in Classes :
           /\ closer' = [closer EXCEPT ![k] = Writing(hash, "markFixed", "fixed", Reviewer(class), {})]
           /\ findingRows[hash].class = class
    BY <1>6 DEF MarkFixed, Call
  <2>2. Reviewer(class) \in Actors
    BY DEF Reviewer, Actors
  <2>3. closer[k].pc # "audit" /\ UNCHANGED <<prHead, review, findingRows, findingAudit, unrecorded, closures>>
    <3>1. closer[k] = Resting
      BY <1>6 DEF MarkFixed
    <3>2. UNCHANGED <<prHead, review, findingRows, findingAudit, unrecorded, closures>>
      BY <1>6 DEF MarkFixed, runnerVars
    <3> QED
      BY <3>1, <3>2 DEF Resting
  <2> DEFINE call == Writing(hash, "markFixed", "fixed", Reviewer(class), {})
  <2>4. call \in LifecycleCalls(DOMAIN findingRows) /\ call.pc = "set" /\ Harmless(call)
    BY <2>1, <2>2, WritingFits DEF MayCloseBlocking
  <2> HIDE DEF call
  <2> QED
    BY <2>1, <2>3, <2>4, NewCallKeeps DEF call
<1>7. ASSUME NEW k \in Closers, Dismiss(k) PROVE ReviewInv'
  <2>1. PICK hash \in DOMAIN findingRows, by \in DismissedBy :
           closer' = [closer EXCEPT ![k] = Writing(hash, "dismiss", "dismissed", by, {})]
    BY <1>7 DEF Dismiss, Call
  <2>2. by \in Actors
    BY DEF Actors
  <2>3. closer[k].pc # "audit" /\ UNCHANGED <<prHead, review, findingRows, findingAudit, unrecorded, closures>>
    BY <1>7 DEF Dismiss, runnerVars, Resting
  <2> DEFINE call == Writing(hash, "dismiss", "dismissed", by, {})
  <2>4. call \in LifecycleCalls(DOMAIN findingRows) /\ call.pc = "set" /\ Harmless(call)
    BY <2>2, WritingFits DEF MayCloseBlocking
  <2> HIDE DEF call
  <2> QED
    BY <2>1, <2>3, <2>4, NewCallKeeps DEF call
<1>8. ASSUME NEW k \in Closers, SweepOmitted(k) PROVE ReviewInv'
  <2>1. PICK s \in summaries :
          LET omitted == Omitted({FindingHash(s.head, s.class, f) : f \in s.findings})
          IN omitted # {} /\ closer' = [closer EXCEPT ![k] = FindNext(omitted, Reviewer(s.class))]
    BY <1>8 DEF SweepOmitted, Call
  <2> DEFINE omitted == Omitted({FindingHash(s.head, s.class, f) : f \in s.findings})
             call == FindNext(omitted, Reviewer(s.class))
  <2>2. omitted # {} /\ closer' = [closer EXCEPT ![k] = call]
    BY <2>1
  <2>3. omitted \subseteq DOMAIN findingRows /\ \A h \in omitted : ~findingRows[h].blocking
    BY DEF Omitted
  <2>4. closer[k].pc # "audit" /\ UNCHANGED <<prHead, review, findingRows, findingAudit, unrecorded, closures>>
    BY <1>8 DEF SweepOmitted, runnerVars, Resting
  <2> HIDE DEF omitted
  <2>5. call \in LifecycleCalls(DOMAIN findingRows) /\ call.pc # "audit" /\ Harmless(call)
    BY <2>2, <2>3 DEF FindNext, LifecycleCalls, Finds, Harmless, Reviewer, Actors
  <2> HIDE DEF call
  <2> QED
    BY <2>2, <2>4, <2>5, NewCallKeeps
<1>9. ASSUME NEW k \in Closers, FindOmitted(k) PROVE ReviewInv'
  <2> DEFINE rest == closer[k].rest
             hash == CHOOSE h \in rest : TRUE
             call == IF IsOpen(hash)
                     THEN Writing(hash, "omission", "fixed", closer[k].actor, rest \ {hash})
                     ELSE Resting
  <2>1. /\ closer[k].pc = "find" /\ closer' = [closer EXCEPT ![k] = call]
        /\ UNCHANGED <<prHead, review, findingRows, findingAudit, unrecorded, closures>>
    BY <1>9 DEF FindOmitted, Call, runnerVars
  <2>2. closer[k] \in Finds(DOMAIN findingRows) /\ Harmless(closer[k])
    BY <2>1 DEF ReviewInv, ReviewShapes, LifecycleCalls, Writes, Resting
  <2>3. rest \subseteq DOMAIN findingRows /\ rest # {} /\ \A h \in rest : ~findingRows[h].blocking
    BY <2>1, <2>2 DEF Finds, Harmless
  <2>4. hash \in rest
    BY <2>3
  <2> HIDE DEF hash, rest
  <2>5. closer[k].actor \in Actors
    BY <2>2 DEF Finds
  <2>6. call \in LifecycleCalls(DOMAIN findingRows) /\ call.pc # "audit" /\ Harmless(call)
    <3>1. CASE IsOpen(hash)
      <4>1. rest \ {hash} \in SUBSET DOMAIN findingRows
            /\ \A h \in rest \ {hash} : ~findingRows[h].blocking
        BY <2>3
      <4> QED
        BY <2>3, <2>4, <2>5, <3>1, <4>1, WritingFits
    <3>2. CASE ~IsOpen(hash)
      BY <3>2 DEF LifecycleCalls, Harmless, Resting
    <3> QED
      BY <3>1, <3>2
  <2> HIDE DEF call
  <2> QED
    BY <2>1, <2>6, NewCallKeeps
<1>10. ASSUME NEW k \in Closers, SetFindingStatus(k) PROVE ReviewInv'
  BY <1>10, SetFindingStatusKeeps
<1>11. ASSUME NEW k \in Closers, RecordClose(k) PROVE ReviewInv'
  <2> DEFINE call == IF closer[k].rest = {} THEN Resting ELSE FindNext(closer[k].rest, closer[k].actor)
  <2>1. /\ closer[k].pc = "audit" /\ closer' = [closer EXCEPT ![k] = call]
        /\ findingAudit' = findingAudit \union {Change(closer[k])}
        /\ UNCHANGED <<prHead, review, findingRows, unrecorded, closures>>
    BY <1>11 DEF RecordClose, Call, runnerVars
  <2>2. closer[k] \in Writes(DOMAIN findingRows) /\ Harmless(closer[k])
    BY <2>1 DEF ReviewInv, ReviewShapes, LifecycleCalls, Finds, Resting
  <2>3. call \in LifecycleCalls(DOMAIN findingRows) /\ call.pc # "audit" /\ Harmless(call)
    BY <2>1, <2>2 DEF FindNext, LifecycleCalls, Finds, Writes, Harmless, Resting
  <2> HIDE DEF call
  <2> QED
    BY <2>1, <2>3, CallEndsKeeps
<1>12. ASSUME NEW k \in Closers, LifecycleThrows(k) PROVE ReviewInv'
  <2>1. /\ closer' = [closer EXCEPT ![k] = Resting]
        /\ unrecorded' = IF closer[k].pc = "audit" THEN unrecorded \union {Change(closer[k])}
                         ELSE unrecorded
        /\ UNCHANGED <<prHead, review, findingRows, findingAudit, closures>>
    BY <1>12 DEF LifecycleThrows, Call, runnerVars
  <2>2. Resting \in LifecycleCalls(DOMAIN findingRows) /\ Resting.pc # "audit" /\ Harmless(Resting)
    BY DEF LifecycleCalls, Harmless, Resting
  <2> QED
    BY <2>1, <2>2, CallEndsKeeps
<1>13. CASE UNCHANGED reviewVars
  BY <1>13, RunnerStepKeeps DEF reviewVars, lifecycleVars, ReviewInv, ReviewShapes
<1> QED
  BY <1>1, <1>2, <1>3, <1>4, <1>5, <1>6, <1>7, <1>8, <1>9, <1>10, <1>11, <1>12, <1>13 DEF ReviewNext

(* finding-lifecycle.ts, review-finding-repo.ts: for any heads, answers and *)
(* callers, a closed row says who closed it and the close is audited unless *)
(* its call died, and no blocking row is closed for not being mentioned.    *)
THEOREM ClosuresAccountedFor ==
    ReviewInit /\ [][ReviewNext]_reviewVars => []ClosuresAreAccountedFor
<1>1. ReviewInit => ReviewInv
  BY ReviewInitInv
<1>2. ReviewInv /\ [ReviewNext]_reviewVars => ReviewInv'
  BY ReviewNextInv
<1>3. ReviewInv => ClosuresAreAccountedFor
  BY ReviewInvImplies
<1> QED
  BY <1>1, <1>2, <1>3, PTL

(* The rules a reviewer can name. *)
Rules == {f.rule : f \in UNION UNION {Answers[c] : c \in Classes}}

(* A review goes through findings a reviewer can have, and a row is of its  *)
(* finding's class.                                                         *)
ReviewTypeInv ==
    /\ \A c \in Classes : review[c] # Resting => \A f \in review[c].todo : f.rule \in Rules
    /\ DOMAIN findingRows \subseteq FindingHashes
    /\ \A h \in DOMAIN findingRows : findingRows[h].class = h[2]
    /\ reviews \in 0 .. MaxReviews /\ closes \in 0 .. MaxCloses
    /\ reviewPushes \in 0 .. MaxReviewPushes

(* A parsed finding has a class that was asked for, and names its rule or   *)
(* that of its class.                                                       *)
LEMMA ParsedRules ==
    ASSUME NEW class \in Classes, NEW answer \in Answers[class], NEW f \in Parse(class, answer)
    PROVE  f.rule \in Rules
<1>1. answer \in SUBSET Finding
  BY ReviewAssumption
<1>2. PICK g \in answer : f = [g EXCEPT !.blocking = g.blocking /\ class = "security"]
  BY DEF Parse
<1>3. f.rule = g.rule
  BY <1>1, <1>2 DEF Finding
<1>4. answer \in UNION {Answers[c] : c \in Classes}
  OBVIOUS
<1>5. g \in UNION UNION {Answers[c] : c \in Classes}
  BY <1>4
<1> QED
  BY <1>3, <1>5 DEF Rules

(* Every step of reviews and closers keeps the types. *)
LEMMA ReviewNextTypes ==
    ReviewInv /\ ReviewTypeInv /\ [ReviewNext]_reviewVars => ReviewTypeInv'
<1> SUFFICES ASSUME ReviewInv, ReviewTypeInv, [ReviewNext]_reviewVars PROVE ReviewTypeInv'
  OBVIOUS
<1>0. review \in [Classes -> {Resting} \union RunningReview]
      /\ findingRows \in [DOMAIN findingRows -> FindingRow]
  BY DEF ReviewInv, ReviewShapes
<1>1. CASE PushForReview
  BY <1>1, ReviewAssumption DEF PushForReview, runnerVars, lifecycleVars, ReviewTypeInv
<1>2. ASSUME NEW c \in Classes, StartReview(c) PROVE ReviewTypeInv'
  <2>1. PICK answer \in Answers[c] :
           review' = [review EXCEPT ![c] = [pc |-> "store", head |-> prHead,
                        findings |-> Parse(c, answer), todo |-> Parse(c, answer)]]
    BY <1>2 DEF StartReview
  <2>2. ASSUME NEW d \in Classes, review'[d] # Resting, NEW f \in review'[d].todo
        PROVE  f.rule \in Rules
    <3>1. CASE d = c
      <4>1. f \in Parse(c, answer)
        BY <1>0, <2>1, <2>2, <3>1
      <4> QED
        BY <4>1, ParsedRules
    <3>2. CASE d # c
      <4>1. review'[d] = review[d]
        BY <1>0, <2>1, <3>2
      <4> QED
        BY <2>2, <4>1 DEF ReviewTypeInv
    <3> QED
      BY <3>1, <3>2
  <2>3. reviews' \in 0 .. MaxReviews
    BY <1>2, ReviewAssumption DEF StartReview, ReviewTypeInv
  <2> QED
    BY <1>2, <2>2, <2>3 DEF StartReview, lifecycleVars, ReviewTypeInv
<1>3. ASSUME NEW c \in Classes, RecordFinding(c) PROVE ReviewTypeInv'
  <2>1. review[c] \in RunningReview /\ review[c] # Resting
    BY <1>0, <1>3 DEF RecordFinding, Resting
  <2>2. \A f \in review[c].todo : f.rule \in Rules
    BY <2>1 DEF ReviewTypeInv
  <2>3. UNCHANGED <<prHead, reviewResults, summaries, reviews, lifecycleVars, reviewPushes>>
    BY <1>3 DEF RecordFinding
  <2>4. CASE review[c].todo = {}
    <3>1. review' = [review EXCEPT ![c].pc = "summary"] /\ findingRows' = findingRows
      BY <1>3, <2>4 DEF RecordFinding
    <3>2. \A d \in Classes : review'[d] = review[d] \/ (d = c /\ review'[d].todo = review[d].todo)
      BY <1>0, <2>1, <3>1 DEF RunningReview
    <3>3. \A d \in Classes : review'[d] # Resting => \A f \in review'[d].todo : f.rule \in Rules
      BY <2>2, <3>2 DEF ReviewTypeInv
    <3> QED
      BY <2>3, <3>1, <3>3 DEF lifecycleVars, ReviewTypeInv
  <2>5. CASE review[c].todo # {}
    <3> DEFINE f == CHOOSE g \in review[c].todo : TRUE
    <3>1. /\ findingRows' = Upsert(findingRows, FindingHash(review[c].head, c, f), OpenRow(c, f))
          /\ review' = [review EXCEPT ![c].todo = @ \ {f}]
      BY <1>3, <2>5 DEF RecordFinding
    <3>2. f \in review[c].todo
      BY <2>5
    <3> HIDE DEF f
    <3>3. \A d \in Classes :
             review'[d] = review[d] \/ (d = c /\ review'[d].todo \subseteq review[d].todo)
      BY <1>0, <2>1, <3>1 DEF RunningReview
    <3>4. \A d \in Classes : review'[d] # Resting => \A g \in review'[d].todo : g.rule \in Rules
      BY <2>2, <3>3 DEF ReviewTypeInv
    <3> DEFINE hash == FindingHash(review[c].head, c, f)
    <3>5. hash \in FindingHashes /\ hash[2] = c
      <4>1. f.rule \in Rules /\ review[c].head \in Heads
        BY <2>1, <2>2, <3>2 DEF RunningReview
      <4> QED
        BY <4>1 DEF FindingHash, FindingHashes, Rules
    <3>6. OpenRow(c, f).class = c
      BY DEF OpenRow
    <3> HIDE DEF hash
    <3>7. /\ DOMAIN findingRows' = DOMAIN findingRows \union {hash}
          /\ \A h \in DOMAIN findingRows' :
                findingRows'[h] = IF h \in DOMAIN findingRows THEN findingRows[h] ELSE OpenRow(c, f)
      BY <3>1 DEF Upsert, hash
    <3>8. /\ DOMAIN findingRows' \subseteq FindingHashes
          /\ \A h \in DOMAIN findingRows' : findingRows'[h].class = h[2]
      BY <3>5, <3>6, <3>7 DEF ReviewTypeInv
    <3> QED
      BY <2>3, <3>4, <3>8 DEF lifecycleVars, ReviewTypeInv
  <2> QED
    BY <2>4, <2>5
<1>4. ASSUME NEW c \in Classes, StoreResult(c) \/ PostSummary(c) \/ ReviewThrows(c)
      PROVE  ReviewTypeInv'
  <2>1. UNCHANGED <<findingRows, reviews, closes, reviewPushes>>
    BY <1>4 DEF StoreResult, PostSummary, ReviewThrows, lifecycleVars
  <2>2. review[c] \in RunningReview /\ review[c] # Resting
    BY <1>0, <1>4 DEF StoreResult, PostSummary, ReviewThrows, Resting
  <2>3. \/ review' = [review EXCEPT ![c].pc = "record"]
        \/ review' = [review EXCEPT ![c] = Resting]
    BY <1>4 DEF StoreResult, PostSummary, ReviewThrows
  <2>4. \A d \in Classes :
           review'[d] = review[d] \/ review'[d] = Resting
             \/ (d = c /\ review'[d].todo = review[d].todo)
    BY <1>0, <2>2, <2>3 DEF RunningReview
  <2>5. \A d \in Classes : review'[d] # Resting => \A f \in review'[d].todo : f.rule \in Rules
    BY <2>2, <2>4 DEF ReviewTypeInv
  <2> QED
    BY <2>1, <2>5 DEF ReviewTypeInv
<1>5. ASSUME NEW k \in Closers, MarkFixed(k) \/ Dismiss(k) \/ SweepOmitted(k) PROVE ReviewTypeInv'
  <2>1. closes < MaxCloses /\ closes' = closes + 1
        /\ UNCHANGED <<prHead, runnerVars, findingRows, reviewPushes>>
    BY <1>5 DEF MarkFixed, Dismiss, SweepOmitted
  <2> QED
    BY <2>1, ReviewAssumption DEF runnerVars, ReviewTypeInv
<1>6. ASSUME NEW k \in Closers, SetFindingStatus(k) PROVE ReviewTypeInv'
  <2>1. /\ findingRows' = [findingRows EXCEPT ![closer[k].hash].status = closer[k].status,
                                              ![closer[k].hash].closedBy = closer[k].actor]
        /\ UNCHANGED <<prHead, runnerVars, closes, reviewPushes>>
    BY <1>6 DEF SetFindingStatus
  <2>2. DOMAIN findingRows' = DOMAIN findingRows
    BY <2>1
  <2>3. \A h \in DOMAIN findingRows : findingRows'[h].class = findingRows[h].class
    BY <1>0, <2>1 DEF FindingRow
  <2> QED
    BY <2>1, <2>2, <2>3 DEF runnerVars, ReviewTypeInv
<1>7. ASSUME NEW k \in Closers, FindOmitted(k) \/ RecordClose(k) \/ LifecycleThrows(k)
      PROVE  ReviewTypeInv'
  <2>1. UNCHANGED <<review, findingRows, reviews, closes, reviewPushes>>
    BY <1>7 DEF FindOmitted, RecordClose, LifecycleThrows, runnerVars
  <2> QED
    BY <2>1 DEF ReviewTypeInv
<1>8. CASE UNCHANGED reviewVars
  BY <1>8 DEF reviewVars, ReviewTypeInv
<1> QED
  BY <1>1, <1>2, <1>3, <1>4, <1>5, <1>6, <1>7, <1>8 DEF ReviewNext

(* The states of reviews and findings have the types they are declared      *)
(* with.                                                                    *)
LEMMA ReviewTypes == ReviewInit /\ [][ReviewNext]_reviewVars => []ReviewTypeOK
<1>1. ReviewInit => ReviewInv /\ ReviewTypeInv
  <2>1. ReviewInit => ReviewTypeInv
    BY ReviewAssumption DEF ReviewInit, ReviewTypeInv
  <2> QED
    BY <2>1, ReviewInitInv
<1>2. ReviewInv /\ ReviewTypeInv /\ [ReviewNext]_reviewVars => ReviewInv' /\ ReviewTypeInv'
  BY ReviewNextInv, ReviewNextTypes
<1>3. ReviewInv /\ ReviewTypeInv => ReviewTypeOK
  BY DEF ReviewInv, ReviewShapes, FindingRow, ReviewTypeInv, ReviewTypeOK
<1> QED
  BY <1>1, <1>2, <1>3, PTL

-----------------------------------------------------------------------------
(* The test-fix loop *)

(* The rounds whose gate showed fingerprint fp, while the rounds were R. *)
Shown(R, fp) == {i \in 1 .. Len(R) : fp \in Fingerprints(R[i].gate)}

(* The controller has counted a gate it has not recorded yet. *)
Holding == {"debugger", "fix", "persist", "persist_blocked"}
Held1(fp) == IF loop.pc \in Holding /\ fp \in Fingerprints(loop.gate) THEN 1 ELSE 0

(* The controller's records of a round. *)
RoundRecords == [gate : Breakages \union {{}}, fix : {"placeholder", "artifact"}]

(* The shapes of the state, without its bounds. *)
LoopShapes ==
    /\ broken \in Breakages
    /\ loop \in [pc : Awaits \union Verdicts \union {"thrown"}, round : 1 .. MaxRounds,
                 gate : Breakages \union {{}}]
    /\ seen \in [DOMAIN seen -> Nat]
    /\ rounds \in Seq(RoundRecords)

(* How many rounds there are, which of them were repaired and who was sent  *)
(* in for which.                                                            *)
RoundsInv ==
    /\ loop.pc \in Awaits => Len(rounds) = loop.round - 1
    /\ loop.pc \in Holding => loop.gate # {}
    /\ loop.pc \in {"gate", "persist_blocked"} => loop.round \notin sent
    /\ loop.pc \in Awaits => sent \subseteq 1 .. loop.round
    /\ fixes = {i \in 1 .. Len(rounds) : rounds[i].gate # {}}
    /\ loop.pc # "FIXED" => \A i \in 1 .. Len(rounds) : rounds[i].gate # {}
    /\ loop.pc = "GIVE_UP" => Len(rounds) = MaxRounds
    /\ loop.pc = "FIXED" => broken = {}

(* The counts are those of the rounds, and end the loop when they should. *)
CountsInv ==
    /\ loop.pc # "thrown" => \A fp : Count(seen, fp) = Cardinality(Shown(rounds, fp)) + Held1(fp)
    /\ loop.pc \in {"gate", "debugger", "fix", "persist"} =>
         \A fp : Count(seen, fp) < SameFingerprintLimit
    /\ loop.pc = "persist_blocked" =>
         \E fp : Count(seen, fp) >= SameFingerprintLimit
    /\ loop.pc = "BLOCKED" => \E fp : Cardinality(Shown(rounds, fp)) >= SameFingerprintLimit
    /\ loop.pc # "BLOCKED" => \A fp : Cardinality(Shown(rounds, fp)) < SameFingerprintLimit
    /\ \A fp : Cardinality(Shown(rounds, fp) \intersect sent) < SameFingerprintLimit

LoopInv == LoopShapes /\ RoundsInv /\ CountsInv

(* A set of rounds is finite. *)
LEMMA RoundsAreFew ==
    ASSUME NEW R \in Seq(RoundRecords), NEW S \in SUBSET (1 .. Len(R))
    PROVE  IsFiniteSet(S) /\ Cardinality(S) \in Nat
<1>1. Len(R) \in Nat /\ IsFiniteSet(1 .. Len(R))
  BY LenProperties, FS_Interval
<1> QED
  BY <1>1, FS_Subset, FS_CardinalityType

(* Tally adds one for each fingerprint it is given, counted before or not. *)
LEMMA TallyCounts ==
    ASSUME NEW counts, NEW fps, counts \in [DOMAIN counts -> Nat]
    PROVE  /\ Tally(counts, fps) \in [DOMAIN Tally(counts, fps) -> Nat]
           /\ \A fp : /\ Count(counts, fp) \in Nat
                      /\ Count(Tally(counts, fps), fp) = Count(counts, fp) + (IF fp \in fps THEN 1 ELSE 0)
<1>1. \A fp : Count(counts, fp) \in Nat
  BY DEF Count
<1>2. \A fp : Count(counts, fp) + (IF fp \in fps THEN 1 ELSE 0) \in Nat
  BY <1>1
<1>3. /\ DOMAIN Tally(counts, fps) = DOMAIN counts \union fps
      /\ \A fp \in DOMAIN counts \union fps :
            Tally(counts, fps)[fp] = Count(counts, fp) + (IF fp \in fps THEN 1 ELSE 0)
  BY DEF Tally
<1>4. Tally(counts, fps) \in [DOMAIN counts \union fps -> Nat]
  BY <1>2 DEF Tally
<1>5. ASSUME NEW fp
      PROVE  Count(Tally(counts, fps), fp) = Count(counts, fp) + (IF fp \in fps THEN 1 ELSE 0)
  <2>1. CASE fp \in DOMAIN counts \union fps
    BY <1>3, <2>1 DEF Count
  <2>2. CASE fp \notin DOMAIN counts \union fps
    BY <1>3, <2>2 DEF Count
  <2> QED
    BY <2>1, <2>2
<1> QED
  BY <1>1, <1>3, <1>4, <1>5

(* Round e is recorded after the rounds of R. *)
OneMoreRound(R, e, R2) == R2 = Append(R, e)

(* What OneMoreRound says of the sequence. *)
LEMMA RoundIsAppended ==
    ASSUME NEW R \in Seq(RoundRecords), NEW e \in RoundRecords, NEW R2, OneMoreRound(R, e, R2)
    PROVE  /\ R2 \in Seq(RoundRecords) /\ Len(R) \in Nat /\ Len(R2) = Len(R) + 1
           /\ \A i \in 1 .. Len(R) : R2[i] = R[i]
           /\ R2[Len(R) + 1] = e
BY AppendProperties, LenProperties DEF OneMoreRound

(* It counts once for each fingerprint its gate showed. *)
LEMMA RoundIsCounted ==
    ASSUME NEW R \in Seq(RoundRecords), NEW e \in RoundRecords, NEW R2, OneMoreRound(R, e, R2), NEW fp
    PROVE  /\ Shown(R2, fp) = IF fp \in Fingerprints(e.gate) THEN Shown(R, fp) \union {Len(R) + 1}
                              ELSE Shown(R, fp)
           /\ Cardinality(Shown(R, fp)) \in Nat
           /\ Cardinality(Shown(R2, fp)) = Cardinality(Shown(R, fp)) +
                (IF fp \in Fingerprints(e.gate) THEN 1 ELSE 0)
<1>1. /\ R2 \in Seq(RoundRecords) /\ Len(R) \in Nat /\ Len(R2) = Len(R) + 1
      /\ \A i \in 1 .. Len(R) : R2[i] = R[i]
      /\ R2[Len(R) + 1] = e
  BY RoundIsAppended
<1>2. 1 .. Len(R2) = (1 .. Len(R)) \union {Len(R) + 1} /\ Len(R) + 1 \notin 1 .. Len(R)
  BY <1>1
<1>3. Shown(R2, fp) = IF fp \in Fingerprints(e.gate) THEN Shown(R, fp) \union {Len(R) + 1}
                      ELSE Shown(R, fp)
  BY <1>1, <1>2 DEF Shown
<1>4. Shown(R, fp) \in SUBSET (1 .. Len(R))
  BY DEF Shown
<1>5. IsFiniteSet(Shown(R, fp)) /\ Cardinality(Shown(R, fp)) \in Nat
  BY <1>4, RoundsAreFew
<1>6. Cardinality(Shown(R, fp) \union {Len(R) + 1}) = Cardinality(Shown(R, fp)) + 1
  BY <1>2, <1>4, <1>5, FS_AddElement
<1> QED
  BY <1>1, <1>3, <1>5, <1>6

(* The verdicts follow: a failure an adapter keeps reporting keeps its      *)
(* fingerprint, so that the rounds it broke are among those counted for it; *)
(* and whichever fingerprint blocked the loop was shown by some readable    *)
(* failure.                                                                 *)
LEMMA LoopInvImplies ==
    LoopInv => VerdictsFollowTheRounds
<1> SUFFICES ASSUME LoopInv PROVE VerdictsFollowTheRounds
  OBVIOUS
<1> DEFINE Broke(f) == {i \in DOMAIN rounds : f \in rounds[i].gate}
           Showed(t) == {i \in DOMAIN rounds : t \in Templates(rounds[i].gate)}
           Readable == {f \in UNION Breakages : f[2] \in DOMAIN Template}
<1>1. /\ rounds \in Seq(RoundRecords) /\ Len(rounds) \in Nat /\ DOMAIN rounds = 1 .. Len(rounds)
      /\ \A i \in 1 .. Len(rounds) : rounds[i].gate \in Breakages \union {{}}
  <2>1. rounds \in Seq(RoundRecords)
    BY DEF LoopInv, LoopShapes
  <2>2. Len(rounds) \in Nat /\ DOMAIN rounds = 1 .. Len(rounds) /\ rounds \in [1 .. Len(rounds) -> RoundRecords]
    BY <2>1, LenProperties
  <2> QED
    BY <2>1, <2>2 DEF RoundRecords
<1>2. SameFingerprintLimit \in Nat \ {0}
  BY LoopAssumption
<1>3. ASSUME NEW S, NEW T \in SUBSET (1 .. Len(rounds)), S \subseteq T
      PROVE  Cardinality(S) <= Cardinality(T) /\ Cardinality(S) \in Nat /\ Cardinality(T) \in Nat
  <2>1. IsFiniteSet(T) /\ S \in SUBSET (1 .. Len(rounds))
    BY <1>1, <1>3, RoundsAreFew
  <2> QED
    BY <1>1, <1>3, <2>1, RoundsAreFew, FS_Subset
<1>4. ASSUME NEW f \in Readable
      PROVE  /\ Cardinality(Broke(f) \intersect sent) < SameFingerprintLimit
             /\ Cardinality(Broke(f)) >= SameFingerprintLimit => loop.pc = "BLOCKED"
  <2>1. PICK fp : fp = <<f[1], Template[f[2]]>>
    OBVIOUS
  <2>2. ASSUME NEW i \in 1 .. Len(rounds), f \in rounds[i].gate
        PROVE  fp \in Fingerprints(rounds[i].gate)
    BY <2>1, <2>2 DEF Fingerprints, FailedAdapters, Templates
  <2>3. Broke(f) \subseteq Shown(rounds, fp) /\ Shown(rounds, fp) \in SUBSET (1 .. Len(rounds))
    BY <1>1, <2>2 DEF Shown
  <2>4. /\ Cardinality(Broke(f)) <= Cardinality(Shown(rounds, fp))
        /\ Cardinality(Broke(f)) \in Nat /\ Cardinality(Shown(rounds, fp)) \in Nat
    BY <1>3, <2>3
  <2>5. PICK S : S = Shown(rounds, fp) \intersect sent
    OBVIOUS
  <2>6. S \in SUBSET (1 .. Len(rounds)) /\ Broke(f) \intersect sent \subseteq S
    BY <2>3, <2>5
  <2>7. /\ Cardinality(Broke(f) \intersect sent) <= Cardinality(S)
        /\ Cardinality(Broke(f) \intersect sent) \in Nat /\ Cardinality(S) \in Nat
    BY <1>3, <2>6
  <2>8. Cardinality(S) < SameFingerprintLimit
    BY <2>5 DEF LoopInv, CountsInv
  <2>9. loop.pc # "BLOCKED" => Cardinality(Shown(rounds, fp)) < SameFingerprintLimit
    BY DEF LoopInv, CountsInv
  <2> HIDE DEF Broke
  <2> QED
    BY <1>2, <2>4, <2>7, <2>8, <2>9
<1>5. ASSUME loop.pc = "BLOCKED"
      PROVE  \E f \in Readable : Cardinality(Showed(Template[f[2]])) >= SameFingerprintLimit
  <2>1. PICK fp : Cardinality(Shown(rounds, fp)) >= SameFingerprintLimit
    BY <1>5 DEF LoopInv, CountsInv
  <2>2. Shown(rounds, fp) \in SUBSET (1 .. Len(rounds))
    BY DEF Shown
  <2>3. Shown(rounds, fp) # {}
    BY <1>2, <2>1, FS_EmptySet
  <2>4. PICK i \in 1 .. Len(rounds) : fp \in Fingerprints(rounds[i].gate)
    BY <2>3 DEF Shown
  <2>5. fp[2] \in Templates(rounds[i].gate)
    BY <2>4 DEF Fingerprints
  <2>6. PICK f \in rounds[i].gate : f[2] \in DOMAIN Template /\ fp[2] = Template[f[2]]
    BY <2>5 DEF Templates
  <2>7. f \in Readable
    BY <1>1, <2>4, <2>6
  <2>8. Shown(rounds, fp) \subseteq Showed(fp[2])
    BY <1>1 DEF Shown, Fingerprints
  <2>9. Showed(fp[2]) \in SUBSET (1 .. Len(rounds))
    BY <1>1
  <2>10. /\ Cardinality(Shown(rounds, fp)) <= Cardinality(Showed(fp[2]))
         /\ Cardinality(Shown(rounds, fp)) \in Nat /\ Cardinality(Showed(fp[2])) \in Nat
    <3> HIDE DEF Showed
    <3> QED
      BY <1>3, <2>8, <2>9
  <2>11. Cardinality(Showed(fp[2])) >= SameFingerprintLimit
    <3> HIDE DEF Showed
    <3> QED
      BY <1>2, <2>1, <2>10
  <2> QED
    BY <2>6, <2>7, <2>11
<1>6. /\ loop.pc = "GIVE_UP" =>
           Len(rounds) = MaxRounds /\ \A i \in DOMAIN rounds : rounds[i].gate # {}
      /\ loop.pc = "FIXED" => broken = {}
      /\ loop.pc \in Verdicts => fixes = {i \in DOMAIN rounds : rounds[i].gate # {}}
  BY <1>1 DEF LoopInv, RoundsInv
<1> QED
  BY <1>4, <1>5, <1>6 DEF VerdictsFollowTheRounds

(* No round is recorded and none counted. *)
LEMMA LoopInitInv ==
    LoopInit => LoopInv
<1> SUFFICES ASSUME LoopInit PROVE LoopInv
  OBVIOUS
<1>1. LoopShapes
  BY LoopAssumption DEF LoopInit, LoopShapes, Awaits
<1>2. RoundsInv
  BY DEF LoopInit, RoundsInv, Awaits, Holding
<1>3. \A fp : Shown(<<>>, fp) = {} /\ Cardinality({}) = 0 /\ Count(<<>>, fp) = 0
  BY FS_EmptySet DEF Shown, Count
<1>4. CountsInv
  <2>1. \A fp : Held1(fp) = 0
    BY DEF LoopInit, Held1, Holding
  <2>2. \A S : {} \intersect S = {}
    OBVIOUS
  <2>3. rounds = <<>> /\ seen = <<>> /\ sent = {} /\ loop.pc = "gate"
    BY DEF LoopInit
  <2>4. \A fp : /\ Count(seen, fp) = 0 /\ Cardinality(Shown(rounds, fp)) = 0
                /\ Cardinality(Shown(rounds, fp) \intersect sent) = 0
    BY <1>3, <2>2, <2>3
  <2>5. 0 < SameFingerprintLimit /\ 0 = 0 + 0
    BY LoopAssumption
  <2> QED
    BY <2>1, <2>3, <2>4, <2>5 DEF CountsInv
<1> QED
  BY <1>1, <1>2, <1>4 DEF LoopInv

(* What the proofs below need of the shapes. *)
LEMMA LoopTypes ==
    ASSUME LoopInv
    PROVE  /\ loop \in [pc : Awaits \union Verdicts \union {"thrown"}, round : 1 .. MaxRounds,
                        gate : Breakages \union {{}}]
           /\ loop.round \in Nat /\ loop.round >= 1 /\ loop.round <= MaxRounds
           /\ broken \in Breakages /\ rounds \in Seq(RoundRecords) /\ Len(rounds) \in Nat
           /\ MaxRounds \in Nat \ {0} /\ SameFingerprintLimit \in Nat \ {0}
<1>1. MaxRounds \in Nat \ {0} /\ SameFingerprintLimit \in Nat \ {0}
  BY LoopAssumption
<1> QED
  BY <1>1, LenProperties DEF LoopInv, LoopShapes

(* A clean gate records the last round; a broken one is counted, and its    *)
(* round not recorded yet.                                                  *)
LEMMA RunGateKeeps ==
    ASSUME LoopInv, RunGate PROVE LoopInv'
<1>0. /\ loop.pc = "gate" /\ UNCHANGED <<broken, fixes, evidence>>
      /\ Len(rounds) = loop.round - 1
  BY DEF RunGate, LoopInv, RoundsInv, Awaits
<1>1. CASE broken = {}
  <2>1. PICK e : e = [gate |-> {}, fix |-> "placeholder"]
    OBVIOUS
  <2>2. /\ rounds' = Append(rounds, e) /\ loop' = [loop EXCEPT !.pc = "FIXED", !.gate = {}]
        /\ UNCHANGED <<seen, sent>>
    BY <1>1, <2>1 DEF RunGate
  <2>3. e \in RoundRecords /\ e.gate = {} /\ \A fp : fp \notin Fingerprints(e.gate)
    BY <2>1 DEF RoundRecords, Fingerprints, FailedAdapters
  <2>4. PICK R, R2 : R = rounds /\ R2 = rounds'
    OBVIOUS
  <2>5. /\ R2 \in Seq(RoundRecords) /\ Len(R) \in Nat /\ Len(R2) = Len(R) + 1
        /\ \A i \in 1 .. Len(R) : R2[i] = R[i]
        /\ R2[Len(R) + 1] = e
        /\ \A fp : Shown(R2, fp) = Shown(R, fp)
    <3>1. R \in Seq(RoundRecords) /\ OneMoreRound(R, e, R2)
      BY <2>2, <2>4, LoopTypes DEF OneMoreRound
    <3>2. /\ R2 \in Seq(RoundRecords) /\ Len(R) \in Nat /\ Len(R2) = Len(R) + 1
          /\ \A i \in 1 .. Len(R) : R2[i] = R[i]
          /\ R2[Len(R) + 1] = e
      BY <2>3, <3>1, RoundIsAppended
    <3>3. ASSUME NEW fp PROVE Shown(R2, fp) = Shown(R, fp)
      <4>1. e \in RoundRecords /\ fp \notin Fingerprints(e.gate)
        BY <2>3
      <4>2. e \in RoundRecords
        BY <4>1
      <4>3. /\ Shown(R2, fp) = IF fp \in Fingerprints(e.gate) THEN Shown(R, fp) \union {Len(R) + 1}
                               ELSE Shown(R, fp)
            /\ Cardinality(Shown(R, fp)) \in Nat
            /\ Cardinality(Shown(R2, fp)) = Cardinality(Shown(R, fp)) +
                  (IF fp \in Fingerprints(e.gate) THEN 1 ELSE 0)
        BY <3>1, <4>2, RoundIsCounted
      <4> QED
        BY <4>1, <4>3
    <3> QED
      BY <3>2, <3>3
  <2>6. LoopShapes'
    BY <1>0, <2>2, <2>4, <2>5 DEF LoopInv, LoopShapes, Verdicts
  <2>7. loop'.pc = "FIXED"
    BY <2>2, LoopTypes
  <2>8. RoundsInv'
    <3>1. {i \in 1 .. Len(R2) : R2[i].gate # {}} = {i \in 1 .. Len(R) : R[i].gate # {}}
      <4>1. 1 .. Len(R2) = (1 .. Len(R)) \union {Len(R) + 1}
        BY <2>5
      <4> QED
        BY <2>3, <2>5, <4>1
    <3>2. fixes' = {i \in 1 .. Len(R2) : R2[i].gate # {}}
      BY <1>0, <2>4, <3>1 DEF LoopInv, RoundsInv
    <3>3. broken' = {}
      BY <1>0, <1>1
    <3> QED
      BY <2>4, <2>7, <3>2, <3>3 DEF RoundsInv, Awaits, Holding
  <2>9. CountsInv'
    <3>1. \A fp : Held1(fp) = 0 /\ Held1(fp)' = 0
      BY <1>0, <2>7 DEF Held1, Holding
    <3>2. \A fp : Shown(rounds', fp) = Shown(rounds, fp)
      BY <2>4, <2>5
    <3>3. sent' = sent /\ seen' = seen
      BY <2>2
    <3>4. \A fp : Cardinality(Shown(rounds, fp)) < SameFingerprintLimit
      BY <1>0 DEF LoopInv, CountsInv
    <3>5. \A fp : Count(seen, fp) = Cardinality(Shown(rounds, fp)) + Held1(fp)
      BY <1>0 DEF LoopInv, CountsInv
    <3>6. \A fp : Cardinality(Shown(rounds, fp) \intersect sent) < SameFingerprintLimit
      BY DEF LoopInv, CountsInv
    <3> QED
      BY <2>7, <3>1, <3>2, <3>3, <3>4, <3>5, <3>6 DEF CountsInv
  <2> QED
    BY <2>6, <2>8, <2>9 DEF LoopInv
<1>2. CASE broken # {}
  <2>1. PICK fps, counted : fps = Fingerprints(broken) /\ counted = Tally(seen, fps)
    OBVIOUS
  <2>2. PICK pc : pc = IF \E fp \in fps : counted[fp] >= SameFingerprintLimit THEN "persist_blocked" ELSE "debugger"
    OBVIOUS
  <2>3. /\ seen' = counted /\ loop' = [loop EXCEPT !.pc = pc, !.gate = broken]
        /\ UNCHANGED <<rounds, sent, broken, fixes>>
    BY <1>2, <2>1, <2>2 DEF RunGate
  <2>4. loop'.pc = pc /\ loop'.gate = broken /\ loop'.round = loop.round
    BY <2>3, LoopTypes
  <2>5. /\ counted \in [DOMAIN counted -> Nat]
        /\ \A fp : /\ Count(seen, fp) \in Nat
                   /\ Count(counted, fp) = Count(seen, fp) + (IF fp \in fps THEN 1 ELSE 0)
    BY <2>1, TallyCounts DEF LoopInv, LoopShapes
  <2>6. LoopShapes'
    BY <2>2, <2>3, <2>5 DEF LoopInv, LoopShapes, Awaits
  <2>7. RoundsInv'
    BY <1>0, <1>2, <2>2, <2>3, <2>4 DEF LoopInv, RoundsInv, Awaits, Holding
  <2>8. \A fp : Held1(fp) = 0 /\ Held1(fp)' = IF fp \in fps THEN 1 ELSE 0
    BY <1>0, <2>1, <2>2, <2>4 DEF Held1, Holding
  <2>9. \A fp : /\ Count(seen, fp) = Cardinality(Shown(rounds, fp)) + 0
                /\ Count(seen, fp) < SameFingerprintLimit
                /\ Cardinality(Shown(rounds, fp)) < SameFingerprintLimit
                /\ Cardinality(Shown(rounds, fp) \intersect sent) < SameFingerprintLimit
    BY <1>0, <2>8 DEF LoopInv, CountsInv
  <2>10. \A fp : Cardinality(Shown(rounds, fp)) \in Nat
    <3>1. \A fp : Shown(rounds, fp) \in SUBSET (1 .. Len(rounds))
      BY DEF Shown
    <3> QED
      BY <3>1, RoundsAreFew, LoopTypes
  <2>11. \A fp : Count(seen', fp) = Cardinality(Shown(rounds', fp)) + Held1(fp)'
    BY <2>3, <2>5, <2>8, <2>9, <2>10
  <2>12. pc = "debugger" => \A fp : Count(seen', fp) < SameFingerprintLimit
    <3>1. ASSUME NEW fp, pc = "debugger" PROVE Count(counted, fp) < SameFingerprintLimit
      <4>1. CASE fp \in fps
        <5>1. fp \in DOMAIN counted
          BY <2>1, <4>1 DEF Tally
        <5>2. ~(counted[fp] >= SameFingerprintLimit) /\ counted[fp] \in Nat
          BY <2>2, <2>5, <3>1, <4>1, <5>1
        <5>3. PICK n \in Nat : n = Count(counted, fp) /\ n = counted[fp]
          BY <5>1, <5>2 DEF Count
        <5>4. PICK limit \in Nat : limit = SameFingerprintLimit
          BY LoopAssumption
        <5>5. ~(n >= limit)
          BY <5>2, <5>3, <5>4
        <5>6. n < limit
          BY n \in Nat, limit \in Nat, <5>5
        <5>7. Count(counted, fp) = n /\ SameFingerprintLimit = limit
          BY <5>3, <5>4
        <5> QED
          BY <5>6, <5>7, Zenon
      <4>2. CASE fp \notin fps
        <5>1. Count(counted, fp) = Count(seen, fp) + 0 /\ Count(seen, fp) \in Nat
          BY <2>5, <4>2
        <5>2. Count(counted, fp) = Count(seen, fp)
          BY <5>1
        <5> QED
          BY <2>9, <5>2
      <4> QED
        BY <4>1, <4>2
    <3> QED
      BY <2>3, <3>1
  <2>13. pc = "persist_blocked" => \E fp : Count(seen', fp) >= SameFingerprintLimit
    <3>1. ASSUME pc = "persist_blocked" PROVE \E fp : Count(counted, fp) >= SameFingerprintLimit
      <4>1. PICK fp \in fps : counted[fp] >= SameFingerprintLimit
        BY <2>2, <3>1
      <4>2. fp \in DOMAIN counted
        BY <2>1 DEF Tally
      <4> QED
        BY <4>1, <4>2 DEF Count
    <3> QED
      BY <2>3, <3>1
  <2>14. CountsInv'
    <3>1. pc \in {"debugger", "persist_blocked"}
      BY <2>2
    <3>2. sent' = sent /\ rounds' = rounds
      BY <2>3
    <3> QED
      BY <2>4, <2>9, <2>11, <2>12, <2>13, <3>1, <3>2 DEF CountsInv
  <2> QED
    BY <2>6, <2>7, <2>14 DEF LoopInv
<1> QED
  BY <1>1, <1>2


(* The agents change the workdir, and neither rounds nor counts; the        *)
(* debugger is sent in for the round that is running.                       *)
LEMMA AgentsKeep ==
    ASSUME LoopInv, RunDebugger \/ RunFix \/ LoopThrows PROVE LoopInv'
<1>0. UNCHANGED <<seen, rounds, fixes>> /\ loop.pc \in Awaits
  BY DEF RunDebugger, RunFix, LoopThrows, Awaits
<1>1. \A fp : Shown(rounds', fp) = Shown(rounds, fp) /\ Count(seen', fp) = Count(seen, fp)
  BY <1>0
<1>2. PICK pc \in Awaits \union {"thrown"} : loop' = [loop EXCEPT !.pc = pc]
  BY DEF RunDebugger, RunFix, LoopThrows, Awaits
<1>3. loop'.pc = pc /\ loop'.gate = loop.gate /\ loop'.round = loop.round
  BY <1>2, LoopTypes
<1>4. broken' \in Breakages
  BY LoopTypes DEF RunDebugger, RunFix, LoopThrows
<1>5. LoopShapes'
  <2>1. loop' \in [pc : Awaits \union Verdicts \union {"thrown"}, round : 1 .. MaxRounds,
                  gate : Breakages \union {{}}]
    BY <1>2, LoopTypes
  <2> QED
    BY <1>0, <1>4, <2>1 DEF LoopInv, LoopShapes
<1>6. /\ loop.pc # "BLOCKED" /\ loop.pc # "FIXED"
      /\ \A fp : Cardinality(Shown(rounds, fp)) < SameFingerprintLimit
      /\ \A fp : Cardinality(Shown(rounds, fp) \intersect sent) < SameFingerprintLimit
  BY <1>0 DEF LoopInv, CountsInv, Awaits
<1>7. CASE RunDebugger
  <2>1. loop.pc = "debugger" /\ pc = "fix" /\ sent' = sent \union {loop.round}
    BY <1>2, <1>3, <1>7, LoopTypes DEF RunDebugger
  <2>2. RoundsInv'
    BY <1>0, <1>3, <2>1, LoopTypes DEF LoopInv, RoundsInv, Awaits, Holding
  <2>3. \A fp : Shown(rounds, fp) \intersect sent' = Shown(rounds, fp) \intersect sent
    <3>1. Len(rounds) = loop.round - 1
      BY <2>1 DEF LoopInv, RoundsInv, Awaits
    <3>2. loop.round \notin 1 .. Len(rounds)
      BY <3>1, LoopTypes
    <3> QED
      BY <2>1, <3>2 DEF Shown
  <2>4. \A fp : Held1(fp)' = Held1(fp)
    BY <1>3, <2>1 DEF Held1, Holding
  <2>5. \A fp : /\ Count(seen, fp) = Cardinality(Shown(rounds, fp)) + Held1(fp)
                /\ Count(seen, fp) < SameFingerprintLimit
    BY <2>1 DEF LoopInv, CountsInv
  <2>6. CountsInv'
    <3>1. loop'.pc = "fix"
      BY <1>3, <2>1
    <3> QED
      BY <1>0, <1>1, <1>6, <2>3, <2>4, <2>5, <3>1 DEF CountsInv
  <2> QED
    BY <1>5, <2>2, <2>6 DEF LoopInv
<1>8. CASE RunFix
  <2>1. loop.pc = "fix" /\ pc = "persist" /\ sent' = sent
    BY <1>2, <1>3, <1>8, LoopTypes DEF RunFix
  <2>2. RoundsInv'
    BY <1>0, <1>3, <2>1, LoopTypes DEF LoopInv, RoundsInv, Awaits, Holding
  <2>4. \A fp : Held1(fp)' = Held1(fp)
    BY <1>3, <2>1 DEF Held1, Holding
  <2>5. \A fp : /\ Count(seen, fp) = Cardinality(Shown(rounds, fp)) + Held1(fp)
                /\ Count(seen, fp) < SameFingerprintLimit
    BY <2>1 DEF LoopInv, CountsInv
  <2>6. CountsInv'
    <3>1. loop'.pc = "persist"
      BY <1>3, <2>1
    <3> QED
      BY <1>0, <1>1, <1>6, <2>1, <2>4, <2>5, <3>1 DEF CountsInv
  <2> QED
    BY <1>5, <2>2, <2>6 DEF LoopInv
<1>9. CASE LoopThrows
  <2>1. pc = "thrown" /\ sent' = sent /\ loop'.pc = "thrown"
    BY <1>2, <1>3, <1>9, LoopTypes DEF LoopThrows
  <2>2. RoundsInv'
    BY <1>0, <1>3, <1>6, <2>1, LoopTypes DEF LoopInv, RoundsInv, Awaits, Holding
  <2>3. CountsInv'
    BY <1>1, <1>6, <2>1 DEF CountsInv
  <2> QED
    BY <1>5, <2>2, <2>3 DEF LoopInv
<1> QED
  BY <1>7, <1>8, <1>9

(* Recording a round takes over what was counted for it: one more round     *)
(* shows each of its fingerprints.                                          *)
LEMMA PersistFixKeeps ==
    ASSUME LoopInv, PersistFix PROVE LoopInv'
<1>1. /\ loop.pc \in {"persist", "persist_blocked"} /\ fixes' = fixes \union {loop.round}
      /\ Len(rounds) = loop.round - 1 /\ loop.gate # {}
      /\ UNCHANGED <<broken, seen, sent, evidence>>
  BY DEF PersistFix, LoopInv, RoundsInv, Awaits, Holding
<1>2. PICK e : e = [gate |-> loop.gate, fix |-> "artifact"]
  OBVIOUS
<1>3. e \in RoundRecords /\ e.gate = loop.gate
  BY <1>2, LoopTypes DEF RoundRecords
<1>4. PICK R, R2 : R = rounds /\ R2 = rounds'
  OBVIOUS
<1>5. R \in Seq(RoundRecords) /\ OneMoreRound(R, e, R2)
  BY <1>2, <1>4, LoopTypes DEF PersistFix, OneMoreRound
<1>6. /\ R2 \in Seq(RoundRecords) /\ Len(R) \in Nat /\ Len(R2) = Len(R) + 1
      /\ \A i \in 1 .. Len(R) : R2[i] = R[i]
      /\ R2[Len(R) + 1] = e
      /\ \A fp : Shown(R2, fp) = IF fp \in Fingerprints(e.gate) THEN Shown(R, fp) \union {Len(R) + 1}
                                 ELSE Shown(R, fp)
      /\ \A fp : /\ Cardinality(Shown(R, fp)) \in Nat
                 /\ Cardinality(Shown(R2, fp)) = Cardinality(Shown(R, fp)) +
                      (IF fp \in Fingerprints(e.gate) THEN 1 ELSE 0)
  <2>1. /\ R2 \in Seq(RoundRecords) /\ Len(R) \in Nat /\ Len(R2) = Len(R) + 1
        /\ \A i \in 1 .. Len(R) : R2[i] = R[i]
        /\ R2[Len(R) + 1] = e
    BY <1>3, <1>5, RoundIsAppended
  <2>2. ASSUME NEW fp
        PROVE  /\ Shown(R2, fp) = IF fp \in Fingerprints(e.gate) THEN Shown(R, fp) \union {Len(R) + 1}
                                  ELSE Shown(R, fp)
               /\ Cardinality(Shown(R, fp)) \in Nat
               /\ Cardinality(Shown(R2, fp)) = Cardinality(Shown(R, fp)) +
                      (IF fp \in Fingerprints(e.gate) THEN 1 ELSE 0)
    BY <1>3, <1>5, RoundIsCounted
  <2> QED
    BY <2>1, <2>2
<1>7. Len(R) + 1 = loop.round /\ 1 .. Len(R2) = (1 .. Len(R)) \union {loop.round}
  BY <1>1, <1>4, <1>6, LoopTypes
<1>8. fixes' = {i \in 1 .. Len(R2) : R2[i].gate # {}} /\ \A i \in 1 .. Len(R2) : R2[i].gate # {}
  <2>1. fixes = {i \in 1 .. Len(R) : R[i].gate # {}} /\ \A i \in 1 .. Len(R) : R[i].gate # {}
    BY <1>1, <1>4 DEF LoopInv, RoundsInv
  <2> QED
    BY <1>1, <1>3, <1>6, <1>7, <2>1
<1>9. \A fp : Count(seen', fp) = Count(seen, fp) /\ Count(seen, fp) = Cardinality(Shown(R2, fp))
  <2>1. \A fp : Held1(fp) = IF fp \in Fingerprints(e.gate) THEN 1 ELSE 0
    BY <1>1, <1>3 DEF Held1, Holding
  <2>2. \A fp : Count(seen, fp) = Cardinality(Shown(R, fp)) + Held1(fp)
    BY <1>1, <1>4 DEF LoopInv, CountsInv
  <2> QED
    BY <1>1, <1>6, <2>1, <2>2
<1>10. CASE loop.pc = "persist_blocked"
  <2>1. loop' = [loop EXCEPT !.pc = "BLOCKED"]
    BY <1>10 DEF PersistFix
  <2>2. loop'.pc = "BLOCKED"
    BY <2>1, LoopTypes
  <2>3. LoopShapes'
    BY <1>1, <1>4, <1>6, <2>1 DEF LoopInv, LoopShapes, Verdicts
  <2>4. RoundsInv'
    BY <1>4, <1>8, <2>2 DEF RoundsInv, Awaits, Holding
  <2>5. \A fp : Held1(fp)' = 0
    BY <2>2 DEF Held1, Holding
  <2>6. \E fp : Cardinality(Shown(R2, fp)) >= SameFingerprintLimit
    BY <1>9, <1>10 DEF LoopInv, CountsInv
  <2>7. \A fp : Shown(R2, fp) \intersect sent = Shown(R, fp) \intersect sent
    <3>1. loop.round \notin sent
      BY <1>10 DEF LoopInv, RoundsInv
    <3> QED
      BY <1>6, <1>7, <3>1
  <2>8. \A fp : Cardinality(Shown(R, fp) \intersect sent) < SameFingerprintLimit
    BY <1>4 DEF LoopInv, CountsInv
  <2>9. \A fp : Cardinality(Shown(R2, fp)) = Cardinality(Shown(R2, fp)) + 0
    <3>1. \A fp : Cardinality(Shown(R2, fp)) \in Nat
      BY <1>6
    <3> QED
      BY <3>1
  <2>10. CountsInv'
    BY <1>1, <1>4, <1>9, <2>2, <2>5, <2>6, <2>7, <2>8, <2>9 DEF CountsInv
  <2> QED
    BY <2>3, <2>4, <2>10 DEF LoopInv
<1>11. CASE loop.pc = "persist"
  <2>1. PICK pc, n : /\ loop' = [loop EXCEPT !.pc = pc, !.round = n]
                     /\ \/ pc = "GIVE_UP" /\ n = loop.round /\ loop.round = MaxRounds
                        \/ pc = "gate" /\ n = loop.round + 1 /\ loop.round # MaxRounds
    <3>1. CASE loop.round = MaxRounds
      <4>1. loop' = [loop EXCEPT !.pc = "GIVE_UP"]
        BY <1>11, <3>1 DEF PersistFix
      <4>2. loop' = [loop EXCEPT !.pc = "GIVE_UP", !.round = loop.round]
        BY <4>1, LoopTypes
      <4> QED
        BY <3>1, <4>2
    <3>2. CASE loop.round # MaxRounds
      BY <1>11, <3>2 DEF PersistFix
    <3> QED
      BY <3>1, <3>2
  <2>2. /\ loop'.pc = pc /\ loop'.round = n /\ n \in 1 .. MaxRounds
        /\ pc \in {"GIVE_UP", "gate"}
    BY <2>1, LoopTypes
  <2>3. LoopShapes'
    <3>1. loop' \in [pc : Awaits \union Verdicts \union {"thrown"}, round : 1 .. MaxRounds,
                    gate : Breakages \union {{}}]
      BY <2>1, <2>2, LoopTypes DEF Awaits, Verdicts
    <3> QED
      BY <1>1, <1>4, <1>6, <3>1 DEF LoopInv, LoopShapes
  <2>4. sent \subseteq 1 .. loop.round
    BY <1>11 DEF LoopInv, RoundsInv, Awaits
  <2>5. RoundsInv'
    <3>1. pc = "gate" => n \notin sent /\ sent \subseteq 1 .. n /\ Len(R2) = n - 1
      BY <1>6, <1>7, <2>1, <2>4, LoopTypes
    <3>2. pc = "GIVE_UP" => Len(R2) = MaxRounds
      BY <1>6, <1>7, <2>1
    <3> QED
      BY <1>1, <1>4, <1>8, <2>2, <3>1, <3>2 DEF RoundsInv, Awaits, Holding
  <2>6. \A fp : Held1(fp)' = 0
    BY <2>2 DEF Held1, Holding
  <2>7. \A fp : Cardinality(Shown(R2, fp)) \in Nat /\ Cardinality(Shown(R2, fp)) < SameFingerprintLimit
    BY <1>6, <1>9, <1>11 DEF LoopInv, CountsInv
  <2>8. ASSUME NEW fp PROVE Cardinality(Shown(R2, fp) \intersect sent) < SameFingerprintLimit
    <3>1. PICK S, T : S = Shown(R2, fp) \intersect sent /\ T = Shown(R2, fp)
      OBVIOUS
    <3>2. S \subseteq T /\ S \in SUBSET (1 .. Len(R2)) /\ T \in SUBSET (1 .. Len(R2))
      BY <3>1 DEF Shown
    <3>3. IsFiniteSet(T) /\ Cardinality(S) \in Nat /\ Cardinality(T) \in Nat
      BY <1>6, <3>2, RoundsAreFew
    <3>4. Cardinality(S) <= Cardinality(T)
      BY <3>2, <3>3, FS_Subset
    <3>5. Cardinality(T) < SameFingerprintLimit
      BY <2>7, <3>1
    <3> QED
      BY <3>1, <3>3, <3>4, <3>5, LoopAssumption
  <2>9. \A fp : Cardinality(Shown(R2, fp)) = Cardinality(Shown(R2, fp)) + 0
    BY <2>7
  <2>10. CountsInv'
    BY <1>1, <1>4, <1>9, <2>2, <2>6, <2>7, <2>8, <2>9 DEF CountsInv
  <2> QED
    BY <2>3, <2>5, <2>10 DEF LoopInv
<1> QED
  BY <1>1, <1>10, <1>11

(* Every step of the controller keeps the invariant. *)
LEMMA LoopNextInv ==
    LoopInv /\ [LoopNext]_loopVars => LoopInv'
<1> SUFFICES ASSUME LoopInv, [LoopNext]_loopVars PROVE LoopInv'
  OBVIOUS
<1>1. ASSUME UNCHANGED <<broken, loop, seen, rounds, fixes, sent>> PROVE LoopInv'
  <2>1. LoopShapes' /\ RoundsInv'
    BY <1>1 DEF LoopInv, LoopShapes, RoundsInv
  <2>2. CountsInv'
    BY <1>1 DEF LoopInv, CountsInv, Held1
  <2> QED
    BY <2>1, <2>2 DEF LoopInv
<1>2. CASE Verify \/ UNCHANGED loopVars
  BY <1>1, <1>2 DEF Verify, loopVars
<1> QED
  BY <1>2, RunGateKeeps, AgentsKeep, PersistFixKeeps DEF LoopNext

(* test-fix-loop.ts: for any breakages, templates and limits, a failure     *)
(* some adapter keeps reporting is given agents in fewer rounds than the    *)
(* fingerprint limit, the loop is blocked for nothing else and gives up     *)
(* only after its last round, and it calls fixed only a workdir as the      *)
(* clean gate saw it.                                                       *)
THEOREM VerdictsFollow ==
    LoopSpec => []VerdictsFollowTheRounds
BY LoopInitInv, LoopNextInv, LoopInvImplies, PTL DEF LoopSpec

(* What the invariant of the loop leaves open. *)
LoopTypeInv ==
    /\ fixes \subseteq 1 .. MaxRounds /\ sent \subseteq 1 .. MaxRounds
    /\ Len(evidence) <= 1

(* The states of the test-fix loop have the types they are declared with. *)
LEMMA LoopTypesKept == LoopSpec => []LoopTypeOK
<1>1. LoopInit => LoopInv /\ LoopTypeInv
  BY LoopInitInv DEF LoopInit, LoopTypeInv
<1>2. LoopInv /\ LoopTypeInv /\ [LoopNext]_loopVars => LoopInv' /\ LoopTypeInv'
  <2> SUFFICES ASSUME LoopInv, LoopTypeInv, [LoopNext]_loopVars PROVE LoopTypeInv'
    BY LoopNextInv
  <2>1. loop.round \in 1 .. MaxRounds
    BY DEF LoopInv, LoopShapes
  <2>2. /\ fixes' \in {fixes, fixes \union {loop.round}}
        /\ sent' \in {sent, sent \union {loop.round}}
    BY DEF LoopNext, RunGate, RunDebugger, RunFix, PersistFix, LoopThrows, Verify, loopVars
  <2>3. Len(evidence') <= 1
    <3>1. CASE Verify
      <4>1. \E e : evidence' = <<e>>
        BY <3>1 DEF Verify
      <4> QED
        BY <4>1
    <3>2. CASE UNCHANGED evidence
      BY <3>2 DEF LoopTypeInv
    <3> QED
      BY <3>1, <3>2 DEF LoopNext, RunGate, RunDebugger, RunFix, PersistFix, LoopThrows, loopVars
  <2> QED
    BY <2>1, <2>2, <2>3 DEF LoopTypeInv
<1>3. LoopInv /\ LoopTypeInv => LoopTypeOK
  <2> SUFFICES ASSUME LoopInv, LoopTypeInv PROVE LoopTypeOK
    OBVIOUS
  <2>1. \A i \in DOMAIN rounds : rounds[i] \in RoundRecords
    BY DEF LoopInv, LoopShapes
  <2> QED
    BY <2>1 DEF LoopInv, LoopShapes, LoopTypeInv, LoopTypeOK, RoundRecords
<1> QED
  BY <1>1, <1>2, <1>3, PTL DEF LoopSpec

-----------------------------------------------------------------------------
(* The worktrees of the tasks *)

(* Where the agents' proposals lead, and what an overlay can hold. *)
Files == {Relative(NormalizePath(path)) : path \in Proposals}
EntryMaps == UNION {[S -> Entries] : S \in SUBSET Files}

(* What a task returns. *)
Result == [task : Tasks, status : {"completed", "failed"}, testsFailed : BOOLEAN,
           entries : EntryMaps]

(* Task t's paths take file f. *)
MayWrite(t, f) ==
    /\ \E p \in Allowed[t] : MatchesGlob(f, p)
    /\ \A p \in Forbidden[t] : ~MatchesGlob(f, p)

(* The shapes of the state, without its bounds. *)
WorktreeShapes ==
    /\ dispatched \in 0 .. Len(TaskOrder)
    /\ overlay \in [Tasks -> EntryMaps]
    /\ results \in Seq(Result)
    /\ development \in {"dispatch", "running", "thrown", "completed", "fix.requested",
                        "dev.failed", "applied", "rejected"}

(* No overlay holds a file its task may not write. *)
OverlaysAreAllowed == \A t \in Tasks : \A f \in DOMAIN overlay[t] : MayWrite(t, f)

(* The results are those of the tasks dispatched so far, in their order;    *)
(* nobody writes into an overlay whose task returned.                       *)
ResultsAreOverlays ==
    /\ development = "running" => dispatched = Len(results) + 1
    /\ development = "dispatch" => dispatched = Len(results)
    /\ Len(results) <= dispatched
    /\ \A i \in 1 .. Len(results) :
         /\ results[i].task = TaskOrder[i]
         /\ results[i].entries = <<>> \/ results[i].entries = overlay[TaskOrder[i]]

(* What a merge of these results says, and a checkout with it applied. *)
Outcome(returned) ==
    [state |-> IF Conflicts(returned) = {} THEN "clean" ELSE "CONFLICTED",
     conflicts |-> Conflicts(returned), entries |-> MergedEntries(returned)]
Applied(entries, base) ==
    LET kept == {p \in DOMAIN base \union DOMAIN entries : p \in DOMAIN entries => ~entries[p].deleted}
    IN [p \in kept |-> IF p \in DOMAIN entries THEN entries[p].contents ELSE base[p]]

(* The merge is the function of the results it should be, and so is the     *)
(* checkout it was applied to.                                              *)
MergeIsOfResults ==
    /\ merged = <<>> \/ merged = <<Outcome(results)>>
    /\ development \in {"dispatch", "running"} => merged = <<>>
    /\ development # "applied" => checkout = BaseFiles
    /\ development = "applied" =>
         /\ merged = <<Outcome(results)>>
         /\ checkout = Applied(MergedEntries(results), BaseFiles)

WorktreeInv == WorktreeShapes /\ OverlaysAreAllowed /\ ResultsAreOverlays /\ MergeIsOfResults

-----------------------------------------------------------------------------

(* The entry of a safe path in the merge is that of each of its writers. *)
LEMMA SafeEntry ==
    ASSUME NEW R \in Seq(Result), NEW file \in SafePaths(R)
    PROVE  /\ Writers(R, file) # {}
           /\ \A i \in Writers(R, file) : MergedEntries(R)[file] = R[i].entries[file]
<1>1. Len(R) \in Nat /\ DOMAIN R = 1 .. Len(R)
  BY LenProperties
<1>2. Writers(R, file) # {} /\ Writers(R, file) \in SUBSET (1 .. Len(R))
  BY <1>1 DEF SafePaths, Touched, Writers
<1>3. \E i \in Writers(R, file) : \A j \in Writers(R, file) : j <= i
  BY <1>1, <1>2, LastOf
<1>4. PICK last \in Writers(R, file) :
        last = CHOOSE i \in Writers(R, file) : \A j \in Writers(R, file) : j <= i
  BY <1>3
<1>5. MergedEntries(R)[file] = R[last].entries[file]
  BY <1>4 DEF MergedEntries
<1>6. \A i \in Writers(R, file) : R[i].entries[file] = R[last].entries[file]
  BY <1>4 DEF SafePaths
<1> QED
  BY <1>2, <1>5, <1>6

(* What the proofs below need of the numbers of tasks and results. *)
LEMMA ResultFacts ==
    ASSUME WorktreeInv
    PROVE  /\ Len(results) \in Nat /\ DOMAIN results = 1 .. Len(results)
           /\ Len(TaskOrder) \in Nat /\ DOMAIN TaskOrder = 1 .. Len(TaskOrder)
           /\ dispatched \in 0 .. Len(TaskOrder) /\ Len(results) <= dispatched
           /\ \A i \in 1 .. Len(results) : TaskOrder[i] \in Tasks
           /\ DOMAIN <<>> = {}
<1>1. /\ Len(results) \in Nat /\ DOMAIN results = 1 .. Len(results)
      /\ Len(TaskOrder) \in Nat /\ DOMAIN TaskOrder = 1 .. Len(TaskOrder)
  BY WorktreeAssumption, LenProperties DEF WorktreeInv, WorktreeShapes
<1>2. dispatched \in 0 .. Len(TaskOrder) /\ Len(results) <= dispatched
  BY DEF WorktreeInv, WorktreeShapes, ResultsAreOverlays
<1>3. \A i \in 1 .. Len(results) : TaskOrder[i] \in Tasks
  BY <1>1, <1>2 DEF Tasks
<1> QED
  BY <1>1, <1>2, <1>3

(* Who wrote a file has it in the overlay, and may write it. *)
LEMMA WritersHaveIt ==
    ASSUME WorktreeInv, NEW i \in DOMAIN results, NEW file \in DOMAIN results[i].entries
    PROVE  /\ results[i].task = TaskOrder[i] /\ results[i].task \in Tasks
           /\ results[i].entries[file] = overlay[results[i].task][file]
           /\ MayWrite(results[i].task, file)
<1>1. /\ i \in 1 .. Len(results) /\ TaskOrder[i] \in Tasks /\ DOMAIN <<>> = {}
  BY ResultFacts
<1>2. /\ results[i].task = TaskOrder[i]
      /\ results[i].entries = overlay[TaskOrder[i]]
  BY <1>1 DEF WorktreeInv, ResultsAreOverlays
<1>3. MayWrite(TaskOrder[i], file)
  BY <1>1, <1>2 DEF WorktreeInv, OverlaysAreAllowed
<1> QED
  BY <1>1, <1>2, <1>3

(* What is applied is the merge, and the merge is of all the results. *)
LEMMA WorktreeInvImplies ==
    WorktreeInv => NoWorkLostOrSmuggled
<1> SUFFICES ASSUME WorktreeInv, development = "applied" PROVE NoWorkLostOrSmuggled
  BY DEF NoWorkLostOrSmuggled
<1> DEFINE Is(file, entry) ==
             IF entry.deleted THEN file \notin DOMAIN checkout
             ELSE file \in DOMAIN checkout /\ checkout[file] = entry.contents
           Same(file) == \/ file \notin DOMAIN checkout \union DOMAIN BaseFiles
                         \/ file \in DOMAIN checkout \intersect DOMAIN BaseFiles
                            /\ checkout[file] = BaseFiles[file]
           Wrote(t, file) == \E i \in DOMAIN results :
                                results[i].task = t /\ file \in DOMAIN results[i].entries
<1>1. /\ merged = <<Outcome(results)>> /\ checkout = Applied(MergedEntries(results), BaseFiles)
      /\ results \in Seq(Result)
  BY DEF WorktreeInv, MergeIsOfResults, WorktreeShapes
<1>2. merged[1].conflicts = Conflicts(results)
  BY <1>1 DEF Outcome
<1>3. DOMAIN MergedEntries(results) = SafePaths(results)
  BY DEF MergedEntries
<1>4. ASSUME NEW file, file \in SafePaths(results)
      PROVE  \E t \in Tasks : Wrote(t, file)
                /\ \A u \in Tasks : Wrote(u, file) =>
                      /\ Is(file, overlay[u][file])
                      /\ \E p \in Allowed[u] : MatchesGlob(file, p)
                      /\ \A p \in Forbidden[u] : ~MatchesGlob(file, p)
  <2>1. PICK e : e = MergedEntries(results)[file]
    OBVIOUS
  <2>2. Writers(results, file) # {} /\ \A i \in Writers(results, file) : e = results[i].entries[file]
    BY <1>1, <1>4, <2>1, SafeEntry
  <2>3. Is(file, e)
    BY <1>1, <1>3, <1>4, <2>1 DEF Applied
  <2>4. PICK i \in DOMAIN results : file \in DOMAIN results[i].entries
    BY <2>2 DEF Writers
  <2>5. results[i].task \in Tasks /\ Wrote(results[i].task, file)
    BY <2>4, WritersHaveIt
  <2>6. ASSUME NEW u \in Tasks, Wrote(u, file)
        PROVE  e = overlay[u][file] /\ MayWrite(u, file)
    <3>1. PICK j \in DOMAIN results : results[j].task = u /\ file \in DOMAIN results[j].entries
      BY <2>6
    <3>2. e = results[j].entries[file]
      BY <2>2, <3>1 DEF Writers
    <3> QED
      BY <3>1, <3>2, WritersHaveIt
  <2>7. ASSUME NEW u \in Tasks, Wrote(u, file)
        PROVE  /\ Is(file, overlay[u][file])
               /\ \E p \in Allowed[u] : MatchesGlob(file, p)
               /\ \A p \in Forbidden[u] : ~MatchesGlob(file, p)
    <3>1. Is(file, overlay[u][file])
      BY <2>3, <2>6, <2>7
    <3> HIDE DEF Is, Wrote
    <3> QED
      BY <2>6, <2>7, <3>1 DEF MayWrite
  <2> HIDE DEF Is, Wrote
  <2> QED
    BY <2>5, <2>7
<1>5. ASSUME NEW file, file \notin SafePaths(results)
      PROVE  /\ Same(file)
             /\ \A u \in Tasks : Wrote(u, file) =>
                   \E c \in merged[1].conflicts : c.path = file /\ u \in c.tasks
  <2>1. Same(file)
    BY <1>1, <1>3, <1>5 DEF Applied
  <2>2. ASSUME NEW u \in Tasks, Wrote(u, file)
        PROVE  \E c \in merged[1].conflicts : c.path = file /\ u \in c.tasks
    <3>1. PICK i \in DOMAIN results : results[i].task = u /\ file \in DOMAIN results[i].entries
      BY <2>2
    <3>2. file \in Touched(results) \ SafePaths(results) /\ i \in Writers(results, file)
      BY <1>5, <3>1 DEF Touched, Writers
    <3>3. PICK c : c = [path |-> file, tasks |-> {results[k].task : k \in Writers(results, file)},
                        kind |-> ConflictKind({results[k].entries[file] : k \in Writers(results, file)})]
      OBVIOUS
    <3>4. c \in Conflicts(results)
      BY <3>2, <3>3 DEF Conflicts
    <3>5. c.path = file /\ u \in c.tasks
      BY <3>1, <3>2, <3>3
    <3> QED
      BY <1>2, <3>4, <3>5
  <2> QED
    BY <2>1, <2>2
<1>6. ASSUME NEW file
      PROVE  \/ \E t \in Tasks : Wrote(t, file)
                  /\ \A u \in Tasks : Wrote(u, file) =>
                        /\ Is(file, overlay[u][file])
                        /\ \E p \in Allowed[u] : MatchesGlob(file, p)
                        /\ \A p \in Forbidden[u] : ~MatchesGlob(file, p)
             \/ Same(file)
                  /\ \A u \in Tasks : Wrote(u, file) =>
                        \E c \in merged[1].conflicts : c.path = file /\ u \in c.tasks
  <2> HIDE DEF Is, Same, Wrote
  <2> QED
    BY <1>4, <1>5
<1> QED
  BY <1>6 DEF NoWorkLostOrSmuggled

(* Nothing is dispatched and nothing written. *)
LEMMA WorktreeInitInv ==
    WorktreeInit => WorktreeInv
<1> SUFFICES ASSUME WorktreeInit PROVE WorktreeInv
  OBVIOUS
<1>1. <<>> \in EntryMaps /\ DOMAIN <<>> = {}
  <2>1. <<>> \in Seq(Entries) /\ Len(<<>>) = 0
    OBVIOUS
  <2>2. <<>> \in [1 .. 0 -> Entries]
    BY <2>1, LenProperties
  <2>3. 1 .. 0 = {} /\ {} \in SUBSET Files
    OBVIOUS
  <2>4. <<>> \in [{} -> Entries]
    BY <2>2, <2>3
  <2> QED
    BY <2>3, <2>4 DEF EntryMaps
<1>2. WorktreeShapes
  <2>1. Len(TaskOrder) \in Nat
    BY WorktreeAssumption, LenProperties
  <2>2. overlay \in [Tasks -> EntryMaps]
    BY <1>1 DEF WorktreeInit
  <2> QED
    BY <2>1, <2>2 DEF WorktreeInit, WorktreeShapes
<1>3. OverlaysAreAllowed
  <2>1. \A t \in Tasks : DOMAIN overlay[t] = {}
    BY <1>1 DEF WorktreeInit
  <2> QED
    BY <2>1 DEF OverlaysAreAllowed
<1>4. ResultsAreOverlays
  <2>1. Len(results) = 0 /\ 1 .. Len(results) = {} /\ dispatched = 0 /\ development = "dispatch"
    BY DEF WorktreeInit
  <2> QED
    BY <2>1 DEF ResultsAreOverlays
<1>5. MergeIsOfResults
  BY DEF WorktreeInit, MergeIsOfResults
<1> QED
  BY <1>2, <1>3, <1>4, <1>5 DEF WorktreeInv

(* An entry is written where the policy lets it. *)
LEMMA SetKeepsShape ==
    ASSUME NEW f \in EntryMaps, NEW path \in Proposals, NEW entry \in Entries, NEW t,
           IsAllowed(path, Allowed[t], Forbidden[t]), NEW file, file = Relative(NormalizePath(path)),
           \A g \in DOMAIN f : MayWrite(t, g)
    PROVE  /\ Set(f, file, entry) \in EntryMaps
           /\ \A g \in DOMAIN Set(f, file, entry) : MayWrite(t, g)
<1>1. PICK S \in SUBSET Files : f \in [S -> Entries]
  BY DEF EntryMaps
<1>2. DOMAIN f = S /\ \A g \in S : f[g] \in Entries
  BY <1>1
<1>3. file \in Files
  BY DEF Files
<1>4. S \union {file} \in SUBSET Files
  BY <1>3
<1>5. Set(f, file, entry) \in [S \union {file} -> Entries]
  BY <1>2 DEF Set
<1>6. MayWrite(t, file)
  BY DEF IsAllowed, MayWrite
<1>7. DOMAIN Set(f, file, entry) = S \union {file}
  BY <1>2 DEF Set
<1>8. Set(f, file, entry) \in EntryMaps
  BY <1>4, <1>5 DEF EntryMaps
<1> QED
  BY <1>2, <1>6, <1>7, <1>8

(* An agent writes into the overlay of the task that runs, and that one has *)
(* no result yet.                                                           *)
LEMMA AgentWritesKeeps ==
    ASSUME WorktreeInv, AgentWrites PROVE WorktreeInv'
<1>1. /\ development = "running" /\ dispatched = Len(results) + 1
      /\ UNCHANGED <<dispatched, development, results, merged, checkout>>
  BY DEF AgentWrites, WorktreeInv, ResultsAreOverlays
<1>2. Running \in Tasks /\ \A i \in 1 .. Len(results) : TaskOrder[i] \in Tasks /\ TaskOrder[i] # Running
  <2>1. /\ dispatched \in DOMAIN TaskOrder /\ DOMAIN TaskOrder = 1 .. Len(TaskOrder)
        /\ \A i \in 1 .. Len(results) : i \in DOMAIN TaskOrder /\ i # dispatched
    BY <1>1, ResultFacts
  <2>2. \A i \in 1 .. Len(results) : TaskOrder[i] # TaskOrder[dispatched]
    BY <2>1, WorktreeAssumption DEF IsInjective
  <2> QED
    BY <2>1, <2>2 DEF Running, Tasks
<1>3. overlay \in [Tasks -> EntryMaps] /\ \A t \in Tasks : \A g \in DOMAIN overlay[t] : MayWrite(t, g)
  BY DEF WorktreeInv, WorktreeShapes, OverlaysAreAllowed
<1>4. PICK f : /\ f \in EntryMaps /\ \A g \in DOMAIN f : MayWrite(Running, g)
               /\ overlay' = [overlay EXCEPT ![Running] = f]
  <2>1. CASE UNCHANGED overlay
    <3>1. overlay' = [overlay EXCEPT ![Running] = overlay[Running]]
      BY <1>2, <1>3, <2>1
    <3> QED
      BY <1>2, <1>3, <3>1
  <2>2. CASE ~UNCHANGED overlay
    <3>1. PICK path \in Proposals, entry \in Entries :
            /\ IsAllowed(path, Allowed[Running], Forbidden[Running])
            /\ overlay' = [overlay EXCEPT ![Running] = Set(@, Relative(NormalizePath(path)), entry)]
      BY <2>2 DEF AgentWrites, Entries
    <3>2. PICK file, f : file = Relative(NormalizePath(path)) /\ f = overlay[Running]
      OBVIOUS
    <3>3. f \in EntryMaps /\ \A g \in DOMAIN f : MayWrite(Running, g)
      BY <1>2, <1>3, <3>2
    <3>4. /\ Set(f, file, entry) \in EntryMaps
          /\ \A g \in DOMAIN Set(f, file, entry) : MayWrite(Running, g)
      BY <3>1, <3>2, <3>3, SetKeepsShape
    <3>5. overlay' = [overlay EXCEPT ![Running] = Set(f, file, entry)]
      BY <3>1, <3>2
    <3> QED
      BY <3>4, <3>5
  <2> QED
    BY <2>1, <2>2
<1>5. /\ overlay' \in [Tasks -> EntryMaps] /\ overlay'[Running] = f
      /\ \A t \in Tasks \ {Running} : overlay'[t] = overlay[t]
  BY <1>2, <1>3, <1>4
<1>6. WorktreeShapes'
  BY <1>1, <1>5 DEF WorktreeInv, WorktreeShapes
<1>7. OverlaysAreAllowed'
  <2>1. ASSUME NEW t \in Tasks PROVE \A g \in DOMAIN overlay'[t] : MayWrite(t, g)
    <3>1. CASE t = Running
      BY <1>4, <1>5, <3>1
    <3>2. CASE t # Running
      BY <1>3, <1>5, <3>2
    <3> QED
      BY <3>1, <3>2
  <2> QED
    BY <2>1 DEF OverlaysAreAllowed, MayWrite
<1>8. ResultsAreOverlays'
  <2>1. \A i \in 1 .. Len(results) : overlay'[TaskOrder[i]] = overlay[TaskOrder[i]]
    BY <1>2, <1>5
  <2> QED
    BY <1>1, <2>1 DEF WorktreeInv, ResultsAreOverlays
<1>9. MergeIsOfResults'
  BY <1>1 DEF WorktreeInv, MergeIsOfResults
<1> QED
  BY <1>6, <1>7, <1>8, <1>9 DEF WorktreeInv

(* A task that returns hands over its overlay, or nothing. *)
LEMMA TaskReturnsKeeps ==
    ASSUME WorktreeInv, TaskReturns PROVE WorktreeInv'
<1>1. /\ development = "running" /\ dispatched = Len(results) + 1 /\ merged = <<>>
      /\ development' = "dispatch" /\ checkout = BaseFiles
      /\ UNCHANGED <<dispatched, overlay, merged, checkout>>
  BY DEF TaskReturns, WorktreeInv, ResultsAreOverlays, MergeIsOfResults
<1>2. Running \in Tasks /\ Running = TaskOrder[Len(results) + 1]
  <2>1. dispatched \in DOMAIN TaskOrder
    BY <1>1, ResultFacts
  <2> QED
    BY <1>1, <2>1 DEF Running, Tasks
<1>3. overlay \in [Tasks -> EntryMaps] /\ <<>> \in EntryMaps /\ results \in Seq(Result)
  <2>1. <<>> \in Seq(Entries) /\ Len(<<>>) = 0
    OBVIOUS
  <2>2. <<>> \in [1 .. 0 -> Entries]
    BY <2>1, LenProperties
  <2>3. 1 .. 0 = {} /\ {} \in SUBSET Files
    OBVIOUS
  <2>4. <<>> \in [{} -> Entries]
    BY <2>2, <2>3
  <2>5. <<>> \in EntryMaps
    BY <2>3, <2>4 DEF EntryMaps
  <2> QED
    BY <2>5 DEF WorktreeInv, WorktreeShapes
<1>4. PICK r \in Result : /\ results' = Append(results, r) /\ r.task = Running
                          /\ r.entries = <<>> \/ r.entries = overlay[Running]
  <2>1. PICK status \in {"completed", "failed"}, testsFailed \in BOOLEAN :
          results' = Append(results,
             [task |-> Running, status |-> status, testsFailed |-> testsFailed,
              entries |-> IF status = "completed" THEN overlay[Running] ELSE <<>>])
    BY DEF TaskReturns
  <2>2. PICK m : /\ m = IF status = "completed" THEN overlay[Running] ELSE <<>>
    OBVIOUS
  <2>3. m \in EntryMaps /\ (m = <<>> \/ m = overlay[Running])
    BY <1>2, <1>3, <2>2
  <2>4. PICK r : r = [task |-> Running, status |-> status, testsFailed |-> testsFailed, entries |-> m]
    OBVIOUS
  <2>5. r \in Result /\ r.task = Running /\ r.entries = m
    BY <1>2, <2>3, <2>4 DEF Result
  <2>6. results' = Append(results, r)
    BY <2>1, <2>2, <2>4
  <2> QED
    BY <2>3, <2>5, <2>6
<1>5. /\ results' \in Seq(Result) /\ Len(results') = Len(results) + 1 /\ Len(results) \in Nat
      /\ results'[Len(results) + 1] = r
      /\ \A i \in 1 .. Len(results) : results'[i] = results[i]
  BY <1>3, <1>4, AppendProperties, LenProperties
<1>6. WorktreeShapes'
  BY <1>1, <1>5 DEF WorktreeInv, WorktreeShapes
<1>7. OverlaysAreAllowed'
  BY <1>1 DEF WorktreeInv, OverlaysAreAllowed
<1>8. ResultsAreOverlays'
  <2>1. ASSUME NEW i \in 1 .. Len(results')
        PROVE  /\ results'[i].task = TaskOrder[i]
               /\ results'[i].entries = <<>> \/ results'[i].entries = overlay[TaskOrder[i]]
    <3>1. CASE i = Len(results) + 1
      BY <1>2, <1>4, <1>5, <3>1
    <3>2. CASE i # Len(results) + 1
      <4>1. i \in 1 .. Len(results)
        BY <1>5, <3>2
      <4> QED
        BY <1>5, <4>1 DEF WorktreeInv, ResultsAreOverlays
    <3> QED
      BY <3>1, <3>2
  <2>2. dispatched = Len(results') /\ dispatched \in Nat
    BY <1>1, <1>5
  <2> QED
    BY <1>1, <2>1, <2>2 DEF ResultsAreOverlays
<1>9. MergeIsOfResults'
  BY <1>1 DEF MergeIsOfResults
<1> QED
  BY <1>6, <1>7, <1>8, <1>9 DEF WorktreeInv

(* The steps that write neither overlays nor results. *)
LEMMA OthersThanAgents ==
    ASSUME WorktreeInv, UNCHANGED <<overlay, results>>,
           dispatched' \in 0 .. Len(TaskOrder), Len(results) <= dispatched',
           development' = "running" => dispatched' = Len(results) + 1,
           development' = "dispatch" => dispatched' = Len(results),
           development' \in {"dispatch", "running", "thrown", "completed", "fix.requested",
                             "dev.failed", "applied", "rejected"},
           MergeIsOfResults'
    PROVE  WorktreeInv'
<1>1. WorktreeShapes' /\ OverlaysAreAllowed'
  BY DEF WorktreeInv, WorktreeShapes, OverlaysAreAllowed
<1>2. ResultsAreOverlays'
  BY DEF WorktreeInv, ResultsAreOverlays
<1> QED
  BY <1>1, <1>2 DEF WorktreeInv

(* Every step of tasks, merge and patch keeps the invariant. *)
LEMMA WorktreeNextInv ==
    WorktreeInv /\ [WorktreeNext]_worktreeVars => WorktreeInv'
<1> SUFFICES ASSUME WorktreeInv, [WorktreeNext]_worktreeVars PROVE WorktreeInv'
  OBVIOUS
<1>0. /\ Len(results) \in Nat /\ Len(TaskOrder) \in Nat /\ dispatched \in 0 .. Len(TaskOrder)
      /\ Len(results) <= dispatched /\ MergeIsOfResults
      /\ development = "dispatch" => dispatched = Len(results)
      /\ development \in {"dispatch", "running", "thrown", "completed", "fix.requested",
                          "dev.failed", "applied", "rejected"}
  BY ResultFacts DEF WorktreeInv, WorktreeShapes, ResultsAreOverlays
<1>1. CASE Dispatch
  <2>1. MergeIsOfResults'
    BY <1>0, <1>1 DEF Dispatch, MergeIsOfResults
  <2> QED
    BY <1>0, <1>1, <2>1, OthersThanAgents DEF Dispatch
<1>2. CASE DevelopmentThrows
  <2>1. MergeIsOfResults'
    BY <1>0, <1>2 DEF DevelopmentThrows, MergeIsOfResults
  <2> QED
    BY <1>0, <1>2, <2>1, OthersThanAgents DEF DevelopmentThrows
<1>3. CASE Report
  <2>1. MergeIsOfResults' /\ development' \in {"completed", "fix.requested", "dev.failed"}
    BY <1>0, <1>3 DEF Report, MergeIsOfResults
  <2> QED
    BY <1>0, <1>3, <2>1, OthersThanAgents DEF Report
<1>4. CASE Merge
  <2>1. merged' = <<Outcome(results)>> /\ UNCHANGED <<dispatched, development, overlay, results, checkout>>
    BY <1>4 DEF Merge, Outcome
  <2>2. development # "applied" /\ development # "dispatch" /\ development # "running"
    BY <1>4 DEF Merge
  <2>3. MergeIsOfResults'
    BY <1>0, <2>1, <2>2 DEF MergeIsOfResults
  <2> QED
    BY <1>0, <2>1, <2>2, <2>3, OthersThanAgents
<1>5. CASE Apply
  <2>1. merged = <<Outcome(results)>> /\ merged[1].entries = MergedEntries(results) /\ checkout = BaseFiles
    BY <1>0, <1>5 DEF Apply, MergeIsOfResults, Outcome
  <2>2. /\ UNCHANGED <<dispatched, overlay, results, merged>>
        /\ \/ development' = "applied" /\ checkout' = Applied(MergedEntries(results), BaseFiles)
           \/ development' = "rejected" /\ checkout' = BaseFiles
    BY <1>5, <2>1 DEF Apply, Applied
  <2>3. MergeIsOfResults'
    BY <2>1, <2>2 DEF MergeIsOfResults
  <2> QED
    BY <1>0, <2>2, <2>3, OthersThanAgents
<1>6. CASE UNCHANGED worktreeVars
  BY <1>6 DEF worktreeVars, WorktreeInv, WorktreeShapes, OverlaysAreAllowed, ResultsAreOverlays, MergeIsOfResults
<1> QED
  BY <1>1, <1>2, <1>3, <1>4, <1>5, <1>6, AgentWritesKeeps, TaskReturnsKeeps DEF WorktreeNext

(* conflict-resolver.ts, task-merge-controller.ts: for any tasks, paths,    *)
(* proposals and contents, the checkout a patch was applied to holds of     *)
(* every file what each completed task that wrote it left there, or, where  *)
(* they disagree, the base, the dispute being on record with all of them;   *)
(* and only files their writers may write have changed.                     *)
THEOREM WorkIsKept ==
    WorktreeSpec => []NoWorkLostOrSmuggled
BY WorktreeInitInv, WorktreeNextInv, WorktreeInvImplies, PTL DEF WorktreeSpec

(* What the invariant of the worktrees leaves open. *)
WorktreeTypeInv == denied \in [Tasks -> SUBSET Proposals] /\ writes \in 0 .. MaxWrites

(* The states of worktrees, merge and patch have the types they are         *)
(* declared with.                                                           *)
LEMMA WorktreeTypes == WorktreeSpec => []WorktreeTypeOK
<1>1. WorktreeInit => WorktreeInv /\ WorktreeTypeInv
  BY WorktreeInitInv, WorktreeAssumption DEF WorktreeInit, WorktreeTypeInv
<1>2. WorktreeInv /\ WorktreeTypeInv /\ [WorktreeNext]_worktreeVars
        => WorktreeInv' /\ WorktreeTypeInv'
  <2> SUFFICES ASSUME WorktreeInv, WorktreeTypeInv, [WorktreeNext]_worktreeVars
               PROVE  WorktreeTypeInv'
    BY WorktreeNextInv
  <2>1. CASE AgentWrites
    <3>1. PICK path \in Proposals :
             denied' = denied \/ denied' = [denied EXCEPT ![Running] = denied[Running] \union {path}]
      BY <2>1 DEF AgentWrites
    <3>2. denied' \in [Tasks -> SUBSET Proposals]
      BY <3>1 DEF WorktreeTypeInv
    <3>3. writes' \in 0 .. MaxWrites
      BY <2>1, WorktreeAssumption DEF AgentWrites, WorktreeTypeInv
    <3> QED
      BY <3>2, <3>3 DEF WorktreeTypeInv
  <2>2. CASE Dispatch
    BY <2>2, WorktreeAssumption DEF Dispatch, WorktreeTypeInv
  <2>3. CASE UNCHANGED <<denied, writes>>
    BY <2>3 DEF WorktreeTypeInv
  <2> QED
    BY <2>1, <2>2, <2>3 DEF WorktreeNext, TaskReturns, DevelopmentThrows, Report, Merge, Apply,
                            worktreeVars
<1>3. WorktreeInv /\ WorktreeTypeInv => WorktreeTypeOK
  <2> SUFFICES ASSUME WorktreeInv, WorktreeTypeInv PROVE WorktreeTypeOK
    OBVIOUS
  <2>1. Len(merged) <= 1
    <3>1. merged = <<>> \/ \E e : merged = <<e>>
      BY DEF WorktreeInv, MergeIsOfResults
    <3>2. CASE merged = <<>>
      BY <3>2
    <3>3. CASE \E e : merged = <<e>>
      BY <3>3
    <3> QED
      BY <3>1, <3>2, <3>3
  <2>2. ASSUME NEW t \in Tasks PROVE \A p \in DOMAIN overlay[t] : overlay[t][p] \in Entries
    <3>1. overlay[t] \in EntryMaps
      BY DEF WorktreeInv, WorktreeShapes
    <3>2. PICK S \in SUBSET Files : overlay[t] \in [S -> Entries]
      BY <3>1 DEF EntryMaps
    <3> QED
      BY <3>2
  <2>3. \A t \in Tasks : denied[t] \subseteq Proposals
    BY DEF WorktreeTypeInv
  <2> QED
    BY <2>1, <2>2, <2>3 DEF WorktreeInv, WorktreeShapes, ResultsAreOverlays, WorktreeTypeInv,
                            WorktreeTypeOK
<1> QED
  BY <1>1, <1>2, <1>3, PTL DEF WorktreeSpec

-----------------------------------------------------------------------------
(* The drift scan *)

(* A scan at work: the places left and, once compared, what differs. *)
Scanning ==
    [pc : {"issue", "pr", "projection", "publish"}, todo : (SUBSET (1 .. Len(RunOrder))) \ {{}},
     seen : Seq(Live), drifts : Seq(Sides)]

(* A scan has a place to go on with, and publishes only what differs. *)
DriftInv ==
    /\ DriftTypeOK
    /\ scan \in {NotRunning} \union Scanning
    /\ scan.pc = "publish" => scan.drifts # <<>>

(* The places are numbers, and there is a run at each. *)
LEMMA PlacesAreNumbers ==
    /\ RunOrder \in Seq(ScannedRuns) /\ DOMAIN RunOrder = 1 .. Len(RunOrder) /\ Len(RunOrder) \in Nat
    /\ \A i \in 1 .. Len(RunOrder) : RunOrder[i] \in ScannedRuns
BY DriftAssumption, LenProperties DEF ScannedRuns

(* The run that is scanned is one of the list, and its place the first. *)
LEMMA PlaceIsLeft ==
    ASSUME scan \in Scanning PROVE Place \in scan.todo /\ Scanned \in ScannedRuns
<1>1. scan.todo \in SUBSET (1 .. Len(RunOrder)) /\ scan.todo # {}
  BY DEF Scanning
<1>2. scan.todo \in SUBSET Nat
  BY <1>1, PlacesAreNumbers
<1>3. \E i \in scan.todo : \A j \in scan.todo : i <= j
  <2> DEFINE R == {ss \in Nat \X Nat : ss[1] < ss[2]}
  <2>1. IsWellFoundedOn(R, Nat)
    BY NatLessThanWellFounded DEF OpToRel
  <2>2. PICK i \in scan.todo : \A j \in scan.todo : <<j, i>> \notin R
    <3> HIDE DEF R
    <3> QED
      BY <1>1, <1>2, <2>1, WFMin
  <2>3. ASSUME NEW j \in scan.todo PROVE i <= j
    <3>1. i \in Nat /\ j \in Nat
      BY <1>2
    <3>2. j < i => <<j, i>> \in R
      BY <3>1
    <3> QED
      BY <2>2, <3>1, <3>2
  <2> QED
    BY <2>3
<1>4. Place \in scan.todo
  BY <1>3 DEF Place
<1> QED
  BY <1>1, <1>4, PlacesAreNumbers DEF Scanned

(* From a list of places a scan goes on, or it ends. *)
LEMMA GoOnIsTyped ==
    ASSUME NEW todo \in SUBSET (1 .. Len(RunOrder))
    PROVE  /\ GoOn(todo) \in {NotRunning} \union Scanning
           /\ GoOn(todo).pc # "publish" /\ GoOn(todo).pc \in {"not_running", "issue"}
<1>1. CASE todo = {}
  BY <1>1 DEF GoOn, NotRunning
<1>2. CASE todo # {}
  <2>1. <<>> \in Seq(Live) /\ <<>> \in Seq(Sides)
    OBVIOUS
  <2>2. GoOn(todo) = [pc |-> "issue", todo |-> todo, seen |-> <<>>, drifts |-> <<>>]
    BY <1>2 DEF GoOn
  <2>3. todo \in (SUBSET (1 .. Len(RunOrder))) \ {{}}
    BY <1>2
  <2>4. ASSUME NEW found \in Seq(Live), NEW drifts \in Seq(Sides)
        PROVE  [pc |-> "issue", todo |-> todo, seen |-> found, drifts |-> drifts] \in Scanning
    BY <2>3 DEF Scanning
  <2>5. GoOn(todo) \in Scanning
    BY <2>1, <2>2, <2>4
  <2> QED
    BY <2>2, <2>5
<1> QED
  BY <1>1, <1>2

(* What is published is what differs at the place that was compared. *)
LEMMA PublishesIsTyped ==
    ASSUME scan \in Scanning, NEW drifts \in Seq(Sides), Publishes(drifts)
    PROVE  /\ scan' \in {NotRunning} \union Scanning
           /\ scan'.pc \in {"not_running", "issue", "publish"}
           /\ scan'.pc = "publish" => scan'.drifts # <<>>
<1>1. CASE drifts = <<>>
  <2>1. scan.todo \ {Place} \in SUBSET (1 .. Len(RunOrder))
    BY DEF Scanning
  <2>2. scan' = GoOn(scan.todo \ {Place})
    BY <1>1 DEF Publishes
  <2> QED
    BY <2>1, <2>2, GoOnIsTyped
<1>2. CASE drifts # <<>>
  <2>1. scan' = [scan EXCEPT !.pc = "publish", !.seen = <<>>, !.drifts = drifts]
    BY <1>2 DEF Publishes
  <2>2. <<>> \in Seq(Live)
    OBVIOUS
  <2>3. scan' \in Scanning /\ scan'.pc = "publish" /\ scan'.drifts = drifts
    BY <2>1, <2>2 DEF Scanning
  <2> QED
    BY <1>2, <2>3
<1> QED
  BY <1>1, <1>2

(* No scan runs. *)
LEMMA DriftInitInv == DriftInit => DriftInv
<1> SUFFICES ASSUME DriftInit PROVE DriftInv
  OBVIOUS
<1> QED
  BY DriftAssumption DEF DriftInit, DriftInv, DriftTypeOK, Versions, Live, NotRunning

(* Every tick, comparison and report keeps the invariant. *)
LEMMA DriftNextInv == DriftInv /\ [DriftNext]_driftVars => DriftInv'
<1> SUFFICES ASSUME DriftInv, [DriftNext]_driftVars PROVE DriftInv'
  OBVIOUS
<1> USE DEF DriftInv
<1>1. ASSUME NEW r \in ScannedRuns, NEW s \in Sides, MoveOnGitHub(r, s) \/ MoveInDatabase(r, s)
      PROVE  DriftInv'
  <2>1. moves' \in 0 .. MaxMoves /\ reported' \subseteq ScannedRuns \X Sides
        /\ scan' = scan /\ throws' = throws /\ inflight' = inflight /\ failing' = failing
    BY <1>1, DriftAssumption DEF MoveOnGitHub, MoveInDatabase, Moves, DriftTypeOK
  <2>2. /\ live' \in [ScannedRuns -> [Sides -> Live]]
        /\ expected' \in [ScannedRuns -> [Sides -> Versions \union {Unknown}]]
    <3>1. CASE MoveOnGitHub(r, s)
      <4>1. PICK v \in Live : live' = [live EXCEPT ![r][s] = v]
        BY <3>1 DEF MoveOnGitHub
      <4>2. live' \in [ScannedRuns -> [Sides -> Live]]
        BY <4>1 DEF DriftTypeOK
      <4> QED
        BY <3>1, <4>2 DEF MoveOnGitHub, DriftTypeOK
    <3>2. CASE MoveInDatabase(r, s)
      <4>1. PICK v \in Versions \union {Unknown} : expected' = [expected EXCEPT ![r][s] = v]
        BY <3>2 DEF MoveInDatabase, Expected
      <4>2. expected' \in [ScannedRuns -> [Sides -> Versions \union {Unknown}]]
        BY <4>1 DEF DriftTypeOK
      <4> QED
        BY <3>2, <4>2 DEF MoveInDatabase, DriftTypeOK
    <3> QED
      BY <1>1, <3>1, <3>2
  <2> QED
    BY <2>1, <2>2 DEF DriftTypeOK
<1>2. ASSUME NEW r \in ScannedRuns, RunFinishes(r) PROVE DriftInv'
  BY <1>2, DriftAssumption DEF RunFinishes, DriftTypeOK
<1>3. CASE TickAndList
  <2>1. {i \in DOMAIN RunOrder : RunOrder[i] \in inflight} \in SUBSET (1 .. Len(RunOrder))
    BY PlacesAreNumbers
  <2>2. /\ scan' = GoOn({i \in DOMAIN RunOrder : RunOrder[i] \in inflight})
        /\ UNCHANGED <<live, expected, inflight, failing, reported, moves, throws>>
    BY <1>3 DEF TickAndList
  <2>3. /\ scan' \in {NotRunning} \union Scanning
        /\ scan'.pc # "publish" /\ scan'.pc \in {"not_running", "issue"}
    BY <2>1, <2>2, GoOnIsTyped
  <2> QED
    BY <2>2, <2>3 DEF DriftTypeOK
<1>4. CASE ScanStep
  <2>1. scan \in Scanning
    BY <1>4 DEF ScanStep, FetchIssue, HydrationFails, FetchPr, ReadProjection, PublishDrift, NotRunning
  <2>2. Scanned \in ScannedRuns
    BY <2>1, PlaceIsLeft
  <2>3. \A s \in Sides : live[Scanned][s] \in Live
    BY <2>2 DEF DriftTypeOK
  <2>4. "issue" \in Sides /\ "pr" \in Sides
    BY DEF Sides
  <2>5. CASE FetchIssue
    <3>1. <<live[Scanned]["issue"]>> \in Seq(Live)
      BY <2>3, <2>4
    <3>2. scan' \in Scanning /\ scan'.pc = "pr"
      BY <2>1, <2>5, <3>1 DEF FetchIssue, Scanning
    <3> QED
      BY <2>5, <3>2 DEF FetchIssue, DriftTypeOK
  <2>6. CASE FetchPr
    <3>1. Append(scan.seen, live[Scanned]["pr"]) \in Seq(Live) /\ scan.seen \in Seq(Live)
      <4>1. scan.seen \in Seq(Live)
        BY <2>1 DEF Scanning
      <4> QED
        BY <4>1, <2>3, <2>4, AppendProperties
    <3>2. scan' \in Scanning /\ scan'.pc = "projection"
      BY <2>1, <2>6, <3>1 DEF FetchPr, Scanning
    <3> QED
      BY <2>6, <3>2 DEF FetchPr, DriftTypeOK
  <2>7. CASE ReadProjection
    <3>1. Detect(scan.seen, expected[Scanned]) \in Seq(Sides)
      <4>1. \A a, b \in {TRUE, FALSE} :
              (IF a THEN <<"issue">> ELSE <<>>) \in Seq(Sides) /\ (IF b THEN <<"pr">> ELSE <<>>) \in Seq(Sides)
        BY <2>4
      <4> DEFINE a == scan.seen[1] \notin {Gone, expected[Scanned]["issue"]}
                 b == /\ Len(scan.seen) = 2 /\ scan.seen[2] # Gone
                      /\ expected[Scanned]["pr"] \notin {Unknown, scan.seen[2]}
      <4>2. (IF a THEN <<"issue">> ELSE <<>>) \in Seq(Sides)
        BY <2>4
      <4>3. (IF b THEN <<"pr">> ELSE <<>>) \in Seq(Sides)
        BY <2>4
      <4> QED
        BY <4>2, <4>3, ConcatProperties DEF Detect
    <3>2. Publishes(Detect(scan.seen, expected[Scanned]))
      BY <2>7 DEF ReadProjection
    <3>3. /\ scan' \in {NotRunning} \union Scanning
          /\ scan'.pc \in {"not_running", "issue", "publish"}
          /\ scan'.pc = "publish" => scan'.drifts # <<>>
      BY <2>1, <3>1, <3>2, PublishesIsTyped
    <3> QED
      BY <2>7, <3>3 DEF ReadProjection, DriftTypeOK
  <2>8. CASE PublishDrift
    <3>1. scan.drifts \in Seq(Sides) /\ scan.drifts # <<>>
      BY <2>1, <2>8 DEF PublishDrift, Scanning
    <3>2. Head(scan.drifts) \in Sides /\ Tail(scan.drifts) \in Seq(Sides)
      BY <3>1, HeadTailProperties
    <3>3. Publishes(Tail(scan.drifts))
      BY <2>8 DEF PublishDrift
    <3>4. /\ scan' \in {NotRunning} \union Scanning
          /\ scan'.pc \in {"not_running", "issue", "publish"}
          /\ scan'.pc = "publish" => scan'.drifts # <<>>
      BY <2>1, <3>2, <3>3, PublishesIsTyped
    <3>5. reported' \subseteq ScannedRuns \X Sides
      BY <2>2, <2>8, <3>2 DEF PublishDrift, DriftTypeOK
    <3> QED
      BY <2>8, <3>4, <3>5 DEF PublishDrift, DriftTypeOK
  <2>9. CASE HydrationFails
    BY <2>9 DEF HydrationFails, AfterThrow, NotRunning, DriftTypeOK
  <2> QED
    BY <1>4, <2>5, <2>6, <2>7, <2>8, <2>9 DEF ScanStep
<1>5. CASE ScanThrows
  BY <1>5, DriftAssumption DEF ScanThrows, AfterThrow, NotRunning, DriftTypeOK
<1>6. CASE UNCHANGED driftVars
  BY <1>6 DEF driftVars, DriftTypeOK
<1> QED
  BY <1>1, <1>2, <1>3, <1>4, <1>5, <1>6 DEF DriftNext

(* The states of the drift scan have the types they are declared with. *)
LEMMA DriftTypes == DriftInit /\ [][DriftNext]_driftVars => []DriftTypeOK
<1>1. DriftInv => DriftTypeOK
  BY DEF DriftInv
<1> QED
  BY <1>1, DriftInitInv, DriftNextInv, PTL

-----------------------------------------------------------------------------
(* All of them *)

(* Every component, by its own specification. *)
Parts ==
    /\ PlanningInit /\ [][PlanningNext]_planningVars
    /\ SearchSpec
    /\ IntakeInit /\ [][IntakeNext]_intakeVars
    /\ LoopSpec /\ WorktreeSpec
    /\ ReviewInit /\ [][ReviewNext]_reviewVars
    /\ AuditSpec
    /\ RunInit /\ [][RunNext]_runVars
    /\ DriftInit /\ [][DriftNext]_driftVars
    /\ LimitSpec
    /\ CacheInit /\ [][CacheNext]_cacheVars

(* A step of the whole is, for every component, a step of it or none. *)
LEMMA StepsOfTheParts ==
    [StagesNext]_stagesVars =>
        /\ [PlanningNext]_planningVars /\ [SearchNext]_searchVars
        /\ [IntakeNext]_intakeVars /\ [LoopNext]_loopVars
        /\ [WorktreeNext]_worktreeVars /\ [ReviewNext]_reviewVars /\ [AuditNext]_auditVars
        /\ [RunNext]_runVars /\ [DriftNext]_driftVars /\ [LimitNext]_limitVars
        /\ [CacheNext]_cacheVars
BY DEF StagesNext, stagesVars, othersThanPlanning, othersThanSearch, othersThanIntake, othersThanLoop,
       othersThanWorktree, othersThanReview, othersThanAudit, othersThanRun, othersThanDrift,
       othersThanLimit, othersThanCache

(* What the whole does, every component does. *)
LEMMA StagesAreTheirParts == StagesSpec => Parts /\ [](focus \in Stages)
<1>1. StagesInit =>
        /\ PlanningInit /\ SearchInit /\ IntakeInit /\ LoopInit /\ WorktreeInit /\ ReviewInit /\ AuditInit
        /\ RunInit /\ DriftInit /\ LimitInit /\ CacheInit /\ focus \in Stages
  BY DEF StagesInit
<1>2. focus \in Stages /\ [StagesNext]_stagesVars => (focus \in Stages)'
  BY DEF StagesNext, stagesVars
<1> QED
  BY <1>1, <1>2, StepsOfTheParts, PTL
  DEF StagesSpec, Parts, SearchSpec, LoopSpec, WorktreeSpec, AuditSpec, LimitSpec

(* The types of every component, in every behaviour of the whole: its own   *)
(* when it moves, and those it started with when another does.              *)
THEOREM TypesKept == StagesSpec => []TypeOK
<1>1. Parts => [](/\ PlanningTypeOK /\ SearchTypeOK /\ IntakeTypeOK /\ LoopTypeOK
                  /\ WorktreeTypeOK /\ ReviewTypeOK
                  /\ AuditTypeOK /\ RunTypeOK /\ DriftTypeOK /\ LimitTypeOK /\ CacheTypeOK)
  BY PlanningTypes, SearchTypes, IntakeTypes, LoopTypesKept, WorktreeTypes, ReviewTypes, AuditTypes, RunTypes,
     DriftTypes, LimitTypes, CacheTypes, PTL DEF Parts
<1> QED
  BY <1>1, StagesAreTheirParts, PTL DEF TypeOK

(* The stages side by side keep what each promises: approvals are earned    *)
(* and starts bound, messages open one issue, verdicts, patches and closures *)
(* can be accounted for, and so can chains, locks and limits.               *)
THEOREM StagesKeepTheirPromises ==
    StagesSpec =>
        [](/\ ApprovalsAreEarned /\ RunsFollowTheIssue /\ OneIssuePerWindow
           /\ VerdictsFollowTheRounds /\ NoWorkLostOrSmuggled /\ ClosuresAreAccountedFor
           /\ ChainAndVerdictsAreTrue /\ OneHolderNoLostUpdate /\ OverrunIsBounded)
BY StagesAreTheirParts, ApprovalsEarned, RunsFollow, MessagesOpenOneIssue, VerdictsFollow,
   WorkIsKept, ClosuresAccountedFor, ChainsTellTheTruth, RunsExcludeAndLoseNothing, OverrunBounded,
   PTL DEF Parts

(* implementation-plan.ts:344: in the stages as well, a search that has     *)
(* ended answers right, and a draft without findings can be carried out.    *)
THEOREM PlansJudged == StagesSpec => []PlansAreJudgedRight
<1>1. (\A criteria, paths, packages : JudgedRight(criteria, Risk(paths, packages)))
        => PlansAreJudgedRight
  BY DEF PlansAreJudgedRight, RiskOf
<1> QED
  BY <1>1, StagesAreTheirParts, SearchIsRight, PTL DEF Parts

=============================================================================
