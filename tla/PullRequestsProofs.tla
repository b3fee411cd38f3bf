------------------------- MODULE PullRequestsProofs -------------------------
(***************************************************************************)
(* The invariants of PullRequests for any number of calls, runs and heads, *)
(* and that its callers see the registry of PrRegistry.                    *)
(***************************************************************************)
EXTENDS PullRequests, FiniteSetTheorems, TLAPS

PCs == Working \union Finished \union {"new", "joined"}

(* A call that works or waits knows its arguments, and the one that works   *)
(* is the only one in flight for its run.                                   *)
LeaderInv ==
    \A c \in Calls :
        /\ call[c].pc \in Working \union {"joined"} =>
             RunOf(c) \in Runs /\ call[c].head \in Heads
        /\ call[c].pc \in Working => inflight[RunOf(c)] = c

(* Past the listing or the creation the number is known. *)
NumberInv ==
    \A c \in Calls :
        call[c].pc \in {"check", "load", "update", "append"} => call[c].number \in Nat

(* What the listing did not find has not been created since. *)
CreateInv == \A c \in Calls : At(c, "create") => Matches(c) = {}

(* The audit record comes after the row. *)
StoredInv ==
    \A c \in Calls : At(c, "append") => row[RunOf(c)].number = call[c].number

IInv ==
    /\ PullTypeOK
    /\ IsFiniteSet(prs)
    /\ LeaderInv
    /\ NumberInv
    /\ CreateInv
    /\ StoredInv
    /\ OnePrPerHead
    /\ AnswersAreAudited

-----------------------------------------------------------------------------

(* Only the control point and the locals of the loop change. *)
LEMMA LeaveFacts ==
    ASSUME PullTypeOK, NEW c \in Calls, NEW pc \in PCs
    PROVE  /\ Leave(c, pc) \in Call
           /\ Leave(c, pc).pc = pc
           /\ Leave(c, pc).run = call[c].run
           /\ Leave(c, pc).head = call[c].head
           /\ Leave(c, pc).number = call[c].number
           /\ Leave(c, pc).version = 0
<1>1. call[c] \in Call /\ 1 \in 1..Attempts /\ 0 \in Nat
  BY DEF PullTypeOK, Attempts
<1>2. pc \in Working \union Finished \union {"new", "joined"}
  BY DEF PCs
<1>3. QED
  BY <1>1, <1>2 DEF Call, Leave

(* Nothing has been called, nothing is open. *)
LEMMA InitIInv == PullInit => IInv
<1> SUFFICES ASSUME PullInit PROVE IInv
  OBVIOUS
<1>1. PullTypeOK
  BY DEF PullInit, PullTypeOK, Call, Attempts
<1>2. IsFiniteSet(prs)
  BY FS_EmptySet DEF PullInit
<1>3. LeaderInv /\ NumberInv /\ CreateInv /\ StoredInv /\ OnePrPerHead /\ AnswersAreAudited
  BY DEF PullInit, LeaderInv, NumberInv, CreateInv, StoredInv, OnePrPerHead,
         AnswersAreAudited, At, Working
<1>4. QED
  BY <1>1, <1>2, <1>3 DEF IInv

(* What the end of a call does to the calls. *)
LEMMA SettleFacts ==
    ASSUME IInv, NEW c \in Calls, call[c].pc \in Working,
           NEW pc \in Finished, Settle(c, pc)
    PROVE  /\ call' \in [Calls -> Call]
           /\ inflight' \in [Runs -> Calls \union {None}]
           /\ \A d \in Calls :
                /\ call'[d].run = call[d].run
                /\ call'[d].head = call[d].head
                /\ \/ call'[d] = call[d] /\ d # c
                   \/ /\ call'[d].pc = pc
                      /\ call[d].run = call[c].run
                      /\ call'[d].number = call[c].number
           /\ \A r \in Runs : r # call[c].run => inflight'[r] = inflight[r]
<1>1. PullTypeOK /\ pc \in PCs
  BY DEF IInv, PCs
<1>2. \A d \in Calls :
        LET new == [Leave(d, pc) EXCEPT !.number = call[c].number]
        IN  /\ new \in Call
            /\ new.pc = pc
            /\ new.run = call[d].run
            /\ new.head = call[d].head
            /\ new.number = call[c].number
  BY <1>1, LeaveFacts DEF PullTypeOK, Call
<1>3. QED
  BY <1>1, <1>2 DEF Settle, PullTypeOK, RunOf, At

(* A step that settles a call and leaves GitHub and the row alone. *)
LEMMA SettleKeeps ==
    ASSUME IInv, NEW c \in Calls, call[c].pc \in Working,
           NEW pc \in Finished, Settle(c, pc),
           UNCHANGED <<prs, row>>
    PROVE  /\ call' \in [Calls -> Call] /\ inflight' \in [Runs -> Calls \union {None}]
           /\ LeaderInv' /\ NumberInv' /\ CreateInv' /\ StoredInv'
<1>1. \A d \in Calls : call'[d].pc \in Working \union {"joined"} =>
        call'[d] = call[d] /\ d # c
  BY SettleFacts DEF Working, Finished
<1>2. \A r \in Runs : r # call[c].run => inflight'[r] = inflight[r]
  BY SettleFacts
<1>3. call' \in [Calls -> Call] /\ inflight' \in [Runs -> Calls \union {None}]
  BY SettleFacts
<1>4. LeaderInv'
  BY <1>1, <1>2 DEF IInv, LeaderInv, RunOf
<1>5. NumberInv'
  BY <1>1 DEF IInv, NumberInv, Working
<1>6. CreateInv'
  BY <1>1 DEF IInv, CreateInv, Matches, At, RunOf, Working
<1>7. StoredInv'
  BY <1>1 DEF IInv, StoredInv, At, RunOf, Working
<1>8. QED
  BY <1>3, <1>4, <1>5, <1>6, <1>7

(* A step of call c that goes on: only its own record changes. *)
LEMMA LocalStep ==
    ASSUME IInv, NEW c \in Calls, call[c].pc \in Working,
           NEW new \in Call, call' = [call EXCEPT ![c] = new],
           new.run = call[c].run, new.head = call[c].head, new.pc \in Working,
           new.pc \in {"check", "load", "update", "append"} => new.number \in Nat,
           new.pc = "create" => Matches(c) = {},
           new.pc = "append" => row[RunOf(c)].number = new.number,
           UNCHANGED <<inflight, prs, row, audit>>
    PROVE  IInv'
<1>1. PullTypeOK'
  BY DEF IInv, PullTypeOK
<1>2. IsFiniteSet(prs)'
  BY DEF IInv
<1>3. /\ call'[c] = new
      /\ \A d \in Calls : d # c => call'[d] = call[d]
  BY DEF IInv, PullTypeOK
<1>4. LeaderInv'
  BY <1>3 DEF IInv, LeaderInv, RunOf
<1>5. NumberInv'
  BY <1>3 DEF IInv, NumberInv
<1>6. CreateInv'
  BY <1>3 DEF IInv, CreateInv, Matches, At, RunOf
<1>7. StoredInv'
  BY <1>3 DEF IInv, StoredInv, At, RunOf
<1>8. OnePrPerHead'
  BY DEF IInv, OnePrPerHead
<1>9. AnswersAreAudited'
  BY <1>3 DEF IInv, AnswersAreAudited, At, RunOf, Working
<1>10. QED
  BY <1>1, <1>2, <1>4, <1>5, <1>6, <1>7, <1>8, <1>9 DEF IInv

-----------------------------------------------------------------------------

(* A new call leads its run or joins the call that does. *)
LEMMA InvokeKeeps ==
    ASSUME IInv, NEW c \in Calls, NEW r \in Runs, NEW h \in Heads, Invoke(c, r, h)
    PROVE  IInv'
<1>1. PICK pc \in {"list", "joined"} :
        /\ call' = [call EXCEPT ![c].run = r, ![c].head = h, ![c].pc = pc]
        /\ pc = "list" => inflight[r] = None /\ inflight' = [inflight EXCEPT ![r] = c]
        /\ pc = "joined" => inflight' = inflight
  BY DEF Invoke
<1> DEFINE new == [call[c] EXCEPT !.run = r, !.head = h, !.pc = pc]
<1>2. /\ new \in Call
      /\ new.run = r /\ new.head = h /\ new.pc = pc
  BY DEF IInv, PullTypeOK, Call, Working
<1>3. /\ call' \in [Calls -> Call]
      /\ call'[c] = new
      /\ \A d \in Calls : d # c => call'[d] = call[d]
  BY <1>1, <1>2 DEF IInv, PullTypeOK
<1> HIDE DEF new
<1>4. UNCHANGED <<prs, row, audit>>
  BY DEF Invoke
<1>5. PullTypeOK'
  BY <1>1, <1>3, <1>4 DEF IInv, PullTypeOK
<1>6. LeaderInv'
  <2> SUFFICES ASSUME NEW d \in Calls
               PROVE  /\ call'[d].pc \in Working \union {"joined"} =>
                           call'[d].run \in Runs /\ call'[d].head \in Heads
                      /\ call'[d].pc \in Working => inflight'[call'[d].run] = d
    BY DEF LeaderInv, RunOf
  <2>1. CASE d = c
    BY <2>1, <1>1, <1>2, <1>3 DEF Working, IInv, PullTypeOK
  <2>2. CASE d # c
    <3>1. c # None /\ d # None
      BY NoneAssumption
    <3>2. QED
      BY <2>2, <3>1, <1>1, <1>3 DEF IInv, PullTypeOK, LeaderInv, RunOf
  <2>3. QED
    BY <2>1, <2>2
<1>7. NumberInv' /\ StoredInv'
  BY <1>2, <1>3, <1>4 DEF IInv, NumberInv, StoredInv, At, RunOf
<1>8. CreateInv' /\ OnePrPerHead'
  BY <1>2, <1>3, <1>4 DEF IInv, CreateInv, OnePrPerHead, Matches, At, RunOf
<1>9. AnswersAreAudited'
  BY <1>2, <1>3, <1>4 DEF IInv, AnswersAreAudited, At, RunOf
<1>10. IsFiniteSet(prs)'
  BY <1>4 DEF IInv
<1>11. QED
  BY <1>5, <1>6, <1>7, <1>8, <1>9, <1>10 DEF IInv

(* An end that is not an answer. *)
LEMMA FailureKeeps ==
    ASSUME IInv, NEW c \in Calls, call[c].pc \in Working, Settle(c, "failed"),
           UNCHANGED <<prs, row, audit>>
    PROVE  IInv'
<1>1. "failed" \in Finished
  BY DEF Finished
<1>2. /\ call' \in [Calls -> Call] /\ inflight' \in [Runs -> Calls \union {None}]
      /\ LeaderInv' /\ NumberInv' /\ CreateInv' /\ StoredInv'
  BY <1>1, SettleKeeps
<1>3. PullTypeOK' /\ IsFiniteSet(prs)' /\ OnePrPerHead'
  BY <1>2 DEF IInv, PullTypeOK, OnePrPerHead
<1>4. \A d \in Calls : call'[d] = call[d] \/ call'[d].pc = "failed"
  BY <1>1, SettleFacts
<1>5. AnswersAreAudited'
  BY <1>4 DEF IInv, AnswersAreAudited, At, RunOf
<1>6. QED
  BY <1>2, <1>3, <1>5 DEF IInv

(* The pull request that is opened is the first of its head: the listing    *)
(* found none, and no other call of the run has worked since.               *)
LEMMA CreateKeeps ==
    ASSUME IInv, NEW c \in Calls, CreatePr(c)
    PROVE  IInv'
<1> DEFINE p == [number |-> NextNumber, run |-> RunOf(c), head |-> call[c].head]
           new == [call[c] EXCEPT !.pc = "load", !.number = NextNumber, !.created = TRUE]
<1>1. c \in Calls /\ At(c, "create") /\ call[c].pc \in Working
  BY DEF CreatePr, At, Working
<1>2. NextNumber \in Nat
  BY FS_CardinalityType DEF IInv, NextNumber
<1>3. RunOf(c) \in Runs /\ call[c].head \in Heads /\ inflight[RunOf(c)] = c
  BY <1>1 DEF IInv, LeaderInv
<1>4. /\ new \in Call
      /\ new.run = call[c].run /\ new.head = call[c].head
      /\ new.pc = "load" /\ new.number = NextNumber
  BY <1>2 DEF IInv, PullTypeOK, Call, Working
<1>5. /\ call' \in [Calls -> Call]
      /\ call'[c] = new
      /\ \A d \in Calls : d # c => call'[d] = call[d]
  BY <1>4 DEF IInv, PullTypeOK, CreatePr
<1>6. prs' = prs \union {p} /\ UNCHANGED <<inflight, row, audit>>
  BY DEF CreatePr
<1>7. p \in PullRequest /\ p.run = RunOf(c) /\ p.head = call[c].head
  BY <1>2, <1>3 DEF PullRequest
<1> HIDE DEF p, new
<1>8. PullTypeOK'
  BY <1>5, <1>6, <1>7 DEF IInv, PullTypeOK
<1>9. IsFiniteSet(prs)'
  BY <1>6, FS_AddElement DEF IInv
<1>10. LeaderInv'
  BY <1>1, <1>4, <1>5, <1>6 DEF IInv, LeaderInv, RunOf
<1>11. NumberInv' /\ StoredInv'
  BY <1>2, <1>4, <1>5, <1>6 DEF IInv, NumberInv, StoredInv, At, RunOf
<1>12. CreateInv'
  <2> SUFFICES ASSUME NEW d \in Calls, At(d, "create")' PROVE Matches(d)' = {}
    BY DEF CreateInv
  <2>1. d # c /\ call'[d] = call[d] /\ At(d, "create") /\ call[d].pc \in Working
    BY <1>4, <1>5 DEF At, Working
  <2>2. RunOf(d) # RunOf(c)
    BY <1>3, <2>1 DEF IInv, LeaderInv
  <2>3. Matches(d) = {}
    BY <2>1 DEF IInv, CreateInv
  <2>4. QED
    BY <1>6, <1>7, <2>1, <2>2, <2>3 DEF Matches, RunOf
<1>13. OnePrPerHead'
  <2>1. Matches(c) = {}
    BY <1>1 DEF IInv, CreateInv
  <2>2. \A q \in prs : ~(q.run = p.run /\ q.head = p.head)
    BY <1>7, <2>1 DEF Matches
  <2>3. QED
    BY <1>6, <2>2 DEF IInv, OnePrPerHead
<1>14. AnswersAreAudited'
  BY <1>4, <1>5, <1>6 DEF IInv, AnswersAreAudited, At, RunOf
<1>15. QED
  BY <1>8, <1>9, <1>10, <1>11, <1>12, <1>13, <1>14 DEF IInv

(* Writing the row takes nothing from a call that is about to be answered:  *)
(* it would be one of the same run.                                         *)
LEMMA UpdateKeeps ==
    ASSUME IInv, NEW c \in Calls, UpdateRow(c)
    PROVE  IInv'
<1> DEFINE new == Leave(c, "append")
           entry == [version |-> row[RunOf(c)].version + 1, number |-> call[c].number]
<1>1. At(c, "update") /\ call[c].pc \in Working
  BY DEF UpdateRow, At, Working
<1>2. RunOf(c) \in Runs /\ inflight[RunOf(c)] = c /\ call[c].number \in Nat
  BY <1>1 DEF IInv, LeaderInv, NumberInv, At
<1>3. "append" \in PCs
  BY DEF PCs, Working
<1>4. /\ new \in Call
      /\ new.run = call[c].run /\ new.head = call[c].head
      /\ new.pc = "append" /\ new.number = call[c].number
  BY <1>3, LeaveFacts DEF IInv
<1> HIDE DEF new
<1>5. /\ call' = [call EXCEPT ![c] = new]
      /\ UNCHANGED <<inflight, prs, audit>>
  BY DEF UpdateRow, Goto, new
<1>6. /\ call' \in [Calls -> Call]
      /\ call'[c] = new
      /\ \A d \in Calls : d # c => call'[d] = call[d]
  BY <1>4, <1>5 DEF IInv, PullTypeOK
<1>7. row' = [row EXCEPT ![RunOf(c)] = entry]
  BY DEF UpdateRow
<1>8. entry \in [version : Nat, number : Nat \union {None}] /\ entry.number = call[c].number
  BY <1>2 DEF IInv, PullTypeOK
<1> HIDE DEF entry
<1>9. /\ row' \in [Runs -> [version : Nat, number : Nat \union {None}]]
      /\ row'[RunOf(c)].number = call[c].number
      /\ \A r \in Runs : r # RunOf(c) => row'[r] = row[r]
  BY <1>2, <1>7, <1>8 DEF IInv, PullTypeOK
<1>10. PullTypeOK'
  BY <1>5, <1>6, <1>9 DEF IInv, PullTypeOK
<1>11. LeaderInv' /\ NumberInv'
  BY <1>1, <1>2, <1>4, <1>5, <1>6 DEF IInv, LeaderInv, NumberInv, RunOf
<1>12. CreateInv' /\ OnePrPerHead'
  BY <1>4, <1>5, <1>6 DEF IInv, CreateInv, OnePrPerHead, Matches, At, RunOf
<1>13. StoredInv'
  <2> SUFFICES ASSUME NEW d \in Calls, At(d, "append")'
               PROVE  row'[call'[d].run].number = call'[d].number
    BY DEF StoredInv, RunOf
  <2>1. CASE d = c
    BY <2>1, <1>4, <1>6, <1>9 DEF RunOf
  <2>2. CASE d # c
    <3>1. call'[d] = call[d] /\ At(d, "append") /\ call[d].pc \in Working
      BY <2>2, <1>6 DEF At, Working
    <3>2. RunOf(d) \in Runs /\ RunOf(d) # RunOf(c)
      BY <1>2, <2>2, <3>1 DEF IInv, LeaderInv
    <3>3. QED
      BY <1>9, <3>1, <3>2 DEF IInv, StoredInv, RunOf
  <2>3. QED
    BY <2>1, <2>2
<1>14. AnswersAreAudited'
  BY <1>4, <1>5, <1>6 DEF IInv, AnswersAreAudited, At, RunOf
<1>15. IsFiniteSet(prs)'
  BY <1>5 DEF IInv
<1>16. QED
  BY <1>10, <1>11, <1>12, <1>13, <1>14, <1>15 DEF IInv

(* The record is appended in the step that answers the call and its joiners. *)
LEMMA AppendKeeps ==
    ASSUME IInv, NEW c \in Calls, AppendAudit(c)
    PROVE  IInv'
<1>1. At(c, "append") /\ call[c].pc \in Working /\ "answered" \in Finished
  BY DEF AppendAudit, At, Working, Finished
<1>2. Settle(c, "answered") /\ UNCHANGED <<prs, row>>
  BY DEF AppendAudit
<1>3. /\ call' \in [Calls -> Call] /\ inflight' \in [Runs -> Calls \union {None}]
      /\ LeaderInv' /\ NumberInv' /\ CreateInv' /\ StoredInv'
  BY <1>1, <1>2, SettleKeeps
<1>4. RunOf(c) \in Runs /\ call[c].head \in Heads /\ call[c].number \in Nat
  BY <1>1 DEF IInv, LeaderInv, NumberInv, At
<1> DEFINE rec == [kind |-> IF call[c].created THEN "pr.create" ELSE "pr.reused",
                   run |-> RunOf(c), head |-> call[c].head, number |-> call[c].number]
<1>5. /\ audit' = audit \union {rec}
      /\ rec \in [kind : {"pr.create", "pr.reused"}, run : Runs, head : Heads, number : Nat]
      /\ rec.run = RunOf(c) /\ rec.number = call[c].number
  <2>1. audit' = audit \union {rec}
    BY DEF AppendAudit, AuditRecord
  <2>2. QED
    BY <1>4, <2>1
<1> HIDE DEF rec
<1>6. PullTypeOK'
  BY <1>2, <1>3, <1>5 DEF IInv, PullTypeOK
<1>7. IsFiniteSet(prs)' /\ OnePrPerHead'
  BY <1>2 DEF IInv, OnePrPerHead
<1>8. \A d \in Calls :
        \/ call'[d] = call[d]
        \/ call'[d].run = call[c].run /\ call'[d].number = call[c].number
  BY <1>1, <1>2, SettleFacts
<1>9. AnswersAreAudited'
  BY <1>5, <1>8 DEF IInv, AnswersAreAudited, At, RunOf
<1>10. QED
  BY <1>3, <1>6, <1>7, <1>9 DEF IInv

(* Every step of a call, one case per action. *)
LEMMA StepKeeps ==
    ASSUME IInv, NEW c \in Calls, Step(c)
    PROVE  IInv'
<1>1. CASE Throw(c)
  BY <1>1, FailureKeeps DEF Throw
<1>2. CASE ListAgain(c)
  <2> DEFINE new == [call[c] EXCEPT !.tries = @ + 1]
  <2>1. call[c].pc = "list" /\ call[c].pc \in Working
    BY <1>2 DEF ListAgain, At, Working
  <2>2. /\ new \in Call
        /\ new.run = call[c].run /\ new.head = call[c].head /\ new.pc = "list"
    BY <1>2, <2>1 DEF IInv, PullTypeOK, Call, ListAgain, Attempts
  <2>3. call' = [call EXCEPT ![c] = new] /\ UNCHANGED <<inflight, prs, row, audit>>
    BY <1>2 DEF ListAgain
  <2> HIDE DEF new
  <2>4. QED
    BY <2>1, <2>2, <2>3, LocalStep
<1>3. CASE ListFinds(c)
  <2>1. call[c].pc \in Working /\ "check" \in PCs /\ "check" \in Working
    BY <1>3 DEF ListFinds, At, Working, PCs
  <2>2. PICK p \in Matches(c) :
          call' = [call EXCEPT ![c] = [Leave(c, "check") EXCEPT !.number = p.number]]
    BY <1>3 DEF ListFinds
  <2>3. p.number \in Nat
    BY DEF Matches, IInv, PullTypeOK, PullRequest
  <2> DEFINE new == [Leave(c, "check") EXCEPT !.number = p.number]
  <2>4. /\ new \in Call
        /\ new.run = call[c].run /\ new.head = call[c].head /\ new.pc = "check"
        /\ new.number = p.number
    BY <2>1, <2>3, LeaveFacts DEF IInv, Call
  <2>5. call' = [call EXCEPT ![c] = new] /\ UNCHANGED <<inflight, prs, row, audit>>
    BY <1>3, <2>2 DEF ListFinds
  <2> HIDE DEF new
  <2>6. QED
    BY <2>1, <2>3, <2>4, <2>5, LocalStep
<1>4. CASE ListFindsNone(c)
  <2> DEFINE new == Leave(c, "create")
  <2>1. call[c].pc \in Working /\ "create" \in PCs /\ "create" \in Working
    BY <1>4 DEF ListFindsNone, At, Working, PCs
  <2>2. /\ new \in Call
        /\ new.run = call[c].run /\ new.head = call[c].head /\ new.pc = "create"
    BY <2>1, LeaveFacts DEF IInv
  <2>3. call' = [call EXCEPT ![c] = new] /\ UNCHANGED <<inflight, prs, row, audit>>
    BY <1>4 DEF ListFindsNone, Goto
  <2>4. Matches(c) = {}
    BY <1>4 DEF ListFindsNone
  <2> HIDE DEF new
  <2>5. QED
    BY <2>1, <2>2, <2>3, <2>4, LocalStep
<1>5. CASE CheckNumber(c)
  <2>1. /\ call[c].pc = "check" /\ call[c].pc \in Working
        /\ {"append", "load"} \subseteq PCs \intersect Working
    BY <1>5 DEF CheckNumber, At, Working, PCs
  <2>2. PICK pc \in {"append", "load"} :
          /\ call' = [call EXCEPT ![c] = Leave(c, pc)]
          /\ pc = "append" => row[RunOf(c)].number = call[c].number
    BY <1>5 DEF CheckNumber, Goto
  <2> DEFINE new == Leave(c, pc)
  <2>3. /\ new \in Call
        /\ new.run = call[c].run /\ new.head = call[c].head /\ new.pc = pc
        /\ new.number = call[c].number
    BY <2>1, LeaveFacts DEF IInv
  <2>4. call' = [call EXCEPT ![c] = new] /\ UNCHANGED <<inflight, prs, row, audit>>
    BY <1>5, <2>2 DEF CheckNumber
  <2>5. call[c].number \in Nat
    BY <2>1 DEF IInv, NumberInv
  <2> HIDE DEF new
  <2>6. QED
    BY <2>1, <2>2, <2>3, <2>4, <2>5, LocalStep
<1>6. CASE CreatePr(c)
  BY <1>6, CreateKeeps
<1>7. CASE LoadRow(c)
  <2>1. /\ call[c].pc = "load" /\ call[c].pc \in Working
        /\ {"append", "update"} \subseteq Working
    BY <1>7 DEF LoadRow, At, Working
  <2>2. RunOf(c) \in Runs /\ call[c].number \in Nat
    BY <2>1 DEF IInv, LeaderInv, NumberInv
  <2>3. row[RunOf(c)].version \in Nat
    BY <2>2 DEF IInv, PullTypeOK
  <2>4. PICK pc \in {"append", "update"} :
          /\ call' = [call EXCEPT ![c].pc = pc, ![c].version = row[RunOf(c)].version]
          /\ pc = "append" => row[RunOf(c)].number = call[c].number
    BY <1>7 DEF LoadRow
  <2> DEFINE new == [call[c] EXCEPT !.pc = pc, !.version = row[RunOf(c)].version]
  <2>5. /\ new \in Call
        /\ new.run = call[c].run /\ new.head = call[c].head /\ new.pc = pc
        /\ new.number = call[c].number
    BY <2>1, <2>3 DEF IInv, PullTypeOK, Call
  <2>6. call' = [call EXCEPT ![c] = new] /\ UNCHANGED <<inflight, prs, row, audit>>
    BY <1>7, <2>4 DEF LoadRow
  <2> HIDE DEF new
  <2>7. QED
    BY <2>1, <2>2, <2>4, <2>5, <2>6, LocalStep
<1>8. CASE UpdateRow(c)
  BY <1>8, UpdateKeeps
<1>9. CASE UpdateAgain(c)
  <2>1. call[c].pc = "update" /\ call[c].pc \in Working /\ "load" \in Working
    BY <1>9 DEF UpdateAgain, At, Working
  <2>2. CASE call[c].tries < Attempts
    <3> DEFINE new == [call[c] EXCEPT !.pc = "load", !.tries = @ + 1]
    <3>1. /\ new \in Call
          /\ new.run = call[c].run /\ new.head = call[c].head /\ new.pc = "load"
          /\ new.number = call[c].number
      <4>1. call[c] \in Call /\ call[c].tries + 1 \in 1..Attempts
        BY <2>2 DEF IInv, PullTypeOK, Call, Attempts
      <4>2. "load" \in Working \union Finished \union {"new", "joined"}
        BY <2>1
      <4>3. QED
        BY <4>1, <4>2 DEF Call
    <3>2. call' = [call EXCEPT ![c] = new] /\ UNCHANGED <<inflight, prs, row, audit>>
      BY <1>9, <2>2 DEF UpdateAgain
    <3>3. call[c].number \in Nat
      BY <2>1 DEF IInv, NumberInv
    <3> HIDE DEF new
    <3>4. QED
      BY <2>1, <3>1, <3>2, <3>3, LocalStep
  <2>3. CASE ~(call[c].tries < Attempts)
    BY <1>9, <2>1, <2>3, FailureKeeps DEF UpdateAgain
  <2>4. QED
    BY <2>2, <2>3
<1>10. CASE AppendAudit(c)
  BY <1>10, AppendKeeps
<1>11. QED
  BY <1>1, <1>2, <1>3, <1>4, <1>5, <1>6, <1>7, <1>8, <1>9, <1>10 DEF Step

(* The other modules change the version only. *)
LEMMA TouchKeeps ==
    ASSUME IInv, NEW r \in Runs, TouchRow(r)
    PROVE  IInv'
<1> DEFINE entry == [row[r] EXCEPT !.version = @ + 1]
<1>1. /\ entry \in [version : Nat, number : Nat \union {None}]
      /\ entry.number = row[r].number
  BY DEF IInv, PullTypeOK
<1>2. row' = [row EXCEPT ![r] = entry] /\ UNCHANGED <<call, inflight, prs, audit>>
  BY DEF TouchRow
<1> HIDE DEF entry
<1>3. /\ row' \in [Runs -> [version : Nat, number : Nat \union {None}]]
      /\ \A s \in Runs : row'[s].number = row[s].number
  BY <1>1, <1>2 DEF IInv, PullTypeOK
<1>4. PullTypeOK'
  BY <1>2, <1>3 DEF IInv, PullTypeOK
<1>5. LeaderInv' /\ NumberInv' /\ CreateInv' /\ OnePrPerHead' /\ AnswersAreAudited'
  BY <1>2 DEF IInv, LeaderInv, NumberInv, CreateInv, OnePrPerHead,
              AnswersAreAudited, Matches, At, RunOf
<1>6. StoredInv'
  <2> SUFFICES ASSUME NEW c \in Calls, At(c, "append")'
               PROVE  row'[call[c].run].number = call[c].number
    BY <1>2 DEF StoredInv, RunOf
  <2>1. At(c, "append") /\ call[c].run \in Runs
    BY <1>2 DEF IInv, LeaderInv, At, RunOf, Working
  <2>2. QED
    BY <1>3, <2>1 DEF IInv, StoredInv, RunOf
<1>7. QED
  BY <1>2, <1>4, <1>5, <1>6 DEF IInv

(* A crash ends every call and takes nothing that was stored. *)
LEMMA CrashKeeps ==
    ASSUME IInv, Crash
    PROVE  IInv'
<1>1. "lost" \in PCs
  BY DEF PCs, Finished
<1>2. \A c \in Calls : Leave(c, "lost") \in Call /\ Leave(c, "lost").pc = "lost"
  BY <1>1, LeaveFacts DEF IInv
<1>3. call' \in [Calls -> Call]
  BY <1>2 DEF Crash, IInv, PullTypeOK
<1>4. \A c \in Calls :
        \/ call'[c] = call[c] /\ call[c].pc \in Finished \union {"new"}
        \/ call'[c].pc = "lost"
  BY <1>2 DEF Crash
<1>5. UNCHANGED <<prs, row, audit>> /\ inflight' \in [Runs -> Calls \union {None}]
  BY DEF Crash
<1>6. PullTypeOK' /\ IsFiniteSet(prs)' /\ OnePrPerHead'
  BY <1>3, <1>5 DEF IInv, PullTypeOK, OnePrPerHead
<1>7. LeaderInv' /\ NumberInv' /\ CreateInv' /\ StoredInv'
  BY <1>4 DEF LeaderInv, NumberInv, CreateInv, StoredInv, At, Working, Finished
<1>8. AnswersAreAudited'
  BY <1>4, <1>5 DEF IInv, AnswersAreAudited, At, RunOf
<1>9. QED
  BY <1>6, <1>7, <1>8 DEF IInv

(* One case per disjunct of Next. *)
LEMMA NextIInv == IInv /\ [PullNext]_pullVars => IInv'
<1> SUFFICES ASSUME IInv, [PullNext]_pullVars PROVE IInv'
  OBVIOUS
<1>1. CASE \E c \in Calls, r \in Runs, h \in Heads : Invoke(c, r, h)
  BY <1>1, InvokeKeeps
<1>2. CASE \E c \in Calls : Step(c)
  BY <1>2, StepKeeps
<1>3. CASE \E r \in Runs : TouchRow(r)
  BY <1>3, TouchKeeps
<1>4. CASE Crash
  BY <1>4, CrashKeeps
<1>5. CASE UNCHANGED pullVars
  BY <1>5 DEF pullVars, IInv, PullTypeOK, LeaderInv, NumberInv, CreateInv, StoredInv,
              OnePrPerHead, AnswersAreAudited, Matches, At, RunOf
<1>6. QED
  BY <1>1, <1>2, <1>3, <1>4, <1>5 DEF PullNext

(* The strengthened invariant holds throughout. *)
LEMMA Invariance == PullSpec => []IInv
  BY InitIInv, NextIInv, PTL DEF PullSpec

(* The calls, the in-flight map, GitHub, the rows and the chain keep their  *)
(* types.                                                                   *)
THEOREM TypeCorrect == PullSpec => []PullTypeOK
<1>1. IInv => PullTypeOK
  BY DEF IInv
<1>2. QED
  BY <1>1, Invariance, PTL

(* At most one open pull request per run and head, for any number of calls, *)
(* errors, lost answers and crashes.                                        *)
THEOREM NoDuplicatePullRequests == PullSpec => []OnePrPerHead
<1>1. IInv => OnePrPerHead
  BY DEF IInv
<1>2. QED
  BY <1>1, Invariance, PTL

(* Every pull request that was handed out is in the audit chain. *)
THEOREM AnswersAreInTheChain == PullSpec => []AnswersAreAudited
<1>1. IInv => AnswersAreAudited
  BY DEF IInv
<1>2. QED
  BY <1>1, Invariance, PTL

(* Only AppendAudit answers, and by then the row holds the number. *)
LEMMA AnswerStep ==
    ASSUME IInv, [PullNext]_pullVars, NEW c \in Calls, ~At(c, "answered"), At(c, "answered")'
    PROVE  row'[call[c].run].number = call'[c].number
<1>1. PICK a \in Calls : AppendAudit(a)
  <2>1. ~UNCHANGED pullVars
    BY DEF pullVars, At
  <2>2. ~ \E r \in Runs : TouchRow(r)
    BY DEF TouchRow, At
  <2>3. ~Crash
    <3>1. "lost" \in PCs
      BY DEF PCs, Finished
    <3>2. Leave(c, "lost").pc = "lost"
      BY <3>1, LeaveFacts DEF IInv
    <3>3. QED
      BY <3>2 DEF Crash, At
  <2>4. ~ \E d \in Calls, r \in Runs, h \in Heads : Invoke(d, r, h)
    <3> SUFFICES ASSUME NEW d \in Calls, NEW r \in Runs, NEW h \in Heads, Invoke(d, r, h)
                 PROVE  FALSE
      OBVIOUS
    <3>1. PICK pc \in {"list", "joined"} :
            call' = [call EXCEPT ![d].run = r, ![d].head = h, ![d].pc = pc]
      BY DEF Invoke
    <3> DEFINE new == [call[d] EXCEPT !.run = r, !.head = h, !.pc = pc]
    <3>2. new.pc = pc
      BY DEF IInv, PullTypeOK, Call
    <3>3. call' = [call EXCEPT ![d] = new]
      BY <3>1
    <3> HIDE DEF new
    <3>4. QED
      BY <3>2, <3>3 DEF IInv, PullTypeOK, At
  <2>5. PICK a \in Calls : Step(a)
    BY <2>1, <2>2, <2>3, <2>4 DEF PullNext
  <2>6. call[a] \in Call
    BY DEF IInv, PullTypeOK
  <2>7. ~(call[a].pc \in Working /\ Settle(a, "failed"))
    BY SettleFacts DEF At, Finished
  <2>8. \A new : call' = [call EXCEPT ![a] = new] => new.pc = "answered"
    BY DEF IInv, PullTypeOK, At
  <2>9. \A pc \in PCs \ {"answered"} : call' # [call EXCEPT ![a] = Leave(a, pc)]
    BY <2>8, LeaveFacts DEF IInv
  <2>10. ~Throw(a)
    BY <2>7 DEF Throw
  <2>11. ~ListAgain(a)
    <3> DEFINE new == [call[a] EXCEPT !.tries = @ + 1]
    <3>1. new.pc = call[a].pc
      BY <2>6 DEF Call
    <3>2. ListAgain(a) => call' = [call EXCEPT ![a] = new] /\ call[a].pc = "list"
      BY DEF ListAgain, At
    <3> HIDE DEF new
    <3>3. QED
      BY <2>8, <3>1, <3>2
  <2>12. ~ListFinds(a)
    <3> SUFFICES ASSUME NEW p \in Matches(a),
                        call' = [call EXCEPT ![a] = [Leave(a, "check") EXCEPT !.number = p.number]]
                 PROVE  FALSE
      BY DEF ListFinds
    <3> DEFINE new == [Leave(a, "check") EXCEPT !.number = p.number]
    <3>1. "check" \in PCs
      BY DEF PCs, Working
    <3>2. new.pc = "check"
      BY <3>1, LeaveFacts DEF IInv, Call
    <3>3. call' = [call EXCEPT ![a] = new]
      OBVIOUS
    <3> HIDE DEF new
    <3>4. QED
      BY <2>8, <3>2, <3>3
  <2>13. ~ListFindsNone(a) /\ ~CheckNumber(a) /\ ~UpdateRow(a)
    <3>1. {"create", "append", "load"} \subseteq PCs \ {"answered"}
      BY DEF PCs, Working
    <3>2. \A pc \in {"create", "append", "load"} : ~Goto(a, pc)
      BY <2>9, <3>1 DEF Goto
    <3>3. QED
      BY <3>2 DEF ListFindsNone, CheckNumber, UpdateRow
  <2>14. ~CreatePr(a)
    <3> DEFINE new == [call[a] EXCEPT !.pc = "load", !.number = NextNumber, !.created = TRUE]
    <3>1. new.pc = "load"
      BY <2>6 DEF Call
    <3>2. CreatePr(a) => call' = [call EXCEPT ![a] = new]
      BY DEF CreatePr
    <3> HIDE DEF new
    <3>3. QED
      BY <2>8, <3>1, <3>2
  <2>15. ~LoadRow(a)
    <3> SUFFICES ASSUME NEW pc \in {"append", "update"},
                        call' = [call EXCEPT ![a].pc = pc, ![a].version = row[RunOf(a)].version]
                 PROVE  FALSE
      BY DEF LoadRow
    <3> DEFINE new == [call[a] EXCEPT !.pc = pc, !.version = row[RunOf(a)].version]
    <3>1. new.pc = pc
      BY <2>6 DEF Call
    <3>2. call' = [call EXCEPT ![a] = new]
      OBVIOUS
    <3> HIDE DEF new
    <3>3. QED
      BY <2>8, <3>1, <3>2
  <2>16. ~UpdateAgain(a)
    <3> DEFINE new == [call[a] EXCEPT !.pc = "load", !.tries = @ + 1]
    <3>1. new.pc = "load"
      BY <2>6 DEF Call
    <3>2. call' # [call EXCEPT ![a] = new]
      <4> HIDE DEF new
      <4>1. QED
        BY <2>8, <3>1
    <3>3. UpdateAgain(a) => call[a].pc \in Working /\ Settle(a, "failed")
      BY <3>2 DEF UpdateAgain, At, Working
    <3>4. QED
      BY <2>7, <3>3
  <2>17. QED
    BY <2>5, <2>10, <2>11, <2>12, <2>13, <2>14, <2>15, <2>16 DEF Step
<1>2. call[a].pc \in Working /\ At(a, "append") /\ "answered" \in Finished
  BY <1>1 DEF AppendAudit, At, Working, Finished
<1>3. Settle(a, "answered") /\ row' = row
  BY <1>1 DEF AppendAudit
<1>4. call'[c] # call[c]
  BY DEF At
<1>5. call[c].run = call[a].run /\ call'[c].number = call[a].number
  BY <1>2, <1>3, <1>4, SettleFacts
<1>6. row[call[a].run].number = call[a].number
  BY <1>2 DEF IInv, StoredInv, RunOf
<1>7. QED
  BY <1>3, <1>5, <1>6

(* When a call is answered, the row holds the number of the answer. *)
THEOREM AnswersAreStored == PullSpec => AnswerIsStored
<1>1. IInv /\ [PullNext]_pullVars =>
        [\A c \in Calls :
           ~At(c, "answered") /\ At(c, "answered")' =>
              row'[RunOf(c)].number = call'[c].number]_pullVars
  BY AnswerStep DEF RunOf
<1>2. QED
  BY <1>1, Invariance, PTL DEF PullSpec, AnswerIsStored

-----------------------------------------------------------------------------
(* What the callers see *)

(* The numbers run r has on GitHub. *)
NumbersOf(r) == {p.number : p \in {q \in prs : q.run = r}}

(* Where a call has a pull request in hand. *)
Late == {"check", "load", "update", "append"}

(* Numbers are given out in order, a call asks once, and the pull request   *)
(* it has in hand is one of its run.                                        *)
OpenInv ==
    /\ \A p \in prs : p.number \in 1 .. Cardinality(prs)
    /\ \A c \in Calls : call[c].pc = "new" => RunOf(c) = None
    /\ \A c \in Calls : call[c].pc \in Late => call[c].number \in NumbersOf(RunOf(c))

(* Call c goes on, and its caller sees nothing of it. *)
GoesOn(c) ==
    /\ call'[c].run = call[c].run
    /\ call[c].pc # "answered" /\ call'[c].pc \notin {"answered", "new"}
    /\ call'[c].pc \in Late => call'[c].number \in NumbersOf(RunOf(c))

(* A step nobody sees. *)
Unseen ==
    /\ UNCHANGED prs
    /\ \A r \in Runs : row'[r].number = row[r].number
    /\ \A c \in Calls : call'[c] = call[c] \/ GoesOn(c)

(* What a working call does on its own. *)
LEMMA LocalIsUnseen ==
    ASSUME IInv, NEW c \in Calls, call[c].pc \in Working, NEW new,
           call' = [call EXCEPT ![c] = new], UNCHANGED <<prs, row>>,
           new.run = call[c].run, new.pc \in Working,
           new.pc \in Late => new.number \in NumbersOf(RunOf(c))
    PROVE  Unseen
<1>1. call'[c] = new /\ \A d \in Calls : d # c => call'[d] = call[d]
  BY DEF IInv, PullTypeOK
<1>2. GoesOn(c)
  BY <1>1 DEF GoesOn, Working
<1> QED
  BY <1>1, <1>2 DEF Unseen

(* Nor does anybody see a call fail. *)
LEMMA FailureIsUnseen ==
    ASSUME IInv, NEW c \in Calls, call[c].pc \in Working, Settle(c, "failed"),
           UNCHANGED <<prs, row>>
    PROVE  Unseen
<1>1. ASSUME NEW d \in Calls PROVE call'[d] = call[d] \/ GoesOn(d)
  <2>1. \/ call'[d] = call[d]
        \/ call'[d] = [Leave(d, "failed") EXCEPT !.number = call[c].number]
           /\ (d = c \/ At(d, "joined"))
    BY DEF Settle
  <2>2. "failed" \in PCs
    BY DEF PCs, Finished
  <2>3. LET new == [Leave(d, "failed") EXCEPT !.number = call[c].number]
        IN new.pc = "failed" /\ new.run = call[d].run
    BY <2>2, LeaveFacts DEF IInv, Call
  <2> QED
    BY <2>1, <2>3 DEF GoesOn, At, Working, Late
<1> QED
  BY <1>1 DEF Unseen

(* Every step of a call but those that open, register and answer. *)
LEMMA StepIsUnseen ==
    ASSUME IInv, OpenInv, NEW c \in Calls, Step(c),
           ~CreatePr(c), ~UpdateRow(c), ~AppendAudit(c)
    PROVE  Unseen
<1>0. call[c] \in Call /\ \A pc \in Working : pc \in PCs
  BY DEF IInv, PullTypeOK, PCs
<1>1. CASE Throw(c)
  BY <1>1, FailureIsUnseen DEF Throw
<1>2. CASE ListAgain(c)
  <2> DEFINE new == [call[c] EXCEPT !.tries = @ + 1]
  <2>1. call[c].pc = "list" /\ call[c].pc \in Working /\ "list" \notin Late
    BY <1>2 DEF ListAgain, At, Working, Late
  <2>2. new.run = call[c].run /\ new.pc = "list"
    BY <1>0, <2>1 DEF Call
  <2>3. call' = [call EXCEPT ![c] = new] /\ UNCHANGED <<prs, row>>
    BY <1>2 DEF ListAgain
  <2> HIDE DEF new
  <2> QED
    BY <2>1, <2>2, <2>3, LocalIsUnseen
<1>3. CASE ListFinds(c)
  <2>1. call[c].pc \in Working /\ "check" \in Working
    BY <1>3 DEF ListFinds, At, Working
  <2>2. PICK p \in Matches(c) :
          call' = [call EXCEPT ![c] = [Leave(c, "check") EXCEPT !.number = p.number]]
    BY <1>3 DEF ListFinds
  <2>3. p.number \in NumbersOf(RunOf(c))
    BY DEF Matches, NumbersOf
  <2> DEFINE new == [Leave(c, "check") EXCEPT !.number = p.number]
  <2>4. new.run = call[c].run /\ new.pc = "check" /\ new.number = p.number
    BY <1>0, <2>1, LeaveFacts DEF IInv, Call
  <2>5. call' = [call EXCEPT ![c] = new] /\ UNCHANGED <<prs, row>>
    BY <1>3, <2>2 DEF ListFinds
  <2> HIDE DEF new
  <2> QED
    BY <2>1, <2>3, <2>4, <2>5, LocalIsUnseen
<1>4. CASE ListFindsNone(c)
  <2>1. call[c].pc \in Working /\ "create" \in Working /\ "create" \notin Late
    BY <1>4 DEF ListFindsNone, At, Working, Late
  <2>2. Leave(c, "create").run = call[c].run /\ Leave(c, "create").pc = "create"
    BY <1>0, <2>1, LeaveFacts DEF IInv
  <2>3. call' = [call EXCEPT ![c] = Leave(c, "create")] /\ UNCHANGED <<prs, row>>
    BY <1>4 DEF ListFindsNone, Goto
  <2> QED
    BY <2>1, <2>2, <2>3, LocalIsUnseen
<1>5. CASE CheckNumber(c)
  <2>1. /\ call[c].pc \in Working /\ call[c].pc \in Late
        /\ {"append", "load"} \subseteq Working
    BY <1>5 DEF CheckNumber, At, Working, Late
  <2>2. PICK pc \in {"append", "load"} : call' = [call EXCEPT ![c] = Leave(c, pc)]
    BY <1>5 DEF CheckNumber, Goto
  <2>3. /\ Leave(c, pc).run = call[c].run /\ Leave(c, pc).pc = pc
        /\ Leave(c, pc).number = call[c].number
    BY <1>0, <2>1, LeaveFacts DEF IInv
  <2>4. call[c].number \in NumbersOf(RunOf(c)) /\ UNCHANGED <<prs, row>>
    BY <1>5, <2>1 DEF OpenInv, CheckNumber
  <2> QED
    BY <2>1, <2>2, <2>3, <2>4, LocalIsUnseen
<1>6. CASE LoadRow(c)
  <2>1. /\ call[c].pc \in Working /\ call[c].pc \in Late
        /\ {"append", "update"} \subseteq Working
    BY <1>6 DEF LoadRow, At, Working, Late
  <2>2. PICK pc \in {"append", "update"} :
          call' = [call EXCEPT ![c].pc = pc, ![c].version = row[RunOf(c)].version]
    BY <1>6 DEF LoadRow
  <2> DEFINE new == [call[c] EXCEPT !.pc = pc, !.version = row[RunOf(c)].version]
  <2>3. new.run = call[c].run /\ new.pc = pc /\ new.number = call[c].number
    BY <1>0 DEF Call
  <2>4. /\ call' = [call EXCEPT ![c] = new] /\ UNCHANGED <<prs, row>>
        /\ call[c].number \in NumbersOf(RunOf(c))
    BY <1>6, <2>1, <2>2 DEF OpenInv, LoadRow
  <2> HIDE DEF new
  <2> QED
    BY <2>1, <2>3, <2>4, LocalIsUnseen
<1>7. CASE UpdateAgain(c)
  <2>1. call[c].pc \in Working /\ call[c].pc \in Late /\ "load" \in Working
    BY <1>7 DEF UpdateAgain, At, Working, Late
  <2>2. CASE call[c].tries < Attempts
    <3> DEFINE new == [call[c] EXCEPT !.pc = "load", !.tries = @ + 1]
    <3>1. new.run = call[c].run /\ new.pc = "load" /\ new.number = call[c].number
      BY <1>0 DEF Call
    <3>2. /\ call' = [call EXCEPT ![c] = new] /\ UNCHANGED <<prs, row>>
          /\ call[c].number \in NumbersOf(RunOf(c))
      BY <1>7, <2>1, <2>2 DEF OpenInv, UpdateAgain
    <3> HIDE DEF new
    <3> QED
      BY <2>1, <3>1, <3>2, LocalIsUnseen
  <2>3. CASE ~(call[c].tries < Attempts)
    BY <1>7, <2>1, <2>3, FailureIsUnseen DEF UpdateAgain
  <2> QED
    BY <2>2, <2>3
<1> QED
  BY <1>1, <1>2, <1>3, <1>4, <1>5, <1>6, <1>7 DEF Step

(* A crash answers nobody. *)
LEMMA CrashIsUnseen ==
    ASSUME IInv, Crash PROVE Unseen
<1>1. "lost" \in PCs
  BY DEF PCs, Finished
<1>2. \A c \in Calls : Leave(c, "lost").run = call[c].run /\ Leave(c, "lost").pc = "lost"
  BY <1>1, LeaveFacts DEF IInv
<1>3. \A c \in Calls : call'[c] = call[c] \/ GoesOn(c)
  BY <1>2 DEF Crash, GoesOn, Late, Finished
<1> QED
  BY <1>3 DEF Unseen, Crash

-----------------------------------------------------------------------------

(* What nobody sees keeps the invariant. *)
LEMMA UnseenKeeps ==
    ASSUME OpenInv, Unseen PROVE OpenInv'
<1>1. prs' = prs /\ \A r : NumbersOf(r)' = NumbersOf(r)
  BY DEF Unseen, NumbersOf
<1>2. ASSUME NEW c \in Calls
      PROVE  /\ call'[c].pc = "new" => call'[c].run = None
             /\ call'[c].pc \in Late => call'[c].number \in NumbersOf(call'[c].run)
  BY DEF Unseen, GoesOn, OpenInv, RunOf
<1> QED
  BY <1>1, <1>2 DEF OpenInv, RunOf

(* A new call asks, and has nothing in hand. *)
LEMMA InvokeFacts ==
    ASSUME IInv, NEW c \in Calls, NEW r \in Runs, NEW h \in Heads, Invoke(c, r, h)
    PROVE  /\ UNCHANGED <<prs, row>> /\ call[c].pc = "new"
           /\ call'[c].run = r /\ call'[c].pc \in {"list", "joined"}
           /\ \A d \in Calls : d # c => call'[d] = call[d]
<1>1. PICK pc \in {"list", "joined"} :
        call' = [call EXCEPT ![c].run = r, ![c].head = h, ![c].pc = pc]
  BY DEF Invoke
<1> DEFINE new == [call[c] EXCEPT !.run = r, !.head = h, !.pc = pc]
<1>2. new.run = r /\ new.pc = pc
  BY DEF IInv, PullTypeOK, Call
<1>3. call'[c] = new /\ \A d \in Calls : d # c => call'[d] = call[d]
  BY <1>1 DEF IInv, PullTypeOK
<1> HIDE DEF new
<1> QED
  BY <1>2, <1>3 DEF Invoke, At

(* The number of a new pull request is the next, and the call has it.       *)
LEMMA CreateFacts ==
    ASSUME IInv, OpenInv, NEW c \in Calls, CreatePr(c)
    PROVE  LET p == [number |-> NextNumber, run |-> RunOf(c), head |-> call[c].head]
           IN  /\ prs' = prs \union {p} /\ row' = row
               /\ \A q \in prs : q.number # p.number /\ ~(q.run = p.run /\ q.head = p.head)
               /\ Cardinality(prs') = NextNumber /\ NextNumber \in Nat /\ NextNumber > 0
               /\ At(c, "create") /\ call'[c].pc = "load" /\ call'[c].number = NextNumber
               /\ call'[c].run = call[c].run
               /\ \A d \in Calls : d # c => call'[d] = call[d]
<1> DEFINE p == [number |-> NextNumber, run |-> RunOf(c), head |-> call[c].head]
           new == [call[c] EXCEPT !.pc = "load", !.number = NextNumber, !.created = TRUE]
<1>1. At(c, "create") /\ Matches(c) = {}
  BY DEF CreatePr, IInv, CreateInv
<1>2. IsFiniteSet(prs) /\ Cardinality(prs) \in Nat
  BY FS_CardinalityType DEF IInv
<1>3. new.pc = "load" /\ new.number = NextNumber /\ new.run = call[c].run
  BY DEF IInv, PullTypeOK, Call
<1>4. call'[c] = new /\ \A d \in Calls : d # c => call'[d] = call[d]
  BY DEF CreatePr, IInv, PullTypeOK
<1>5. prs' = prs \union {p} /\ row' = row
  BY DEF CreatePr
<1>6. \A q \in prs : q.number # NextNumber
  BY <1>2 DEF OpenInv, NextNumber
<1>7. p.number = NextNumber /\ p.run = RunOf(c) /\ p.head = call[c].head
  OBVIOUS
<1> HIDE DEF p, new
<1>8. \A q \in prs : q.number # p.number /\ ~(q.run = p.run /\ q.head = p.head)
  BY <1>1, <1>6, <1>7 DEF Matches
<1>9. Cardinality(prs') = NextNumber
  BY <1>2, <1>5, <1>8, FS_AddElement DEF NextNumber
<1> QED
  BY <1>1, <1>2, <1>3, <1>4, <1>5, <1>8, <1>9 DEF NextNumber, p

(* Registering changes what the row says, and answering what callers know.  *)
LEMMA UpdateFacts ==
    ASSUME IInv, NEW c \in Calls, UpdateRow(c)
    PROVE  /\ prs' = prs /\ At(c, "update") /\ RunOf(c) \in Runs
           /\ row'[RunOf(c)].number = call[c].number
           /\ \A r \in Runs : r # RunOf(c) => row'[r] = row[r]
           /\ call'[c].run = call[c].run /\ call'[c].number = call[c].number
           /\ call'[c].pc = "append"
           /\ \A d \in Calls : d # c => call'[d] = call[d]
<1>1. At(c, "update") /\ call[c].pc \in Working /\ "append" \in PCs
  BY DEF UpdateRow, At, Working, PCs
<1>2. RunOf(c) \in Runs
  BY <1>1 DEF IInv, LeaderInv
<1>3. /\ Leave(c, "append").run = call[c].run /\ Leave(c, "append").pc = "append"
      /\ Leave(c, "append").number = call[c].number
  BY <1>1, LeaveFacts DEF IInv
<1>4. call' = [call EXCEPT ![c] = Leave(c, "append")] /\ prs' = prs
  BY DEF UpdateRow, Goto
<1>5. /\ row'[RunOf(c)].number = call[c].number
      /\ \A r \in Runs : r # RunOf(c) => row'[r] = row[r]
  BY <1>2 DEF UpdateRow, IInv, PullTypeOK
<1> QED
  BY <1>1, <1>2, <1>3, <1>4, <1>5 DEF IInv, PullTypeOK

(* Those who share a call are answered with what the row says. *)
LEMMA AppendFacts ==
    ASSUME IInv, NEW c \in Calls, AppendAudit(c)
    PROVE  /\ UNCHANGED <<prs, row>> /\ At(c, "append")
           /\ RunOf(c) \in Runs /\ call[c].number \in Nat
           /\ row[RunOf(c)].number = call[c].number
           /\ \A d \in Calls :
                IF d = c \/ (At(d, "joined") /\ RunOf(d) = RunOf(c))
                THEN /\ call'[d].pc = "answered" /\ call'[d].number = call[c].number
                     /\ call'[d].run = call[d].run
                ELSE call'[d] = call[d]
<1>1. At(c, "append") /\ call[c].pc \in Working /\ "answered" \in PCs
  BY DEF AppendAudit, At, Working, PCs, Finished
<1>2. \A d \in Calls :
         LET new == [Leave(d, "answered") EXCEPT !.number = call[c].number]
         IN new.pc = "answered" /\ new.number = call[c].number /\ new.run = call[d].run
  BY <1>1, LeaveFacts DEF IInv, Call
<1>3. /\ RunOf(c) \in Runs /\ call[c].number \in Nat
      /\ row[RunOf(c)].number = call[c].number
  BY <1>1 DEF IInv, LeaderInv, NumberInv, StoredInv, At
<1> QED
  BY <1>1, <1>2, <1>3 DEF AppendAudit, Settle

-----------------------------------------------------------------------------

(* Nothing is open, and nobody has asked. *)
LEMMA InitOpenInv == PullInit => OpenInv
BY DEF PullInit, OpenInv, RunOf, Late

(* One case per way a step is seen. *)
LEMMA NextOpenInv == IInv /\ OpenInv /\ [PullNext]_pullVars => OpenInv'
<1> SUFFICES ASSUME IInv, OpenInv, [PullNext]_pullVars PROVE OpenInv'
  OBVIOUS
<1>1. ASSUME NEW c \in Calls, NEW r \in Runs, NEW h \in Heads, Invoke(c, r, h) PROVE OpenInv'
  <2>1. prs' = prs /\ \A x : NumbersOf(x)' = NumbersOf(x)
    BY <1>1, InvokeFacts DEF NumbersOf
  <2> QED
    BY <1>1, <2>1, InvokeFacts DEF OpenInv, RunOf, Late
<1>2. ASSUME NEW c \in Calls, CreatePr(c) PROVE OpenInv'
  <2> DEFINE p == [number |-> NextNumber, run |-> RunOf(c), head |-> call[c].head]
  <2>1. /\ prs' = prs \union {p} /\ Cardinality(prs') = NextNumber
        /\ NextNumber \in Nat /\ NextNumber > 0
        /\ call'[c].pc = "load" /\ call'[c].number = NextNumber /\ call'[c].run = call[c].run
        /\ \A d \in Calls : d # c => call'[d] = call[d]
    BY <1>2, CreateFacts
  <2>2. Cardinality(prs) \in Nat
    BY FS_CardinalityType DEF IInv
  <2>3. ASSUME NEW q \in prs' PROVE q.number \in 1 .. Cardinality(prs')
    BY <2>1, <2>2 DEF OpenInv, NextNumber
  <2>4. \A x : NumbersOf(x) \subseteq NumbersOf(x)'
    BY <2>1 DEF NumbersOf
  <2>5. NextNumber \in NumbersOf(call[c].run)'
    <3>1. p \in prs' /\ p.run = call[c].run /\ p.number = NextNumber
      BY <2>1 DEF RunOf
    <3> HIDE DEF p
    <3>2. \A x : x = p.run => p.number \in NumbersOf(x)'
      BY <3>1 DEF NumbersOf
    <3>3. call'[c].run = p.run /\ call'[c].number = p.number
      BY <2>1, <3>1
    <3> QED
      BY <3>1, <3>2, <3>3
  <2> QED
    BY <2>1, <2>3, <2>4, <2>5 DEF OpenInv, RunOf
<1>3. ASSUME NEW c \in Calls, UpdateRow(c) PROVE OpenInv'
  <2>1. prs' = prs /\ \A x : NumbersOf(x)' = NumbersOf(x)
    BY <1>3, UpdateFacts DEF NumbersOf
  <2> QED
    BY <1>3, <2>1, UpdateFacts DEF OpenInv, RunOf, Late, At
<1>4. ASSUME NEW c \in Calls, AppendAudit(c) PROVE OpenInv'
  <2>1. prs' = prs /\ \A x : NumbersOf(x)' = NumbersOf(x)
    BY <1>4, AppendFacts DEF NumbersOf
  <2> QED
    BY <1>4, <2>1, AppendFacts DEF OpenInv, RunOf, Late, At
<1>5. ASSUME NEW c \in Calls, Step(c), ~CreatePr(c), ~UpdateRow(c), ~AppendAudit(c) PROVE OpenInv'
  BY <1>5, StepIsUnseen, UnseenKeeps
<1>6. CASE \E r \in Runs : TouchRow(r)
  BY <1>6 DEF TouchRow, OpenInv, NumbersOf, RunOf
<1>7. CASE Crash
  BY <1>7, CrashIsUnseen, UnseenKeeps
<1>8. CASE UNCHANGED pullVars
  BY <1>8 DEF pullVars, OpenInv, NumbersOf, RunOf
<1> QED
  BY <1>1, <1>2, <1>3, <1>4, <1>5, <1>6, <1>7, <1>8 DEF PullNext

-----------------------------------------------------------------------------

(* What the callers see. *)
Registered == [r \in Runs |-> row[r].number]
Asked == [c \in Calls |-> RunOf(c)]
Answers == [c \in Calls |-> IF At(c, "answered") THEN call[c].number ELSE None]

(* What nobody sees is no step of the registry. *)
LEMMA UnseenStutters ==
    ASSUME Unseen PROVE UNCHANGED <<prs, Registered, Asked, Answers>>
<1>1. Registered' = Registered
  BY DEF Unseen, Registered
<1>2. \A c \in Calls :
         /\ call'[c].run = call[c].run
         /\ call'[c] = call[c] \/ (call[c].pc # "answered" /\ call'[c].pc # "answered")
  BY DEF Unseen, GoesOn
<1>3. Asked' = Asked
  BY <1>2 DEF Asked, RunOf
<1>4. Answers' = Answers
  BY <1>2 DEF Answers, At
<1> QED
  BY <1>1, <1>3, <1>4 DEF Unseen

(* A step of the service is a step of the registry, or none.                *)
LEMMA RegistryStep ==
    IInv /\ OpenInv /\ [PullNext]_pullVars =>
        [Registry!Ask \/ Registry!Open \/ Registry!Register \/ Registry!Answer]_(Registry!registryVars)
<1> SUFFICES ASSUME IInv, OpenInv, [PullNext]_pullVars
             PROVE  \/ Registry!Ask \/ Registry!Open \/ Registry!Register \/ Registry!Answer
                    \/ UNCHANGED <<prs, Registered, Asked, Answers>>
  BY DEF Registry!registryVars, Registered, Asked, Answers
<1>0. /\ DOMAIN Registered = Runs /\ \A r \in Runs : Registered[r] = row[r].number
      /\ \A c \in Calls : Asked[c] = call[c].run
      /\ \A c \in Calls : Answers[c] = IF call[c].pc = "answered" THEN call[c].number ELSE None
      /\ None \notin Nat /\ None \notin Runs
  BY NoneAssumption DEF Registered, Asked, Answers, RunOf, At
<1>1. ASSUME NEW c \in Calls, NEW r \in Runs, NEW h \in Heads, Invoke(c, r, h)
      PROVE  Registry!Ask
  <2>1. Asked[c] = None /\ Asked' = [Asked EXCEPT ![c] = r]
    <3>1. Asked' = [d \in Calls |-> call'[d].run]
      BY DEF Asked, RunOf
    <3>2. \A d \in Calls : call'[d].run = IF d = c THEN r ELSE Asked[d]
      BY <1>0, <1>1, InvokeFacts
    <3>3. DOMAIN Asked = Calls /\ Asked = [d \in Calls |-> Asked[d]]
      BY DEF Asked
    <3>4. call[c].run = None
      BY <1>1, InvokeFacts DEF OpenInv, RunOf
    <3> QED
      BY <1>0, <3>1, <3>2, <3>3, <3>4
  <2>2. Answers' = Answers
    BY <1>1, InvokeFacts DEF Answers, At
  <2>3. Registered' = Registered /\ prs' = prs
    BY <1>1, InvokeFacts DEF Registered
  <2> QED
    BY <1>0, <2>1, <2>2, <2>3 DEF Registry!Ask, Registered, Asked, Answers
<1>2. ASSUME NEW c \in Calls, CreatePr(c) PROVE Registry!Open
  <2> DEFINE p == [number |-> NextNumber, run |-> RunOf(c), head |-> call[c].head]
  <2>1. /\ prs' = prs \union {p} /\ row' = row
        /\ \A q \in prs : q.number # p.number /\ ~(q.run = p.run /\ q.head = p.head)
        /\ At(c, "create") /\ call'[c].pc = "load" /\ call'[c].run = call[c].run
        /\ \A d \in Calls : d # c => call'[d] = call[d]
    BY <1>2, CreateFacts
  <2> HIDE DEF p
  <2>2. UNCHANGED <<Registered, Asked, Answers>>
    BY <2>1 DEF Registered, Asked, Answers, RunOf, At
  <2> QED
    BY <2>1, <2>2 DEF Registry!Open, Registered, Asked, Answers
<1>3. ASSUME NEW c \in Calls, UpdateRow(c) PROVE Registry!Register
  <2>1. call[c].number \in NumbersOf(RunOf(c))
    BY <1>3, UpdateFacts DEF OpenInv, Late, At
  <2>2. PICK p \in prs : p.run = RunOf(c) /\ p.number = call[c].number
    BY <2>1 DEF NumbersOf
  <2>3. UNCHANGED <<prs, Asked, Answers>>
    BY <1>3, UpdateFacts DEF Asked, Answers, RunOf, At
  <2>4. p.run \in DOMAIN Registered /\ Registered' = [Registered EXCEPT ![p.run] = p.number]
    <3>1. Registered' = [r \in Runs |-> row'[r].number]
      BY DEF Registered
    <3>2. \A r \in Runs : row'[r].number = IF r = p.run THEN p.number ELSE Registered[r]
      BY <1>0, <1>3, <2>2, UpdateFacts
    <3>3. p.run \in Runs /\ Registered = [r \in Runs |-> Registered[r]]
      BY <1>3, <2>2, UpdateFacts DEF Registered
    <3> QED
      BY <1>0, <3>1, <3>2, <3>3
  <2> QED
    BY <2>3, <2>4 DEF Registry!Register, Registered, Asked, Answers
<1>4. ASSUME NEW c \in Calls, AppendAudit(c) PROVE Registry!Answer
  <2> DEFINE r == RunOf(c)
             D == {d \in Calls : d = c \/ (At(d, "joined") /\ RunOf(d) = RunOf(c))}
  <2>1. r \in DOMAIN Registered /\ Registered[r] = call[c].number /\ Registered[r] # None
    BY <1>0, <1>4, AppendFacts
  <2>2. D \in SUBSET {d \in Calls : Asked[d] = r} /\ \A d \in D : Answers[d] = None
    BY <1>0, <1>4, AppendFacts DEF At, RunOf
  <2>3. Answers' = [d \in Calls |-> IF d \in D THEN Registered[r] ELSE Answers[d]]
    BY <1>4, <2>1, AppendFacts DEF Answers, At
  <2>4. UNCHANGED <<prs, Registered, Asked>>
    BY <1>4, AppendFacts DEF Registered, Asked, RunOf
  <2> HIDE DEF r, D
  <2> QED
    BY <2>1, <2>2, <2>3, <2>4 DEF Registry!Answer, Registered, Asked, Answers
<1>5. ASSUME NEW c \in Calls, Step(c), ~CreatePr(c), ~UpdateRow(c), ~AppendAudit(c)
      PROVE  UNCHANGED <<prs, Registered, Asked, Answers>>
  BY <1>5, StepIsUnseen, UnseenStutters
<1>6. ASSUME NEW r \in Runs, TouchRow(r) PROVE UNCHANGED <<prs, Registered, Asked, Answers>>
  <2>1. \A s \in Runs : row'[s].number = row[s].number
    BY <1>6 DEF TouchRow, IInv, PullTypeOK
  <2> QED
    BY <1>6, <2>1 DEF TouchRow, Registered, Asked, Answers, RunOf, At
<1>7. CASE Crash
  BY <1>7, CrashIsUnseen, UnseenStutters
<1>8. CASE UNCHANGED pullVars
  BY <1>8 DEF pullVars, Registered, Asked, Answers, RunOf, At
<1> QED
  BY <1>1, <1>2, <1>3, <1>4, <1>5, <1>6, <1>7, <1>8 DEF PullNext

(* PullRequestService, with its listing, its row versions, its calls in     *)
(* flight, faults and crashes, implements the registry its callers see.     *)
THEOREM ServiceImplementsRegistry == PullSpec => ImplementsRegistry
<1>1. PullInit => Registry!RegistryInit
  BY DEF PullInit, Registry!RegistryInit, RunOf, At
<1>2. QED
  BY <1>1, InitIInv, NextIInv, InitOpenInv, NextOpenInv, RegistryStep, PTL
  DEF PullSpec, ImplementsRegistry, Registry!RegistrySpec

=============================================================================
