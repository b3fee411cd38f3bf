---------------------------- MODULE StoreProofs -----------------------------
(***************************************************************************)
(* What the stores promise to the stages that use them, for any number of  *)
(* callers.                                                                *)
(*                                                                         *)
(* The run lock excludes and the row loses no update.  The lock keeps one  *)
(* number for all who are inside; the argument is that it counts the times *)
(* they came in, so that the release that brings it to zero is the last    *)
(* one out.                                                                *)
(*                                                                         *)
(* Limits are overrun by a bounded amount.  Calls check and consume in two *)
(* steps; of the calls let in and not yet written, one was let in last,    *)
(* what it saw was within the limit, and only the others can have written  *)
(* since.                                                                  *)
(*                                                                         *)
(* The audit chain and its verdicts tell the truth.  A hash stands for the *)
(* bodies it was computed from, so that a row that names its predecessor's *)
(* hash names a place in the chain; rows that are altered or lost are      *)
(* still rows that were written, and those that verify from the first on   *)
(* are the first that were accepted.                                       *)
(*                                                                         *)
(* The policy cache: its types only; what it promises is liveness.         *)
(***************************************************************************)
EXTENDS RunStore, Limits, AuditChain, PolicyCache, FiniteSetTheorems,
        SequenceTheorems, WellFoundedInduction, TLAPS


-----------------------------------------------------------------------------
(* The run lock *)

Pcs == {"outside", "waiting", "woken", "inside", "read", "leaving"}
Rows == [version : Nat, attempt : Nat, exists : BOOLEAN]

Shapes ==
    /\ runRow \in Rows
    /\ updates \in Nat
    /\ lock \in [holder : {Holder[f] : f \in Locking} \union {Nobody}, depth : Nat]
    /\ flow \in [Flows -> [pc : Pcs, read : Rows, depth : 0 .. 2]]

(* What was read or written with a version counts the updates up to it. *)
VersionCounts ==
    /\ runRow.version = updates
    /\ runRow.attempt = updates
    /\ runRow.exists \/ updates = 0
    /\ \A f \in Flows : flow[f].read.attempt = flow[f].read.version

(* The queue holds flows that wait, each once. *)
QueueWaits ==
    /\ waiters \in Seq(Locking)
    /\ \A i \in 1 .. Len(waiters) : flow[waiters[i]].pc = "waiting"
    /\ \A i, j \in 1 .. Len(waiters) : waiters[i] = waiters[j] => i = j

(* The first and the second time each locking flow is inside. *)
Entered == {e \in Locking \X {1, 2} : e[2] <= flow[e[1]].depth}

LockCounts ==
    /\ \A f \in Locking : Inside(f) <=> flow[f].depth > 0
    /\ \A f \in Locking : Inside(f) => lock.holder = Holder[f]
    /\ lock.holder = Nobody <=> lock.depth = 0
    /\ IsFiniteSet(Entered) /\ lock.depth = Cardinality(Entered)

RunInv == Shapes /\ VersionCounts /\ QueueWaits /\ LockCounts

-----------------------------------------------------------------------------

(* A set of pairs that gains one counts one more. *)
LEMMA OneMore ==
    ASSUME NEW S, NEW x, IsFiniteSet(S), x \notin S
    PROVE  IsFiniteSet(S \union {x}) /\ Cardinality(S \union {x}) = Cardinality(S) + 1
BY FS_AddElement

(* A set of pairs that loses one counts one less. *)
LEMMA OneLess ==
    ASSUME NEW S, NEW x, IsFiniteSet(S), x \in S
    PROVE  IsFiniteSet(S \ {x}) /\ Cardinality(S \ {x}) = Cardinality(S) - 1
BY FS_RemoveElement

(* The lock is free exactly when no locking flow is inside. *)
LEMMA FreeWhenNobodyInside ==
    ASSUME RunInv
    PROVE  (\A f \in Locking : ~Inside(f)) <=> lock.holder = Nobody
<1>1. lock.depth = 0 <=> Entered = {}
  BY FS_EmptySet DEF RunInv, LockCounts
<1>2. ASSUME NEW f \in Locking, Inside(f) PROVE <<f, 1>> \in Entered
  BY <1>2 DEF RunInv, Shapes, LockCounts, Entered, Flows
<1>3. ASSUME Entered # {} PROVE \E f \in Locking : Inside(f)
  <2>1. PICK e \in Entered : TRUE
    BY <1>3
  <2>2. e[1] \in Locking /\ flow[e[1]].depth > 0
    BY <2>1 DEF Entered, RunInv, Shapes, Flows
  <2> QED
    BY <2>2 DEF RunInv, LockCounts
<1> QED
  BY <1>1, <1>2, <1>3 DEF RunInv, LockCounts

(* The invariant gives the property the run checks. *)
LEMMA RunInvImplies == RunInv => OneHolderNoLostUpdate
BY FreeWhenNobodyInside DEF RunInv, LockCounts, VersionCounts, OneHolderNoLostUpdate

(* Nobody has come in yet. *)
LEMMA RunInitInv == RunInit => RunInv
<1> SUFFICES ASSUME RunInit PROVE RunInv
  OBVIOUS
<1>1. Shapes
  BY DEF RunInit, Shapes, Absent, Outside, Rows, Pcs
<1>2. VersionCounts /\ QueueWaits
  BY DEF RunInit, VersionCounts, QueueWaits, Absent, Outside
<1>3. Entered = {}
  BY DEF RunInit, Entered, Outside, Flows
<1>4. LockCounts
  BY <1>3, FS_EmptySet, RunStoreAssumption DEF RunInit, LockCounts, Inside, Outside, Flows
<1> QED
  BY <1>1, <1>2, <1>4 DEF RunInv

-----------------------------------------------------------------------------

(* A step that leaves every depth leaves the count. *)
LEMMA CountStays ==
    ASSUME \A g \in Locking : flow'[g].depth = flow[g].depth
    PROVE  Entered' = Entered
BY DEF Entered, Locking

(* Coming in once more adds one. *)
LEMMA CountGrows ==
    ASSUME RunInv, NEW f \in Locking, flow[f].depth \in {0, 1},
           flow'[f].depth = flow[f].depth + 1,
           \A g \in Locking \ {f} : flow'[g].depth = flow[g].depth
    PROVE  IsFiniteSet(Entered') /\ Cardinality(Entered') = Cardinality(Entered) + 1
<1> DEFINE e == <<f, flow[f].depth + 1>>
<1>1. e \notin Entered
  BY DEF Entered
<1>2. Entered' = Entered \union {e}
  BY DEF Entered, Locking, RunInv, Shapes, Flows
<1> QED
  BY <1>1, <1>2, OneMore DEF RunInv, LockCounts

(* Going out once takes one off. *)
LEMMA CountShrinks ==
    ASSUME RunInv, NEW f \in Locking, flow[f].depth \in {1, 2},
           flow'[f].depth = flow[f].depth - 1,
           \A g \in Locking \ {f} : flow'[g].depth = flow[g].depth
    PROVE  IsFiniteSet(Entered') /\ Cardinality(Entered') = Cardinality(Entered) - 1
<1> DEFINE e == <<f, flow[f].depth>>
<1>1. e \in Entered
  BY DEF Entered
<1>2. Entered' = Entered \ {e}
  BY DEF Entered, Locking, RunInv, Shapes, Flows
<1> QED
  BY <1>1, <1>2, OneLess DEF RunInv, LockCounts

(* Who does not wait may change without the queue noticing. *)
LEMMA QueueStays ==
    ASSUME RunInv, NEW f \in Flows, flow[f].pc # "waiting", UNCHANGED waiters,
           \A g \in Flows \ {f} : flow'[g] = flow[g]
    PROVE  QueueWaits'
<1>1. ASSUME NEW i \in 1 .. Len(waiters) PROVE flow'[waiters[i]].pc = "waiting"
  <2>1. waiters[i] \in Locking /\ flow[waiters[i]].pc = "waiting"
    BY DEF RunInv, QueueWaits
  <2> QED
    BY <2>1 DEF Flows
<1> QED
  BY <1>1 DEF RunInv, QueueWaits, Locking

(* A step of one flow that touches neither lock nor queue, and leaves the   *)
(* flow as far inside as it was.                                            *)
LEMMA LockStays ==
    ASSUME RunInv, NEW f \in Flows, UNCHANGED <<lock, waiters>>, Shapes',
           \A g \in Flows \ {f} : flow'[g] = flow[g],
           flow'[f].depth = flow[f].depth, f \in Locking => (Inside(f) <=> Inside(f)'),
           flow[f].pc # "waiting"
    PROVE  QueueWaits' /\ LockCounts'
<1>1. QueueWaits'
  BY QueueStays
<1>2. \A g \in Locking : flow'[g].depth = flow[g].depth /\ (Inside(g) <=> Inside(g)')
  BY DEF Flows, Inside
<1>3. Entered' = Entered
  BY <1>2, CountStays
<1>4. LockCounts'
  BY <1>2, <1>3 DEF RunInv, LockCounts, Locking
<1> QED
  BY <1>1, <1>4

(* Another flow that joins the queue waits at its end, once. *)
LEMMA QueueGrows ==
    ASSUME RunInv, NEW f \in Locking, flow[f].pc \in {"outside", "woken"},
           waiters' = Append(waiters, f), Goes(f, "waiting"), UNCHANGED lock
    PROVE  QueueWaits' /\ LockCounts'
<1>1. /\ f \in Flows /\ flow'[f].pc = "waiting" /\ flow'[f].depth = flow[f].depth
      /\ \A g \in Flows \ {f} : flow'[g] = flow[g]
  BY DEF Goes, RunInv, Shapes, Flows
<1>2. QueueWaits'
  <2>1. waiters \in Seq(Locking) /\ waiters' \in Seq(Locking)
        /\ Len(waiters') = Len(waiters) + 1 /\ waiters'[Len(waiters) + 1] = f
        /\ \A i \in 1 .. Len(waiters) : waiters'[i] = waiters[i]
    BY DEF RunInv, QueueWaits
  <2>2. \A i \in 1 .. Len(waiters) : waiters[i] \in Locking /\ waiters[i] # f
    BY <2>1 DEF RunInv, QueueWaits
  <2> QED
    BY <1>1, <2>1, <2>2 DEF RunInv, QueueWaits, Flows, Locking
<1>3. \A g \in Locking : flow'[g].depth = flow[g].depth /\ (Inside(g) <=> Inside(g)')
  BY <1>1 DEF Flows, Inside, RunInv
<1>4. Entered' = Entered
  BY <1>3, CountStays
<1>5. LockCounts'
  BY <1>3, <1>4 DEF RunInv, LockCounts, Locking
<1> QED
  BY <1>2, <1>5

(* A flow that comes in, into a free lock or one its holder has. *)
LEMMA ComesIn ==
    ASSUME RunInv, NEW f \in Locking, flow[f].pc # "waiting", flow[f].depth \in {0, 1},
           flow'[f].pc = "inside", flow'[f].depth = flow[f].depth + 1,
           \A g \in Flows \ {f} : flow'[g] = flow[g],
           lock.holder \in {Holder[f], Nobody},
           lock' = [holder |-> Holder[f], depth |-> lock.depth + 1], UNCHANGED waiters
    PROVE  QueueWaits' /\ LockCounts'
<1>1. f \in Flows
  BY DEF Flows
<1>2. QueueWaits'
  BY <1>1, QueueStays
<1>3. IsFiniteSet(Entered') /\ Cardinality(Entered') = lock'.depth
  BY <1>1, CountGrows DEF Flows, RunInv, LockCounts
<1>4. lock'.holder # Nobody /\ lock'.depth # 0
  BY RunStoreAssumption DEF RunInv, Shapes
<1>5. \A g \in Locking : Inside(g)' <=> Inside(g) \/ g = f
  BY <1>1 DEF Inside, Flows
<1>6. \A g \in Locking : Inside(g) => Holder[g] = Holder[f]
  BY RunStoreAssumption DEF RunInv, LockCounts
<1>7. \A g \in Locking : Inside(g)' <=> flow'[g].depth > 0
  <2>1. ASSUME NEW g \in Locking, g # f PROVE Inside(g)' <=> flow'[g].depth > 0
    <3>1. flow'[g] = flow[g] /\ (Inside(g)' <=> Inside(g))
      BY <1>1, <1>5, <2>1 DEF Flows
    <3>2. Inside(g) <=> flow[g].depth > 0
      BY DEF RunInv, LockCounts
    <3> QED
      BY <3>1, <3>2
  <2>2. Inside(f)' /\ flow'[f].depth > 0
    BY <1>1, <1>5
  <2> QED
    BY <2>1, <2>2
<1>8. LockCounts'
  BY <1>3, <1>4, <1>5, <1>6, <1>7 DEF LockCounts, Nobody, Locking
<1> QED
  BY <1>2, <1>8

-----------------------------------------------------------------------------

(* create: no update has been accepted on a row that was not there. *)
LEMMA CreateRunInv == ASSUME RunInv, CreateRun PROVE RunInv'
<1>1. runRow'.version = 0 /\ runRow'.attempt = 0 /\ runRow'.exists /\ runRow' \in Rows
  BY DEF CreateRun, Absent, Rows
<1>2. Shapes' /\ VersionCounts'
  BY <1>1 DEF CreateRun, RunInv, Shapes, VersionCounts
<1>3. QueueWaits' /\ Entered' = Entered
  BY DEF CreateRun, RunInv, QueueWaits, Entered
<1>4. LockCounts'
  BY <1>3 DEF CreateRun, RunInv, LockCounts, Inside
<1> QED
  BY <1>2, <1>3, <1>4 DEF RunInv

(* acquire: whoever is not inside has not come in. *)
LEMMA AcquireInv == ASSUME RunInv, NEW f \in Locking, Acquire(f) PROVE RunInv'
<1>1. flow[f].pc = "outside" /\ flow[f].depth = 0 /\ f \in Flows
  BY DEF Acquire, RunInv, Shapes, LockCounts, Inside, Flows
<1>2. UNCHANGED <<runRow, updates>>
  BY DEF Acquire
<1>3. CASE lock.holder \in {Holder[f], Nobody} /\ UNCHANGED waiters
           /\ lock' = [holder |-> Holder[f], depth |-> lock.depth + 1]
           /\ flow' = [flow EXCEPT ![f].pc = "inside", ![f].depth = 1]
  <2>1. /\ flow'[f].pc = "inside" /\ flow'[f].depth = flow[f].depth + 1
        /\ \A g \in Flows \ {f} : flow'[g] = flow[g]
    BY <1>1, <1>3 DEF RunInv, Shapes
  <2>2. QueueWaits' /\ LockCounts'
    BY <1>1, <1>3, <2>1, ComesIn
  <2>3. Shapes' /\ VersionCounts'
    BY <1>1, <1>2, <1>3 DEF RunInv, Shapes, VersionCounts, Pcs, Rows
  <2> QED
    BY <2>2, <2>3 DEF RunInv
<1>4. CASE waiters' = Append(waiters, f) /\ Goes(f, "waiting") /\ UNCHANGED lock
  <2>1. QueueWaits' /\ LockCounts'
    BY <1>1, <1>4, QueueGrows
  <2>2. Shapes' /\ VersionCounts'
    BY <1>1, <1>2, <1>4 DEF RunInv, Shapes, VersionCounts, Pcs, Rows, Goes
  <2> QED
    BY <2>1, <2>2 DEF RunInv
<1>5. CASE lock.holder = Holder[f]
  <2>1. lock' = [lock EXCEPT !.depth = @ + 1] /\ UNCHANGED waiters
        /\ flow' = [flow EXCEPT ![f].pc = "inside", ![f].depth = 1]
    BY <1>5, RunStoreAssumption DEF Acquire
  <2>2. lock' = [holder |-> Holder[f], depth |-> lock.depth + 1]
    BY <1>5, <2>1 DEF RunInv, Shapes
  <2> QED
    BY <1>1, <1>3, <1>5, <2>1, <2>2
<1>6. CASE lock.holder = Nobody
  <2>1. lock' = [holder |-> Holder[f], depth |-> 1] /\ UNCHANGED waiters
        /\ flow' = [flow EXCEPT ![f].pc = "inside", ![f].depth = 1]
    BY <1>6, RunStoreAssumption DEF Acquire, Take
  <2>2. lock.depth = 0
    BY <1>6 DEF RunInv, LockCounts
  <2> QED
    BY <1>1, <1>3, <1>6, <2>1, <2>2
<1>7. CASE lock.holder # Holder[f] /\ lock.holder # Nobody
  BY <1>4, <1>7 DEF Acquire
<1> QED
  BY <1>5, <1>6, <1>7

(* A woken waiter. *)
LEMMA ResumeInv == ASSUME RunInv, NEW f \in Locking, Resume(f) PROVE RunInv'
<1>1. flow[f].pc = "woken" /\ flow[f].depth = 0 /\ f \in Flows /\ UNCHANGED <<runRow, updates>>
  BY DEF Resume, RunInv, Shapes, LockCounts, Inside, Flows
<1>2. CASE lock.holder = Nobody
  <2>1. lock' = [holder |-> Holder[f], depth |-> lock.depth + 1] /\ UNCHANGED waiters
        /\ flow' = [flow EXCEPT ![f].pc = "inside", ![f].depth = 1]
        /\ flow'[f].pc = "inside" /\ flow'[f].depth = flow[f].depth + 1
        /\ \A g \in Flows \ {f} : flow'[g] = flow[g]
    BY <1>1, <1>2 DEF Resume, Take, RunInv, Shapes, LockCounts
  <2>2. QueueWaits' /\ LockCounts'
    BY <1>1, <1>2, <2>1, ComesIn
  <2>3. Shapes' /\ VersionCounts'
    BY <1>1, <2>1 DEF RunInv, Shapes, VersionCounts, Pcs, Rows
  <2> QED
    BY <2>2, <2>3 DEF RunInv
<1>3. CASE lock.holder # Nobody
  <2>1. waiters' = Append(waiters, f) /\ Goes(f, "waiting") /\ UNCHANGED lock
    BY <1>3 DEF Resume
  <2>2. QueueWaits' /\ LockCounts'
    BY <1>1, <2>1, QueueGrows
  <2>3. Shapes' /\ VersionCounts'
    BY <1>1, <2>1 DEF RunInv, Shapes, VersionCounts, Pcs, Rows, Goes
  <2> QED
    BY <2>2, <2>3 DEF RunInv
<1> QED
  BY <1>2, <1>3

(* with() inside with(). *)
LEMMA ReenterInv == ASSUME RunInv, NEW f \in Locking, Reenter(f) PROVE RunInv'
<1>1. /\ f \in Flows /\ lock.holder = Holder[f] /\ flow[f].pc = "inside" /\ flow[f].depth = 1
      /\ UNCHANGED <<runRow, waiters, updates>>
      /\ lock' = [holder |-> Holder[f], depth |-> lock.depth + 1]
  BY DEF Reenter, RunInv, Shapes, Flows
<1>2. /\ flow' = [flow EXCEPT ![f].depth = 2]
      /\ flow'[f].pc = "inside" /\ flow'[f].depth = flow[f].depth + 1
      /\ \A g \in Flows \ {f} : flow'[g] = flow[g]
  BY <1>1 DEF Reenter, RunInv, Shapes
<1>3. QueueWaits' /\ LockCounts'
  BY <1>1, <1>2, ComesIn
<1>4. Shapes' /\ VersionCounts'
  BY <1>1, <1>2 DEF RunInv, Shapes, VersionCounts, Pcs, Rows
<1> QED
  BY <1>3, <1>4 DEF RunInv

(* A flow inside that reads, writes, throws or, unlocked, starts and ends. *)
LEMMA InsideStepInv ==
    ASSUME RunInv, NEW f \in Flows, Shapes', VersionCounts', UNCHANGED <<lock, waiters>>,
           \A g \in Flows \ {f} : flow'[g] = flow[g],
           flow'[f].depth = flow[f].depth, flow[f].pc # "waiting",
           f \in Locking => Inside(f) /\ Inside(f)'
    PROVE  RunInv'
<1>1. QueueWaits' /\ LockCounts'
  BY LockStays
<1> QED
  BY <1>1 DEF RunInv

(* findById reads what the updates have made of the row. *)
LEMMA ReadRowInv == ASSUME RunInv, NEW f \in Flows, ReadRow(f) PROVE RunInv'
<1> DEFINE pc == IF runRow.exists THEN "read" ELSE "leaving"
<1>1. /\ flow[f].pc = "inside" /\ UNCHANGED <<runRow, lock, waiters, updates>>
      /\ flow' = [flow EXCEPT ![f].pc = pc, ![f].read = runRow]
      /\ pc \in {"read", "leaving"}
  BY DEF ReadRow
<1> HIDE DEF pc
<1>2. /\ flow'[f].pc = pc /\ flow'[f].depth = flow[f].depth
      /\ \A g \in Flows \ {f} : flow'[g] = flow[g]
  BY <1>1 DEF RunInv, Shapes
<1>3. Shapes' /\ VersionCounts'
  BY <1>1 DEF RunInv, Shapes, VersionCounts, Pcs
<1>4. Inside(f) /\ Inside(f)'
  BY <1>1, <1>2 DEF Inside
<1> QED
  BY <1>1, <1>2, <1>3, <1>4, InsideStepInv

(* update is accepted only with the version the row has, and then it counts *)
(* on from that version.                                                    *)
LEMMA UpdateRowInv == ASSUME RunInv, NEW f \in Flows, UpdateRow(f) PROVE RunInv'
<1>1. /\ flow[f].pc = "read" /\ UNCHANGED <<lock, waiters>>
      /\ flow' = [flow EXCEPT ![f].pc = "leaving"]
  BY DEF UpdateRow, Goes
<1>2. /\ flow'[f].pc = "leaving" /\ flow'[f].depth = flow[f].depth
      /\ \A g \in Flows : flow'[g].read = flow[g].read
      /\ \A g \in Flows \ {f} : flow'[g] = flow[g]
      /\ flow' \in [Flows -> [pc : Pcs, read : Rows, depth : 0 .. 2]]
  BY <1>1 DEF RunInv, Shapes, Pcs
<1>3. Shapes' /\ VersionCounts'
  <2>1. CASE VersionMatches(runRow, flow[f].read)
    <3> DEFINE read == flow[f].read
    <3>1. read.attempt = runRow.version /\ runRow.version \in Nat /\ runRow.exists
      BY <2>1 DEF VersionMatches, RunInv, Shapes, VersionCounts, Rows
    <3>2. /\ runRow' = [runRow EXCEPT !.version = @ + 1, !.attempt = read.attempt + 1]
          /\ updates' = updates + 1
      BY <2>1 DEF UpdateRow
    <3> HIDE DEF read
    <3>3. runRow \in Rows /\ read.attempt + 1 \in Nat /\ runRow.version + 1 \in Nat
      BY <3>1 DEF RunInv, Shapes
    <3>4. /\ runRow.exists /\ runRow' \in Rows /\ runRow'.exists
          /\ runRow'.version = runRow.version + 1
          /\ runRow'.attempt = runRow.version + 1
          /\ updates' = updates + 1
      BY <3>1, <3>2, <3>3 DEF Rows
    <3> QED
      BY <1>1, <1>2, <3>4 DEF RunInv, Shapes, VersionCounts
  <2>2. CASE ~VersionMatches(runRow, flow[f].read)
    <3>1. UNCHANGED <<runRow, updates>>
      BY <2>2 DEF UpdateRow
    <3> QED
      BY <1>1, <1>2, <3>1 DEF RunInv, Shapes, VersionCounts
  <2> QED
    BY <2>1, <2>2
<1>4. Inside(f) /\ Inside(f)'
  BY <1>1, <1>2 DEF Inside
<1> QED
  BY <1>1, <1>2, <1>3, <1>4, InsideStepInv

(* fn throws. *)
LEMMA FlowThrowsInv == ASSUME RunInv, NEW f \in Flows, FlowThrows(f) PROVE RunInv'
<1>1. /\ flow[f].pc \in {"inside", "read"} /\ UNCHANGED <<runRow, lock, waiters, updates>>
      /\ flow' = [flow EXCEPT ![f].pc = "leaving"]
  BY DEF FlowThrows, Goes
<1>2. /\ flow'[f].pc = "leaving" /\ flow'[f].depth = flow[f].depth
      /\ \A g \in Flows \ {f} : flow'[g] = flow[g]
  BY <1>1 DEF RunInv, Shapes
<1>3. Shapes' /\ VersionCounts'
  BY <1>1 DEF RunInv, Shapes, VersionCounts, Pcs
<1>4. Inside(f) /\ Inside(f)'
  BY <1>1, <1>2 DEF Inside
<1> QED
  BY <1>1, <1>2, <1>3, <1>4, InsideStepInv

(* The lock does not know the flows that go without it. *)
LEMMA UnlockedInv ==
    ASSUME RunInv, NEW f \in Unlocked, StartUnlocked(f) \/ EndUnlocked(f)
    PROVE  RunInv'
<1>1. f \in Flows /\ f \notin Locking
  BY RunStoreAssumption DEF Flows
<1>2. /\ flow[f].pc # "waiting" /\ UNCHANGED <<runRow, lock, waiters, updates>>
      /\ \/ flow' = [flow EXCEPT ![f].pc = "inside"]
         \/ flow' = [flow EXCEPT ![f] = Outside]
  BY DEF StartUnlocked, EndUnlocked, Goes
<1>3. \A g \in Flows \ {f} : flow'[g] = flow[g]
  BY <1>2 DEF RunInv, Shapes
<1>4. Shapes' /\ VersionCounts'
  <2>1. Outside \in [pc : Pcs, read : Rows, depth : 0 .. 2]
        /\ Outside.read.attempt = Outside.read.version
    BY DEF Pcs, Rows, Outside, Absent
  <2>2. CASE flow' = [flow EXCEPT ![f].pc = "inside"]
    BY <1>2, <2>2 DEF RunInv, Shapes, VersionCounts, Pcs
  <2>3. CASE flow' = [flow EXCEPT ![f] = Outside]
    BY <1>2, <2>1, <2>3 DEF RunInv, Shapes, VersionCounts
  <2> QED
    BY <1>2, <2>2, <2>3
<1>5. QueueWaits'
  BY <1>1, <1>2, <1>3, QueueStays
<1>6. \A g \in Locking : flow'[g] = flow[g]
  BY <1>1, <1>3 DEF Flows
<1>7. Entered' = Entered
  BY <1>6, CountStays
<1>8. LockCounts'
  BY <1>2, <1>6, <1>7 DEF RunInv, LockCounts, Inside, Locking
<1> QED
  BY <1>4, <1>5, <1>8 DEF RunInv

(* release counts one down and, at zero, wakes the first who waits. *)
LEMMA ReleaseInv == ASSUME RunInv, NEW f \in Locking, Release(f) PROVE RunInv'
<1> DEFINE last == lock.depth = 1
           woken == IF last THEN WakeNext(waiters) ELSE {}
<1>1. /\ f \in Flows /\ flow[f].pc = "leaving" /\ lock.holder = Holder[f]
      /\ flow[f].depth \in {1, 2} /\ UNCHANGED <<runRow, updates>>
  BY DEF Release, RunInv, Shapes, LockCounts, Inside, Flows
<1>2. /\ lock' = IF last THEN [holder |-> Nobody, depth |-> 0]
                 ELSE [lock EXCEPT !.depth = @ - 1]
      /\ waiters' = IF woken = {} THEN waiters ELSE Tail(waiters)
      /\ flow' = [g \in Flows |->
                    IF g = f THEN (IF flow[f].depth = 1 THEN Outside
                                   ELSE [flow[f] EXCEPT !.depth = @ - 1])
                    ELSE IF g \in woken THEN [flow[g] EXCEPT !.pc = "woken"]
                    ELSE flow[g]]
  BY DEF Release
<1>3. woken = {} \/ (waiters # <<>> /\ woken = {Head(waiters)})
  BY DEF WakeNext
<1>4. \A g \in woken : g \in Flows /\ flow[g].pc = "waiting" /\ g # f
  <2>1. ASSUME waiters # <<>>
        PROVE  Head(waiters) \in Flows /\ flow[Head(waiters)].pc = "waiting"
    BY <2>1 DEF RunInv, QueueWaits, Flows
  <2> QED
    BY <1>1, <1>3, <2>1
<1> HIDE DEF woken
<1>5. flow'[f] = IF flow[f].depth = 1 THEN Outside ELSE [flow[f] EXCEPT !.depth = @ - 1]
  BY <1>1, <1>2
<1>6. /\ flow'[f] \in [pc : Pcs, read : Rows, depth : 0 .. 2]
      /\ flow'[f].depth = flow[f].depth - 1
      /\ flow'[f].pc = IF flow[f].depth = 1 THEN "outside" ELSE "leaving"
      /\ flow'[f].read.attempt = flow'[f].read.version
  <2>1. flow[f] \in [pc : Pcs, read : Rows, depth : 0 .. 2]
        /\ flow[f].read.attempt = flow[f].read.version
    BY <1>1 DEF RunInv, Shapes, VersionCounts
  <2>2. CASE flow[f].depth = 1
    BY <1>5, <2>2 DEF Outside, Absent, Pcs, Rows
  <2>3. CASE flow[f].depth = 2
    BY <1>1, <1>5, <2>1, <2>3
  <2> QED
    BY <1>1, <2>2, <2>3
<1>7. ASSUME NEW g \in Flows, g # f
      PROVE  /\ flow'[g] \in [pc : Pcs, read : Rows, depth : 0 .. 2]
             /\ flow'[g].depth = flow[g].depth
             /\ flow'[g].read = flow[g].read
             /\ flow'[g].pc = IF g \in woken THEN "woken" ELSE flow[g].pc
  BY <1>2, <1>7 DEF RunInv, Shapes, Pcs
<1>8. Shapes'
  <2>1. lock' \in [holder : {Holder[g] : g \in Locking} \union {Nobody}, depth : Nat]
    <3>1. CASE last
      BY <1>2, <3>1
    <3>2. CASE ~last
      <4>1. lock.depth # 0
        BY <1>1, RunStoreAssumption DEF RunInv, LockCounts
      <4> QED
        BY <1>2, <3>2, <4>1 DEF RunInv, Shapes
    <3> QED
      BY <3>1, <3>2
  <2>2. \A g \in Flows : flow'[g] \in [pc : Pcs, read : Rows, depth : 0 .. 2]
    BY <1>6, <1>7
  <2> QED
    BY <1>1, <1>2, <2>1, <2>2 DEF RunInv, Shapes
<1>9. VersionCounts'
  BY <1>1, <1>6, <1>7 DEF RunInv, VersionCounts
<1>10. QueueWaits'
  <2>1. CASE woken = {}
    BY <1>1, <1>2, <1>7, <2>1, QueueStays DEF RunInv, QueueWaits
  <2>2. CASE waiters # <<>> /\ woken = {Head(waiters)}
    <3>1. /\ waiters \in Seq(Locking) /\ waiters' = Tail(waiters)
          /\ Len(waiters') = Len(waiters) - 1
          /\ \A i \in 1 .. Len(waiters') : waiters'[i] = waiters[i + 1]
          /\ Len(waiters) \in Nat \ {0} /\ Head(waiters) = waiters[1]
      <4>1. waiters \in Seq(Locking) /\ waiters' = Tail(waiters) /\ waiters # <<>>
        BY <1>2, <2>2 DEF RunInv, QueueWaits
      <4> QED
        BY <4>1, HeadTailProperties
    <3>2. waiters' \in Seq(Locking)
      BY <2>2, <3>1
    <3>3. ASSUME NEW i \in 1 .. Len(waiters') PROVE flow'[waiters'[i]].pc = "waiting"
      <4>1. i + 1 \in 1 .. Len(waiters) /\ 1 \in 1 .. Len(waiters) /\ i + 1 # 1
        BY <3>1
      <4>2. waiters[i + 1] \in Locking /\ flow[waiters[i + 1]].pc = "waiting"
            /\ waiters[i + 1] # waiters[1]
        BY <3>1, <4>1 DEF RunInv, QueueWaits
      <4>3. waiters[i + 1] \in Flows /\ waiters[i + 1] # f /\ waiters[i + 1] \notin woken
        BY <1>1, <2>2, <3>1, <4>2 DEF Flows
      <4> QED
        BY <1>7, <3>1, <4>2, <4>3
    <3>4. ASSUME NEW i \in 1 .. Len(waiters'), NEW j \in 1 .. Len(waiters'),
                 waiters'[i] = waiters'[j]
          PROVE  i = j
      <4>1. i + 1 \in 1 .. Len(waiters) /\ j + 1 \in 1 .. Len(waiters)
            /\ waiters[i + 1] = waiters[j + 1]
        BY <3>1, <3>4
      <4>2. i + 1 = j + 1
        BY <4>1 DEF RunInv, QueueWaits
      <4> QED
        BY <4>2
    <3> QED
      BY <3>2, <3>3, <3>4 DEF QueueWaits, Locking
  <2> QED
    BY <1>3, <2>1, <2>2
<1>11. IsFiniteSet(Entered') /\ Cardinality(Entered') = lock.depth - 1
  BY <1>1, <1>6, <1>7, CountShrinks DEF Flows, RunInv, LockCounts
<1>12. \A g \in Locking : Inside(g)' <=> flow'[g].depth > 0
  <2>1. Inside(f)' <=> flow'[f].depth > 0
    BY <1>1, <1>6 DEF Inside
  <2>2. ASSUME NEW g \in Locking, g # f PROVE Inside(g)' <=> flow'[g].depth > 0
    <3>1. flow'[g].depth = flow[g].depth
          /\ flow'[g].pc = IF g \in woken THEN "woken" ELSE flow[g].pc
      BY <1>7, <2>2 DEF Flows
    <3>2. Inside(g)' <=> Inside(g)
      BY <1>4, <3>1 DEF Inside
    <3> QED
      BY <3>1, <3>2 DEF RunInv, LockCounts
  <2> QED
    BY <2>1, <2>2
<1>13. \A g \in Locking : Inside(g)' => Inside(g) /\ <<g, 1>> \in Entered'
  <2>1. ASSUME NEW g \in Locking, Inside(g)' PROVE Inside(g) /\ <<g, 1>> \in Entered'
    <3>1. g \in Flows /\ flow'[g].depth > 0 /\ flow'[g].depth \in 0 .. 2
      BY <1>12, <1>8, <2>1 DEF Flows, Shapes
    <3>2. Inside(g)
      BY <1>1, <1>4, <1>7, <2>1, <3>1 DEF Inside
    <3> QED
      BY <3>1, <3>2 DEF Entered, Locking
  <2> QED
    BY <2>1
<1>14. LockCounts'
  <2>1. CASE last
    <3>1. Entered' = {} /\ lock'.holder = Nobody /\ lock'.depth = 0
      BY <1>2, <1>11, <2>1, FS_EmptySet
    <3> QED
      BY <1>11, <1>12, <1>13, <2>1, <3>1 DEF LockCounts, Locking, Nobody
  <2>2. CASE ~last
    <3>1. lock'.holder = lock.holder /\ lock'.depth = lock.depth - 1
          /\ lock.holder # Nobody /\ lock.depth \in Nat \ {0, 1}
      BY <1>1, <1>2, <2>2, RunStoreAssumption DEF RunInv, Shapes, LockCounts
    <3>2. lock'.holder # Nobody /\ lock'.depth # 0 /\ lock'.depth = Cardinality(Entered')
      BY <1>11, <3>1
    <3>3. \A g \in Locking : Inside(g)' => lock'.holder = Holder[g]
      BY <1>13, <3>1 DEF RunInv, LockCounts
    <3> QED
      BY <1>11, <1>12, <3>2, <3>3 DEF LockCounts, Locking, Nobody
  <2> QED
    BY <2>1, <2>2
<1> QED
  BY <1>8, <1>9, <1>10, <1>14 DEF RunInv

-----------------------------------------------------------------------------

(* Every step keeps the invariant. *)
LEMMA RunNextInv == RunInv /\ [RunNext]_runVars => RunInv'
<1> SUFFICES ASSUME RunInv, [RunNext]_runVars PROVE RunInv'
  OBVIOUS
<1>1. CASE CreateRun
  BY <1>1, CreateRunInv
<1>2. ASSUME NEW f \in Locking, Acquire(f) \/ LockStep(f) \/ Reenter(f) \/ FlowThrows(f)
      PROVE  RunInv'
  <2>1. f \in Flows
    BY DEF Flows
  <2> QED
    BY <1>2, <2>1, AcquireInv, ResumeInv, ReadRowInv, UpdateRowInv, ReleaseInv, ReenterInv,
       FlowThrowsInv DEF LockStep
<1>3. ASSUME NEW f \in Unlocked,
             StartUnlocked(f) \/ ReadRow(f) \/ UpdateRow(f) \/ FlowThrows(f) \/ EndUnlocked(f)
      PROVE  RunInv'
  <2>1. f \in Flows
    BY DEF Flows
  <2> QED
    BY <1>3, <2>1, ReadRowInv, UpdateRowInv, FlowThrowsInv, UnlockedInv
<1>4. CASE UNCHANGED runVars
  BY <1>4 DEF runVars, RunInv, Shapes, VersionCounts, QueueWaits, LockCounts, Entered, Inside
<1> QED
  BY <1>1, <1>2, <1>3, <1>4 DEF RunNext

(* workflow-run-repo.ts and InMemoryRunLock: whoever is inside the lock     *)
(* shares its holder's name, the lock is free exactly when all have gone    *)
(* out, and no accepted update of the row is overwritten unread, for any    *)
(* flows, locked or not, and any number of starts.                          *)
THEOREM RunsExcludeAndLoseNothing ==
    RunInit /\ [][RunNext]_runVars => []OneHolderNoLostUpdate
<1>1. RunInit => RunInv
  BY RunInitInv
<1>2. RunInv /\ [RunNext]_runVars => RunInv'
  BY RunNextInv
<1>3. RunInv => OneHolderNoLostUpdate
  BY RunInvImplies
<1> QED
  BY <1>1, <1>2, <1>3, PTL

(* What the invariant of the lock leaves open. *)
RunTypeInv == begun \in [Flows -> 0 .. MaxStarts]

(* The invariant of the lock and the bound on starts are the types. *)
LEMMA RunTypesImplied == RunInv /\ RunTypeInv => RunTypeOK
<1> SUFFICES ASSUME RunInv, RunTypeInv PROVE RunTypeOK
  OBVIOUS
<1>1. \A i \in DOMAIN waiters : waiters[i] \in Locking
  BY DEF RunInv, QueueWaits
<1> QED
  BY <1>1 DEF RunInv, RunTypeInv, Shapes, Rows, Pcs, RunTypeOK

(* No flow has begun. *)
LEMMA RunInitTypes == RunInit => RunTypeInv
BY RunStoreAssumption DEF RunInit, RunTypeInv

(* Only a flow that starts is counted, and only up to the bound. *)
LEMMA RunNextTypes == RunTypeInv /\ [RunNext]_runVars => RunTypeInv'
<1> SUFFICES ASSUME RunTypeInv, [RunNext]_runVars PROVE RunTypeInv'
  OBVIOUS
<1>1. ASSUME NEW f \in Flows, Acquire(f) \/ StartUnlocked(f) PROVE RunTypeInv'
  <2>1. begun[f] < MaxStarts /\ begun' = [begun EXCEPT ![f] = begun[f] + 1]
    BY <1>1 DEF Acquire, StartUnlocked
  <2> QED
    BY <2>1, RunStoreAssumption DEF RunTypeInv
<1>2. CASE UNCHANGED begun
  BY <1>2 DEF RunTypeInv
<1>3. \/ \E f \in Flows : Acquire(f) \/ StartUnlocked(f)
      \/ UNCHANGED begun
  BY DEF RunNext, LockStep, CreateRun, Resume, ReadRow, UpdateRow, Release, Reenter, FlowThrows,
         EndUnlocked, Flows, runVars
<1> QED
  BY <1>1, <1>2, <1>3

(* The states of run rows and lock have the types they are declared with. *)
LEMMA RunTypes == RunInit /\ [][RunNext]_runVars => []RunTypeOK
<1>1. RunInit => RunInv /\ RunTypeInv
  BY RunInitInv, RunInitTypes
<1>2. RunInv /\ RunTypeInv /\ [RunNext]_runVars => RunInv' /\ RunTypeInv'
  BY RunNextInv, RunNextTypes
<1>3. RunInv /\ RunTypeInv => RunTypeOK
  BY RunTypesImplied
<1> QED
  BY <1>1, <1>2, <1>3, PTL

-----------------------------------------------------------------------------
(* Budgets, quotas and rate limits *)

(* A call that was let into consume: what it asks, of which ledger, when. *)
SpendCalls ==
    {NotSpending} \union
    {call \in [pc : {"check", "consume", "publish"}, ledger : Ledgers, units : 1 .. MaxUnits,
               period : 1 .. Periods] :
        /\ call.units \in UnitsOf(call.ledger)
        /\ call.pc = "publish" => call.ledger = "quota"}

(* The shapes of the state, without its bounds. *)
LimitShapes ==
    /\ period \in 1 .. Periods
    /\ spent \in [Ledgers -> [1 .. Periods -> Nat]]
    /\ spender \in [Spenders -> SpendCalls]

(* The most a call asks of ledger l. *)
MostOf(l) == IF l = "quota" THEN 1 ELSE MaxUnits

(* What k calls may ask of a ledger. *)
Room(k, l) == k * MostOf(l)

(* The calls let in and not yet written. *)
Admitted(l, p) ==
    {s \in Spenders : spender[s].pc = "consume" /\ spender[s].ledger = l /\ spender[s].period = p}

(* Of the calls admitted and not yet written, one was admitted last: what   *)
(* it saw was within the limit, and only the others can have written since. *)
LedgerInv(l, p) ==
    LET n == Cardinality(Admitted(l, p))
    IN IF Admitted(l, p) = {}
       THEN spent[l][p] <= Limit[l] + Room(Cardinality(Spenders) - 1, l)
       ELSE \E s \in Admitted(l, p) :
              spent[l][p] + spender[s].units <= Limit[l] + Room(Cardinality(Spenders) - n, l)

(* The quota of period p is used up. *)
QuotaIsSpent(p) == p \in 1 .. Periods /\ "quota" \in Ledgers /\ spent["quota"][p] >= Limit["quota"]

(* Nobody is told of an exhausted quota before it is. *)
ExhaustionInv ==
    /\ \A s \in Spenders : spender[s].pc = "publish" => QuotaIsSpent(spender[s].period)
    /\ \A p \in exhausted : QuotaIsSpent(p)

(* What was granted and is left was held at the start or gained since. *)
BucketInv ==
    /\ clock \in Nat /\ granted \in Nat /\ latest \in Nat
    /\ bucket \in [tokens : 0 .. Capacity, lastRefill : Nat]
    /\ bucket.lastRefill <= latest
    /\ granted + bucket.tokens <= Capacity + bucket.lastRefill * RefillPerTick

LimitInv ==
    /\ LimitShapes
    /\ \A l \in Ledgers, p \in 1 .. Periods : LedgerInv(l, p)
    /\ ExhaustionInv
    /\ BucketInv

-----------------------------------------------------------------------------

(* The most a call may ask for is the maximum of the ledger's units. *)
LEMMA MostOfIsMax ==
    ASSUME NEW l PROVE MostOf(l) = Max(UnitsOf(l)) /\ MostOf(l) \in Nat
<1>1. CASE l = "quota"
  <2>1. Max({1}) = 1
    BY DEF Max
  <2> QED
    BY <1>1, <2>1 DEF MostOf, UnitsOf
<1>2. CASE l # "quota"
  <2>1. MaxUnits \in 1 .. MaxUnits /\ \A y \in 1 .. MaxUnits : MaxUnits >= y
    BY LimitAssumption
  <2>2. Max(1 .. MaxUnits) \in 1 .. MaxUnits /\ Max(1 .. MaxUnits) >= MaxUnits
    BY <2>1 DEF Max
  <2>3. Max(1 .. MaxUnits) = MaxUnits
    BY <2>1, <2>2, LimitAssumption
  <2> QED
    BY <1>2, <2>3, LimitAssumption DEF MostOf, UnitsOf
<1> QED
  BY <1>1, <1>2

(* One call more has room for one request more. *)
LEMMA RoomGrows ==
    ASSUME NEW l, NEW k \in Nat
    PROVE  Room(k, l) \in Nat /\ Room(k + 1, l) = Room(k, l) + MostOf(l)
<1>1. MostOf(l) \in Nat
  BY MostOfIsMax
<1>2. \A m \in Nat : k * m \in Nat /\ (k + 1) * m = k * m + m
  OBVIOUS
<1> QED
  BY <1>1, <1>2 DEF Room

(* There are finitely many callers. *)
LEMMA SpenderCount ==
    /\ Cardinality(Spenders) \in Nat \ {0}
    /\ \A l, p : /\ IsFiniteSet(Admitted(l, p))
                 /\ Cardinality(Admitted(l, p)) \in 0 .. Cardinality(Spenders)
<1>1. IsFiniteSet(Spenders) /\ Spenders # {}
  BY LimitAssumption
<1>2. Cardinality(Spenders) \in Nat /\ Cardinality(Spenders) # 0
  BY <1>1, FS_CardinalityType, FS_EmptySet
<1>3. ASSUME NEW l, NEW p
      PROVE  /\ IsFiniteSet(Admitted(l, p))
             /\ Cardinality(Admitted(l, p)) \in 0 .. Cardinality(Spenders)
  <2>1. Admitted(l, p) \subseteq Spenders
    BY DEF Admitted
  <2>2. IsFiniteSet(Admitted(l, p)) /\ Cardinality(Admitted(l, p)) <= Cardinality(Spenders)
    BY <1>1, <2>1, FS_Subset
  <2>3. Cardinality(Admitted(l, p)) \in Nat
    BY <2>2, FS_CardinalityType
  <2> QED
    BY <1>2, <2>2, <2>3
<1> QED
  BY <1>2, <1>3

(* Whoever was admitted last was within the limit, and at most the others   *)
(* wrote after that.                                                        *)
LEMMA LimitInvImplies == LimitInv => OverrunIsBounded
<1> SUFFICES ASSUME LimitInv PROVE OverrunIsBounded
  OBVIOUS
<1>1. ASSUME NEW l \in Ledgers, NEW p \in 1 .. Periods
      PROVE  spent[l][p] <= Limit[l] + (Cardinality(Spenders) - 1) * Max(UnitsOf(l))
  <2> DEFINE N == Cardinality(Spenders)
             n == Cardinality(Admitted(l, p))
  <2>1. spent[l][p] \in Nat /\ Limit[l] \in Nat
    BY LimitAssumption DEF LimitInv, LimitShapes
  <2>2. N \in Nat \ {0} /\ n \in 0 .. N /\ IsFiniteSet(Admitted(l, p))
    BY SpenderCount
  <2>3. spent[l][p] <= Limit[l] + Room(N - 1, l)
    <3>1. CASE Admitted(l, p) = {}
      BY <3>1 DEF LimitInv, LedgerInv
    <3>2. CASE Admitted(l, p) # {}
      <4>1. PICK s \in Admitted(l, p) :
               spent[l][p] + spender[s].units <= Limit[l] + Room(N - n, l)
        BY <3>2 DEF LimitInv, LedgerInv
      <4>2. spender[s].units \in Nat
        BY LimitAssumption DEF LimitInv, LimitShapes, SpendCalls, Admitted, NotSpending
      <4>3. n # 0
        BY <2>2, <3>2, FS_EmptySet
      <4> HIDE DEF n, N
      <4>4. N - n <= N - 1 /\ N - n \in Nat /\ N - 1 \in Nat
        BY <2>2, <4>3
      <4>5. MostOf(l) \in Nat /\ \A a, b, m \in Nat : a <= b => a * m \in Nat /\ b * m \in Nat /\ a * m <= b * m
        BY MostOfIsMax
      <4>6. Room(N - n, l) <= Room(N - 1, l) /\ Room(N - n, l) \in Nat /\ Room(N - 1, l) \in Nat
        BY <4>4, <4>5 DEF Room
      <4> QED
        BY <2>1, <4>1, <4>2, <4>6
    <3> QED
      BY <3>1, <3>2
  <2> QED
    BY <2>3, MostOfIsMax DEF Room
<1>2. \A p \in exhausted : spent["quota"][p] >= Limit["quota"]
  BY DEF LimitInv, ExhaustionInv, QuotaIsSpent
<1>3. granted <= Capacity + latest * RefillPerTick
  <2>1. \A a, b, m \in Nat : a <= b => a * m \in Nat /\ b * m \in Nat /\ a * m <= b * m
    OBVIOUS
  <2>2. /\ bucket.lastRefill * RefillPerTick \in Nat /\ latest * RefillPerTick \in Nat
        /\ bucket.lastRefill * RefillPerTick <= latest * RefillPerTick
    BY <2>1, LimitAssumption DEF LimitInv, BucketInv
  <2>3. granted \in Nat /\ bucket.tokens \in Nat /\ Capacity \in Nat
        /\ granted + bucket.tokens <= Capacity + bucket.lastRefill * RefillPerTick
    BY LimitAssumption DEF LimitInv, BucketInv
  <2> QED
    BY <2>2, <2>3
<1> QED
  BY <1>1, <1>2, <1>3 DEF OverrunIsBounded

(* Nothing is spent and the bucket holds its capacity. *)
LEMMA LimitInitInv == LimitInit => LimitInv
<1> SUFFICES ASSUME LimitInit PROVE LimitInv
  OBVIOUS
<1> USE DEF LimitInit
<1>1. LimitShapes
  BY LimitAssumption DEF LimitShapes, SpendCalls
<1>2. ASSUME NEW l \in Ledgers, NEW p \in 1 .. Periods PROVE LedgerInv(l, p)
  <2>1. Admitted(l, p) = {} /\ spent[l][p] = 0 /\ Limit[l] \in Nat
    BY LimitAssumption DEF Admitted, NotSpending
  <2>2. Cardinality(Spenders) - 1 \in Nat
    BY SpenderCount
  <2>3. Room(Cardinality(Spenders) - 1, l) \in Nat
    BY <2>2, RoomGrows
  <2> QED
    BY <2>1, <2>3 DEF LedgerInv
<1>3. ExhaustionInv
  BY DEF ExhaustionInv, NotSpending
<1>4. BucketInv
  BY LimitAssumption DEF BucketInv
<1> QED
  BY <1>1, <1>2, <1>3, <1>4 DEF LimitInv

(* A spender that is not admitted before the step nor after it. *)
LEMMA SpenderMoves ==
    ASSUME LimitInv, NEW s \in Spenders, NEW call \in SpendCalls,
           spender[s].pc # "consume", call.pc # "consume",
           call.pc = "publish" => QuotaIsSpent(call.period),
           spender' = [spender EXCEPT ![s] = call],
           UNCHANGED <<period, spent, bucketVars>>,
           \A p \in exhausted' : QuotaIsSpent(p)
    PROVE  LimitInv'
<1>1. LimitShapes'
  BY DEF LimitInv, LimitShapes
<1>2. spender'[s] = call /\ \A t \in Spenders \ {s} : spender'[t] = spender[t]
  BY DEF LimitInv, LimitShapes
<1>3. ASSUME NEW l \in Ledgers, NEW p \in 1 .. Periods PROVE LedgerInv(l, p)'
  <2>1. Admitted(l, p)' = Admitted(l, p)
        /\ \A t \in Admitted(l, p) : spender'[t] = spender[t]
    BY <1>2 DEF Admitted
  <2>2. LedgerInv(l, p)
    BY DEF LimitInv
  <2> QED
    BY <2>1, <2>2 DEF LedgerInv
<1>4. ExhaustionInv'
  BY <1>2 DEF LimitInv, ExhaustionInv, QuotaIsSpent
<1>5. BucketInv'
  BY DEF LimitInv, BucketInv, bucketVars
<1> QED
  BY <1>1, <1>3, <1>4, <1>5 DEF LimitInv

(* What was found within the limit is admitted. *)
LEMMA Admission ==
    ASSUME LimitInv, NEW s \in Spenders, NEW call \in SpendCalls,
           spender[s].pc = "check", call.pc = "consume",
           spent[call.ledger][call.period] + call.units <= Limit[call.ledger],
           spender' = [spender EXCEPT ![s] = call],
           UNCHANGED <<period, spent, exhausted, bucketVars>>
    PROVE  LimitInv'
<1>1. LimitShapes'
  BY DEF LimitInv, LimitShapes
<1>2. spender'[s] = call /\ \A t \in Spenders \ {s} : spender'[t] = spender[t]
  BY DEF LimitInv, LimitShapes
<1>3. ASSUME NEW l \in Ledgers, NEW p \in 1 .. Periods PROVE LedgerInv(l, p)'
  <2>1. LedgerInv(l, p)
    BY DEF LimitInv
  <2>2. CASE l = call.ledger /\ p = call.period
    <3>1. s \in Admitted(l, p)'
      BY <1>2, <2>2 DEF Admitted
    <3> DEFINE N == Cardinality(Spenders)
               n == Cardinality(Admitted(l, p)')
    <3>2. N \in Nat \ {0} /\ n \in 0 .. N
      <4>1. Admitted(l, p)' \subseteq Spenders
        BY DEF Admitted
      <4>2. n <= N /\ IsFiniteSet(Admitted(l, p)')
        BY <4>1, LimitAssumption, FS_Subset
      <4>3. n \in Nat
        BY <4>2, FS_CardinalityType
      <4> QED
        BY <4>2, <4>3, SpenderCount
    <3>3. N - n \in Nat
      BY <3>2
    <3>4. Room(N - n, l) \in Nat
      BY <3>3, RoomGrows
    <3>5. spent[l][p] \in Nat /\ call.units \in Nat /\ Limit[l] \in Nat
      BY <1>2, LimitAssumption DEF LimitInv, LimitShapes, SpendCalls, NotSpending
    <3>6. spent'[l][p] + spender'[s].units <= Limit[l] + Room(N - n, l)
      BY <1>2, <2>2, <3>4, <3>5
    <3> QED
      BY <3>1, <3>6 DEF LedgerInv
  <2>3. CASE ~(l = call.ledger /\ p = call.period)
    <3>1. Admitted(l, p)' = Admitted(l, p)
          /\ \A t \in Admitted(l, p) : spender'[t] = spender[t]
      BY <1>2, <2>3 DEF Admitted
    <3> QED
      BY <2>1, <3>1 DEF LedgerInv
  <2> QED
    BY <2>2, <2>3
<1>4. ExhaustionInv'
  BY <1>2 DEF LimitInv, ExhaustionInv, QuotaIsSpent
<1>5. BucketInv'
  BY DEF LimitInv, BucketInv, bucketVars
<1> QED
  BY <1>1, <1>3, <1>4, <1>5 DEF LimitInv

(* The one who writes leaves the admitted: what was written is made up for  *)
(* by the room its call had. If it was the one admitted last, any other     *)
(* takes its place.                                                         *)
LEMMA ConsumeUnitsKeeps ==
    ASSUME LimitInv, NEW s \in Spenders, ConsumeUnits(s) PROVE LimitInv'
<1>0. PICK call : call = spender[s]
  OBVIOUS
<1>1. /\ call.pc = "consume"
      /\ spent' = [spent EXCEPT ![call.ledger][call.period] = @ + call.units]
      /\ spender' = [spender EXCEPT ![s] = NotSpending]
      /\ UNCHANGED <<period, exhausted, clock, bucket, granted, latest>>
  BY <1>0 DEF ConsumeUnits, Spends, bucketVars
<1>2. /\ call.ledger \in Ledgers /\ call.period \in 1 .. Periods
      /\ call.units \in Nat /\ call.units <= MostOf(call.ledger)
  BY <1>0, <1>1, LimitAssumption
     DEF LimitInv, LimitShapes, SpendCalls, NotSpending, UnitsOf, MostOf
<1>3. /\ spender' \in [Spenders -> SpendCalls] /\ spender'[s] = NotSpending
      /\ \A t \in Spenders \ {s} : spender'[t] = spender[t]
  BY <1>1 DEF LimitInv, LimitShapes, SpendCalls
<1>4. /\ spent' \in [Ledgers -> [1 .. Periods -> Nat]]
      /\ spent'[call.ledger][call.period] = spent[call.ledger][call.period] + call.units
      /\ \A l \in Ledgers, p \in 1 .. Periods :
            l # call.ledger \/ p # call.period => spent'[l][p] = spent[l][p]
  <2> DEFINE row == spent[call.ledger]
  <2>1. spent \in [Ledgers -> [1 .. Periods -> Nat]] /\ row \in [1 .. Periods -> Nat]
    BY <1>2 DEF LimitInv, LimitShapes
  <2> HIDE DEF row
  <2>2. row[call.period] + call.units \in Nat
    BY <1>2, <2>1
  <2>2a. PICK more \in Nat : more = row[call.period] + call.units
    BY <2>2
  <2>3. spent' = [spent EXCEPT ![call.ledger] = [row EXCEPT ![call.period] = more]]
    BY <1>1, <1>2, <2>1, <2>2a DEF row
  <2>4. spent'[call.ledger] = [row EXCEPT ![call.period] = more]
    BY <1>2, <2>1, <2>3
  <2> QED
    BY <1>2, <2>1, <2>2a, <2>3, <2>4 DEF row
<1>5. LimitShapes'
  BY <1>1, <1>3, <1>4 DEF LimitInv, LimitShapes
<1>6. ASSUME NEW l \in Ledgers, NEW p \in 1 .. Periods PROVE LedgerInv(l, p)'
  <2>1. LedgerInv(l, p)
    BY DEF LimitInv
  <2>2. CASE l = call.ledger /\ p = call.period
    <3> DEFINE A == Admitted(l, p)
               B == Admitted(l, p)'
               N == Cardinality(Spenders)
    <3>1. s \in A /\ B = A \ {s}
      BY <1>0, <1>1, <1>3, <2>2 DEF Admitted, NotSpending
    <3>2. IsFiniteSet(A) /\ Cardinality(A) \in 0 .. N /\ N \in Nat \ {0}
      BY SpenderCount
    <3>3. Cardinality(B) = Cardinality(A) - 1 /\ Cardinality(A) # 0
      BY <3>1, <3>2, FS_RemoveElement, FS_EmptySet
    <3>4. PICK c \in A : spent[l][p] + spender[c].units <= Limit[l] + Room(N - Cardinality(A), l)
      BY <2>1, <3>1 DEF LedgerInv
    <3>5. \A t \in A : spender[t].units \in Nat /\ spender[t].units <= MostOf(l)
      BY LimitAssumption DEF LimitInv, LimitShapes, SpendCalls, NotSpending, UnitsOf, MostOf, Admitted
    <3>6. spent[l][p] \in Nat /\ Limit[l] \in Nat /\ spent'[l][p] = spent[l][p] + call.units
      BY <1>4, <2>2, LimitAssumption DEF LimitInv, LimitShapes
    <3>7. PICK k \in Nat : k = N - Cardinality(A)
      BY <3>2
    <3>8. Room(k, l) \in Nat /\ Room(k + 1, l) = Room(k, l) + MostOf(l) /\ MostOf(l) \in Nat
      BY RoomGrows, MostOfIsMax
    <3>9. N - Cardinality(B) = k + 1
      BY <3>2, <3>3, <3>7
    <3>10. CASE B = {}
      <4>1. c = s /\ Cardinality(B) = 0
        BY <3>1, <3>10, FS_EmptySet
      <4>2. k = N - 1
        BY <3>2, <3>3, <3>7, <4>1
      <4>3. spent'[l][p] <= Limit[l] + Room(N - 1, l)
        BY <1>0, <3>4, <3>6, <3>7, <4>1, <4>2
      <4> QED
        BY <3>10, <4>3 DEF LedgerInv
    <3>11. CASE B # {}
      <4>1. PICK d \in B : IF c = s THEN TRUE ELSE d = c
        BY <3>1, <3>11
      <4>2. d \in A /\ spender'[d] = spender[d] /\ d # s
        BY <1>3, <3>1, <4>1 DEF Admitted
      <4>3. spent'[l][p] + spender'[d].units <= Limit[l] + Room(k + 1, l)
        <5>1. CASE c = s
          <6>1. spent'[l][p] <= Limit[l] + Room(k, l)
            BY <1>0, <3>4, <3>6, <3>7, <5>1
          <6>2. spender[d].units \in Nat /\ spender[d].units <= MostOf(l)
            BY <3>5, <4>2
          <6> QED
            BY <1>2, <3>6, <3>8, <4>2, <6>1, <6>2
        <5>2. CASE c # s
          <6>1. d = c
            BY <4>1, <5>2
          <6>2. spender[d].units \in Nat /\ call.units \in Nat /\ call.units <= MostOf(l)
            BY <1>2, <2>2, <3>5, <4>2
          <6>3. spent[l][p] + spender[d].units <= Limit[l] + Room(k, l)
            BY <3>4, <3>7, <6>1
          <6> QED
            BY <3>6, <3>8, <4>2, <6>2, <6>3
        <5> QED
          BY <5>1, <5>2
      <4> QED
        BY <3>9, <3>11, <4>3 DEF LedgerInv
    <3> QED
      BY <3>10, <3>11
  <2>3. CASE ~(l = call.ledger /\ p = call.period)
    <3>1. /\ Admitted(l, p)' = Admitted(l, p)
          /\ \A t \in Admitted(l, p) : spender'[t] = spender[t]
          /\ spent'[l][p] = spent[l][p]
      BY <1>0, <1>1, <1>3, <1>4, <2>3 DEF Admitted, NotSpending
    <3> QED
      BY <2>1, <3>1 DEF LedgerInv
  <2> QED
    BY <2>2, <2>3
<1>7. ExhaustionInv'
  <2>1. \A p : QuotaIsSpent(p) => QuotaIsSpent(p)'
    <3> SUFFICES ASSUME NEW p \in 1 .. Periods, "quota" \in Ledgers,
                        spent["quota"][p] >= Limit["quota"]
                 PROVE  spent'["quota"][p] >= Limit["quota"]
      BY DEF QuotaIsSpent
    <3>1. spent["quota"][p] \in Nat /\ Limit["quota"] \in Nat
      BY LimitAssumption DEF LimitInv, LimitShapes
    <3>2. spent'["quota"][p] \in {spent["quota"][p], spent["quota"][p] + call.units}
      BY <1>4
    <3> QED
      BY <1>2, <3>1, <3>2
  <2> QED
    BY <1>1, <1>3, <2>1 DEF LimitInv, ExhaustionInv, NotSpending
<1>8. BucketInv'
  BY <1>1 DEF LimitInv, BucketInv
<1> QED
  BY <1>5, <1>6, <1>7, <1>8 DEF LimitInv

(* Steps of the clock, the periods and the bucket. *)
LEMMA OthersThanSpenders ==
    ASSUME LimitInv, period' \in 1 .. Periods, BucketInv',
           UNCHANGED <<spent, spender, exhausted>>
    PROVE  LimitInv'
<1>1. LimitShapes'
  BY DEF LimitInv, LimitShapes
<1>2. \A l \in Ledgers, p \in 1 .. Periods : LedgerInv(l, p)'
  BY DEF LimitInv, LedgerInv, Admitted
<1>3. ExhaustionInv'
  BY DEF LimitInv, ExhaustionInv, QuotaIsSpent
<1> QED
  BY <1>1, <1>2, <1>3 DEF LimitInv

(* What refilling adds, it adds for the time that passed. *)
LEMMA RefillFacts ==
    ASSUME NEW b \in [tokens : 0 .. Capacity, lastRefill : Nat], NEW now \in Nat
    PROVE  /\ Refill(b, now) \in [tokens : 0 .. Capacity, lastRefill : Nat]
           /\ Refill(b, now).lastRefill \in {b.lastRefill, now}
           /\ Refill(b, now).tokens + b.lastRefill * RefillPerTick
                <= b.tokens + Refill(b, now).lastRefill * RefillPerTick
<1>1. Capacity \in Nat /\ RefillPerTick \in Nat /\ b.tokens \in 0 .. Capacity
      /\ b.lastRefill \in Nat
  BY LimitAssumption
<1>2. CASE now <= b.lastRefill
  <2>1. Refill(b, now) = b
    BY <1>2 DEF Refill
  <2>2. b.lastRefill * RefillPerTick \in Nat
    BY <1>1
  <2> QED
    BY <1>1, <2>1, <2>2
<1>3. CASE ~(now <= b.lastRefill)
  <2>1. PICK gain \in Nat : gain = (now - b.lastRefill) * RefillPerTick
    <3>1. now - b.lastRefill \in Nat
      BY <1>1, <1>3
    <3> QED
      BY <1>1, <3>1
  <2>2. now * RefillPerTick = gain + b.lastRefill * RefillPerTick
        /\ b.lastRefill * RefillPerTick \in Nat
    BY <1>1, <1>3, <2>1
  <2>3. PICK held : held = Min({Capacity, b.tokens + gain})
    OBVIOUS
  <2>4. held \in 0 .. Capacity /\ held <= b.tokens + gain
    <3>1. \E x \in {Capacity, b.tokens + gain} :
             \A y \in {Capacity, b.tokens + gain} : x <= y
      <4>1. Capacity <= b.tokens + gain \/ b.tokens + gain <= Capacity
        BY <1>1
      <4> QED
        BY <1>1, <4>1
    <3>2. held \in {Capacity, b.tokens + gain}
          /\ \A y \in {Capacity, b.tokens + gain} : held <= y
      BY <2>3, <3>1 DEF Min
    <3> QED
      BY <1>1, <3>2
  <2>5. Refill(b, now) = [tokens |-> held, lastRefill |-> now]
    BY <1>3, <2>1, <2>3 DEF Refill
  <2> QED
    BY <1>1, <2>2, <2>4, <2>5
<1> QED
  BY <1>2, <1>3

(* A refill gains no more than the time since the last one. *)
LEMMA TakeTokenKeeps == BucketInv /\ TakeToken => BucketInv'
<1> SUFFICES ASSUME BucketInv, TakeToken PROVE BucketInv'
  OBVIOUS
<1>1. PICK b : b = Refill(bucket, clock)
  OBVIOUS
<1>2. PICK n \in 1 .. MaxUnits :
         IF b.tokens >= n
         THEN bucket' = [b EXCEPT !.tokens = @ - n] /\ granted' = granted + n
         ELSE bucket' = b /\ UNCHANGED granted
  BY <1>1 DEF TakeToken
<1>3. /\ b \in [tokens : 0 .. Capacity, lastRefill : Nat]
      /\ b.lastRefill \in {bucket.lastRefill, clock}
      /\ b.tokens + bucket.lastRefill * RefillPerTick
           <= bucket.tokens + b.lastRefill * RefillPerTick
  BY <1>1, RefillFacts DEF BucketInv
<1>4. /\ bucket.lastRefill * RefillPerTick \in Nat /\ b.lastRefill * RefillPerTick \in Nat
      /\ b.tokens \in 0 .. Capacity /\ b.lastRefill \in Nat /\ Capacity \in Nat
      /\ bucket.tokens \in Nat /\ granted \in Nat /\ clock \in Nat /\ latest \in Nat
      /\ bucket.lastRefill <= latest
      /\ n \in Nat \ {0}
  BY <1>3, LimitAssumption DEF BucketInv
<1>5. granted + b.tokens <= Capacity + b.lastRefill * RefillPerTick
  <2>1. granted + bucket.tokens <= Capacity + bucket.lastRefill * RefillPerTick
    BY DEF BucketInv
  <2> QED
    BY <1>3, <1>4, <2>1
<1>6. /\ bucket' \in [tokens : 0 .. Capacity, lastRefill : Nat] /\ granted' \in Nat
      /\ bucket'.lastRefill = b.lastRefill
      /\ granted' + bucket'.tokens = granted + b.tokens
  <2>1. CASE b.tokens >= n
    <3>1. PICK m : m = b.tokens - n
      OBVIOUS
    <3>2. m \in 0 .. Capacity /\ bucket' = [b EXCEPT !.tokens = m] /\ granted' = granted + n
      BY <1>2, <1>3, <1>4, <2>1, <3>1
    <3>3. bucket' \in [tokens : 0 .. Capacity, lastRefill : Nat] /\ bucket'.tokens = m
          /\ bucket'.lastRefill = b.lastRefill
      BY <1>3, <3>2
    <3> QED
      BY <1>4, <3>1, <3>2, <3>3
  <2>2. CASE ~(b.tokens >= n)
    BY <1>2, <1>3, <1>4, <2>2
  <2> QED
    BY <2>1, <2>2
<1>7. latest' \in Nat /\ latest' >= latest /\ latest' >= clock
  <2>1. latest' = Max({latest, clock})
    BY DEF TakeToken
  <2>2. \E x \in {latest, clock} : \A y \in {latest, clock} : x >= y
    <3>1. latest >= clock \/ clock >= latest
      BY <1>4
    <3> QED
      BY <1>4, <3>1
  <2>3. latest' \in {latest, clock} /\ \A y \in {latest, clock} : latest' >= y
    BY <2>1, <2>2 DEF Max
  <2> QED
    BY <1>4, <2>3
<1>8. clock' \in Nat
  BY <1>4 DEF TakeToken
<1>9. bucket'.lastRefill <= latest'
  BY <1>3, <1>4, <1>6, <1>7
<1> QED
  BY <1>4, <1>5, <1>6, <1>7, <1>8, <1>9 DEF BucketInv

(* A call is let in for what fits in the limit, or is turned away. *)
LEMMA CheckSpentKeeps ==
    ASSUME LimitInv, NEW s \in Spenders, CheckSpent(s) PROVE LimitInv'
<1>0. PICK call : call = spender[s]
  OBVIOUS
<1>1. /\ call.pc = "check" /\ call \in SpendCalls
      /\ UNCHANGED <<period, spent, exhausted, bucketVars>>
  BY <1>0 DEF CheckSpent, LimitInv, LimitShapes
<1>2. call \in [pc : {"check", "consume", "publish"}, ledger : Ledgers, units : 1 .. MaxUnits,
                period : 1 .. Periods]
      /\ call.units \in UnitsOf(call.ledger)
  BY <1>1 DEF SpendCalls, NotSpending
<1>3. PICK prior \in Nat : prior = spent[call.ledger][call.period]
  BY <1>2 DEF LimitInv, LimitShapes
<1>4. Limit[call.ledger] \in Nat
  BY <1>2, LimitAssumption
<1>5. CASE Fits(prior, call.units, Limit[call.ledger])
  <2>1. PICK next : next = [call EXCEPT !.pc = "consume"]
    OBVIOUS
  <2>2. spender' = [spender EXCEPT ![s] = next]
    BY <1>0, <1>3, <1>5, <2>1 DEF CheckSpent, Spends
  <2>3. /\ next \in SpendCalls /\ next.pc = "consume" /\ next.ledger = call.ledger
        /\ next.units = call.units /\ next.period = call.period
    BY <1>2, <2>1 DEF SpendCalls
  <2>4. spent[next.ledger][next.period] + next.units <= Limit[next.ledger]
    BY <1>3, <1>5, <2>3 DEF Fits
  <2> QED
    BY <1>0, <1>1, <2>2, <2>3, <2>4, Admission
<1>6. CASE ~Fits(prior, call.units, Limit[call.ledger]) /\ call.ledger = "quota"
  <2>1. PICK next : next = [call EXCEPT !.pc = "publish"]
    OBVIOUS
  <2>2. spender' = [spender EXCEPT ![s] = next]
    BY <1>0, <1>3, <1>6, <2>1 DEF CheckSpent, Spends
  <2>3. /\ next \in SpendCalls /\ next.pc = "publish" /\ next.period = call.period
    BY <1>2, <1>6, <2>1 DEF SpendCalls
  <2>4. QuotaIsSpent(next.period)
    <3>1. call.units = 1
      BY <1>2, <1>6 DEF UnitsOf
    <3> QED
      BY <1>2, <1>3, <1>4, <1>6, <2>3, <3>1 DEF Fits, QuotaIsSpent
  <2>5. \A p \in exhausted' : QuotaIsSpent(p)
    BY <1>1 DEF LimitInv, ExhaustionInv
  <2> QED
    BY <1>0, <1>1, <2>2, <2>3, <2>4, <2>5, SpenderMoves
<1>7. CASE ~Fits(prior, call.units, Limit[call.ledger]) /\ call.ledger # "quota"
  <2>1. spender' = [spender EXCEPT ![s] = NotSpending]
    BY <1>0, <1>3, <1>7 DEF CheckSpent, Spends
  <2>2. NotSpending \in SpendCalls /\ NotSpending.pc = "not_spending"
    BY DEF SpendCalls, NotSpending
  <2>3. \A p \in exhausted' : QuotaIsSpent(p)
    BY <1>1 DEF LimitInv, ExhaustionInv
  <2> QED
    BY <1>0, <1>1, <2>1, <2>2, <2>3, SpenderMoves
<1> QED
  BY <1>5, <1>6, <1>7

(* Every step of callers and clocks keeps the invariant. *)
LEMMA LimitNextInv == LimitInv /\ [LimitNext]_limitVars => LimitInv'
<1> SUFFICES ASSUME LimitInv, [LimitNext]_limitVars PROVE LimitInv'
  OBVIOUS
<1>1. ASSUME NEW s \in Spenders, AskToSpend(s) PROVE LimitInv'
  <2>0. PICK ledger \in Ledgers : \E units \in UnitsOf(ledger) :
          spender' = [spender EXCEPT ![s] =
             [pc |-> "check", ledger |-> ledger, units |-> units, period |-> period]]
    BY <1>1 DEF AskToSpend, Spends
  <2>1. PICK units \in UnitsOf(ledger) :
          spender' = [spender EXCEPT ![s] =
             [pc |-> "check", ledger |-> ledger, units |-> units, period |-> period]]
    BY <2>0
  <2>2. PICK call : call = [pc |-> "check", ledger |-> ledger, units |-> units, period |-> period]
    OBVIOUS
  <2>3. units \in 1 .. MaxUnits
    BY LimitAssumption DEF UnitsOf
  <2>4. call \in SpendCalls /\ call.pc = "check"
    BY <2>2, <2>3 DEF SpendCalls, LimitInv, LimitShapes
  <2>5. spender[s].pc # "consume" /\ UNCHANGED <<period, spent, exhausted, bucketVars>>
    BY <1>1 DEF AskToSpend, NotSpending
  <2>6. \A p \in exhausted' : QuotaIsSpent(p)
    BY <2>5 DEF LimitInv, ExhaustionInv
  <2> QED
    BY <2>1, <2>2, <2>4, <2>5, <2>6, SpenderMoves
<1>2. ASSUME NEW s \in Spenders, CheckSpent(s) PROVE LimitInv'
  BY <1>2, CheckSpentKeeps
<1>3. ASSUME NEW s \in Spenders, ConsumeUnits(s) PROVE LimitInv'
  BY <1>3, ConsumeUnitsKeeps
<1>4. ASSUME NEW s \in Spenders, PublishExhausted(s) PROVE LimitInv'
  <2>1. /\ spender[s].pc = "publish" /\ exhausted' = exhausted \union {spender[s].period}
        /\ spender' = [spender EXCEPT ![s] = NotSpending]
        /\ UNCHANGED <<period, spent, bucketVars>>
    BY <1>4 DEF PublishExhausted, Spends
  <2>2. NotSpending \in SpendCalls /\ NotSpending.pc = "not_spending"
    BY DEF SpendCalls, NotSpending
  <2>3. \A p \in exhausted' : QuotaIsSpent(p)
    BY <2>1 DEF LimitInv, ExhaustionInv
  <2> QED
    BY <2>1, <2>2, <2>3, SpenderMoves
<1>5. CASE NextPeriod
  <2>1. period' \in 1 .. Periods /\ BucketInv'
    BY <1>5, LimitAssumption DEF NextPeriod, LimitInv, LimitShapes, BucketInv, bucketVars
  <2> QED
    BY <1>5, <2>1, OthersThanSpenders DEF NextPeriod
<1>6. CASE TakeToken
  <2>1. BucketInv' /\ period' \in 1 .. Periods
    BY <1>6, TakeTokenKeeps DEF LimitInv, LimitShapes, TakeToken
  <2> QED
    BY <1>6, <2>1, OthersThanSpenders DEF TakeToken
<1>7. CASE ClockMoves
  <2>1. BucketInv' /\ period' \in 1 .. Periods
    BY <1>7 DEF LimitInv, LimitShapes, BucketInv, ClockMoves
  <2> QED
    BY <1>7, <2>1, OthersThanSpenders DEF ClockMoves
<1>8. CASE UNCHANGED limitVars
  <2>1. BucketInv' /\ period' \in 1 .. Periods
    BY <1>8 DEF LimitInv, LimitShapes, BucketInv, limitVars
  <2> QED
    BY <1>8, <2>1, OthersThanSpenders DEF limitVars
<1> QED
  BY <1>1, <1>2, <1>3, <1>4, <1>5, <1>6, <1>7, <1>8 DEF LimitNext

(* budget-service.ts, actor-quota-service.ts, rate-limiter.ts: for any      *)
(* limits and any number of callers at the same time, a period is overrun   *)
(* by less than what the others of them asked for, and the bucket grants no *)
(* more than it held and gained.                                            *)
THEOREM OverrunBounded == LimitSpec => []OverrunIsBounded
BY LimitInvImplies, LimitInitInv, LimitNextInv, PTL DEF LimitSpec

(* What the invariant of the limits leaves open. *)
LimitTypeInv ==
    /\ clock \in 0 .. MaxClock /\ calls \in 0 .. MaxCalls
    /\ bucket.lastRefill \in 0 .. MaxClock /\ exhausted \subseteq 1 .. Periods

(* The invariant of the limits and the bounds on clock and calls are the    *)
(* types.                                                                   *)
LEMMA LimitTypesImplied == LimitInv /\ LimitTypeInv => LimitTypeOK
BY DEF LimitInv, LimitTypeInv, LimitShapes, BucketInv, LimitTypeOK

(* The clock starts at nought, with nobody told of an exhausted quota. *)
LEMMA LimitInitTypes == LimitInit => LimitTypeInv
BY LimitAssumption DEF LimitInit, LimitTypeInv

(* Calls, clocks and periods stay within their bounds. *)
LEMMA LimitNextTypes == LimitInv /\ LimitTypeInv /\ [LimitNext]_limitVars => LimitTypeInv'
<1> SUFFICES ASSUME LimitInv, LimitTypeInv, [LimitNext]_limitVars PROVE LimitTypeInv'
  OBVIOUS
<1>1. ASSUME NEW s \in Spenders, AskToSpend(s) PROVE LimitTypeInv'
  BY <1>1, LimitAssumption DEF AskToSpend, bucketVars, LimitTypeInv
<1>2. ASSUME NEW s \in Spenders, PublishExhausted(s) PROVE LimitTypeInv'
  <2>1. spender[s].period \in 1 .. Periods
    BY <1>2 DEF PublishExhausted, LimitInv, LimitShapes, SpendCalls, NotSpending
  <2> QED
    BY <1>2, <2>1 DEF PublishExhausted, bucketVars, LimitTypeInv
<1>3. CASE TakeToken
  <2>1. calls' \in 0 .. MaxCalls /\ clock' = clock /\ exhausted' = exhausted
    BY <1>3, LimitAssumption DEF TakeToken, LimitTypeInv
  <2>2. bucket \in [tokens : 0 .. Capacity, lastRefill : Nat]
    BY DEF LimitInv, BucketInv
  <2>3. PICK n \in 1 .. MaxUnits :
           bucket' = Refill(bucket, clock)
             \/ bucket' = [Refill(bucket, clock) EXCEPT !.tokens = Refill(bucket, clock).tokens - n]
    BY <1>3 DEF TakeToken
  <2>4. bucket'.lastRefill = Refill(bucket, clock).lastRefill
    BY <2>2, <2>3 DEF Refill
  <2>5. Refill(bucket, clock).lastRefill \in {bucket.lastRefill, clock}
    BY <2>2 DEF Refill
  <2> QED
    BY <2>1, <2>4, <2>5 DEF LimitTypeInv
<1>4. CASE ClockMoves
  BY <1>4 DEF ClockMoves, LimitTypeInv
<1>5. CASE UNCHANGED <<clock, calls, bucket, exhausted>>
  BY <1>5 DEF LimitTypeInv
<1>6. \/ \E s \in Spenders : AskToSpend(s) \/ PublishExhausted(s)
      \/ TakeToken \/ ClockMoves
      \/ UNCHANGED <<clock, calls, bucket, exhausted>>
  BY DEF LimitNext, CheckSpent, ConsumeUnits, NextPeriod, bucketVars, limitVars
<1> QED
  BY <1>1, <1>2, <1>3, <1>4, <1>5, <1>6

(* The states of ledgers and bucket have the types they are declared with. *)
LEMMA LimitTypes == LimitSpec => []LimitTypeOK
<1>1. LimitInit => LimitInv /\ LimitTypeInv
  BY LimitInitInv, LimitInitTypes
<1>2. LimitInv /\ LimitTypeInv /\ [LimitNext]_limitVars => LimitInv' /\ LimitTypeInv'
  BY LimitNextInv, LimitNextTypes
<1>3. LimitInv /\ LimitTypeInv => LimitTypeOK
  BY LimitTypesImplied
<1> QED
  BY <1>1, <1>2, <1>3, PTL DEF LimitSpec

-----------------------------------------------------------------------------
(* The audit chain *)

(* A hash of chain A: what it was computed from are the bodies accepted     *)
(* first.                                                                   *)
HashOf(h, A) == h \in Seq(Nat) /\ Len(h) <= Len(A) /\ \A j \in 1 .. Len(h) : h[j] = A[j]

(* A row of chain A: written as the record of one accepted body, and at     *)
(* most altered since.                                                      *)
Written(row, A) ==
    /\ HashOf(row.previous, A) /\ HashOf(row.hash, A)
    /\ Len(row.hash) = Len(row.previous) + 1
    /\ row.body \in {Altered, A[Len(row.hash)]}

(* Rows of audit_records. *)
Record == [previous : Seq(Nat), body : Nat, hash : Seq(Nat)]

(* A list of rows of chain A. *)
RowsOf(listed, A) == listed \in Seq(Record) /\ \A i \in 1 .. Len(listed) : Written(listed[i], A)

(* Every record is there, as it was accepted. *)
Whole(listed, A) ==
    /\ Len(listed) = Len(A)
    /\ \A i \in 1 .. Len(listed) : Len(listed[i].hash) = i /\ listed[i].body = A[i]

(* The records are the first that were accepted. *)
Vouched(listed, A) ==
    Len(listed) <= Len(A) /\ \A i \in 1 .. Len(listed) : listed[i].body = A[i]

(* An append in the queue of its chain. *)
PendingAppend == [body : Nat \ {Altered}, hashable : BOOLEAN, tail : Seq(Nat \ {Altered})]

(* The rows are of the bodies accepted, all of them while no row failed. *)
ChainInv ==
    /\ left \in [appends : [Chains -> Nat], checkpoints : Nat]
    /\ faults \in Nat
    /\ pending \in [Chains -> Seq(PendingAppend)] /\ rejected \in [Chains -> BOOLEAN]
    /\ accepted \in [Chains -> Seq(Nat \ {Altered})] /\ tails = accepted
    /\ records \in [Chains -> Seq(Record)]
    /\ \A c \in Chains : RowsOf(records[c], accepted[c])
    /\ faults = 0 => \A c \in Chains : Whole(records[c], accepted[c])

(* What a verifier carries: rows of a chain it found intact. *)
Listing(v) ==
    /\ v.chain \in Chains /\ v.listed \in Seq(Record)
    /\ Vouched(v.listed, accepted[v.chain])

(* What a checkpoint says. *)
Payloads == [chain : Chains, head : Seq(Nat), count : Nat]

(* The verifier holds rows vouched for, and a checkpoint that exists. *)
VerifierInv ==
    /\ checkpoints \in Seq(Payloads)
    /\ verifying.pc \in {"latest", "compare"} => Listing(verifying)
    /\ verifying.pc = "compare" => verifying.seq \in 1 .. Len(checkpoints)
    /\ verdict.ok /\ verdict.reason # "none" =>
         /\ Listing(verdict)
         /\ verdict.reason = "as_checkpointed" =>
              \E i \in 1 .. Len(checkpoints) :
                 checkpoints[i].chain = verdict.chain /\ checkpoints[i].count = Len(verdict.listed)

(* What a writer goes on to write is a checkpoint. *)
WritersInv ==
    \A w \in CheckpointWriters :
        checkpointing[w].pc \in {"latest", "write"} => checkpointing[w].payload \in Payloads

(* A hash remains one when bodies are accepted after it. *)
LEMMA HashGrows ==
    ASSUME NEW A \in Seq(Nat), NEW x \in Nat, NEW h, HashOf(h, A) PROVE HashOf(h, Append(A, x))
<1>1. /\ Len(Append(A, x)) = Len(A) + 1 /\ Len(A) \in Nat
      /\ \A j \in 1 .. Len(A) : Append(A, x)[j] = A[j]
  BY AppendProperties, LenProperties
<1>2. Len(h) \in Nat
  BY DEF HashOf
<1> QED
  BY <1>1, <1>2 DEF HashOf

(* So does a row remain written. *)
LEMMA RowsGrow ==
    ASSUME NEW A \in Seq(Nat), NEW x \in Nat, NEW row, Written(row, A), row.hash \in Seq(Nat), Len(row.previous) \in Nat
    PROVE  Written(row, Append(A, x))
<1>1. /\ Len(Append(A, x)) = Len(A) + 1 /\ Len(A) \in Nat
      /\ \A j \in 1 .. Len(A) : Append(A, x)[j] = A[j]
  BY AppendProperties, LenProperties
<1>2. Len(row.hash) \in 1 .. Len(A)
  BY <1>1, LenProperties DEF Written, HashOf
<1> QED
  BY <1>1, <1>2, HashGrows DEF Written

(* Two hashes over equally many bodies of one chain are the same. *)
LEMMA HashesEqual ==
    ASSUME NEW A, NEW g, NEW h, HashOf(g, A), HashOf(h, A), Len(g) = Len(h) PROVE g = h
<1>1. g \in Seq(Nat) /\ h \in Seq(Nat) /\ \A j \in 1 .. Len(g) : g[j] = h[j]
  BY DEF HashOf
<1> QED
  BY <1>1, SeqEqual

(* A set of numbers that is not empty has a least. *)
LEMMA LeastOf ==
    ASSUME NEW S \in SUBSET Nat, S # {}
    PROVE  \E i \in S : \A j \in S : i <= j
<1> DEFINE R == {ss \in Nat \X Nat : ss[1] < ss[2]}
<1>1. IsWellFoundedOn(R, Nat)
  BY NatLessThanWellFounded DEF OpToRel
<1>2. PICK i \in S : \A j \in S : <<j, i>> \notin R
  <2> HIDE DEF R
  <2> QED
    BY <1>1, WFMin
<1>3. ASSUME NEW j \in S PROVE i <= j
  <2>1. i \in Nat /\ j \in Nat
    OBVIOUS
  <2>2. j < i => <<j, i>> \in R
    BY <2>1
  <2> QED
    BY <1>2, <2>1, <2>2
<1> QED
  BY <1>3

(* The hash a row of a list must name as its previous one. *)
LEMMA HashBefore ==
    ASSUME NEW listed \in Seq(Record), NEW i \in 1 .. Len(listed)
    PROVE  LastHash(SubSeq(listed, 1, i - 1)) = IF i = 1 THEN <<>> ELSE listed[i - 1].hash
<1>1. Len(listed) \in Nat /\ listed \in [1 .. Len(listed) -> Record]
  BY LenProperties
<1>2. PICK w : w = SubSeq(listed, 1, i - 1)
  OBVIOUS
<1>3. /\ w \in Seq(Record) /\ Len(w) = i - 1
      /\ \A j \in 1 .. (i - 1) : w[j] = listed[j]
  <2>1. 1 \in 1 .. (Len(listed) + 1) /\ i - 1 \in 0 .. Len(listed)
    BY <1>1
  <2>2. \A j \in 1 .. (i - 1) : listed[j] \in Record
    BY <1>1
  <2> QED
    BY <1>1, <1>2, <2>1, <2>2, SubSeqProperties
<1>4. CASE i = 1
  BY <1>2, <1>3, <1>4, EmptySeq DEF LastHash
<1>5. CASE i # 1
  <2>1. w # <<>> /\ i - 1 \in 1 .. (i - 1)
    BY <1>1, <1>3, <1>5, EmptySeq
  <2> QED
    BY <1>2, <1>3, <1>5, <2>1 DEF LastHash
<1> QED
  BY <1>4, <1>5

(* What the proofs below need of a row that is listed. *)
LEMMA RowIs ==
    ASSUME NEW listed, NEW A, RowsOf(listed, A), NEW i \in 1 .. Len(listed)
    PROVE  /\ listed[i] \in Record /\ Written(listed[i], A)
           /\ Len(listed[i].hash) \in Nat /\ Len(listed[i].previous) \in Nat
           /\ DOMAIN listed = 1 .. Len(listed) /\ Len(listed) \in Nat
<1>1. listed \in Seq(Record) /\ listed \in [1 .. Len(listed) -> Record] /\ Len(listed) \in Nat
  BY LenProperties DEF RowsOf
<1>2. listed[i].hash \in Seq(Nat) /\ listed[i].previous \in Seq(Nat)
  BY <1>1 DEF Record
<1>3. Len(listed[i].hash) \in Nat /\ Len(listed[i].previous) \in Nat
  BY <1>2, LenProperties
<1> QED
  BY <1>1, <1>3 DEF RowsOf

(* Records that verify are the first that were accepted. *)
LEMMA IntactIsVouched ==
    ASSUME NEW A \in Seq(Nat \ {Altered}), NEW listed, RowsOf(listed, A), Intact(listed)
    PROVE  Vouched(listed, A)
<1>1. Len(listed) \in Nat /\ listed \in Seq(Record) /\ Len(A) \in Nat
  BY LenProperties DEF RowsOf
<1>2. \A i \in 1 .. Len(listed) : /\ Len(listed[i].hash) \in Nat /\ Len(listed[i].previous) \in Nat
                                  /\ Len(listed[i].hash) = Len(listed[i].previous) + 1
                                  /\ Written(listed[i], A)
  BY RowIs DEF Written
<1>3. \A i \in 1 .. Len(listed) :
         /\ listed[i].previous = IF i = 1 THEN <<>> ELSE listed[i - 1].hash
         /\ listed[i].hash = RecordHash(listed[i].previous, listed[i].body)
  BY <1>1, RowIs, HashBefore DEF Intact
<1>4. \A i \in 1 .. Len(listed) : Len(listed[i].hash) = i
  <2> DEFINE S == {i \in 1 .. Len(listed) : Len(listed[i].hash) # i}
  <2>1. SUFFICES ASSUME S # {} PROVE FALSE
    OBVIOUS
  <2>2. PICK i \in S : \A j \in S : i <= j
    <3>1. S \in SUBSET Nat
      OBVIOUS
    <3> HIDE DEF S
    <3> QED
      BY <2>1, <3>1, LeastOf
  <2>3. CASE i = 1
    <3>1. listed[i].previous = <<>> /\ Len(<<>>) = 0 /\ i \in 1 .. Len(listed)
      BY <1>3, <2>2, <2>3
    <3>2. Len(listed[i].hash) = 0 + 1
      BY <1>2, <3>1
    <3> QED
      BY <2>2, <2>3, <3>2
  <2>4. CASE i # 1
    <3>1. i - 1 \in 1 .. Len(listed) /\ i - 1 < i /\ i - 1 \in Nat
      BY <1>1, <2>2, <2>4
    <3>2. Len(listed[i - 1].hash) = i - 1
      BY <2>2, <3>1
    <3> QED
      BY <1>2, <1>3, <2>2, <2>4, <3>2
  <2> QED
    BY <2>3, <2>4
<1>5. ASSUME NEW i \in 1 .. Len(listed) PROVE i <= Len(A) /\ listed[i].body = A[i]
  <2>1. Len(listed[i].hash) = i /\ HashOf(listed[i].hash, A)
    BY <1>2, <1>4 DEF Written
  <2>2. i <= Len(A) /\ listed[i].hash[i] = A[i]
    BY <2>1 DEF HashOf
  <2>3. PICK g \in Seq(Nat), b \in Nat : g = listed[i].previous /\ b = listed[i].body
    BY RowIs DEF Record
  <2>4. Len(g) = i - 1 /\ listed[i].hash = Append(g, b)
    BY <1>2, <1>3, <2>1, <2>3 DEF RecordHash
  <2>5. Append(g, b)[i] = b
    BY <2>4, AppendProperties
  <2> QED
    BY <2>2, <2>3, <2>4, <2>5
<1> QED
  BY <1>1, <1>5 DEF Vouched

(* Records of which none is missing and none altered verify. *)
LEMMA WholeIsIntact ==
    ASSUME NEW A \in Seq(Nat \ {Altered}), NEW listed, RowsOf(listed, A), Whole(listed, A)
    PROVE  Intact(listed) /\ BodiesOf(listed) = A
<1>1. Len(listed) \in Nat /\ listed \in Seq(Record) /\ DOMAIN listed = 1 .. Len(listed)
  BY LenProperties DEF RowsOf
<1>2. ASSUME NEW i \in 1 .. Len(listed)
      PROVE  /\ listed[i].previous = LastHash(SubSeq(listed, 1, i - 1))
             /\ listed[i].hash = RecordHash(listed[i].previous, listed[i].body)
  <2>1. PICK g \in Seq(Nat), h \in Seq(Nat), b \in Nat :
           g = listed[i].previous /\ h = listed[i].hash /\ b = listed[i].body
    BY RowIs DEF Record
  <2>2. HashOf(g, A) /\ HashOf(h, A) /\ Len(h) = Len(g) + 1 /\ Len(h) = i /\ b = A[i]
    BY <2>1, RowIs DEF Written, Whole
  <2>3. Len(g) = i - 1
    BY <2>2, LenProperties
  <2>4. g = LastHash(SubSeq(listed, 1, i - 1))
    <3>1. CASE i = 1
      BY <1>1, <2>3, <3>1, HashBefore, EmptySeq
    <3>2. CASE i # 1
      <4>1. i - 1 \in 1 .. Len(listed)
        BY <1>1, <3>2
      <4>2. HashOf(listed[i - 1].hash, A) /\ Len(listed[i - 1].hash) = i - 1
        BY <4>1, RowIs DEF Written, Whole
      <4>3. g = listed[i - 1].hash
        BY <2>2, <2>3, <4>2, HashesEqual
      <4> QED
        BY <1>1, <3>2, <4>3, HashBefore
    <3> QED
      BY <3>1, <3>2
  <2>5. h = Append(g, b)
    <3>1. /\ Append(g, b) \in Seq(Nat) /\ Len(Append(g, b)) = i /\ Append(g, b)[i] = b
          /\ \A j \in 1 .. (i - 1) : Append(g, b)[j] = g[j]
      BY <2>3, AppendProperties
    <3>2. ASSUME NEW j \in 1 .. i PROVE h[j] = Append(g, b)[j]
      <4>1. h[j] = A[j]
        BY <2>2 DEF HashOf
      <4>2. CASE j = i
        BY <2>2, <3>1, <4>1, <4>2
      <4>3. CASE j # i
        <5>1. j \in 1 .. (i - 1) /\ j \in 1 .. Len(g)
          BY <1>1, <2>3, <4>3
        <5>2. g[j] = A[j]
          BY <2>2, <5>1 DEF HashOf
        <5> QED
          BY <3>1, <4>1, <5>1, <5>2
      <4> QED
        BY <4>2, <4>3
    <3> QED
      BY <2>2, <3>1, <3>2, SeqEqual
  <2> QED
    BY <2>1, <2>4, <2>5 DEF RecordHash
<1>3. BodiesOf(listed) = A
  <2>1. DOMAIN A = 1 .. Len(listed) /\ A \in [1 .. Len(listed) -> Nat]
    BY LenProperties DEF Whole
  <2> QED
    BY <1>1, <2>1 DEF BodiesOf, Whole
<1> QED
  BY <1>1, <1>2, <1>3 DEF Intact


-----------------------------------------------------------------------------

(* Body x is accepted. *)
Accepts(A, x, R, record, R2, A2) ==
    /\ record = [previous |-> A, body |-> x, hash |-> RecordHash(A, x)]
    /\ R2 = Append(R, record) /\ A2 = Append(A, x)

(* An accepted body adds a row that was written, and the last that is due. *)
LEMMA RecordsGrow ==
    ASSUME NEW A \in Seq(Nat \ {Altered}), NEW x \in Nat \ {Altered}, NEW R, RowsOf(R, A),
           NEW record, NEW R2, NEW A2, Accepts(A, x, R, record, R2, A2)
    PROVE  /\ RowsOf(R2, A2) /\ A2 \in Seq(Nat \ {Altered}) /\ record.hash = A2
           /\ Whole(R, A) => Whole(R2, A2)
<1>0. /\ record = [previous |-> A, body |-> x, hash |-> RecordHash(A, x)]
      /\ R2 = Append(R, record) /\ A2 = Append(A, x)
  BY DEF Accepts
<1>1. /\ A2 \in Seq(Nat \ {Altered}) /\ Len(A) \in Nat /\ Len(A2) = Len(A) + 1
      /\ \A j \in 1 .. Len(A) : A2[j] = A[j]
      /\ A2[Len(A) + 1] = x
  BY <1>0, AppendProperties, LenProperties
<1>2. A \in Seq(Nat) /\ A2 \in Seq(Nat) /\ x \in Nat
  <2>1. \A w \in Seq(Nat \ {Altered}) : w \in Seq(Nat)
    OBVIOUS
  <2> QED
    BY <1>1, <2>1
<1>3. record \in Record /\ record.previous = A /\ record.body = x /\ record.hash = A2
  BY <1>0, <1>2 DEF Record, RecordHash
<1>4. R \in Seq(Record) /\ Len(R) \in Nat
  BY LenProperties DEF RowsOf
<1>5. /\ R2 \in Seq(Record) /\ Len(R2) = Len(R) + 1
      /\ \A i \in 1 .. Len(R) : R2[i] = R[i]
      /\ R2[Len(R) + 1] = record
  BY <1>0, <1>3, <1>4, AppendProperties
<1>6. HashOf(A, A2) /\ HashOf(A2, A2)
  BY <1>1, <1>2 DEF HashOf
<1>7. Written(record, A2)
  BY <1>1, <1>3, <1>6 DEF Written
<1>8. ASSUME NEW i \in 1 .. Len(R) PROVE Written(R2[i], A2)
  <2>1. Written(R[i], A) /\ R[i].hash \in Seq(Nat) /\ Len(R[i].previous) \in Nat
    BY RowIs DEF Record
  <2> QED
    BY <1>0, <1>2, <1>5, <2>1, RowsGrow
<1>9. \A i \in 1 .. Len(R2) : i \in 1 .. Len(R) \/ i = Len(R) + 1
  BY <1>4, <1>5
<1>10. RowsOf(R2, A2)
  BY <1>5, <1>7, <1>8, <1>9 DEF RowsOf
<1>11. ASSUME Whole(R, A) PROVE Whole(R2, A2)
  <2>1. Len(R2) = Len(A2) /\ Len(R) = Len(A)
    BY <1>1, <1>5, <1>11 DEF Whole
  <2>2. ASSUME NEW i \in 1 .. Len(R2) PROVE Len(R2[i].hash) = i /\ R2[i].body = A2[i]
    <3>1. CASE i \in 1 .. Len(R)
      BY <1>1, <1>5, <1>11, <2>1, <3>1 DEF Whole
    <3>2. CASE i = Len(R) + 1
      BY <1>1, <1>3, <1>5, <2>1, <3>2
    <3> QED
      BY <1>9, <3>1, <3>2
  <2> QED
    BY <2>1, <2>2 DEF Whole
<1> QED
  BY <1>1, <1>3, <1>10, <1>11

(* What was vouched for remains so. *)
LEMMA VouchedStays ==
    ASSUME NEW A \in Seq(Nat \ {Altered}), NEW x \in Nat \ {Altered}, NEW listed \in Seq(Record),
           Vouched(listed, A)
    PROVE  Vouched(listed, Append(A, x))
<1>1. /\ Len(A) \in Nat /\ Len(Append(A, x)) = Len(A) + 1 /\ Len(listed) \in Nat
      /\ \A j \in 1 .. Len(A) : Append(A, x)[j] = A[j]
  BY AppendProperties, LenProperties
<1> QED
  BY <1>1 DEF Vouched

(* A row is altered, or the last is lost. *)
LEMMA RowsFail ==
    ASSUME NEW A \in Seq(Nat \ {Altered}), NEW R, RowsOf(R, A), R # <<>>
    PROVE  /\ \A i \in DOMAIN R : RowsOf([R EXCEPT ![i].body = Altered], A)
           /\ RowsOf(SubSeq(R, 1, Len(R) - 1), A)
<1>1. /\ R \in Seq(Record) /\ Len(R) \in Nat \ {0} /\ DOMAIN R = 1 .. Len(R)
      /\ \A i \in 1 .. Len(R) : R[i] \in Record /\ Written(R[i], A)
  <2>1. R \in Seq(Record)
    BY DEF RowsOf
  <2> QED
    BY <2>1, RowIs, LenProperties, EmptySeq
<1>2. ASSUME NEW i \in 1 .. Len(R) PROVE RowsOf([R EXCEPT ![i].body = Altered], A)
  <2>1. PICK row \in Record : row = R[i]
    BY <1>1
  <2>2. PICK e : e = [row EXCEPT !.body = Altered]
    OBVIOUS
  <2>3. e \in Record /\ e.hash = row.hash /\ e.previous = row.previous /\ e.body = Altered
    BY <2>2 DEF Record, Altered
  <2>4. Written(e, A)
    BY <1>1, <2>1, <2>3 DEF Written
  <2>5. PICK R2 : R2 = [R EXCEPT ![i] = e]
    OBVIOUS
  <2>6. R2 = [R EXCEPT ![i].body = Altered]
    BY <2>1, <2>2, <2>5
  <2>7. R2 \in Seq(Record) /\ Len(R2) = Len(R) /\ \A j \in 1 .. Len(R) : R2[j] = IF j = i THEN e ELSE R[j]
    BY <1>1, <2>3, <2>5, ExceptSeq
  <2> QED
    BY <1>1, <2>4, <2>6, <2>7 DEF RowsOf
<1>3. RowsOf(SubSeq(R, 1, Len(R) - 1), A)
  <2>1. PICK w : w = SubSeq(R, 1, Len(R) - 1)
    OBVIOUS
  <2>2. w \in Seq(Record) /\ Len(w) = Len(R) - 1 /\ \A j \in 1 .. (Len(R) - 1) : w[j] = R[j]
    <3>0. PICK m \in Nat \ {0} : m = Len(R)
      BY <1>1
    <3>a. m - 1 \in Nat
      OBVIOUS
    <3>1. PICK n \in Nat : n = Len(R) - 1
      BY <3>0, <3>a
    <3>2. \A j \in 1 .. n : R[j] \in Record
      BY <1>1, <3>1
    <3>3. /\ w \in Seq(Record) /\ Len(w) = IF 1 <= n THEN n - 1 + 1 ELSE 0
          /\ \A j \in 1 .. n - 1 + 1 : w[j] = R[1 + j - 1]
      BY <2>1, <3>1, <3>2, SubSeqProperties
    <3>4. \A j \in 1 .. n : w[j] = R[j]
      BY <3>3
    <3> QED
      BY <3>1, <3>3, <3>4
  <2> QED
    BY <1>1, <2>1, <2>2 DEF RowsOf
<1> QED
  BY <1>1, <1>2, <1>3


AuditInv == ChainInv /\ VerifierInv /\ WritersInv

(* An intact list is vouched for, and while no row failed the chain is      *)
(* whole.                                                                   *)
LEMMA AuditInvImplies ==
    AuditInv => ChainAndVerdictsAreTrue
<1> SUFFICES ASSUME AuditInv PROVE ChainAndVerdictsAreTrue
  OBVIOUS
<1>1. ASSUME faults = 0, NEW c \in Chains PROVE BodiesOf(records[c]) = accepted[c] /\ Intact(records[c])
  <2>1. PICK A, R : A \in Seq(Nat \ {Altered}) /\ A = accepted[c] /\ R = records[c]
    BY DEF AuditInv, ChainInv
  <2>2. RowsOf(R, A) /\ Whole(R, A)
    BY <1>1, <2>1 DEF AuditInv, ChainInv
  <2> QED
    BY <2>1, <2>2, WholeIsIntact
<1>2. ASSUME verdict.ok, verdict.reason \in {"no-checkpoint", "as_checkpointed"} PROVE VerdictIsTrue
  <2>1. PICK A \in Seq(Nat \ {Altered}), L \in Seq(Record) : A = accepted[verdict.chain] /\ L = verdict.listed
    BY <1>2 DEF AuditInv, ChainInv, VerifierInv, Listing
  <2>2. Vouched(L, A)
    BY <1>2, <2>1 DEF AuditInv, VerifierInv, Listing
  <2>3. PICK n \in Nat : n = Len(L) /\ n <= Len(A)
    BY <2>2 DEF Vouched
  <2>4. \A j \in 1 .. n : A[j] \in Nat \ {Altered}
    BY <2>3
  <2>5. PICK w : w = SubSeq(A, 1, n)
    OBVIOUS
  <2>6. /\ w \in Seq(Nat \ {Altered}) /\ Len(w) = IF 1 <= n THEN n - 1 + 1 ELSE 0
        /\ \A j \in 1 .. n - 1 + 1 : w[j] = A[1 + j - 1]
    BY <2>4, <2>5, SubSeqProperties
  <2>7. w \in [1 .. n -> Nat] /\ \A j \in 1 .. n : w[j] = L[j].body
    BY <2>2, <2>3, <2>6, LenProperties DEF Vouched
  <2>8. BodiesOf(L) = w
    BY <2>3, <2>7, LenProperties DEF BodiesOf
  <2>9. \A i \in 1 .. Len(checkpoints) : i \in DOMAIN checkpoints
    BY DEF AuditInv, VerifierInv
  <2> QED
    BY <1>2, <2>1, <2>3, <2>5, <2>8, <2>9 DEF VerdictIsTrue, AuditInv, VerifierInv
<1> QED
  BY <1>1, <1>2 DEF ChainAndVerdictsAreTrue, ChainTellsWhatWasAccepted

(* Chains and storage are empty. *)
LEMMA AuditInitInv ==
    AuditInit => AuditInv
<1> SUFFICES ASSUME AuditInit PROVE AuditInv
  OBVIOUS
<1>1. ChainInv
  <2>1. \A c \in Chains : records[c] = <<>> /\ accepted[c] = <<>>
    BY DEF AuditInit
  <2>2. RowsOf(<<>>, <<>>) /\ Whole(<<>>, <<>>)
    BY DEF RowsOf, Whole
  <2>3. \A c \in Chains : RowsOf(records[c], accepted[c]) /\ Whole(records[c], accepted[c])
    BY <2>1, <2>2
  <2> QED
    BY <2>3, AuditAssumption DEF AuditInit, ChainInv
<1>2. VerifierInv
  BY DEF AuditInit, VerifierInv, Idle
<1>3. WritersInv
  BY DEF AuditInit, WritersInv, Idle
<1> QED
  BY <1>1, <1>2, <1>3 DEF AuditInv

(* What the verifier holds stays true while chains and storage grow. *)
LEMMA VerifierStays ==
    ASSUME AuditInv, UNCHANGED <<verifying, verdict>>,
           checkpoints' \in Seq(Payloads), Len(checkpoints) <= Len(checkpoints'),
           \A i \in 1 .. Len(checkpoints) : checkpoints'[i] = checkpoints[i],
           \A v : Listing(v) => Listing(v)'
    PROVE  VerifierInv'
<1>1. Len(checkpoints) \in Nat /\ Len(checkpoints') \in Nat
  BY LenProperties DEF AuditInv, VerifierInv
<1>2. 1 .. Len(checkpoints) \subseteq 1 .. Len(checkpoints')
  BY <1>1
<1>3. verifying' = verifying /\ verdict' = verdict
  OBVIOUS
<1>4. verifying.pc \in {"latest", "compare"} => Listing(verifying)'
  BY DEF AuditInv, VerifierInv
<1>5. ASSUME verdict.ok, verdict.reason # "none"
      PROVE  /\ Listing(verdict)'
             /\ verdict.reason = "as_checkpointed" =>
                  \E i \in 1 .. Len(checkpoints') :
                     /\ checkpoints'[i].chain = verdict.chain
                     /\ checkpoints'[i].count = Len(verdict.listed)
  BY <1>2, <1>5 DEF AuditInv, VerifierInv
<1>6. verifying.pc = "compare" => verifying.seq \in 1 .. Len(checkpoints')
  BY <1>2 DEF AuditInv, VerifierInv
<1> QED
  BY <1>3, <1>4, <1>5, <1>6 DEF VerifierInv, Listing


(* A step that is none of a chain's. *)
LEMMA ChainsStay ==
    ASSUME ChainInv, UNCHANGED chainVars, left' \in [appends : [Chains -> Nat], checkpoints : Nat]
    PROVE  ChainInv' /\ \A v : Listing(v) => Listing(v)'
BY DEF ChainInv, chainVars, Listing

(* Asking for an append changes no chain. *)
LEMMA AskToAppendKeeps ==
    ASSUME AuditInv, NEW c \in Chains, AskToAppend(c)
    PROVE  ChainInv' /\ UNCHANGED accepted
<1>1. /\ UNCHANGED <<rejected, records, tails, accepted, faults>>
      /\ left.appends[c] > 0 /\ left' = [left EXCEPT !.appends[c] = @ - 1]
  BY DEF AskToAppend
<1>2. PICK n \in Nat : n = left.appends[c]
  BY DEF AuditInv, ChainInv
<1>3. n \in Nat \ {Altered} /\ n - 1 \in Nat
  BY <1>1, <1>2 DEF Altered
<1>4. left' \in [appends : [Chains -> Nat], checkpoints : Nat]
  <2>1. PICK a \in [Chains -> Nat], k \in Nat : left = [appends |-> a, checkpoints |-> k]
    BY DEF AuditInv, ChainInv
  <2>2. left' = [appends |-> [a EXCEPT ![c] = n - 1], checkpoints |-> k]
    BY <1>1, <1>2, <2>1
  <2> QED
    BY <1>3, <2>1, <2>2
<1>5. CASE UNCHANGED pending
  BY <1>1, <1>4, <1>5 DEF AuditInv, ChainInv
<1>6. CASE \E hashable \in BOOLEAN :
         pending' = [pending EXCEPT ![c] =
             Append(@, [body |-> left.appends[c], hashable |-> hashable, tail |-> tails[c]])]
  <2>1. PICK hashable \in BOOLEAN :
           pending' = [pending EXCEPT ![c] =
               Append(@, [body |-> left.appends[c], hashable |-> hashable, tail |-> tails[c]])]
    BY <1>6
  <2>2. PICK e : e = [body |-> n, hashable |-> hashable, tail |-> tails[c]]
    OBVIOUS
  <2>3. e \in PendingAppend
    BY <1>3, <2>2 DEF PendingAppend, AuditInv, ChainInv
  <2>4. pending' = [pending EXCEPT ![c] = Append(pending[c], e)]
    BY <1>2, <2>1, <2>2
  <2>5. pending' \in [Chains -> Seq(PendingAppend)]
    <3>1. pending[c] \in Seq(PendingAppend) /\ pending \in [Chains -> Seq(PendingAppend)]
      BY DEF AuditInv, ChainInv
    <3>2. Append(pending[c], e) \in Seq(PendingAppend)
      BY <2>3, <3>1, AppendProperties
    <3> QED
      BY <2>4, <3>1, <3>2
  <2> QED
    BY <1>1, <1>4, <2>5 DEF AuditInv, ChainInv
<1>7. UNCHANGED pending \/ \E hashable \in BOOLEAN :
         pending' = [pending EXCEPT ![c] =
             Append(@, [body |-> left.appends[c], hashable |-> hashable, tail |-> tails[c]])]
  BY DEF AskToAppend
<1> QED
  BY <1>5, <1>6, <1>7

(* Dropping a rejected queue changes no chain. *)
LEMMA CleanUpKeeps ==
    ASSUME AuditInv, NEW c \in Chains, CleanUp(c)
    PROVE  ChainInv' /\ UNCHANGED accepted
BY DEF CleanUp, AuditInv, ChainInv

(* The turn of an append adds its record, or its caller is told otherwise. *)
LEMMA TakeTurnKeeps ==
    ASSUME AuditInv, NEW c \in Chains, TakeTurn(c)
    PROVE  ChainInv' /\ \A v : Listing(v) => Listing(v)'
<1>1. PICK append : append = Head(pending[c])
  OBVIOUS
<1>2. /\ append \in PendingAppend /\ Tail(pending[c]) \in Seq(PendingAppend)
      /\ pending \in [Chains -> Seq(PendingAppend)]
  <2>1. pending[c] \in Seq(PendingAppend) /\ pending[c] # <<>>
    BY DEF AuditInv, ChainInv, TakeTurn
  <2> QED
    BY <1>1, <2>1, HeadTailProperties DEF AuditInv, ChainInv
<1>3. UNCHANGED <<left, faults>>
  BY DEF TakeTurn
<1>4. CASE append.hashable
  <2>1. PICK A, R : A \in Seq(Nat \ {Altered}) /\ A = accepted[c] /\ R = records[c] /\ tails[c] = A
    BY DEF AuditInv, ChainInv
  <2>2. PICK x \in Nat \ {Altered} : x = append.body
    BY <1>2 DEF PendingAppend
  <2>3. PICK record : record = [previous |-> A, body |-> x, hash |-> RecordHash(A, x)]
    OBVIOUS
  <2>4. PICK R2, A2 : R2 = Append(R, record) /\ A2 = Append(A, x)
    OBVIOUS
  <2>5. /\ records' = [records EXCEPT ![c] = R2] /\ accepted' = [accepted EXCEPT ![c] = A2]
        /\ tails' = [tails EXCEPT ![c] = record.hash]
        /\ pending' = [pending EXCEPT ![c] = Tail(pending[c])] /\ UNCHANGED rejected
    BY <1>1, <1>4, <2>1, <2>2, <2>3, <2>4 DEF TakeTurn, PreviousHash
  <2>6. RowsOf(R, A)
    BY <2>1 DEF AuditInv, ChainInv
  <2>7. /\ RowsOf(R2, A2) /\ A2 \in Seq(Nat \ {Altered}) /\ record.hash = A2
        /\ Whole(R, A) => Whole(R2, A2)
    <3>1. Accepts(A, x, R, record, R2, A2)
      BY <2>3, <2>4 DEF Accepts
    <3>2. A \in Seq(Nat \ {Altered}) /\ x \in Nat \ {Altered}
      BY <2>1, <2>2
    <3> QED
      BY <2>6, <3>1, <3>2, RecordsGrow
  <2>8. /\ accepted \in [Chains -> Seq(Nat \ {Altered})] /\ tails = accepted
        /\ records \in [Chains -> Seq(Record)] /\ R2 \in Seq(Record)
    BY <2>7 DEF AuditInv, ChainInv, RowsOf
  <2>9. /\ accepted' \in [Chains -> Seq(Nat \ {Altered})] /\ tails' = accepted'
        /\ records' \in [Chains -> Seq(Record)] /\ pending' \in [Chains -> Seq(PendingAppend)]
        /\ accepted'[c] = A2 /\ records'[c] = R2
        /\ \A d \in Chains \ {c} : accepted'[d] = accepted[d] /\ records'[d] = records[d]
        /\ rejected' = rejected
    BY <1>2, <2>5, <2>7, <2>8
  <2>10. ASSUME NEW d \in Chains PROVE RowsOf(records'[d], accepted'[d])
    BY <2>7, <2>9 DEF AuditInv, ChainInv
  <2>11. ASSUME faults = 0, NEW d \in Chains PROVE Whole(records'[d], accepted'[d])
    BY <2>1, <2>7, <2>9, <2>11 DEF AuditInv, ChainInv
  <2>12. ChainInv'
    BY <1>3, <2>9, <2>10, <2>11 DEF AuditInv, ChainInv
  <2>13. ASSUME NEW v, Listing(v) PROVE Listing(v)'
    <3>1. CASE v.chain = c
      <4>1. PICK L \in Seq(Record) : L = v.listed
        BY <2>13 DEF Listing
      <4>2. Vouched(L, A)
        BY <2>1, <2>13, <3>1, <4>1 DEF Listing
      <4>3. A \in Seq(Nat \ {Altered}) /\ x \in Nat \ {Altered}
        BY <2>1, <2>2
      <4>4. Vouched(L, Append(A, x))
        BY <4>2, <4>3, VouchedStays
      <4>5. Vouched(L, A2)
        BY <2>4, <4>4
      <4> QED
        BY <2>9, <2>13, <3>1, <4>1, <4>5 DEF Listing
    <3>2. CASE v.chain # c
      BY <2>9, <2>13, <3>2 DEF Listing
    <3> QED
      BY <3>1, <3>2
  <2> QED
    BY <2>12, <2>13
<1>5. CASE ~append.hashable
  <2>1. /\ pending' = [pending EXCEPT ![c] = <<>>] /\ rejected' = [rejected EXCEPT ![c] = TRUE]
        /\ UNCHANGED <<records, tails, accepted>>
    BY <1>1, <1>5 DEF TakeTurn
  <2>2. pending' \in [Chains -> Seq(PendingAppend)] /\ rejected' \in [Chains -> BOOLEAN]
    BY <1>2, <2>1 DEF AuditInv, ChainInv
  <2> QED
    BY <1>3, <2>1, <2>2 DEF AuditInv, ChainInv, Listing
<1> QED
  BY <1>4, <1>5

(* A row that is altered or lost is still one of those that were written. *)
LEMMA RowFailsKeeps ==
    ASSUME AuditInv, NEW c \in Chains, RowFails(c)
    PROVE  ChainInv' /\ UNCHANGED accepted
<1>1. faults' = faults + 1 /\ faults' \in Nat /\ faults' # 0 /\ UNCHANGED <<pending, rejected, tails, accepted, left>>
  BY DEF RowFails, AuditInv, ChainInv
<1>2. PICK A, R : A \in Seq(Nat \ {Altered}) /\ A = accepted[c] /\ R = records[c]
  BY DEF AuditInv, ChainInv
<1>3. RowsOf(R, A) /\ R # <<>> /\ records \in [Chains -> Seq(Record)]
  BY <1>2 DEF AuditInv, ChainInv, RowFails
<1>4. PICK R2 : records' = [records EXCEPT ![c] = R2] /\ RowsOf(R2, A)
  <2>1. \/ \E i \in DOMAIN R : records' = [records EXCEPT ![c][i].body = Altered]
        \/ records' = [records EXCEPT ![c] = SubSeq(R, 1, Len(R) - 1)]
    BY <1>2 DEF RowFails
  <2>2. ASSUME NEW i \in DOMAIN R, records' = [records EXCEPT ![c][i].body = Altered]
        PROVE  records' = [records EXCEPT ![c] = [R EXCEPT ![i].body = Altered]]
    BY <1>2, <1>3, <2>2
  <2>3. A \in Seq(Nat \ {Altered})
    BY <1>2
  <2>4. /\ \A i \in DOMAIN R : RowsOf([R EXCEPT ![i].body = Altered], A)
        /\ RowsOf(SubSeq(R, 1, Len(R) - 1), A)
    BY <1>3, <2>3, RowsFail
  <2>5. ASSUME NEW i \in DOMAIN R, records' = [records EXCEPT ![c][i].body = Altered]
        PROVE  \E R2 : records' = [records EXCEPT ![c] = R2] /\ RowsOf(R2, A)
    BY <2>2, <2>4, <2>5
  <2>6. ASSUME records' = [records EXCEPT ![c] = SubSeq(R, 1, Len(R) - 1)]
        PROVE  \E R2 : records' = [records EXCEPT ![c] = R2] /\ RowsOf(R2, A)
    BY <2>4, <2>6
  <2> QED
    BY <2>1, <2>5, <2>6
<1>5. /\ R2 \in Seq(Record) /\ records' \in [Chains -> Seq(Record)] /\ records'[c] = R2
      /\ \A d \in Chains \ {c} : records'[d] = records[d]
  BY <1>3, <1>4 DEF RowsOf
<1>6. \A d \in Chains : RowsOf(records'[d], accepted[d])
  BY <1>2, <1>4, <1>5 DEF AuditInv, ChainInv
<1> QED
  BY <1>1, <1>5, <1>6 DEF AuditInv, ChainInv


(* Checkpoints are added behind those there are. *)
LEMMA WritersKeep ==
    ASSUME AuditInv, NEW w \in CheckpointWriters,
           (\E c \in Chains : ListForCheckpoint(w, c)) \/ ReadLatestNumber(w) \/ WriteCheckpoint(w)
    PROVE  AuditInv'
<1>1. \A k : /\ checkpoints \in Seq(Payloads) /\ Len(checkpoints) \in Nat
             /\ WritersInv /\ ChainInv
  BY LenProperties DEF AuditInv, VerifierInv
<1>2. ASSUME UNCHANGED checkpoints PROVE
         /\ checkpoints' \in Seq(Payloads) /\ Len(checkpoints) <= Len(checkpoints')
         /\ \A i \in 1 .. Len(checkpoints) : checkpoints'[i] = checkpoints[i]
  BY <1>1, <1>2
<1>3. ASSUME NEW c \in Chains, ListForCheckpoint(w, c) PROVE AuditInv'
  <2>1. PICK payload : payload = [chain |-> c, head |-> LastHash(records[c]), count |-> Len(records[c])]
    OBVIOUS
  <2>2. /\ left' = [left EXCEPT !.checkpoints = @ - 1] /\ left.checkpoints > 0
        /\ checkpointing' = [checkpointing EXCEPT ![w] = [pc |-> "latest", payload |-> payload]]
        /\ UNCHANGED <<checkpoints, chainVars, verifierVars>>
    BY <1>3, <2>1 DEF ListForCheckpoint
  <2>3. payload \in Payloads
    <3>1. PICK R : R = records[c] /\ R \in Seq(Record)
      BY <1>1 DEF ChainInv
    <3>2. Len(R) \in Nat /\ R \in [1 .. Len(R) -> Record] /\ (R # <<>> => Len(R) \in 1 .. Len(R))
      BY <3>1, LenProperties, EmptySeq
    <3>3. LastHash(R) \in Seq(Nat)
      BY <3>2 DEF LastHash, Record
    <3> QED
      BY <2>1, <3>1, <3>2, <3>3 DEF Payloads
  <2>4. left' \in [appends : [Chains -> Nat], checkpoints : Nat]
    <3>1. PICK a \in [Chains -> Nat], k \in Nat : left = [appends |-> a, checkpoints |-> k]
      BY <1>1 DEF ChainInv
    <3>2. k - 1 \in Nat /\ left' = [appends |-> a, checkpoints |-> k - 1]
      BY <2>2, <3>1
    <3> QED
      BY <3>2
  <2>5. ChainInv' /\ \A v : Listing(v) => Listing(v)'
    BY <1>1, <2>2, <2>4, ChainsStay
  <2>6. VerifierInv'
    BY <1>2, <2>2, <2>5, VerifierStays DEF verifierVars
  <2>7. WritersInv'
    BY <1>1, <2>2, <2>3 DEF WritersInv
  <2> QED
    BY <2>5, <2>6, <2>7 DEF AuditInv
<1>4. CASE ReadLatestNumber(w)
  <2>1. /\ checkpointing' = [checkpointing EXCEPT ![w] =
             [pc |-> "write", payload |-> checkpointing[w].payload, seq |-> Len(checkpoints) + 1]]
        /\ checkpointing[w].pc = "latest" /\ UNCHANGED <<checkpoints, left, chainVars, verifierVars>>
    BY <1>4 DEF ReadLatestNumber
  <2>2. WritersInv'
    BY <1>1, <2>1 DEF WritersInv
  <2>3. ChainInv' /\ \A v : Listing(v) => Listing(v)'
    BY <1>1, <2>1, ChainsStay DEF ChainInv
  <2>4. VerifierInv'
    BY <1>2, <2>1, <2>3, VerifierStays DEF verifierVars
  <2> QED
    BY <2>2, <2>3, <2>4 DEF AuditInv
<1>5. CASE WriteCheckpoint(w)
  <2>1. PICK payload : payload = checkpointing[w].payload
    OBVIOUS
  <2>2. /\ payload \in Payloads /\ checkpointing' = [checkpointing EXCEPT ![w] = Idle]
        /\ checkpoints' = checkpoints \/ checkpoints' = Append(checkpoints, payload)
        /\ UNCHANGED <<left, chainVars, verifierVars>>
    BY <1>1, <1>5, <2>1 DEF WriteCheckpoint, WritersInv
  <2>3. WritersInv'
    BY <1>1, <2>2 DEF WritersInv, Idle
  <2>4. ChainInv' /\ \A v : Listing(v) => Listing(v)'
    BY <1>1, <2>2, ChainsStay DEF ChainInv
  <2>5. /\ checkpoints' \in Seq(Payloads) /\ Len(checkpoints) <= Len(checkpoints')
        /\ \A i \in 1 .. Len(checkpoints) : checkpoints'[i] = checkpoints[i]
    <3>1. CASE checkpoints' = checkpoints
      BY <1>2, <3>1
    <3>2. CASE checkpoints' = Append(checkpoints, payload)
      BY <1>1, <2>2, <3>2, AppendProperties
    <3> QED
      BY <2>2, <3>1, <3>2
  <2>6. VerifierInv'
    BY <2>2, <2>4, <2>5, VerifierStays DEF verifierVars
  <2> QED
    BY <2>3, <2>4, <2>6 DEF AuditInv
<1> QED
  BY <1>3, <1>4, <1>5

(* What the verifier listed and found intact is vouched for from then on. *)
LEMMA VerifierKeeps ==
    ASSUME AuditInv, (\E c \in Chains : ListForVerifier(c)) \/ ReadLatestForVerifier \/ CompareWithCheckpoint
    PROVE  AuditInv'
<1>1. ChainInv /\ VerifierInv /\ WritersInv
  BY DEF AuditInv
<1>2. UNCHANGED <<left, chainVars, writerVars>>
  BY DEF ListForVerifier, ReadLatestForVerifier, CompareWithCheckpoint
<1>3. ChainInv' /\ \A v : Listing(v) => Listing(v)'
  BY <1>1, <1>2, ChainsStay DEF ChainInv
<1>4. WritersInv' /\ UNCHANGED checkpoints /\ checkpoints \in Seq(Payloads)
  BY <1>1, <1>2 DEF WritersInv, writerVars, VerifierInv
<1>5. ASSUME NEW c \in Chains, ListForVerifier(c) PROVE VerifierInv'
  <2>1. PICK A \in Seq(Nat \ {Altered}), L \in Seq(Record) : L = records[c] /\ A = accepted[c]
    BY <1>1 DEF ChainInv
  <2>2. RowsOf(L, A) /\ L \in Seq(Record)
    BY <1>1, <2>1 DEF ChainInv, RowsOf
  <2>3. accepted' = accepted
    BY <1>2 DEF chainVars
  <2>4. CASE L # <<>> /\ Intact(L)
    <3>1. verifying' = [pc |-> "latest", listed |-> L, chain |-> c] /\ UNCHANGED verdict
      BY <1>5, <2>1, <2>4 DEF ListForVerifier
    <3>2. Vouched(L, A)
      BY <2>2, <2>4, IntactIsVouched
    <3>3. Listing(verifying)'
      BY <2>1, <2>2, <2>3, <3>1, <3>2 DEF Listing
    <3> QED
      BY <1>1, <1>3, <1>4, <3>1, <3>3 DEF VerifierInv, Listing
  <2>5. CASE L = <<>>
    <3>1. verdict' = [ok |-> TRUE, reason |-> "no-records", listed |-> L, chain |-> c] /\ UNCHANGED verifying
      BY <1>5, <2>1, <2>5 DEF ListForVerifier, Verdict
    <3>2. Vouched(L, A)
      BY <2>1, <2>5, LenProperties DEF Vouched
    <3>3. Listing(verdict)'
      BY <2>1, <2>2, <2>3, <3>1, <3>2 DEF Listing
    <3> QED
      BY <1>1, <1>3, <1>4, <3>1, <3>3 DEF VerifierInv, Listing
  <2>6. CASE L # <<>> /\ ~Intact(L)
    <3>1. verdict' = [ok |-> FALSE, reason |-> "broken", listed |-> L, chain |-> c] /\ UNCHANGED verifying
      BY <1>5, <2>1, <2>6 DEF ListForVerifier, Verdict
    <3> QED
      BY <1>1, <1>3, <1>4, <3>1 DEF VerifierInv, Listing
  <2> QED
    BY <2>4, <2>5, <2>6
<1>6. ASSUME ReadLatestForVerifier PROVE VerifierInv'
  <2>1. PICK L, c : L = verifying.listed /\ c = verifying.chain
    OBVIOUS
  <2>2. Listing(verifying) /\ verifying.pc = "latest" /\ accepted' = accepted
    BY <1>1, <1>2, <1>6 DEF ReadLatestForVerifier, VerifierInv, chainVars
  <2>3. CASE checkpoints = <<>>
    <3>1. verdict' = [ok |-> TRUE, reason |-> "no-checkpoint", listed |-> L, chain |-> c] /\ verifying' = Idle
      BY <1>6, <2>1, <2>3 DEF ReadLatestForVerifier, Verdict
    <3> QED
      BY <1>1, <1>4, <2>1, <2>2, <3>1 DEF VerifierInv, Listing, Idle
  <2>4. CASE checkpoints # <<>>
    <3>1. /\ verifying' = [pc |-> "compare", listed |-> L, chain |-> c, seq |-> Len(checkpoints)]
          /\ UNCHANGED verdict
      BY <1>6, <2>1, <2>4 DEF ReadLatestForVerifier
    <3>2. Len(checkpoints) \in 1 .. Len(checkpoints)
      BY <1>4, <2>4, EmptySeq, LenProperties
    <3> QED
      BY <1>1, <1>3, <1>4, <2>1, <2>2, <3>1, <3>2 DEF VerifierInv, Listing
  <2> QED
    BY <2>3, <2>4
<1>7. ASSUME CompareWithCheckpoint PROVE VerifierInv'
  <2>1. PICK L, c, n : L = verifying.listed /\ c = verifying.chain /\ n = verifying.seq
    OBVIOUS
  <2>2. Listing(verifying) /\ n \in 1 .. Len(checkpoints) /\ accepted' = accepted /\ verifying' = Idle
    BY <1>1, <1>2, <1>7, <2>1 DEF CompareWithCheckpoint, VerifierInv, chainVars
  <2>3. CASE checkpoints[n].chain = c /\ CompareHeads(checkpoints[n], L)
    <3>1. verdict' = [ok |-> TRUE, reason |-> "as_checkpointed", listed |-> L, chain |-> c]
      BY <1>7, <2>1, <2>3 DEF CompareWithCheckpoint, Verdict
    <3> QED
      BY <1>1, <1>4, <2>1, <2>2, <2>3, <3>1 DEF VerifierInv, Listing, Idle, CompareHeads
  <2>4. CASE ~(checkpoints[n].chain = c /\ CompareHeads(checkpoints[n], L))
    <3>1. verdict' = [ok |-> FALSE, reason |-> "mismatch", listed |-> L, chain |-> c]
      BY <1>7, <2>1, <2>4 DEF CompareWithCheckpoint, Verdict
    <3> QED
      BY <1>4, <2>2, <3>1 DEF VerifierInv, Idle
  <2> QED
    BY <2>3, <2>4
<1> QED
  BY <1>3, <1>4, <1>5, <1>6, <1>7 DEF AuditInv

(* Every step of appends, faults, checkpoints and verifiers keeps the       *)
(* invariant.                                                               *)
LEMMA AuditNextInv ==
    AuditInv /\ [AuditNext]_auditVars => AuditInv'
<1> SUFFICES ASSUME AuditInv, [AuditNext]_auditVars PROVE AuditInv'
  OBVIOUS
<1>0. checkpoints \in Seq(Payloads) /\ Len(checkpoints) \in Nat /\ ChainInv /\ WritersInv
  BY LenProperties DEF AuditInv, VerifierInv
<1>1. ASSUME ChainInv', \A v : Listing(v) => Listing(v)', UNCHANGED <<verifierVars, writerVars>>
      PROVE  AuditInv'
  <2>1. UNCHANGED <<verifying, verdict, checkpoints, checkpointing>>
    BY <1>1 DEF verifierVars, writerVars
  <2>2. VerifierInv'
    BY <1>0, <1>1, <2>1, VerifierStays
  <2>3. WritersInv'
    BY <1>0, <2>1 DEF WritersInv
  <2> QED
    BY <1>1, <2>2, <2>3 DEF AuditInv
<1>2. ASSUME NEW c \in Chains, AskToAppend(c) PROVE AuditInv'
  <2>1. ChainInv' /\ UNCHANGED accepted /\ UNCHANGED <<verifierVars, writerVars>>
    BY <1>2, AskToAppendKeeps DEF AskToAppend
  <2> QED
    BY <1>1, <2>1 DEF Listing
<1>3. ASSUME NEW c \in Chains, RowFails(c) PROVE AuditInv'
  <2>1. ChainInv' /\ UNCHANGED accepted /\ UNCHANGED <<verifierVars, writerVars>>
    BY <1>3, RowFailsKeeps DEF RowFails
  <2> QED
    BY <1>1, <2>1 DEF Listing
<1>4. ASSUME NEW c \in Chains, TakeTurn(c) PROVE AuditInv'
  <2>1. UNCHANGED <<verifierVars, writerVars>>
    BY <1>4 DEF TakeTurn
  <2> QED
    BY <1>1, <1>4, <2>1, TakeTurnKeeps
<1>5. ASSUME NEW c \in Chains, CleanUp(c) PROVE AuditInv'
  <2>1. ChainInv' /\ UNCHANGED accepted /\ UNCHANGED <<verifierVars, writerVars>>
    BY <1>5, CleanUpKeeps DEF CleanUp
  <2> QED
    BY <1>1, <2>1 DEF Listing
<1>6. CASE UNCHANGED auditVars
  <2>1. UNCHANGED <<left, chainVars, verifierVars, writerVars>>
    BY <1>6 DEF auditVars, chainVars, verifierVars, writerVars
  <2> QED
    BY <1>0, <1>1, <2>1, ChainsStay DEF ChainInv
<1> QED
  BY <1>2, <1>3, <1>4, <1>5, <1>6, WritersKeep, VerifierKeeps DEF AuditNext

(* chain-service.ts, checkpoint-writer.ts, checkpoint-verifier.ts: for any  *)
(* chains and any number of appends, writers of checkpoints and faults, a   *)
(* chain whose rows did not fail tells what was accepted in its order, and  *)
(* a verdict that agrees with a checkpoint is about the records accepted    *)
(* first, none altered, as many as some checkpoint of its chain counts.     *)
THEOREM ChainsTellTheTruth ==
    AuditSpec => []ChainAndVerdictsAreTrue
BY AuditInitInv, AuditNextInv, AuditInvImplies, PTL DEF AuditSpec

(* Bodies are within the bound from the request to the record. *)
AuditTypeInv ==
    /\ \A c \in Chains :
         /\ \A i \in 1 .. Len(pending[c]) : pending[c][i].body \in Bodies
         /\ \A i \in 1 .. Len(accepted[c]) : accepted[c][i] \in Bodies
         /\ 0 .. left.appends[c] \subseteq Bodies
    /\ faults \in 0 .. MaxFaults /\ verifications \in 0 .. MaxVerifications

(* The invariant of the chains and the bounds on bodies are the types. *)
LEMMA AuditTypesImplied == AuditInv /\ AuditTypeInv => AuditTypeOK
<1> SUFFICES ASSUME AuditInv, AuditTypeInv PROVE AuditTypeOK
  OBVIOUS
<1>1. ASSUME NEW c \in Chains PROVE
         /\ rejected[c] \in BOOLEAN
         /\ \A i \in DOMAIN records[c] : records[c][i].body \in Bodies
         /\ \A i \in DOMAIN accepted[c] : accepted[c][i] \in Bodies
         /\ left.appends[c] \in Bodies
  <2>1. records[c] \in Seq(Record) /\ accepted[c] \in Seq(Nat \ {Altered})
        /\ left.appends[c] \in Nat /\ rejected[c] \in BOOLEAN
    BY DEF AuditInv, ChainInv
  <2>2. ASSUME NEW i \in DOMAIN records[c] PROVE records[c][i].body \in Bodies
    <3>1. i \in 1 .. Len(records[c]) /\ Len(accepted[c]) \in Nat
      BY <2>1, LenProperties
    <3>2. Written(records[c][i], accepted[c])
      BY <3>1 DEF AuditInv, ChainInv, RowsOf
    <3>3. records[c][i].previous \in Seq(Nat) /\ records[c][i].hash \in Seq(Nat)
          /\ Len(records[c][i].hash) \in 1 .. Len(accepted[c])
      <4>1. /\ records[c][i].previous \in Seq(Nat) /\ records[c][i].hash \in Seq(Nat)
            /\ Len(records[c][i].hash) = Len(records[c][i].previous) + 1
            /\ Len(records[c][i].hash) <= Len(accepted[c])
        BY <3>2 DEF Written, HashOf
      <4>2. Len(records[c][i].previous) \in Nat
        BY <4>1, LenProperties
      <4> QED
        BY <4>1, <4>2, <3>1
    <3>4. accepted[c][Len(records[c][i].hash)] \in Bodies
      BY <3>3 DEF AuditTypeInv
    <3>5. Altered \in Bodies
      BY DEF Bodies
    <3> QED
      BY <3>2, <3>4, <3>5 DEF Written
  <2> QED
    BY <2>1, <2>2, LenProperties DEF AuditTypeInv
<1>2. \A n \in DOMAIN checkpoints : checkpoints[n].chain \in Chains
  <2>1. checkpoints \in Seq(Payloads)
    BY DEF AuditInv, VerifierInv
  <2>2. ASSUME NEW n \in DOMAIN checkpoints PROVE checkpoints[n] \in Payloads
    BY <2>1
  <2> QED
    BY <2>2 DEF Payloads
<1> QED
  BY <1>1, <1>2 DEF AuditTypeInv, AuditTypeOK

(* Nothing was asked for, written or verified. *)
LEMMA AuditInitTypes == AuditInit => AuditTypeInv
<1> SUFFICES ASSUME AuditInit PROVE AuditTypeInv
  OBVIOUS
<1>1. ASSUME NEW c \in Chains PROVE 0 .. left.appends[c] \subseteq Bodies
  <2>1. left \in AuditBounds
    BY DEF AuditInit
  <2>2. 0 .. left.appends[c] \subseteq UNION {0 .. left.appends[d] : d \in Chains}
    OBVIOUS
  <2> QED
    BY <2>1, <2>2 DEF Bodies
<1>2. \A c \in Chains : pending[c] = <<>> /\ accepted[c] = <<>>
  BY DEF AuditInit
<1> QED
  BY <1>1, <1>2, AuditAssumption DEF AuditInit, AuditTypeInv

(* Bodies, checkpoints, faults and verifications stay within their bounds. *)
LEMMA AuditNextTypes == AuditInv /\ AuditTypeInv /\ [AuditNext]_auditVars => AuditTypeInv'
<1> SUFFICES ASSUME AuditInv, AuditTypeInv, [AuditNext]_auditVars PROVE AuditTypeInv'
  OBVIOUS
<1> USE DEF AuditTypeInv
<1>0. ASSUME NEW c \in Chains
      PROVE  /\ pending[c] \in Seq(PendingAppend) /\ accepted[c] \in Seq(Nat \ {Altered})
             /\ Len(pending[c]) \in Nat /\ Len(accepted[c]) \in Nat
             /\ left.appends[c] \in Nat
             /\ pending \in [Chains -> Seq(PendingAppend)]
             /\ accepted \in [Chains -> Seq(Nat \ {Altered})]
             /\ left \in [appends : [Chains -> Nat], checkpoints : Nat]
  BY LenProperties DEF AuditInv, ChainInv
<1>1. ASSUME NEW c \in Chains, AskToAppend(c) PROVE AuditTypeInv'
  <2> DEFINE New(hashable) == [body |-> left.appends[c], hashable |-> hashable, tail |-> tails[c]]
  <2>1. \/ UNCHANGED pending
        \/ \E hashable \in BOOLEAN :
              pending' = [pending EXCEPT ![c] = Append(pending[c], New(hashable))]
    BY <1>1 DEF AskToAppend
  <2>2. \A hashable \in BOOLEAN : New(hashable).body \in Bodies
    BY <1>0
  <2> HIDE DEF New
  <2>3. ASSUME NEW hashable \in BOOLEAN,
               pending' = [pending EXCEPT ![c] = Append(pending[c], New(hashable))],
               NEW d \in Chains, NEW i \in 1 .. Len(pending'[d]) PROVE pending'[d][i].body \in Bodies
    <3>1. CASE d = c
      <4>1. pending'[c] = Append(pending[c], New(hashable))
        BY <2>3, <1>0
      <4>2. \A j \in 1 .. Len(pending[c]) : pending[c][j].body \in Bodies
        OBVIOUS
      <4>3. /\ Len(Append(pending[c], New(hashable))) = Len(pending[c]) + 1
            /\ \A j \in 1 .. Len(pending[c]) : Append(pending[c], New(hashable))[j] = pending[c][j]
            /\ Append(pending[c], New(hashable))[Len(pending[c]) + 1] = New(hashable)
        BY <1>0
      <4> QED
        BY <2>3, <3>1, <4>1, <4>2, <4>3, <2>2, <1>0
    <3>2. CASE d # c
      <4>1. pending'[d] = pending[d]
        BY <2>3, <3>2, <1>0
      <4> QED
        BY <2>3, <4>1
    <3> QED
      BY <3>1, <3>2
  <2>4. ASSUME NEW d \in Chains PROVE 0 .. left'.appends[d] \subseteq Bodies
    <3>1. left'.appends = [left.appends EXCEPT ![c] = left.appends[c] - 1]
      BY <1>1, <1>0 DEF AskToAppend
    <3>2. left.appends[c] > 0
      BY <1>1 DEF AskToAppend
    <3>3. left'.appends[d] \in Nat /\ left'.appends[d] <= left.appends[d] /\ left.appends[d] \in Nat
      BY <3>1, <3>2, <1>0
    <3>4. 0 .. left'.appends[d] \subseteq 0 .. left.appends[d]
      BY <3>3
    <3> QED
      BY <3>4
  <2>5. UNCHANGED <<accepted, faults, verifications>>
    BY <1>1 DEF AskToAppend, verifierVars
  <2> QED
    BY <2>1, <2>3, <2>4, <2>5
<1>2. ASSUME NEW c \in Chains, TakeTurn(c) PROVE AuditTypeInv'
  <2>1. UNCHANGED <<left, faults, verifications>>
    BY <1>2 DEF TakeTurn, verifierVars
  <2>2. pending[c] # <<>>
    BY <1>2 DEF TakeTurn
  <2> DEFINE body == Head(pending[c]).body
  <2>3. \/ /\ accepted' = [accepted EXCEPT ![c] = Append(accepted[c], body)]
           /\ pending' = [pending EXCEPT ![c] = Tail(pending[c])]
        \/ /\ pending' = [pending EXCEPT ![c] = <<>>]
           /\ UNCHANGED accepted
    BY <1>2 DEF TakeTurn
  <2>4. body \in Bodies
    BY <2>2, <1>0, HeadTailProperties
  <2> HIDE DEF body
  <2>5. ASSUME NEW d \in Chains, NEW i \in 1 .. Len(pending'[d]) PROVE pending'[d][i].body \in Bodies
    <3>1. CASE d # c
      <4>1. pending'[d] = pending[d]
        BY <2>3, <3>1, <1>0
      <4> QED
        BY <4>1
    <3>2. CASE d = c /\ pending'[c] = <<>>
      BY <3>2
    <3>3. CASE d = c /\ pending'[c] = Tail(pending[c])
      <4>1. /\ Len(Tail(pending[c])) = Len(pending[c]) - 1
            /\ \A j \in 1 .. Len(Tail(pending[c])) : Tail(pending[c])[j] = pending[c][j + 1]
        BY <2>2, <1>0, HeadTailProperties
      <4> QED
        BY <3>3, <4>1, <1>0
    <3> QED
      BY <2>3, <3>1, <3>2, <3>3, <1>0
  <2>6. ASSUME NEW d \in Chains, NEW i \in 1 .. Len(accepted'[d]) PROVE accepted'[d][i] \in Bodies
    <3>1. CASE accepted'[d] = accepted[d]
      BY <3>1
    <3>2. CASE d = c /\ accepted'[c] = Append(accepted[c], body)
      <4>1. /\ Len(Append(accepted[c], body)) = Len(accepted[c]) + 1
            /\ \A j \in 1 .. Len(accepted[c]) : Append(accepted[c], body)[j] = accepted[c][j]
            /\ Append(accepted[c], body)[Len(accepted[c]) + 1] = body
        BY <1>0
      <4>2. \A j \in 1 .. Len(accepted[c]) : accepted[c][j] \in Bodies
        OBVIOUS
      <4> QED
        BY <3>2, <4>1, <4>2, <2>4, <1>0
    <3> QED
      BY <2>3, <3>1, <3>2, <1>0
  <2> QED
    BY <2>1, <2>5, <2>6
<1>3. ASSUME NEW c \in Chains, RowFails(c) PROVE AuditTypeInv'
  BY <1>3, AuditAssumption DEF RowFails, verifierVars
<1>4. ASSUME NEW c \in Chains, ListForVerifier(c) PROVE AuditTypeInv'
  BY <1>4, AuditAssumption DEF ListForVerifier, chainVars
<1>5. ASSUME NEW w \in CheckpointWriters, NEW c \in Chains, ListForCheckpoint(w, c)
      PROVE  AuditTypeInv'
  <2>1. left'.appends = left.appends /\ UNCHANGED <<pending, accepted, faults, verifications>>
    BY <1>5, <1>0 DEF ListForCheckpoint, chainVars, verifierVars
  <2> QED
    BY <2>1
<1>6. CASE UNCHANGED <<pending, accepted, left, faults, verifications>>
  BY <1>6
<1>7. \/ \E c \in Chains : AskToAppend(c) \/ TakeTurn(c) \/ RowFails(c) \/ ListForVerifier(c)
      \/ \E w \in CheckpointWriters : \E c \in Chains : ListForCheckpoint(w, c)
      \/ UNCHANGED <<pending, accepted, left, faults, verifications>>
  BY DEF AuditNext, CleanUp, ReadLatestNumber, WriteCheckpoint, ReadLatestForVerifier,
         CompareWithCheckpoint, chainVars, verifierVars, auditVars
<1> QED
  BY <1>1, <1>2, <1>3, <1>4, <1>5, <1>6, <1>7

(* The states of chains, checkpoints and verdicts have the types they are   *)
(* declared with.                                                           *)
LEMMA AuditTypes == AuditSpec => []AuditTypeOK
<1>1. AuditInit => AuditInv /\ AuditTypeInv
  BY AuditInitInv, AuditInitTypes
<1>2. AuditInv /\ AuditTypeInv /\ [AuditNext]_auditVars => AuditInv' /\ AuditTypeInv'
  BY AuditNextInv, AuditNextTypes
<1>3. AuditInv /\ AuditTypeInv => AuditTypeOK
  BY AuditTypesImplied
<1> QED
  BY <1>1, <1>2, <1>3, PTL DEF AuditSpec

-----------------------------------------------------------------------------
(* The policy cache *)

(* Webhooks between their arrival and their answer. *)
Getting ==
    [pc : {"lookup"}, installation : Named]
    \union [pc : {"load"}, installation : Installations]
    \union [pc : {"set"}, installation : Installations, version : 0 .. MaxPolicyChanges]

(* A lookup that waits is of an installation, and no policy is newer than   *)
(* the changes.                                                             *)
CacheInv ==
    /\ CacheTypeOK
    /\ getter \in [Getters -> {NotGetting} \union Getting]
    /\ \A i \in Installations : policy[i] <= changes

(* Nothing is cached and nobody looks anything up. *)
LEMMA CacheInitInv == CacheInit => CacheInv
BY CacheAssumption DEF CacheInit, CacheInv, CacheTypeOK

(* Every lookup, load, change and tick keeps the invariant. *)
LEMMA CacheNextInv == CacheInv /\ [CacheNext]_cacheVars => CacheInv'
<1> SUFFICES ASSUME CacheInv, [CacheNext]_cacheVars PROVE CacheInv'
  OBVIOUS
<1> USE DEF CacheInv
<1>0. ASSUME NEW g \in Getters, ResolveWebhook(g) PROVE CacheInv'
  <2>1. PICK i \in Named : getter' = [getter EXCEPT ![g] = [pc |-> "lookup", installation |-> i]]
    BY <1>0 DEF ResolveWebhook, Gets, Resolves
  <2>2. [pc |-> "lookup", installation |-> i] \in Getting
    BY DEF Getting
  <2>3. getter' \in [Getters -> {NotGetting} \union Getting]
    BY <2>1, <2>2
  <2> QED
    BY <1>0, <2>3 DEF ResolveWebhook, CacheTypeOK
<1>1. ASSUME NEW g \in Getters, GetPolicy(g) PROVE CacheInv'
  <2>1. getter' \in [Getters -> {NotGetting} \union Getting]
    <3>1. CASE Gets(g, NotGetting)
      BY <3>1 DEF Gets
    <3>2. CASE ~Gets(g, NotGetting)
      <4>1. PICK i \in Installations : getter' = [getter EXCEPT ![g] = [pc |-> "load", installation |-> i]]
        BY <1>1, <3>2 DEF GetPolicy, Gets, CacheTypeOK
      <4>2. [pc |-> "load", installation |-> i] \in Getting
        BY DEF Getting
      <4> QED
        BY <4>1, <4>2
    <3> QED
      BY <3>1, <3>2
  <2>2. UNCHANGED <<policy, registry, cache, changes>>
    BY <1>1 DEF GetPolicy
  <2> QED
    BY <2>1, <2>2 DEF CacheTypeOK
<1>2. ASSUME NEW g \in Getters, LoadPolicy(g) PROVE CacheInv'
  <2>1. getter[g] \in Getting /\ getter[g].installation \in Installations
    BY <1>2 DEF LoadPolicy, NotGetting, Getting
  <2>2. [pc |-> "set", installation |-> getter[g].installation,
         version |-> policy[getter[g].installation]] \in Getting
    BY <2>1 DEF Getting, CacheTypeOK
  <2>3. getter' \in [Getters -> {NotGetting} \union Getting]
    BY <1>2, <2>2 DEF LoadPolicy, Gets
  <2> QED
    BY <1>2, <2>3 DEF LoadPolicy, CacheTypeOK
<1>3. ASSUME NEW g \in Getters, StorePolicy(g) PROVE CacheInv'
  <2>1. getter[g].installation \in Installations /\ getter[g].version \in 0 .. MaxPolicyChanges
    BY <1>3 DEF StorePolicy, NotGetting, Getting
  <2>2. cache' = [j \in DOMAIN cache \union {getter[g].installation} |->
                    IF j = getter[g].installation
                    THEN [version |-> getter[g].version, left |-> TtlTicks] ELSE cache[j]]
    BY <1>3 DEF StorePolicy
  <2>3. [version |-> getter[g].version, left |-> TtlTicks]
           \in [version : 0 .. MaxPolicyChanges, left : 0 .. TtlTicks]
    BY <2>1, CacheAssumption
  <2>4. /\ DOMAIN cache' \subseteq Installations
        /\ \A i \in DOMAIN cache' :
              cache'[i] \in [version : 0 .. MaxPolicyChanges, left : 0 .. TtlTicks]
    BY <2>1, <2>2, <2>3 DEF CacheTypeOK
  <2>5. getter' \in [Getters -> {NotGetting} \union Getting]
    BY <1>3 DEF StorePolicy, Gets
  <2> QED
    BY <1>3, <2>4, <2>5 DEF StorePolicy, CacheTypeOK
<1>4. ASSUME NEW g \in Getters, LoadThrows(g) PROVE CacheInv'
  BY <1>4 DEF LoadThrows, Gets, CacheTypeOK
<1>5. ASSUME NEW i \in Installations, ChangePolicy(i) PROVE CacheInv'
  <2>1. changes' = changes + 1 /\ changes' \in 0 .. MaxPolicyChanges
        /\ policy' = [policy EXCEPT ![i] = policy[i] + 1]
    BY <1>5, CacheAssumption DEF ChangePolicy, CacheTypeOK
  <2>2. policy[i] \in Nat /\ policy[i] <= changes
    BY CacheAssumption DEF CacheTypeOK
  <2>3. policy' \in [Installations -> 0 .. MaxPolicyChanges]
    BY <2>1, <2>2, CacheAssumption DEF CacheTypeOK
  <2>4. \A j \in Installations : policy'[j] <= changes'
    BY <2>1, <2>2, CacheAssumption DEF CacheTypeOK
  <2> QED
    BY <1>5, <2>1, <2>3, <2>4 DEF ChangePolicy, CacheTypeOK
<1>6. ASSUME NEW i \in Installations, Invalidate(i) PROVE CacheInv'
  BY <1>6 DEF Invalidate, CacheTypeOK
<1>7. ASSUME NEW i \in Installations, Register(i) PROVE CacheInv'
  <2>1. changes' = changes + 1 /\ changes' \in 0 .. MaxPolicyChanges
    BY <1>7, CacheAssumption DEF Register, CacheTypeOK
  <2>2. \A j \in Installations : policy[j] <= changes'
    BY <2>1, CacheAssumption DEF CacheTypeOK
  <2>3. registry' \subseteq Installations
    BY <1>7 DEF Register, CacheTypeOK
  <2> QED
    BY <1>7, <2>1, <2>2, <2>3 DEF Register, CacheTypeOK
<1>8. CASE CacheTick
  <2>1. \A x \in 0 .. TtlTicks : (IF x = 0 THEN 0 ELSE x - 1) \in 0 .. TtlTicks
    BY CacheAssumption
  <2>2. cache' = [i \in DOMAIN cache |->
                    [cache[i] EXCEPT !.left = IF cache[i].left = 0 THEN 0 ELSE cache[i].left - 1]]
    BY <1>8 DEF CacheTick
  <2>3. \A i \in DOMAIN cache :
           cache[i] \in [version : 0 .. MaxPolicyChanges, left : 0 .. TtlTicks]
    BY DEF CacheTypeOK
  <2>4. \A i \in DOMAIN cache :
           [cache[i] EXCEPT !.left = IF cache[i].left = 0 THEN 0 ELSE cache[i].left - 1]
              \in [version : 0 .. MaxPolicyChanges, left : 0 .. TtlTicks]
    BY <2>1, <2>3
  <2> QED
    BY <1>8, <2>2, <2>4 DEF CacheTick, CacheTypeOK
<1>9. CASE UNCHANGED cacheVars
  BY <1>9 DEF cacheVars, CacheTypeOK
<1> QED
  BY <1>0, <1>1, <1>2, <1>3, <1>4, <1>5, <1>6, <1>7, <1>8, <1>9 DEF CacheNext, GetterStep

(* The states of cache and registry have the types they are declared with. *)
LEMMA CacheTypes == CacheInit /\ [][CacheNext]_cacheVars => []CacheTypeOK
<1>1. CacheInv => CacheTypeOK
  BY DEF CacheInv
<1> QED
  BY <1>1, CacheInitInv, CacheNextInv, PTL

=============================================================================
