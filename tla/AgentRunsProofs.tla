-------------------------- MODULE AgentRunsProofs --------------------------
(***************************************************************************)
(* The invariants of AgentRuns for any number of ids, callers,             *)
(* dispatchers, attempts and calls.                                        *)
(***************************************************************************)
EXTENDS AgentRuns, SequenceTheorems, WellFoundedInduction, TLAPS

(* The least element chosen for a non-empty set of numbers is in the set. *)
LEMMA MinIsMember ==
    ASSUME NEW S \in SUBSET Nat, S # {}
    PROVE  Min(S) \in S /\ \A y \in S : Min(S) <= y
<1> DEFINE R == {ss \in Nat \X Nat : ss[1] < ss[2]}
<1>1. IsWellFoundedOn(R, Nat)
  BY NatLessThanWellFounded DEF OpToRel
<1>2. PICK x \in S : \A y \in S : <<y, x>> \notin R
  <2> HIDE DEF R
  <2>1. QED
    BY <1>1, WFMin
<1>3. ASSUME NEW y \in S PROVE x <= y
  <2>1. x \in Nat /\ y \in Nat
    OBVIOUS
  <2>2. y < x => <<y, x>> \in R
    BY <2>1
  <2>3. QED
    BY <1>2, <2>1, <2>2
<1>4. QED
  BY <1>3 DEF Min

(* remove() of the queue takes out one occurrence of the id and leaves every *)
(* other id where it can be found.                                          *)
LEMMA RemoveFirstFacts ==
    ASSUME NEW S, NEW q \in Seq(S), NEW e
    PROVE  /\ RemoveFirst(q, e) \in Seq(S)
           /\ \A x : x # e /\ Contains(q, x) => Contains(RemoveFirst(q, e), x)
<1>1. CASE ~ \E i \in 1..Len(q) : q[i] = e
  BY <1>1 DEF RemoveFirst
<1>2. CASE \E i \in 1..Len(q) : q[i] = e
  <2> DEFINE I == {i \in 1..Len(q) : q[i] = e}
             k == Min(I)
             front == SubSeq(q, 1, k - 1)
             rest == SubSeq(q, k + 1, Len(q))
  <2>1. k \in 1..Len(q) /\ q[k] = e
    <3>1. I \in SUBSET Nat /\ I # {}
      BY <1>2
    <3>2. k \in I
      BY <3>1, MinIsMember
    <3>3. QED
      BY <3>2
  <2>2. RemoveFirst(q, e) = front \o rest
    BY <1>2 DEF RemoveFirst, RemoveAt, SelectInSeq
  <2> HIDE DEF k
  <2>3. /\ front \in Seq(S) /\ Len(front) = k - 1
        /\ \A i \in 1..(k - 1) : front[i] = q[i]
    BY <2>1, SubSeqProperties
  <2>4. /\ rest \in Seq(S) /\ Len(rest) = Len(q) - k
        /\ \A i \in 1..(Len(q) - k) : rest[i] = q[k + i]
    <3>1. \A i \in (k + 1)..Len(q) : q[i] \in S
      BY <2>1
    <3>2. k + 1 \in Int /\ Len(q) \in Int
      BY <2>1
    <3>3. /\ rest \in Seq(S)
          /\ Len(rest) = IF k + 1 <= Len(q) THEN Len(q) - (k + 1) + 1 ELSE 0
          /\ \A i \in 1..(Len(q) - (k + 1) + 1) : rest[i] = q[(k + 1) + i - 1]
      BY <3>1, <3>2, SubSeqProperties
    <3>4. QED
      BY <2>1, <3>2, <3>3
  <2> HIDE DEF front, rest
  <2>5. /\ front \o rest \in Seq(S)
        /\ Len(front \o rest) = Len(q) - 1
        /\ \A i \in 1..(Len(q) - 1) :
              (front \o rest)[i] = IF i <= k - 1 THEN q[i] ELSE q[i + 1]
    <3>1. /\ front \o rest \in Seq(S)
          /\ Len(front \o rest) = Len(front) + Len(rest)
          /\ \A i \in 1..(Len(front) + Len(rest)) : (front \o rest)[i] =
                IF i <= Len(front) THEN front[i] ELSE rest[i - Len(front)]
      BY <2>3, <2>4, ConcatProperties
    <3>2. Len(front) + Len(rest) = Len(q) - 1
      BY <2>1, <2>3, <2>4
    <3>3. ASSUME NEW i \in 1..(Len(q) - 1)
          PROVE  (front \o rest)[i] = IF i <= k - 1 THEN q[i] ELSE q[i + 1]
      <4>1. CASE i <= k - 1
        BY <2>1, <2>3, <3>1, <3>2, <4>1
      <4>2. CASE i > k - 1
        <5>1. (front \o rest)[i] = rest[i - (k - 1)] /\ i - (k - 1) \in 1..(Len(q) - k)
          BY <2>1, <2>3, <3>1, <3>2, <4>2
        <5>2. rest[i - (k - 1)] = q[k + (i - (k - 1))] /\ k + (i - (k - 1)) = i + 1
          BY <2>1, <2>4, <5>1
        <5>3. QED
          BY <2>1, <4>2, <5>1, <5>2
      <4>3. i <= k - 1 \/ i > k - 1
        BY <2>1
      <4>4. QED
        BY <4>1, <4>2, <4>3
    <3>4. QED
      BY <3>1, <3>2, <3>3
  <2> DEFINE joined == front \o rest
  <2> HIDE DEF joined
  <2>j. /\ Len(joined) = Len(q) - 1
        /\ \A i \in 1..(Len(q) - 1) :
              joined[i] = IF i <= k - 1 THEN q[i] ELSE q[i + 1]
    BY <2>5 DEF joined
  <2>6. ASSUME NEW x, x # e, Contains(q, x)
        PROVE  Contains(joined, x)
    <3>1. PICK j \in 1..Len(q) : q[j] = x
      BY <2>6 DEF Contains
    <3>2. CASE j < k
      <4>1. j \in 1..(Len(q) - 1) /\ joined[j] = x
        BY <2>1, <2>j, <3>1, <3>2
      <4>2. QED
        BY <2>j, <4>1 DEF Contains
    <3>3. CASE j > k
      <4>1. j - 1 \in 1..(Len(q) - 1) /\ joined[j - 1] = x
        BY <2>1, <2>j, <3>1, <3>3
      <4>2. QED
        BY <2>j, <4>1 DEF Contains
    <3>4. QED
      BY <2>1, <2>6, <3>1, <3>2, <3>3
  <2>7. QED
    BY <2>2, <2>5, <2>6 DEF joined
<1>3. QED
  BY <1>1, <1>2

-----------------------------------------------------------------------------

(* What a call loaded is within bounds as well: it may be saved again.      *)
SnapshotsWithinMax ==
    \A c \in Clients :
        doing[c].pc = "loaded" => doing[c].seen.attempt <= MaxAttempts

Safe ==
    /\ AttemptWithinMax
    /\ SnapshotsWithinMax
    /\ NoRunStranded
    /\ StoredStateIsLogged

IInv == AgentTypeOK /\ Safe

Ops == {"create", "start", "complete", "retry", "fail", "cancel"}

(* What a call's control point says about the rest of it. *)
LEMMA CallFacts ==
    ASSUME AgentTypeOK, NEW c \in Clients
    PROVE  /\ doing[c].pc = "idle" => doing[c] = Idle
           /\ doing[c].pc = "dequeued" => doing[c].id \in Ids
           /\ doing[c].pc = "loaded" =>
                 /\ doing[c].op \in {"start", "complete", "fail", "cancel"}
                 /\ doing[c].id \in Ids
                 /\ doing[c].seen \in AgentRun
           /\ doing[c].pc = "saved" => Entry(c) \in LogRecord
BY DEF AgentTypeOK, AgentCall, Idle, Entry, LogRecord

(* Saving keeps the types and touches one id and one call. *)
LEMMA SaveFacts ==
    ASSUME AgentTypeOK, NEW c \in Clients, NEW id \in Ids, NEW op \in Ops,
           NEW r \in AgentRun, Save(c, id, op, r)
    PROVE  /\ run' \in [Ids -> AgentRun \union {NoRecord}]
           /\ doing' \in [Clients -> AgentCall]
           /\ run'[id] = r
           /\ \A x \in Ids \ {id} : run'[x] = run[x]
           /\ doing'[c] = [pc |-> "saved", op |-> op, id |-> id, attempt |-> r.attempt]
           /\ \A e \in Clients \ {c} : doing'[e] = doing[e]
<1>1. [pc |-> "saved", op |-> op, id |-> id, attempt |-> r.attempt] \in AgentCall
  BY DEF AgentCall, Ops, AgentRun
<1>2. QED
  BY <1>1 DEF Save, AgentTypeOK

(* Every operation that saves does so from a call that is idle (create) or  *)
(* back from its load; a run it leaves waiting is in the queue, and the     *)
(* queue loses no other run.                                                *)
LEMMA SaveKeepsSafe ==
    ASSUME AgentTypeOK, Safe, NEW c \in Clients, NEW id \in Ids, NEW op \in Ops,
           NEW r \in AgentRun, Save(c, id, op, r), UNCHANGED <<log, unrecorded>>,
           \/ doing[c] = Idle
           \/ doing[c].pc = "loaded" /\ doing[c].id = id,
           r.attempt <= MaxAttempts,
           op = ActionOf(r.status),
           r.status \in Startable => Contains(queue', id),
           \A x \in Ids \ {id} : Contains(queue, x) => Contains(queue', x)
    PROVE  Safe'
<1>1. /\ run'[id] = r
      /\ \A x \in Ids \ {id} : run'[x] = run[x]
      /\ doing'[c] = [pc |-> "saved", op |-> op, id |-> id, attempt |-> r.attempt]
      /\ \A e \in Clients \ {c} : doing'[e] = doing[e]
  BY SaveFacts
<1>2. doing[c].pc \in {"idle", "loaded"}
  BY DEF Idle
<1>3. AttemptWithinMax'
  BY <1>1 DEF Safe, AttemptWithinMax, Stored
<1>4. SnapshotsWithinMax'
  BY <1>1 DEF Safe, SnapshotsWithinMax
<1>5. NoRunStranded'
  <2> SUFFICES ASSUME NEW x \in Ids, Waits(x)'
               PROVE  Contains(queue', x) \/ Dispatching(x)'
    BY DEF NoRunStranded
  <2>1. CASE x = id
    BY <1>1, <2>1 DEF Waits
  <2>2. CASE x # id
    <3>1. Waits(x)
      BY <1>1, <2>2 DEF Waits, Stored
    <3>2. CASE Contains(queue, x)
      BY <2>2, <3>2
    <3>3. CASE Dispatching(x)
      <4>1. PICK d \in Dispatchers :
              \/ doing[d].pc = "dequeued" /\ doing[d].id = x
              \/ Resumes(d, "start") /\ doing[d].id = x
        BY <3>3 DEF Dispatching
      <4>2. d # c /\ d \in Clients
        BY <1>2, <2>2, <4>1 DEF Resumes, Clients, Idle
      <4>3. doing'[d] = doing[d]
        BY <1>1, <4>2
      <4>4. QED
        BY <4>1, <4>3 DEF Dispatching, Resumes
    <3>4. QED
      BY <3>1, <3>2, <3>3 DEF Safe, NoRunStranded
  <2>3. QED
    BY <2>1, <2>2
<1>6. StoredStateIsLogged'
  <2> DEFINE E(x) == [action |-> ActionOf(run[x].status), id |-> x,
                      attempt |-> run[x].attempt]
  <2> SUFFICES ASSUME NEW x \in Ids, Stored(x)'
               PROVE  \/ E(x)' \in log' \union unrecorded'
                      \/ \E e \in Clients : doing'[e].pc = "saved" /\ Entry(e)' = E(x)'
    BY DEF StoredStateIsLogged
  <2>1. CASE x = id
    <3>1. E(x)' = [action |-> op, id |-> id, attempt |-> r.attempt]
      BY <1>1, <2>1 DEF ActionOf
    <3>2. doing'[c].pc = "saved" /\ Entry(c)' = [action |-> op, id |-> id,
                                                attempt |-> r.attempt]
      BY <1>1 DEF Entry
    <3>3. QED
      BY <3>1, <3>2
  <2>2. CASE x # id
    <3>1. run'[x] = run[x] /\ Stored(x)
      BY <1>1, <2>2 DEF Stored
    <3>2. E(x)' = E(x)
      BY <3>1 DEF ActionOf
    <3>3. \/ E(x) \in log \union unrecorded
          \/ \E e \in Clients : doing[e].pc = "saved" /\ Entry(e) = E(x)
      BY <3>1 DEF Safe, StoredStateIsLogged
    <3>4. \A e \in Clients : doing[e].pc = "saved" => doing'[e] = doing[e]
      BY <1>1, <1>2
    <3>5. \A e \in Clients : doing[e].pc = "saved" =>
            doing'[e].pc = "saved" /\ Entry(e)' = Entry(e)
      BY <3>4 DEF Entry
    <3>6. QED
      BY <3>2, <3>3, <3>5
  <2>3. QED
    BY <2>1, <2>2
<1>7. QED
  BY <1>3, <1>4, <1>5, <1>6 DEF Safe

(* Enqueueing, as create and retry do: the id can be found, so can others.  *)
LEMMA AppendFacts ==
    ASSUME NEW q \in Seq(Ids), NEW id \in Ids
    PROVE  /\ Append(q, id) \in Seq(Ids)
           /\ Contains(Append(q, id), id)
           /\ \A x : Contains(q, x) => Contains(Append(q, id), x)
<1>1. /\ Append(q, id) \in Seq(Ids)
      /\ Len(Append(q, id)) = Len(q) + 1
      /\ \A i \in 1..Len(q) : Append(q, id)[i] = q[i]
      /\ Append(q, id)[Len(q) + 1] = id
  BY AppendProperties
<1>2. Len(q) \in Nat
  OBVIOUS
<1>3. QED
  BY <1>1, <1>2 DEF Contains

(* A step that saves nothing: the safety of the rest is in the calls.       *)
LEMMA QuietKeepsSafe ==
    ASSUME AgentTypeOK, Safe, UNCHANGED run,
           log \subseteq log', unrecorded \subseteq unrecorded',
           \A c \in Clients : doing'[c].pc = "loaded" =>
               \/ doing'[c] = doing[c]
               \/ \E id \in Ids : doing'[c].seen = run[id] /\ Stored(id),
           \A x \in Ids : Waits(x) /\ (Contains(queue, x) \/ Dispatching(x)) =>
               Contains(queue', x) \/ Dispatching(x)',
           \A c \in Clients : doing[c].pc = "saved" =>
               doing'[c] = doing[c] \/ Entry(c) \in log' \union unrecorded'
    PROVE  Safe'
<1>1. AttemptWithinMax'
  BY DEF Safe, AttemptWithinMax, Stored
<1>2. SnapshotsWithinMax'
  BY DEF Safe, SnapshotsWithinMax, AttemptWithinMax
<1>3. NoRunStranded'
  BY DEF Safe, NoRunStranded, Waits, Stored
<1>4. StoredStateIsLogged'
  <2>1. ASSUME NEW c \in Clients, doing[c].pc = "saved"
        PROVE  \/ Entry(c) \in log' \union unrecorded'
               \/ doing'[c].pc = "saved" /\ Entry(c)' = Entry(c)
    BY <2>1 DEF Entry
  <2> SUFFICES ASSUME NEW x \in Ids, Stored(x)'
               PROVE  LET entry == [action |-> ActionOf(run[x].status), id |-> x,
                                    attempt |-> run[x].attempt]
                      IN  (\/ entry \in log \union unrecorded
                           \/ \E c \in Clients :
                                  doing[c].pc = "saved" /\ Entry(c) = entry)'
    BY DEF StoredStateIsLogged
  <2> DEFINE entry == [action |-> ActionOf(run[x].status), id |-> x,
                       attempt |-> run[x].attempt]
  <2>2. entry' = entry /\ Stored(x)
    BY DEF Stored, ActionOf
  <2>3. \/ entry \in log \union unrecorded
        \/ \E c \in Clients : doing[c].pc = "saved" /\ Entry(c) = entry
    BY <2>2 DEF Safe, StoredStateIsLogged
  <2>4. QED
    BY <2>1, <2>2, <2>3
<1>5. QED
  BY <1>1, <1>2, <1>3, <1>4 DEF Safe

LEMMA CreateStep ==
    ASSUME IInv, NEW c \in Callers, NEW id \in Ids, Create(c, id)
    PROVE  IInv'
<1> DEFINE r == [status |-> "pending", attempt |-> 1]
<1>1. r \in AgentRun /\ r.attempt <= MaxAttempts /\ ActionOf(r.status) = "create"
  BY BoundAssumption DEF AgentRun, Status, ActionOf
<1>2. Save(c, id, "create", r) /\ UNCHANGED <<log, unrecorded>> /\ doing[c] = Idle /\ c \in Clients
  BY DEF Create, Clients
<1>3. queue' \in Seq(Ids) /\ Contains(queue', id)
        /\ \A x : Contains(queue, x) => Contains(queue', x)
  BY AppendFacts DEF IInv, AgentTypeOK, Create
<1> HIDE DEF r
<1>4. Safe'
  BY <1>1, <1>2, <1>3, SaveKeepsSafe DEF IInv, Ops
<1>5. AgentTypeOK'
  <2>1. run' \in [Ids -> AgentRun \union {NoRecord}] /\ doing' \in [Clients -> AgentCall]
    BY <1>1, <1>2, SaveFacts DEF IInv, Ops
  <2>2. calls' \in 0..MaxCalls
    BY BoundAssumption DEF IInv, AgentTypeOK, Create
  <2>3. QED
    BY <1>2, <1>3, <2>1, <2>2 DEF IInv, AgentTypeOK
<1>6. QED
  BY <1>4, <1>5 DEF IInv

LEMMA BeginStep ==
    ASSUME IInv, NEW c \in Callers, NEW id \in Ids,
           NEW op \in {"complete", "fail", "cancel"}, Begin(c, op, id)
    PROVE  IInv'
<1> DEFINE new == [pc |-> "loaded", op |-> op, id |-> id, seen |-> run[id]]
<1>1. /\ doing[c] = Idle /\ c \in Clients /\ c \notin Dispatchers
      /\ run[id] \in AgentRun /\ Stored(id)
      /\ doing' = [doing EXCEPT ![c] = new]
      /\ UNCHANGED <<run, queue, log, unrecorded>>
  BY ClientAssumption DEF IInv, AgentTypeOK, Begin, Clients, Stored
<1>2. new \in AgentCall
  BY <1>1 DEF AgentCall
<1>3. AgentTypeOK'
  <2>1. calls' \in 0..MaxCalls
    BY BoundAssumption DEF IInv, AgentTypeOK, Begin
  <2>2. QED
    BY <1>1, <1>2, <2>1 DEF IInv, AgentTypeOK
<1>4. doing'[c] = new /\ \A e \in Clients \ {c} : doing'[e] = doing[e]
  BY <1>1 DEF IInv, AgentTypeOK
<1>5. ASSUME NEW x \in Ids, Dispatching(x) PROVE Dispatching(x)'
  <2>1. \A d \in Dispatchers : doing'[d] = doing[d]
    BY <1>1, <1>4 DEF Clients
  <2>2. QED
    BY <1>5, <2>1 DEF Dispatching, Resumes
<1>6. \A e \in Clients : doing[e].pc = "saved" => doing'[e] = doing[e]
  BY <1>1, <1>4 DEF Idle
<1>7. Safe'
  BY <1>1, <1>4, <1>5, <1>6, QuietKeepsSafe DEF IInv
<1>8. QED
  BY <1>3, <1>7 DEF IInv

LEMMA DequeueStep ==
    ASSUME IInv, NEW d \in Dispatchers, Dequeue(d)
    PROVE  IInv'
<1> DEFINE new == [pc |-> "dequeued", op |-> "start", id |-> Head(queue)]
<1>1. /\ doing[d] = Idle /\ d \in Clients /\ queue # <<>> /\ queue \in Seq(Ids)
      /\ doing' = [doing EXCEPT ![d] = new] /\ queue' = Tail(queue)
      /\ UNCHANGED <<run, log, calls, unrecorded>>
  BY DEF IInv, AgentTypeOK, Dequeue, Clients
<1>2. /\ Head(queue) \in Ids /\ Tail(queue) \in Seq(Ids)
      /\ Len(queue) \in Nat /\ Len(queue) >= 1
      /\ Len(Tail(queue)) = Len(queue) - 1
      /\ \A i \in 1..(Len(queue) - 1) : Tail(queue)[i] = queue[i + 1]
      /\ Head(queue) = queue[1]
  BY <1>1, HeadTailProperties
<1>3. new \in AgentCall
  BY <1>2 DEF AgentCall
<1>4. AgentTypeOK'
  BY <1>1, <1>2, <1>3 DEF IInv, AgentTypeOK
<1>5. doing'[d] = new /\ \A e \in Clients \ {d} : doing'[e] = doing[e]
  BY <1>1 DEF IInv, AgentTypeOK
<1>6. ASSUME NEW x \in Ids, Contains(queue, x) \/ Dispatching(x)
      PROVE  Contains(queue', x) \/ Dispatching(x)'
  <2>1. CASE x = Head(queue)
    BY <1>5, <2>1 DEF Dispatching
  <2>2. CASE Contains(queue, x) /\ x # Head(queue)
    <3>1. PICK i \in 1..Len(queue) : queue[i] = x
      BY <2>2 DEF Contains
    <3>2. i - 1 \in 1..(Len(queue) - 1) /\ Tail(queue)[i - 1] = x
      BY <1>2, <2>2, <3>1
    <3>3. QED
      BY <1>1, <1>2, <3>2 DEF Contains
  <2>3. CASE Dispatching(x)
    <3>1. PICK e \in Dispatchers :
            \/ doing[e].pc = "dequeued" /\ doing[e].id = x
            \/ Resumes(e, "start") /\ doing[e].id = x
      BY <2>3 DEF Dispatching
    <3>2. e # d /\ e \in Clients
      BY <1>1, <3>1 DEF Resumes, Idle, Clients
    <3>3. QED
      BY <1>5, <3>1, <3>2 DEF Dispatching, Resumes
  <2>4. QED
    BY <1>6, <2>1, <2>2, <2>3
<1>7. \A e \in Clients : doing[e].pc = "saved" => doing'[e] = doing[e]
  BY <1>1, <1>5 DEF Idle
<1>8. \A e \in Clients : doing'[e].pc = "loaded" => doing'[e] = doing[e]
  BY <1>5
<1>9. Safe'
  BY <1>1, <1>6, <1>7, <1>8, QuietKeepsSafe DEF IInv
<1>10. QED
  BY <1>4, <1>9 DEF IInv

LEMMA BeginStartStep ==
    ASSUME IInv, NEW d \in Dispatchers, BeginStart(d)
    PROVE  IInv'
<1> DEFINE id == doing[d].id
           new == [pc |-> "loaded", op |-> "start", id |-> id, seen |-> run[id]]
<1>1. /\ doing[d].pc = "dequeued" /\ d \in Clients /\ id \in Ids
      /\ run[id] \in AgentRun /\ Stored(id)
      /\ doing' = [doing EXCEPT ![d] = new]
      /\ UNCHANGED <<run, queue, log, calls, unrecorded>>
  BY CallFacts DEF IInv, AgentTypeOK, BeginStart, Clients, Stored
<1>2. new \in AgentCall
  BY <1>1 DEF AgentCall
<1>3. AgentTypeOK'
  BY <1>1, <1>2 DEF IInv, AgentTypeOK
<1>4. doing'[d] = new /\ \A e \in Clients \ {d} : doing'[e] = doing[e]
  BY <1>1 DEF IInv, AgentTypeOK
<1>5. ASSUME NEW x \in Ids, Waits(x), Dispatching(x) PROVE Dispatching(x)'
  <2>1. PICK e \in Dispatchers :
          \/ doing[e].pc = "dequeued" /\ doing[e].id = x
          \/ Resumes(e, "start") /\ doing[e].id = x
    BY <1>5 DEF Dispatching
  <2>2. CASE e = d
    <3>1. id = x
      BY <1>1, <2>1, <2>2 DEF Resumes
    <3>2. Resumes(d, "start")' /\ doing'[d].id = x
      BY <1>4, <1>5, <3>1 DEF Resumes, Allowed, Waits
    <3>3. QED
      BY <3>2 DEF Dispatching
  <2>3. CASE e # d
    BY <1>4, <2>1, <2>3 DEF Dispatching, Resumes, Clients
  <2>4. QED
    BY <2>2, <2>3
<1>6. \A e \in Clients : doing[e].pc = "saved" => doing'[e] = doing[e]
  BY <1>1, <1>4
<1>7. \A e \in Clients : doing'[e].pc = "loaded" =>
          doing'[e] = doing[e] \/ \E i \in Ids : doing'[e].seen = run[i] /\ Stored(i)
  BY <1>1, <1>4
<1>8. Safe'
  BY <1>1, <1>5, <1>6, <1>7, QuietKeepsSafe DEF IInv
<1>9. QED
  BY <1>3, <1>8 DEF IInv

(* The record an operation loaded is the one it changes and saves.          *)
LEMMA ResumedFacts ==
    ASSUME IInv, NEW c \in Clients, NEW op, Resumes(c, op)
    PROVE  /\ doing[c].pc = "loaded" /\ doing[c].id \in Ids
           /\ doing[c].seen \in AgentRun /\ doing[c].seen.attempt <= MaxAttempts
BY CallFacts DEF IInv, Safe, SnapshotsWithinMax, Resumes

(* start, complete and the final fail: only the status changes, the queue   *)
(* does not.                                                                *)
LEMMA StatusStep ==
    ASSUME IInv, NEW c \in Clients, Start(c) \/ Complete(c) \/ Fail(c)
    PROVE  IInv'
<1> DEFINE id == doing[c].id
<1>1. PICK op \in {"start", "complete", "fail"}, st \in {"running", "completed", "failed"} :
        /\ Save(c, id, op, [doing[c].seen EXCEPT !.status = st])
        /\ op = ActionOf(st)
        /\ UNCHANGED <<queue, log, calls, unrecorded>>
        /\ doing[c].pc = "loaded" /\ id \in Ids
        /\ doing[c].seen \in AgentRun /\ doing[c].seen.attempt <= MaxAttempts
  BY ResumedFacts DEF Start, Complete, Fail, ActionOf
<1> DEFINE r == [doing[c].seen EXCEPT !.status = st]
<1>2. r \in AgentRun /\ r.status = st /\ r.attempt <= MaxAttempts
  BY <1>1 DEF AgentRun, Status
<1>3. st \notin Startable
  BY DEF Startable
<1>4. op \in Ops /\ op = ActionOf(r.status)
  BY <1>1, <1>2 DEF Ops
<1>5. Save(c, id, op, r)
  BY <1>1
<1> HIDE DEF r, id
<1>6. Safe'
  BY <1>1, <1>2, <1>3, <1>4, <1>5, SaveKeepsSafe DEF IInv, id
<1>7. AgentTypeOK'
  BY <1>1, <1>2, <1>4, <1>5, SaveFacts DEF IInv, AgentTypeOK
<1>8. QED
  BY <1>6, <1>7 DEF IInv

LEMMA RetryStep ==
    ASSUME IInv, NEW c \in Clients, Retry(c)
    PROVE  IInv'
<1> DEFINE id == doing[c].id
           r == [status |-> "retrying", attempt |-> doing[c].seen.attempt + 1]
<1>1. /\ doing[c].pc = "loaded" /\ id \in Ids
      /\ doing[c].seen \in AgentRun /\ CanRetry(doing[c].seen)
      /\ Save(c, id, "retry", r)
      /\ queue' = Append(queue, id)
      /\ UNCHANGED <<log, calls, unrecorded>>
  BY ResumedFacts DEF Retry
<1>2. r \in AgentRun /\ r.attempt <= MaxAttempts /\ ActionOf(r.status) = "retry"
  BY <1>1, BoundAssumption DEF AgentRun, Status, CanRetry, ActionOf
<1>3. queue' \in Seq(Ids) /\ Contains(queue', id)
        /\ \A x : Contains(queue, x) => Contains(queue', x)
  BY <1>1, AppendFacts DEF IInv, AgentTypeOK
<1> HIDE DEF r, id
<1>4. Safe'
  BY <1>1, <1>2, <1>3, SaveKeepsSafe DEF IInv, Ops, id
<1>5. AgentTypeOK'
  BY <1>1, <1>2, <1>3, SaveFacts DEF IInv, AgentTypeOK, Ops
<1>6. QED
  BY <1>4, <1>5 DEF IInv

LEMMA CancelStep ==
    ASSUME IInv, NEW c \in Clients, Cancel(c)
    PROVE  IInv'
<1> DEFINE id == doing[c].id
           r == [doing[c].seen EXCEPT !.status = "cancelled"]
<1>1. /\ doing[c].pc = "loaded" /\ id \in Ids
      /\ doing[c].seen \in AgentRun /\ doing[c].seen.attempt <= MaxAttempts
      /\ Save(c, id, "cancel", r)
      /\ queue' = RemoveFirst(queue, id)
      /\ UNCHANGED <<log, calls, unrecorded>>
  BY ResumedFacts DEF Cancel
<1>2. /\ r \in AgentRun /\ r.attempt <= MaxAttempts
      /\ ActionOf(r.status) = "cancel" /\ r.status \notin Startable
  BY <1>1 DEF AgentRun, Status, ActionOf, Startable
<1>3. queue' \in Seq(Ids)
        /\ \A x \in Ids \ {id} : Contains(queue, x) => Contains(queue', x)
  BY <1>1, RemoveFirstFacts DEF IInv, AgentTypeOK
<1> HIDE DEF r, id
<1>4. Safe'
  BY <1>1, <1>2, <1>3, SaveKeepsSafe DEF IInv, Ops, id
<1>5. AgentTypeOK'
  BY <1>1, <1>2, <1>3, SaveFacts DEF IInv, AgentTypeOK, Ops
<1>6. QED
  BY <1>4, <1>5 DEF IInv

(* A rejected call, and one whose audit record is appended or refused, ends. *)
LEMMA EndStep ==
    ASSUME IInv, NEW c \in Clients, Reject(c) \/ RecordTransition(c) \/ TransitionRefused(c)
    PROVE  IInv'
<1>1. /\ doing' = [doing EXCEPT ![c] = Idle]
      /\ UNCHANGED <<run, queue, calls>>
      /\ log \subseteq log' /\ unrecorded \subseteq unrecorded'
      /\ \/ Reject(c) /\ UNCHANGED <<log, unrecorded>>
         \/ /\ doing[c].pc = "saved"
            /\ log' \union unrecorded' = log \union unrecorded \union {Entry(c)}
  BY DEF Reject, RecordTransition, TransitionRefused
<1>2. doing'[c] = Idle /\ \A e \in Clients \ {c} : doing'[e] = doing[e]
  BY <1>1 DEF IInv, AgentTypeOK
<1>3. AgentTypeOK'
  <2>1. Idle \in AgentCall
    BY DEF AgentCall
  <2>2. log' \subseteq LogRecord /\ unrecorded' \subseteq LogRecord
    BY <1>1, CallFacts DEF IInv, AgentTypeOK
  <2>3. QED
    BY <1>1, <2>1, <2>2 DEF IInv, AgentTypeOK
<1>4. ASSUME NEW x \in Ids, Dispatching(x) PROVE Dispatching(x)'
  <2>1. PICK d \in Dispatchers :
          \/ doing[d].pc = "dequeued" /\ doing[d].id = x
          \/ Resumes(d, "start") /\ doing[d].id = x
    BY <1>4 DEF Dispatching
  <2>2. d # c
    BY <1>1, <2>1 DEF Reject, Resumes
  <2>3. QED
    BY <1>2, <2>1, <2>2 DEF Dispatching, Resumes, Clients
<1>5. \A e \in Clients : doing[e].pc = "saved" =>
          doing'[e] = doing[e] \/ Entry(e) \in log' \union unrecorded'
  BY <1>1, <1>2 DEF Reject
<1>6. \A e \in Clients : doing'[e].pc = "loaded" => doing'[e] = doing[e]
  BY <1>2 DEF Idle
<1>7. Safe'
  BY <1>1, <1>4, <1>5, <1>6, QuietKeepsSafe DEF IInv
<1>8. QED
  BY <1>3, <1>7 DEF IInv

LEMMA Inductive == IInv /\ [AgentNext]_agentVars => IInv'
<1> SUFFICES ASSUME IInv, [AgentNext]_agentVars PROVE IInv'
  OBVIOUS
<1>1. CASE UNCHANGED agentVars
  BY <1>1 DEF agentVars, IInv, AgentTypeOK, Safe, AttemptWithinMax, SnapshotsWithinMax,
              NoRunStranded, StoredStateIsLogged, Stored, Waits, Dispatching,
              Resumes, Entry
<1>2. CASE AgentNext
  BY <1>2, CreateStep, BeginStep, DequeueStep, BeginStartStep, StatusStep,
     RetryStep, CancelStep, EndStep DEF AgentNext, Advance, Finish
<1>3. QED
  BY <1>1, <1>2

LEMMA InitInv == AgentInit => IInv
BY BoundAssumption
DEF AgentInit, IInv, AgentTypeOK, AgentCall, Idle, Safe, AttemptWithinMax, SnapshotsWithinMax,
    NoRunStranded, StoredStateIsLogged, Stored, Waits

LEMMA Invariance == AgentSpec => []IInv
BY InitInv, Inductive, PTL DEF AgentSpec

(* The repository, the queue, the calls and the log hold what they should.  *)
THEOREM TypeCorrect == AgentSpec => []AgentTypeOK
<1>1. IInv => AgentTypeOK
  BY DEF IInv
<1>2. QED
  BY <1>1, Invariance, PTL

(* No overlap of stale loads and saves retries a run past its maximum.      *)
THEOREM AttemptsAreBounded == AgentSpec => []AttemptWithinMax
<1>1. IInv => AttemptWithinMax
  BY DEF IInv, Safe
<1>2. QED
  BY <1>1, Invariance, PTL

(* A run that waits to be started is always queued or being dispatched.     *)
THEOREM WaitingRunsAreHeld == AgentSpec => []NoRunStranded
<1>1. IInv => NoRunStranded
  BY DEF IInv, Safe
<1>2. QED
  BY <1>1, Invariance, PTL

(* The audit log accounts for the state every run is left in.               *)
THEOREM LogAccountsForRuns == AgentSpec => []StoredStateIsLogged
<1>1. IInv => StoredStateIsLogged
  BY DEF IInv, Safe
<1>2. QED
  BY <1>1, Invariance, PTL

=============================================================================
