----------------------------- MODULE AgentRuns -----------------------------
(***************************************************************************)
(* RunnerBroker and AgentRunQueue: agent runs are created, dispatched from *)
(* a FIFO, completed, retried and cancelled.  Every operation loads the    *)
(* record, awaits, then checks its guard against what it loaded and saves  *)
(* the whole record: operations of concurrent callers overlap between the  *)
(* load and the save.  Saving, queueing and the call of the audit log are  *)
(* one synchronous step; the record reaches the audit log in a later one,  *)
(* or never: the append may throw, and the caller's call with it.          *)
(*                                                                         *)
(* The broker does not poll the queue itself.  Dispatchers stand for the   *)
(* dispatcher the queue's comment speaks of: it dequeues an id and calls   *)
(* start().  Callers stand for the runners (complete, fail) and for the    *)
(* orchestrator (create, cancel).                                          *)
(***************************************************************************)
EXTENDS Integers, SequencesExt

CONSTANTS
    Ids,            \* ids the broker's idFactory hands out
    Callers,        \* concurrent tasks that create, complete, fail and cancel
    Dispatchers,    \* concurrent tasks that dequeue and start
    MaxAttempts,    \* maxAttempts of every run
    MaxCalls,       \* bound: operations called altogether, dispatches apart
    MaxRefusals,    \* bound: different records the audit log refuses
    NoRecord        \* no record

ASSUME ClientAssumption == Callers \intersect Dispatchers = {}
ASSUME BoundAssumption == MaxAttempts \in Nat \ {0} /\ MaxCalls \in Nat /\ MaxRefusals \in Nat
ASSUME NoRecordAssumption ==
    NoRecord \notin [status : {"pending", "running", "completed", "failed",
                           "retrying", "cancelled"}, attempt : Nat]

Status == {"pending", "running", "completed", "failed", "retrying", "cancelled"}
Terminal == {"completed", "failed", "cancelled"}
Startable == {"pending", "retrying"}

AgentRun == [status : Status, attempt : Nat \ {0}]

Clients == Callers \union Dispatchers

(* A call: what it does, on which id, how far it is, and what it loaded. *)
Idle == [pc |-> "idle"]

AgentCall ==
    {Idle}
    \union [pc : {"dequeued"}, op : {"start"}, id : Ids]
    \union [pc : {"loaded"}, op : {"start", "complete", "fail", "cancel"},
            id : Ids, seen : AgentRun]
    \union [pc : {"saved"}, op : {"create", "start", "complete", "retry", "fail", "cancel"},
            id : Ids, attempt : Nat \ {0}]

LogRecord ==
    [action : {"create", "start", "complete", "retry", "fail", "cancel"},
     id : Ids, attempt : Nat \ {0}]

VARIABLES
    run,    \* the repository: the stored record of each id
    queue,  \* ids waiting to be dispatched, first in first out
    doing,  \* per client: the operation it is awaiting
    log,    \* agent_run.* audit records
    calls,  \* how many operations callers have called
    unrecorded  \* history: transitions whose record the audit log refused

agentVars == <<run, queue, doing, log, calls, unrecorded>>

AgentTypeOK ==
    /\ run \in [Ids -> AgentRun \union {NoRecord}]
    /\ queue \in Seq(Ids)
    /\ doing \in [Clients -> AgentCall]
    /\ log \subseteq LogRecord /\ unrecorded \subseteq LogRecord
    /\ calls \in 0..MaxCalls

AgentInit ==
    /\ run = [id \in Ids |-> NoRecord]
    /\ queue = <<>>
    /\ doing = [c \in Clients |-> Idle]
    /\ log = {} /\ unrecorded = {}
    /\ calls = 0

-----------------------------------------------------------------------------

(* The stored record becomes r and the call awaits its audit record. *)
Save(c, id, op, r) ==
    /\ run' = [run EXCEPT ![id] = r]
    /\ doing' = [doing EXCEPT
                  ![c] = [pc |-> "saved", op |-> op, id |-> id, attempt |-> r.attempt]]

(* The definitions named *_Mutant are wrong on purpose: a run with one in   *)
(* place of the definition below it must fail.                              *)
Create_Mutant(c, id) ==
    /\ doing[c] = Idle
    /\ calls < MaxCalls
    /\ run[id] = NoRecord
    /\ Save(c, id, "create", [status |-> "pending", attempt |-> 1])
    /\ calls' = calls + 1
    /\ UNCHANGED <<queue, log, unrecorded>>

(* The id of a new run is fresh; nothing is loaded. *)
Create(c, id) ==
    /\ doing[c] = Idle
    /\ calls < MaxCalls
    /\ run[id] = NoRecord
    /\ Save(c, id, "create", [status |-> "pending", attempt |-> 1])
    /\ queue' = Append(queue, id)
    /\ calls' = calls + 1
    /\ UNCHANGED <<log, unrecorded>>

(* complete, fail or cancel is called: the record is loaded, then awaited. *)
Begin(c, op, id) ==
    /\ doing[c] = Idle
    /\ calls < MaxCalls
    /\ run[id] # NoRecord
    /\ doing' = [doing EXCEPT
                  ![c] = [pc |-> "loaded", op |-> op, id |-> id, seen |-> run[id]]]
    /\ calls' = calls + 1
    /\ UNCHANGED <<run, queue, log, unrecorded>>

Dequeue(d) ==
    /\ doing[d] = Idle
    /\ queue # <<>>
    /\ doing' = [doing EXCEPT ![d] = [pc |-> "dequeued", op |-> "start", id |-> Head(queue)]]
    /\ queue' = Tail(queue)
    /\ UNCHANGED <<run, log, calls, unrecorded>>

BeginStart(d) ==
    /\ doing[d].pc = "dequeued"
    /\ run[doing[d].id] # NoRecord
    /\ doing' = [doing EXCEPT
                  ![d] = [pc |-> "loaded", op |-> "start", id |-> doing[d].id,
                          seen |-> run[doing[d].id]]]
    /\ UNCHANGED <<run, queue, log, calls, unrecorded>>

(* The guard of each operation, on the record it loaded. *)
Allowed(op, r) ==
    CASE op = "start"    -> r.status \in Startable
      [] op = "complete" -> r.status = "running"
      [] op = "fail"     -> r.status \in {"running", "retrying"}
      [] op = "cancel"   -> r.status \notin Terminal

(* The call c is back from its load and its operation op may go ahead. *)
Resumes(c, op) ==
    /\ doing[c].pc = "loaded"
    /\ doing[c].op = op
    /\ Allowed(op, doing[c].seen)

Start(d) ==
    /\ Resumes(d, "start")
    /\ Save(d, doing[d].id, "start", [doing[d].seen EXCEPT !.status = "running"])
    /\ UNCHANGED <<queue, log, calls, unrecorded>>

Complete(c) ==
    /\ Resumes(c, "complete")
    /\ Save(c, doing[c].id, "complete", [doing[c].seen EXCEPT !.status = "completed"])
    /\ UNCHANGED <<queue, log, calls, unrecorded>>

CanRetry_Mutant(r) == r.attempt <= MaxAttempts

CanRetry(r) == r.attempt < MaxAttempts

Retry_Mutant(c) ==
    /\ Resumes(c, "fail")
    /\ CanRetry(doing[c].seen)
    /\ Save(c, doing[c].id, "retry",
            [status |-> "retrying", attempt |-> doing[c].seen.attempt + 1])
    /\ UNCHANGED <<queue, log, calls, unrecorded>>

Retry(c) ==
    /\ Resumes(c, "fail")
    /\ CanRetry(doing[c].seen)
    /\ Save(c, doing[c].id, "retry",
            [status |-> "retrying", attempt |-> doing[c].seen.attempt + 1])
    /\ queue' = Append(queue, doing[c].id)
    /\ UNCHANGED <<log, calls, unrecorded>>

Fail(c) ==
    /\ Resumes(c, "fail")
    /\ ~CanRetry(doing[c].seen)
    /\ Save(c, doing[c].id, "fail", [doing[c].seen EXCEPT !.status = "failed"])
    /\ UNCHANGED <<queue, log, calls, unrecorded>>

Cancel_Mutant(c) ==
    /\ Resumes(c, "cancel")
    /\ Save(c, doing[c].id, "cancel", [doing[c].seen EXCEPT !.status = "canceled"])
    /\ queue' = RemoveFirst(queue, doing[c].id)
    /\ UNCHANGED <<log, calls, unrecorded>>

(* Only the first occurrence of the id leaves the queue. *)
Cancel(c) ==
    /\ Resumes(c, "cancel")
    /\ Save(c, doing[c].id, "cancel", [doing[c].seen EXCEPT !.status = "cancelled"])
    /\ queue' = RemoveFirst(queue, doing[c].id)
    /\ UNCHANGED <<log, calls, unrecorded>>

(* The operation throws; a dispatched id is dropped with it. *)
Reject(c) ==
    /\ doing[c].pc = "loaded"
    /\ ~Allowed(doing[c].op, doing[c].seen)
    /\ doing' = [doing EXCEPT ![c] = Idle]
    /\ UNCHANGED <<run, queue, log, calls, unrecorded>>

Entry(c) == [action |-> doing[c].op, id |-> doing[c].id, attempt |-> doing[c].attempt]

RecordTransition_Mutant(c) ==
    /\ doing[c].pc = "saved"
    /\ log' = IF doing[c].op = "retry" THEN log ELSE log \union {Entry(c)}
    /\ doing' = [doing EXCEPT ![c] = Idle]
    /\ UNCHANGED <<run, queue, calls, unrecorded>>

RecordTransition(c) ==
    /\ doing[c].pc = "saved"
    /\ log' = log \union {Entry(c)}
    /\ doing' = [doing EXCEPT ![c] = Idle]
    /\ UNCHANGED <<run, queue, calls, unrecorded>>

(* append() throws: what was saved and queued stays so, and the caller gets *)
(* the error.                                                              *)
TransitionRefused(c) ==
    /\ doing[c].pc = "saved"
    /\ unrecorded' = unrecorded \union {Entry(c)}
    /\ Cardinality(unrecorded') <= MaxRefusals
    /\ doing' = [doing EXCEPT ![c] = Idle]
    /\ UNCHANGED <<run, queue, log, calls>>

Finish(c) == Complete(c) \/ Retry(c) \/ Fail(c) \/ Cancel(c)

Advance(c) ==
    \/ Start(c) \/ Finish(c) \/ Reject(c)
    \/ RecordTransition(c) \/ TransitionRefused(c)

AgentNext ==
    \/ \E c \in Callers, id \in Ids : Create(c, id)
    \/ \E c \in Callers, op \in {"complete", "fail", "cancel"}, id \in Ids :
          Begin(c, op, id)
    \/ \E d \in Dispatchers : Dequeue(d) \/ BeginStart(d)
    \/ \E c \in Clients : Advance(c)

AgentSpec == AgentInit /\ [][AgentNext]_agentVars

(* A pending await comes back, and a dispatcher with nothing to do polls.  *)
(* Whether anyone creates, completes, fails or cancels is left open.       *)
AgentFairness ==
    /\ \A c \in Clients : WF_agentVars(Advance(c))
    /\ \A d \in Dispatchers : WF_agentVars(Dequeue(d) \/ BeginStart(d))

AgentFairSpec == AgentSpec /\ AgentFairness

-----------------------------------------------------------------------------

Stored(id) == run[id] # NoRecord
Waits(id) == Stored(id) /\ run[id].status \in Startable

(* RunnerBroker, header: a failed run is retried while attempt <           *)
(* maxAttempts.  No overlap of stale loads and saves makes a stored        *)
(* attempt exceed the maximum.                                             *)
AttemptWithinMax == \A id \in Ids : Stored(id) => run[id].attempt <= MaxAttempts

(* A dispatcher is on its way to start the run. *)
Dispatching(id) ==
    \E d \in Dispatchers :
        \/ doing[d].pc = "dequeued" /\ doing[d].id = id
        \/ Resumes(d, "start") /\ doing[d].id = id

(* A run that waits to be started is in the queue or in the hands of a      *)
(* dispatcher whose start() will not be rejected, although fail() of a      *)
(* retrying run queues it twice, cancel() removes one occurrence only and   *)
(* a rejected start() drops the id it was dispatched with.                  *)
NoRunStranded ==
    \A id \in Ids :
        Waits(id) => Contains(queue, id) \/ Dispatching(id)

(* The action that leaves a run in a status. *)
ActionOf(status) ==
    CASE status = "pending"   -> "create"
      [] status = "running"   -> "start"
      [] status = "completed" -> "complete"
      [] status = "retrying"  -> "retry"
      [] status = "failed"    -> "fail"
      [] status = "cancelled" -> "cancel"

(* RunnerBroker, header: "every transition appends an audit record".  What  *)
(* overlaps and what throws, the status and attempt a run is left in are    *)
(* accounted for: the audit log has, or is about to get, the record of a    *)
(* transition into them, or it refused that very record and the caller of   *)
(* the transition got the error.                                            *)
StoredStateIsLogged ==
    \A id \in Ids : Stored(id) =>
        LET entry == [action |-> ActionOf(run[id].status), id |-> id,
                      attempt |-> run[id].attempt]
        IN  \/ entry \in log \union unrecorded
            \/ \E c \in Clients : doing[c].pc = "saved" /\ Entry(c) = entry

(* A run that waits is started, or taken out of its waiting state by a      *)
(* cancellation or a stale save.                                            *)
WaitingRunIsTaken == \A id \in Ids : Waits(id) ~> ~Waits(id)

(* RunnerBroker, header: the transitions of each operation, "cancel() ->    *)
(* transitions any non-terminal -> cancelled" among them.  A finished run   *)
(* never changes its status.  The code does not keep it.                    *)
FinishedRunStays ==
    [][\A id \in Ids :
         Stored(id) /\ run[id].status \in Terminal => run'[id].status = run[id].status]_agentVars

=============================================================================
