------------------------------ MODULE RunStore ------------------------------
(***************************************************************************)
(* The row of one workflow run and its advisory lock, in process: create,  *)
(* findById and update with the version the caller read                    *)
(* (WorkflowRunRepository), and InMemoryRunLock with its queue of waiters, *)
(* taken by with() around a read and an update.  A flow is one caller; a   *)
(* holder is the name it gives, which several flows may share.  Some flows *)
(* write without the lock and rely on the version alone.                   *)
(***************************************************************************)
EXTENDS Naturals, Sequences, FiniteSets

CONSTANTS
    Holder,         \* [flows that lock -> the name they lock under]
    Unlocked,       \* flows that do not lock
    MaxStarts       \* bound: times a flow starts

Locking == DOMAIN Holder
Flows == Locking \union Unlocked

Nobody == "nobody"

(* A flow locks or it does not, and no holder is called as if there were none. *)
ASSUME RunStoreAssumption ==
    /\ IsFiniteSet(Locking)
    /\ Locking \intersect Unlocked = {}
    /\ \A f \in Locking : Holder[f] # Nobody
    /\ MaxStarts \in Nat

VARIABLES
    runRow,     \* the row: absent, or its version and a field updates count up
    lock,       \* holder and depth
    waiters,    \* resolve functions in the lock's queue: the flows they wake
    flow,       \* per flow: where it is, the row it read, how often it is inside
    updates,    \* history: updates that were accepted
    begun       \* per flow: how often it started

runVars == <<runRow, lock, waiters, flow, updates, begun>>

Absent == [version |-> 0, attempt |-> 0, exists |-> FALSE]

Outside == [pc |-> "outside", read |-> Absent, depth |-> 0]

RunInit ==
    /\ runRow = Absent
    /\ lock = [holder |-> Nobody, depth |-> 0]
    /\ waiters = <<>>
    /\ flow = [f \in Flows |-> Outside]
    /\ updates = 0
    /\ begun = [f \in Flows |-> 0]

Goes(f, pc) == flow' = [flow EXCEPT ![f].pc = pc]

-----------------------------------------------------------------------------

(* create throws when the id is there. *)
CreateRun ==
    /\ ~runRow.exists
    /\ runRow' = [Absent EXCEPT !.exists = TRUE]
    /\ UNCHANGED <<lock, waiters, flow, updates, begun>>

Take(f) ==
    /\ lock' = [holder |-> Holder[f], depth |-> 1]
    /\ flow' = [flow EXCEPT ![f].pc = "inside", ![f].depth = 1]

(* acquire up to its first await: a holder comes in again, a free lock is   *)
(* taken at once whoever queues for it, anybody else queues.                *)
Acquire(f) ==
    /\ flow[f].pc = "outside"
    /\ begun[f] < MaxStarts
    /\ begun' = [begun EXCEPT ![f] = @ + 1]
    /\ CASE lock.holder = Holder[f] ->
              /\ lock' = [lock EXCEPT !.depth = @ + 1]
              /\ flow' = [flow EXCEPT ![f].pc = "inside", ![f].depth = 1]
              /\ UNCHANGED waiters
         [] lock.holder = Nobody -> Take(f) /\ UNCHANGED waiters
         [] OTHER -> /\ waiters' = Append(waiters, f)
                     /\ Goes(f, "waiting")
                     /\ UNCHANGED lock
    /\ UNCHANGED <<runRow, updates>>

(* A woken waiter takes the lock if it still is free, and queues again at   *)
(* the end if somebody, even of its own name, came first.                   *)
Resume(f) ==
    /\ flow[f].pc = "woken"
    /\ IF lock.holder = Nobody
       THEN Take(f) /\ UNCHANGED waiters
       ELSE /\ waiters' = Append(waiters, f)
            /\ Goes(f, "waiting")
            /\ UNCHANGED lock
    /\ UNCHANGED <<runRow, updates, begun>>

(* fn calls with() again under its own name. *)
Reenter(f) ==
    /\ flow[f].pc = "inside"
    /\ flow[f].depth = 1
    /\ lock.holder = Holder[f]
    /\ lock' = [lock EXCEPT !.depth = @ + 1]
    /\ flow' = [flow EXCEPT ![f].depth = 2]
    /\ UNCHANGED <<runRow, waiters, updates, begun>>

StartUnlocked(f) ==
    /\ flow[f].pc = "outside"
    /\ begun[f] < MaxStarts
    /\ begun' = [begun EXCEPT ![f] = @ + 1]
    /\ Goes(f, "inside")
    /\ UNCHANGED <<runRow, lock, waiters, updates>>

(* findById; without a row, fn gives up. *)
ReadRow(f) ==
    /\ flow[f].pc = "inside"
    /\ flow' = [flow EXCEPT ![f].pc = IF runRow.exists THEN "read" ELSE "leaving",
                            ![f].read = runRow]
    /\ UNCHANGED <<runRow, lock, waiters, updates, begun>>

VersionMatches_Mutant(row, read) == row.exists

VersionMatches(row, read) == row.exists /\ row.version = read.version

(* update with the version read, or ConcurrentUpdateError; the patch counts *)
(* on from what was read.                                                   *)
UpdateRow(f) ==
    /\ flow[f].pc = "read"
    /\ IF VersionMatches(runRow, flow[f].read)
       THEN /\ runRow' = [runRow EXCEPT !.version = @ + 1,
                                        !.attempt = flow[f].read.attempt + 1]
            /\ updates' = updates + 1
       ELSE UNCHANGED <<runRow, updates>>
    /\ Goes(f, "leaving")
    /\ UNCHANGED <<lock, waiters, begun>>

(* fn throws. *)
FlowThrows(f) ==
    /\ flow[f].pc \in {"inside", "read"}
    /\ Goes(f, "leaving")
    /\ UNCHANGED <<runRow, lock, waiters, updates, begun>>

WakeNext_Mutant(queue) == {}

(* release wakes the first waiter. *)
WakeNext(queue) == IF queue = <<>> THEN {} ELSE {Head(queue)}

(* release, in with()'s finally, once per time it came in. *)
Release(f) ==
    /\ flow[f].pc = "leaving"
    /\ lock.holder = Holder[f]
    /\ LET last == lock.depth = 1
           woken == IF last THEN WakeNext(waiters) ELSE {}
           out == flow[f].depth = 1
       IN /\ lock' = IF last THEN [holder |-> Nobody, depth |-> 0]
                     ELSE [lock EXCEPT !.depth = @ - 1]
          /\ waiters' = IF woken = {} THEN waiters ELSE Tail(waiters)
          /\ flow' = [g \in Flows |->
                        IF g = f THEN (IF out THEN Outside ELSE [flow[f] EXCEPT !.depth = @ - 1])
                        ELSE IF g \in woken THEN [flow[g] EXCEPT !.pc = "woken"]
                        ELSE flow[g]]
    /\ UNCHANGED <<runRow, updates, begun>>

EndUnlocked(f) ==
    /\ flow[f].pc = "leaving"
    /\ flow' = [flow EXCEPT ![f] = Outside]
    /\ UNCHANGED <<runRow, lock, waiters, updates, begun>>

LockStep(f) == Resume(f) \/ ReadRow(f) \/ UpdateRow(f) \/ Release(f)

RunNext ==
    \/ CreateRun
    \/ \E f \in Locking : Acquire(f) \/ LockStep(f) \/ Reenter(f) \/ FlowThrows(f)
    \/ \E f \in Unlocked : StartUnlocked(f) \/ ReadRow(f) \/ UpdateRow(f) \/ FlowThrows(f)
                           \/ EndUnlocked(f)

-----------------------------------------------------------------------------

RunTypeOK ==
    /\ runRow \in [version : Nat, attempt : Nat, exists : BOOLEAN]
    /\ lock.holder \in {Holder[f] : f \in Locking} \union {Nobody} /\ lock.depth \in Nat
    /\ \A i \in DOMAIN waiters : waiters[i] \in Locking
    /\ \A f \in Flows : flow[f].pc \in {"outside", "waiting", "woken", "inside", "read", "leaving"}
    /\ updates \in Nat /\ begun \in [Flows -> 0 .. MaxStarts]

Inside(f) == flow[f].pc \in {"inside", "read", "leaving"}

(* workflow-run-repo.ts: flows that are inside together share the holder's  *)
(* name, the lock counts how often they came in, and no accepted update is  *)
(* overwritten by one that had not read it, locked or not.                  *)
OneHolderNoLostUpdate ==
    /\ \A f \in Locking : Inside(f) => lock.holder = Holder[f]
    /\ (\A f \in Locking : ~Inside(f)) <=> lock.holder = Nobody
    /\ runRow.attempt = updates

(* InMemoryRunLock: nobody sleeps through a release: who queues gets the    *)
(* lock, although the lock may be taken before a woken waiter runs.         *)
WaitersGetTheLock ==
    \A f \in Locking : flow[f].pc = "waiting" ~> Inside(f)

=============================================================================
