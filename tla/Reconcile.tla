------------------------------ MODULE Reconcile ------------------------------
(***************************************************************************)
(* ProjectionReconcilerCoordinator beside the handlers of IssueSurface: it *)
(* repairs labels and the status comment from CGAO's own state.  It acts   *)
(* on what it listed some awaits ago, and any call may throw.              *)
(***************************************************************************)
EXTENDS IssueSurface

CONSTANT Ticks   \* coordinator ticks that can overlap: it has no guard

ASSUME TicksAssumption == IsFiniteSet(Ticks)

VARIABLES
    notices,     \* comments on GitHub with the reconciler's marker
    tick,        \* per coordinator tick: what it listed and has left to do
    unrecorded   \* history: repairs made whose audit record is not appended

recVars == <<notices, tick, unrecorded>>
vars == <<surfaceVars, recVars>>

RecInit ==
    /\ Init
    /\ notices = 0
    /\ tick = [t \in Ticks |-> Idle]
    /\ unrecorded = 0

-----------------------------------------------------------------------------
(* Coordinator *)

Repair_Mutant(live, want) == [add |-> want \ live, remove |-> {}]

(* Labels that should be there and are not; cgao: labels that should not be. *)
Repair(live, want) == [add |-> want \ live, remove |-> (live \intersect Owned) \ want]

(* ActiveIssueReader: the labels and the comment CGAO expects, and the      *)
(* labels GitHub has now.  What is to repair follows from this list alone.  *)
List(t) ==
    /\ t \in bound.ticks
    /\ tick[t] = Idle
    /\ LET todo == Repair(labels, Wanted(state)) IN
       tick' = [tick EXCEPT ![t] =
                  [pc |-> IF state.status # "new" THEN "comment" ELSE "repair",
                   add |-> todo.add, remove |-> todo.remove]]
    /\ UNCHANGED <<surfaceVars, notices, unrecorded>>

(* Only the reconciler's own marker counts as the status comment.           *)
CheckComment(t) ==
    /\ tick[t].pc = "comment"
    /\ tick' = [tick EXCEPT ![t].pc = IF notices > 0 THEN "repair" ELSE "post"]
    /\ UNCHANGED <<surfaceVars, notices, unrecorded>>

Recreate(t) ==
    /\ tick[t].pc = "post"
    /\ notices' = notices + 1
    /\ unrecorded' = unrecorded + 1
    /\ tick' = [tick EXCEPT ![t].pc = "record"]
    /\ UNCHANGED <<surfaceVars>>

(* Missing labels first, then the ones in excess, in the order they were    *)
(* listed; after each, its record.                                          *)
First(pending) == CHOOSE l \in pending : TRUE

RepairAdd(t) ==
    /\ tick[t].pc = "repair" /\ tick[t].add # {}
    /\ LET l == First(tick[t].add) IN
          /\ labels' = labels \union {l}
          /\ tick' = [tick EXCEPT ![t].pc = "record", ![t].add = @ \ {l}]
    /\ unrecorded' = unrecorded + 1
    /\ UNCHANGED <<content, closed, state, rows, call, events, edits, faults,
                   notices>>

RepairRemove_Mutant(t) ==
    /\ tick[t].pc = "repair" /\ tick[t].add = {} /\ tick[t].remove # {}
    /\ labels' = labels \ tick[t].remove
    /\ tick' = [tick EXCEPT ![t].pc = "record", ![t].remove = {}]
    /\ unrecorded' = unrecorded + Cardinality(tick[t].remove)
    /\ UNCHANGED <<content, closed, state, rows, call, events, edits, faults,
                   notices>>

RepairRemove(t) ==
    /\ tick[t].pc = "repair" /\ tick[t].add = {} /\ tick[t].remove # {}
    /\ LET l == First(tick[t].remove) IN
          /\ labels' = labels \ {l}
          /\ tick' = [tick EXCEPT ![t].pc = "record", ![t].remove = @ \ {l}]
    /\ unrecorded' = unrecorded + 1
    /\ UNCHANGED <<content, closed, state, rows, call, events, edits, faults,
                   notices>>

RecordRepair(t) ==
    /\ tick[t].pc = "record"
    /\ unrecorded' = unrecorded - 1
    /\ tick' = [tick EXCEPT ![t].pc = "repair"]
    /\ UNCHANGED <<surfaceVars, notices>>

EndTick(t) ==
    /\ tick[t].pc = "repair" /\ tick[t].add = {} /\ tick[t].remove = {}
    /\ tick' = [tick EXCEPT ![t] = Idle]
    /\ UNCHANGED <<surfaceVars, notices, unrecorded>>

(* A call that throws ends the tick with what is left undone.               *)
TickThrows(t) ==
    /\ tick[t] # Idle
    /\ faults < bound.faults
    /\ faults' = faults + 1
    /\ tick' = [tick EXCEPT ![t] = Idle]
    /\ UNCHANGED <<content, closed, labels, state, rows, call, events, edits,
                   notices, unrecorded>>

DeleteNotice ==
    /\ notices > 0
    /\ Edit
    /\ notices' = notices - 1
    /\ UNCHANGED <<content, closed, labels, rows, tick, unrecorded>>

TickStep(t) ==
    \/ List(t) \/ CheckComment(t) \/ Recreate(t)
    \/ RepairAdd(t) \/ RepairRemove(t) \/ RecordRepair(t)
    \/ EndTick(t)

-----------------------------------------------------------------------------

Next ==
    /\ UNCHANGED bound
    /\ \/ SurfaceNext /\ UNCHANGED recVars
       \/ \E t \in Ticks : TickStep(t) \/ TickThrows(t)
       \/ DeleteNotice

Spec == RecInit /\ [][Next]_vars

(* Awaited calls settle and the coordinator is called again and again.      *)
(* Nobody has to edit anything, and faults are finite in number.            *)
Fairness ==
    /\ \A h \in Handlers : WF_vars(HandlerStep(h) /\ UNCHANGED <<recVars, bound>>)
    /\ \A t \in Ticks : WF_vars(TickStep(t) /\ UNCHANGED bound)

FairSpec == Spec /\ Fairness

-----------------------------------------------------------------------------

TypeOK ==
    /\ content \in Contents
    /\ closed \in BOOLEAN
    /\ labels \subseteq Owned \union User
    /\ state.category \in Categories /\ state.status \in Statuses
    /\ rows \in Seq([author : {"bot", "someone"}, shows : Statuses])
    /\ notices \in Nat /\ unrecorded \in Nat
    /\ bound \in Bounds
    /\ events \in 0 .. bound.events /\ edits \in 0 .. bound.edits /\ faults \in 0 .. bound.faults

OwnComments == {i \in DOMAIN rows : rows[i].author = "bot"}

(* status-comment.ts:4,14: "cgao maintains ONE active status comment per    *)
(* issue", "at most one active status comment per run per issue".  Two      *)
(* events handled at once both look for it, find none, and both create one. *)
OneStatusComment ==
    Cardinality(OwnComments) <= 1

(* status-comment.ts: what is left of that promise when events overlap: the *)
(* bot does not post a comment per event.  However many events there are    *)
(* and whoever imitates the comment, it has at most one for each upsert     *)
(* that ever overlapped.                                                    *)
OwnCommentsBounded ==
    Cardinality(OwnComments) <= Cardinality(bound.handlers)

(* label-reconciler.ts: every restoration extends the audit chain.  What    *)
(* the chain lacks is the repair a tick has in hand, and one at most for    *)
(* every call that threw.                                                   *)
RepairsAreRecorded ==
    unrecorded <= faults + Cardinality(
        {t \in Ticks : tick[t].pc = "record"})

(* triage.ts, label-projection.ts: people's own labels are always left      *)
(* alone, by late diffs and stale repairs too.                              *)
PeopleKeepTheirLabels ==
    [][labels' \intersect User # labels \intersect User => edits' = edits + 1]_vars

(* What the comment that findActive answers shows. *)
Shown == IF FindActive(rows) = None THEN "new" ELSE rows[FindActive(rows)].shows

(* label-reconciler.ts, status-comment-reconciler.ts, status-comment.ts:    *)
(* once events, edits and faults are over, the labels come to be those of   *)
(* CGAO's own state for good and the reconciler's notice to be there,       *)
(* although repairs work from lists made before others repaired.  The       *)
(* status comment comes to show that state too, where events are handled    *)
(* one after the other and no call throws: of two handlers at once the one  *)
(* that writes last may be the one that decided first, and nothing corrects *)
(* it before the next event.                                                *)
SurfaceConverges ==
    <>[](/\ labels \intersect Owned = Wanted(state)
         /\ state.status # "new" => notices > 0
         /\ Cardinality(bound.handlers) = 1 /\ faults = 0 => Shown = state.status)

=============================================================================
