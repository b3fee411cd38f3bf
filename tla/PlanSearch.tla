---------------------------- MODULE PlanSearch -----------------------------
(***************************************************************************)
(* findsCycle, the validator's depth-first search of a draft's             *)
(* dependencies, step by step.  White ids are those neither on the stack   *)
(* of visits (gray) nor left by one (black); an id that is no task's is    *)
(* visited like any other, and has no dependencies.                        *)
(***************************************************************************)
EXTENDS PlanRules

CONSTANT
    DraftedPlans    \* the drafts that may be searched

(* A draft has passed the plan's schema. *)
ASSUME PlanSearchAssumption ==
    \A tasks \in DraftedPlans : tasks \in Seq(PlanTask) /\ tasks # <<>>

VARIABLES
    drafted,    \* the tasks of the draft
    nextTask,   \* the task the outer loop visits next
    visiting,   \* the stack of calls of visit: an id and the dependencies it has yet to visit
    visited,    \* the black ids, in the order in which they became black
    cycle       \* the answer: "searching", "found" or "none"

searchVars == <<drafted, nextTask, visiting, visited, cycle>>

SearchInit ==
    /\ drafted \in DraftedPlans
    /\ nextTask = 1 /\ visiting = <<>> /\ visited = <<>> /\ cycle = "searching"

Gray == {visiting[i].id : i \in DOMAIN visiting}
Black == {visited[i] : i \in DOMAIN visited}

(* The visit of a white id, on the stack. *)
Visit(id) == [id |-> id, left |-> DependenciesOf(drafted, id)]

-----------------------------------------------------------------------------

(* No visit is left: the loop over the tasks goes on with the next one. *)
VisitTask ==
    /\ cycle = "searching" /\ visiting = <<>> /\ nextTask <= Len(drafted)
    /\ nextTask' = nextTask + 1
    /\ visiting' = IF drafted[nextTask].id \in Black THEN <<>>
                   ELSE <<Visit(drafted[nextTask].id)>>
    /\ UNCHANGED <<drafted, visited, cycle>>

(* A mutant with two colours: whatever was seen before closes a cycle. *)
VisitDependency_Mutant ==
    /\ cycle = "searching" /\ visiting # <<>>
    /\ \E d \in visiting[Len(visiting)].left :
         LET rest == [visiting EXCEPT ![Len(visiting)].left = @ \ {d}]
         IN /\ cycle' = IF d \in Gray \union Black THEN "found" ELSE cycle
            /\ visiting' = IF d \in Gray \union Black THEN rest ELSE Append(rest, Visit(d))
    /\ UNCHANGED <<drafted, nextTask, visited>>

(* The last visit turns to a dependency it has not looked at: a gray one    *)
(* ends the search, a black one is passed over, a white one is visited.     *)
VisitDependency ==
    /\ cycle = "searching" /\ visiting # <<>>
    /\ \E d \in visiting[Len(visiting)].left :
         LET rest == [visiting EXCEPT ![Len(visiting)].left = @ \ {d}]
         IN /\ cycle' = IF d \in Gray THEN "found" ELSE cycle
            /\ visiting' = IF d \in Gray \union Black THEN rest ELSE Append(rest, Visit(d))
    /\ UNCHANGED <<drafted, nextTask, visited>>

(* The last visit has looked at all its dependencies. *)
LeaveVisit ==
    /\ cycle = "searching" /\ visiting # <<>>
    /\ visiting[Len(visiting)].left = {}
    /\ visited' = Append(visited, visiting[Len(visiting)].id)
    /\ visiting' = SubSeq(visiting, 1, Len(visiting) - 1)
    /\ UNCHANGED <<drafted, nextTask, cycle>>

(* Every task has been visited. *)
EndSearch ==
    /\ cycle = "searching" /\ visiting = <<>> /\ nextTask > Len(drafted)
    /\ cycle' = "none"
    /\ UNCHANGED <<drafted, nextTask, visiting, visited>>

SearchNext == VisitTask \/ VisitDependency \/ LeaveVisit \/ EndSearch

SearchSpec == SearchInit /\ [][SearchNext]_searchVars

-----------------------------------------------------------------------------

(* A call of visit that has not returned. *)
Visits == [id : STRING, left : SUBSET STRING]

SearchTypeOK ==
    /\ drafted \in Seq(PlanTask) /\ drafted # <<>>
    /\ nextTask \in 1 .. Len(drafted) + 1
    /\ visiting \in Seq(Visits)
    /\ visited \in Seq(STRING)
    /\ cycle \in {"searching", "found", "none"}

(* implementation-plan.ts:344: the search's answer is right.  It reports a  *)
(* cycle exactly when some ids each depend on one of them.  And a draft     *)
(* without findings can be carried out: its tasks one after the other,      *)
(* every dependency before what needs it, every criterion met, and nobody   *)
(* touching what a rule protects below that rule's tier.                    *)
JudgedRight(criteria, risk) ==
    cycle # "searching" =>
        /\ cycle = "found" <=> HasCycle(drafted)
        /\ Findings(drafted, criteria, risk, cycle = "found", TRUE, TRUE) = {}
               => CanBeCarriedOut(drafted, criteria, risk)

=============================================================================
