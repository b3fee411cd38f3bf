---------------------------- MODULE MergePolicy ----------------------------
(***************************************************************************)
(* What the merge module promises, with no reader, no snapshot and no      *)
(* interleaving in sight: evidence about a pull request only accumulates,  *)
(* a (head, base) pair is cleared in one step and only on evidence bound   *)
(* to that very pair, and the pull request is merged only after some pair  *)
(* has been cleared.  MergeGate, in which the evidence is read over five   *)
(* awaits while the pull request moves, is shown to implement this.        *)
(***************************************************************************)

VARIABLES
    tested,     \* pairs <<head, base>> with a passing test gate on record
    reviewed,   \* heads both reviewers have finished with
    approved,   \* heads a maintainer approved
    cleared,    \* pairs a `merge` decision was persisted for
    merged      \* the pull request has been merged by the merge service

policyVars == <<tested, reviewed, approved, cleared, merged>>

(* All three kinds of evidence exist for exactly this head and base. *)
Supported(h, b) ==
    /\ <<h, b>> \in tested
    /\ h \in reviewed
    /\ h \in approved

PolicyInit ==
    /\ tested = {}
    /\ reviewed = {}
    /\ approved = {}
    /\ cleared = {}
    /\ merged = FALSE

Gather ==
    /\ tested \subseteq tested'
    /\ reviewed \subseteq reviewed'
    /\ approved \subseteq approved'
    /\ UNCHANGED <<cleared, merged>>

Clear(h, b) ==
    /\ Supported(h, b)
    /\ cleared' = cleared \union {<<h, b>>}
    /\ UNCHANGED <<tested, reviewed, approved, merged>>

Merge ==
    /\ cleared # {}
    /\ ~merged
    /\ merged' = TRUE
    /\ UNCHANGED <<tested, reviewed, approved, cleared>>

PolicyNext ==
    \/ Gather
    \/ \E h \in reviewed : \E b \in {p[2] : p \in tested} : Clear(h, b)
    \/ Merge

PolicySpec == PolicyInit /\ [][PolicyNext]_policyVars

=============================================================================
