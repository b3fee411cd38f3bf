---------------------------- MODULE MCReconcile ----------------------------
(***************************************************************************)
(* Values for TLC: two ways to write an issue, one kind of advice; one     *)
(* handler while a person edits and a call throws, two handlers at once,   *)
(* or two ticks at once.                                                   *)
(***************************************************************************)
EXTENDS Reconcile

MCContents ==
    {[says |-> "question", has |-> {}],
     [says |-> "security", has |-> {"affected_component"}]}

MCHints ==
    {[category |-> "unknown", confident |-> TRUE, severity |-> TRUE]}

CONSTANTS h1, h2, t1, t2

MCBounds ==
    {[handlers |-> {h1}, ticks |-> {t1}, events |-> 2, edits |-> 1, faults |-> 1],
     [handlers |-> {h1, h2}, ticks |-> {t1}, events |-> 2, edits |-> 0, faults |-> 0],
     [handlers |-> {h1}, ticks |-> {t1, t2}, events |-> 1, edits |-> 0, faults |-> 1]}

=============================================================================
