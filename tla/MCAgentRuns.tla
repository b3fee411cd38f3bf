---------------------------- MODULE MCAgentRuns ----------------------------
(* AgentRuns on a small instance; clients and ids are interchangeable, which *)
(* only the safety run may use.                                              *)
EXTENDS AgentRuns

Symmetry ==
    Permutations(Ids) \union Permutations(Callers) \union Permutations(Dispatchers)

=============================================================================
