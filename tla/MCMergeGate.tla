---------------------------- MODULE MCMergeGate ----------------------------
(* MergeGate on small instances: shas and attempts are interchangeable     *)
(* model values, the evidence explored is bounded, and so is a behaviour's *)
(* scope.  A pull request has either several heads while one attempt runs  *)
(* over one base, or several bases and attempts but one head.              *)
EXTENDS MergeGate, Integers, TLC

CONSTANTS
    MaxEvidence,        \* bound: evidence on record, one attempt running
    MaxRacingEvidence   \* bound: the same while attempts race

VARIABLE
    scope       \* the heads, bases and attempts a behaviour may use

Symmetry ==
    Permutations(Heads) \union Permutations(Bases) \union Permutations(Attempts)

Scopes ==
    {[heads |-> Heads, bases |-> {b}, attempts |-> {a}, evidence |-> MaxEvidence] :
        b \in Bases, a \in Attempts}
    \union
    {[heads |-> {h}, bases |-> Bases, attempts |-> Attempts, evidence |-> MaxRacingEvidence] :
        h \in Heads}

(* How much evidence is on record; it only grows. *)
EvidenceOnRecord ==
    Cardinality(passedTests) + Cardinality(codeReviewed) + Cardinality(approvals)
      + Cardinality({h \in Heads : securityReview[h] # "none"})
      + Cardinality({h \in Heads : securityReview[h] = "complete"})
      + Cardinality({h \in Heads : findings[h] # "none"})

EvidenceBounded == EvidenceOnRecord <= scope.evidence

ScopedInit == Init /\ scope \in Scopes /\ head \in scope.heads /\ base \in scope.bases

ScopedNext == NextOver(scope.heads, scope.bases, scope.attempts) /\ UNCHANGED scope

ScopedSpec == ScopedInit /\ [][ScopedNext]_<<vars, scope>>

=============================================================================
