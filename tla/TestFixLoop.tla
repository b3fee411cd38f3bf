----------------------------- MODULE TestFixLoop -----------------------------
(***************************************************************************)
(* The broker's rounds of gate and repair: FastGateRunner runs its         *)
(* adapters on the workdir, failures are parsed out of the rolled-up log   *)
(* and fingerprinted, a debugger and a fix agent are sent in, and the next *)
(* round looks again (TestFixLoopController.run).  When it is over,        *)
(* VerifierRunner gathers evidence for the acceptance criteria.            *)
(*                                                                         *)
(* A failure is a pair <<adapter, symptom>>.  Template gives what is left  *)
(* of a symptom's message after normalising it; a symptom that no pattern  *)
(* of parseFailures recognises has none.  A log is taken to hold a line    *)
(* parseFailures recognises only where something failed.                   *)
(***************************************************************************)
EXTENDS Naturals, FiniteSets, Sequences

CONSTANTS
    Breakages,              \* the sets of failures a workdir can have
    Template,               \* [symptoms that are recognised -> message templates]
    MaxRounds,              \* MAX_ROUNDS
    SameFingerprintLimit,   \* SAME_FINGERPRINT_LIMIT
    CriterionKinds          \* [criteria -> {"test", "review", "manual"}]

ASSUME LoopAssumption == MaxRounds \in Nat \ {0} /\ SameFingerprintLimit \in Nat \ {0}

VARIABLES
    broken,     \* the failures in the workdir
    loop,       \* the controller: its round, what it awaits, the gate it holds
    seen,       \* its count per fingerprint; an absent one is 0
    rounds,     \* its RoundRecords, oldest first
    fixes,      \* rounds whose fix_result artifact is in the store
    sent,       \* history: rounds the agents were sent in for
    evidence    \* the verifier's bundle, once written

loopVars == <<broken, loop, seen, rounds, fixes, sent, evidence>>

Verdicts == {"FIXED", "BLOCKED", "GIVE_UP"}
Awaits == {"gate", "debugger", "fix", "persist", "persist_blocked"}

LoopInit ==
    /\ broken \in Breakages
    /\ loop = [pc |-> "gate", round |-> 1, gate |-> {}]
    /\ seen = <<>> /\ rounds = <<>> /\ fixes = {} /\ sent = {} /\ evidence = <<>>

-----------------------------------------------------------------------------

FailedAdapters(failures) == {f[1] : f \in failures}

Templates(failures) == {Template[s] : s \in {f[2] : f \in failures} \intersect DOMAIN Template}

(* computeFingerprints: the whole log is parsed once for every adapter that *)
(* failed, and the adapter is part of the fingerprint.                      *)
Fingerprints(failures) == FailedAdapters(failures) \X Templates(failures)

Count(counts, fp) == IF fp \in DOMAIN counts THEN counts[fp] ELSE 0

Tally_Mutant(counts, fps) == [fp \in fps |-> Count(counts, fp) + 1]

Tally(counts, fps) ==
    [fp \in DOMAIN counts \union fps |-> Count(counts, fp) + (IF fp \in fps THEN 1 ELSE 0)]

(* FastGateRunner.run awaits every adapter, writes its log, and has passed  *)
(* if each exited with 0.  The controller returns FIXED, or counts and is   *)
(* either blocked or sends the agents in.                                   *)
RunGate ==
    /\ loop.pc = "gate"
    /\ UNCHANGED <<broken, fixes, evidence>>
    /\ IF broken = {}
       THEN /\ rounds' = Append(rounds, [gate |-> {}, fix |-> "placeholder"])
            /\ loop' = [loop EXCEPT !.pc = "FIXED", !.gate = {}]
            /\ UNCHANGED <<seen, sent>>
       ELSE LET fps == Fingerprints(broken)
                counted == Tally(seen, fps)
                blocked == \E fp \in fps : counted[fp] >= SameFingerprintLimit
            IN /\ seen' = counted
               /\ loop' = [loop EXCEPT !.pc = IF blocked THEN "persist_blocked" ELSE "debugger",
                                       !.gate = broken]
               /\ UNCHANGED <<rounds, sent>>

RunDebugger ==
    /\ loop.pc = "debugger"
    /\ loop' = [loop EXCEPT !.pc = "fix"]
    /\ sent' = sent \union {loop.round}
    /\ UNCHANGED <<broken, seen, rounds, fixes, evidence>>

(* The fix agent leaves the workdir better or worse. *)
RunFix ==
    /\ loop.pc = "fix"
    /\ broken' \in Breakages
    /\ loop' = [loop EXCEPT !.pc = "persist"]
    /\ UNCHANGED <<seen, rounds, fixes, sent, evidence>>

(* persistFixArtifact, and the record of the round.  After the last round   *)
(* the gate is not run again.                                               *)
PersistFix ==
    /\ loop.pc \in {"persist", "persist_blocked"}
    /\ fixes' = fixes \union {loop.round}
    /\ rounds' = Append(rounds, [gate |-> loop.gate, fix |-> "artifact"])
    /\ loop' = IF loop.pc = "persist_blocked" THEN [loop EXCEPT !.pc = "BLOCKED"]
               ELSE IF loop.round = MaxRounds THEN [loop EXCEPT !.pc = "GIVE_UP"]
               ELSE [loop EXCEPT !.pc = "gate", !.round = @ + 1]
    /\ UNCHANGED <<broken, seen, sent, evidence>>

(* A command, an agent or the store throws, and run() with it. *)
LoopThrows ==
    /\ loop.pc \in Awaits
    /\ loop' = [loop EXCEPT !.pc = "thrown"]
    /\ UNCHANGED <<broken, seen, rounds, fixes, sent, evidence>>

-----------------------------------------------------------------------------

(* VerifierRunner.gather; gated is whether it was given the gate's result,  *)
(* approved what a review said is satisfied, if there was a review.  Every  *)
(* outcome is a reference or a note.                                        *)
Gather(kind, criterion, gated, approved) ==
    CASE kind = "test" -> IF gated THEN "logRef" ELSE "note"
      [] kind = "review" -> IF criterion \in approved THEN "findingRef" ELSE "note"
      [] kind = "manual" -> "note"

Verify ==
    /\ loop.pc \in Verdicts
    /\ evidence = <<>>
    /\ \E gated \in BOOLEAN, approved \in SUBSET DOMAIN CriterionKinds :
         LET gathered == [c \in DOMAIN CriterionKinds |->
                            Gather(CriterionKinds[c], c, gated, approved)]
         IN evidence' =
              <<[gathered |-> gathered,
                 complete |-> \A c \in DOMAIN gathered :
                                gathered[c] \in {"logRef", "findingRef", "note"}]>>
    /\ UNCHANGED <<broken, loop, seen, rounds, fixes, sent>>

LoopNext == RunGate \/ RunDebugger \/ RunFix \/ PersistFix \/ LoopThrows \/ Verify

LoopSpec == LoopInit /\ [][LoopNext]_loopVars

-----------------------------------------------------------------------------

LoopTypeOK ==
    /\ broken \in Breakages
    /\ loop \in [pc : Awaits \union Verdicts \union {"thrown"}, round : 1 .. MaxRounds,
                 gate : Breakages \union {{}}]
    /\ \A i \in DOMAIN rounds :
         rounds[i] \in [gate : Breakages \union {{}}, fix : {"placeholder", "artifact"}]
    /\ fixes \subseteq 1 .. MaxRounds /\ sent \subseteq 1 .. MaxRounds
    /\ Len(evidence) <= 1

(* test-fix-loop.ts: a failure some adapter keeps reporting, whatever comes *)
(* and goes beside it, gets no more agents once it broke the gate in        *)
(* SameFingerprintLimit rounds, consecutive or not; the loop is blocked for *)
(* nothing else, gives up only after MaxRounds broken gates, and calls      *)
(* fixed only a workdir no agent has touched since its gate was clean.      *)
VerdictsFollowTheRounds ==
    LET Broke(f) == {i \in DOMAIN rounds : f \in rounds[i].gate}
        Showed(t) == {i \in DOMAIN rounds : t \in Templates(rounds[i].gate)}
        Readable == {f \in UNION Breakages : f[2] \in DOMAIN Template}
    IN
    /\ \A f \in Readable :
         /\ Cardinality(Broke(f) \intersect sent) < SameFingerprintLimit
         /\ Cardinality(Broke(f)) >= SameFingerprintLimit => loop.pc = "BLOCKED"
    /\ loop.pc = "BLOCKED" =>
         \E f \in Readable : Cardinality(Showed(Template[f[2]])) >= SameFingerprintLimit
    /\ loop.pc = "GIVE_UP" =>
         Len(rounds) = MaxRounds /\ \A i \in DOMAIN rounds : rounds[i].gate # {}
    /\ loop.pc = "FIXED" => broken = {}
    /\ loop.pc \in Verdicts => fixes = {i \in DOMAIN rounds : rounds[i].gate # {}}

=============================================================================
