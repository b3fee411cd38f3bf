-------------------------- MODULE MergeGateProofs --------------------------
(***************************************************************************)
(* What MergeGate's runs check on a few shas and attempts, for every set   *)
(* of heads, bases and attempts and either base-advanced policy.           *)
(***************************************************************************)
EXTENDS MergeGate, TLAPS

(* A running attempt has hydrated shas. *)
AttemptHasShas(a) ==
    attempt[a].pc # "idle" => attempt[a].head \in Heads /\ attempt[a].base \in Bases

(* What a gate noted as green still stands for after later steps: the       *)
(* evidence is on record for the attempt's own head and base.  The findings *)
(* gate is never noted: its verdict is used in the step that reads it.      *)
GatesMeanEvidence(a) ==
    /\ "security_findings" \notin attempt[a].gates
    /\ "test" \in attempt[a].gates =>
          <<attempt[a].head, attempt[a].base>> \in passedTests
    /\ "ai_review" \in attempt[a].gates =>
          /\ attempt[a].head \in codeReviewed
          /\ securityReview[attempt[a].head] = "complete"
    /\ "human_review" \in attempt[a].gates => attempt[a].head \in approvals

(* A `merge` verdict, persisted or not, rests on evidence for its pair. *)
VerdictHasEvidence(a) ==
    attempt[a].decision = "merge" =>
        /\ attempt[a].pc # "idle"
        /\ Evidence(attempt[a].head, attempt[a].base)
        /\ findings[attempt[a].head] # "open"

(* Past PersistDecision the attempt's pair is among the decided ones. *)
MergerIsDecided(a) ==
    attempt[a].pc \in {"decided", "merging", "audit"} =>
        <<attempt[a].head, attempt[a].base>> \in decided

LatestIsRecorded ==
    /\ \A t \in TestRecord :
          latestTest = t /\ t.passed => <<t.head, t.base>> \in passedTests
    /\ latestApproval # None => latestApproval \in approvals

IInv ==
    /\ TypeOK
    /\ LatestIsRecorded
    /\ \A a \in Attempts :
          /\ AttemptHasShas(a)
          /\ GatesMeanEvidence(a)
          /\ VerdictHasEvidence(a)
          /\ MergerIsDecided(a)
    /\ ClearedPairHasEvidence
    /\ CountedFindingsClosed

(* At most one attempt has merged without having appended its record yet,  *)
(* and then no record of a merge exists.                                   *)
OneMergeInFlight ==
    /\ \A a, b \in Attempts :
          attempt[a].pc = "audit" /\ attempt[b].pc = "audit" => a = b
    /\ \A a \in Attempts :
          attempt[a].pc = "audit" => prState = "merged" /\ Executed = {}

AuditInv == OneMergeInFlight /\ AuditNamesTheOneMerge

-----------------------------------------------------------------------------

(* The evaluator concludes one of the three decisions of MergeDecisionKind, *)
(* and `merge` only with every gate green.                                  *)
LEMMA VerdictFacts ==
    ASSUME NEW at, NEW gates, NEW verdict \in Verdicts(at, gates)
    PROVE  /\ verdict \in {"merge", "refuse", "queue"}
           /\ verdict = "merge" => gates = GateKinds
<1>1. PICK testedHead \in Heads, testedBase \in Bases,
           state \in MergeableStates, requires \in BOOLEAN :
        verdict = Decision(at, gates, testedHead, testedBase, state, requires)
  BY DEF Verdicts
<1>2. QED
  BY <1>1 DEF Decision, Mergeable

(* Noting a gate keeps the attempt a record of its type. *)
LEMMA ReadGateType ==
    ASSUME attempt \in [Attempts -> AttemptRecord], NEW a \in Attempts,
           NEW kind \in GateKinds, NEW green, NEW next \in AttemptPC,
           ReadGate(a, kind, green, next)
    PROVE  attempt' \in [Attempts -> AttemptRecord]
<1>1. attempt[a] \in AttemptRecord
  OBVIOUS
<1>2. PICK g \in SUBSET GateKinds :
        g = IF green THEN attempt[a].gates \union {kind} ELSE attempt[a].gates
  BY <1>1 DEF AttemptRecord
<1>3. [attempt[a] EXCEPT !.pc = next, !.gates = g] \in AttemptRecord
  BY <1>1 DEF AttemptRecord
<1>4. attempt' = [attempt EXCEPT ![a] = [attempt[a] EXCEPT !.pc = next, !.gates = g]]
  BY <1>1, <1>2 DEF ReadGate, AttemptRecord
<1>5. QED
  BY <1>3, <1>4

(* Each step of an attempt leaves every attempt a record of its type. *)
LEMMA AttemptTyped ==
    ASSUME TypeOK, NEW a \in Attempts, AttemptStep(a)
    PROVE  attempt' \in [Attempts -> AttemptRecord]
<1> USE DEF AttemptPC
<1>1. attempt \in [Attempts -> AttemptRecord] /\ attempt[a] \in AttemptRecord
  BY DEF TypeOK
<1>2. IdleAttempt \in AttemptRecord
  BY DEF IdleAttempt, AttemptRecord, GateKinds
<1>3. ASSUME NEW pc \in AttemptPC
      PROVE  [attempt EXCEPT ![a].pc = pc] \in [Attempts -> AttemptRecord]
  <2>1. [attempt[a] EXCEPT !.pc = pc] \in AttemptRecord
    BY <1>1, <1>3 DEF AttemptRecord
  <2>2. QED
    BY <1>1, <2>1
<1>4. CASE Hydrate(a)
  <2>1. [pc |-> "test", head |-> head, base |-> base, gates |-> {},
         decision |-> "none"] \in AttemptRecord
    BY DEF TypeOK, AttemptRecord
  <2>2. QED
    BY <1>1, <1>4, <2>1 DEF Hydrate
<1>5. CASE ReadTestGate(a) \/ ReadAiReviews(a) \/ ReadApproval(a) \/ ReadRisk(a)
  BY <1>1, <1>5, ReadGateType
  DEF ReadTestGate, ReadAiReviews, ReadApproval, ReadRisk, GateKinds
<1>6. CASE ReadFindingsAndDecide(a)
  <2>1. PICK verdict \in {"merge", "refuse", "queue"} :
          attempt' = [attempt EXCEPT ![a].pc = "persist", ![a].gates = {},
                                     ![a].decision = verdict]
    BY <1>6, VerdictFacts DEF ReadFindingsAndDecide
  <2>2. [attempt[a] EXCEPT !.pc = "persist", !.gates = {}, !.decision = verdict]
          \in AttemptRecord
    BY <1>1 DEF AttemptRecord
  <2>3. QED
    BY <1>1, <2>1, <2>2
<1>7. CASE PersistDecision(a)
  BY <1>1, <1>2, <1>3, <1>7 DEF PersistDecision
<1>8. CASE AuditRefusal(a) \/ AuditMerge(a) \/ Abandon(a)
  BY <1>1, <1>2, <1>8 DEF AuditRefusal, AuditMerge, Abandon
<1>9. CASE Authorize(a) \/ ExecuteMerge(a)
  BY <1>3, <1>9 DEF Authorize, ExecuteMerge
<1>10. QED
  BY <1>4, <1>5, <1>6, <1>7, <1>8, <1>9 DEF AttemptStep

(* Only the attempt that takes a step changes; the shas it runs on are those *)
(* of its hydration, or gone with it.                                       *)
LEMMA AttemptFrame ==
    ASSUME TypeOK, NEW a \in Attempts, AttemptStep(a)
    PROVE  /\ \A c \in Attempts \ {a} : attempt'[c] = attempt[c]
           /\ \/ attempt'[a] = IdleAttempt
              \/ attempt[a].pc = "idle" /\ Hydrate(a)
              \/ /\ attempt[a].pc # "idle"
                 /\ attempt'[a].head = attempt[a].head
                 /\ attempt'[a].base = attempt[a].base
<1>1. attempt \in [Attempts -> AttemptRecord] /\ attempt[a] \in AttemptRecord
  BY DEF TypeOK
<1>2. CASE Hydrate(a)
  BY <1>1, <1>2 DEF Hydrate
<1>3. CASE ReadTestGate(a) \/ ReadAiReviews(a) \/ ReadApproval(a) \/ ReadRisk(a)
  BY <1>1, <1>3
  DEF ReadTestGate, ReadAiReviews, ReadApproval, ReadRisk, ReadGate, AttemptRecord
<1>4. CASE ReadFindingsAndDecide(a)
  BY <1>1, <1>4 DEF ReadFindingsAndDecide, AttemptRecord
<1>5. CASE PersistDecision(a) \/ Authorize(a) \/ ExecuteMerge(a)
  BY <1>1, <1>5 DEF PersistDecision, Authorize, ExecuteMerge, AttemptRecord
<1>6. CASE AuditRefusal(a) \/ AuditMerge(a) \/ Abandon(a)
  BY <1>1, <1>6 DEF AuditRefusal, AuditMerge, Abandon
<1>7. QED
  BY <1>2, <1>3, <1>4, <1>5, <1>6 DEF AttemptStep

(* TypeOK alone is not preserved: what an attempt persists or audits is the *)
(* sha it hydrated, which the record type lets be None.                     *)
TypeInv == TypeOK /\ \A a \in Attempts : AttemptHasShas(a)

(* Every action of the module keeps every variable within its type. *)
LEMMA TypeStep == TypeInv /\ [Next]_vars => TypeInv'
<1> SUFFICES ASSUME TypeOK, \A a \in Attempts : AttemptHasShas(a), [Next]_vars
             PROVE  TypeInv'
  BY DEF TypeInv
<1> USE DEF TypeInv
<1>0. ASSUME UNCHANGED attempt PROVE \A a \in Attempts : AttemptHasShas(a)'
  BY <1>0 DEF AttemptHasShas
<1> USE DEF githubVars, signalVars, outcomeVars
<1>1. ASSUME NEW h \in Heads, Push(h) PROVE TypeInv'
  BY <1>0, <1>1 DEF Push, TypeOK
<1>2. ASSUME NEW b \in Bases, AdvanceBase(b) PROVE TypeInv'
  BY <1>0, <1>2 DEF AdvanceBase, TypeOK
<1>3. ASSUME NEW h \in Heads, NEW b \in Bases, NEW passed \in BOOLEAN,
             RecordTest(h, b, passed)
      PROVE  TypeInv'
  BY <1>0, <1>3 DEF RecordTest, TestRecord, TypeOK
<1>4. ASSUME NEW h \in Heads, CompleteCodeReview(h) PROVE TypeInv'
  BY <1>0, <1>4 DEF CompleteCodeReview, TypeOK
<1>5. ASSUME NEW h \in Heads, NEW blocking \in BOOLEAN,
             RecordSecurityFindings(h, blocking)
      PROVE  TypeInv'
  BY <1>0, <1>5 DEF RecordSecurityFindings, FindingStatus, TypeOK
<1>6. ASSUME NEW h \in Heads, CompleteSecurityReview(h) PROVE TypeInv'
  BY <1>0, <1>6 DEF CompleteSecurityReview, TypeOK
<1>7. ASSUME NEW h \in Heads, RepeatSecurityReview(h) PROVE TypeInv'
  BY <1>0, <1>7 DEF RepeatSecurityReview, FindingStatus, TypeOK
<1>8. ASSUME NEW h \in Heads, CloseFinding(h) PROVE TypeInv'
  BY <1>0, <1>8 DEF CloseFinding, FindingStatus, TypeOK
<1>9. ASSUME NEW h \in Heads, Approve(h) PROVE TypeInv'
  BY <1>0, <1>9 DEF Approve, TypeOK
<1>10. ASSUME NEW h \in Heads, NEW requires \in BOOLEAN, ClassifyRisk(h, requires)
       PROVE  TypeInv'
  BY <1>0, <1>10 DEF ClassifyRisk, RiskRecord, TypeOK
<1>11. ASSUME NEW a \in Attempts, AttemptStep(a) PROVE TypeInv'
  <2>1. attempt' \in [Attempts -> AttemptRecord]
    BY <1>11, AttemptTyped
  <2>2. signalVars' = signalVars /\ head' = head /\ carried' = carried /\ base' = base
    BY <1>11 DEF AttemptStep, Hydrate, ReadTestGate, ReadAiReviews, ReadApproval,
                 ReadRisk, ReadFindingsAndDecide, PersistDecision, AuditRefusal,
                 Authorize, ExecuteMerge, AuditMerge, Abandon
  <2>3. prState' \in {"open", "merged"}
    BY <1>11 DEF TypeOK, AttemptStep, Hydrate, ReadTestGate, ReadAiReviews,
                 ReadApproval, ReadRisk, ReadFindingsAndDecide, PersistDecision,
                 AuditRefusal, Authorize, ExecuteMerge, AuditMerge, Abandon
  <2>4. attempt[a].pc # "idle" => attempt[a].head \in Heads /\ attempt[a].base \in Bases
    BY DEF AttemptHasShas
  <2>5. decided' \subseteq Heads \X Bases
    BY <1>11, <2>4 DEF TypeOK, AttemptStep, Hydrate, ReadTestGate, ReadAiReviews,
                 ReadApproval, ReadRisk, ReadFindingsAndDecide, PersistDecision,
                 AuditRefusal, Authorize, ExecuteMerge, AuditMerge, Abandon
  <2>6. audit' \subseteq AuditRecord
    BY <1>11, <2>4 DEF TypeOK, AuditRecord, AuditEntry, AttemptStep, Hydrate,
                 ReadTestGate, ReadAiReviews, ReadApproval, ReadRisk,
                 ReadFindingsAndDecide, PersistDecision, AuditRefusal, Authorize,
                 ExecuteMerge, AuditMerge, Abandon
  <2>7. ASSUME NEW c \in Attempts PROVE AttemptHasShas(c)'
    <3>1. CASE c # a
      BY <1>11, <3>1, AttemptFrame DEF AttemptHasShas
    <3>2. CASE c = a
      <4>1. CASE attempt'[a] = IdleAttempt
        BY <3>2, <4>1 DEF AttemptHasShas, IdleAttempt
      <4>2. CASE Hydrate(a)
        BY <3>2, <4>2 DEF Hydrate, AttemptHasShas, TypeOK
      <4>3. QED
        BY <1>11, <2>4, <3>2, <4>1, <4>2, AttemptFrame DEF AttemptHasShas
    <3>3. QED
      BY <3>1, <3>2
  <2>8. QED
    BY <2>1, <2>2, <2>3, <2>5, <2>6, <2>7 DEF TypeOK
<1>12. CASE UNCHANGED vars
  BY <1>0, <1>12 DEF vars, TypeOK
<1>13. QED
  BY <1>1, <1>2, <1>3, <1>4, <1>5, <1>6, <1>7, <1>8, <1>9, <1>10, <1>11, <1>12
  DEF Next, NextOver, Signals

LEMMA TypeInit == Init => TypeInv
BY DEF Init, TypeInv, TypeOK, AttemptHasShas, IdleAttempt, AttemptRecord,
       AttemptPC, FindingStatus

(* The stores, the attempts and the audit chain hold values of their types. *)
THEOREM TypeCorrect == Spec => []TypeOK
<1>1. TypeInv => TypeOK
  BY DEF TypeInv
<1>2. QED
  BY <1>1, TypeInit, TypeStep, PTL DEF Spec

-----------------------------------------------------------------------------

(* Evidence is never withdrawn, and a finding of a review that is complete  *)
(* does not become open again.                                              *)
EvidenceGrows ==
    /\ passedTests \subseteq passedTests'
    /\ codeReviewed \subseteq codeReviewed'
    /\ approvals \subseteq approvals'
    /\ \A h \in Heads : securityReview[h] = "complete" =>
          /\ securityReview'[h] = "complete"
          /\ findings'[h] = "open" => findings[h] = "open"

(* Each step of an attempt is one of these to everything it shares.         *)
LEMMA AttemptShared ==
    ASSUME NEW a \in Attempts, AttemptStep(a)
    PROVE  /\ UNCHANGED signalVars
           /\ \/ UNCHANGED decided
              \/ PersistDecision(a) /\ attempt[a].decision = "merge"
BY DEF AttemptStep, Hydrate, ReadTestGate, ReadAiReviews, ReadApproval, ReadRisk,
       ReadFindingsAndDecide, PersistDecision, AuditRefusal, Authorize,
       ExecuteMerge, AuditMerge, Abandon, outcomeVars

(* Every step lets the evidence grow, and only an attempt's step touches    *)
(* the attempts and the decisions.                                          *)
LEMMA Monotone ==
    ASSUME TypeOK, [Next]_vars
    PROVE  /\ EvidenceGrows
           /\ \/ UNCHANGED <<attempt, outcomeVars>> /\ prState' = prState
              \/ \E a \in Attempts : AttemptStep(a)
<1> USE DEF githubVars, signalVars, EvidenceGrows
<1>1. CASE \E h \in Heads : Push(h)
  BY <1>1 DEF Push
<1>2. CASE \E b \in Bases : AdvanceBase(b)
  BY <1>2 DEF AdvanceBase
<1>3. ASSUME NEW h \in Heads, NEW b \in Bases, NEW passed \in BOOLEAN,
             RecordTest(h, b, passed)
      PROVE  EvidenceGrows /\ UNCHANGED <<attempt, outcomeVars>> /\ prState' = prState
  BY <1>3 DEF RecordTest
<1>4. ASSUME NEW h \in Heads, CompleteCodeReview(h)
      PROVE  EvidenceGrows /\ UNCHANGED <<attempt, outcomeVars>> /\ prState' = prState
  BY <1>4 DEF CompleteCodeReview
<1>5. ASSUME NEW h \in Heads, NEW blocking \in BOOLEAN,
             RecordSecurityFindings(h, blocking)
      PROVE  EvidenceGrows /\ UNCHANGED <<attempt, outcomeVars>> /\ prState' = prState
  BY <1>5 DEF RecordSecurityFindings, TypeOK
<1>6. ASSUME NEW h \in Heads,
             CompleteSecurityReview(h) \/ RepeatSecurityReview(h) \/ CloseFinding(h)
      PROVE  EvidenceGrows /\ UNCHANGED <<attempt, outcomeVars>> /\ prState' = prState
  BY <1>6 DEF CompleteSecurityReview, RepeatSecurityReview, CloseFinding, TypeOK
<1>7. ASSUME NEW h \in Heads, Approve(h)
      PROVE  EvidenceGrows /\ UNCHANGED <<attempt, outcomeVars>> /\ prState' = prState
  BY <1>7 DEF Approve
<1>8. ASSUME NEW h \in Heads, NEW requires \in BOOLEAN, ClassifyRisk(h, requires)
      PROVE  EvidenceGrows /\ UNCHANGED <<attempt, outcomeVars>> /\ prState' = prState
  BY <1>8 DEF ClassifyRisk
<1>9. CASE \E a \in Attempts : AttemptStep(a)
  BY <1>9, AttemptShared
<1>10. CASE UNCHANGED vars
  BY <1>10 DEF vars, outcomeVars
<1>11. QED
  BY <1>1, <1>2, <1>3, <1>4, <1>5, <1>6, <1>7, <1>8, <1>9, <1>10 DEF Next, NextOver, Signals

LEMMA EvidencePersists ==
    ASSUME EvidenceGrows, NEW h \in Heads, NEW b \in Bases, Evidence(h, b)
    PROVE  /\ Evidence(h, b)'
           /\ findings'[h] = "open" => findings[h] = "open"
BY DEF EvidenceGrows, Evidence

(* The latest row a reader finds is among the rows on record. *)
LEMMA LatestStep ==
    ASSUME TypeOK, LatestIsRecorded, [Next]_vars
    PROVE  LatestIsRecorded'
<1> USE DEF LatestIsRecorded
<1>1. ASSUME UNCHANGED <<passedTests, latestTest, approvals, latestApproval>>
      PROVE  LatestIsRecorded'
  BY <1>1
<1> USE DEF githubVars, signalVars
<1>2. CASE \E h \in Heads : Push(h)
  BY <1>1, <1>2 DEF Push
<1>3. CASE \E b \in Bases : AdvanceBase(b)
  BY <1>1, <1>3 DEF AdvanceBase
<1>4. ASSUME NEW h \in Heads, NEW b \in Bases, NEW passed \in BOOLEAN,
             RecordTest(h, b, passed)
      PROVE  LatestIsRecorded'
  BY <1>4 DEF RecordTest, TestRecord
<1>5. ASSUME NEW h \in Heads, Approve(h) PROVE LatestIsRecorded'
  BY <1>5 DEF Approve
<1>6. ASSUME NEW h \in Heads,
             \/ CompleteCodeReview(h)
             \/ \E blocking \in BOOLEAN : RecordSecurityFindings(h, blocking)
             \/ CompleteSecurityReview(h)
             \/ RepeatSecurityReview(h)
             \/ CloseFinding(h)
             \/ \E requires \in BOOLEAN : ClassifyRisk(h, requires)
      PROVE  LatestIsRecorded'
  BY <1>1, <1>6
  DEF CompleteCodeReview, RecordSecurityFindings, CompleteSecurityReview,
      RepeatSecurityReview, CloseFinding, ClassifyRisk
<1>7. CASE \E a \in Attempts : AttemptStep(a)
  BY <1>1, <1>7, AttemptShared
<1>8. CASE UNCHANGED vars
  BY <1>1, <1>8 DEF vars
<1>9. QED
  BY <1>2, <1>3, <1>4, <1>5, <1>6, <1>7, <1>8 DEF Next, NextOver, Signals

(* What the evidence supports for one attempt, it supports after a step of  *)
(* anyone else.                                                             *)
LEMMA AttemptPersists ==
    ASSUME IInv, EvidenceGrows, decided \subseteq decided',
           NEW a \in Attempts, attempt'[a] = attempt[a]
    PROVE  /\ GatesMeanEvidence(a)'
           /\ VerdictHasEvidence(a)'
           /\ MergerIsDecided(a)'
<1>1. attempt[a] \in AttemptRecord
  BY DEF IInv, TypeOK
<1>2. /\ AttemptHasShas(a) /\ GatesMeanEvidence(a)
      /\ VerdictHasEvidence(a) /\ MergerIsDecided(a)
  BY DEF IInv
<1>3. GatesMeanEvidence(a)'
  <2>1. "ai_review" \in attempt[a].gates => attempt[a].head \in Heads
    BY <1>2 DEF GatesMeanEvidence, IInv, TypeOK
  <2>2. QED
    BY <1>2, <2>1 DEF GatesMeanEvidence, EvidenceGrows
<1>4. VerdictHasEvidence(a)'
  BY <1>2, EvidencePersists DEF VerdictHasEvidence, AttemptHasShas
<1>5. MergerIsDecided(a)'
  BY <1>2 DEF MergerIsDecided
<1>6. QED
  BY <1>3, <1>4, <1>5

(* An attempt's own step: a gate is noted on its evidence, a verdict rests   *)
(* on the noted gates, a decision on the verdict.                           *)
LEMMA AttemptAdvances ==
    ASSUME IInv, NEW a \in Attempts, AttemptStep(a)
    PROVE  /\ GatesMeanEvidence(a)'
           /\ VerdictHasEvidence(a)'
           /\ MergerIsDecided(a)'
<1>1. attempt \in [Attempts -> AttemptRecord] /\ attempt[a] \in AttemptRecord
  BY DEF IInv, TypeOK
<1>2. /\ AttemptHasShas(a) /\ GatesMeanEvidence(a)
      /\ VerdictHasEvidence(a) /\ MergerIsDecided(a) /\ LatestIsRecorded
  BY DEF IInv
<1>3. UNCHANGED signalVars
  BY AttemptShared
<1> USE DEF signalVars, GatesMeanEvidence, VerdictHasEvidence, MergerIsDecided, Evidence
<1>4. CASE Hydrate(a)
  BY <1>1, <1>4 DEF Hydrate
<1>5. CASE AuditRefusal(a) \/ AuditMerge(a) \/ Abandon(a)
  BY <1>1, <1>5 DEF AuditRefusal, AuditMerge, Abandon, IdleAttempt
<1>6. CASE ReadTestGate(a)
  <2>1. attempt[a].pc # "idle"
    BY <1>6 DEF ReadTestGate
  <2>2. ASSUME TestGateGreen(attempt[a])
        PROVE  <<attempt[a].head, attempt[a].base>> \in passedTests
    <3>1. PICK h \in Heads, b \in Bases : h = attempt[a].head /\ b = attempt[a].base
      BY <1>2, <2>1 DEF AttemptHasShas
    <3>2. latestTest = [head |-> h, base |-> b, passed |-> TRUE]
      BY <2>2, <3>1 DEF TestGateGreen
    <3>3. [head |-> h, base |-> b, passed |-> TRUE] \in TestRecord
      BY DEF TestRecord
    <3>4. QED
      BY <1>2, <3>1, <3>2, <3>3 DEF LatestIsRecorded
  <2>3. QED
    BY <1>1, <1>2, <1>3, <1>6, <2>2 DEF ReadTestGate, ReadGate, AttemptRecord
<1>7. CASE ReadAiReviews(a)
  BY <1>1, <1>2, <1>3, <1>7 DEF ReadAiReviews, ReadGate, AiReviewGreen, AttemptRecord
<1>8. CASE ReadApproval(a)
  <2>1. attempt[a].head \in Heads
    BY <1>2, <1>8 DEF ReadApproval, AttemptHasShas
  <2>2. HumanReviewGreen(attempt[a]) => attempt[a].head \in approvals
    BY <1>2, <2>1, ShaAssumption DEF HumanReviewGreen, LatestIsRecorded
  <2>3. QED
    BY <1>1, <1>2, <1>3, <1>8, <2>2 DEF ReadApproval, ReadGate, AttemptRecord
<1>9. CASE ReadRisk(a)
  BY <1>1, <1>2, <1>3, <1>9 DEF ReadRisk, ReadGate, AttemptRecord
<1>10. CASE ReadFindingsAndDecide(a)
  <2> DEFINE gates == IF SecurityFindingsGreen(attempt[a])
                      THEN attempt[a].gates \union {"security_findings"}
                      ELSE attempt[a].gates
  <2>1. PICK verdict \in Verdicts(attempt[a], gates) :
          attempt' = [attempt EXCEPT ![a].pc = "persist", ![a].gates = {},
                                     ![a].decision = verdict]
    BY <1>10 DEF ReadFindingsAndDecide
  <2>2. /\ attempt'[a].pc = "persist"
        /\ attempt'[a].gates = {}
        /\ attempt'[a].decision = verdict
        /\ attempt'[a].head = attempt[a].head
        /\ attempt'[a].base = attempt[a].base
    BY <1>1, <2>1 DEF AttemptRecord
  <2>3. verdict = "merge" => gates = GateKinds
    BY <2>1, VerdictFacts
  <2>4. verdict = "merge" =>
          /\ SecurityFindingsGreen(attempt[a])
          /\ {"test", "ai_review", "human_review"} \subseteq attempt[a].gates
    BY <1>2, <2>3 DEF GateKinds
  <2>5. verdict = "merge" =>
          /\ Evidence(attempt[a].head, attempt[a].base)
          /\ findings[attempt[a].head] # "open"
    BY <1>2, <2>4 DEF SecurityFindingsGreen, IsOpen
  <2>6. QED
    BY <1>3, <2>2, <2>5
<1>11. CASE PersistDecision(a)
  BY <1>1, <1>2, <1>3, <1>11 DEF PersistDecision, IdleAttempt, AttemptRecord
<1>12. CASE Authorize(a) \/ ExecuteMerge(a)
  BY <1>1, <1>2, <1>3, <1>12
  DEF Authorize, ExecuteMerge, AttemptRecord, outcomeVars
<1>13. QED
  BY <1>4, <1>5, <1>6, <1>7, <1>8, <1>9, <1>10, <1>11, <1>12 DEF AttemptStep

(* Every decided pair keeps its evidence, and a new one had it already.     *)
LEMMA DecidedStep ==
    ASSUME IInv, [Next]_vars
    PROVE  /\ decided \subseteq decided'
           /\ ClearedPairHasEvidence'
           /\ CountedFindingsClosed'
<1>1. EvidenceGrows
  BY Monotone DEF IInv
<1>2. \A p \in decided : p[1] \in Heads /\ p[2] \in Bases
  BY DEF IInv, TypeOK
<1>3. \A p \in decided : Evidence(p[1], p[2])' /\ findings'[p[1]] # "open"
  BY <1>1, <1>2, EvidencePersists DEF IInv, ClearedPairHasEvidence, CountedFindingsClosed
<1>4. CASE UNCHANGED decided
  BY <1>3, <1>4 DEF ClearedPairHasEvidence, CountedFindingsClosed
<1>5. ASSUME NEW a \in Attempts, PersistDecision(a), attempt[a].decision = "merge"
      PROVE  decided \subseteq decided' /\ ClearedPairHasEvidence'
                /\ CountedFindingsClosed'
  <2>1. PICK h \in Heads, b \in Bases : h = attempt[a].head /\ b = attempt[a].base
    BY <1>5 DEF IInv, AttemptHasShas, PersistDecision
  <2>2. decided' = decided \union {<<h, b>>}
    BY <1>5, <2>1 DEF PersistDecision
  <2>3. Evidence(h, b) /\ findings[h] # "open"
    BY <1>5, <2>1 DEF IInv, VerdictHasEvidence
  <2>4. Evidence(h, b)' /\ findings'[h] # "open"
    BY <1>1, <2>3, EvidencePersists
  <2>5. ASSUME NEW p \in decided'
        PROVE  Evidence(p[1], p[2])' /\ findings'[p[1]] # "open"
    BY <1>3, <2>2, <2>4
  <2>6. QED
    BY <2>2, <2>5 DEF ClearedPairHasEvidence, CountedFindingsClosed
<1>6. QED
  BY <1>4, <1>5, Monotone, AttemptShared DEF IInv, outcomeVars

(* IInv is inductive. *)
LEMMA Inductive == IInv /\ [Next]_vars => IInv'
<1> SUFFICES ASSUME IInv, [Next]_vars PROVE IInv'
  OBVIOUS
<1>1. TypeInv'
  BY TypeStep DEF IInv, TypeInv
<1>2. LatestIsRecorded'
  BY LatestStep DEF IInv
<1>3. decided \subseteq decided' /\ ClearedPairHasEvidence' /\ CountedFindingsClosed'
  BY DecidedStep
<1>4. ASSUME NEW c \in Attempts
      PROVE  GatesMeanEvidence(c)' /\ VerdictHasEvidence(c)' /\ MergerIsDecided(c)'
  <2>1. EvidenceGrows
    BY Monotone DEF IInv
  <2>2. CASE UNCHANGED attempt
    BY <1>3, <2>1, <2>2, AttemptPersists
  <2>3. ASSUME NEW a \in Attempts, AttemptStep(a)
        PROVE  GatesMeanEvidence(c)' /\ VerdictHasEvidence(c)' /\ MergerIsDecided(c)'
    <3>1. CASE c = a
      BY <2>3, <3>1, AttemptAdvances
    <3>2. CASE c # a
      <4>1. attempt'[c] = attempt[c]
        BY <2>3, <3>2, AttemptFrame DEF IInv
      <4>2. QED
        BY <1>3, <2>1, <4>1, AttemptPersists
    <3>3. QED
      BY <3>1, <3>2
  <2>4. QED
    BY <2>2, <2>3, Monotone DEF IInv
<1>5. QED
  BY <1>1, <1>2, <1>3, <1>4 DEF IInv, TypeInv

LEMMA InitInv == Init => IInv
<1> SUFFICES ASSUME Init PROVE IInv
  OBVIOUS
<1>1. TypeOK /\ \A a \in Attempts : AttemptHasShas(a)
  BY TypeInit DEF TypeInv
<1>2. LatestIsRecorded
  BY NoneAssumption DEF Init, LatestIsRecorded
<1>3. \A a \in Attempts :
        GatesMeanEvidence(a) /\ VerdictHasEvidence(a) /\ MergerIsDecided(a)
  BY DEF Init, IdleAttempt, GatesMeanEvidence, VerdictHasEvidence, MergerIsDecided
<1>4. QED
  BY <1>1, <1>2, <1>3 DEF Init, IInv, ClearedPairHasEvidence, CountedFindingsClosed

LEMMA Invariance == Spec => []IInv
BY InitInv, Inductive, PTL DEF Spec

(* However the five reads interleave with pushes, base advances and late     *)
(* results, a persisted merge decision names a pair with evidence.          *)
THEOREM DecisionsAreSupported == Spec => []ClearedPairHasEvidence
<1>1. IInv => ClearedPairHasEvidence
  BY DEF IInv
<1>2. QED
  BY <1>1, Invariance, PTL

(* No head is cleared while a finding of the security review it was cleared *)
(* on is open.                                                              *)
THEOREM DecisionsSeeTheirFindings == Spec => []CountedFindingsClosed
<1>1. IInv => CountedFindingsClosed
  BY DEF IInv
<1>2. QED
  BY <1>1, Invariance, PTL

-----------------------------------------------------------------------------

(* Appending a refusal, or nothing, leaves the records of merges alone. *)
LEMMA ExecutedStep ==
    ASSUME TypeOK, NEW a \in Attempts, AttemptStep(a)
    PROVE  /\ \/ /\ ExecuteMerge(a)
              \/ /\ UNCHANGED prState
                 /\ \A c \in Attempts : attempt'[c].pc = "audit" => attempt[c].pc = "audit"
           /\ \/ Executed' = Executed
              \/ AuditMerge(a)
<1>1. attempt \in [Attempts -> AttemptRecord] /\ attempt[a] \in AttemptRecord
  BY DEF TypeOK
<1> USE DEF githubVars, outcomeVars
<1>2. CASE Hydrate(a)
  BY <1>1, <1>2 DEF Hydrate, Executed
<1>3. CASE ReadTestGate(a) \/ ReadAiReviews(a) \/ ReadApproval(a) \/ ReadRisk(a)
  BY <1>1, <1>3
  DEF ReadTestGate, ReadAiReviews, ReadApproval, ReadRisk, ReadGate, AttemptRecord,
      Executed
<1>4. CASE ReadFindingsAndDecide(a)
  BY <1>1, <1>4 DEF ReadFindingsAndDecide, AttemptRecord, Executed
<1>5. CASE PersistDecision(a) \/ Authorize(a) \/ ExecuteMerge(a)
  BY <1>1, <1>5 DEF PersistDecision, Authorize, ExecuteMerge, IdleAttempt,
                    AttemptRecord, Executed
<1>6. CASE AuditRefusal(a)
  BY <1>1, <1>6 DEF AuditRefusal, AuditEntry, IdleAttempt, Executed
<1>7. CASE AuditMerge(a) \/ Abandon(a)
  BY <1>1, <1>7 DEF AuditMerge, Abandon, IdleAttempt, Executed
<1>8. QED
  BY <1>2, <1>3, <1>4, <1>5, <1>6, <1>7 DEF AttemptStep

LEMMA AuditStep == IInv /\ AuditInv /\ [Next]_vars => AuditInv'
<1> SUFFICES ASSUME IInv, AuditInv, [Next]_vars PROVE AuditInv'
  OBVIOUS
<1>1. TypeOK /\ decided \subseteq decided'
  BY DecidedStep DEF IInv
<1> USE DEF AuditInv, OneMergeInFlight, AuditNamesTheOneMerge
<1>2. CASE UNCHANGED <<attempt, outcomeVars, prState>>
  BY <1>2 DEF outcomeVars, Executed
<1>3. ASSUME NEW a \in Attempts, AttemptStep(a) PROVE AuditInv'
  <2>1. attempt[a] \in AttemptRecord /\ attempt \in [Attempts -> AttemptRecord]
    BY <1>1 DEF TypeOK
  <2>2. CASE ExecuteMerge(a)
    <3>1. /\ prState = "open" /\ prState' = "merged" /\ Executed' = Executed
          /\ \A c \in Attempts : attempt'[c].pc = "audit" =>
                 c = a \/ attempt[c].pc = "audit"
      BY <2>1, <2>2 DEF ExecuteMerge, Executed, outcomeVars
    <3>2. Executed = {} /\ \A c \in Attempts : attempt[c].pc # "audit"
      BY <3>1
    <3>3. QED
      BY <3>1, <3>2
  <2>3. CASE AuditMerge(a)
    <3>1. attempt[a].pc = "audit" /\ prState = "merged" /\ Executed = {}
      BY <2>3 DEF AuditMerge
    <3>2. PICK h \in Heads, b \in Bases :
            h = attempt[a].head /\ b = attempt[a].base /\ <<h, b>> \in decided
      BY <3>1 DEF IInv, AttemptHasShas, MergerIsDecided
    <3>3. Executed' = {[kind |-> "merge.executed", head |-> h, by |-> a]}
      BY <2>3, <3>1, <3>2 DEF AuditMerge, AuditEntry, Executed
    <3>4. \A c \in Attempts : attempt'[c].pc # "audit"
      BY <2>1, <2>3, <3>1 DEF AuditMerge, IdleAttempt
    <3>5. prState' = "merged"
      BY <2>3, <3>1 DEF AuditMerge, githubVars
    <3>6. QED
      BY <1>1, <3>2, <3>3, <3>4, <3>5
  <2>4. CASE /\ UNCHANGED prState /\ Executed' = Executed
             /\ \A c \in Attempts : attempt'[c].pc = "audit" => attempt[c].pc = "audit"
    BY <1>1, <2>4
  <2>5. QED
    BY <1>1, <1>3, <2>2, <2>3, <2>4, ExecutedStep
<1>4. QED
  BY <1>1, <1>2, <1>3, Monotone

(* Under any number of concurrent attempts the audit chain records at most  *)
(* one merge, only of a merged pull request, and names a decided head.      *)
THEOREM AuditIsTruthful == Spec => []AuditNamesTheOneMerge
<1>1. Init => AuditInv
  BY DEF Init, AuditInv, OneMergeInFlight, AuditNamesTheOneMerge, Executed, IdleAttempt
<1>2. AuditInv => AuditNamesTheOneMerge
  BY DEF AuditInv
<1>3. QED
  BY <1>1, <1>2, Invariance, AuditStep, PTL DEF Spec

-----------------------------------------------------------------------------

(* A step of the interleaved evaluation is a step of the atomic policy, or  *)
(* none at all.                                                             *)
LEMMA PolicyStep ==
    IInv /\ [Next]_vars => [Policy!PolicyNext]_(Policy!policyVars)
<1> SUFFICES ASSUME IInv, [Next]_vars
             PROVE  Policy!PolicyNext \/ UNCHANGED Policy!policyVars
  OBVIOUS
<1>1. CASE UNCHANGED <<attempt, outcomeVars>> /\ prState' = prState
  <2>1. EvidenceGrows
    BY Monotone DEF IInv
  <2>2. Policy!Gather
    BY <1>1, <2>1 DEF Policy!Gather, EvidenceGrows, IInv, TypeOK, outcomeVars
  <2>3. QED
    BY <2>2 DEF Policy!PolicyNext
<1>2. ASSUME NEW a \in Attempts, AttemptStep(a)
      PROVE  Policy!PolicyNext \/ UNCHANGED Policy!policyVars
  <2>1. UNCHANGED <<passedTests, codeReviewed, securityReview, approvals>>
    BY <1>2, AttemptShared DEF signalVars
  <2>2. CASE PersistDecision(a) /\ attempt[a].decision = "merge"
    <3>1. PICK h \in Heads, b \in Bases : h = attempt[a].head /\ b = attempt[a].base
      BY <2>2 DEF IInv, AttemptHasShas, PersistDecision
    <3>2. Evidence(h, b)
      BY <2>2, <3>1 DEF IInv, VerdictHasEvidence
    <3>3. Policy!Clear(h, b)
      BY <2>1, <2>2, <3>1, <3>2
      DEF Policy!Clear, Policy!Supported, Evidence, PersistDecision, githubVars
    <3>4. /\ h \in {g \in codeReviewed : securityReview[g] = "complete"}
          /\ b \in {p[2] : p \in passedTests}
      BY <3>2 DEF Evidence
    <3>5. QED
      BY <3>3, <3>4 DEF Policy!PolicyNext
  <2>3. CASE ExecuteMerge(a)
    <3>1. <<attempt[a].head, attempt[a].base>> \in decided
      BY <2>3 DEF IInv, MergerIsDecided, ExecuteMerge
    <3>2. Policy!Merge
      BY <2>1, <2>3, <3>1 DEF Policy!Merge, ExecuteMerge, outcomeVars
    <3>3. QED
      BY <3>2 DEF Policy!PolicyNext
  <2>4. CASE UNCHANGED <<decided, prState>>
    BY <2>1, <2>4 DEF Policy!policyVars
  <2>5. QED
    BY <1>2, <2>2, <2>3, <2>4, AttemptShared, ExecutedStep
    DEF IInv, ExecuteMerge, PersistDecision, githubVars, outcomeVars
<1>3. QED
  BY <1>1, <1>2, Monotone DEF IInv

(* The evaluator and the merge service, with every await a step, implement  *)
(* the atomic promise of MergePolicy.                                       *)
THEOREM MergeGateImplementsPolicy == Spec => ImplementsPolicy
<1>1. Init => Policy!PolicyInit
  BY DEF Init, Policy!PolicyInit
<1>2. QED
  BY <1>1, Invariance, PolicyStep, PTL DEF Spec, ImplementsPolicy, Policy!PolicySpec

=============================================================================
