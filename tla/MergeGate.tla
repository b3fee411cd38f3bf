----------------------------- MODULE MergeGate -----------------------------
(***************************************************************************)
(* One pull request on its way to the default branch: the stores the five  *)
(* gates are read from, the attempts that evaluate the gates and merge     *)
(* (GitHubStateHydrator, GateResultsReader, GateAggregator,                *)
(* MergeFinalEvaluator, MergeService) and the world that moves meanwhile.  *)
(*                                                                         *)
(* Every `await` of an attempt is a step of its own, so a push, a base     *)
(* advance, a late test result or a finding can fall between two reads.    *)
(* The inputs of `evaluate` and `merge` that no step changes (the tested   *)
(* shas, mergeable_state, requiresHumanReview, the protection snapshot,    *)
(* the token) are chosen where the code first looks at them.               *)
(***************************************************************************)
EXTENDS FiniteSets

CONSTANTS
    Heads,              \* head shas the branch can carry
    Bases,              \* tips the base branch can have
    Attempts,           \* concurrent evaluate-then-merge attempts
    BaseAdvancedPolicy, \* "queue" (the default) or "refuse"
    None                \* no record yet

ASSUME ShaAssumption ==
    /\ None \notin Heads
    /\ Heads # {}
    /\ Bases # {}

ASSUME PolicyAssumption == BaseAdvancedPolicy \in {"queue", "refuse"}

GateKinds ==
    {"test", "ai_review", "human_review", "risk_policy", "security_findings"}

TestRecord == [head : Heads, base : Bases, passed : BOOLEAN]
RiskRecord == [head : Heads, requires : BOOLEAN]

ASSUME NoneAssumption == None \notin TestRecord \union RiskRecord

(* A blocking security finding at a head: "open" when the review the AI    *)
(* gate waits for reported it, "late" when a repeated review did.          *)
FindingStatus == {"none", "open", "late", "closed"}
IsOpen(status) == status \in {"open", "late"}

MergeableStates == {"clean", "blocked", "behind", "dirty", "unknown", "unstable"}

(* What a branch-protection rule can enforce; MergeService wants it all. *)
ProtectionRules ==
    {"required_reviews", "enforce_admins", "status_checks", "dismiss_stale"}

AttemptPC ==
    {"idle", "test", "ai_review", "human_review", "risk", "findings",
     "persist", "decided", "merging", "audit"}

VARIABLES
    head,           \* the pull request's head on GitHub
    carried,        \* the heads it has had so far
    base,           \* the tip of its base branch
    prState,        \* "open" or "merged"
    passedTests,    \* <<head, base>> of every passing test-gate row
    latestTest,     \* the row testGates.findLatest returns
    codeReviewed,   \* heads with a completed code review
    securityReview, \* per head: "none", findings "recorded", or "complete"
    findings,       \* per head: status of its blocking finding
    approvals,      \* heads with a maintainer approval on record
    latestApproval, \* the head humanApprovals.findLatest returns
    risk,           \* the run's risk classification
    attempt,        \* per attempt: control point, hydrated shas, green gates
    decided,        \* <<head, base>> of every persisted `merge` decision
    audit           \* merge.executed / merge.refused records, with their head

githubVars == <<head, carried, base, prState>>
signalVars == <<passedTests, latestTest, codeReviewed, securityReview,
                findings, approvals, latestApproval, risk>>
outcomeVars == <<decided, audit>>
vars == <<githubVars, signalVars, attempt, outcomeVars>>

AttemptRecord ==
    [pc : AttemptPC, head : Heads \union {None}, base : Bases \union {None},
     gates : SUBSET GateKinds, decision : {"none", "merge", "refuse", "queue"}]

(* An attempt that is not running holds nothing. *)
IdleAttempt ==
    [pc |-> "idle", head |-> None, base |-> None, gates |-> {}, decision |-> "none"]

(* `by` tells the records of different attempts apart, as their ids do. *)
AuditRecord ==
    [kind : {"merge.executed", "merge.refused"}, head : Heads, by : Attempts]

TypeOK ==
    /\ head \in Heads
    /\ carried \subseteq Heads
    /\ base \in Bases
    /\ prState \in {"open", "merged"}
    /\ passedTests \subseteq Heads \X Bases
    /\ latestTest \in TestRecord \union {None}
    /\ codeReviewed \subseteq Heads
    /\ securityReview \in [Heads -> {"none", "recorded", "complete"}]
    /\ findings \in [Heads -> FindingStatus]
    /\ approvals \subseteq Heads
    /\ latestApproval \in Heads \union {None}
    /\ risk \in RiskRecord \union {None}
    /\ attempt \in [Attempts -> AttemptRecord]
    /\ decided \subseteq Heads \X Bases
    /\ audit \subseteq AuditRecord

Init ==
    /\ head \in Heads
    /\ carried = {head}
    /\ base \in Bases
    /\ prState = "open"
    /\ passedTests = {}
    /\ latestTest = None
    /\ codeReviewed = {}
    /\ securityReview = [h \in Heads |-> "none"]
    /\ findings = [h \in Heads |-> "none"]
    /\ approvals = {}
    /\ latestApproval = None
    /\ risk = None
    /\ attempt = [a \in Attempts |-> IdleAttempt]
    /\ decided = {}
    /\ audit = {}

-----------------------------------------------------------------------------
(* GitHub: the author (force-)pushes, the base branch advances. *)

Push(h) ==
    /\ prState = "open"
    /\ h # head
    /\ head' = h
    /\ carried' = carried \union {h}
    /\ UNCHANGED <<base, prState, signalVars, attempt, outcomeVars>>

AdvanceBase(b) ==
    /\ prState = "open"
    /\ b # base
    /\ base' = b
    /\ UNCHANGED <<head, carried, prState, signalVars, attempt, outcomeVars>>

-----------------------------------------------------------------------------
(* The signal producers.  A result may arrive for a sha that is no longer  *)
(* the head: the work it reports started before the push.  Tests also run  *)
(* on commits that have not been pushed yet.                               *)

RecordTest(h, b, passed) ==
    /\ latestTest' = [head |-> h, base |-> b, passed |-> passed]
    /\ passedTests' = IF passed THEN passedTests \union {<<h, b>>} ELSE passedTests
    /\ UNCHANGED <<githubVars, codeReviewed, securityReview, findings,
                   approvals, latestApproval, risk, attempt, outcomeVars>>

CompleteCodeReview(h) ==
    /\ h \in carried
    /\ codeReviewed' = codeReviewed \union {h}
    /\ UNCHANGED <<githubVars, passedTests, latestTest, securityReview, findings,
                   approvals, latestApproval, risk, attempt, outcomeVars>>

(* SecurityReviewRunner.run: the findings are upserted before the result   *)
(* is returned; a row that exists keeps its status whatever is reported.   *)
RecordSecurityFindings(h, blocking) ==
    /\ h \in carried
    /\ securityReview[h] = "none"
    /\ securityReview' = [securityReview EXCEPT ![h] = "recorded"]
    /\ findings' = [findings EXCEPT ![h] = IF blocking THEN "open" ELSE "none"]
    /\ UNCHANGED <<githubVars, passedTests, latestTest, codeReviewed,
                   approvals, latestApproval, risk, attempt, outcomeVars>>

(* The caller records the completed review from the returned result. *)
CompleteSecurityReview(h) ==
    /\ securityReview[h] = "recorded"
    /\ securityReview' = [securityReview EXCEPT ![h] = "complete"]
    /\ UNCHANGED <<githubVars, passedTests, latestTest, codeReviewed, findings,
                   approvals, latestApproval, risk, attempt, outcomeVars>>

(* A repeated review of a head that is already complete reports more. *)
RepeatSecurityReview(h) ==
    /\ securityReview[h] = "complete"
    /\ findings[h] = "none"
    /\ findings' = [findings EXCEPT ![h] = "late"]
    /\ UNCHANGED <<githubVars, passedTests, latestTest, codeReviewed,
                   securityReview, approvals, latestApproval, risk, attempt,
                   outcomeVars>>

CloseFinding_Mutant(h) ==
    /\ IsOpen(findings[h])
    /\ findings' = [findings EXCEPT ![h] = "fixed at head"]
    /\ UNCHANGED <<githubVars, passedTests, latestTest, codeReviewed,
                   securityReview, approvals, latestApproval, risk, attempt,
                   outcomeVars>>

(* FindingLifecycleService.markFixed by the reviewer, or dismiss. *)
CloseFinding(h) ==
    /\ IsOpen(findings[h])
    /\ findings' = [findings EXCEPT ![h] = "closed"]
    /\ UNCHANGED <<githubVars, passedTests, latestTest, codeReviewed,
                   securityReview, approvals, latestApproval, risk, attempt,
                   outcomeVars>>

Approve(h) ==
    /\ h \in carried
    /\ approvals' = approvals \union {h}
    /\ latestApproval' = h
    /\ UNCHANGED <<githubVars, passedTests, latestTest, codeReviewed,
                   securityReview, findings, risk, attempt, outcomeVars>>

ClassifyRisk(h, requires) ==
    /\ h \in carried
    /\ risk' = [head |-> h, requires |-> requires]
    /\ UNCHANGED <<githubVars, passedTests, latestTest, codeReviewed,
                   securityReview, findings, approvals, latestApproval,
                   attempt, outcomeVars>>

Signals(heads, bases) ==
    \E h \in heads :
        \/ \E b \in bases, passed \in BOOLEAN : RecordTest(h, b, passed)
        \/ CompleteCodeReview(h)
        \/ \E blocking \in BOOLEAN : RecordSecurityFindings(h, blocking)
        \/ CompleteSecurityReview(h)
        \/ RepeatSecurityReview(h)
        \/ CloseFinding(h)
        \/ Approve(h)
        \/ \E requires \in BOOLEAN : ClassifyRisk(h, requires)

-----------------------------------------------------------------------------
(* An attempt: MergeFinalEvaluator.evaluate, then MergeService.merge. *)

(* Each gate's verdict on its own store, bound to the hydrated shas.  The   *)
(* definitions named *_Mutant are wrong on purpose: a run with one in place *)
(* of the definition below it must fail.                                    *)
TestGateGreen_Mutant(at) ==
    latestTest # None /\ latestTest.head = at.head /\ latestTest.passed

TestGateGreen(at) ==
    latestTest = [head |-> at.head, base |-> at.base, passed |-> TRUE]

AiReviewGreen_Mutant(at) == at.head \in codeReviewed

AiReviewGreen(at) ==
    at.head \in codeReviewed /\ securityReview[at.head] = "complete"

HumanReviewGreen(at) == latestApproval = at.head

RiskPolicyGreen(at) ==
    /\ risk # None
    /\ risk.head = at.head
    /\ risk.requires => "human_review" \in at.gates

SecurityFindingsGreen(at) == ~IsOpen(findings[at.head])

(* GateAggregator: mergeable iff every required kind passed. *)
Mergeable_Mutant(gates) == GateKinds \ {"human_review"} \subseteq gates

Mergeable(gates) == gates = GateKinds

(* The final evaluator's verdict once the gates have been aggregated. *)
Decision(at, gates, testedHead, testedBase, mergeableState, requiresHuman) ==
    LET refusalReason ==
            \/ mergeableState \in {"blocked", "dirty"}
            \/ at.head # testedHead
            \/ requiresHuman /\ "human_review" \notin gates
        baseMoved == at.base # testedBase
    IN  CASE baseMoved /\ BaseAdvancedPolicy = "queue" -> "queue"
          [] ~baseMoved /\ ~refusalReason /\ Mergeable(gates) -> "merge"
          [] OTHER -> "refuse"

(* What evaluate may conclude, over the inputs its caller can give it. *)
Verdicts(at, gates) ==
    {Decision(at, gates, testedHead, testedBase, state, requires) :
        testedHead \in Heads, testedBase \in Bases,
        state \in MergeableStates, requires \in BOOLEAN}

(* One awaited read: the gate is noted and control moves to the next one. *)
ReadGate(a, kind, green, next) ==
    attempt' = [attempt EXCEPT
                  ![a].pc = next,
                  ![a].gates = IF green THEN @ \union {kind} ELSE @]

(* hydrate throws unless the pull request is open: nothing happens then. *)
Hydrate(a) ==
    /\ attempt[a].pc = "idle"
    /\ prState = "open"
    /\ attempt' = [attempt EXCEPT
                     ![a] = [pc |-> "test", head |-> head, base |-> base,
                             gates |-> {}, decision |-> "none"]]
    /\ UNCHANGED <<githubVars, signalVars, outcomeVars>>

ReadTestGate(a) ==
    /\ attempt[a].pc = "test"
    /\ ReadGate(a, "test", TestGateGreen(attempt[a]), "ai_review")
    /\ UNCHANGED <<githubVars, signalVars, outcomeVars>>

ReadAiReviews(a) ==
    /\ attempt[a].pc = "ai_review"
    /\ ReadGate(a, "ai_review", AiReviewGreen(attempt[a]), "human_review")
    /\ UNCHANGED <<githubVars, signalVars, outcomeVars>>

ReadApproval(a) ==
    /\ attempt[a].pc = "human_review"
    /\ ReadGate(a, "human_review", HumanReviewGreen(attempt[a]), "risk")
    /\ UNCHANGED <<githubVars, signalVars, outcomeVars>>

ReadRisk(a) ==
    /\ attempt[a].pc = "risk"
    /\ ReadGate(a, "risk_policy", RiskPolicyGreen(attempt[a]), "findings")
    /\ UNCHANGED <<githubVars, signalVars, outcomeVars>>

(* The last read; aggregation and decision follow without an await. *)
ReadFindingsAndDecide(a) ==
    /\ attempt[a].pc = "findings"
    /\ LET at == attempt[a]
           gates == IF SecurityFindingsGreen(at)
                    THEN at.gates \union {"security_findings"}
                    ELSE at.gates
       IN  \E verdict \in Verdicts(at, gates) :
             attempt' = [attempt EXCEPT ![a].pc = "persist",
                                        ![a].gates = {},
                                        ![a].decision = verdict]
    /\ UNCHANGED <<githubVars, signalVars, outcomeVars>>

(* The decision is written to the artifact store.  MergeService.merge      *)
(* returns at once, without an audit record, unless the decision is merge. *)
PersistDecision(a) ==
    /\ attempt[a].pc = "persist"
    /\ IF attempt[a].decision = "merge"
       THEN /\ decided' = decided \union {<<attempt[a].head, attempt[a].base>>}
            /\ attempt' = [attempt EXCEPT ![a].pc = "decided"]
       ELSE /\ attempt' = [attempt EXCEPT ![a] = IdleAttempt]
            /\ UNCHANGED decided
    /\ UNCHANGED <<githubVars, signalVars, audit>>

(* High-risk without human review, weakened protection or a bad token. *)
Refusal(requiresHuman, humanPassed, protection, isMergeManager) ==
    \/ requiresHuman /\ ~humanPassed
    \/ protection # ProtectionRules
    \/ ~isMergeManager

AuditEntry(a, kind) == [kind |-> kind, head |-> attempt[a].head, by |-> a]

AuditRefusal(a) ==
    /\ attempt[a].pc = "decided"
    /\ \E requires, humanPassed, manager \in BOOLEAN,
          protection \in SUBSET ProtectionRules :
            Refusal(requires, humanPassed, protection, manager)
    /\ audit' = audit \union {AuditEntry(a, "merge.refused")}
    /\ attempt' = [attempt EXCEPT ![a] = IdleAttempt]
    /\ UNCHANGED <<githubVars, signalVars, decided>>

Authorize_Mutant(a) ==
    /\ attempt[a].pc = "decided"
    /\ audit' = audit \union {AuditEntry(a, "merge.executed")}
    /\ attempt' = [attempt EXCEPT ![a].pc = "merging"]
    /\ UNCHANGED <<githubVars, signalVars, decided>>

Authorize(a) ==
    /\ attempt[a].pc = "decided"
    /\ \E requires, humanPassed, manager \in BOOLEAN,
          protection \in SUBSET ProtectionRules :
            ~Refusal(requires, humanPassed, protection, manager)
    /\ attempt' = [attempt EXCEPT ![a].pc = "merging"]
    /\ UNCHANGED <<githubVars, signalVars, outcomeVars>>

(* github.merge carries no sha: whatever the head is now gets merged. *)
ExecuteMerge(a) ==
    /\ attempt[a].pc = "merging"
    /\ prState = "open"
    /\ prState' = "merged"
    /\ attempt' = [attempt EXCEPT ![a].pc = "audit"]
    /\ UNCHANGED <<head, carried, base, signalVars, outcomeVars>>

AuditMerge(a) ==
    /\ attempt[a].pc = "audit"
    /\ audit' = audit \union {AuditEntry(a, "merge.executed")}
    /\ attempt' = [attempt EXCEPT ![a] = IdleAttempt]
    /\ UNCHANGED <<githubVars, signalVars, decided>>

(* The attempt is lost: a port throws (GitHub answers that the pull        *)
(* request is not open, an artifact write fails) or the process dies.      *)
Abandon(a) ==
    /\ attempt[a].pc # "idle"
    /\ attempt' = [attempt EXCEPT ![a] = IdleAttempt]
    /\ UNCHANGED <<githubVars, signalVars, outcomeVars>>

AttemptStep(a) ==
    \/ Hydrate(a)
    \/ ReadTestGate(a)
    \/ ReadAiReviews(a)
    \/ ReadApproval(a)
    \/ ReadRisk(a)
    \/ ReadFindingsAndDecide(a)
    \/ PersistDecision(a)
    \/ AuditRefusal(a)
    \/ Authorize(a)
    \/ ExecuteMerge(a)
    \/ AuditMerge(a)
    \/ Abandon(a)

(* What happens to a pull request of these heads, bases and attempts. *)
NextOver(heads, bases, attempts) ==
    \/ \E h \in heads : Push(h)
    \/ \E b \in bases : AdvanceBase(b)
    \/ Signals(heads, bases)
    \/ \E a \in attempts : AttemptStep(a)

Next == NextOver(Heads, Bases, Attempts)

Spec == Init /\ [][Next]_vars

-----------------------------------------------------------------------------

(* Evidence bound to exactly this head and base, whenever it was recorded. *)
Evidence(h, b) ==
    /\ <<h, b>> \in passedTests
    /\ h \in codeReviewed
    /\ securityReview[h] = "complete"
    /\ h \in approvals

(* A persisted `merge` decision names a head and a base for which a test   *)
(* gate passed, both reviewers finished and a maintainer approved: the     *)
(* five reads of GateResultsReader.read, taken while heads, bases and      *)
(* records change, never combine evidence about different commits.         *)
ClearedPairHasEvidence == \A p \in decided : Evidence(p[1], p[2])

(* The findings a counted security review reported are never overlooked:   *)
(* they are upserted before the review counts as complete, and the gate    *)
(* reads the reviews before it reads the findings, so no decision clears a *)
(* head at which such a finding is open.                                   *)
CountedFindingsClosed == \A p \in decided : findings[p[1]] # "open"

Executed == {r \in audit : r.kind = "merge.executed"}

(* The audit chain is truthful about merges under concurrent attempts: a   *)
(* merge.executed record exists only for a merged pull request, only once, *)
(* and names a head a `merge` decision was persisted for.                  *)
AuditNamesTheOneMerge ==
    /\ \A r \in Executed :
          /\ prState = "merged"
          /\ \E b \in Bases : <<r.head, b>> \in decided
    /\ \A r, s \in Executed : r = s

(* MergeService, header: "Merge only when the final evaluator returned     *)
(* decision='merge' for a fresh MergeDecision".  The head that is merged   *)
(* is one that was decided on.  The code does not keep it.                 *)
MergedHeadWasDecided ==
    prState = "merged" => \E b \in Bases : <<head, b>> \in decided

(* FindingLifecycleService, header: an unresolved blocking finding must be *)
(* surfaced to the gate, and a new head does not close it.  The evaluator  *)
(* never reaches `merge` while one is open.  The code does not keep it.    *)
NoMergeVerdictOverOpenFinding ==
    [][\A a \in Attempts :
         attempt[a].decision # "merge" /\ attempt'[a].decision = "merge"
           => \A h \in Heads : ~IsOpen(findings[h])]_vars

-----------------------------------------------------------------------------

Policy == INSTANCE MergePolicy WITH
    tested   <- passedTests,
    reviewed <- {h \in codeReviewed : securityReview[h] = "complete"},
    approved <- approvals,
    cleared  <- decided,
    merged   <- (prState = "merged")

(* The interleaved evaluation implements the atomic promise: clearing a    *)
(* pair is one step taken on evidence for that pair, and the pull request  *)
(* is merged once, after some pair was cleared.                            *)
ImplementsPolicy == Policy!PolicySpec

=============================================================================
