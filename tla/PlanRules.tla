----------------------------- MODULE PlanRules -----------------------------
(***************************************************************************)
(* The rules a drafted ImplementationPlan must pass: the deterministic     *)
(* risk classifier over the paths and packages a plan touches, and         *)
(* PlanValidator.  One path or package stands for each kind the two rule   *)
(* tables tell apart; "x includes y" on strings is a table.                *)
(***************************************************************************)
EXTENDS Naturals, SequencesExt

Severities == {"low", "medium", "high", "critical"}
SeverityRank == [low |-> 0, medium |-> 1, high |-> 2, critical |-> 3]

Tiers == {"low", "standard", "high", "frontier"}
ModelTierRank == [low |-> 0, standard |-> 1, high |-> 2, frontier |-> 3]

MinModelTier ==
    [low |-> "low", medium |-> "standard", high |-> "high", critical |-> "frontier"]

MaxSeverity(severities) ==
    CHOOSE s \in severities \union {"low"} :
        \A t \in severities : SeverityRank[t] <= SeverityRank[s]

-----------------------------------------------------------------------------

(* The patterns of the rule tables, a representative of each severity, and  *)
(* what a task can list: a pattern's directory, a file in it, other paths.  *)
ProtectedPathRules == [auth |-> "critical", workflows |-> "high"]
DependencyRules == [vitest |-> "medium", passport |-> "critical"]

Listed == {"auth", "auth/login", "workflows", "src", "vitest", "passport"}

Includes(entry, pattern) ==
    entry = pattern \/ (entry = "auth/login" /\ pattern = "auth")

Matches(entries, rules) ==
    {[pattern |-> p, severity |-> rules[p]] :
        p \in {q \in DOMAIN rules : \E e \in entries : Includes(e, q)}}

SeverityOf(matches) == MaxSeverity({r.severity : r \in matches})

(* RiskClassifier.classify: what the proposed paths and packages match.     *)
Risk(paths, packages) ==
    LET onPaths == Matches(paths, ProtectedPathRules)
        onPackages == Matches(packages, DependencyRules)
    IN [matches |-> onPaths \union onPackages,
        severity |-> MaxSeverity({SeverityOf(onPaths), SeverityOf(onPackages)})]

(* A declared risk is never below what the classifier found. *)
EnforceFloor(declared, risk) ==
    IF SeverityRank[declared] < SeverityRank[risk.severity] THEN risk.severity ELSE declared

-----------------------------------------------------------------------------

(* What the plan's schema admits as a task; the tasks of a plan are a       *)
(* sequence of them.  Criteria are ids of the specification's criteria.     *)
PlanTask ==
    [id : STRING, satisfies : (SUBSET STRING) \ {{}}, dependsOn : SUBSET STRING,
     allowed : (SUBSET STRING) \ {{}}, forbidden : SUBSET STRING, tier : Tiers]

Unmapped(tasks, criteria) ==
    criteria \ UNION {tasks[i].satisfies : i \in DOMAIN tasks}

TaskIds(tasks) == {tasks[i].id : i \in DOMAIN tasks}

(* The dependencies findsCycle follows: of two tasks with one id, the       *)
(* later one's; none for an id no task has.                                 *)
DependenciesOf(tasks, id) ==
    IF id \in TaskIds(tasks)
    THEN tasks[CHOOSE i \in DOMAIN tasks :
                 tasks[i].id = id /\ \A j \in DOMAIN tasks : tasks[j].id = id => j <= i
              ].dependsOn
    ELSE {}

(* What findsCycle looks for (PlanSearch): ids that each depend on one of   *)
(* them.                                                                    *)
HasCycle(tasks) ==
    \E ids \in SUBSET TaskIds(tasks) :
        ids # {} /\ \A id \in ids : DependenciesOf(tasks, id) \intersect ids # {}

(* What the validator says of one task against one match of the classifier. *)
TaskRespects(task, match, risk) ==
    IF \E p \in task.allowed : Includes(p, match.pattern)
    THEN \/ risk.severity = "low"
         \/ ModelTierRank[task.tier] >= ModelTierRank[MinModelTier[risk.severity]]
    ELSE \E p \in task.forbidden : Includes(p, match.pattern)

(* PlanValidator.validate: the codes of the findings, all of them errors;   *)
(* cyclic is what findsCycle answered.                                      *)
Findings(tasks, criteria, risk, cyclic, digestMatches, sameIssue) ==
    LET On(code, holds) == IF holds THEN {code} ELSE {}
        Some(P(_)) == \E i \in DOMAIN tasks : P(tasks[i])
    IN  On("unmapped_criterion", Unmapped(tasks, criteria) # {})
        \union On("duplicate_task_id", Cardinality(TaskIds(tasks)) < Len(tasks))
        \union On("unknown_dependency",
                  Some(LAMBDA t : ~(t.dependsOn \subseteq TaskIds(tasks))))
        \union On("dependency_cycle", cyclic)
        \union On("path_in_both_lists", Some(LAMBDA t : t.allowed \intersect t.forbidden # {}))
        \union On("plan_sha_mismatch", ~digestMatches)
        \union On("spec_mismatch", ~sameIssue)
        \union On("risk", Some(LAMBDA t :
                     \E r \in risk.matches : ~TaskRespects(t, r, risk)))

-----------------------------------------------------------------------------

(* What a plan without findings promises, said without the validator's      *)
(* algorithms: some order of the tasks has every dependency done before,    *)
(* every criterion is somebody's, and who may touch what a rule protects    *)
(* works at the tier of that rule's severity or above.                      *)
CanBeOrdered(tasks) ==
    \E order \in Bijection(DOMAIN tasks, DOMAIN tasks) :
        \A i \in DOMAIN tasks : \A d \in tasks[order[i]].dependsOn :
            \E j \in 1 .. i - 1 : tasks[order[j]].id = d

MeetsCriteria(tasks, criteria) ==
    \A c \in criteria : \E i \in DOMAIN tasks : c \in tasks[i].satisfies

GuardsWhatIsProtected(tasks, risk) ==
    \A i \in DOMAIN tasks, m \in risk.matches :
        LET touches == \E e \in tasks[i].allowed : Includes(e, m.pattern)
        IN IF touches
           THEN ModelTierRank[tasks[i].tier] >= ModelTierRank[MinModelTier[m.severity]]
           ELSE \E e \in tasks[i].forbidden : Includes(e, m.pattern)

CanBeCarriedOut(tasks, criteria, risk) ==
    CanBeOrdered(tasks) /\ MeetsCriteria(tasks, criteria) /\ GuardsWhatIsProtected(tasks, risk)

=============================================================================
