------------------------------ MODULE MCStages ------------------------------
(***************************************************************************)
(* One model for the components that share no state with one another: the  *)
(* stages an issue passes on its way, and the stores and limits they use.  *)
(* A behaviour is about one of them, the focus it starts with; what TLC    *)
(* explores is the sum of their state spaces, and a property that speaks   *)
(* of one component is checked in all of that component's behaviours.      *)
(***************************************************************************)
EXTENDS Planning, PlanSearch, Intake, TestFixLoop, MCWorktrees, Reviews, AuditChain, RunStore,
        DriftScan, Limits, PolicyCache

VARIABLE
    focus       \* the component the behaviour is about

othersThanPlanning ==
    <<searchVars, intakeVars, loopVars, worktreeVars, reviewVars, auditVars, runVars,
      driftVars, limitVars, cacheVars>>
othersThanSearch ==
    <<planningVars, intakeVars, loopVars, worktreeVars, reviewVars, auditVars, runVars,
      driftVars, limitVars, cacheVars>>
othersThanIntake ==
    <<planningVars, searchVars, loopVars, worktreeVars, reviewVars, auditVars, runVars,
      driftVars, limitVars, cacheVars>>
othersThanLoop ==
    <<planningVars, searchVars, intakeVars, worktreeVars, reviewVars, auditVars, runVars,
      driftVars, limitVars, cacheVars>>
othersThanWorktree ==
    <<planningVars, searchVars, intakeVars, loopVars, reviewVars, auditVars, runVars,
      driftVars, limitVars, cacheVars>>
othersThanReview ==
    <<planningVars, searchVars, intakeVars, loopVars, worktreeVars, auditVars, runVars,
      driftVars, limitVars, cacheVars>>
othersThanAudit ==
    <<planningVars, searchVars, intakeVars, loopVars, worktreeVars, reviewVars, runVars,
      driftVars, limitVars, cacheVars>>
othersThanRun ==
    <<planningVars, searchVars, intakeVars, loopVars, worktreeVars, reviewVars, auditVars,
      driftVars, limitVars, cacheVars>>
othersThanDrift ==
    <<planningVars, searchVars, intakeVars, loopVars, worktreeVars, reviewVars, auditVars,
      runVars, limitVars, cacheVars>>
othersThanLimit ==
    <<planningVars, searchVars, intakeVars, loopVars, worktreeVars, reviewVars, auditVars,
      runVars, driftVars, cacheVars>>
othersThanCache ==
    <<planningVars, searchVars, intakeVars, loopVars, worktreeVars, reviewVars, auditVars,
      runVars, driftVars, limitVars>>

-----------------------------------------------------------------------------

(* Drafts for the plan rules: every graph of dependencies over three tasks, *)
(* two of them with one id or none, and two tasks with every choice of      *)
(* paths and tiers.                                                         *)
Task(id, satisfies, dependsOn, allowed, forbidden, tier) ==
    [id |-> id, satisfies |-> satisfies, dependsOn |-> dependsOn, allowed |-> allowed,
     forbidden |-> forbidden, tier |-> tier]

GraphDrafts ==
    {[i \in 1 .. 3 |-> Task(ids[i], {"ac1"}, deps[i], {"src"}, {}, "low")] :
        ids \in {<<"t1", "t2", "t3">>, <<"t1", "t2", "t1">>},
        deps \in [1 .. 3 -> SUBSET {"t1", "t2", "t3"}]}

PathChoices ==
    {Task("t1", satisfies, {}, {allowed}, forbidden, tier) :
        satisfies \in {{"ac1"}, {"ac2"}}, allowed \in {"src", "auth", "auth/login", "workflows"},
        forbidden \in {{}, {"auth"}, {"auth", "workflows"}}, tier \in {"low", "high", "frontier"}}

PathDrafts ==
    {<<t, [u EXCEPT !.id = "t2", !.satisfies = {"ac2"}]>> : t, u \in PathChoices}

RiskOf(tasks) == Risk(UNION {tasks[i].allowed : i \in DOMAIN tasks}, {})

(* What the planning agent can return in the other behaviours. *)
MCDrafts ==
    [good |-> <<Task("t1", {"ac1"}, {}, {"src"}, {}, "low")>>,
     bad |-> <<Task("t1", {"ac1"}, {"t1"}, {"auth"}, {}, "low")>>]

MCDraftedPlans == GraphDrafts \union PathDrafts \union {MCDrafts.good}

MCBreakages ==
    {{}, {<<"unit", "f">>}, {<<"unit", "f">>, <<"lint", "g">>}, {<<"lint", "crash">>},
     {<<"lint", "g">>, <<"lint", "h">>}}
MCTemplate == [f |-> "tf", g |-> "tg", h |-> "tf"]
MCCriterionKinds == [ac1 |-> "test", ac2 |-> "review", ac3 |-> "manual"]

MCAnswers ==
    [code |-> {{[rule |-> "style", blocking |-> TRUE], [rule |-> "", blocking |-> FALSE]}},
     security |-> {{}, {[rule |-> "auth", blocking |-> TRUE]}}]

MCAuditBounds ==
    {[appends |-> [r1 |-> 3, r2 |-> 0], checkpoints |-> 1],
     [appends |-> [r1 |-> 1, r2 |-> 1], checkpoints |-> 2]}

MCHolder == [f1 |-> "worker", f2 |-> "worker", f3 |-> "reconciler"]
MCRunOrder == <<"r1", "r2">>
MCLimit == [budget |-> 2, quota |-> 1]

-----------------------------------------------------------------------------

Stages == {"rules", "planning", "intake", "loop", "worktrees", "reviews", "audit", "runs",
           "drift", "limits", "cache"}

(* Only the focus starts in every state its component can start in. *)
StagesInit ==
    /\ focus \in Stages
    /\ SearchInit
    /\ focus # "rules" => drafted = MCDrafts.good
    /\ PlanningInit /\ IntakeInit /\ LoopInit /\ WorktreeInit /\ ReviewInit
    /\ AuditInit /\ RunInit /\ DriftInit /\ LimitInit
    /\ CacheInit
    /\ focus # "loop" => broken = {}
    /\ focus # "audit" => left = [appends |-> [r1 |-> 1, r2 |-> 1], checkpoints |-> 2]
    /\ focus # "drift" => failing = {}
    /\ focus # "cache" => registry = {}

StagesNext ==
    /\ UNCHANGED focus
    /\ \/ focus = "rules" /\ SearchNext /\ UNCHANGED othersThanSearch
       \/ focus = "planning" /\ PlanningNext /\ UNCHANGED othersThanPlanning
       \/ focus = "intake" /\ IntakeNext /\ UNCHANGED othersThanIntake
       \/ focus = "loop" /\ LoopNext /\ UNCHANGED othersThanLoop
       \/ focus = "worktrees" /\ WorktreeNext /\ UNCHANGED othersThanWorktree
       \/ focus = "reviews" /\ ReviewNext /\ UNCHANGED othersThanReview
       \/ focus = "audit" /\ AuditNext /\ UNCHANGED othersThanAudit
       \/ focus = "runs" /\ RunNext /\ UNCHANGED othersThanRun
       \/ focus = "drift" /\ DriftNext /\ UNCHANGED othersThanDrift
       \/ focus = "limits" /\ LimitNext /\ UNCHANGED othersThanLimit
       \/ focus = "cache" /\ CacheNext /\ UNCHANGED othersThanCache

stagesVars == <<focus, planningVars, searchVars, intakeVars, loopVars, worktreeVars, reviewVars,
                auditVars, runVars, driftVars, limitVars, cacheVars>>

(* In the behaviours that are about it, a component is fair in what its     *)
(* code drives: a handler's awaited calls settle unless it dies, the bus    *)
(* delivers, time passes and the sweeper's job runs; a queued continuation  *)
(* runs; the scheduler's interval keeps firing; a load ends.                *)
StagesFairness ==
    /\ \A r \in Receivers : WF_intakeVars(focus = "intake" /\ ReceiverStep(r))
    /\ WF_intakeVars(focus = "intake" /\ ConsumeRequest)
    /\ WF_intakeVars(focus = "intake" /\ PassTime)
    /\ \A s \in Sessions : WF_intakeVars(focus = "intake" /\ Sweep(s))
    /\ \A f \in Locking : WF_runVars(focus = "runs" /\ LockStep(f))
    /\ WF_driftVars(focus = "drift" /\ TickAndList)
    /\ WF_driftVars(focus = "drift" /\ ScanStep)
    /\ \A g \in Getters : WF_cacheVars(focus = "cache" /\ (GetterStep(g) \/ LoadThrows(g)))
    /\ WF_cacheVars(focus = "cache" /\ CacheTick)

StagesSpec == StagesInit /\ [][StagesNext]_stagesVars /\ StagesFairness

-----------------------------------------------------------------------------

(* Of every component, whether it moves or not. *)
TypeOK ==
    /\ focus \in Stages
    /\ PlanningTypeOK /\ SearchTypeOK /\ IntakeTypeOK /\ LoopTypeOK /\ WorktreeTypeOK /\ ReviewTypeOK
    /\ AuditTypeOK /\ RunTypeOK /\ DriftTypeOK /\ LimitTypeOK /\ CacheTypeOK

(* implementation-plan.ts: when the search of a draft's dependencies ends,  *)
(* its answer is right, and a plan the validator then has nothing against   *)
(* can be carried out.                                                      *)
PlansAreJudgedRight == JudgedRight({"ac1"}, RiskOf(drafted))

=============================================================================
