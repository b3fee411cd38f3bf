# CGAO in TLA+

This directory is a verification project for CGAO, the Claude GitHub
Automation Orchestrator: TLA+ modules translated from its TypeScript source,
configurations that model-check them with TLC, and theorems about them checked
by TLAPS. CGAO takes an issue through specification, plan, code, pull request
and review to a merge; its value lies in what it must *not* do while GitHub,
webhooks, agents and people all move at once: merge a commit nobody tested,
open two pull requests, lose an event, run a cancelled agent, start work on a plan
nobody approved, lose what one of two parallel tasks wrote.

Paths are abbreviated: `O` is `src/apps/orchestrator/src`, `M` is `O/modules`,
`RB` is `src/apps/runner-broker/src`, `P` is `src/packages`.

## 1. The system

One Node.js process, the orchestrator, receives webhooks, keeps the workflow
runs and drives the modules. All concurrency is that of `async` functions on
one event loop: a handler runs atomically from one `await` to the next, and
anything else may run while it waits. Second processes exist (the runner
broker, a restarted orchestrator), and so do GitHub and Postgres, which answer
late, fail, or fail after having done what they were asked.

| Component | State | Operations | Talks to | What is hard | What makes it correct |
|---|---|---|---|---|---|
| **Merge gates and execution** `M/merge` | gate rows, reviews, approvals, risk, findings, decisions, audit records | hydrate, read five gates, aggregate, decide, persist, merge | GitHub, finding store, artifacts, audit chain | five awaited reads of moving stores; a push between decision and merge | a decision rests on evidence about one (head, base); what is merged was decided; the audit tells what happened |
| **Agent runs** `M/runner` | run records, FIFO queue | create, start, complete, fail, retry, cancel | audit chain, dispatchers | every operation loads, awaits, then saves the whole record | attempts bounded, no waiting run forgotten, transitions accounted for although the log may refuse a record, finished runs stay finished |
| **Webhook ingress** `O/webhook` | dedup records (24 h), mutation records (5 min) | verify, look up, remember, map, suppress, store, publish | event bus, artifacts | two copies of one delivery; a failure after `remember` | each event reaches the bus, none as a false duplicate |
| **Event bus** `P/eventbus` | queue and consumer set per topic | publish, subscribe, drain, retry, dead letter | consumers | nested and overlapping drains, live consumer sets | every consumer gets every message or a dead letter, once |
| **Pull requests** `M/prs` | in-flight map; `prNumber` of the run row | list, reuse, create, store, audit | GitHub, run store, audit chain | concurrent callers, lost answers, crashes, version conflicts | one pull request per run and head, stored and audited |
| **Workflow run store, run lock** `P/db` | versioned rows; holder, depth, waiters | create, update, acquire, release | all modules | optimistic versions; barging waiters, re-entrance | no lost update, no lost wake-up |
| **Audit chain, checkpoints** `P/audit` | hash-linked records per run; sealed checkpoints | append, list, verify, write checkpoint | immutable storage | appends that throw, writers racing for a sequence number, reads apart | an intact chain verifies, a changed one is not vouched for by a checkpoint |
| **Reviews, finding lifecycle, finding store** `M/review`, `P/db` | findings with a status | review, upsert, mark fixed, dismiss, close by omission | models, GitHub, audit | two closers; hashes that contain the head | a close is on record with its closer; a security blocker does not vanish |
| **Fast gate, test-fix loop** `RB/gate` | round, fingerprint counts, evidence | run gate, parse, debug, fix, verify | agents, artifacts | which of three ends comes first | at most five rounds; the same failure three times blocks |
| **Commands, plan approval, gate guards** `M/commands`, `P/policy` | authorisations, approvals, generations | parse, authorise, approve, bind, check | GitHub permissions, audit | permission, issue and generation move between awaits | an approval is earned; work starts on the issue it was approved for |
| **Specs and plans** `M/specs` | specification, plans | draft, validate, classify risk, post | agents, GitHub | cycles and duplicate ids, path rules | an accepted plan can be carried out |
| **Task worktrees, sandbox** `RB/worktree`, `RB/sandbox`, `RB/dev` | an overlay per task | dispatch, write, report, merge, validate, apply | agents, git | tasks that touch the same files | no work lost; nothing outside a task's paths (which fails for one form of pattern, finding 6) |
| **Reconciler** `M/reconcile` | overlap guard | tick, hydrate, detect drift, repair labels and comments | GitHub, stores, bus | late lists; a call that throws ends a tick | lasting drift of a run that ticks reach is reported; the labels converge to the state |
| **Issues** `M/issues` | category, status, labels, status comment | triage, project, upsert | GitHub | snapshots that are late; list then create | people keep their labels; the status comment tells the state; there is one of it (which fails, finding 7) |
| **Intake** `M/intake` | dedup claims, sessions | receive, claim, classify, clarify, request an issue, sweep | chat, bus, trusted runner | redelivery, handlers that die | one issue per message and window; every session ends |
| **Budgets, quotas, rate limits** `M/budget` | ledger totals, token buckets | check, consume, take | ledger, bus | check and consume are two awaits; the clock steps back | an overrun stays below what the racing callers asked for |
| **Policy cache, repository registry** `M/repos` | cached policies with a TTL | resolve, get, load, invalidate | loader | a load that straddles an invalidation | a stale policy is forgotten |
| **Merge queue, post-merge** `M/merge` | archive, labels, comments | handle merge group, close issue | GitHub | partial failures | everything or a visible failure |
| **Branches and commits; dependency policy; artifacts; prompts; events, schemas, dashboard** | little or none | rules, rendering, git and process I/O | | | functions of their input |

Components interact by awaited calls through injected ports, by events on the
bus, and by shared rows (workflow runs, findings, gate rows, audit chain).
`PROJECT.json` lists each component with its sources and status, and under
`hazards` every place in the code that is hard to test, at its line, with the
properties that watch it.

## 2. Modules

| Module | Models | Role |
|---|---|---|
| `MergePolicy` | the promise of the merge module | abstract specification |
| `MergeGate` | hydration to merge, with everything that moves meanwhile | implements `MergePolicy` |
| `MCMergeGate` | bound and symmetry for TLC | |
| `MergeGateProofs` | | proofs |
| `AgentRuns` | `RunnerBroker`, `AgentRunQueue` | |
| `MCAgentRuns` | symmetry for one run and its specification | |
| `MCServices` | `AgentRuns` and `PullRequests`, one at a time | EXTENDS both |
| `AgentRunsProofs` | | proofs |
| `EventBus` | `InMemoryEventBus` | a component of `Ingress` |
| `Ingress` | `handleGithubWebhook`, dedup store | EXTENDS `EventBus` |
| `PrRegistry` | the promise of `createPr` to its callers | abstract specification |
| `PullRequests` | `PullRequestService`, `WorkflowRunPrAdapter`, the version check of the run row | implements `PrRegistry` |
| `PullRequestsProofs` | | proofs |
| `IssueSurface` | `IssueTriageService`, `LabelProjectionService`, `StatusCommentService` | a component of `Reconcile` |
| `Reconcile` | `ProjectionReconcilerCoordinator` and its two repairers | EXTENDS `IssueSurface` |
| `MCReconcile` | values and bounds for TLC | |
| `PlanRules` | `PlanValidator`, `RiskClassifier` and their rules, as operators | a component of `Planning` |
| `PlanSearch` | `findsCycle`, step by step | EXTENDS `PlanRules` |
| `Planning` | specification, plan, comment parser, `CommandAuthorizationService`, `PlanApprovalService`, `HashBindingService`, `GateGuard` | EXTENDS `PlanRules` |
| `Intake` | adapters, `Deduplicator`, classifier, clarifier, `IntakeIssueCreator` | |
| `TestFixLoop` | `FastGateRunner`, `TestFixLoopController`, `VerifierRunner` | |
| `Worktrees` | `PathWritePolicy`, `WriteOverlay`, `runDevTask`, conflict resolver, `TaskMergeController`, patch validation and application | |
| `MCWorktrees` | values for TLC | |
| `Reviews` | `ReviewRunner`, `SecurityReviewRunner`, finding store, `FindingLifecycleService` | |
| `AuditChain` | `InMemoryAuditChainService`, `AuditCheckpointWriter`, `CheckpointVerifier` | |
| `RunStore` | `WorkflowRunRepository`, `InMemoryRunLock` | |
| `DriftScan` | `ReconcilerScheduler`, `GitHubHydrator`, `DriftDetector` | |
| `Limits` | `BudgetService`, `ActorQuotaService`, ledger, `RateLimiter` | |
| `PolicyCache` | `PerRepoPolicyCache`, registry, installation resolver | |
| `IngressProofs` | | proofs of `EventBus` and `Ingress` |
| `ReconcileProofs` | | proofs of `IssueSurface` and `Reconcile` |
| `PlanningProofs` | | proofs of `Planning`, `PlanRules` and `PlanSearch` |
| `StageProofs` | | proofs of `Intake`, `Reviews`, `TestFixLoop`, `Worktrees`, `DriftScan` and `MCStages` |
| `StoreProofs` | | proofs of `RunStore`, `Limits`, `AuditChain` and `PolicyCache` |
| `MCStages` | the eleven components from `PlanSearch` to `PolicyCache`, one at a time | EXTENDS them all |

Conventions. An action is what the code does between two awaits; its name is
that of the operation. Control points (`pc`) are named for what the task is
waiting for. A port that can throw has an action for it. Data is reduced to what
the properties tell apart: a sha is a model value, a payload is its kind.
Definitions named `..._Mutant` are deliberately wrong versions of the
definition that follows them; each property is known to fail with at least one
of them.

### MergeGate

`head`, `base` and `prState` are GitHub's view of one pull request, `carried`
the heads it has had. `passedTests`/`latestTest`, `codeReviewed`,
`securityReview`, `findings`, `approvals`/`latestApproval` and `risk` are the
stores behind the ports of `GateResultsReader`: where the code asks for the
*latest* row, so does the model. `attempt[a]` is one call of
`MergeFinalEvaluator.evaluate` followed by `MergeService.merge`: `Hydrate`,
`ReadTestGate`, `ReadAiReviews`, `ReadApproval`, `ReadRisk`,
`ReadFindingsAndDecide`, `PersistDecision`, then `AuditRefusal` or
`Authorize`, `ExecuteMerge`, `AuditMerge`, with `Abandon` for a throw or a
crash at any point. In parallel the author pushes, the base advances and every
kind of evidence arrives, also for shas that are no longer the head.
`ExecuteMerge` takes no sha because `github.merge` is given none. The inputs
the caller supplies (tested shas, mergeable state, human-review requirement,
protection snapshot, token) are quantified at the step that reads them.

`MergePolicy` has five variables: what was tested, reviewed, approved, cleared,
and whether the pull request was merged by the service. Its refinement mapping
is at the end of `MergeGate` (`ImplementsPolicy`).

### AgentRuns

`run` is the repository, `queue` the FIFO, `doing[c]` the operation a caller or
dispatcher is awaiting, with the record it loaded (`seen`): `Begin`/`BeginStart`
load, `Start`, `Complete`, `Retry`, `Fail`, `Cancel` check and save what was
loaded, `Reject` is the throw. The audit record follows the save:
`RecordTransition` appends it, `TransitionRefused` is `audit.append` throwing,
which leaves what was saved and queued as it is, and no record. `unrecorded` is
the history of those, which `StoredStateIsLogged` admits and nothing else.
Dispatchers stand for the loop the queue's comment describes; the broker does
not contain it.

`MCServices` checks `AgentRuns` and `PullRequests` in one run: they share no
state, and a behaviour is about one of them.

### EventBus and Ingress

A publishing task is a stack of drains, because giving up on a consumer
publishes a dead letter, whose drain runs inside the first. A frame holds the
message in hand, the consumers still to be served, the one awaited, and the
attempt. `Take` is the synchronous start of a drain (`queue.shift()` when
somebody listens); `Rejoin` says that the iteration over a JavaScript `Set` is
live. `owed` and `got` record which consumer is due which message and which
has returned from it; they are history. Consumers of a topic are served in any
order, the code's order being one of them.

`Ingress` runs a request through `Lookup`, `Remember`, `Map`, `MatchEcho` or
`MatchNothing`, `StoreAndPublish` or `StoreFails`, and publishes on the bus as
the task of its own name. A match of the suppression store may succeed or not:
which mutations were recorded is the environment's business. `Forget` is the
24-hour window.

### PullRequests

`call[c]` is one call of `createPr` with its locals, `inflight` the map keyed by
run, `prs` GitHub, `row` the version and `prNumber` of the workflow run row,
`audit` the chain. `Throw` is any awaited call failing, before its effect or
after it (a failure after the effect is the failure of the next step).
`Settle` is what the promise of `doCreatePr` does to the calls that joined it.
`Crash` empties the map and ends all calls; GitHub, the row and the chain
survive, as with the Postgres stores. GitHub is what the service's port and its
tests take it for: it keeps the head a pull request was created for and does
not refuse a second one. A create request that GitHub carries out *after* the
process has died and its successor has listed is not modelled (the service
names a unique constraint in the database as the guard against it).

`PrRegistry` is what the callers see of this, with four variables: the pull
requests opened, the number each run is registered under, the run each caller
asks for and the answer it got. `Registry` in `PullRequests` maps them to `prs`,
the rows' numbers, the calls' runs and the numbers of the answered calls; the
in-flight map, versions, loops, faults and crashes have no counterpart.

### IssueSurface and Reconcile

`labels` is GitHub's label set, `state` CGAO's own category and status, `rows`
the status comments, each with its author. A handler's `call` starts with the
snapshot its event carried and goes through triage or projection, the labels to
add, those to remove, the search for the bot's comment, and the edit or the new
comment. `Reconcile` adds the coordinator's tick: `List` notes what is to be
repaired, and everything after acts on that list. A repair and its audit record
are two actions, so a throw between them leaves `unrecorded` behind. People edit the
issue and post look-alikes of the status comment; that they delete the bot's is
not modelled.

### PlanRules, PlanSearch and Planning

`PlanRules` has no state: `Findings` is the list of objections the validator
raises, and `CanBeCarriedOut` the independent definition it is held against: an
order in which all tasks can be done, with paths and tiers the risk calls for.
Whether the draft is cyclic is a question `Findings` gets answered. `PlanSearch`
is who answers it: `findsCycle`, the coloured depth-first search over a graph
keyed by task id, as the code's map is. The calls of `visit` are the stack
`visiting`, each with the dependencies it has yet to look at; gray ids are those
on the stack, black ones those in `visited`, in the order in which they were
left. `VisitTask` is the loop over the tasks, `VisitDependency` the loop over
dependencies (in any order: the code follows the order of the list),
`LeaveVisit` and `EndSearch` the two ways of returning false. `HasCycle` says
without a search what it should answer. Validation is one synchronous call, so
`Planning` takes `HasCycle` for it in one step; `SearchIsRight` is why it may.

`Planning` is the way from an issue to a start: `AskForSpec`
and `StoreSpec`, `AskForPlan` and `Plan`, `PostPlan`, a comment (`WriteComment`)
that is parsed, authorised (`Resolve`, `InsertAuthorization`,
`RecordAuthorization`) and decided (`RejectPlan`, or `SaveApproval` and
`RecordApproval`), and `AskToStart`, each bound to the shas of the moment and
checked by `GateGuard` when it is carried out. `EditIssue`, `Bump` and
`ChangePermission` happen at any time. The loop that calls these services is
not in the source; the model lets it call them in any order their own comments
allow.

### Intake

`receiver[r]` is a delivery or a reply being handled, `claims` the dedup rows,
`session` the sessions with their ages in ticks. The request for an issue is an
event on the bus; the trusted runner that consumes it is idempotent on the
session and refuses what looks like an injection, as the event's comment
obliges it to. Where a source's classification is switched off, a message hears
no trigger and no model is asked.

### TestFixLoop

`loop` is the controller with what it awaits, `rounds` what each round saw,
`broken` the workdir. An agent leaves any breakage behind. `Tally` is the
cumulative count of fingerprints; the three verdicts are taken in the code's
order. After the verdict the verifier collects evidence per criterion.

### Worktrees

A path is a sequence of segments. Patterns have the forms the code tells apart:
`any` (`**`), `tree` (`d/**`), `stem` (`d**`, a prefix of names), `plain` (`d`,
the path and what is below it) and `slash` (`d/`, which matches nothing: the
code appends another slash). Tasks are dispatched one after the other; each agent writes and deletes through the path
policy into its overlay; `Report` decides what is returned; `Merge` sorts what
was touched into safe paths and conflicts; `Apply` validates the joined patch
and applies it to a clean checkout.

### Reviews

One review per reviewer class at a time: the answer (`StartReview`), the stored
result, the rows one after the other, the summary. The lifecycle's calls
(`MarkFixed`, `Dismiss`, `SweepOmitted` with `FindOmitted`) read, write and
audit in steps of their own. A sweep closes rows of either class in the name of
its own reviewer, as the code does. `closures`, `findingAudit` and `unrecorded` are
history: what was closed by whom and whether the chain knows.

### AuditChain

`pending[c]` is the promise queue of a chain, `tails[c]` the service's note of
the last record. A throwing turn rejects the queue (`rejected`), and with it what
is appended until `CleanUp` drops it. A hash is what it was computed from, so it
changes when a body does. `RowFails` alters a body or drops the last record. The writer and the
verifier take one action per await, on the same storage for all chains. The
inputs `createdAt` and `id`, with which tests pin a record's time and name, are
left out.

### RunStore

A flow acquires the lock under its holder's name, reads, updates and releases;
others write with the version alone. `waiters` is the code's array of resolve
functions; a woken flow that finds the lock taken queues again (`Resume`), and
a flow of the same holder walks in (`Acquire`, `Reenter`).

### DriftScan

`scan` is the tick in progress: the places of its list it has left, the first of
which (`Place`) it is at, and what it has fetched there;
`live` and `expected` are the two sides, reduced to versions, or nothing: GitHub
may know neither issue nor pull request (`Gone`), the database may expect no
head (`Unknown`), and neither is drift. A call throws now and then
(`ScanThrows`), or the hydration of a run in `failing` does on every tick
(`HydrationFails`); either ends the tick for the runs behind it. Nobody catches
what the timer's tick rejects with; whether the process lives on is the
runtime's business, and in the model the next tick starts afresh.

### Limits and PolicyCache

In `Limits` a spender's check and consumption are two actions, per ledger; a
period may pass between them. The bucket is one action, with a clock that can
step back. In `PolicyCache` resolving the installation, which asks the registry,
and looking in the cache (`ResolveWebhook`, `GetPolicy`) are two actions, and so
are a getter's load and its store; changes of a policy, announced or not, fall
between them. A header that names an installation decides, whatever the payload
says.

### MCStages

These components share no state, so composing them would multiply their states
and add nothing. `MCStages` chooses one of them, the `focus`, in the initial
state; only the focus acts and starts in every state its component can start
in. What TLC explores is the sum of the components, and one configuration
checks them all. In focus `rules` the initial states are 3,617 drafts, each of
which is searched and then held against the rules.

## 3. Runs

| Run | Bounds | Shows |
|---|---|---|
| `merge_gate` | 2 heads, 1 base, 1 attempt, or 1 head, 2 bases, 2 attempts; policy `queue`; at most 6 pieces of evidence in both | types; no decision over an open finding of a counted review (`CountedFindingsClosed`); a decision has its evidence (`ClearedPairHasEvidence`); at most one merge record, for a decided head and a merged pull request (`AuditNamesTheOneMerge`); `ImplementsPolicy`: among others, a persisted decision has test, both reviews and approval for exactly its pair |
| `merge_toctou` | 2 heads, 1 base, 1 attempt, 5 pieces | **violated** `MergedHeadWasDecided`: finding 1 |
| `merge_open_finding` | 2 heads, 1 base, 1 attempt, 7 pieces | **violated** `NoMergeVerdictOverOpenFinding`: finding 2 |
| `services` | agent runs: 2 runs, 2 callers, 2 dispatchers, 2 attempts, 4 calls (the fourth only while an id is unused), 1 record refused; pull requests: 3 calls, 1 run, 2 heads, row versions bumped 3 times by others | `AttemptWithinMax`, `NoRunStranded`, `StoredStateIsLogged`; `OnePrPerHead`, `AnswersAreAudited`, `ImplementsRegistry` (of which `AnswerIsStored` is a part); liveness `WaitingRunIsTaken`, `CallsSettle` |
| `agent_runs_finished` | 1 run, 2 callers, 2 dispatchers, 3 calls, 1 record refused | **violated** `FinishedRunStays`: finding 3 |
| `ingress` | 2 requests for 1 delivery id, 3 bodies, 2 consumers, 3 topics, 2 attempts, dead letters nested once | `NothingDropped`, `OneOutcome`, `DuplicatesRepeat`; liveness `RequestsAreAnswered` |
| `ingress_lost` | 1 body, 1 consumer | **violated** `DuplicateWasHandled`: finding 4 |
| `pull_requests_head` | 2 calls, 2 heads | **violated** `AnswerIsForItsHead`: finding 5 |
| `reconcile` | 1 handler, 1 tick, 2 events, 1 edit, 1 throw; or 2 handlers, 1 tick, 2 events; or 1 handler, 2 ticks, 1 event, 1 throw | `OwnCommentsBounded`, `RepairsAreRecorded`, `PeopleKeepTheirLabels`; liveness `SurfaceConverges` |
| `stages` | per focus, see below | the properties of the table below |
| `worktrees_forbidden` | 2 tasks, 1 write each, one forbidden directory in the form `d/` | **violated** `ForbiddenPathsAreKept`: finding 6 |
| `two_status_comments` | as `reconcile` | **violated** `OneStatusComment`: finding 7 |

The run `stages`, by focus:

| Focus | Bounds | Property |
|---|---|---|
| `rules` | 3 tasks with any dependencies and repeated ids; 2 tasks with any paths and tiers of a list | `PlansAreJudgedRight` |
| `planning` | 2 issue texts, 3 generations, 2 comments, 1 change of permission | `ApprovalsAreEarned`, `RunsFollowTheIssue` |
| `intake` | 1 message, 2 receivers, 2 deliveries or replies, 1 handler that dies, a window of 1 tick | `OneIssuePerWindow`; liveness `EverySessionEnds` |
| `loop` | 5 rounds, limit 3 (the code's numbers), 5 breakages over 2 adapters | `VerdictsFollowTheRounds` |
| `worktrees` | 2 tasks, 2 writes or deletions each, 3 paths of which one escapes and one is forbidden, to one task as a tree and to the other in the form `d/` | `NoWorkLostOrSmuggled` |
| `reviews` | 2 heads, 1 push, 2 reviews, 2 closers, 2 closings | `ClosuresAreAccountedFor` |
| `audit` | 3 appends to one chain with 1 checkpoint, or 1 to each of two with 2; 2 writers, 1 verification, 1 fault | `ChainAndVerdictsAreTrue` |
| `runs` | 3 locking flows, two of one holder, 1 flow without the lock | `OneHolderNoLostUpdate`; liveness `WaitersGetTheLock` |
| `drift` | 2 runs, one without a pull request, 2 moves, 2 throws, and any runs whose hydration throws on every tick | liveness `LastingDriftIsReported` |
| `limits` | limits 2 and 1, 2 spenders, 2 periods, 3 calls, clock 0 to 2 | `OverrunIsBounded` |
| `cache` | 2 installations, 2 getters, a TTL of 1 tick, 2 changes | liveness `StalePolicyIsForgotten` |

`TypeOK` is the type invariant of all eleven components at once.

Why the bounds are enough to show the interesting cases:

- Two heads give a force push away and back; two bases give the same for the
  base. Six pieces of evidence let all gates of one head turn green (five)
  and one more arrive late. Two attempts are what a race needs, and the
  theorems of section 5 have no bound at all.
- Four calls allow fail, retry, fail and a cancellation of one run, two
  dispatchers a double start. Two attempts reach both ends of `fail`. One refused
  record leaves a transition without its record while others go on.
- Two requests under one delivery id are a redelivery overlapping its original
  or following it; the bodies are every kind the handler tells apart ("own"
  includes the way of an ordinary event when nothing matches). Two consumers
  are needed for one to fail before the other; two attempts give one retry.
  `MaxNest` says that a consumer of the dead-letter topic stops throwing in
  time; without it the code publishes dead letters of dead letters for ever
  (see the hazard at `bus.ts:145`).
- One commenter's two comments let an approval of the first generation be
  decided in the second; three generations let the issue's text change and
  change back. Two deliveries of one message overlap, follow each other, or
  are a delivery and a reply. Two adapters and templates shared by two symptoms
  are what it takes for two failures to look alike. Two closers meet on one
  finding; a push and a second review make the first's findings look omitted.
  Three appends give one that succeeds, one that throws and one that comes
  later. One run whose hydration always throws, before or after one that is
  fetched, is what starvation takes. Three flows give a holder, a waiter and a newcomer of the holder's
  name.
- Three calls give one that leads, one that joins and one that comes after a
  failure or a crash. Three foreign updates are what it takes to make the
  optimistic update give up.
- `WaitersGetTheLock` is about finitely many flows, each of which starts once
  (`MaxStarts`): a flow that newcomers overtake for ever is outside it.
- `SurfaceConverges` asks the labels to agree with CGAO's state in the end, and
  the status comment too where one event was handled after the other and no
  call threw. Of two
  handlers at once the later writer may be the one that decided first; nothing
  corrects its comment before the next event, and only the labels are promised.

`CHECK_DEADLOCK FALSE` stands where calls, requests or subscriptions are
finite in number: then the system really comes to rest.

### Fairness

Weak fairness of the steps of a task that has been called: a pending promise
settles, by returning or by throwing, and the event loop runs its continuation.
In `AgentRuns` a dispatcher with nothing to do polls the queue. Nothing is
assumed about the environment: nobody has to push, call, subscribe, complete or
cancel anything, and which way a call settles is never fair.

In `stages` the same holds of a handler of intake (unless it dies), of a flow
that has the lock or was woken, of a scan and of a load. In addition the
scheduler's interval keeps firing, the bus delivers a request, time passes and
the sweeper's job runs: the first two are the code's (`setInterval`,
`InMemoryEventBus`), time is nobody's to stop, and the sweeper is the caller
`isInactive` names. In `reconcile` the coordinator is called again and again by
its scheduler. Faults are finite in number in all of them, except
that a run's hydration may throw on every tick.

## 4. Findings

1. `merge_toctou`: `github.merge` is called without a sha, so a push after the
   decision is merged undecided (`merge-service.ts:119`).
2. `merge_open_finding`: a blocking finding of an older head no longer counts
   at a new one, although nobody closed it (`gate-results-reader.ts:261`).
3. `agent_runs_finished`: a `start()` that loaded before a cancellation saves
   after it, and the cancelled run runs (`runner-broker.ts:91`).
4. `ingress_lost`: a delivery is remembered before it is handled; if storing it
   fails, its redelivery is answered 200 as a duplicate and the event is never
   published (`github-route.ts:89`).
5. `pull_requests_head`: a call for a second head joins the call in flight for
   the first and gets the first head's pull request, without a `pr.reused`
   record (`pull-request-service.ts:94`).
6. `worktrees_forbidden`: a forbidden path written as a directory with its slash
   (`src/auth/`), the form the planning prompt shows, matches nothing, so it
   forbids nothing (`path-write-policy.ts:146`, `patch-validator.ts:58`).
7. `two_status_comments`: two events of an issue handled at once both find no
   status comment, and both create one (`status-comment.ts:220`).

Each is quoted against the comment or document it contradicts in
`PROJECT.json`.

In four more places the code does what its comments, or the property one would
like to state, rule out. The modules do it too, without a run of its own; each
property says in its comment what it leaves open for that reason.

- A sweep after a code review also closes security findings that do not block,
  in the code reviewer's name (`M/review/finding-lifecycle.ts:146`), against
  `:67-68`, where a reviewer acts for its own class. `ClosuresAreAccountedFor`
  holds the line at blockers.
- Of two closers that found a finding open the later overwrites the status and
  the name the earlier left, against `P/db/src/repos/review-finding-repo.ts:14-16`.
- A run without records is `no-records`, ok, before a checkpoint is looked for
  (`P/audit/src/checkpoint/checkpoint-verifier.ts:46-48`), so a chain that lost
  all the records a checkpoint counted passes, against the header's `:6-13`.
  `ChainAndVerdictsAreTrue` is about the other ok verdicts.
- A run whose hydration throws on every tick keeps all runs behind it from being
  looked at (`M/reconcile/reconciler-scheduler.ts:107-117`).
  `LastingDriftIsReported` is about the runs before it.

## 5. Proofs

Everything below holds for every value of the constants under the named
assumptions of the modules (the constants that stand for "nothing" are not
shas, ids or numbers; attempts and bounds are natural numbers).

**`MergeGateProofs`.** `ClearedPairHasEvidence` is not inductive: it speaks of
persisted decisions, which are the last of seven steps. `IInv` carries the
evidence along the attempt: a gate noted as green means that the evidence for
the hydrated pair exists (`GatesMeanEvidence`), a verdict `merge` waiting to be
persisted means all of it (`VerdictHasEvidence`), an attempt past persisting
has a decided pair (`MergerIsDecided`), and the latest row of each store is one
of the recorded ones (`LatestIsRecorded`). Evidence is never withdrawn, which
is why five reads at five moments are as good as one, except for findings,
which are read last: a review counted complete has its findings recorded
already. From `IInv` follow `TypeCorrect`, `DecisionsAreSupported`,
`DecisionsSeeTheirFindings` and `MergeGateImplementsPolicy` (each step is a step
of `MergePolicy` or a stutter). `AuditIsTruthful` needs a second invariant,
`OneMergeInFlight`: at most one attempt is between the merge and its record.

**`AgentRunsProofs`.** The invariant is `TypeOK` with `AttemptWithinMax`,
`NoRunStranded`, `StoredStateIsLogged` and one strengthening,
`SnapshotsWithinMax`: an attempt a call has loaded is at most the maximum too,
so a stale save cannot exceed it. `NoRunStranded` holds from step to step
because the only saves that leave a run waiting (create, retry) queue it in the
same step, `cancel` removes no id but its own from the queue (lemma
`RemoveFirstFacts`), and `Dequeue` and `BeginStart` hand a waiting run to a
dispatcher whose `start` cannot be rejected. `StoredStateIsLogged` covers the
window between a save and its audit record, and the log's refusal of it: the
call that had the record in hand turns into a member of `unrecorded`. Every
operation that saves goes
through one lemma, `SaveKeepsSafe`.

**`PullRequestsProofs`.** `NoDuplicatePullRequests` rests on `LeaderInv` (the
call that works is the one in the in-flight map, so there is one per run) and
`CreateInv` (what the listing did not find has not been created since).
`AnswersAreStored` and `AnswersAreInTheChain` rest on `StoredInv`: a call about
to append its record has its number in the row, and no other call of the run
can take it out. `ServiceImplementsRegistry` maps `CreatePr` to `Open`,
`UpdateRow` to `Register`, `AppendAudit` to one `Answer` of the call and all that
joined it, `Invoke` to `Ask`, and everything else to a stutter (`Unseen`). It
needs `OpenInv` on top: numbers are given out in order, so that the next is new,
and the pull request a call has in hand is one of its own run.

**`IngressProofs`.** `OneOutcome` and `NothingDropped` are about what is owed
and got; to keep them one has to know where every message is. `BusInv` says it:
a message that waits is in its topic's queue once and was offered to nobody
(`Waiting`); a drain's message was offered, and the consumers the drain still
has to serve are owed it and have not got it (`Hands`); no two drains have one
message (`Alone`); whoever is owed a message got it, has a dead letter for it or
is still to be served (`Owing`); a dead letter is about an offer that is over
(`Letters`), and payload and failures tell messages apart (`Origins`). A step of
the bus does two or three things at once (it gives up a consumer, publishes its
dead letter, takes the next message), so the invariant is stated of six values
instead of the six variables (`Sound`), and every one of those things is one
lemma. `DuplicatesRepeat` needs `HandlerInv`: what is remembered was brought by
a request that is past remembering (`Brought`), and a request without an answer
has put nothing on the bus (`QuietBefore`).

**`ReconcileProofs`.** `OwnCommentsBounded` is not inductive: a handler that
listed the comments and found none of the bot's will post one, however many
there are by then. `CommentInv` counts those handlers in (`Pending`): rows of
the bot and handlers about to post one are together at most the handlers. That
is one comment for one handler at a time; `OneStatusComment` itself is refuted by
a run (finding 7).
`RepairsAreRecorded` is a count as well (`TickInv`): unrecorded repairs are at
least the ticks that hold one, and exceed them by a fault each.
`PeopleKeepTheirLabels` is an action property: a diff is computed within the
bot's own labels, and stays so however late it is applied.

**`PlanningProofs`.** A comment carries its evidence along its handling
(`CommentInv`): once its authorization is inserted the row is there, and once it
may save, so are the audit record and the plan it names. Nothing of this is ever
withdrawn, so `ApprovalsAreEarned` holds when the approval is saved whatever
permissions and plans do meanwhile. `RunsFollowTheIssue` needs `StartInv`: a
start that waits has a binding to the shas of an approved plan, and the guard
compares that binding with the run as it is then. Lemmas about the parser's
commands by line number carry the proof from a comment's text to its first
command. The types need more than their own statement (`PlanningTypeInv`): an
issue differs from its run's snapshot only while a generation is left, and what
drafts and comments carry is typed before it is stored.
`AcceptedPlansAreGuarded` is about the rules themselves, for any plan: the risk
of a plan is at least the severity of everything it matches
(`RiskCoversItsMatches`), and a higher severity asks for a higher tier
(`TiersFollowSeverities`), so that the tier the validator compares with the
whole risk is enough for each rule. `SearchIsRight` is about the search, for any
draft. That its stack is a path (`StackIsPath`) makes every cycle it reports a
real one: the gray dependency leads back into the path. That it misses none, and
that an order exists, would be inductions over the graph if they were said of
the graph alone; as invariants of the search they need none. An id turns black
when all its dependencies are black (`StackIsPath` again, for the last visit),
so `DependenciesFirst` holds of the order in which ids turn black, and no id of
a set in which each depends on another can be the first of them to turn
(`NoBlackOnCycle`). When the search ends every task is black (`PassedTasks`), so
there is no such set, and where ids tell tasks apart the black order is an order
of the tasks (`BlackOrderWorks`).

**`StageProofs`.** `OneIssuePerWindow`: a handler may die between claiming a
message and recording its session, so the argument goes by the claim, and a
session that is recent is the one its message's claim names (`RecentIsClaimed`);
from the decision that a session is ready nobody undoes it (`ReadyStaysReady`).
`ClosuresAreAccountedFor`: the calls that close findings overlap with the reviews
that report them again, so the invariant follows every call: what it may still
close for not being mentioned is not blocking (`Harmless`), what it has closed is
audited, lost to a fault, or about to be audited (`ClosuresAreOfRows`), and a row
that is not open names a close (`ClosedRowsSayWho`). Sweeps close in the name of
whichever reviewer asked; what keeps them from blockers is `Harmless`, not who
they are. `VerdictsFollowTheRounds`:
the count of a fingerprint is the number of rounds that showed it, and one more
while the controller holds a gate it has not recorded (`CountsInv`).
`NoWorkLostOrSmuggled`: a result is the overlay of the task that returned it, and
overlays of returned tasks change no more (`ResultsAreOverlays`), which needs the
ids of a plan's tasks to be distinct; the merge and the checkout are functions of
the results (`MergeIsOfResults`). Nothing is needed of the patterns, so the
theorem is about whatever the code takes them to mean; that a pattern in the
form `d/` protects nothing is for the run `worktrees_forbidden` to show.

`MCStages` itself: a step of it is a step of one component and changes no
variable of the others (`StepsOfTheParts`), so each component behaves as its own
specification says (`StagesAreTheirParts`). `TypesKept` is `TypeOK` of all
eleven, from a theorem about types for each; `StagesKeepTheirPromises` carries
nine of the safety properties over, `PlansJudged` the tenth. The types of the
drift scan go by the places it has left: it is at one of them, and there is a
run at each (`PlaceIsLeft`).

**`StoreProofs`.** The lock keeps one depth for all who are inside, so
`OneHolderNoLostUpdate` needs to know what that number counts: `LockCounts` says
it is the size of `Entered`, the pairs of a locking flow and the first or second
time it is inside, and that whoever is inside goes by the holder's name. Then the
release that brings the depth to zero is the last one out (`ReleaseInv`).
`QueueWaits` (each waiter once, and waiting) makes waking one of them harmless;
`VersionCounts` (row, version and updates agree, and a row that was read agrees
with its own version) makes an accepted update lose nothing.
`OverrunIsBounded`: a call checks in one step and consumes in another, and the
bound is on what is spent, not on what is spent and let in, which has no bound
that is kept. `LedgerInv` looks at the call that was let in last: what it saw
was within the limit, and only the calls let in before it can have written since.
`ChainAndVerdictsAreTrue`: a hash stands for the bodies it was computed from, so
every row of a chain, altered or not, names its place among the bodies accepted
(`Written`), rows that verify from the first on are the first accepted
(`Vouched`), and a verifier between two reads holds rows that were
(`VerifierInv`). An append behind a rejected queue adds no row.

Assumptions on constants, each in the module that declares them: none of the
values that stand for "nothing" is an id, a name or a number
(`NoneAssumption`, `ConsumerAssumption`, `BodyAssumption`, `AnswerAssumption`,
`ShaAssumption`); the topics and payloads of the handler are those of the bus and
no topic is called "new" or "gone" (`TopicAssumption`, `IngressAssumption`);
limits, windows, capacities, attempts and rounds are natural numbers, positive where the code
would refuse or never use zero (`LimitAssumption`, `IntakeAssumption`,
`LoopAssumption`, `RetryAssumption`, `VersionAssumption`, `AuditAssumption`,
`PlanningAssumption`, `CacheAssumption`, `DriftAssumption`), and so are all bounds;
there is an issue text to begin with (`PlanningAssumption`), and the runs a tick
scans are a list (`DriftAssumption`);
handlers, ticks, spenders and locking flows are finitely many where the promise
counts them (`SurfaceAssumption`, `TicksAssumption`, `LimitAssumption`,
`RunStoreAssumption`); none of the flows that lock also goes without the lock
(`RunStoreAssumption`); reviews are sets of findings of their class
(`ReviewAssumption`); a plan's tasks are a sequence without repetition, which
`implementation-plan.ts:233` refuses otherwise (`WorktreeAssumption`).

Recursion in the modules proved about is by recursive functions and folds; the
proofs go by the least counterexample (well-foundedness of the numbers), since
the library's induction theorems cannot be instantiated here.

The drafts that are searched have passed the plan's schema
(`PlanSearchAssumption`).

Only model-checked: the liveness properties, which rest on fairness and are out
of the prover's reach, and the violated properties.

## 6. Plan

Done: `MergePolicy`, `MergeGate`, `AgentRuns`, `PullRequests`, `EventBus`,
`Ingress`, `IssueSurface`, `Reconcile`, `PlanRules`, `PlanSearch`, `Planning`, `Intake`,
`TestFixLoop`, `Worktrees`, `Reviews`, `AuditChain`, `RunStore`, `DriftScan`,
`Limits`, `PolicyCache`, `PrRegistry`; proofs of the type invariants and safety
properties of all of them.

Next, in this order:

1. Abstract specifications of the event bus and the audit chain, which their
   modules are shown to implement as `PullRequests` does `PrRegistry`.
2. `Reviews` composed with the findings' part of `MergeGate`.
3. The merge group and the closing of issues, once they have a caller.

## 7. Not modelled

- Rendering, prompts, parsing, hashing, HMAC and schema validation: functions of
  their input, modelled by their outcome where control depends on it
  (a signature verifies or not, a body maps or not, two hashes agree or not).
- What is wrong, or looks so, in one step, and needs no model to be seen: the
  Octokit adapter lists by another marker than the service writes
  (`P/github/src/adapters/github-pr-port.ts:95`); the hint `/approve-plan` of a
  posted plan (`M/specs/plan-comment.ts:45`) is not a mention the parser
  recognises; `parseFailures` takes a passing adapter's line "0 failed" for a
  failure (`RB/gate/failure-parser.ts:128`; `TestFixLoop` assumes logs without
  such lines); a label that cannot be removed is swallowed when an issue is
  closed (`M/merge/issue-close-service.ts:100`); two updates of the merge
  module's own status comment both create one
  (`M/merge/status-comment-updater.ts:88`, the race `IssueSurface` has for the
  other status comment).
- A clock that steps back under the audit chain, whose records are listed by
  time (`P/audit/src/chain-service.ts:136`), and the Postgres advisory lock,
  whose connection is the driver's choice.
- The insert race of two upserts of one finding: a runner awaits one finding
  before the next, and two runs of one reviewer class at once are not modelled.
- Branches, commits, dependency policy, artifacts and the merge queue: one call
  after another with no state of their own to relate, or rules over text.
- Child processes, git, the file system, the dashboard and metrics: I/O.
- Real time. Windows and back-offs are events that may happen at any moment.
- Components marked `not_modelled` in `PROJECT.json`, for the reason given there.
