------------------------------ MODULE Planning ------------------------------
(***************************************************************************)
(* From an issue to work that may start: a requirement specification and a *)
(* plan are drafted by agents, the plan is posted, a maintainer approves   *)
(* it by a comment, and a run starts on it.  Each of these is bound to     *)
(* shas when it is asked for (HashBindingService) and checked when it is   *)
(* done (GateGuard), and meanwhile the issue is edited, the run's          *)
(* generation moves and people's permissions change.                       *)
(*                                                                         *)
(* The source has the services and not the loop that calls them: the       *)
(* actions named Ask... and Bump are that caller, as the services' own     *)
(* comments describe it.                                                   *)
(***************************************************************************)
EXTENDS PlanRules

CONSTANTS
    Materials,      \* what title and body of the issue can say
    Drafts,         \* what the planning agent can return: a sequence of tasks per draft
    Criteria,       \* ids of the acceptance criteria
    PlanIds,        \* ids the agent gives plans
    Commenters,     \* comments being handled at the same time
    MaxGeneration,  \* bound: generations of the run
    MaxLines,       \* bound: lines written in comments altogether
    MaxGrants       \* bound: changes of the author's permission

ASSUME PlanningAssumption ==
    /\ Materials # {} /\ MaxGeneration \in Nat \ {0}
    /\ MaxLines \in Nat /\ MaxGrants \in Nat

Permissions == {"admin", "maintain", "write", "read", "none"}
PermissionRank == [admin |-> 4, maintain |-> 3, write |-> 2, read |-> 1, none |-> 0]

Commands ==
    {"help", "status", "plan", "approve-plan", "cancel-plan", "cancel-run", "retry",
     "merge-pr", "close", "reopen", "assign", "label", "unlabel", "answer", "abort"}

RequiredPermission(command) ==
    IF command \in {"help", "status", "plan", "answer"} THEN "read"
    ELSE IF command = "approve-plan" THEN "maintain"
    ELSE IF command \in {"merge-pr", "abort"} THEN "admin" ELSE "write"

VARIABLES
    material,       \* what the issue says on GitHub
    row,            \* the workflow run: its generation and issue snapshot
    spec,           \* the stored requirement specification, if any
    plans,          \* plans posted on the issue, as PlanRefs
    drafting,       \* the agent at work and the action it is bound to, if any
    permission,     \* the comment author's permission on the repository
    comment,        \* per commenter: the comment being handled
    authorizations, \* command_authorizations
    approvals,      \* approval artifacts
    auditTrail,     \* command.authorize.* and plan.approve.* records
    starting,       \* the bound start of a run that waits, if any
    started,        \* history: the starts the guard allowed
    linesWritten, grants

planningVars == <<material, row, spec, plans, drafting, permission, comment, authorizations,
                  approvals, auditTrail, starting, started, linesWritten, grants>>

issueVars == <<material, row, permission, grants>>
draftVars == <<spec, plans, drafting>>
commandVars == <<comment, authorizations, approvals, auditTrail, linesWritten>>
startVars == <<starting, started>>

Free == [pc |-> "free"]

PlanningInit ==
    /\ material = CHOOSE m \in Materials : TRUE
    /\ row = [generation |-> 1, snapshot |-> material]
    /\ spec = {} /\ plans = {} /\ drafting = Free
    /\ permission = "maintain"
    /\ comment = [c \in Commenters |-> Free]
    /\ authorizations = {} /\ approvals = {} /\ auditTrail = {}
    /\ starting = Free /\ started = {}
    /\ linesWritten = 0 /\ grants = 0

-----------------------------------------------------------------------------

(* gates.ts. *)
RequiredShas ==
    [spec |-> {"issue"}, plan |-> {"issue", "spec"}, approval |-> {"issue", "spec", "plan"},
     test |-> {"head"}, review |-> {"head"}, merge |-> {"head", "approval"}]

(* HashBindingService.bind throws unless the shas the kind needs are there. *)
CanBind(kind, shas) == RequiredShas[kind] \subseteq DOMAIN shas
Bind(kind, generation, shas) == [kind |-> kind, generation |-> generation, shas |-> shas]

GuardAllows_Mutant(action, now) ==
    /\ CanBind(action.kind, action.shas)
    /\ "issue" \in RequiredShas[action.kind] => action.shas.issue = now.snapshot
    /\ "head" \in RequiredShas[action.kind] \intersect DOMAIN now =>
         action.shas.head = now.head

(* GateGuard.check against the run as it is now; a run that has a head is   *)
(* compared by it too.                                                      *)
GuardAllows(action, now) ==
    /\ action.generation = now.generation
    /\ CanBind(action.kind, action.shas)
    /\ "issue" \in RequiredShas[action.kind] => action.shas.issue = now.snapshot
    /\ "head" \in RequiredShas[action.kind] \intersect DOMAIN now =>
         action.shas.head = now.head

(* classifyStaleness. *)
IsStale(event, now) ==
    \/ event.generation < now.generation
    \/ "head" \in DOMAIN event.shas \intersect DOMAIN now /\ event.shas.head # now.head
    \/ event.shas.issue # now.snapshot

-----------------------------------------------------------------------------

(* The issue is edited; later the caller notices and starts a generation.   *)
EditIssue ==
    /\ row.generation < MaxGeneration
    /\ material = row.snapshot
    /\ material' \in Materials \ {material}
    /\ UNCHANGED <<row, permission, grants, draftVars, commandVars, startVars>>

Bump ==
    /\ material # row.snapshot
    /\ row' = [generation |-> row.generation + 1, snapshot |-> material]
    /\ UNCHANGED <<material, permission, grants, draftVars, commandVars, startVars>>

ChangePermission ==
    /\ grants < MaxGrants
    /\ permission' \in {"maintain", "write"} \ {permission}
    /\ grants' = grants + 1
    /\ UNCHANGED <<material, row, draftVars, commandVars, startVars>>

(* generateRequirementSpec hashes the issue as it is when it is called; the *)
(* result is stored if the guard still allows the action.                   *)
AskForSpec ==
    /\ drafting = Free
    /\ ~ \E s \in spec : s.generation = row.generation
    /\ LET shas == [issue |-> material]
       IN /\ CanBind("spec", shas)
          /\ drafting' = [pc |-> "spec", action |-> Bind("spec", row.generation, shas)]
    /\ UNCHANGED <<spec, plans, issueVars, commandVars, startVars>>

(* open questions send the specification to needs_info: nothing is planned. *)
StoreSpec ==
    /\ drafting.pc = "spec"
    /\ drafting' = Free
    /\ \E openQuestions \in BOOLEAN :
         spec' = IF GuardAllows(drafting.action, row)
                 THEN {[issue |-> drafting.action.shas.issue,
                        generation |-> drafting.action.generation,
                        openQuestions |-> openQuestions]}
                 ELSE spec
    /\ UNCHANGED <<plans, issueVars, commandVars, startVars>>

RouteFromOpenQuestions(s) == IF s.openQuestions THEN "needs_info" ELSE "ready"

AskForPlan ==
    /\ drafting = Free
    /\ \E s \in spec :
         /\ RouteFromOpenQuestions(s) = "ready"
         /\ ~ \E p \in plans : p.generation = s.generation
         /\ LET shas == [issue |-> s.issue, spec |-> <<s.issue, s.generation>>]
            IN /\ CanBind("plan", shas)
               /\ drafting' = [pc |-> "plan", action |-> Bind("plan", s.generation, shas)]
    /\ UNCHANGED <<spec, plans, issueVars, commandVars, startVars>>

(* buildImplementationPlan: the digest is of the whole body. *)
Plan(id, action, draft) ==
    [id |-> id, generation |-> action.generation, issue |-> action.shas.issue,
     sha |-> <<id, action.generation, action.shas.issue, draft>>]

(* The agent returns a draft; what the validator accepts and the guard      *)
(* allows is posted with its approval hint.                                 *)
PostPlan ==
    /\ drafting.pc = "plan"
    /\ drafting' = Free
    /\ \E id \in PlanIds, draft \in DOMAIN Drafts :
         LET tasks == Drafts[draft]
             risk == Risk(UNION {tasks[i].allowed : i \in DOMAIN tasks}, {})
             valid == Findings(tasks, Criteria, risk, HasCycle(tasks), TRUE, TRUE) = {}
         IN plans' = IF valid /\ GuardAllows(drafting.action, row)
                     THEN plans \union {Plan(id, drafting.action, draft)}
                     ELSE plans
    /\ UNCHANGED <<spec, issueVars, commandVars, startVars>>

-----------------------------------------------------------------------------

(* A line of a comment: chat, the hint of a plan pasted as it was posted,   *)
(* or a mention of the bot with a command and its argument.                 *)
Line(kind, plan) == [kind |-> kind, plan |-> plan]

Lines ==
    [kind : {"chat", "misspelt", "merge-pr"}, plan : {<<>>}]
    \union [kind : {"hint", "approve-plan"}, plan : {<<p.id, p.sha>> : p \in plans}]
    \union [kind : {"malformed", "approve-plan"}, plan : PlanIds \X {<<>>}]

(* The hint does not mention the bot: the mention is what makes a command.  *)
MentionsBot(line) == line.kind \notin {"chat", "hint"}

(* parseComment: only a created comment, every line well formed.  The       *)
(* commands are kept by the number of their line.                           *)
ParseComment(event, lines) ==
    LET mentions == {i \in DOMAIN lines : MentionsBot(lines[i])}
        reads == /\ event = "created"
                 /\ \A i \in mentions : lines[i].kind \notin {"misspelt", "malformed"}
    IN [i \in {j \in mentions : reads} |-> lines[i]]

Step(c, h) == comment' = [comment EXCEPT ![c] = h]

(* A comment's commands are carried out from the first line down. *)
FirstLine(commands) == CHOOSE i \in DOMAIN commands : \A j \in DOMAIN commands : i <= j
Command(h) == h.commands[FirstLine(h.commands)]

(* The rest of the commands of a comment, after its first. *)
Following(h) ==
    LET rest == DOMAIN h.commands \ {FirstLine(h.commands)}
    IN IF rest = {} THEN Free
       ELSE [pc |-> "resolve", id |-> h.id, event |-> h.event,
             commands |-> [i \in rest |-> h.commands[i]]]

(* A comment is written or edited; its commands, if there is one, are       *)
(* carried out.  Its id is the number of lines written so far.              *)
WriteComment(c) ==
    /\ comment[c] = Free
    /\ \E event \in {"created", "edited"},
          lines \in BoundedSeq(Lines, MaxLines - linesWritten) \ {<<>>} :
         LET commands == ParseComment(event, lines)
         IN /\ linesWritten' = linesWritten + Len(lines)
            /\ Step(c, IF DOMAIN commands = {} THEN Free
                       ELSE [pc |-> "resolve", id |-> linesWritten', event |-> event,
                             commands |-> commands])
    /\ UNCHANGED <<issueVars, draftVars, startVars, authorizations, approvals, auditTrail>>

(* CommandAuthorizationService.authorize asks GitHub for the permission,    *)
(* writes its record, then the audit record.                                *)
Authorize_Mutant(command, resolved) ==
    IF PermissionRank[resolved] + 1 >= PermissionRank[RequiredPermission(command)]
    THEN "allow" ELSE "deny"

Authorize(command, resolved) ==
    IF PermissionRank[resolved] >= PermissionRank[RequiredPermission(command)]
    THEN "allow" ELSE "deny"

Resolve(c) ==
    /\ comment[c].pc = "resolve"
    /\ Step(c, [pc |-> "insert", id |-> comment[c].id, event |-> comment[c].event,
                commands |-> comment[c].commands, resolved |-> permission])
    /\ UNCHANGED <<issueVars, draftVars, startVars, authorizations, approvals, auditTrail,
                   linesWritten>>

(* The record of h's first command. *)
Authorization(h) ==
    LET command == Command(h).kind
    IN [comment |-> h.id, command |-> command, resolved |-> h.resolved,
        decision |-> Authorize(command, h.resolved)]

InsertAuthorization(c) ==
    /\ comment[c].pc = "insert"
    /\ authorizations' = authorizations \union {Authorization(comment[c])}
    /\ Step(c, [comment[c] EXCEPT !.pc = "record"])
    /\ UNCHANGED <<issueVars, draftVars, startVars, approvals, auditTrail, linesWritten>>

(* PlanHashMatcher: id and sha exactly, and no generation but the current   *)
(* one or a later one.                                                      *)
Matched(submitted) ==
    {p \in plans : /\ p.id = submitted[1] /\ p.sha = submitted[2]
                   /\ p.generation >= row.generation}

(* With the audit record the decision returns, and an allowed approve-plan  *)
(* goes on to PlanApprovalService.decide with the plans and the generation  *)
(* of that moment.                                                          *)
RecordAuthorization(c) ==
    /\ comment[c].pc = "record"
    /\ LET h == comment[c]
           a == Authorization(h)
           submitted == Command(h).plan
       IN /\ auditTrail' = auditTrail \union {[action |-> a.decision, comment |-> h.id]}
          /\ IF a.decision = "deny" \/ a.command # "approve-plan" THEN Step(c, Following(h))
             ELSE IF Matched(submitted) = {} THEN Step(c, [h EXCEPT !.pc = "reject"])
             ELSE Step(c, [pc |-> "save", id |-> h.id, event |-> h.event,
                           commands |-> h.commands, resolved |-> h.resolved,
                           plan |-> CHOOSE p \in Matched(submitted) : TRUE])
    /\ UNCHANGED <<issueVars, draftVars, startVars, authorizations, approvals, linesWritten>>

RejectPlan(c) ==
    /\ comment[c].pc = "reject"
    /\ auditTrail' = auditTrail \union {[action |-> "rejected", comment |-> comment[c].id]}
    /\ Step(c, Following(comment[c]))
    /\ UNCHANGED <<issueVars, draftVars, startVars, authorizations, approvals, linesWritten>>

(* The repository throws on an approval of this plan id with another sha:   *)
(* the comment's handling ends there.                                       *)
SaveApproval(c) ==
    /\ comment[c].pc = "save"
    /\ LET h == comment[c]
           conflict == \E a \in approvals : a.plan.id = h.plan.id /\ a.plan.sha # h.plan.sha
       IN IF conflict
          THEN Step(c, Free) /\ UNCHANGED approvals
          ELSE /\ Step(c, [h EXCEPT !.pc = "approve"])
               /\ approvals' = approvals \union
                    {[plan |-> h.plan, comment |-> h.id, event |-> h.event,
                      said |-> Command(h).plan]}
    /\ UNCHANGED <<issueVars, draftVars, startVars, authorizations, auditTrail, linesWritten>>

RecordApproval(c) ==
    /\ comment[c].pc = "approve"
    /\ auditTrail' = auditTrail \union {[action |-> "approved", comment |-> comment[c].id]}
    /\ Step(c, Following(comment[c]))
    /\ UNCHANGED <<issueVars, draftVars, startVars, authorizations, approvals, linesWritten>>

-----------------------------------------------------------------------------

(* An approved plan is bound to its shas and its start waits for the queue; *)
(* the event that announces it is dropped if it is stale by then.           *)
AskToStart ==
    /\ starting = Free
    /\ \E a \in approvals :
         LET shas == [issue |-> a.plan.issue, spec |-> <<a.plan.issue, a.plan.generation>>,
                     plan |-> a.plan.sha]
             action == Bind("approval", a.plan.generation, shas)
         IN /\ CanBind("approval", shas)
            /\ ~ IsStale(action, row)
            /\ started = {}
            /\ starting' = [pc |-> "approval", action |-> action, plan |-> a.plan]
    /\ UNCHANGED <<started, issueVars, draftVars, commandVars>>

Start ==
    /\ starting.pc = "approval"
    /\ starting' = Free
    /\ started' = IF GuardAllows(starting.action, row)
                  THEN started \union {[plan |-> starting.plan, row |-> row]}
                  ELSE started
    /\ UNCHANGED <<issueVars, draftVars, commandVars>>

-----------------------------------------------------------------------------

CommentStep(c) ==
    \/ Resolve(c) \/ InsertAuthorization(c) \/ RecordAuthorization(c)
    \/ RejectPlan(c) \/ SaveApproval(c) \/ RecordApproval(c)

PlanningNext ==
    \/ EditIssue \/ Bump \/ ChangePermission
    \/ AskForSpec \/ StoreSpec \/ AskForPlan \/ PostPlan
    \/ \E c \in Commenters : WriteComment(c) \/ CommentStep(c)
    \/ AskToStart \/ Start

PlanningSpec == PlanningInit /\ [][PlanningNext]_planningVars

-----------------------------------------------------------------------------

PlanRef == [id : PlanIds, generation : 1 .. MaxGeneration, issue : Materials,
            sha : PlanIds \X (1 .. MaxGeneration) \X Materials \X DOMAIN Drafts]

PlanningTypeOK ==
    /\ material \in Materials
    /\ row \in [generation : 1 .. MaxGeneration, snapshot : Materials]
    /\ plans \subseteq PlanRef
    /\ permission \in Permissions
    /\ authorizations \subseteq [comment : 1 .. MaxLines, command : Commands,
                                 resolved : Permissions, decision : {"allow", "deny"}]
    /\ \A a \in approvals : a.plan \in PlanRef /\ a.comment \in 1 .. MaxLines
    /\ linesWritten \in 0 .. MaxLines /\ grants \in 0 .. MaxGrants

(* authorization.ts, plan-approval.ts: an approval stands for a comment that *)
(* was created, not edited, by somebody who had maintain when it was asked, *)
(* recorded as allowed before, naming this plan by its id and its sha --    *)
(* whatever else the comment held and whatever changed while it was handled.*)
ApprovalsAreEarned ==
    \A a \in approvals :
        /\ a.event = "created"
        /\ a.said = <<a.plan.id, a.plan.sha>>
        /\ a.plan \in plans
        /\ [action |-> "allow", comment |-> a.comment] \in auditTrail
        /\ \E w \in authorizations :
              /\ w.comment = a.comment /\ w.command = "approve-plan" /\ w.decision = "allow"
              /\ PermissionRank[w.resolved] >= PermissionRank["maintain"]

(* gates.ts: work starts only on an approved plan of the run's generation,  *)
(* drafted from a specification of exactly the issue text this generation   *)
(* is about, although text can change and change back while a draft, an     *)
(* approval or the start waits.                                             *)
RunsFollowTheIssue ==
    \A s \in started :
        /\ s.plan.generation = s.row.generation
        /\ s.plan.issue = s.row.snapshot
        /\ \E a \in approvals : a.plan = s.plan

=============================================================================
