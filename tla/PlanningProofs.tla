--------------------------- MODULE PlanningProofs ---------------------------
(***************************************************************************)
(* What TLAPS proves of approvals and starts, for any issues, drafts, plan *)
(* ids and comments handled at the same time.                              *)
(*                                                                         *)
(* A comment carries its evidence with it: from the moment its             *)
(* authorization is inserted the record is there, and from the moment it   *)
(* is allowed to save, so are the audit record and the plan it names.      *)
(* None of this is ever taken back, whatever happens to permissions, plans *)
(* and the run meanwhile.  A start that waits carries its binding the same *)
(* way, and the guard compares the binding with the run as it then is.     *)
(* The types follow apart: an issue runs ahead of its run only while there *)
(* is a generation left for it.                                            *)
(*                                                                         *)
(* And of drafts as such: what the validator has nothing against can be    *)
(* carried out.  The rules it checks in one pass are read off its list of  *)
(* findings.  For the order, the argument is about the search: an id turns *)
(* black only when its dependencies are, so the order of turning black is  *)
(* one the tasks can be done in, and no id of a cycle can be the first to  *)
(* turn.  The other way round, the gray ids are a path, and the dependency *)
(* that ends the search leads back into it.                                *)
(***************************************************************************)
EXTENDS Planning, PlanSearch, FiniteSetTheorems, SequenceTheorems, WellFoundedInduction, TLAPS

(* What a line that became a command can be. *)
ACommand(line) ==
    /\ line.kind \in {"merge-pr", "approve-plan"}
    /\ line.kind = "approve-plan" => line.plan = <<line.plan[1], line.plan[2]>>

(* Commands by line, at least one of them. *)
Parsed(commands) ==
    /\ DOMAIN commands \subseteq Nat /\ DOMAIN commands # {}
    /\ commands = [i \in DOMAIN commands |-> commands[i]]
    /\ \A i \in DOMAIN commands : ACommand(commands[i])

(* What a comment holds once its first command's authorization is inserted. *)
Authorized(h) == Authorization(h) \in authorizations

(* What it holds once that command is known to approve a plan. *)
Earned(h) ==
    /\ Command(h).kind = "approve-plan"
    /\ Authorization(h).decision = "allow"
    /\ [action |-> "allow", comment |-> h.id] \in auditTrail
    /\ h.plan \in plans
    /\ Command(h).plan = <<h.plan.id, h.plan.sha>>

CommentFields(h) ==
    \/ h = Free
    \/ h = [pc |-> "resolve", id |-> h.id, event |-> h.event, commands |-> h.commands]
    \/ /\ h.pc \in {"insert", "record", "reject"}
       /\ h = [pc |-> h.pc, id |-> h.id, event |-> h.event, commands |-> h.commands,
               resolved |-> h.resolved]
    \/ /\ h.pc \in {"save", "approve"}
       /\ h = [pc |-> h.pc, id |-> h.id, event |-> h.event, commands |-> h.commands,
               resolved |-> h.resolved, plan |-> h.plan]

CommentInv(h) ==
    /\ CommentFields(h)
    /\ h.pc # "free" => h.event = "created" /\ Parsed(h.commands)
    /\ h.pc \in {"record", "reject", "save", "approve"} => Authorized(h)
    /\ h.pc \in {"save", "approve"} => Earned(h)

ApprovalInv(a) ==
    /\ a.event = "created"
    /\ a.said = <<a.plan.id, a.plan.sha>>
    /\ a.plan \in plans
    /\ [action |-> "allow", comment |-> a.comment] \in auditTrail
    /\ \E w \in authorizations :
          /\ w.comment = a.comment /\ w.command = "approve-plan" /\ w.decision = "allow"
          /\ PermissionRank[w.resolved] >= PermissionRank["maintain"]

StartInv ==
    /\ starting.pc = "approval" =>
         /\ starting.action.kind = "approval"
         /\ starting.action.generation = starting.plan.generation
         /\ starting.action.shas.issue = starting.plan.issue
         /\ \E a \in approvals : a.plan = starting.plan
    /\ RunsFollowTheIssue

PlanningInv ==
    /\ DOMAIN comment = Commenters
    /\ \A c \in Commenters : CommentInv(comment[c])
    /\ \A a \in approvals : ApprovalInv(a)
    /\ StartInv

-----------------------------------------------------------------------------

(* There is a first line, and following on from it leaves commands. *)
LEMMA FirstLineIsThere ==
    ASSUME NEW commands, Parsed(commands)
    PROVE  FirstLine(commands) \in DOMAIN commands
<1> DEFINE D == DOMAIN commands
           R == {ss \in Nat \X Nat : ss[1] < ss[2]}
<1>1. IsWellFoundedOn(R, Nat)
  BY NatLessThanWellFounded DEF OpToRel
<1>2. PICK i \in D : \A j \in D : <<j, i>> \notin R
  <2> HIDE DEF R
  <2>1. D \in SUBSET Nat /\ D # {}
    BY DEF Parsed
  <2> QED
    BY <1>1, <2>1, WFMin
<1>3. ASSUME NEW j \in D PROVE i <= j
  <2>1. i \in Nat /\ j \in Nat
    BY DEF Parsed
  <2>2. j < i => <<j, i>> \in R
    BY <2>1
  <2> QED
    BY <1>2, <2>1, <2>2
<1> QED
  BY <1>3 DEF FirstLine

LEMMA FirstIsACommand ==
    ASSUME NEW h, Parsed(h.commands) PROVE ACommand(Command(h))
BY FirstLineIsThere DEF Command, Parsed

LEMMA FollowingFits ==
    ASSUME NEW h, h.event = "created", Parsed(h.commands)
    PROVE  CommentInv(Following(h)) /\ Following(h).pc \in {"free", "resolve"}
<1> DEFINE rest == DOMAIN h.commands \ {FirstLine(h.commands)}
           left == [i \in rest |-> h.commands[i]]
<1>1. CASE rest = {}
  BY <1>1 DEF Following, CommentInv, CommentFields, Free
<1>2. CASE rest # {}
  <2>1. Parsed(left)
    BY <1>2 DEF Parsed
  <2> DEFINE f == [pc |-> "resolve", id |-> h.id, event |-> h.event, commands |-> left]
  <2>2. Following(h) = f
    BY <1>2 DEF Following
  <2> HIDE DEF left
  <2>3. f.pc = "resolve" /\ f.event = "created" /\ f.commands = left /\ CommentFields(f)
    BY DEF CommentFields
  <2> HIDE DEF f
  <2> QED
    BY <2>1, <2>2, <2>3 DEF CommentInv
<1> QED
  BY <1>1, <1>2

(* What a created, well-formed comment says becomes commands. *)
LEMMA ParsedComment ==
    ASSUME NEW event, NEW n, NEW lines \in BoundedSeq(Lines, n),
           DOMAIN ParseComment(event, lines) # {}
    PROVE  event = "created" /\ Parsed(ParseComment(event, lines))
<1> DEFINE commands == ParseComment(event, lines)
           mentions == {i \in DOMAIN lines : MentionsBot(lines[i])}
<1>1. DOMAIN lines \subseteq Nat /\ \A i \in DOMAIN lines : lines[i] \in Lines
  BY DEF BoundedSeq, SeqOf
<1>2. /\ event = "created"
      /\ \A i \in mentions : lines[i].kind \notin {"misspelt", "malformed"}
      /\ commands = [i \in mentions |-> lines[i]]
  BY DEF ParseComment
<1>3. ASSUME NEW i \in mentions PROVE ACommand(lines[i])
  <2>1. lines[i] \in Lines /\ lines[i].kind \notin {"chat", "hint", "misspelt", "malformed"}
    BY <1>1, <1>2 DEF MentionsBot
  <2> QED
    BY <2>1 DEF Lines, ACommand
<1> QED
  BY <1>1, <1>2, <1>3 DEF Parsed

-----------------------------------------------------------------------------

LEMMA PlanningInvImplies == PlanningInv => ApprovalsAreEarned /\ RunsFollowTheIssue
BY DEF PlanningInv, ApprovalInv, StartInv, ApprovalsAreEarned

LEMMA PlanningInitInv == PlanningInit => PlanningInv
BY DEF PlanningInit, PlanningInv, CommentInv, CommentFields, StartInv, RunsFollowTheIssue, Free

(* Evidence is only added to: what a comment or an approval holds, it keeps.*)
LEMMA EvidenceStays ==
    ASSUME authorizations \subseteq authorizations', auditTrail \subseteq auditTrail',
           plans \subseteq plans'
    PROVE  /\ \A h : CommentInv(h) => CommentInv(h)'
           /\ \A a : ApprovalInv(a) => ApprovalInv(a)'
<1>1. ASSUME NEW h, CommentInv(h) PROVE CommentInv(h)'
  BY <1>1 DEF CommentInv, Authorized, Earned
<1>2. ASSUME NEW a, ApprovalInv(a) PROVE ApprovalInv(a)'
  BY <1>2 DEF ApprovalInv
<1> QED
  BY <1>1, <1>2

(* A comment goes on, with nothing lost and nothing approved. *)
LEMMA CommentGoesOn ==
    ASSUME PlanningInv, NEW c \in Commenters, NEW h, CommentInv(h)',
           comment' = [comment EXCEPT ![c] = h],
           authorizations \subseteq authorizations', auditTrail \subseteq auditTrail',
           UNCHANGED <<plans, approvals, starting, started>>
    PROVE  PlanningInv'
<1>1. DOMAIN comment' = Commenters
  BY DEF PlanningInv
<1>2. ASSUME NEW d \in Commenters PROVE CommentInv(comment[d])'
  <2>1. CASE d = c
    <3>1. comment'[d] = h
      BY <2>1 DEF PlanningInv
    <3> QED
      BY <3>1 DEF CommentInv, Authorized, Earned
  <2>2. CASE d # c
    <3>1. comment'[d] = comment[d] /\ CommentInv(comment[d])
      BY <2>2 DEF PlanningInv
    <3> QED
      BY <3>1 DEF CommentInv, Authorized, Earned
  <2> QED
    BY <2>1, <2>2
<1>3. \A a \in approvals' : ApprovalInv(a)'
  BY EvidenceStays DEF PlanningInv
<1>4. StartInv'
  BY DEF PlanningInv, StartInv, RunsFollowTheIssue
<1> QED
  BY <1>1, <1>2, <1>3, <1>4 DEF PlanningInv

LEMMA WriteCommentKeeps ==
    ASSUME PlanningInv, NEW c \in Commenters, WriteComment(c) PROVE PlanningInv'
<1>1. UNCHANGED <<plans, approvals, starting, started, authorizations, auditTrail>>
  BY DEF WriteComment, draftVars, startVars
<1>2. PICK event \in {"created", "edited"},
           lines \in BoundedSeq(Lines, MaxLines - linesWritten) \ {<<>>} :
         LET commands == ParseComment(event, lines)
         IN Step(c, IF DOMAIN commands = {} THEN Free
                    ELSE [pc |-> "resolve", id |-> linesWritten', event |-> event,
                          commands |-> commands])
  BY DEF WriteComment
<1>0. PICK commands : commands = ParseComment(event, lines)
  OBVIOUS
<1>01. PICK h : h = IF DOMAIN commands = {} THEN Free
                    ELSE [pc |-> "resolve", id |-> linesWritten', event |-> event,
                          commands |-> commands]
  OBVIOUS
<1>3. comment' = [comment EXCEPT ![c] = h]
  BY <1>0, <1>01, <1>2 DEF Step
<1>4. CommentInv(h)
  <2>1. CASE DOMAIN commands = {}
    BY <1>01, <2>1 DEF CommentInv, CommentFields, Free
  <2>2. CASE DOMAIN commands # {}
    <3>1. event = "created" /\ Parsed(commands)
      BY <1>0, <2>2, ParsedComment
    <3>2. /\ h = [pc |-> "resolve", id |-> linesWritten', event |-> event, commands |-> commands]
          /\ h.pc = "resolve" /\ h.event = event /\ h.commands = commands /\ h.id = linesWritten'
      BY <1>01, <2>2
    <3> QED
      BY <3>1, <3>2 DEF CommentInv, CommentFields
  <2> QED
    BY <2>1, <2>2
<1>5. CommentInv(h)'
  BY <1>1, <1>4, EvidenceStays
<1> QED
  BY <1>1, <1>3, <1>5, CommentGoesOn

LEMMA ResolveKeeps ==
    ASSUME PlanningInv, NEW c \in Commenters, Resolve(c) PROVE PlanningInv'
<1>0. PICK g : g = comment[c]
  OBVIOUS
<1>01. PICK h : h = [pc |-> "insert", id |-> g.id, event |-> g.event, commands |-> g.commands,
                     resolved |-> permission]
  OBVIOUS
<1>1. /\ g.pc = "resolve" /\ comment' = [comment EXCEPT ![c] = h]
      /\ UNCHANGED <<plans, approvals, starting, started, authorizations, auditTrail>>
  BY <1>0, <1>01 DEF Resolve, Step, draftVars, startVars
<1>2. CommentInv(g)
  BY <1>0 DEF PlanningInv
<1>3. h.pc = "insert" /\ h.event = g.event /\ h.commands = g.commands /\ CommentFields(h)
  BY <1>01 DEF CommentFields
<1>4. CommentInv(h)'
  BY <1>1, <1>2, <1>3 DEF CommentInv
<1> QED
  BY <1>1, <1>4, CommentGoesOn

LEMMA InsertAuthorizationKeeps ==
    ASSUME PlanningInv, NEW c \in Commenters, InsertAuthorization(c) PROVE PlanningInv'
<1>0. PICK g : g = comment[c]
  OBVIOUS
<1>01. PICK h : h = [g EXCEPT !.pc = "record"]
  OBVIOUS
<1>1. /\ g.pc = "insert" /\ comment' = [comment EXCEPT ![c] = h]
      /\ authorizations' = authorizations \union {Authorization(g)}
      /\ UNCHANGED <<plans, approvals, starting, started, auditTrail>>
  BY <1>0, <1>01 DEF InsertAuthorization, Step, draftVars, startVars
<1>2. CommentInv(g)
  BY <1>0 DEF PlanningInv
<1>3. g = [pc |-> g.pc, id |-> g.id, event |-> g.event, commands |-> g.commands,
           resolved |-> g.resolved]
  BY <1>1, <1>2 DEF CommentInv, CommentFields, Free
<1>4. /\ h = [pc |-> "record", id |-> g.id, event |-> g.event, commands |-> g.commands,
              resolved |-> g.resolved]
      /\ h.pc = "record" /\ h.event = g.event /\ h.commands = g.commands /\ h.id = g.id
      /\ h.resolved = g.resolved
  BY <1>01, <1>3
<1>5. CommentFields(h)
  BY <1>4 DEF CommentFields
<1>6. Authorization(h) = Authorization(g)
  BY <1>4 DEF Authorization, Command
<1>7. CommentInv(h)'
  BY <1>1, <1>2, <1>4, <1>5, <1>6 DEF CommentInv, Authorized
<1> QED
  BY <1>1, <1>7, CommentGoesOn

LEMMA RecordAuthorizationKeeps ==
    ASSUME PlanningInv, NEW c \in Commenters, RecordAuthorization(c) PROVE PlanningInv'
<1>0. PICK g : g = comment[c]
  OBVIOUS
<1> DEFINE a == Authorization(g)
           submitted == Command(g).plan
           rejected == [g EXCEPT !.pc = "reject"]
           saving(p) == [pc |-> "save", id |-> g.id, event |-> g.event, commands |-> g.commands,
                         resolved |-> g.resolved, plan |-> p]
<1>01. PICK plan : plan = CHOOSE p \in Matched(submitted) : TRUE
  OBVIOUS
<1>02. PICK h : h = IF a.decision = "deny" \/ a.command # "approve-plan" THEN Following(g)
                    ELSE IF Matched(submitted) = {} THEN rejected ELSE saving(plan)
  OBVIOUS
<1>1. /\ g.pc = "record"
      /\ auditTrail' = auditTrail \union {[action |-> a.decision, comment |-> g.id]}
      /\ UNCHANGED <<plans, approvals, starting, started, authorizations>>
  BY <1>0 DEF RecordAuthorization, draftVars, startVars
<1>2. comment' = [comment EXCEPT ![c] = h]
  BY <1>0, <1>01, <1>02 DEF RecordAuthorization, Step
<1>3. CommentInv(g)
  BY <1>0 DEF PlanningInv
<1>4. /\ g = [pc |-> g.pc, id |-> g.id, event |-> g.event, commands |-> g.commands,
              resolved |-> g.resolved]
      /\ g.event = "created" /\ Parsed(g.commands) /\ Authorized(g)
  BY <1>1, <1>3 DEF CommentInv, CommentFields, Free
<1>5. CommentInv(h)'
  <2>1. CASE a.decision = "deny" \/ a.command # "approve-plan"
    <3>1. h = Following(g)
      BY <1>02, <2>1
    <3>2. CommentInv(Following(g)) /\ Following(g).pc \in {"free", "resolve"}
      BY <1>4, FollowingFits
    <3> QED
      BY <1>1, <3>1, <3>2 DEF CommentInv
  <2>2. CASE /\ ~(a.decision = "deny" \/ a.command # "approve-plan")
             /\ Matched(submitted) = {}
    <3>1. h = rejected
      BY <1>02, <2>2
    <3>2. /\ h = [pc |-> "reject", id |-> g.id, event |-> g.event, commands |-> g.commands,
                  resolved |-> g.resolved]
          /\ h.pc = "reject" /\ h.event = g.event /\ h.commands = g.commands /\ h.id = g.id
          /\ h.resolved = g.resolved
      BY <1>4, <3>1
    <3>3. CommentFields(h) /\ Authorization(h) = Authorization(g)
      BY <3>2 DEF CommentFields, Authorization, Command
    <3> QED
      BY <1>1, <1>4, <3>2, <3>3 DEF CommentInv, Authorized
  <2>3. CASE /\ ~(a.decision = "deny" \/ a.command # "approve-plan")
             /\ Matched(submitted) # {}
    <3>1. h = saving(plan)
      BY <1>02, <2>3
    <3>2. plan \in Matched(submitted)
      BY <1>01, <2>3
    <3>3. /\ h.pc = "save" /\ h.event = g.event /\ h.commands = g.commands /\ h.id = g.id
          /\ h.resolved = g.resolved /\ h.plan = plan
          /\ h = [pc |-> "save", id |-> h.id, event |-> h.event, commands |-> h.commands,
                  resolved |-> h.resolved, plan |-> h.plan]
      BY <3>1
    <3>4. CommentFields(h) /\ Authorization(h) = Authorization(g) /\ Command(h) = Command(g)
      BY <3>3 DEF CommentFields, Authorization, Command
    <3>5. plan \in plans /\ plan.id = submitted[1] /\ plan.sha = submitted[2]
      BY <3>2 DEF Matched
    <3>6. a.command = Command(g).kind /\ a.decision \in {"allow", "deny"}
      BY DEF Authorization, Authorize
    <3>7. Command(g).kind = "approve-plan" /\ a.decision = "allow"
      BY <2>3, <3>6
    <3>8. submitted = <<submitted[1], submitted[2]>>
      BY <1>4, <3>7, FirstIsACommand DEF ACommand
    <3> HIDE DEF submitted
    <3>9. Command(g).plan = <<plan.id, plan.sha>>
      BY <3>5, <3>8 DEF submitted
    <3>10. [action |-> "allow", comment |-> h.id] \in auditTrail'
      BY <1>1, <3>3, <3>7
    <3>11. Earned(h)'
      BY <1>1, <3>3, <3>4, <3>5, <3>7, <3>9, <3>10 DEF Earned
    <3>12. Authorized(h)'
      BY <1>1, <1>4, <3>4 DEF Authorized
    <3> QED
      BY <1>4, <3>3, <3>4, <3>11, <3>12 DEF CommentInv
  <2> QED
    BY <2>1, <2>2, <2>3
<1> QED
  BY <1>1, <1>2, <1>5, CommentGoesOn

LEMMA DecisionRecordedKeeps ==
    ASSUME PlanningInv, NEW c \in Commenters, RejectPlan(c) \/ RecordApproval(c)
    PROVE  PlanningInv'
<1>1. /\ comment[c].pc \in {"reject", "approve"}
      /\ comment' = [comment EXCEPT ![c] = Following(comment[c])]
      /\ auditTrail \subseteq auditTrail'
      /\ UNCHANGED <<plans, approvals, starting, started, authorizations>>
  BY DEF RejectPlan, RecordApproval, Step, draftVars, startVars
<1>2. comment[c].event = "created" /\ Parsed(comment[c].commands)
  BY <1>1 DEF PlanningInv, CommentInv
<1>0. PICK h : h = Following(comment[c])
  OBVIOUS
<1>3. CommentInv(h) /\ h.pc \in {"free", "resolve"}
  BY <1>0, <1>2, FollowingFits
<1>4. CommentInv(h)'
  BY <1>3 DEF CommentInv
<1> QED
  BY <1>0, <1>1, <1>4, CommentGoesOn

LEMMA SaveApprovalKeeps ==
    ASSUME PlanningInv, NEW c \in Commenters, SaveApproval(c) PROVE PlanningInv'
<1> DEFINE g == comment[c]
           conflict == \E a \in approvals : a.plan.id = g.plan.id /\ a.plan.sha # g.plan.sha
           h == [g EXCEPT !.pc = "approve"]
           saved == [plan |-> g.plan, comment |-> g.id, event |-> g.event,
                     said |-> Command(g).plan]
<1>1. /\ g.pc = "save" /\ UNCHANGED <<plans, starting, started, authorizations, auditTrail>>
  BY DEF SaveApproval, draftVars, startVars
<1>2. CASE conflict
  <2>1. comment' = [comment EXCEPT ![c] = Free] /\ UNCHANGED approvals
    BY <1>2 DEF SaveApproval, Step
  <2>2. CommentInv(Free)'
    BY DEF CommentInv, CommentFields, Free
  <2> QED
    BY <1>1, <2>1, <2>2, CommentGoesOn
<1>3. CASE ~conflict
  <2>1. comment' = [comment EXCEPT ![c] = h] /\ approvals' = approvals \union {saved}
    BY <1>3 DEF SaveApproval, Step
  <2>2. CommentInv(g) /\ Authorized(g) /\ Earned(g)
    BY <1>1 DEF PlanningInv, CommentInv
  <2> HIDE DEF g
  <2>3. g = [pc |-> g.pc, id |-> g.id, event |-> g.event, commands |-> g.commands,
             resolved |-> g.resolved, plan |-> g.plan]
    BY <1>1, <2>2 DEF CommentInv, CommentFields, Free
  <2>4. /\ h = [pc |-> "approve", id |-> g.id, event |-> g.event, commands |-> g.commands,
                resolved |-> g.resolved, plan |-> g.plan]
        /\ h.pc = "approve" /\ h.event = g.event /\ h.commands = g.commands /\ h.id = g.id
        /\ h.resolved = g.resolved /\ h.plan = g.plan
    BY <2>3
  <2> HIDE DEF h
  <2>5. CommentFields(h) /\ Authorization(h) = Authorization(g) /\ Command(h) = Command(g)
    BY <2>4 DEF CommentFields, Authorization, Command
  <2>6. CommentInv(h)
    BY <1>1, <2>2, <2>4, <2>5 DEF CommentInv, Authorized, Earned
  <2>7. ApprovalInv(saved)
    <3>1. /\ saved.plan = g.plan /\ saved.comment = g.id /\ saved.event = g.event
          /\ saved.said = Command(g).plan
      OBVIOUS
    <3> HIDE DEF saved
    <3> DEFINE w == Authorization(g)
    <3>2. /\ w.comment = g.id /\ w.command = "approve-plan" /\ w.decision = "allow"
          /\ w.decision = Authorize("approve-plan", w.resolved)
      BY <2>2 DEF Authorization, Earned
    <3>3. RequiredPermission("approve-plan") = "maintain"
      BY DEF RequiredPermission
    <3>4. PermissionRank[w.resolved] >= PermissionRank["maintain"]
      BY <3>2, <3>3 DEF Authorize
    <3>5. w \in authorizations
      BY <2>2 DEF Authorized
    <3> HIDE DEF w
    <3>6. g.event = "created"
      BY <1>1, <2>2 DEF CommentInv
    <3> QED
      BY <2>2, <3>1, <3>2, <3>4, <3>5, <3>6 DEF ApprovalInv, Earned
  <2> HIDE DEF saved
  <2>8. DOMAIN comment' = Commenters
    BY <2>1 DEF PlanningInv
  <2>9. ASSUME NEW d \in Commenters PROVE CommentInv(comment[d])'
    <3>1. comment'[d] = h \/ comment'[d] = comment[d]
      BY <2>1 DEF PlanningInv
    <3>2. CommentInv(comment[d])
      BY DEF PlanningInv
    <3> QED
      BY <1>1, <2>6, <3>1, <3>2 DEF CommentInv, Authorized, Earned
  <2>10. \A a \in approvals' : ApprovalInv(a)'
    BY <1>1, <2>1, <2>7, EvidenceStays DEF PlanningInv
  <2>11. StartInv'
    BY <1>1, <2>1 DEF PlanningInv, StartInv, RunsFollowTheIssue
  <2> QED
    BY <2>8, <2>9, <2>10, <2>11 DEF PlanningInv
<1> QED
  BY <1>2, <1>3

(* Steps about the issue and about drafts: plans are only added. *)
LEMMA DraftsKeep ==
    ASSUME PlanningInv, plans \subseteq plans',
           UNCHANGED <<comment, authorizations, auditTrail, approvals, starting, started>>
    PROVE  PlanningInv'
<1>1. \A c \in Commenters : CommentInv(comment[c])'
  BY DEF PlanningInv, CommentInv, Authorized, Earned
<1>2. \A a \in approvals' : ApprovalInv(a)'
  BY EvidenceStays DEF PlanningInv
<1> QED
  BY <1>1, <1>2 DEF PlanningInv, StartInv, RunsFollowTheIssue

LEMMA AskToStartKeeps == PlanningInv /\ AskToStart => PlanningInv'
<1> SUFFICES ASSUME PlanningInv, AskToStart PROVE PlanningInv'
  OBVIOUS
<1>1. UNCHANGED <<plans, comment, authorizations, auditTrail, approvals, started>>
  BY DEF AskToStart, draftVars, commandVars
<1>2. PICK a \in approvals :
        starting' = [pc |-> "approval",
                     action |-> Bind("approval", a.plan.generation,
                        [issue |-> a.plan.issue, spec |-> <<a.plan.issue, a.plan.generation>>,
                         plan |-> a.plan.sha]),
                     plan |-> a.plan]
  BY DEF AskToStart
<1>3. /\ starting'.action.kind = "approval"
      /\ starting'.action.generation = starting'.plan.generation
      /\ starting'.action.shas.issue = starting'.plan.issue
      /\ starting'.plan = a.plan
  BY <1>2 DEF Bind
<1>4. StartInv'
  BY <1>1, <1>3 DEF PlanningInv, StartInv, RunsFollowTheIssue
<1>5. \A c \in Commenters : CommentInv(comment[c])'
  BY <1>1 DEF PlanningInv, CommentInv, Authorized, Earned
<1>6. \A b \in approvals' : ApprovalInv(b)'
  BY <1>1, EvidenceStays DEF PlanningInv
<1> QED
  BY <1>1, <1>4, <1>5, <1>6 DEF PlanningInv

LEMMA StartKeeps == PlanningInv /\ Start => PlanningInv'
<1> SUFFICES ASSUME PlanningInv, Start PROVE PlanningInv'
  OBVIOUS
<1>1. /\ starting.pc = "approval" /\ starting' = Free
      /\ started' = IF GuardAllows(starting.action, row)
                    THEN started \union {[plan |-> starting.plan, row |-> row]}
                    ELSE started
      /\ UNCHANGED <<plans, comment, authorizations, auditTrail, approvals>>
  BY DEF Start, draftVars, commandVars
<1>2. RunsFollowTheIssue'
  <2>1. CASE ~GuardAllows(starting.action, row)
    BY <1>1, <2>1 DEF PlanningInv, StartInv, RunsFollowTheIssue
  <2>2. CASE GuardAllows(starting.action, row)
    <3>1. /\ starting.action.kind = "approval"
          /\ starting.action.generation = starting.plan.generation
          /\ starting.action.shas.issue = starting.plan.issue
          /\ \E a \in approvals : a.plan = starting.plan
      BY <1>1 DEF PlanningInv, StartInv
    <3>2. "issue" \in RequiredShas["approval"]
      BY DEF RequiredShas
    <3>3. /\ starting.plan.generation = row.generation
          /\ starting.plan.issue = row.snapshot
      BY <2>2, <3>1, <3>2 DEF GuardAllows
    <3>4. started' = started \union {[plan |-> starting.plan, row |-> row]}
      BY <1>1, <2>2
    <3> QED
      BY <1>1, <3>1, <3>3, <3>4 DEF PlanningInv, StartInv, RunsFollowTheIssue
  <2> QED
    BY <2>1, <2>2
<1>3. StartInv'
  BY <1>1, <1>2 DEF StartInv, Free
<1>4. \A c \in Commenters : CommentInv(comment[c])'
  BY <1>1 DEF PlanningInv, CommentInv, Authorized, Earned
<1>5. \A a \in approvals' : ApprovalInv(a)'
  BY <1>1, EvidenceStays DEF PlanningInv
<1> QED
  BY <1>1, <1>3, <1>4, <1>5 DEF PlanningInv

LEMMA PlanningNextInv == PlanningInv /\ [PlanningNext]_planningVars => PlanningInv'
<1> SUFFICES ASSUME PlanningInv, [PlanningNext]_planningVars PROVE PlanningInv'
  OBVIOUS
<1>1. CASE EditIssue \/ Bump \/ ChangePermission
  BY <1>1, DraftsKeep DEF EditIssue, Bump, ChangePermission, draftVars, commandVars, startVars
<1>2. CASE AskForSpec \/ StoreSpec \/ AskForPlan
  BY <1>2, DraftsKeep DEF AskForSpec, StoreSpec, AskForPlan, commandVars, startVars
<1>3. CASE PostPlan
  <2>1. plans \subseteq plans'
    BY <1>3 DEF PostPlan
  <2> QED
    BY <1>3, <2>1, DraftsKeep DEF PostPlan, commandVars, startVars
<1>4. ASSUME NEW c \in Commenters, WriteComment(c) \/ CommentStep(c) PROVE PlanningInv'
  BY <1>4, WriteCommentKeeps, ResolveKeeps, InsertAuthorizationKeeps, RecordAuthorizationKeeps,
     DecisionRecordedKeeps, SaveApprovalKeeps DEF CommentStep
<1>5. CASE AskToStart
  BY <1>5, AskToStartKeeps
<1>6. CASE Start
  BY <1>6, StartKeeps
<1>7. CASE UNCHANGED planningVars
  BY <1>7, DraftsKeep DEF planningVars
<1> QED
  BY <1>1, <1>2, <1>3, <1>4, <1>5, <1>6, <1>7 DEF PlanningNext

-----------------------------------------------------------------------------

(* authorization.ts, plan-approval.ts: an approval stands for a created     *)
(* comment by somebody who had maintain when it was asked, recorded as      *)
(* allowed before, naming this plan by its id and its sha.                  *)
THEOREM ApprovalsEarned == PlanningInit /\ [][PlanningNext]_planningVars => []ApprovalsAreEarned
BY PlanningInvImplies, PlanningInitInv, PlanningNextInv, PTL

(* gates.ts: work starts only on an approved plan of the run's generation   *)
(* and of the issue text that generation is about.                          *)
THEOREM RunsFollow == PlanningInit /\ [][PlanningNext]_planningVars => []RunsFollowTheIssue
BY PlanningInvImplies, PlanningInitInv, PlanningNextInv, PTL

-----------------------------------------------------------------------------
(* Types *)

(* The generations a run can reach. *)
Generations == 1 .. MaxGeneration

(* What drafts and comments carry is typed before it is stored; the issue   *)
(* is ahead of the run only while there is a generation left for it.        *)
PlanningTypeInv ==
    /\ PlanningTypeOK
    /\ material # row.snapshot => row.generation < MaxGeneration
    /\ \A s \in spec : s.generation \in Generations /\ s.issue \in Materials
    /\ drafting.pc \in {"spec", "plan"} =>
         drafting.action.generation \in Generations /\ drafting.action.shas.issue \in Materials
    /\ \A c \in Commenters :
         /\ comment[c].pc # "free" => comment[c].id \in 1 .. MaxLines
         /\ comment[c].pc \in {"insert", "record", "reject", "save", "approve"} =>
              comment[c].resolved \in Permissions

(* The issue and its run start with a material of the constants. *)
LEMMA PlanningInitTypes == PlanningInit => PlanningTypeInv
<1> SUFFICES ASSUME PlanningInit PROVE PlanningTypeInv
  OBVIOUS
<1>1. material \in Materials
  BY PlanningAssumption DEF PlanningInit
<1> QED
  BY <1>1, PlanningAssumption
  DEF PlanningInit, PlanningTypeInv, PlanningTypeOK, Generations, Permissions, Free

(* What a comment goes on with keeps its id. *)
LEMMA FollowingIsTyped ==
    ASSUME NEW h
    PROVE  Following(h) = Free \/ (Following(h).pc = "resolve" /\ Following(h).id = h.id)
BY DEF Following

(* A step of one comment. *)
LEMMA CommentIsTyped ==
    ASSUME PlanningInv, PlanningTypeInv, NEW c \in Commenters, NEW h, Step(c, h),
           h = Free \/ h.id \in 1 .. MaxLines,
           h = Free \/ h.pc = "resolve" \/ h.resolved \in Permissions
    PROVE  \A d \in Commenters :
             /\ comment'[d].pc # "free" => comment'[d].id \in 1 .. MaxLines
             /\ comment'[d].pc \in {"insert", "record", "reject", "save", "approve"} =>
                  comment'[d].resolved \in Permissions
<1>1. ASSUME NEW d \in Commenters, d # c PROVE comment'[d] = comment[d]
  BY <1>1 DEF Step, PlanningInv
<1>2. comment'[c] = h
  BY DEF Step, PlanningInv
<1>3. Free.pc = "free"
  BY DEF Free
<1> QED
  BY <1>1, <1>2, <1>3 DEF PlanningTypeInv

(* Every step of issue, drafts, comments and starts keeps the types. *)
LEMMA PlanningNextTypes ==
    PlanningInv /\ PlanningTypeInv /\ [PlanningNext]_planningVars => PlanningTypeInv'
<1> SUFFICES ASSUME PlanningInv, PlanningTypeInv, [PlanningNext]_planningVars
             PROVE  PlanningTypeInv'
  OBVIOUS
<1>0. row.generation \in 1 .. MaxGeneration /\ row.snapshot \in Materials /\ material \in Materials
      /\ MaxGeneration \in Nat
  BY PlanningAssumption DEF PlanningTypeInv, PlanningTypeOK
<1>1. CASE EditIssue
  <2>1. /\ row.generation < MaxGeneration /\ material' \in Materials
        /\ UNCHANGED <<row, permission, grants, draftVars, commandVars, startVars>>
    BY <1>1 DEF EditIssue
  <2> QED
    BY <2>1 DEF PlanningTypeInv, PlanningTypeOK, draftVars, commandVars, startVars
<1>2. CASE Bump
  <2>1. /\ row' = [generation |-> row.generation + 1, snapshot |-> material]
        /\ UNCHANGED <<material, permission, grants, draftVars, commandVars, startVars>>
        /\ material # row.snapshot
    BY <1>2 DEF Bump
  <2>2. row.generation < MaxGeneration
    BY <2>1 DEF PlanningTypeInv
  <2>3. row' \in [generation : 1 .. MaxGeneration, snapshot : Materials] /\ row'.snapshot = material
    BY <1>0, <2>1, <2>2
  <2> QED
    BY <2>1, <2>3 DEF PlanningTypeInv, PlanningTypeOK, draftVars, commandVars, startVars
<1>3. CASE ChangePermission
  <2>1. permission' \in Permissions /\ grants' \in 0 .. MaxGrants
    BY <1>3, PlanningAssumption DEF ChangePermission, Permissions, PlanningTypeInv, PlanningTypeOK
  <2> QED
    BY <1>3, <2>1 DEF ChangePermission, PlanningTypeInv, PlanningTypeOK, draftVars, commandVars,
                      startVars
<1>4. CASE AskForSpec
  <2>1. /\ drafting' = [pc |-> "spec", action |-> [kind |-> "spec", generation |-> row.generation,
                                                  shas |-> [issue |-> material]]]
        /\ UNCHANGED <<spec, plans, issueVars, commandVars, startVars>>
    BY <1>4 DEF AskForSpec, Bind
  <2>2. drafting'.action.generation \in Generations /\ drafting'.action.shas.issue \in Materials
    BY <1>0, <2>1 DEF Generations
  <2> QED
    BY <2>1, <2>2 DEF PlanningTypeInv, PlanningTypeOK, issueVars, commandVars, startVars
<1>5. CASE StoreSpec
  <2>1. /\ drafting' = Free /\ UNCHANGED <<plans, issueVars, commandVars, startVars>>
        /\ drafting.pc = "spec"
    BY <1>5 DEF StoreSpec
  <2>2. \A s \in spec' : s.generation \in Generations /\ s.issue \in Materials
    <3>1. PICK openQuestions \in BOOLEAN :
             spec' = IF GuardAllows(drafting.action, row)
                     THEN {[issue |-> drafting.action.shas.issue,
                            generation |-> drafting.action.generation,
                            openQuestions |-> openQuestions]}
                     ELSE spec
      BY <1>5 DEF StoreSpec
    <3> QED
      BY <2>1, <3>1 DEF PlanningTypeInv
  <2>3. Free.pc = "free"
    BY DEF Free
  <2> QED
    BY <2>1, <2>2, <2>3 DEF PlanningTypeInv, PlanningTypeOK, issueVars, commandVars, startVars
<1>6. CASE AskForPlan
  <2>1. PICK s \in spec :
           /\ drafting' = [pc |-> "plan", action |->
                [kind |-> "plan", generation |-> s.generation,
                 shas |-> [issue |-> s.issue, spec |-> <<s.issue, s.generation>>]]]
           /\ UNCHANGED <<spec, plans, issueVars, commandVars, startVars>>
    BY <1>6 DEF AskForPlan, Bind
  <2>2. drafting'.action.generation \in Generations /\ drafting'.action.shas.issue \in Materials
    BY <2>1 DEF PlanningTypeInv
  <2> QED
    BY <2>1, <2>2 DEF PlanningTypeInv, PlanningTypeOK, issueVars, commandVars, startVars
<1>7. CASE PostPlan
  <2>1. /\ drafting' = Free /\ UNCHANGED <<spec, issueVars, commandVars, startVars>>
        /\ drafting.pc = "plan"
    BY <1>7 DEF PostPlan
  <2>2. plans' \subseteq PlanRef
    <3>1. PICK id \in PlanIds, draft \in DOMAIN Drafts :
             plans' = plans \/ plans' = plans \union {Plan(id, drafting.action, draft)}
      BY <1>7 DEF PostPlan
    <3>2. drafting.action.generation \in 1 .. MaxGeneration /\ drafting.action.shas.issue \in Materials
      BY <2>1 DEF PlanningTypeInv, Generations
    <3>3. Plan(id, drafting.action, draft) \in PlanRef
      BY <3>2 DEF Plan, PlanRef
    <3> QED
      BY <3>1, <3>3 DEF PlanningTypeInv, PlanningTypeOK
  <2>3. Free.pc = "free"
    BY DEF Free
  <2> QED
    BY <2>1, <2>2, <2>3 DEF PlanningTypeInv, PlanningTypeOK, issueVars, commandVars, startVars
<1>8. ASSUME NEW c \in Commenters, WriteComment(c) PROVE PlanningTypeInv'
  <2>1. PICK event \in {"created", "edited"},
             lines \in BoundedSeq(Lines, MaxLines - linesWritten) \ {<<>>} :
           /\ linesWritten' = linesWritten + Len(lines)
           /\ Step(c, IF DOMAIN ParseComment(event, lines) = {} THEN Free
                      ELSE [pc |-> "resolve", id |-> linesWritten', event |-> event,
                            commands |-> ParseComment(event, lines)])
    BY <1>8 DEF WriteComment
  <2>2. linesWritten' \in 1 .. MaxLines
    <3>1. linesWritten \in 0 .. MaxLines /\ MaxLines \in Nat
      BY PlanningAssumption DEF PlanningTypeInv, PlanningTypeOK
    <3>2. PICK n \in 0 .. MaxLines - linesWritten : lines \in [1 .. n -> Lines]
      BY <2>1, <3>1 DEF BoundedSeq, SeqOf
    <3>3. n \in Nat /\ Len(lines) = n
      BY <3>1, <3>2
    <3>4. n # 0
      <4>1. ASSUME n = 0 PROVE FALSE
        <5>1. lines \in [{} -> Lines]
          BY <3>2, <4>1
        <5>2. lines = <<>>
          BY <5>1
        <5> QED
          BY <5>2, <2>1
      <4> QED
        BY <4>1
    <3> QED
      BY <2>1, <3>1, <3>2, <3>3, <3>4
  <2>3. PICK h : Step(c, h) /\ (h = Free \/ (h.pc = "resolve" /\ h.id = linesWritten'))
    BY <2>1
  <2>4. \A d \in Commenters :
           /\ comment'[d].pc # "free" => comment'[d].id \in 1 .. MaxLines
           /\ comment'[d].pc \in {"insert", "record", "reject", "save", "approve"} =>
                comment'[d].resolved \in Permissions
    BY <2>2, <2>3, CommentIsTyped
  <2>5. UNCHANGED <<issueVars, draftVars, startVars, authorizations, approvals, auditTrail>>
    BY <1>8 DEF WriteComment
  <2>6. linesWritten' \in 0 .. MaxLines
    BY <2>2
  <2> QED
    BY <2>4, <2>5, <2>6 DEF PlanningTypeInv, PlanningTypeOK, issueVars, draftVars, startVars
<1>9. ASSUME NEW c \in Commenters, CommentStep(c) PROVE PlanningTypeInv'
  <2> DEFINE h == comment[c]
  <2>1. h.pc \in {"resolve", "insert", "record", "reject", "save", "approve"} /\ h.pc # "free"
    BY <1>9 DEF CommentStep, Resolve, InsertAuthorization, RecordAuthorization, RejectPlan,
                SaveApproval, RecordApproval
  <2>2. h.id \in 1 .. MaxLines /\ (h.pc # "resolve" => h.resolved \in Permissions)
    BY <2>1 DEF PlanningTypeInv
  <2>3. CommentFields(h) /\ h # Free /\ Parsed(h.commands)
    BY <2>1 DEF PlanningInv, CommentInv, Free
  <2>4. \E g : /\ Step(c, g)
               /\ g = Free \/ g.id = h.id
               /\ g = Free \/ g.pc = "resolve" \/ g.resolved \in Permissions
    <3>1. CASE Resolve(c)
      BY <3>1 DEF Resolve, PlanningTypeInv, PlanningTypeOK
    <3>2. CASE InsertAuthorization(c)
      <4>1. [h EXCEPT !.pc = "record"].id = h.id /\ [h EXCEPT !.pc = "record"].resolved = h.resolved
            /\ h.resolved \in Permissions
        BY <2>2, <2>3, <3>2 DEF InsertAuthorization, CommentFields
      <4> QED
        BY <3>2, <4>1 DEF InsertAuthorization
    <3>3. CASE RecordAuthorization(c)
      <4>1. [h EXCEPT !.pc = "reject"].id = h.id /\ [h EXCEPT !.pc = "reject"].resolved = h.resolved
            /\ h.resolved \in Permissions
        BY <2>2, <2>3, <3>3 DEF RecordAuthorization, CommentFields
      <4> DEFINE saving == [pc |-> "save", id |-> h.id, event |-> h.event,
                            commands |-> h.commands, resolved |-> h.resolved,
                            plan |-> CHOOSE p \in Matched(Command(h).plan) : TRUE]
      <4>2. \/ Step(c, Following(h)) \/ Step(c, [h EXCEPT !.pc = "reject"])
            \/ Step(c, saving)
        BY <3>3 DEF RecordAuthorization
      <4>3. saving.id = h.id /\ saving.resolved = h.resolved
        OBVIOUS
      <4> HIDE DEF saving
      <4> QED
        BY <4>1, <4>2, <4>3, FollowingIsTyped
    <3>4. CASE RejectPlan(c) \/ RecordApproval(c)
      BY <3>4, FollowingIsTyped DEF RejectPlan, RecordApproval
    <3>5. CASE SaveApproval(c)
      <4>1. [h EXCEPT !.pc = "approve"].id = h.id /\ [h EXCEPT !.pc = "approve"].resolved = h.resolved
            /\ h.resolved \in Permissions
        BY <2>2, <2>3, <3>5 DEF SaveApproval, CommentFields
      <4>2. Step(c, Free) \/ Step(c, [h EXCEPT !.pc = "approve"])
        BY <3>5 DEF SaveApproval
      <4> QED
        BY <4>1, <4>2
    <3> QED
      BY <1>9, <3>1, <3>2, <3>3, <3>4, <3>5 DEF CommentStep
  <2>5. \A d \in Commenters :
           /\ comment'[d].pc # "free" => comment'[d].id \in 1 .. MaxLines
           /\ comment'[d].pc \in {"insert", "record", "reject", "save", "approve"} =>
                comment'[d].resolved \in Permissions
    BY <2>2, <2>4, CommentIsTyped
  <2>6. UNCHANGED <<issueVars, draftVars, startVars, linesWritten>>
    BY <1>9 DEF CommentStep, Resolve, InsertAuthorization, RecordAuthorization, RejectPlan,
                SaveApproval, RecordApproval
  <2>7. authorizations' \subseteq [comment : 1 .. MaxLines, command : Commands,
                                  resolved : Permissions, decision : {"allow", "deny"}]
    <3>1. CASE InsertAuthorization(c)
      <4>1. ACommand(Command(h))
        BY <2>3, FirstIsACommand
      <4>2. h.resolved \in Permissions
        BY <2>2, <3>1 DEF InsertAuthorization
      <4>3. Authorization(h) \in [comment : 1 .. MaxLines, command : Commands,
                                  resolved : Permissions, decision : {"allow", "deny"}]
        BY <2>2, <4>1, <4>2 DEF Authorization, Authorize, ACommand, Commands
      <4> QED
        BY <3>1, <4>3 DEF InsertAuthorization, PlanningTypeInv, PlanningTypeOK
    <3>2. CASE UNCHANGED authorizations
      BY <3>2 DEF PlanningTypeInv, PlanningTypeOK
    <3> QED
      BY <1>9, <3>1, <3>2 DEF CommentStep, Resolve, RecordAuthorization, RejectPlan,
                              SaveApproval, RecordApproval
  <2>8. \A a \in approvals' : a.plan \in PlanRef /\ a.comment \in 1 .. MaxLines
    <3>1. CASE SaveApproval(c)
      <4>1. h.plan \in plans
        BY <3>1 DEF SaveApproval, PlanningInv, CommentInv, Earned
      <4>2. h.plan \in PlanRef
        BY <4>1 DEF PlanningTypeInv, PlanningTypeOK
      <4>3. approvals' = approvals \/ approvals' = approvals \union
               {[plan |-> h.plan, comment |-> h.id, event |-> h.event, said |-> Command(h).plan]}
        BY <3>1 DEF SaveApproval
      <4> QED
        BY <2>2, <4>2, <4>3 DEF PlanningTypeInv, PlanningTypeOK
    <3>2. CASE UNCHANGED approvals
      BY <3>2 DEF PlanningTypeInv, PlanningTypeOK
    <3> QED
      BY <1>9, <3>1, <3>2 DEF CommentStep, Resolve, InsertAuthorization, RecordAuthorization,
                              RejectPlan, RecordApproval
  <2> QED
    BY <2>5, <2>6, <2>7, <2>8 DEF PlanningTypeInv, PlanningTypeOK, issueVars, draftVars, startVars
<1>10. CASE AskToStart \/ Start
  BY <1>10 DEF AskToStart, Start, PlanningTypeInv, PlanningTypeOK, issueVars, draftVars, commandVars
<1>11. CASE UNCHANGED planningVars
  BY <1>11 DEF planningVars, PlanningTypeInv, PlanningTypeOK
<1> QED
  BY <1>1, <1>2, <1>3, <1>4, <1>5, <1>6, <1>7, <1>8, <1>9, <1>10, <1>11 DEF PlanningNext

(* The states of plans, comments and starts have the types they are         *)
(* declared with.                                                           *)
LEMMA PlanningTypes == PlanningInit /\ [][PlanningNext]_planningVars => []PlanningTypeOK
<1>1. PlanningInit => PlanningInv /\ PlanningTypeInv
  BY PlanningInitInv, PlanningInitTypes
<1>2. PlanningInv /\ PlanningTypeInv /\ [PlanningNext]_planningVars => PlanningInv' /\ PlanningTypeInv'
  BY PlanningNextInv, PlanningNextTypes
<1>3. PlanningTypeInv => PlanningTypeOK
  BY DEF PlanningTypeInv
<1> QED
  BY <1>1, <1>2, <1>3, PTL

-----------------------------------------------------------------------------
(* The rules a plan must pass *)

(* The highest of some severities is one of them, or low, and none is higher. *)
LEMMA MaxSeverityIsHighest ==
    ASSUME NEW S \in SUBSET Severities
    PROVE  /\ MaxSeverity(S) \in Severities
           /\ \A s \in S : SeverityRank[s] <= SeverityRank[MaxSeverity(S)]
<1>1. \E s \in S \union {"low"} : \A t \in S : SeverityRank[t] <= SeverityRank[s]
  <2>1. CASE "critical" \in S
    BY <2>1 DEF Severities, SeverityRank
  <2>2. CASE "critical" \notin S /\ "high" \in S
    BY <2>2 DEF Severities, SeverityRank
  <2>3. CASE "critical" \notin S /\ "high" \notin S /\ "medium" \in S
    BY <2>3 DEF Severities, SeverityRank
  <2>4. CASE "critical" \notin S /\ "high" \notin S /\ "medium" \notin S
    BY <2>4 DEF Severities, SeverityRank
  <2> QED
    BY <2>1, <2>2, <2>3, <2>4
<1>2. /\ MaxSeverity(S) \in S \union {"low"}
      /\ \A t \in S : SeverityRank[t] <= SeverityRank[MaxSeverity(S)]
  BY <1>1 DEF MaxSeverity
<1> QED
  BY <1>2 DEF Severities

(* The severity of a plan's risk is at least that of everything it matches. *)
LEMMA RiskCoversItsMatches ==
    ASSUME NEW paths, NEW packages, NEW m \in Risk(paths, packages).matches
    PROVE  /\ m.severity \in Severities /\ Risk(paths, packages).severity \in Severities
           /\ SeverityRank[m.severity] <= SeverityRank[Risk(paths, packages).severity]
           /\ m.severity # "low"
<1> DEFINE onPaths == Matches(paths, ProtectedPathRules)
           onPackages == Matches(packages, DependencyRules)
           S == {SeverityOf(onPaths), SeverityOf(onPackages)}
<1>1. \A x \in onPaths \union onPackages :
         x.severity \in Severities /\ x.severity # "low"
  BY DEF Matches, ProtectedPathRules, DependencyRules, Severities
<1>2. /\ {x.severity : x \in onPaths} \in SUBSET Severities
      /\ {x.severity : x \in onPackages} \in SUBSET Severities
  BY <1>1
<1>3. /\ SeverityOf(onPaths) \in Severities /\ SeverityOf(onPackages) \in Severities
      /\ \A x \in onPaths : SeverityRank[x.severity] <= SeverityRank[SeverityOf(onPaths)]
      /\ \A x \in onPackages : SeverityRank[x.severity] <= SeverityRank[SeverityOf(onPackages)]
  BY <1>2, MaxSeverityIsHighest DEF SeverityOf
<1>4. /\ MaxSeverity(S) \in Severities
      /\ \A s \in S : SeverityRank[s] <= SeverityRank[MaxSeverity(S)]
  BY <1>3, MaxSeverityIsHighest
<1>5. /\ Risk(paths, packages).matches = onPaths \union onPackages
      /\ Risk(paths, packages).severity = MaxSeverity(S)
  BY DEF Risk
<1>6. \A s \in Severities : SeverityRank[s] \in Nat
  BY DEF Severities, SeverityRank
<1> HIDE DEF onPaths, onPackages, S
<1>7. CASE m \in onPaths
  <2>1. SeverityRank[SeverityOf(onPaths)] <= SeverityRank[MaxSeverity(S)]
    BY <1>4 DEF S
  <2> QED
    BY <1>1, <1>3, <1>4, <1>5, <1>6, <1>7, <2>1
<1>8. CASE m \in onPackages
  <2>1. SeverityRank[SeverityOf(onPackages)] <= SeverityRank[MaxSeverity(S)]
    BY <1>4 DEF S
  <2> QED
    BY <1>1, <1>3, <1>4, <1>5, <1>6, <1>8, <2>1
<1> QED
  BY <1>5, <1>7, <1>8

(* A higher severity asks for a higher tier. *)
LEMMA TiersFollowSeverities ==
    ASSUME NEW s \in Severities, NEW t \in Severities, SeverityRank[s] <= SeverityRank[t],
           NEW tier \in Tiers, ModelTierRank[tier] >= ModelTierRank[MinModelTier[t]]
    PROVE  ModelTierRank[tier] >= ModelTierRank[MinModelTier[s]]
BY DEF Severities, SeverityRank, Tiers, ModelTierRank, MinModelTier

(* implementation-plan.ts: in a plan the validator has nothing against,     *)
(* whatever its tasks, paths and packages, every criterion is some task's,  *)
(* ids tell tasks apart and dependencies are tasks, and a task either works *)
(* at the tier of each rule it touches or above, or is forbidden what the   *)
(* rule protects.                                                           *)
THEOREM AcceptedPlansAreGuarded ==
    ASSUME NEW tasks \in Seq(PlanTask), NEW criteria, NEW paths, NEW packages, NEW cyclic,
           Findings(tasks, criteria, Risk(paths, packages), cyclic, TRUE, TRUE) = {}
    PROVE  /\ MeetsCriteria(tasks, criteria)
           /\ \A i, j \in DOMAIN tasks : tasks[i].id = tasks[j].id => i = j
           /\ \A i \in DOMAIN tasks : tasks[i].dependsOn \subseteq TaskIds(tasks)
           /\ GuardsWhatIsProtected(tasks, Risk(paths, packages))
<1> DEFINE risk == Risk(paths, packages)
<1>0. DOMAIN tasks = 1 .. Len(tasks) /\ Len(tasks) \in Nat
  OBVIOUS
<1>1. /\ Unmapped(tasks, criteria) = {}
      /\ ~(Cardinality(TaskIds(tasks)) < Len(tasks))
      /\ \A i \in DOMAIN tasks : tasks[i].dependsOn \subseteq TaskIds(tasks)
      /\ \A i \in DOMAIN tasks : \A m \in risk.matches : TaskRespects(tasks[i], m, risk)
  BY DEF Findings
<1>2. MeetsCriteria(tasks, criteria)
  BY <1>1 DEF Unmapped, MeetsCriteria
<1>3. \A i, j \in DOMAIN tasks : tasks[i].id = tasks[j].id => i = j
  <2> DEFINE ids == [i \in 1 .. Len(tasks) |-> tasks[i].id]
             T == TaskIds(tasks)
  <2>1. ids \in Surjection(1 .. Len(tasks), T)
    BY <1>0 DEF Surjection, TaskIds
  <2>2. IsFiniteSet(1 .. Len(tasks)) /\ Cardinality(1 .. Len(tasks)) = Len(tasks)
    BY <1>0, FS_Interval
  <2> HIDE DEF ids, T
  <2>3. /\ IsFiniteSet(T) /\ Cardinality(T) <= Len(tasks)
        /\ Cardinality(T) = Len(tasks) <=> ids \in Injection(1 .. Len(tasks), T)
    BY <2>1, <2>2, FS_Surjection
  <2>4. Cardinality(T) = Len(tasks)
    BY <1>0, <1>1, <2>3, FS_CardinalityType DEF T
  <2> QED
    BY <1>0, <2>3, <2>4 DEF Injection, IsInjective, ids
<1>4. GuardsWhatIsProtected(tasks, risk)
  <2>1. ASSUME NEW i \in DOMAIN tasks, NEW m \in risk.matches,
               \E e \in tasks[i].allowed : Includes(e, m.pattern)
        PROVE  ModelTierRank[tasks[i].tier] >= ModelTierRank[MinModelTier[m.severity]]
    <3>1. tasks[i].tier \in Tiers
      <4>1. tasks[i] \in PlanTask
        BY <1>0
      <4> QED
        BY <4>1 DEF PlanTask
    <3>2. /\ m.severity \in Severities /\ risk.severity \in Severities
          /\ SeverityRank[m.severity] <= SeverityRank[risk.severity] /\ m.severity # "low"
      BY RiskCoversItsMatches
    <3> HIDE DEF risk
    <3>3. risk.severity # "low"
      BY <3>2 DEF Severities, SeverityRank
    <3>4. ModelTierRank[tasks[i].tier] >= ModelTierRank[MinModelTier[risk.severity]]
      BY <1>1, <2>1, <3>3 DEF TaskRespects
    <3> QED
      BY <3>1, <3>2, <3>4, TiersFollowSeverities
  <2>2. ASSUME NEW i \in DOMAIN tasks, NEW m \in risk.matches,
               ~ \E e \in tasks[i].allowed : Includes(e, m.pattern)
        PROVE  \E e \in tasks[i].forbidden : Includes(e, m.pattern)
    BY <1>1, <2>2 DEF TaskRespects
  <2> HIDE DEF risk
  <2> QED
    BY <2>1, <2>2 DEF GuardsWhatIsProtected
<1> QED
  BY <1>1, <1>2, <1>3, <1>4

-----------------------------------------------------------------------------
(* The search for cycles *)

(* A set of positions that is not empty has a last one. *)
LEMMA LastOf ==
    ASSUME NEW n \in Nat, NEW S \in SUBSET (1 .. n), S # {}
    PROVE  \E i \in S : \A j \in S : j <= i
<1> DEFINE R == {ss \in Nat \X Nat : ss[1] < ss[2]}
           T == {n - i : i \in S}
<1>1. IsWellFoundedOn(R, Nat)
  BY NatLessThanWellFounded DEF OpToRel
<1>2. T \in SUBSET Nat /\ T # {}
  <2>1. ASSUME NEW i \in S PROVE n - i \in Nat
    <3>1. i \in Nat /\ i <= n
      OBVIOUS
    <3> QED
      BY <3>1
  <2> QED
    BY <2>1
<1>3. PICK d \in T : \A e \in T : <<e, d>> \notin R
  <2> HIDE DEF R, T
  <2> QED
    BY <1>1, <1>2, WFMin
<1>4. PICK i \in S : d = n - i
  BY <1>3
<1>5. ASSUME NEW j \in S PROVE j <= i
  <2>1. n - j \in T /\ n - j \in Nat /\ d \in Nat /\ i \in Nat /\ j \in Nat
    BY <1>2, <1>4
  <2>2. n - j < d => <<n - j, d>> \in R
    BY <2>1
  <2>3. ~(n - j < d)
    BY <1>3, <2>1, <2>2
  <2> QED
    BY <1>4, <2>1, <2>3
<1> QED
  BY <1>5

(* What the draft speaks of: its tasks, and what they depend on. *)
Mentioned == TaskIds(drafted) \union UNION {drafted[i].dependsOn : i \in DOMAIN drafted}

Deps(id) == DependenciesOf(drafted, id)

(* An id becomes gray once and black once, and is mentioned. *)
EachOnce ==
    /\ \A i, j \in 1 .. Len(visiting) : visiting[i].id = visiting[j].id => i = j
    /\ \A i, j \in 1 .. Len(visited) : visited[i] = visited[j] => i = j
    /\ Gray \intersect Black = {}
    /\ Gray \union Black \subseteq Mentioned

(* The stack is a path, and what a visit has looked at is black, but for    *)
(* the dependency whose visit it waits for and the one that ends the search. *)
StackIsPath ==
    \A i \in 1 .. Len(visiting) :
        /\ i < Len(visiting) => visiting[i + 1].id \in Deps(visiting[i].id)
        /\ visiting[i].left \subseteq Deps(visiting[i].id)
        /\ \A d \in Deps(visiting[i].id) \ visiting[i].left :
             \/ d \in Black \/ cycle = "found"
             \/ i < Len(visiting) /\ d = visiting[i + 1].id

(* What is black has its dependencies black before it. *)
DependenciesFirst ==
    \A k \in 1 .. Len(visited) : \A d \in Deps(visited[k]) :
        \E j \in 1 .. k - 1 : visited[j] = d

(* Each of the ids depends on one of them. *)
Circular(ids) == ids # {} /\ \A id \in ids : Deps(id) \intersect ids # {}

(* Nothing black is on a cycle. *)
NoBlackOnCycle ==
    \A ids \in SUBSET TaskIds(drafted) : Circular(ids) => ids \intersect Black = {}

(* The tasks the outer loop has passed are black, or the first visit's. *)
PassedTasks ==
    \A i \in 1 .. nextTask - 1 :
        drafted[i].id \in Black \/ (visiting # <<>> /\ drafted[i].id = visiting[1].id)

(* The answer is given when nothing is left to visit, or for a cycle. *)
AnswerIsTrue ==
    /\ cycle = "none" => visiting = <<>> /\ nextTask = Len(drafted) + 1
    /\ cycle = "found" => HasCycle(drafted)

(* The inductive invariant of the search. *)
SearchInv ==
    /\ SearchTypeOK
    /\ EachOnce /\ StackIsPath /\ DependenciesFirst /\ NoBlackOnCycle /\ PassedTasks
    /\ AnswerIsTrue

-----------------------------------------------------------------------------

(* Only tasks have dependencies, and those are mentioned. *)
LEMMA DependenciesAreMentioned ==
    ASSUME drafted \in Seq(PlanTask), NEW id
    PROVE  /\ Deps(id) \subseteq Mentioned
           /\ Deps(id) # {} => id \in TaskIds(drafted)
           /\ Mentioned \subseteq STRING
<1>0. DOMAIN drafted = 1 .. Len(drafted) /\ Len(drafted) \in Nat
  OBVIOUS
<1>1. Mentioned \subseteq STRING
  <2>1. \A i \in DOMAIN drafted : drafted[i] \in PlanTask
    BY <1>0
  <2>2. \A i \in DOMAIN drafted : drafted[i].id \in STRING /\ drafted[i].dependsOn \subseteq STRING
    BY <2>1 DEF PlanTask
  <2> QED
    BY <2>2 DEF Mentioned, TaskIds
<1>2. ASSUME id \in TaskIds(drafted) PROVE Deps(id) \subseteq Mentioned
  <2> DEFINE S == {i \in 1 .. Len(drafted) : drafted[i].id = id}
  <2>1. S # {} /\ S \in SUBSET (1 .. Len(drafted))
    BY <1>0, <1>2 DEF TaskIds
  <2>2. \E i \in S : \A j \in S : j <= i
    <3> HIDE DEF S
    <3> QED
      BY <1>0, <2>1, LastOf
  <2>3. \E i \in DOMAIN drafted :
          drafted[i].id = id /\ \A j \in DOMAIN drafted : drafted[j].id = id => j <= i
    BY <1>0, <2>2
  <2>4. \E i \in DOMAIN drafted : Deps(id) = drafted[i].dependsOn
    BY <1>2, <2>3 DEF Deps, DependenciesOf
  <2> QED
    BY <2>4 DEF Mentioned
<1>3. id \notin TaskIds(drafted) => Deps(id) = {}
  BY DEF Deps, DependenciesOf
<1> QED
  BY <1>1, <1>2, <1>3

(* Where ids tell tasks apart, a task's dependencies are its own. *)
LEMMA OwnDependencies ==
    ASSUME drafted \in Seq(PlanTask),
           \A i, j \in DOMAIN drafted : drafted[i].id = drafted[j].id => i = j,
           NEW i \in DOMAIN drafted
    PROVE  Deps(drafted[i].id) = drafted[i].dependsOn
<1>1. \A k \in DOMAIN drafted : k \in Nat
  OBVIOUS
<1>2. drafted[i].id \in TaskIds(drafted)
  BY DEF TaskIds
<1>3. \A k \in DOMAIN drafted :
        drafted[k].id = drafted[i].id /\ (\A j \in DOMAIN drafted : drafted[j].id = drafted[i].id => j <= k)
          <=> k = i
  BY <1>1
<1> QED
  BY <1>2, <1>3 DEF Deps, DependenciesOf

(* The last visit is there, and its id is gray. *)
LEMMA TopOfStack ==
    ASSUME visiting \in Seq(Visits), visiting # <<>>
    PROVE  /\ Len(visiting) \in Nat \ {0}
           /\ Len(visiting) \in 1 .. Len(visiting)
           /\ visiting[Len(visiting)] \in Visits
           /\ visiting[Len(visiting)].id \in Gray
<1>1. Len(visiting) \in Nat \ {0} /\ DOMAIN visiting = 1 .. Len(visiting)
  BY EmptySeq
<1>2. visiting[Len(visiting)] \in Visits
  BY <1>1
<1> QED
  BY <1>1, <1>2 DEF Gray

(* Taking a dependency off the last visit changes nothing else. *)
LEMMA LookingAtOne ==
    ASSUME visiting \in Seq(Visits), visiting # <<>>, NEW d,
           NEW rest, rest = [visiting EXCEPT ![Len(visiting)].left = @ \ {d}]
    PROVE  /\ rest \in Seq(Visits) /\ Len(rest) = Len(visiting)
           /\ \A i \in 1 .. Len(visiting) :
                /\ rest[i].id = visiting[i].id
                /\ i # Len(visiting) => rest[i].left = visiting[i].left
           /\ rest[Len(visiting)].left = visiting[Len(visiting)].left \ {d}
<1> DEFINE n == Len(visiting)
           e == [visiting[n] EXCEPT !.left = @ \ {d}]
<1>1. n \in 1 .. Len(visiting) /\ visiting[n] \in Visits /\ n \in Nat
  BY TopOfStack
<1>2. e \in Visits /\ e.id = visiting[n].id /\ e.left = visiting[n].left \ {d}
  BY <1>1 DEF Visits
<1>3. rest = [visiting EXCEPT ![n] = e]
  OBVIOUS
<1> HIDE DEF e
<1>4. /\ rest \in Seq(Visits) /\ Len(rest) = Len(visiting)
      /\ \A j \in 1 .. Len(visiting) : rest[j] = IF j = n THEN e ELSE visiting[j]
  <2>1. e \in Visits /\ n \in 1 .. Len(visiting) /\ visiting \in Seq(Visits)
    BY <1>1, <1>2
  <2>2. /\ [visiting EXCEPT ![n] = e] \in Seq(Visits)
        /\ Len([visiting EXCEPT ![n] = e]) = Len(visiting)
        /\ \A j \in 1 .. Len(visiting) :
             [visiting EXCEPT ![n] = e][j] = IF j = n THEN e ELSE visiting[j]
    BY <2>1, ExceptSeq
  <2> QED
    BY <1>3, <2>2, Zenon
<1> QED
  BY <1>1, <1>2, <1>4

(* Leaving the last visit keeps the others. *)
LEMMA WithoutTheLast ==
    ASSUME visiting \in Seq(Visits), visiting # <<>>,
           NEW rest, rest = SubSeq(visiting, 1, Len(visiting) - 1)
    PROVE  /\ rest \in Seq(Visits) /\ Len(rest) = Len(visiting) - 1
           /\ \A i \in 1 .. Len(visiting) - 1 : rest[i] = visiting[i]
<1>1. Len(visiting) \in Nat \ {0} /\ \A i \in 1 .. Len(visiting) : visiting[i] \in Visits
  BY TopOfStack
<1>2. \A i \in 1 .. Len(visiting) - 1 : visiting[i] \in Visits
  BY <1>1
<1> DEFINE m == Len(visiting) - 1
<1>3. m \in Nat /\ m - 1 + 1 = m /\ m \in Int /\ 1 \in Int
  BY <1>1
<1>4. \A i \in 1 .. m : visiting[i] \in Visits /\ 1 + i - 1 = i
  BY <1>2
<1> HIDE DEF m
<1>5. /\ SubSeq(visiting, 1, m) \in Seq(Visits)
      /\ Len(SubSeq(visiting, 1, m)) = IF 1 <= m THEN m - 1 + 1 ELSE 0
      /\ \A i \in 1 .. m - 1 + 1 : SubSeq(visiting, 1, m)[i] = visiting[1 + i - 1]
  BY <1>3, <1>4, SubSeqProperties
<1>6. Len(SubSeq(visiting, 1, m)) = m
  BY <1>3, <1>5
<1>7. ASSUME NEW i \in 1 .. m PROVE SubSeq(visiting, 1, m)[i] = visiting[i]
  BY <1>3, <1>4, <1>5
<1>8. rest = SubSeq(visiting, 1, m)
  BY DEF m
<1> QED
  BY <1>5, <1>6, <1>7, <1>8 DEF m

(* Nothing is gray or black. *)
LEMMA SearchInitInv == SearchInit => SearchInv
<1> SUFFICES ASSUME SearchInit PROVE SearchInv
  OBVIOUS
<1>1. SearchTypeOK
  <2>1. drafted \in Seq(PlanTask) /\ drafted # <<>>
    BY PlanSearchAssumption DEF SearchInit
  <2>2. Len(drafted) \in Nat \ {0}
    BY <2>1, EmptySeq
  <2> QED
    BY <2>1, <2>2 DEF SearchInit, SearchTypeOK
<1>2. visiting = <<>> /\ visited = <<>> /\ Gray = {} /\ Black = {} /\ nextTask = 1 /\ cycle = "searching"
  BY DEF SearchInit, Gray, Black
<1>3. EachOnce /\ StackIsPath /\ DependenciesFirst /\ NoBlackOnCycle /\ PassedTasks /\ AnswerIsTrue
  BY <1>2 DEF EachOnce, StackIsPath, DependenciesFirst, NoBlackOnCycle, PassedTasks, AnswerIsTrue
<1> QED
  BY <1>1, <1>3 DEF SearchInv

-----------------------------------------------------------------------------

(* What the draft says does not change. *)
LEMMA DraftStays ==
    ASSUME drafted' = drafted
    PROVE  /\ \A id : Deps(id)' = Deps(id)
           /\ Mentioned' = Mentioned
           /\ TaskIds(drafted)' = TaskIds(drafted)
           /\ HasCycle(drafted)' = HasCycle(drafted)
           /\ \A ids : Circular(ids)' = Circular(ids)
BY DEF Deps, Mentioned, Circular

(* The loop over the tasks starts a visit, or passes a black task. *)
LEMMA VisitTaskInv == SearchInv /\ VisitTask => SearchInv'
<1> SUFFICES ASSUME SearchInv, VisitTask PROVE SearchInv'
  OBVIOUS
<1> DEFINE id == drafted[nextTask].id
           white == id \notin Black
<1>0. /\ cycle = "searching" /\ visiting = <<>> /\ nextTask <= Len(drafted)
      /\ nextTask' = nextTask + 1
      /\ visiting' = IF id \in Black THEN <<>> ELSE <<Visit(id)>>
      /\ drafted' = drafted /\ visited' = visited /\ cycle' = cycle
  BY DEF VisitTask
<1>1. SearchTypeOK /\ EachOnce /\ StackIsPath /\ DependenciesFirst /\ NoBlackOnCycle /\ PassedTasks
  BY DEF SearchInv
<1>2. /\ drafted \in Seq(PlanTask) /\ Len(drafted) \in Nat /\ nextTask \in 1 .. Len(drafted)
      /\ DOMAIN drafted = 1 .. Len(drafted)
  BY <1>0, <1>1 DEF SearchTypeOK
<1>3. id \in TaskIds(drafted) /\ id \in Mentioned /\ id \in STRING
  BY <1>2, DependenciesAreMentioned DEF TaskIds, Mentioned
<1>4. Deps(id) \subseteq STRING
  BY <1>2, DependenciesAreMentioned
<1>5. Visit(id) \in Visits /\ Visit(id).id = id /\ Visit(id).left = Deps(id)
  BY <1>3, <1>4 DEF Visit, Visits, Deps
<1>6. Black' = Black
  BY <1>0 DEF Black
<1> HIDE DEF id
<1>7. /\ visiting' \in Seq(Visits)
      /\ white => Len(visiting') = 1 /\ visiting'[1] = Visit(id) /\ visiting' # <<>>
      /\ ~white => visiting' = <<>> /\ Len(visiting') = 0
  <2>1. CASE white
    BY <1>0, <1>5, <2>1
  <2>2. CASE ~white
    BY <1>0, <2>2
  <2> QED
    BY <2>1, <2>2
<1>8. Gray' = IF white THEN {id} ELSE {}
  <2>1. Gray' = {visiting'[i].id : i \in DOMAIN visiting'}
    BY DEF Gray
  <2>2. DOMAIN visiting' = 1 .. Len(visiting')
    BY <1>7
  <2> HIDE DEF white
  <2>3. CASE white
    BY <1>5, <1>7, <2>1, <2>2, <2>3
  <2>4. CASE ~white
    BY <1>7, <2>1, <2>2, <2>4
  <2> QED
    BY <2>3, <2>4
<1>16. \A i \in 1 .. Len(visiting') : i = 1 /\ white /\ Len(visiting') = 1
  <2> HIDE DEF white
  <2>1. CASE white
    BY <1>7, <2>1
  <2>2. CASE ~white
    BY <1>7, <2>2
  <2> QED
    BY <2>1, <2>2
<1>9. SearchTypeOK'
  BY <1>0, <1>1, <1>2, <1>7 DEF SearchTypeOK
<1>10. EachOnce'
  <2>1. \A i, j \in 1 .. Len(visiting') : i = j
    BY <1>16
  <2>2. Gray' \intersect Black' = {} /\ Gray' \union Black' \subseteq Mentioned'
    BY <1>0, <1>1, <1>3, <1>6, <1>8, DraftStays DEF EachOnce
  <2> QED
    BY <1>0, <1>1, <2>1, <2>2 DEF EachOnce
<1>11. StackIsPath'
  <2>1. \A i \in 1 .. Len(visiting') :
          i = 1 /\ Len(visiting') = 1 /\ visiting'[i].id = id /\ visiting'[i].left = Deps(id)
    BY <1>5, <1>7, <1>16
  <2> QED
    BY <1>0, <2>1, DraftStays DEF StackIsPath
<1>12. DependenciesFirst'
  <2>1. visited' = visited /\ drafted' = drafted
    BY <1>0
  <2> QED
    BY <1>1, <2>1, DraftStays DEF DependenciesFirst
<1>13. NoBlackOnCycle'
  BY <1>0, <1>1, <1>6, DraftStays DEF NoBlackOnCycle
<1>14. PassedTasks'
  <2> SUFFICES ASSUME NEW i \in 1 .. nextTask' - 1
               PROVE  drafted[i].id \in Black \/ (visiting' # <<>> /\ drafted[i].id = visiting'[1].id)
    BY <1>0, <1>6 DEF PassedTasks
  <2>1. CASE i = nextTask
    BY <1>5, <1>7, <2>1 DEF id
  <2>2. CASE i # nextTask
    <3>1. i \in 1 .. nextTask - 1
      BY <1>0, <1>2, <2>2
    <3> QED
      BY <1>0, <1>1, <3>1 DEF PassedTasks
  <2> QED
    BY <2>1, <2>2
<1>15. AnswerIsTrue'
  BY <1>0 DEF AnswerIsTrue
<1> QED
  BY <1>9, <1>10, <1>11, <1>12, <1>13, <1>14, <1>15 DEF SearchInv

(* The search ends when every task was passed. *)
LEMMA EndSearchInv == SearchInv /\ EndSearch => SearchInv'
<1> SUFFICES ASSUME SearchInv, EndSearch PROVE SearchInv'
  OBVIOUS
<1>1. /\ cycle = "searching" /\ visiting = <<>> /\ nextTask > Len(drafted) /\ cycle' = "none"
      /\ drafted' = drafted /\ nextTask' = nextTask /\ visiting' = visiting /\ visited' = visited
  BY DEF EndSearch
<1>2. Gray' = Gray /\ Black' = Black
  BY <1>1 DEF Gray, Black
<1>3. SearchTypeOK /\ EachOnce /\ StackIsPath /\ DependenciesFirst /\ NoBlackOnCycle /\ PassedTasks
  BY DEF SearchInv
<1>4. nextTask = Len(drafted) + 1
  BY <1>1, <1>3 DEF SearchTypeOK
<1>5. SearchTypeOK'
  BY <1>1, <1>3 DEF SearchTypeOK
<1>6. EachOnce' /\ StackIsPath'
  BY <1>1, <1>2, <1>3, DraftStays DEF EachOnce, StackIsPath
<1>7. DependenciesFirst' /\ NoBlackOnCycle'
  BY <1>1, <1>2, <1>3, DraftStays DEF DependenciesFirst, NoBlackOnCycle
<1>8. PassedTasks'
  BY <1>1, <1>2, <1>3 DEF PassedTasks
<1>9. AnswerIsTrue'
  BY <1>1, <1>4 DEF AnswerIsTrue
<1> QED
  BY <1>5, <1>6, <1>7, <1>8, <1>9 DEF SearchInv

(* A visit ends when all its dependencies are black, so its id follows      *)
(* them.                                                                    *)
LEMMA LeaveVisitInv == SearchInv /\ LeaveVisit => SearchInv'
<1> SUFFICES ASSUME SearchInv, LeaveVisit PROVE SearchInv'
  OBVIOUS
<1> DEFINE n == Len(visiting)
           id == visiting[n].id
           k == Len(visited)
<1>0. /\ cycle = "searching" /\ visiting # <<>> /\ visiting[n].left = {}
      /\ visited' = Append(visited, id)
      /\ visiting' = SubSeq(visiting, 1, n - 1)
      /\ drafted' = drafted /\ nextTask' = nextTask /\ cycle' = cycle
  BY DEF LeaveVisit
<1>1. SearchTypeOK /\ EachOnce /\ StackIsPath /\ DependenciesFirst /\ NoBlackOnCycle /\ PassedTasks
  BY DEF SearchInv
<1>2. /\ visiting \in Seq(Visits) /\ visited \in Seq(STRING)
      /\ n \in Nat \ {0} /\ n \in 1 .. n /\ visiting[n] \in Visits /\ id \in Gray /\ id \in STRING
      /\ k \in Nat
  BY <1>0, <1>1, TopOfStack DEF SearchTypeOK, Visits
<1>3. /\ visiting' \in Seq(Visits) /\ Len(visiting') = n - 1
      /\ \A i \in 1 .. n - 1 : visiting'[i] = visiting[i]
  BY <1>0, <1>2, WithoutTheLast
<1>4. /\ visited' \in Seq(STRING) /\ Len(visited') = k + 1 /\ visited'[k + 1] = id
      /\ \A i \in 1 .. k : visited'[i] = visited[i]
  BY <1>0, <1>2
<1> HIDE DEF n, id, k
<1>5. Black' = Black \union {id}
  <2>1. DOMAIN visited = 1 .. k /\ DOMAIN visited' = 1 .. k + 1
    BY <1>2, <1>4 DEF k
  <2>2. Black = {visited[i] : i \in 1 .. k} /\ Black' = {visited'[i] : i \in 1 .. k + 1}
    BY <2>1 DEF Black
  <2>3. \A i \in 1 .. k + 1 : i = k + 1 \/ i \in 1 .. k
    BY <1>2
  <2>4. k + 1 \in 1 .. k + 1 /\ 1 .. k \subseteq 1 .. k + 1
    BY <1>2
  <2> QED
    BY <1>4, <2>2, <2>3, <2>4
<1>6. Gray' = Gray \ {id}
  <2>1. DOMAIN visiting = 1 .. n /\ DOMAIN visiting' = 1 .. n - 1
    BY <1>2, <1>3 DEF n
  <2>2. Gray = {visiting[i].id : i \in 1 .. n} /\ Gray' = {visiting'[i].id : i \in 1 .. n - 1}
    BY <2>1 DEF Gray
  <2>3. \A i \in 1 .. n : i = n \/ i \in 1 .. n - 1
    BY <1>2
  <2>4. 1 .. n - 1 \subseteq 1 .. n /\ n \notin 1 .. n - 1
    BY <1>2
  <2>5. \A i \in 1 .. n : visiting[i].id = id => i = n
    BY <1>1, <1>2 DEF EachOnce, n, id
  <2> QED
    BY <1>3, <2>2, <2>3, <2>4, <2>5 DEF id
<1>7. SearchTypeOK'
  BY <1>0, <1>1, <1>3, <1>4 DEF SearchTypeOK
<1>8. EachOnce'
  <2>1. \A i, j \in 1 .. Len(visiting') : visiting'[i].id = visiting'[j].id => i = j
    <3>1. 1 .. Len(visiting') \subseteq 1 .. Len(visiting)
      BY <1>2, <1>3 DEF n
    <3> QED
      BY <1>1, <1>3, <3>1 DEF EachOnce
  <2>2. \A i \in 1 .. k : visited[i] # id
    <3>1. \A i \in 1 .. k : visited[i] \in Black
      BY <1>2 DEF Black, k
    <3> QED
      BY <1>1, <1>2, <3>1 DEF EachOnce
  <2>3. \A i, j \in 1 .. Len(visited') : visited'[i] = visited'[j] => i = j
    <3> TAKE i, j \in 1 .. Len(visited')
    <3>1. (i = k + 1 \/ i \in 1 .. k) /\ (j = k + 1 \/ j \in 1 .. k)
      BY <1>2, <1>4
    <3>2. CASE i \in 1 .. k /\ j \in 1 .. k
      BY <1>1, <1>4, <3>2 DEF EachOnce, k
    <3>3. CASE i = k + 1 /\ j \in 1 .. k
      BY <1>4, <2>2, <3>3
    <3>4. CASE i \in 1 .. k /\ j = k + 1
      BY <1>4, <2>2, <3>4
    <3> QED
      BY <3>1, <3>2, <3>3, <3>4
  <2>4. Gray' \intersect Black' = {} /\ Gray' \union Black' \subseteq Mentioned'
    BY <1>0, <1>1, <1>2, <1>5, <1>6, DraftStays DEF EachOnce
  <2> QED
    BY <2>1, <2>3, <2>4 DEF EachOnce
<1>9. Deps(id) \subseteq Black
  <2>1. \A d \in Deps(visiting[n].id) \ visiting[n].left : d \in Black
    <3>1. ~(n < n)
      BY <1>2
    <3> QED
      BY <1>0, <1>1, <1>2, <3>1 DEF StackIsPath, n
  <2> QED
    BY <1>0, <2>1 DEF n, id
<1>10. StackIsPath'
  <2> SUFFICES ASSUME NEW i \in 1 .. n - 1
               PROVE  /\ i < n - 1 => visiting'[i + 1].id \in Deps(visiting'[i].id)
                      /\ visiting'[i].left \subseteq Deps(visiting'[i].id)
                      /\ \A d \in Deps(visiting'[i].id) \ visiting'[i].left :
                           d \in Black' \/ (i < n - 1 /\ d = visiting'[i + 1].id)
    BY <1>0, <1>3, DraftStays DEF StackIsPath
  <2>1. i \in 1 .. n /\ i < n
    BY <1>2
  <2>2. /\ visiting[i + 1].id \in Deps(visiting[i].id)
        /\ visiting[i].left \subseteq Deps(visiting[i].id)
        /\ \A d \in Deps(visiting[i].id) \ visiting[i].left : d \in Black \/ d = visiting[i + 1].id
    BY <1>0, <1>1, <2>1 DEF StackIsPath, n
  <2>3. visiting'[i] = visiting[i]
    BY <1>3
  <2>4. CASE i = n - 1
    <3>1. i + 1 = n
      BY <1>2, <2>4
    <3>2. visiting[i + 1].id = id /\ ~(i < n - 1)
      BY <1>2, <2>4, <3>1 DEF id
    <3> QED
      BY <1>5, <2>2, <2>3, <3>2
  <2>5. CASE i # n - 1
    <3>1. i + 1 \in 1 .. n - 1
      BY <1>2, <2>1, <2>5
    <3>2. visiting'[i + 1] = visiting[i + 1] /\ i < n - 1
      BY <1>2, <1>3, <3>1
    <3> QED
      BY <1>5, <2>2, <2>3, <3>2
  <2> QED
    BY <2>4, <2>5
<1>11. DependenciesFirst'
  <2> SUFFICES ASSUME NEW i \in 1 .. k + 1, NEW d \in Deps(visited'[i])
               PROVE  \E j \in 1 .. i - 1 : visited'[j] = d
    BY <1>0, <1>4 DEF DependenciesFirst, Deps
  <2>1. CASE i \in 1 .. k
    <3>1. PICK j \in 1 .. i - 1 : visited[j] = d
      BY <1>1, <1>4, <2>1 DEF DependenciesFirst, k
    <3>2. j \in 1 .. k
      BY <1>2, <2>1
    <3> QED
      BY <1>4, <3>1, <3>2
  <2>2. CASE i = k + 1
    <3>1. d \in Black
      BY <1>4, <1>9, <2>2
    <3>2. PICK j \in 1 .. k : visited[j] = d
      BY <1>2, <3>1 DEF Black, k
    <3>3. j \in 1 .. i - 1
      BY <1>2, <2>2
    <3> QED
      BY <1>4, <3>2, <3>3
  <2> QED
    BY <1>2, <2>1, <2>2
<1>12. NoBlackOnCycle'
  <2> SUFFICES ASSUME NEW ids \in SUBSET TaskIds(drafted), Circular(ids)
               PROVE  ids \intersect (Black \union {id}) = {}
    BY <1>0, <1>5, DraftStays DEF NoBlackOnCycle
  <2>1. ids \intersect Black = {}
    BY <1>1 DEF NoBlackOnCycle
  <2>2. id \in ids => Deps(id) \intersect ids # {}
    BY DEF Circular
  <2> QED
    BY <1>9, <2>1, <2>2
<1>13. PassedTasks'
  <2> SUFFICES ASSUME NEW i \in 1 .. nextTask - 1
               PROVE  drafted[i].id \in Black' \/ (visiting' # <<>> /\ drafted[i].id = visiting'[1].id)
    BY <1>0 DEF PassedTasks
  <2>1. drafted[i].id \in Black \/ drafted[i].id = visiting[1].id
    BY <1>1 DEF PassedTasks
  <2>2. CASE n = 1
    BY <1>5, <2>1, <2>2 DEF id
  <2>3. CASE n # 1
    <3>1. 1 \in 1 .. n - 1
      BY <1>2, <2>3
    <3>2. visiting'[1] = visiting[1] /\ visiting' # <<>>
      BY <1>2, <1>3, <3>1
    <3> QED
      BY <1>5, <2>1, <3>2
  <2> QED
    BY <2>2, <2>3
<1>14. AnswerIsTrue'
  BY <1>0 DEF AnswerIsTrue
<1> QED
  BY <1>7, <1>8, <1>10, <1>11, <1>12, <1>13, <1>14 DEF SearchInv

(* A gray dependency closes the path into a cycle; a white one makes it     *)
(* longer.                                                                  *)
LEMMA VisitDependencyInv == SearchInv /\ VisitDependency => SearchInv'
<1> SUFFICES ASSUME SearchInv, VisitDependency PROVE SearchInv'
  OBVIOUS
<1> DEFINE n == Len(visiting)
           top == visiting[n].id
<1>1. SearchTypeOK /\ EachOnce /\ StackIsPath /\ DependenciesFirst /\ NoBlackOnCycle /\ PassedTasks
  BY DEF SearchInv
<1>2. cycle = "searching" /\ visiting # <<>> /\ visiting \in Seq(Visits)
  BY <1>1 DEF VisitDependency, SearchTypeOK
<1>3. PICK d \in visiting[n].left :
        /\ cycle' = IF d \in Gray THEN "found" ELSE cycle
        /\ visiting' = IF d \in Gray \union Black
                       THEN [visiting EXCEPT ![n].left = @ \ {d}]
                       ELSE Append([visiting EXCEPT ![n].left = @ \ {d}], Visit(d))
  BY DEF VisitDependency
<1>4. drafted' = drafted /\ nextTask' = nextTask /\ visited' = visited
  BY DEF VisitDependency
<1> DEFINE rest == [visiting EXCEPT ![n].left = @ \ {d}]
<1>5. /\ n \in Nat \ {0} /\ n \in 1 .. n /\ visiting[n] \in Visits /\ top \in Gray
  BY <1>2, TopOfStack
<1>6. /\ rest \in Seq(Visits) /\ Len(rest) = n
      /\ \A i \in 1 .. n :
           rest[i].id = visiting[i].id /\ (i # n => rest[i].left = visiting[i].left)
      /\ rest[n].left = visiting[n].left \ {d}
  BY <1>2, LookingAtOne
<1>7. d \in Deps(top) /\ d \in Mentioned /\ d \in STRING /\ Deps(d) \subseteq STRING
  <2>1. visiting[n].left \subseteq Deps(top)
    BY <1>1, <1>5 DEF StackIsPath
  <2>2. drafted \in Seq(PlanTask)
    BY <1>1 DEF SearchTypeOK
  <2> QED
    BY <2>1, <2>2, DependenciesAreMentioned
<1>8. visiting' = IF d \in Gray \union Black THEN rest ELSE Append(rest, Visit(d))
  BY <1>3
<1> HIDE DEF rest, n, top
<1>9. Black' = Black
  BY <1>4 DEF Black
<1>10. Gray = {visiting[i].id : i \in 1 .. n}
  BY <1>2 DEF Gray, n
<1>11. DependenciesFirst'
  BY <1>1, <1>4, DraftStays DEF DependenciesFirst
<1>12. NoBlackOnCycle'
  BY <1>1, <1>4, <1>9, DraftStays DEF NoBlackOnCycle
<1>13. CASE d \in Gray \union Black
  <2>0. visiting' = rest
    BY <1>8, <1>13
  <2>1. Gray' = Gray
    <3>1. Gray' = {rest[i].id : i \in 1 .. n}
      BY <1>6, <2>0 DEF Gray
    <3> QED
      BY <1>6, <1>10, <3>1
  <2>2. SearchTypeOK'
    BY <1>1, <1>3, <1>4, <1>6, <2>0 DEF SearchTypeOK
  <2>3. EachOnce'
    <3>1. \A i, j \in 1 .. Len(visiting') : visiting'[i].id = visiting'[j].id => i = j
      BY <1>1, <1>6, <2>0 DEF EachOnce, n
    <3> QED
      BY <1>1, <1>4, <1>9, <2>1, <3>1, DraftStays DEF EachOnce
  <2>4. PassedTasks'
    <3>1. visiting'[1].id = visiting[1].id /\ visiting' # <<>>
      BY <1>5, <1>6, <2>0
    <3> QED
      BY <1>1, <1>4, <1>9, <3>1 DEF PassedTasks
  <2>5. StackIsPath'
    <3> SUFFICES ASSUME NEW i \in 1 .. n
                 PROVE  /\ i < n => rest[i + 1].id \in Deps(rest[i].id)
                        /\ rest[i].left \subseteq Deps(rest[i].id)
                        /\ \A e \in Deps(rest[i].id) \ rest[i].left :
                             \/ e \in Black \/ cycle' = "found"
                             \/ i < n /\ e = rest[i + 1].id
      BY <1>4, <1>6, <1>9, <2>0, DraftStays DEF StackIsPath
    <3>1. /\ i < n => visiting[i + 1].id \in Deps(visiting[i].id)
          /\ visiting[i].left \subseteq Deps(visiting[i].id)
          /\ \A e \in Deps(visiting[i].id) \ visiting[i].left :
               e \in Black \/ (i < n /\ e = visiting[i + 1].id)
      BY <1>1, <1>2 DEF StackIsPath, n
    <3>2. i < n => rest[i + 1].id = visiting[i + 1].id
      BY <1>5, <1>6
    <3>3. CASE i = n
      <4>1. d \in Black \/ cycle' = "found"
        BY <1>3, <1>13
      <4> QED
        BY <1>5, <1>6, <3>1, <3>3, <4>1
    <3>4. CASE i # n
      BY <1>6, <3>1, <3>2, <3>4
    <3> QED
      BY <3>3, <3>4
  <2>6. AnswerIsTrue'
    <3>1. CASE d \notin Gray
      BY <1>2, <1>3, <3>1 DEF AnswerIsTrue
    <3>2. CASE d \in Gray
      <4>1. PICK m \in 1 .. n : visiting[m].id = d
        BY <1>10, <3>2
      <4> DEFINE ids == {visiting[i].id : i \in m .. n}
      <4>2. ASSUME NEW i \in m .. n PROVE Deps(visiting[i].id) \intersect ids # {}
        <5>1. i \in 1 .. n
          BY <1>5, <4>1
        <5>2. CASE i = n
          <6>1. d \in ids
            <7>1. m \in m .. n
              BY <1>5, <4>1
            <7> QED
              BY <4>1, <7>1
          <6> QED
            BY <1>7, <5>2, <6>1 DEF top
        <5>3. CASE i # n
          <6>1. i < n /\ i + 1 \in m .. n
            BY <1>5, <4>1, <5>3
          <6>2. visiting[i + 1].id \in Deps(visiting[i].id)
            BY <1>1, <5>1, <6>1 DEF StackIsPath, n
          <6> QED
            BY <6>1, <6>2
        <5> QED
          BY <5>2, <5>3
      <4>3. \A id \in ids : Deps(id) \intersect ids # {}
        BY <4>2
      <4>4. d \in ids
        <5>1. m \in m .. n
          BY <1>5, <4>1
        <5> QED
          BY <4>1, <5>1
      <4> HIDE DEF ids
      <4>5. ids \subseteq TaskIds(drafted)
        <5>1. drafted \in Seq(PlanTask)
          BY <1>1 DEF SearchTypeOK
        <5>2. \A id \in ids : Deps(id) # {}
          BY <4>3
        <5> QED
          BY <5>1, <5>2, DependenciesAreMentioned
      <4>6. HasCycle(drafted)
        BY <4>3, <4>4, <4>5 DEF HasCycle, Deps
      <4> QED
        BY <1>3, <1>4, <3>2, <4>6, DraftStays DEF AnswerIsTrue
    <3> QED
      BY <3>1, <3>2
  <2> QED
    BY <1>11, <1>12, <2>2, <2>3, <2>4, <2>5, <2>6 DEF SearchInv
<1>14. CASE d \notin Gray \union Black
  <2>0. visiting' = Append(rest, Visit(d)) /\ cycle' = "searching"
    BY <1>2, <1>3, <1>8, <1>14
  <2>1. Visit(d) \in Visits /\ Visit(d).id = d /\ Visit(d).left = Deps(d)
    BY <1>7 DEF Visit, Visits, Deps
  <2>2. /\ visiting' \in Seq(Visits) /\ Len(visiting') = n + 1 /\ visiting' # <<>>
        /\ \A i \in 1 .. n : visiting'[i] = rest[i]
        /\ visiting'[n + 1].id = d /\ visiting'[n + 1].left = Deps(d)
    BY <1>5, <1>6, <2>0, <2>1
  <2>3. Gray' = Gray \union {d}
    <3>1. Gray' = {visiting'[i].id : i \in 1 .. n + 1}
      BY <2>2 DEF Gray
    <3>2. \A i \in 1 .. n + 1 : i = n + 1 \/ i \in 1 .. n
      BY <1>5
    <3>3. n + 1 \in 1 .. n + 1 /\ 1 .. n \subseteq 1 .. n + 1
      BY <1>5
    <3> QED
      BY <1>6, <1>10, <2>2, <3>1, <3>2, <3>3
  <2>4. SearchTypeOK'
    BY <1>1, <1>4, <2>0, <2>2 DEF SearchTypeOK
  <2>5. EachOnce'
    <3>1. \A i \in 1 .. n : visiting[i].id # d
      BY <1>10, <1>14
    <3>2. \A i, j \in 1 .. n + 1 : visiting'[i].id = visiting'[j].id => i = j
      <4> TAKE i, j \in 1 .. n + 1
      <4>1. (i = n + 1 \/ i \in 1 .. n) /\ (j = n + 1 \/ j \in 1 .. n)
        BY <1>5
      <4>2. CASE i \in 1 .. n /\ j \in 1 .. n
        <5>1. visiting[i].id = visiting[j].id => i = j
          BY <1>1, <4>2 DEF EachOnce, n
        <5> QED
          BY <1>6, <2>2, <4>2, <5>1
      <4>3. CASE i = n + 1 /\ j \in 1 .. n
        BY <1>6, <2>2, <3>1, <4>3
      <4>4. CASE i \in 1 .. n /\ j = n + 1
        BY <1>6, <2>2, <3>1, <4>4
      <4> QED
        BY <4>1, <4>2, <4>3, <4>4
    <3> QED
      BY <1>1, <1>4, <1>7, <1>9, <1>14, <2>2, <2>3, <3>2, DraftStays DEF EachOnce
  <2>6. StackIsPath'
    <3> SUFFICES ASSUME NEW i \in 1 .. n + 1
                 PROVE  /\ i < n + 1 => visiting'[i + 1].id \in Deps(visiting'[i].id)
                        /\ visiting'[i].left \subseteq Deps(visiting'[i].id)
                        /\ \A e \in Deps(visiting'[i].id) \ visiting'[i].left :
                             e \in Black \/ (i < n + 1 /\ e = visiting'[i + 1].id)
      BY <1>4, <1>9, <2>2, DraftStays DEF StackIsPath
    <3>1. CASE i = n + 1
      BY <1>5, <2>2, <3>1
    <3>2. CASE i = n
      <4>1. /\ visiting'[n].id = top /\ visiting'[n].left = visiting[n].left \ {d}
            /\ visiting'[n + 1].id = d /\ n < n + 1
        BY <1>5, <1>6, <2>2 DEF top
      <4>2. /\ visiting[n].left \subseteq Deps(top)
            /\ \A e \in Deps(top) \ visiting[n].left : e \in Black
        BY <1>1, <1>2, <1>5 DEF StackIsPath, n, top
      <4> QED
        BY <1>7, <3>2, <4>1, <4>2
    <3>3. CASE i # n /\ i # n + 1
      <4>1. i \in 1 .. n /\ i + 1 \in 1 .. n /\ i < n /\ i < n + 1
        BY <1>5, <3>3
      <4>2. /\ visiting[i + 1].id \in Deps(visiting[i].id)
            /\ visiting[i].left \subseteq Deps(visiting[i].id)
            /\ \A e \in Deps(visiting[i].id) \ visiting[i].left :
                 e \in Black \/ e = visiting[i + 1].id
        BY <1>1, <1>2, <4>1 DEF StackIsPath, n
      <4>3. /\ visiting'[i].id = visiting[i].id /\ visiting'[i].left = visiting[i].left
            /\ visiting'[i + 1].id = visiting[i + 1].id
        BY <1>6, <2>2, <3>3, <4>1
      <4> QED
        BY <4>1, <4>2, <4>3
    <3> QED
      BY <3>1, <3>2, <3>3
  <2>7. PassedTasks'
    <3>1. visiting'[1].id = visiting[1].id
      <4>1. 1 \in 1 .. n
        BY <1>5
      <4> QED
        BY <1>6, <2>2, <4>1
    <3> QED
      BY <1>1, <1>4, <1>9, <2>2, <3>1 DEF PassedTasks
  <2>8. AnswerIsTrue'
    BY <2>0 DEF AnswerIsTrue
  <2> QED
    BY <1>11, <1>12, <2>4, <2>5, <2>6, <2>7, <2>8 DEF SearchInv
<1> QED
  BY <1>13, <1>14

(* Every step of the search keeps the invariant. *)
LEMMA SearchNextInv == SearchInv /\ [SearchNext]_searchVars => SearchInv'
<1> SUFFICES ASSUME SearchInv, [SearchNext]_searchVars PROVE SearchInv'
  OBVIOUS
<1>1. CASE UNCHANGED searchVars
  <2>1. /\ drafted' = drafted /\ nextTask' = nextTask /\ visiting' = visiting
        /\ visited' = visited /\ cycle' = cycle
    BY <1>1 DEF searchVars
  <2>2. Gray' = Gray /\ Black' = Black
    BY <2>1 DEF Gray, Black
  <2>3. SearchTypeOK' /\ AnswerIsTrue' /\ PassedTasks'
    BY <2>1, <2>2, DraftStays DEF SearchInv, SearchTypeOK, AnswerIsTrue, PassedTasks
  <2>4. EachOnce' /\ StackIsPath'
    BY <2>1, <2>2, DraftStays DEF SearchInv, EachOnce, StackIsPath
  <2>5. DependenciesFirst' /\ NoBlackOnCycle'
    BY <2>1, <2>2, DraftStays DEF SearchInv, DependenciesFirst, NoBlackOnCycle
  <2> QED
    BY <2>3, <2>4, <2>5 DEF SearchInv
<1> QED
  BY <1>1, VisitTaskInv, VisitDependencyInv, LeaveVisitInv, EndSearchInv DEF SearchNext

(* When the search ends without a cycle, every task is black. *)
LEMMA AllVisited ==
    ASSUME SearchInv, cycle = "none"
    PROVE  TaskIds(drafted) \subseteq Black /\ ~HasCycle(drafted)
<1>1. visiting = <<>> /\ nextTask = Len(drafted) + 1
  BY DEF SearchInv, AnswerIsTrue
<1>2. drafted \in Seq(PlanTask) /\ Len(drafted) \in Nat /\ DOMAIN drafted = 1 .. Len(drafted)
  BY DEF SearchInv, SearchTypeOK
<1>3. TaskIds(drafted) \subseteq Black
  <2>1. \A i \in 1 .. Len(drafted) : drafted[i].id \in Black
    BY <1>1, <1>2 DEF SearchInv, PassedTasks
  <2> QED
    BY <1>2, <2>1 DEF TaskIds
<1>4. ASSUME NEW ids \in SUBSET TaskIds(drafted), Circular(ids) PROVE FALSE
  BY <1>3, <1>4 DEF SearchInv, NoBlackOnCycle, Circular
<1>5. ~HasCycle(drafted)
  BY <1>4 DEF HasCycle, Circular, Deps
<1> QED
  BY <1>3, <1>5

(* The order in which the ids became black is one in which the tasks can be *)
(* done, when ids tell tasks apart and dependencies are tasks.              *)
LEMMA BlackOrderWorks ==
    ASSUME SearchInv, cycle = "none",
           \A i, j \in DOMAIN drafted : drafted[i].id = drafted[j].id => i = j,
           \A i \in DOMAIN drafted : drafted[i].dependsOn \subseteq TaskIds(drafted)
    PROVE  CanBeOrdered(drafted)
<1> DEFINE n == Len(drafted)
           T == TaskIds(drafted)
           IndexOf(id) == CHOOSE i \in 1 .. n : drafted[i].id = id
           order == [k \in 1 .. n |-> IndexOf(visited[k])]
<1>1. /\ drafted \in Seq(PlanTask) /\ n \in Nat /\ DOMAIN drafted = 1 .. n
      /\ visited \in Seq(STRING) /\ Len(visited) \in Nat /\ DOMAIN visited = 1 .. Len(visited)
  BY DEF SearchInv, SearchTypeOK
<1>2. Black = T
  <2>1. Mentioned = T
    BY DEF Mentioned
  <2> QED
    BY <2>1, AllVisited DEF SearchInv, EachOnce
<1>3. \A id \in T : IndexOf(id) \in 1 .. n /\ drafted[IndexOf(id)].id = id
  BY <1>1 DEF TaskIds
<1>4. \A i \in 1 .. n : drafted[i].id \in T
  BY <1>1 DEF TaskIds
<1> HIDE DEF IndexOf, T
<1>5. Len(visited) = n
  <2> DEFINE place == [k \in 1 .. Len(visited) |-> IndexOf(visited[k])]
  <2>1. \A k \in 1 .. Len(visited) : visited[k] \in T
    BY <1>1, <1>2 DEF Black
  <2>2. place \in [1 .. Len(visited) -> 1 .. n]
    BY <1>3, <2>1
  <2>3. \A i, j \in 1 .. Len(visited) : place[i] = place[j] => i = j
    <3>1. \A i \in 1 .. Len(visited) : drafted[place[i]].id = visited[i]
      BY <1>3, <2>1
    <3> QED
      BY <3>1 DEF SearchInv, EachOnce
  <2>4. \A i \in 1 .. n : \E k \in 1 .. Len(visited) : place[k] = i
    <3> TAKE i \in 1 .. n
    <3>1. PICK k \in 1 .. Len(visited) : visited[k] = drafted[i].id
      BY <1>1, <1>2, <1>4 DEF Black
    <3>2. drafted[IndexOf(visited[k])].id = drafted[i].id /\ IndexOf(visited[k]) \in 1 .. n
      BY <1>3, <1>4, <3>1
    <3> QED
      BY <1>1, <3>1, <3>2
  <2> HIDE DEF place
  <2>5. place \in Bijection(1 .. Len(visited), 1 .. n)
    BY <2>2, <2>3, <2>4 DEF Bijection, Injection, Surjection, IsInjective
  <2>6. /\ IsFiniteSet(1 .. Len(visited)) /\ Cardinality(1 .. Len(visited)) = Len(visited)
        /\ Cardinality(1 .. n) = n
    <3>1. \A m \in Nat : IsFiniteSet(1 .. m) /\ Cardinality(1 .. m) = m
      BY FS_Interval
    <3> HIDE DEF n
    <3> QED
      BY <1>1, <3>1
  <2>7. Cardinality(1 .. n) = Cardinality(1 .. Len(visited))
    <3>1. ExistsBijection(1 .. Len(visited), 1 .. n)
      BY <2>5 DEF ExistsBijection
    <3> QED
      BY <2>6, <3>1, FS_Bijection
  <2> QED
    BY <2>6, <2>7
<1>6. \A k \in 1 .. n : visited[k] \in T /\ order[k] \in 1 .. n /\ drafted[order[k]].id = visited[k]
  <2>1. \A k \in 1 .. n : visited[k] \in T
    BY <1>1, <1>2, <1>5 DEF Black
  <2> QED
    BY <1>3, <2>1
<1>7. order \in Bijection(1 .. n, 1 .. n)
  <2>1. order \in [1 .. n -> 1 .. n]
    BY <1>6
  <2>2. \A i, j \in 1 .. n : order[i] = order[j] => i = j
    BY <1>5, <1>6 DEF SearchInv, EachOnce
  <2>3. \A i \in 1 .. n : \E k \in 1 .. n : order[k] = i
    <3> TAKE i \in 1 .. n
    <3>1. PICK k \in 1 .. n : visited[k] = drafted[i].id
      BY <1>1, <1>2, <1>4, <1>5 DEF Black
    <3>2. drafted[order[k]].id = drafted[i].id /\ order[k] \in 1 .. n
      BY <1>6, <3>1
    <3> QED
      BY <1>1, <3>2
  <2> HIDE DEF order
  <2> QED
    BY <2>1, <2>2, <2>3 DEF Bijection, Injection, Surjection, IsInjective
<1> HIDE DEF order
<1>8. ASSUME NEW i \in 1 .. n, NEW d \in drafted[order[i]].dependsOn
      PROVE  \E j \in 1 .. i - 1 : drafted[order[j]].id = d
  <2>1. order[i] \in DOMAIN drafted /\ drafted[order[i]].id = visited[i]
    BY <1>1, <1>6
  <2>2. Deps(visited[i]) = drafted[order[i]].dependsOn
    BY <1>1, <2>1, OwnDependencies
  <2>3. PICK j \in 1 .. i - 1 : visited[j] = d
    BY <1>5, <2>2 DEF SearchInv, DependenciesFirst
  <2>4. j \in 1 .. n
    BY <1>1
  <2> QED
    BY <1>6, <2>3, <2>4
<1> QED
  BY <1>1, <1>7, <1>8 DEF CanBeOrdered

(* Once it has ended, the search has found a cycle if there is one, and a   *)
(* draft without findings can be carried out.                               *)
LEMMA EndedSearchIsRight ==
    ASSUME SearchInv, NEW criteria, NEW paths, NEW packages
    PROVE  JudgedRight(criteria, Risk(paths, packages))
<1> DEFINE risk == Risk(paths, packages)
<1>1. cycle \in {"searching", "found", "none"} /\ drafted \in Seq(PlanTask)
  BY DEF SearchInv, SearchTypeOK
<1>2. cycle = "found" => HasCycle(drafted)
  BY DEF SearchInv, AnswerIsTrue
<1>3. cycle = "none" => ~HasCycle(drafted)
  BY AllVisited
<1>4. ASSUME cycle # "searching",
             Findings(drafted, criteria, risk, cycle = "found", TRUE, TRUE) = {}
      PROVE  CanBeCarriedOut(drafted, criteria, risk)
  <2>1. cycle # "found"
    BY <1>4 DEF Findings
  <2>2. cycle = "none"
    BY <1>1, <1>4, <2>1
  <2>3. /\ MeetsCriteria(drafted, criteria)
        /\ \A i, j \in DOMAIN drafted : drafted[i].id = drafted[j].id => i = j
        /\ \A i \in DOMAIN drafted : drafted[i].dependsOn \subseteq TaskIds(drafted)
        /\ GuardsWhatIsProtected(drafted, risk)
    BY <1>1, <1>4, AcceptedPlansAreGuarded
  <2>4. CanBeOrdered(drafted)
    BY <2>2, <2>3, BlackOrderWorks
  <2> QED
    BY <2>3, <2>4 DEF CanBeCarriedOut
<1> QED
  BY <1>1, <1>2, <1>3, <1>4 DEF JudgedRight

(* The types of the search, in every state of it. *)
LEMMA SearchTypes == SearchSpec => []SearchTypeOK
<1>1. SearchInv => SearchTypeOK
  BY DEF SearchInv
<1> QED
  BY <1>1, SearchInitInv, SearchNextInv, PTL DEF SearchSpec

(* implementation-plan.ts:344: of any draft, of any size and with any       *)
(* dependencies, the search finds a cycle exactly when there is one, and    *)
(* when it ends without and the other rules are kept, the tasks can be done *)
(* in some order, whatever the criteria and the risk.                       *)
THEOREM SearchIsRight ==
    SearchSpec => [](\A criteria, paths, packages : JudgedRight(criteria, Risk(paths, packages)))
<1>1. SearchInv => \A criteria, paths, packages : JudgedRight(criteria, Risk(paths, packages))
  BY EndedSearchIsRight
<1> QED
  BY <1>1, SearchInitInv, SearchNextInv, PTL DEF SearchSpec

=============================================================================
