---------------------------- MODULE IssueSurface ----------------------------
(***************************************************************************)
(* One GitHub issue as CGAO shows it: IssueTriageService decides category  *)
(* and status, LabelProjectionService projects them onto the cgao: labels, *)
(* StatusCommentService keeps the status comment.  Events are handled      *)
(* concurrently, each from the snapshot it came with; people edit the      *)
(* issue, its labels and its comments meanwhile.                           *)
(***************************************************************************)
EXTENDS Naturals, Sequences, FiniteSets, SequencesExt

CONSTANTS
    Handlers,    \* events that can be in hand at the same time
    Contents,    \* what a person may write: [says, has]
    Hints,       \* what intake may advise: [category, confident, severity]
    Progress,    \* statuses the workflow moves an issue to after triage
    UserLabels,  \* labels outside cgao:
    None,
    Bounds       \* what a behaviour is bounded by: the handlers that get
                 \* events, the coordinator's ticks, and how many events, edits and faults

Categories == {"bug", "feature", "docs", "question", "security", "chore", "unknown"}
Statuses == {"new", "needs_info", "ready", "in_progress", "ignored"}
Fields == {"steps_to_reproduce", "expected_behavior", "actual_behavior", "user_story",
           "acceptance_criteria", "affected_component", "location", "scope", "description"}

ASSUME SurfaceAssumption ==
    /\ \A c \in Contents : c.says \in Categories /\ c.has \subseteq Fields
    /\ \A h \in Hints : h.category \in Categories /\ h.confident \in BOOLEAN
                        /\ h.severity \in BOOLEAN
    /\ Progress \subseteq Statuses
    /\ None \notin Nat
    /\ IsFiniteSet(Handlers)
    /\ \A b \in Bounds : /\ b.handlers \subseteq Handlers
                       /\ b.events \in Nat /\ b.edits \in Nat /\ b.faults \in Nat

Kind(c) == <<"kind", c>>
Status(s) == <<"status", s>>
Owned == {Kind(c) : c \in Categories} \union {Status(s) : s \in Statuses}
User == {<<"user", u>> : u \in UserLabels}

VARIABLES
    content,   \* title and body, as the keyword and field rules see them
    closed,
    labels,    \* GitHub's labels of the issue
    state,     \* CGAO's own category and status
    rows,      \* the status comments known to the repository, in order
    call,      \* per handler: the event in hand
    events, edits, faults,
    bound      \* the one of Bounds this behaviour is about

surfaceVars == <<content, closed, labels, state, rows, call, events, edits, faults, bound>>

-----------------------------------------------------------------------------
(* The rules *)

(* A confident hint wins over the keywords of title and body. *)
Classify(c, hint) ==
    IF hint.category # "unknown" /\ hint.confident THEN hint.category ELSE c.says

Required(category) ==
    CASE category = "bug"      -> {"steps_to_reproduce", "expected_behavior", "actual_behavior"}
      [] category = "feature"  -> {"user_story", "acceptance_criteria"}
      [] category = "security" -> {"affected_component"}
      [] category = "docs"     -> {"location"}
      [] category = "chore"    -> {"scope"}
      [] category = "question" -> {}
      [] category = "unknown"  -> {"description"}

(* A security issue always waits for a person to acknowledge it. *)
MissingFields(category, c, hint) ==
    (Required(category) \ c.has)
    \union (IF category = "security"
            THEN {"human_ack_required"} \union (IF hint.severity THEN {} ELSE {"severity"})
            ELSE {})

DiffLabels_Mutant(existing, want) ==
    [add |-> want \ existing, remove |-> existing \ want]

(* Labels that are not of cgao:kind/ or cgao:status/ are left alone. *)
DiffLabels(existing, want) ==
    [add |-> want \ existing, remove |-> (existing \intersect Owned) \ want]

Wanted(s) == {Kind(s.category), Status(s.status)}

Triage_Mutant(seen, hint) ==
    [state |-> [category |-> Classify(seen.content, hint), status |-> "needs-info"],
     add |-> {}, remove |-> {}]

(* A closed issue is ignored: its old status labels go, its kind stays. *)
Triage(seen, hint) ==
    IF seen.closed
    THEN [state  |-> [category |-> "unknown", status |-> "ignored"],
          add    |-> {Status("ignored")},
          remove |-> {l \in seen.labels : l[1] = "status"} \ {Status("ignored")}]
    ELSE LET category == Classify(seen.content, hint)
             missing == MissingFields(category, seen.content, hint)
             next == [category |-> category,
                      status   |-> IF missing = {} THEN "ready" ELSE "needs_info"]
             diff == DiffLabels(seen.labels, Wanted(next))
         IN  [state |-> next, add |-> diff.add, remove |-> diff.remove]

-----------------------------------------------------------------------------

Idle == [pc |-> "idle"]

Init ==
    /\ content \in Contents
    /\ closed = FALSE
    /\ labels = User
    /\ state = [category |-> "unknown", status |-> "new"]
    /\ rows = <<>>
    /\ call = [h \in Handlers |-> Idle]
    /\ events = 0 /\ edits = 0 /\ faults = 0
    /\ bound \in Bounds

(* An event arrives with a snapshot of the issue: to be triaged, or because *)
(* the workflow moves the issue on.                                         *)
Deliver(h) ==
    /\ h \in bound.handlers
    /\ call[h] = Idle
    /\ events < bound.events
    /\ events' = events + 1
    /\ \E why \in {"triage"} \union Progress :
          call' = [call EXCEPT ![h] =
                     [pc |-> "event", why |-> why,
                      seen |-> [content |-> content, closed |-> closed, labels |-> labels]]]
    /\ UNCHANGED <<content, closed, labels, state, rows, edits, faults>>

Plan(h, next, add, remove) ==
    /\ state' = next
    /\ call' = [call EXCEPT ![h] =
                  [pc |-> "labels", status |-> next.status, add |-> add, remove |-> remove]]
    /\ UNCHANGED <<content, closed, labels, rows, events, edits, faults>>

TriageIssue(h) ==
    /\ call[h].pc = "event" /\ call[h].why = "triage"
    /\ \E hint \in Hints :
          LET d == Triage(call[h].seen, hint) IN Plan(h, d.state, d.add, d.remove)

ApplyProjection(h) ==
    /\ call[h].pc = "event" /\ call[h].why # "triage"
    /\ LET next == [state EXCEPT !.status = call[h].why]
           diff == DiffLabels(call[h].seen.labels, Wanted(next))
       IN  Plan(h, next, diff.add, diff.remove)

(* The labels to add are sent first, then those to remove. *)
AddLabels(h) ==
    /\ call[h].pc = "labels" /\ call[h].add # {}
    /\ labels' = labels \union call[h].add
    /\ call' = [call EXCEPT ![h].add = {}]
    /\ UNCHANGED <<content, closed, state, rows, events, edits, faults>>

RemoveLabels(h) ==
    /\ call[h].pc = "labels" /\ call[h].add = {} /\ call[h].remove # {}
    /\ labels' = labels \ call[h].remove
    /\ call' = [call EXCEPT ![h].remove = {}]
    /\ UNCHANGED <<content, closed, state, rows, events, edits, faults>>

FindActive_Mutant(all) ==
    IF all = <<>> THEN None ELSE 1

(* The first comment of the bot, whatever run it was made for. *)
FindActive(all) ==
    IF \E i \in DOMAIN all : all[i].author = "bot"
    THEN CHOOSE i \in DOMAIN all :
            /\ all[i].author = "bot"
            /\ \A j \in 1 .. (i - 1) : all[j].author # "bot"
    ELSE None

FindComment(h) ==
    /\ call[h].pc = "labels" /\ call[h].add = {} /\ call[h].remove = {}
    /\ call' = [call EXCEPT ![h] =
                  [pc |-> "found", status |-> call[h].status, row |-> FindActive(rows)]]
    /\ UNCHANGED <<content, closed, labels, state, rows, events, edits, faults>>

(* A comment that was found is edited if the bot wrote it; otherwise a new  *)
(* one is posted.                                                           *)
WriteComment(h) ==
    /\ call[h].pc = "found"
    /\ LET row == call[h].row IN
       IF row # None /\ rows[row].author = "bot"
       THEN rows' = [rows EXCEPT ![row].shows = call[h].status]
       ELSE rows' = Append(rows, [author |-> "bot", shows |-> call[h].status])
    /\ call' = [call EXCEPT ![h] = Idle]
    /\ UNCHANGED <<content, closed, labels, state, events, edits, faults>>

(* Any awaited call may throw. *)
HandlerThrows(h) ==
    /\ call[h].pc \in {"labels", "found"}
    /\ faults < bound.faults
    /\ faults' = faults + 1
    /\ call' = [call EXCEPT ![h] = Idle]
    /\ UNCHANGED <<content, closed, labels, state, rows, events, edits>>

-----------------------------------------------------------------------------
(* People *)

Edit ==
    /\ edits < bound.edits
    /\ edits' = edits + 1
    /\ UNCHANGED <<state, call, events, faults>>

Rewrite ==
    /\ Edit
    /\ content' \in Contents \ {content}
    /\ UNCHANGED <<closed, labels, rows>>

OpenOrClose ==
    /\ Edit
    /\ closed' = ~closed
    /\ UNCHANGED <<content, labels, rows>>

(* Any label can be put on or taken off, the bot's own included. *)
Relabel ==
    /\ Edit
    /\ \/ \E l \in labels : labels' = labels \ {l}
       \/ \E l \in {Status("ready")} \union User : labels' = labels \union {l}
    /\ UNCHANGED <<content, closed, rows>>

(* Somebody else posts a comment that looks like the status comment. *)
Imitate ==
    /\ Edit
    /\ rows' = Append(rows, [author |-> "someone", shows |-> "new"])
    /\ UNCHANGED <<content, closed, labels>>

People == Rewrite \/ OpenOrClose \/ Relabel \/ Imitate

HandlerStep(h) ==
    \/ TriageIssue(h) \/ ApplyProjection(h) \/ AddLabels(h) \/ RemoveLabels(h)
    \/ FindComment(h) \/ WriteComment(h)

SurfaceNext ==
    \/ \E h \in Handlers : Deliver(h) \/ HandlerStep(h) \/ HandlerThrows(h)
    \/ People

=============================================================================
