--------------------------- MODULE ReconcileProofs ---------------------------
(***************************************************************************)
(* What TLAPS proves of the issue surface and its reconciler, for any      *)
(* labels, hints, handlers and overlapping ticks.                          *)
(*                                                                         *)
(* A handler's diff and a tick's list stay within CGAO's own labels from   *)
(* the moment they are computed, which is why late ones do no harm; a      *)
(* handler that found no comment of the bot's holds one of the comments    *)
(* the bot may still post; and every repair is either recorded, in a       *)
(* tick's hand or charged to a fault.                                      *)
(***************************************************************************)
EXTENDS Reconcile, FiniteSetTheorems, SequenceTheorems, WellFoundedInduction, TLAPS

Row == [author : {"bot", "someone"}, shows : Statuses]
IssueState == [category : Categories, status : Statuses]

EventCalls ==
    [pc : {"event"}, why : {"triage"} \union Progress,
     seen : [content : Contents, closed : BOOLEAN, labels : SUBSET (Owned \union User)]]
LabelCalls == [pc : {"labels"}, status : Statuses, add : SUBSET Owned, remove : SUBSET Owned]
FoundCalls == [pc : {"found"}, status : Statuses, row : Nat \union {None}]
Calls == {Idle} \union EventCalls \union LabelCalls \union FoundCalls

RunningTicks ==
    [pc : {"comment", "post", "repair", "record"}, add : SUBSET Owned, remove : SUBSET Owned]

IssueShapes ==
    /\ content \in Contents /\ closed \in BOOLEAN
    /\ labels \subseteq Owned \union User
    /\ state \in IssueState
    /\ bound \in Bounds
    /\ events \in 0 .. bound.events /\ edits \in 0 .. bound.edits /\ faults \in 0 .. bound.faults

Pending == {h \in Handlers : call[h].pc = "found" /\ call[h].row = None}
BotRows == {i \in DOMAIN rows : rows[i].author = "bot"}

(* Whoever found no comment of the bot's may post one. *)
CommentInv ==
    /\ rows \in Seq(Row)
    /\ call \in [Handlers -> Calls]
    /\ \A h \in Handlers : call[h] # Idle => h \in bound.handlers
    /\ \A h \in Handlers :
         call[h].pc = "found" /\ call[h].row # None => call[h].row \in BotRows
    /\ Cardinality(BotRows) + Cardinality(Pending) <= Cardinality(bound.handlers)

Recording == {t \in Ticks : tick[t].pc = "record"}

TickInv ==
    /\ tick \in [Ticks -> {Idle} \union RunningTicks]
    /\ notices \in Nat /\ unrecorded \in Nat
    /\ Cardinality(Recording) <= unrecorded
    /\ unrecorded <= faults + Cardinality(Recording)

Inv == IssueShapes /\ CommentInv /\ TickInv

-----------------------------------------------------------------------------

(* A non-empty set of numbers has a least one. *)
LEMMA LeastOfNats ==
    ASSUME NEW S \in SUBSET Nat, S # {}
    PROVE  \E i \in S : \A j \in S : i <= j
<1> DEFINE R == {ss \in Nat \X Nat : ss[1] < ss[2]}
<1>1. IsWellFoundedOn(R, Nat)
  BY NatLessThanWellFounded DEF OpToRel
<1>2. PICK i \in S : \A j \in S : <<j, i>> \notin R
  <2> HIDE DEF R
  <2> QED
    BY <1>1, WFMin
<1>3. ASSUME NEW j \in S PROVE i <= j
  <2>1. i \in Nat /\ j \in Nat
    OBVIOUS
  <2>2. j < i => <<j, i>> \in R
    BY <2>1
  <2> QED
    BY <1>2, <2>1, <2>2
<1> QED
  BY <1>3

-----------------------------------------------------------------------------
(* Labels *)

(* Nobody's own label is one of CGAO's. *)
LEMMA OwnedAndUserApart ==
    /\ Owned \intersect User = {}
    /\ \A l \in Owned \union User : l[1] = "status" => l \in Owned
BY DEF Owned, User, Kind, Status

LEMMA WantedIsOwned ==
    ASSUME NEW s \in IssueState PROVE Wanted(s) \subseteq Owned
BY DEF Wanted, Owned, IssueState

LEMMA DiffIsOwned ==
    ASSUME NEW existing, NEW want \in SUBSET Owned
    PROVE  /\ DiffLabels(existing, want).add \subseteq Owned
           /\ DiffLabels(existing, want).remove \subseteq Owned
BY DEF DiffLabels

LEMMA TriageFacts ==
    ASSUME NEW seen \in [content : Contents, closed : BOOLEAN, labels : SUBSET (Owned \union User)],
           NEW hint \in Hints
    PROVE  /\ Triage(seen, hint).state \in IssueState
           /\ Triage(seen, hint).add \subseteq Owned
           /\ Triage(seen, hint).remove \subseteq Owned
<1>1. CASE seen.closed
  <2>1. Status("ignored") \in Owned
    BY DEF Owned, Statuses
  <2>2. {l \in seen.labels : l[1] = "status"} \subseteq Owned
    BY OwnedAndUserApart
  <2> QED
    BY <1>1, <2>1, <2>2 DEF Triage, IssueState, Categories, Statuses
<1>2. CASE ~seen.closed
  <2> DEFINE category == Classify(seen.content, hint)
             next == [category |-> category,
                      status |-> IF MissingFields(category, seen.content, hint) = {}
                                 THEN "ready" ELSE "needs_info"]
             diff == DiffLabels(seen.labels, Wanted(next))
  <2>1. category \in Categories
    BY SurfaceAssumption DEF Classify
  <2> HIDE DEF category
  <2>2. next \in IssueState
    BY <2>1 DEF IssueState, Statuses
  <2>3. /\ Triage(seen, hint).state = next
        /\ Triage(seen, hint).add = diff.add
        /\ Triage(seen, hint).remove = diff.remove
    BY <1>2 DEF Triage, category
  <2> HIDE DEF next
  <2>4. diff.add \subseteq Owned /\ diff.remove \subseteq Owned
    BY <2>2, WantedIsOwned, DiffIsOwned
  <2> QED
    BY <2>2, <2>3, <2>4
<1> QED
  BY <1>1, <1>2

-----------------------------------------------------------------------------
(* Comments *)

LEMMA HandlersFinite == \A b \in Bounds : IsFiniteSet(b.handlers)
BY SurfaceAssumption, FS_Subset

LEMMA PendingFinite == IsFiniteSet(Pending)
BY SurfaceAssumption, FS_Subset DEF Pending

LEMMA BotRowsFinite == rows \in Seq(Row) => IsFiniteSet(BotRows)
<1> SUFFICES ASSUME rows \in Seq(Row) PROVE IsFiniteSet(BotRows)
  OBVIOUS
<1>1. DOMAIN rows = 1 .. Len(rows) /\ Len(rows) \in Nat
  OBVIOUS
<1>2. IsFiniteSet(1 .. Len(rows))
  BY <1>1, FS_Interval
<1> QED
  BY <1>1, <1>2, FS_Subset DEF BotRows

(* A handler takes up or goes on with an event, or gives it up. *)
LEMMA CallStepKeeps ==
    ASSUME CommentInv, IssueShapes, NEW h \in Handlers, NEW c \in Calls, c.pc # "found",
           c # Idle => h \in bound.handlers, call' = [call EXCEPT ![h] = c],
           UNCHANGED <<rows, bound>>
    PROVE  CommentInv'
<1>1. /\ call' \in [Handlers -> Calls] /\ call'[h] = c
      /\ \A g \in Handlers \ {h} : call'[g] = call[g]
  BY DEF CommentInv
<1>2. Pending' \subseteq Pending
  BY <1>1 DEF Pending
<1>3. Cardinality(Pending') <= Cardinality(Pending) /\ Cardinality(Pending) \in Nat
      /\ Cardinality(Pending') \in Nat
  BY <1>2, PendingFinite, FS_Subset, FS_CardinalityType
<1>4. BotRows' = BotRows
  BY DEF BotRows
<1>5. Cardinality(BotRows) \in Nat /\ Cardinality(bound.handlers) \in Nat
  BY BotRowsFinite, HandlersFinite, FS_CardinalityType DEF CommentInv, IssueShapes
<1>6. Cardinality(BotRows') + Cardinality(Pending') <= Cardinality(bound'.handlers)
  BY <1>3, <1>4, <1>5 DEF CommentInv
<1>7. \A g \in Handlers : call'[g] # Idle => g \in bound'.handlers
  BY <1>1 DEF CommentInv
<1>8. \A g \in Handlers : call'[g].pc = "found" /\ call'[g].row # None => call'[g].row \in BotRows'
  BY <1>1, <1>4 DEF CommentInv
<1> QED
  BY <1>1, <1>6, <1>7, <1>8 DEF CommentInv

LEMMA FindCommentKeeps ==
    ASSUME CommentInv, IssueShapes, NEW h \in Handlers, FindComment(h), UNCHANGED bound
    PROVE  CommentInv'
<1> DEFINE c == [pc |-> "found", status |-> call[h].status, row |-> FindActive(rows)]
<1>1. call[h].pc = "labels" /\ call' = [call EXCEPT ![h] = c] /\ UNCHANGED rows
  BY DEF FindComment
<1>2. call[h] \in LabelCalls /\ h \in bound.handlers
  BY <1>1 DEF CommentInv, Calls, EventCalls, FoundCalls, Idle
<1>3. \/ FindActive(rows) = None /\ BotRows = {}
      \/ FindActive(rows) \in BotRows
  <2>1. CASE BotRows = {}
    BY <2>1 DEF BotRows, FindActive
  <2>2. CASE BotRows # {}
    <3> DEFINE IsFirst(i) == /\ rows[i].author = "bot"
                             /\ \A j \in 1 .. (i - 1) : rows[j].author # "bot"
    <3>1. DOMAIN rows = 1 .. Len(rows) /\ Len(rows) \in Nat
      BY DEF CommentInv
    <3>2. PICK i \in BotRows : \A j \in BotRows : i <= j
      <4>1. BotRows \subseteq Nat
        BY <3>1 DEF BotRows
      <4> QED
        BY <2>2, <4>1, LeastOfNats
    <3>3. i \in DOMAIN rows /\ IsFirst(i)
      <4>1. \A j \in 1 .. (i - 1) : j \in DOMAIN rows /\ j < i
        BY <3>1, <3>2 DEF BotRows
      <4> QED
        BY <3>1, <3>2, <4>1 DEF BotRows
    <3> HIDE DEF IsFirst
    <3>4. (CHOOSE k \in DOMAIN rows : IsFirst(k)) \in DOMAIN rows
          /\ IsFirst(CHOOSE k \in DOMAIN rows : IsFirst(k))
      BY <3>3
    <3>5. FindActive(rows) = CHOOSE k \in DOMAIN rows : IsFirst(k)
      BY <2>2 DEF FindActive, BotRows, IsFirst
    <3> QED
      BY <3>4, <3>5 DEF IsFirst, BotRows
  <2> QED
    BY <2>1, <2>2
<1>4. DOMAIN rows \subseteq Nat
  BY DEF CommentInv
<1>5. c \in FoundCalls
  BY <1>2, <1>3, <1>4 DEF FoundCalls, LabelCalls, BotRows
<1>6. c.pc = "found" /\ c.row = FindActive(rows) /\ c # Idle
  BY DEF Idle
<1> HIDE DEF c
<1>7. /\ call' \in [Handlers -> Calls] /\ call'[h] = c
      /\ \A g \in Handlers \ {h} : call'[g] = call[g]
  BY <1>1, <1>5 DEF CommentInv, Calls
<1>8. BotRows' = BotRows
  BY <1>1 DEF BotRows
<1>9. Cardinality(BotRows) \in Nat /\ Cardinality(bound.handlers) \in Nat
  BY BotRowsFinite, HandlersFinite, FS_CardinalityType DEF CommentInv, IssueShapes
<1>10. \A g \in Handlers : call'[g] # Idle => g \in bound'.handlers
  BY <1>2, <1>7 DEF CommentInv
<1>11. Cardinality(BotRows') + Cardinality(Pending') <= Cardinality(bound'.handlers)
  <2>1. CASE BotRows = {}
    <3>1. Cardinality(BotRows) = 0
      BY <2>1, FS_EmptySet
    <3>2. Pending' \subseteq bound.handlers
      BY <1>10 DEF Pending, Idle
    <3>3. Cardinality(Pending') <= Cardinality(bound.handlers) /\ Cardinality(Pending') \in Nat
      BY <3>2, HandlersFinite, FS_Subset, FS_CardinalityType DEF IssueShapes
    <3> QED
      BY <1>8, <1>9, <3>1, <3>3
  <2>2. CASE BotRows # {}
    <3>1. c.row \in BotRows /\ c.row # None
      BY <1>3, <1>4, <1>6, <2>2, SurfaceAssumption DEF BotRows
    <3>2. Pending' \subseteq Pending
      BY <1>7, <3>1 DEF Pending
    <3>3. Cardinality(Pending') <= Cardinality(Pending) /\ Cardinality(Pending) \in Nat
          /\ Cardinality(Pending') \in Nat
      BY <3>2, PendingFinite, FS_Subset, FS_CardinalityType
    <3> QED
      BY <1>8, <1>9, <3>3 DEF CommentInv
  <2> QED
    BY <2>1, <2>2
<1>12. \A g \in Handlers : call'[g].pc = "found" /\ call'[g].row # None => call'[g].row \in BotRows'
  BY <1>3, <1>6, <1>7, <1>8 DEF CommentInv
<1> QED
  BY <1>1, <1>7, <1>10, <1>11, <1>12 DEF CommentInv

LEMMA AppendedRow ==
    ASSUME rows \in Seq(Row), NEW row \in Row, rows' = Append(rows, row)
    PROVE  /\ rows' \in Seq(Row)
           /\ BotRows' = IF row.author = "bot" THEN BotRows \union {Len(rows) + 1} ELSE BotRows
           /\ Len(rows) + 1 \notin BotRows
<1>1. /\ rows' \in Seq(Row) /\ Len(rows') = Len(rows) + 1 /\ Len(rows) \in Nat
      /\ DOMAIN rows = 1 .. Len(rows) /\ DOMAIN rows' = 1 .. (Len(rows) + 1)
      /\ rows'[Len(rows) + 1] = row
      /\ \A i \in 1 .. Len(rows) : rows'[i] = rows[i]
  OBVIOUS
<1>2. 1 .. (Len(rows) + 1) = (1 .. Len(rows)) \union {Len(rows) + 1}
      /\ Len(rows) + 1 \notin 1 .. Len(rows)
  BY <1>1
<1> QED
  BY <1>1, <1>2 DEF BotRows

LEMMA WriteCommentKeeps ==
    ASSUME CommentInv, IssueShapes, NEW h \in Handlers, WriteComment(h), UNCHANGED bound
    PROVE  CommentInv'
<1> DEFINE row == call[h].row
           written == [author |-> "bot", shows |-> call[h].status]
<1>1. call[h].pc = "found" /\ call' = [call EXCEPT ![h] = Idle]
  BY DEF WriteComment
<1>2. call[h] \in FoundCalls
  BY <1>1 DEF CommentInv, Calls, EventCalls, LabelCalls, Idle
<1>3. /\ call' \in [Handlers -> Calls] /\ call'[h] = Idle
      /\ \A g \in Handlers \ {h} : call'[g] = call[g]
  BY <1>1 DEF CommentInv, Calls
<1>4. \A g \in Handlers : call'[g] # Idle => g \in bound'.handlers
  BY <1>3 DEF CommentInv
<1>5. Cardinality(BotRows) \in Nat /\ Cardinality(bound.handlers) \in Nat
      /\ Cardinality(Pending) \in Nat
  BY BotRowsFinite, PendingFinite, HandlersFinite, FS_CardinalityType DEF CommentInv, IssueShapes
<1>6. CASE row # None
  <2>1. row \in BotRows
    BY <1>1, <1>6 DEF CommentInv
  <2>2. rows' = [rows EXCEPT ![row].shows = call[h].status]
    BY <1>6, <2>1 DEF WriteComment, BotRows
  <2>3. rows \in Seq(Row) /\ row \in 1 .. Len(rows) /\ DOMAIN rows = 1 .. Len(rows)
    BY <2>1 DEF CommentInv, BotRows
  <2> DEFINE shown == [rows[row] EXCEPT !.shows = call[h].status]
  <2>4. shown \in Row /\ shown.author = rows[row].author
    <3>1. rows[row] \in Row /\ call[h].status \in Statuses
      BY <1>2, <2>3 DEF FoundCalls
    <3> QED
      BY <3>1 DEF Row
  <2>5. rows' = [rows EXCEPT ![row] = shown]
    BY <2>2, <2>3
  <2> HIDE DEF shown, row
  <2>6. rows' \in Seq(Row) /\ DOMAIN rows' = DOMAIN rows
        /\ \A i \in DOMAIN rows : rows'[i].author = rows[i].author
    BY <2>3, <2>4, <2>5
  <2>7. BotRows' = BotRows
    BY <2>6 DEF BotRows
  <2>8. Pending' \subseteq Pending
    BY <1>3 DEF Pending, Idle
  <2>9. Cardinality(Pending') <= Cardinality(Pending) /\ Cardinality(Pending') \in Nat
    BY <2>8, PendingFinite, FS_Subset, FS_CardinalityType
  <2>10. Cardinality(BotRows') + Cardinality(Pending') <= Cardinality(bound'.handlers)
    BY <1>5, <2>7, <2>9 DEF CommentInv
  <2>11. \A g \in Handlers : call'[g].pc = "found" /\ call'[g].row # None => call'[g].row \in BotRows'
    BY <1>3, <2>7 DEF CommentInv, Idle
  <2> QED
    BY <1>3, <1>4, <2>6, <2>10, <2>11 DEF CommentInv
<1>7. CASE row = None
  <2>1. rows' = Append(rows, written)
    BY <1>7 DEF WriteComment
  <2>2. written \in Row /\ written.author = "bot"
    BY <1>2 DEF Row, FoundCalls
  <2> HIDE DEF written
  <2>3. rows' \in Seq(Row) /\ BotRows' = BotRows \union {Len(rows) + 1} /\ Len(rows) + 1 \notin BotRows
    BY <2>1, <2>2, AppendedRow DEF CommentInv
  <2>4. h \in Pending /\ Pending' = Pending \ {h}
    BY <1>1, <1>3, <1>7 DEF Pending, Idle
  <2>5. Cardinality(Pending') = Cardinality(Pending) - 1
    BY <2>4, PendingFinite, FS_RemoveElement
  <2>6. Cardinality(BotRows') = Cardinality(BotRows) + 1
    BY <2>3, BotRowsFinite, FS_AddElement DEF CommentInv
  <2>7. Cardinality(BotRows') + Cardinality(Pending') <= Cardinality(bound'.handlers)
    BY <1>5, <2>5, <2>6 DEF CommentInv
  <2>8. \A g \in Handlers : call'[g].pc = "found" /\ call'[g].row # None => call'[g].row \in BotRows'
    BY <1>3, <2>3 DEF CommentInv, Idle
  <2> QED
    BY <1>3, <1>4, <2>3, <2>7, <2>8 DEF CommentInv
<1> QED
  BY <1>6, <1>7

LEMMA ImitateKeeps ==
    ASSUME CommentInv, Imitate, UNCHANGED bound PROVE CommentInv'
<1> DEFINE row == [author |-> "someone", shows |-> "new"]
<1>1. rows' = Append(rows, row) /\ UNCHANGED call
  BY DEF Imitate, Edit
<1>2. row \in Row /\ row.author # "bot"
  BY DEF Row, Statuses
<1> HIDE DEF row
<1>3. rows' \in Seq(Row) /\ BotRows' = BotRows
  BY <1>1, <1>2, AppendedRow DEF CommentInv
<1>4. Pending' = Pending
  BY <1>1 DEF Pending
<1> QED
  BY <1>1, <1>3, <1>4 DEF CommentInv

(* Steps that touch neither the comments nor the handlers' calls. *)
LEMMA OthersKeepComments ==
    ASSUME CommentInv, UNCHANGED <<rows, call, bound>> PROVE CommentInv'
BY DEF CommentInv, Pending, BotRows

-----------------------------------------------------------------------------
(* Repairs *)

LEMMA RecordingFinite == IsFiniteSet(Recording)
BY TicksAssumption, FS_Subset DEF Recording

(* A tick goes on without a repair, or its repair is recorded or lost to a  *)
(* fault.                                                                   *)
LEMMA TickGoesOn ==
    ASSUME TickInv, faults \in Nat, faults' \in Nat, faults <= faults', NEW t \in Ticks,
           NEW next \in {Idle} \union RunningTicks, next.pc # "record",
           tick' = [tick EXCEPT ![t] = next], notices' \in Nat,
           \/ tick[t].pc # "record" /\ unrecorded' = unrecorded
           \/ tick[t].pc = "record" /\ unrecorded' = unrecorded - 1
           \/ tick[t].pc = "record" /\ unrecorded' = unrecorded /\ faults' = faults + 1
    PROVE  TickInv'
<1>1. /\ tick' \in [Ticks -> {Idle} \union RunningTicks]
      /\ Recording' = Recording \ {t} /\ (t \in Recording <=> tick[t].pc = "record")
  BY DEF TickInv, Recording
<1>2. Cardinality(Recording) \in Nat /\ Cardinality(Recording') \in Nat
  BY <1>1, RecordingFinite, FS_RemoveElement, FS_CardinalityType
<1>3. Cardinality(Recording') = IF tick[t].pc = "record" THEN Cardinality(Recording) - 1
                                ELSE Cardinality(Recording)
  <2>1. CASE tick[t].pc = "record"
    BY <1>1, <2>1, RecordingFinite, FS_RemoveElement
  <2>2. CASE tick[t].pc # "record"
    <3>1. Recording' = Recording
      BY <1>1, <2>2
    <3> QED
      BY <2>2, <3>1
  <2> QED
    BY <2>1, <2>2
<1> QED
  BY <1>1, <1>2, <1>3 DEF TickInv

(* A tick makes a repair and has its record to append. *)
LEMMA TickRepairs ==
    ASSUME TickInv, faults \in Nat, faults' = faults, NEW t \in Ticks,
           NEW next \in RunningTicks, next.pc = "record", tick[t].pc # "record",
           tick' = [tick EXCEPT ![t] = next], notices' \in Nat, unrecorded' = unrecorded + 1
    PROVE  TickInv'
<1>1. /\ tick' \in [Ticks -> {Idle} \union RunningTicks]
      /\ Recording' = Recording \union {t} /\ t \notin Recording
  BY DEF TickInv, Recording
<1>2. Cardinality(Recording') = Cardinality(Recording) + 1 /\ Cardinality(Recording) \in Nat
  BY <1>1, RecordingFinite, FS_AddElement, FS_CardinalityType
<1> QED
  BY <1>1, <1>2 DEF TickInv

(* Steps of others, whatever faults they add. *)
LEMMA OthersKeepTicks ==
    ASSUME TickInv, faults \in Nat, faults' \in Nat, faults <= faults',
           notices' \in Nat, UNCHANGED <<tick, unrecorded>>
    PROVE  TickInv'
<1>1. Recording' = Recording
  BY DEF Recording
<1>2. Cardinality(Recording) \in Nat
  BY RecordingFinite, FS_CardinalityType
<1> QED
  BY <1>1, <1>2 DEF TickInv

-----------------------------------------------------------------------------
(* The steps *)

(* What the properties need of any step beside the invariant. *)
OwnLabelsOnly == labels' \intersect User # labels \intersect User => edits' = edits + 1

LEMMA HandlerStepKeeps ==
    ASSUME Inv, NEW h \in Handlers, Deliver(h) \/ HandlerStep(h) \/ HandlerThrows(h),
           UNCHANGED <<recVars, bound>>
    PROVE  Inv' /\ OwnLabelsOnly
<1> USE DEF Inv
<1>0. /\ faults \in Nat /\ notices \in Nat /\ bound \in Bounds
      /\ bound.faults \in Nat /\ bound.events \in Nat
  BY SurfaceAssumption DEF IssueShapes, TickInv
<1>1. CASE Deliver(h)
  <2>1. PICK why \in {"triage"} \union Progress :
          call' = [call EXCEPT ![h] =
                     [pc |-> "event", why |-> why,
                      seen |-> [content |-> content, closed |-> closed, labels |-> labels]]]
    BY <1>1 DEF Deliver
  <2> DEFINE c == [pc |-> "event", why |-> why,
                   seen |-> [content |-> content, closed |-> closed, labels |-> labels]]
  <2>2. h \in bound.handlers /\ events < bound.events /\ events' = events + 1
        /\ UNCHANGED <<content, closed, labels, state, rows, edits, faults, bound>>
    BY <1>1 DEF Deliver
  <2>3. c \in Calls /\ c.pc # "found"
    BY DEF Calls, EventCalls, IssueShapes
  <2> HIDE DEF c
  <2>4. CommentInv'
    BY <2>1, <2>2, <2>3, CallStepKeeps DEF c
  <2>5. IssueShapes'
    BY <2>2, <1>0 DEF IssueShapes
  <2>6. TickInv'
    BY <1>0, <2>2, OthersKeepTicks DEF recVars
  <2> QED
    BY <2>2, <2>4, <2>5, <2>6 DEF OwnLabelsOnly
<1>2. ASSUME NEW next \in IssueState, NEW add \in SUBSET Owned, NEW remove \in SUBSET Owned,
             Plan(h, next, add, remove), call[h] # Idle
      PROVE  Inv' /\ OwnLabelsOnly
  <2> DEFINE c == [pc |-> "labels", status |-> next.status, add |-> add, remove |-> remove]
  <2>1. state' = next /\ call' = [call EXCEPT ![h] = c]
        /\ UNCHANGED <<content, closed, labels, rows, events, edits, faults>>
    BY <1>2 DEF Plan
  <2>2. c \in Calls /\ c.pc # "found"
    BY DEF Calls, LabelCalls, IssueState
  <2> HIDE DEF c
  <2>3. CommentInv'
    BY <1>2, <2>1, <2>2, CallStepKeeps DEF CommentInv
  <2>4. IssueShapes'
    BY <2>1 DEF IssueShapes
  <2>5. TickInv'
    BY <1>0, <2>1, OthersKeepTicks DEF recVars
  <2> QED
    BY <2>1, <2>3, <2>4, <2>5 DEF OwnLabelsOnly
<1>3. CASE TriageIssue(h)
  <2>1. call[h] \in EventCalls /\ call[h] # Idle
    BY <1>3 DEF TriageIssue, CommentInv, Calls, LabelCalls, FoundCalls, Idle
  <2>2. PICK hint \in Hints :
          Plan(h, Triage(call[h].seen, hint).state, Triage(call[h].seen, hint).add,
               Triage(call[h].seen, hint).remove)
    BY <1>3 DEF TriageIssue
  <2>3. /\ Triage(call[h].seen, hint).state \in IssueState
        /\ Triage(call[h].seen, hint).add \subseteq Owned
        /\ Triage(call[h].seen, hint).remove \subseteq Owned
    BY <2>1, TriageFacts DEF EventCalls
  <2> QED
    BY <1>2, <2>1, <2>2, <2>3
<1>4. CASE ApplyProjection(h)
  <2> DEFINE next == [state EXCEPT !.status = call[h].why]
             diff == DiffLabels(call[h].seen.labels, Wanted(next))
  <2>1. call[h] \in EventCalls /\ call[h] # Idle /\ call[h].why # "triage"
    BY <1>4 DEF ApplyProjection, CommentInv, Calls, LabelCalls, FoundCalls, Idle
  <2>2. Plan(h, next, diff.add, diff.remove)
    BY <1>4 DEF ApplyProjection
  <2>3. next \in IssueState
    BY <2>1, SurfaceAssumption DEF EventCalls, IssueState, IssueShapes
  <2> HIDE DEF next
  <2>4. diff.add \subseteq Owned /\ diff.remove \subseteq Owned
    BY <2>3, WantedIsOwned, DiffIsOwned
  <2> QED
    BY <1>2, <2>1, <2>2, <2>3, <2>4
<1>5. CASE AddLabels(h)
  <2> DEFINE c == [call[h] EXCEPT !.add = {}]
  <2>1. call[h] \in LabelCalls /\ h \in bound.handlers
    BY <1>5 DEF AddLabels, CommentInv, Calls, EventCalls, FoundCalls, Idle
  <2>2. labels' = labels \union call[h].add /\ call' = [call EXCEPT ![h] = c]
        /\ UNCHANGED <<content, closed, state, rows, events, edits, faults>>
    BY <1>5 DEF AddLabels, CommentInv
  <2>3. c \in Calls /\ c.pc # "found" /\ call[h].add \subseteq Owned
    BY <2>1 DEF Calls, LabelCalls
  <2> HIDE DEF c
  <2>4. CommentInv'
    BY <2>1, <2>2, <2>3, CallStepKeeps
  <2>5. IssueShapes'
    BY <2>2, <2>3 DEF IssueShapes
  <2>6. TickInv'
    BY <1>0, <2>2, OthersKeepTicks DEF recVars
  <2> QED
    BY <2>2, <2>3, <2>4, <2>5, <2>6, OwnedAndUserApart DEF OwnLabelsOnly
<1>6. CASE RemoveLabels(h)
  <2> DEFINE c == [call[h] EXCEPT !.remove = {}]
  <2>1. call[h] \in LabelCalls /\ h \in bound.handlers
    BY <1>6 DEF RemoveLabels, CommentInv, Calls, EventCalls, FoundCalls, Idle
  <2>2. labels' = labels \ call[h].remove /\ call' = [call EXCEPT ![h] = c]
        /\ UNCHANGED <<content, closed, state, rows, events, edits, faults>>
    BY <1>6 DEF RemoveLabels, CommentInv
  <2>3. c \in Calls /\ c.pc # "found" /\ call[h].remove \subseteq Owned
    BY <2>1 DEF Calls, LabelCalls
  <2> HIDE DEF c
  <2>4. CommentInv'
    BY <2>1, <2>2, <2>3, CallStepKeeps
  <2>5. IssueShapes'
    BY <2>2, <2>3 DEF IssueShapes
  <2>6. TickInv'
    BY <1>0, <2>2, OthersKeepTicks DEF recVars
  <2> QED
    BY <2>2, <2>3, <2>4, <2>5, <2>6, OwnedAndUserApart DEF OwnLabelsOnly
<1>7. CASE FindComment(h)
  <2>1. UNCHANGED <<content, closed, labels, state, events, edits, faults, bound>>
    BY <1>7 DEF FindComment
  <2>2. CommentInv'
    BY <1>7, FindCommentKeeps
  <2>3. TickInv'
    BY <1>0, <2>1, OthersKeepTicks DEF recVars
  <2> QED
    BY <2>1, <2>2, <2>3 DEF IssueShapes, OwnLabelsOnly
<1>8. CASE WriteComment(h)
  <2>1. UNCHANGED <<content, closed, labels, state, events, edits, faults, bound>>
    BY <1>8 DEF WriteComment
  <2>2. CommentInv'
    BY <1>8, WriteCommentKeeps
  <2>3. TickInv'
    BY <1>0, <2>1, OthersKeepTicks DEF recVars
  <2> QED
    BY <2>1, <2>2, <2>3 DEF IssueShapes, OwnLabelsOnly
<1>9. CASE HandlerThrows(h)
  <2>1. /\ faults < bound.faults /\ faults' = faults + 1
        /\ call' = [call EXCEPT ![h] = Idle]
        /\ UNCHANGED <<content, closed, labels, state, rows, events, edits, bound>>
    BY <1>9 DEF HandlerThrows
  <2>2. CommentInv'
    BY <2>1, CallStepKeeps DEF Calls, Idle
  <2>3. IssueShapes'
    BY <1>0, <2>1 DEF IssueShapes
  <2>4. TickInv'
    BY <1>0, <2>1, OthersKeepTicks DEF recVars
  <2> QED
    BY <2>1, <2>2, <2>3, <2>4 DEF OwnLabelsOnly
<1> QED
  BY <1>1, <1>3, <1>4, <1>5, <1>6, <1>7, <1>8, <1>9 DEF HandlerStep

LEMMA PeopleKeep ==
    ASSUME Inv, (People /\ UNCHANGED recVars) \/ DeleteNotice, UNCHANGED bound
    PROVE  Inv' /\ OwnLabelsOnly
<1>1. /\ edits < bound.edits /\ edits' = edits + 1
      /\ UNCHANGED <<state, call, events, faults, tick, unrecorded>>
  BY DEF People, Rewrite, OpenOrClose, Relabel, Imitate, DeleteNotice, Edit, recVars
<1>2. /\ faults \in Nat /\ notices \in Nat /\ bound \in Bounds /\ bound.edits \in Nat
  BY SurfaceAssumption DEF Inv, IssueShapes, TickInv
<1>3. notices' \in Nat
  BY <1>2 DEF People, DeleteNotice, recVars
<1>4. IssueShapes'
  <2>1. content' \in Contents
    BY DEF People, Rewrite, OpenOrClose, Relabel, Imitate, DeleteNotice, Inv, IssueShapes
  <2>2. closed' \in BOOLEAN
    BY DEF People, Rewrite, OpenOrClose, Relabel, Imitate, DeleteNotice, Inv, IssueShapes
  <2>3. labels' \subseteq Owned \union User
    <3>1. Status("ready") \in Owned
      BY DEF Owned, Statuses
    <3> QED
      BY <3>1 DEF People, Rewrite, OpenOrClose, Relabel, Imitate, DeleteNotice, Inv, IssueShapes
  <2> QED
    BY <1>1, <1>2, <2>1, <2>2, <2>3 DEF Inv, IssueShapes
<1>5. CommentInv'
  <2>1. CASE Imitate
    BY <2>1, ImitateKeeps DEF Inv
  <2>2. CASE ~Imitate
    <3>1. UNCHANGED rows
      BY <2>2 DEF People, Rewrite, OpenOrClose, Relabel, DeleteNotice
    <3> QED
      BY <1>1, <3>1, OthersKeepComments DEF Inv
  <2> QED
    BY <2>1, <2>2
<1>6. TickInv'
  BY <1>1, <1>2, <1>3, OthersKeepTicks DEF Inv
<1> QED
  BY <1>1, <1>4, <1>5, <1>6 DEF Inv, OwnLabelsOnly

LEMMA TickStepKeeps ==
    ASSUME Inv, NEW t \in Ticks, TickStep(t) \/ TickThrows(t), UNCHANGED bound
    PROVE  Inv' /\ OwnLabelsOnly
<1>0. /\ faults \in Nat /\ notices \in Nat /\ bound \in Bounds /\ bound.faults \in Nat
      /\ tick[t] \in {Idle} \union RunningTicks
  BY SurfaceAssumption DEF Inv, IssueShapes, TickInv
<1> DEFINE Quiet == UNCHANGED surfaceVars /\ notices' \in Nat
<1>01. Quiet => faults' = faults /\ faults' \in Nat /\ faults <= faults' /\ notices' \in Nat
  BY <1>0 DEF surfaceVars
<1>1. ASSUME UNCHANGED surfaceVars, TickInv' PROVE Inv' /\ OwnLabelsOnly
  <2>1. IssueShapes' /\ OwnLabelsOnly
    BY <1>1 DEF Inv, surfaceVars, IssueShapes, OwnLabelsOnly
  <2>2. CommentInv'
    BY <1>1, OthersKeepComments DEF Inv, surfaceVars
  <2> QED
    BY <1>1, <2>1, <2>2 DEF Inv
<1>2. ASSUME NEW l \in Owned, labels' = labels \union {l} \/ labels' = labels \ {l},
             UNCHANGED <<content, closed, state, rows, call, events, edits, faults>>, TickInv'
      PROVE  Inv' /\ OwnLabelsOnly
  <2>1. IssueShapes' /\ OwnLabelsOnly
    BY <1>2, OwnedAndUserApart DEF Inv, IssueShapes, OwnLabelsOnly
  <2>2. CommentInv'
    BY <1>2, OthersKeepComments DEF Inv
  <2> QED
    BY <1>2, <2>1, <2>2 DEF Inv
<1>3. CASE List(t)
  <2> DEFINE todo == Repair(labels, Wanted(state))
             next == [pc |-> IF state.status # "new" THEN "comment" ELSE "repair",
                      add |-> todo.add, remove |-> todo.remove]
  <2>1. /\ tick[t] = Idle /\ tick' = [tick EXCEPT ![t] = next]
        /\ UNCHANGED <<surfaceVars, notices, unrecorded>>
    BY <1>3 DEF List
  <2>2. todo.add \subseteq Owned /\ todo.remove \subseteq Owned
    BY WantedIsOwned DEF Repair, Inv, IssueShapes
  <2>3. next \in RunningTicks /\ next.pc # "record" /\ Idle.pc # "record"
    BY <2>2 DEF RunningTicks, Idle
  <2> HIDE DEF next
  <2>4. TickInv'
    BY <1>0, <2>1, <2>3, <1>01, TickGoesOn DEF Inv
  <2> QED
    BY <1>1, <2>1, <2>4
<1>4. CASE CheckComment(t)
  <2> DEFINE next == [tick[t] EXCEPT !.pc = IF notices > 0 THEN "repair" ELSE "post"]
  <2>1. /\ tick[t].pc = "comment" /\ tick' = [tick EXCEPT ![t] = next]
        /\ UNCHANGED <<surfaceVars, notices, unrecorded>>
    BY <1>4 DEF CheckComment, Inv, TickInv
  <2>2. tick[t] \in RunningTicks
    BY <1>0, <2>1 DEF Idle
  <2>3. next \in RunningTicks /\ next.pc # "record"
    BY <2>2 DEF RunningTicks
  <2> HIDE DEF next
  <2>4. TickInv'
    BY <1>0, <2>1, <2>3, <1>01, TickGoesOn DEF Inv
  <2> QED
    BY <1>1, <2>1, <2>4
<1>5. CASE Recreate(t)
  <2> DEFINE next == [tick[t] EXCEPT !.pc = "record"]
  <2>1. /\ tick[t].pc = "post" /\ tick' = [tick EXCEPT ![t] = next]
        /\ notices' = notices + 1 /\ unrecorded' = unrecorded + 1 /\ UNCHANGED surfaceVars
    BY <1>5 DEF Recreate, Inv, TickInv
  <2>2. tick[t] \in RunningTicks
    BY <1>0, <2>1 DEF Idle
  <2>3. next \in RunningTicks /\ next.pc = "record"
    BY <2>2 DEF RunningTicks
  <2> HIDE DEF next
  <2>4. notices' \in Nat /\ faults' = faults
    BY <1>0, <1>01, <2>1
  <2>5. TickInv'
    BY <1>0, <2>1, <2>3, <2>4, TickRepairs DEF Inv
  <2> QED
    BY <1>1, <2>1, <2>5
<1>6. CASE RepairAdd(t)
  <2> DEFINE l == First(tick[t].add)
             rest == tick[t].add \ {l}
             next == [[tick[t] EXCEPT !.pc = "record"] EXCEPT !.add = rest]
  <2>1. /\ tick[t].pc = "repair" /\ tick[t].add # {}
        /\ labels' = labels \union {l} /\ tick' = [tick EXCEPT ![t] = next]
        /\ unrecorded' = unrecorded + 1
        /\ UNCHANGED <<content, closed, state, rows, call, events, edits, faults, notices>>
    BY <1>6 DEF RepairAdd, Inv, TickInv
  <2>2. tick[t] \in RunningTicks
    BY <1>0, <2>1 DEF Idle
  <2>3. l \in tick[t].add /\ l \in Owned /\ rest \subseteq Owned
    BY <2>1, <2>2 DEF First, RunningTicks
  <2> HIDE DEF rest
  <2>4. next \in RunningTicks /\ next.pc = "record"
    BY <2>2, <2>3 DEF RunningTicks
  <2> HIDE DEF next, l
  <2>5. TickInv'
    BY <1>0, <2>1, <2>4, TickRepairs DEF Inv
  <2> QED
    BY <1>2, <2>1, <2>3, <2>5
<1>7. CASE RepairRemove(t)
  <2> DEFINE l == First(tick[t].remove)
             rest == tick[t].remove \ {l}
             next == [[tick[t] EXCEPT !.pc = "record"] EXCEPT !.remove = rest]
  <2>1. /\ tick[t].pc = "repair" /\ tick[t].remove # {}
        /\ labels' = labels \ {l} /\ tick' = [tick EXCEPT ![t] = next]
        /\ unrecorded' = unrecorded + 1
        /\ UNCHANGED <<content, closed, state, rows, call, events, edits, faults, notices>>
    BY <1>7 DEF RepairRemove, Inv, TickInv
  <2>2. tick[t] \in RunningTicks
    BY <1>0, <2>1 DEF Idle
  <2>3. l \in tick[t].remove /\ l \in Owned /\ rest \subseteq Owned
    BY <2>1, <2>2 DEF First, RunningTicks
  <2> HIDE DEF rest
  <2>4. next \in RunningTicks /\ next.pc = "record"
    BY <2>2, <2>3 DEF RunningTicks
  <2> HIDE DEF next, l
  <2>5. TickInv'
    BY <1>0, <2>1, <2>4, TickRepairs DEF Inv
  <2> QED
    BY <1>2, <2>1, <2>3, <2>5
<1>8. CASE RecordRepair(t)
  <2> DEFINE next == [tick[t] EXCEPT !.pc = "repair"]
  <2>1. /\ tick[t].pc = "record" /\ tick' = [tick EXCEPT ![t] = next]
        /\ unrecorded' = unrecorded - 1 /\ UNCHANGED <<surfaceVars, notices>>
    BY <1>8 DEF RecordRepair, Inv, TickInv
  <2>2. tick[t] \in RunningTicks
    BY <1>0, <2>1 DEF Idle
  <2>3. next \in RunningTicks /\ next.pc # "record"
    BY <2>2 DEF RunningTicks
  <2> HIDE DEF next
  <2>4. TickInv'
    BY <1>0, <2>1, <2>3, <1>01, TickGoesOn DEF Inv
  <2> QED
    BY <1>1, <2>1, <2>4
<1>9. CASE EndTick(t)
  <2>1. /\ tick[t].pc = "repair" /\ tick' = [tick EXCEPT ![t] = Idle]
        /\ UNCHANGED <<surfaceVars, notices, unrecorded>>
    BY <1>9 DEF EndTick
  <2>2. TickInv'
    BY <1>0, <1>01, <2>1, TickGoesOn DEF Inv, Idle
  <2> QED
    BY <1>1, <2>1, <2>2
<1>10. CASE TickThrows(t)
  <2>1. /\ faults < bound.faults /\ faults' = faults + 1 /\ tick' = [tick EXCEPT ![t] = Idle]
        /\ UNCHANGED <<content, closed, labels, state, rows, call, events, edits,
                       notices, unrecorded>>
    BY <1>10 DEF TickThrows
  <2>2. Idle \in {Idle} \union RunningTicks /\ Idle.pc # "record" /\ faults' \in Nat
        /\ faults <= faults'
    BY <1>0, <2>1 DEF Idle
  <2>3. TickInv'
    BY <1>0, <2>1, <2>2, TickGoesOn DEF Inv
  <2>4. IssueShapes'
    BY <1>0, <2>1 DEF Inv, IssueShapes
  <2>5. CommentInv'
    BY <2>1, OthersKeepComments DEF Inv
  <2> QED
    BY <2>1, <2>3, <2>4, <2>5 DEF Inv, OwnLabelsOnly
<1> QED
  BY <1>3, <1>4, <1>5, <1>6, <1>7, <1>8, <1>9, <1>10 DEF TickStep

LEMMA RecInitInv == RecInit => Inv
<1> SUFFICES ASSUME RecInit PROVE Inv
  OBVIOUS
<1> USE DEF RecInit, Init
<1>1. IssueShapes
  <2>1. state \in IssueState /\ labels \subseteq Owned \union User /\ closed \in BOOLEAN
    BY DEF IssueState, Categories, Statuses
  <2>2. /\ bound \in Bounds /\ bound.events \in Nat /\ bound.edits \in Nat
        /\ bound.faults \in Nat /\ events = 0 /\ edits = 0 /\ faults = 0
    BY SurfaceAssumption
  <2> QED
    BY <2>1, <2>2 DEF IssueShapes
<1>2. Pending = {} /\ BotRows = {} /\ Recording = {}
  BY DEF Pending, BotRows, Recording, Idle
<1>3. Cardinality({}) = 0
  BY FS_EmptySet
<1>4. Cardinality(bound.handlers) \in Nat
  BY HandlersFinite, FS_CardinalityType
<1>5. CommentInv
  BY <1>2, <1>3, <1>4 DEF CommentInv, Calls, Idle
<1>6. TickInv
  BY <1>2, <1>3 DEF TickInv
<1> QED
  BY <1>1, <1>5, <1>6 DEF Inv

LEMMA NextKeeps == Inv /\ [Next]_vars => Inv' /\ [OwnLabelsOnly]_vars
<1> SUFFICES ASSUME Inv, [Next]_vars PROVE Inv' /\ [OwnLabelsOnly]_vars
  OBVIOUS
<1>1. CASE Next
  BY <1>1, HandlerStepKeeps, PeopleKeep, TickStepKeeps DEF Next, SurfaceNext
<1>2. CASE UNCHANGED vars
  <2>1. UNCHANGED <<surfaceVars, recVars>>
    BY <1>2 DEF vars
  <2>2. IssueShapes' /\ CommentInv' /\ TickInv'
    BY <2>1, OthersKeepComments
       DEF Inv, IssueShapes, TickInv, Recording, surfaceVars, recVars
  <2> QED
    BY <1>2, <2>2 DEF Inv
<1> QED
  BY <1>1, <1>2

-----------------------------------------------------------------------------

(* The state keeps its types. *)
THEOREM TypesKept == Spec => []TypeOK
<1>1. Inv => TypeOK
  BY DEF Inv, IssueShapes, CommentInv, TickInv, IssueState, Row, TypeOK
<1> QED
  BY <1>1, RecInitInv, NextKeeps, PTL DEF Spec

(* status-comment.ts: however many events there are and whoever imitates    *)
(* the comment, the bot has at most one comment for each upsert that        *)
(* overlapped.                                                              *)
THEOREM CommentsBounded == Spec => []OwnCommentsBounded
<1>1. Inv => OwnCommentsBounded
  <2> SUFFICES ASSUME Inv PROVE OwnCommentsBounded
    OBVIOUS
  <2>1. Cardinality(BotRows) \in Nat /\ Cardinality(Pending) \in Nat
        /\ Cardinality(bound.handlers) \in Nat
    BY BotRowsFinite, PendingFinite, HandlersFinite, FS_CardinalityType
       DEF Inv, CommentInv, IssueShapes
  <2> QED
    BY <2>1 DEF Inv, CommentInv, OwnCommentsBounded, OwnComments, BotRows
<1> QED
  BY <1>1, RecInitInv, NextKeeps, PTL DEF Spec

(* label-reconciler.ts: what the audit chain lacks is the repair a tick has *)
(* in hand, and one at most for every call that threw.                      *)
THEOREM RepairsRecorded == Spec => []RepairsAreRecorded
<1>1. Inv => RepairsAreRecorded
  BY DEF Inv, TickInv, RepairsAreRecorded, Recording
<1> QED
  BY <1>1, RecInitInv, NextKeeps, PTL DEF Spec

(* triage.ts, label-projection.ts: no diff and no repair, however late,     *)
(* touches a label of a person's.                                           *)
THEOREM PeoplesLabelsKept == Spec => PeopleKeepTheirLabels
BY RecInitInv, NextKeeps, PTL DEF Spec, PeopleKeepTheirLabels, OwnLabelsOnly

=============================================================================
