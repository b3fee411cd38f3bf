------------------------------- MODULE Reviews -------------------------------
(***************************************************************************)
(* Findings of a pull request from the model's answer to their closing:    *)
(* ReviewRunner and SecurityReviewRunner keep the result, record a row per *)
(* finding and post a summary; FindingLifecycleService closes rows, on     *)
(* behalf of a reviewer (markFixed), of a review that no longer mentions   *)
(* them (markFixedByOmission) or of a maintainer (dismiss), each reading,  *)
(* writing and auditing in awaited steps of its own.                       *)
(*                                                                         *)
(* A row is known by its finding hash, <<head, reviewer, rule>>: rule      *)
(* stands for the rule, the place and the message.  The schedule of        *)
(* reviews and the pushes are external.                                    *)
(***************************************************************************)
EXTENDS Naturals, FiniteSets

CONSTANTS
    Heads,          \* head shas of the pull request
    Answers,        \* [reviewer classes -> sets of lists of findings a model can return]
    Closers,        \* calls of the lifecycle service at the same time
    DismissedBy,    \* who calls dismiss
    MaxReviews,     \* bound: reviews run
    MaxCloses,      \* bound: calls of the lifecycle service
    MaxReviewPushes \* bound: pushes

Classes == {"code", "security"}

(* What a reviewer's output schema lets through. *)
Finding == [rule : STRING, blocking : BOOLEAN]

ASSUME ReviewAssumption ==
    /\ Heads # {} /\ Answers \in [Classes -> SUBSET SUBSET Finding]
    /\ MaxReviews \in Nat /\ MaxCloses \in Nat /\ MaxReviewPushes \in Nat

VARIABLES
    prHead,     \* the head reviews are asked for
    review,     \* per class: the review that runs
    reviewResults, \* review_result artifacts
    findingRows,\* [finding hashes -> rows of review_findings]
    summaries,  \* summaries posted on the pull request
    closer,     \* per closer: the call it is in
    findingAudit, \* review.finding.fixed and .dismissed records
    closures,   \* history: every close that was written, and by which call
    unrecorded, \* history: closes whose call died before its record
    reviews, closes, reviewPushes

reviewVars == <<prHead, review, reviewResults, findingRows, summaries, closer, findingAudit,
                closures, unrecorded, reviews, closes, reviewPushes>>

runnerVars == <<review, reviewResults, summaries, reviews>>
lifecycleVars == <<closer, findingAudit, closures, unrecorded, closes>>

Resting == [pc |-> "resting"]

ReviewInit ==
    /\ prHead = CHOOSE h \in Heads : TRUE
    /\ review = [c \in Classes |-> Resting]
    /\ reviewResults = {} /\ findingRows = <<>> /\ summaries = {}
    /\ closer = [k \in Closers |-> Resting]
    /\ findingAudit = {} /\ closures = {} /\ unrecorded = {}
    /\ reviews = 0 /\ closes = 0 /\ reviewPushes = 0

-----------------------------------------------------------------------------

(* computeFindingHash: the head is in it, severity and blocking are not.    *)
FindingHash(head, class, finding) == <<head, class, finding.rule>>

(* What of a model's answer becomes findings: a malformed one is dropped,   *)
(* the code reviewer never blocks.                                          *)
Parse(class, answer) ==
    {[f EXCEPT !.blocking = f.blocking /\ class = "security"] :
        f \in {g \in answer : g.rule # ""}}

PushForReview ==
    /\ reviewPushes < MaxReviewPushes
    /\ reviewPushes' = reviewPushes + 1
    /\ prHead' \in Heads \ {prHead}
    /\ UNCHANGED <<runnerVars, lifecycleVars, findingRows>>

StartReview(class) ==
    /\ review[class] = Resting
    /\ reviews < MaxReviews
    /\ reviews' = reviews + 1
    /\ \E answer \in Answers[class] :
         review' = [review EXCEPT ![class] =
             [pc |-> "store", head |-> prHead, findings |-> Parse(class, answer),
              todo |-> Parse(class, answer)]]
    /\ UNCHANGED <<prHead, reviewResults, findingRows, summaries, lifecycleVars, reviewPushes>>

StoreResult(class) ==
    /\ review[class].pc = "store"
    /\ reviewResults' = reviewResults \union
         {[class |-> class, head |-> review[class].head, findings |-> review[class].findings]}
    /\ review' = [review EXCEPT ![class].pc = "record"]
    /\ UNCHANGED <<prHead, findingRows, summaries, reviews, lifecycleVars, reviewPushes>>

OpenRow(class, finding) ==
    [class |-> class, blocking |-> finding.blocking, status |-> "open",
     closedBy |-> ""]

(* upsert: a row that is there stays as it is. *)
Upsert(rows, hash, row) ==
    [h \in DOMAIN rows \union {hash} |-> IF h \in DOMAIN rows THEN rows[h] ELSE row]

(* recordReviewResult, one finding after the other. *)
RecordFinding(class) ==
    /\ review[class].pc = "record"
    /\ LET todo == review[class].todo
       IN IF todo = {}
          THEN /\ review' = [review EXCEPT ![class].pc = "summary"]
               /\ UNCHANGED findingRows
          ELSE LET f == CHOOSE g \in todo : TRUE
               IN /\ findingRows' = Upsert(findingRows,
                         FindingHash(review[class].head, class, f), OpenRow(class, f))
                  /\ review' = [review EXCEPT ![class].todo = @ \ {f}]
    /\ UNCHANGED <<prHead, reviewResults, summaries, reviews, lifecycleVars, reviewPushes>>

PostSummary(class) ==
    /\ review[class].pc = "summary"
    /\ summaries' = summaries \union
         {[class |-> class, head |-> review[class].head, findings |-> review[class].findings]}
    /\ review' = [review EXCEPT ![class] = Resting]
    /\ UNCHANGED <<prHead, reviewResults, findingRows, reviews, lifecycleVars, reviewPushes>>

(* The store, the repository or GitHub throws; somebody may ask again.      *)
ReviewThrows(class) ==
    /\ review[class] # Resting
    /\ review' = [review EXCEPT ![class] = Resting]
    /\ UNCHANGED <<prHead, reviewResults, findingRows, summaries, reviews, lifecycleVars, reviewPushes>>

-----------------------------------------------------------------------------

Call(k, call) == closer' = [closer EXCEPT ![k] = call]

(* A call about to write change to a row it found open; rest are the rows   *)
(* it goes on to.                                                           *)
Writing(hash, via, status, actor, rest) ==
    [pc |-> "set", hash |-> hash, via |-> via, status |-> status, actor |-> actor, rest |-> rest]

(* A sweep about to look at the next of the rows it means to close. *)
FindNext(rest, actor) == [pc |-> "find", rest |-> rest, actor |-> actor]

Reviewer(class) == IF class = "code" THEN "cgao:reviewer:code" ELSE "cgao:reviewer:security"

IsOpen(hash) == hash \in DOMAIN findingRows /\ findingRows[hash].status = "open"

(* markFixed: an open row, its own class, and for a blocking one a head at  *)
(* which the fix was confirmed.                                             *)
MarkFixed(k) ==
    /\ closer[k] = Resting
    /\ closes < MaxCloses
    /\ closes' = closes + 1
    /\ \E hash \in DOMAIN findingRows, class \in Classes, confirmedAt \in {"", prHead} :
         /\ IsOpen(hash)
         /\ findingRows[hash].class = class
         /\ findingRows[hash].blocking => confirmedAt # ""
         /\ Call(k, Writing(hash, "markFixed", "fixed", Reviewer(class), {}))
    /\ UNCHANGED <<prHead, runnerVars, findingRows, findingAudit, unrecorded, closures, reviewPushes>>

(* dismiss: not by a reviewer, and with a reason. *)
Dismiss(k) ==
    /\ closer[k] = Resting
    /\ closes < MaxCloses
    /\ closes' = closes + 1
    /\ \E hash \in DOMAIN findingRows, by \in DismissedBy \ {Reviewer(c) : c \in Classes} :
         /\ IsOpen(hash)
         /\ Call(k, Writing(hash, "dismiss", "dismissed", by, {}))
    /\ UNCHANGED <<prHead, runnerVars, findingRows, findingAudit, unrecorded, closures, reviewPushes>>

Omitted_Mutant(mentioned) == {h \in DOMAIN findingRows : IsOpen(h) /\ h \notin mentioned}

(* The rows markFixedByOmission lists and means to close. *)
Omitted(mentioned) ==
    {h \in DOMAIN findingRows :
        IsOpen(h) /\ h \notin mentioned /\ ~findingRows[h].blocking}

(* markFixedByOmission after a review that was posted, in the name of its   *)
(* reviewer.                                                                *)
SweepOmitted(k) ==
    /\ closer[k] = Resting
    /\ closes < MaxCloses
    /\ closes' = closes + 1
    /\ \E s \in summaries :
         LET omitted == Omitted({FindingHash(s.head, s.class, f) : f \in s.findings})
         IN /\ omitted # {}
            /\ Call(k, FindNext(omitted, Reviewer(s.class)))
    /\ UNCHANGED <<prHead, runnerVars, findingRows, findingAudit, unrecorded, closures, reviewPushes>>

(* It calls markFixed for one after the other, with the class of the row    *)
(* and the sweep's own actor whatever that class is; markFixed throws on a  *)
(* row that is not open any more: what is left stays open.                  *)
FindOmitted(k) ==
    /\ closer[k].pc = "find"
    /\ LET rest == closer[k].rest
           hash == CHOOSE h \in rest : TRUE
       IN Call(k, IF IsOpen(hash)
                  THEN Writing(hash, "omission", "fixed", closer[k].actor, rest \ {hash})
                  ELSE Resting)
    /\ UNCHANGED <<prHead, runnerVars, findingRows, findingAudit, unrecorded, closures, closes,
                   reviewPushes>>

Change(call) == [hash |-> call.hash, status |-> call.status, by |-> call.actor]

(* setStatus writes whatever the row has become since. *)
SetFindingStatus(k) ==
    /\ closer[k].pc = "set"
    /\ LET call == closer[k]
       IN /\ findingRows' = [findingRows EXCEPT ![call.hash].status = call.status,
                                                ![call.hash].closedBy = call.actor]
          /\ closures' = closures \union {[change |-> Change(call), via |-> call.via]}
          /\ Call(k, [call EXCEPT !.pc = "audit"])
    /\ UNCHANGED <<prHead, runnerVars, findingAudit, unrecorded, closes, reviewPushes>>

RecordClose(k) ==
    /\ closer[k].pc = "audit"
    /\ findingAudit' = findingAudit \union {Change(closer[k])}
    /\ Call(k, IF closer[k].rest = {} THEN Resting ELSE FindNext(closer[k].rest, closer[k].actor))
    /\ UNCHANGED <<prHead, runnerVars, findingRows, unrecorded, closures, closes, reviewPushes>>

LifecycleThrows(k) ==
    /\ closer[k] # Resting
    /\ unrecorded' = IF closer[k].pc = "audit" THEN unrecorded \union {Change(closer[k])}
                     ELSE unrecorded
    /\ Call(k, Resting)
    /\ UNCHANGED <<prHead, runnerVars, findingRows, findingAudit, closures, closes, reviewPushes>>

-----------------------------------------------------------------------------

ReviewNext ==
    \/ PushForReview
    \/ \E c \in Classes : \/ StartReview(c) \/ StoreResult(c) \/ RecordFinding(c)
                          \/ PostSummary(c) \/ ReviewThrows(c)
    \/ \E k \in Closers : \/ MarkFixed(k) \/ Dismiss(k) \/ SweepOmitted(k) \/ FindOmitted(k)
                          \/ SetFindingStatus(k) \/ RecordClose(k) \/ LifecycleThrows(k)

ReviewSpec == ReviewInit /\ [][ReviewNext]_reviewVars

-----------------------------------------------------------------------------

FindingHashes == Heads \X Classes \X {f.rule : f \in UNION UNION {Answers[c] : c \in Classes}}

ReviewTypeOK ==
    /\ prHead \in Heads
    /\ DOMAIN findingRows \subseteq FindingHashes
    /\ \A h \in DOMAIN findingRows :
         /\ findingRows[h].class = h[2]
         /\ findingRows[h].status \in {"open", "fixed", "dismissed"}
         /\ findingRows[h].blocking \in BOOLEAN
    /\ reviews \in 0 .. MaxReviews /\ closes \in 0 .. MaxCloses
    /\ reviewPushes \in 0 .. MaxReviewPushes

(* Who may close what blocks. *)
MayCloseBlocking(by, hash) == by \in DismissedBy \union {Reviewer(findingRows[hash].class)}

(* finding-lifecycle.ts: whatever overlaps, a repeated report reopens       *)
(* nothing, a blocker is closed by a reviewer of its own class or by a      *)
(* maintainer and never for not being mentioned, and every close is audited *)
(* unless its call died or is about to.  A row that is not open shows one   *)
(* of its closes: of two calls that both found it open the later overwrites *)
(* the earlier's status, name and reason, and a row that does not block may *)
(* show a sweep in the name of the other class's reviewer.                  *)
ClosuresAreAccountedFor ==
    /\ \A c \in closures :
         /\ findingRows[c.change.hash].status # "open"
         /\ findingRows[c.change.hash].blocking =>
               c.via # "omission" /\ MayCloseBlocking(c.change.by, c.change.hash)
         /\ \/ c.change \in findingAudit \union unrecorded
            \/ \E k \in Closers : closer[k].pc = "audit" /\ Change(closer[k]) = c.change
    /\ \A h \in DOMAIN findingRows :
         findingRows[h].status # "open" =>
            \E c \in closures : c.change = [hash |-> h, status |-> findingRows[h].status,
                                            by |-> findingRows[h].closedBy]

=============================================================================
