------------------------------ MODULE DriftScan ------------------------------
(***************************************************************************)
(* The reconciler's scan for drift: a timer ticks, ReconcilerScheduler     *)
(* skips a tick that would overlap, lists the runs in flight and, for one  *)
(* after the other, fetches the issue, fetches the pull request            *)
(* (GitHubHydrator), asks for the projection, compares (DriftDetector) and *)
(* publishes what differs.  Each of these is awaited, GitHub and the       *)
(* database move meanwhile, and any of them may throw: now and then, or,   *)
(* for some runs, every time.                                              *)
(*                                                                         *)
(* Of the six things compared, one of each side is kept as a version, what *)
(* GitHub has, live, against what the database expects: the issue's state, *)
(* which is always expected, and the head of the pull request, which the   *)
(* database need not know.  GitHub may have neither issue nor pull request.*)
(***************************************************************************)
EXTENDS Naturals, Sequences, FiniteSets

CONSTANTS
    RunOrder,       \* workflow runs in the order listInflight returns them
    WithoutPr,      \* runs that have no pull request yet
    MaxMoves,       \* bound: changes on GitHub or in the database
    MaxThrows       \* bound: calls that throw

ScannedRuns == {RunOrder[i] : i \in DOMAIN RunOrder}
Sides == {"issue", "pr"}

ASSUME DriftAssumption ==
    RunOrder \in Seq(ScannedRuns) /\ MaxMoves \in Nat /\ MaxThrows \in Nat

VARIABLES
    live,       \* per run and side: the version GitHub has
    expected,   \* per run and side: the version the database expects
    inflight,   \* runs in a state that is reconciled
    failing,    \* runs whose hydration throws on every tick
    scan,       \* the scheduler: running or not, what it holds
    reported,   \* drift events <<run, side>> published since that side last moved
    moves, throws

driftVars == <<live, expected, inflight, failing, scan, reported, moves, throws>>

Versions == {"v1", "v2"}
Gone == "gone"          \* fetchIssue, fetchPr: null
Unknown == "unknown"    \* expectedHeadSha: null

Live == Versions \union {Gone}
Expected(s) == IF s = "pr" THEN Versions \union {Unknown} ELSE Versions

NotRunning == [pc |-> "not_running", todo |-> {}, seen |-> <<>>, drifts |-> <<>>]

DriftInit ==
    /\ live = [r \in ScannedRuns |-> [s \in Sides |-> "v1"]]
    /\ expected = live
    /\ inflight = ScannedRuns
    /\ failing \in SUBSET ScannedRuns
    /\ scan = NotRunning
    /\ reported = {} /\ moves = 0 /\ throws = 0

-----------------------------------------------------------------------------

Moves(r, s) ==
    /\ moves < MaxMoves
    /\ moves' = moves + 1
    /\ reported' = reported \ {<<r, s>>}
    /\ UNCHANGED <<scan, throws, inflight, failing>>

MoveOnGitHub(r, s) ==
    /\ \E v \in Live \ {live[r][s]} : live' = [live EXCEPT ![r][s] = v]
    /\ Moves(r, s)
    /\ UNCHANGED expected

MoveInDatabase(r, s) ==
    /\ \E v \in Expected(s) \ {expected[r][s]} : expected' = [expected EXCEPT ![r][s] = v]
    /\ Moves(r, s)
    /\ UNCHANGED live

RunFinishes(r) ==
    /\ moves < MaxMoves
    /\ r \in inflight
    /\ inflight' = inflight \ {r}
    /\ moves' = moves + 1
    /\ UNCHANGED <<live, expected, failing, scan, reported, throws>>

(* The runs of the list that are left, by their places in the order: the    *)
(* next one's, or the end of the scan.                                      *)
GoOn(todo) ==
    IF todo = {} THEN NotRunning
    ELSE [pc |-> "issue", todo |-> todo, seen |-> <<>>, drifts |-> <<>>]

(* A tick that finds the scheduler running does nothing.                    *)
TickAndList ==
    /\ scan.pc = "not_running"
    /\ scan' = GoOn({i \in DOMAIN RunOrder : RunOrder[i] \in inflight})
    /\ UNCHANGED <<live, expected, inflight, failing, reported, moves, throws>>

Place == CHOOSE i \in scan.todo : \A j \in scan.todo : i <= j
Scanned == RunOrder[Place]

FetchIssue ==
    /\ scan.pc = "issue"
    /\ Scanned \notin failing
    /\ scan' = [scan EXCEPT !.pc = "pr", !.seen = <<live[Scanned]["issue"]>>]
    /\ UNCHANGED <<live, expected, inflight, failing, reported, moves, throws>>

(* A run without a pull request has none compared. *)
FetchPr ==
    /\ scan.pc = "pr"
    /\ scan' = [scan EXCEPT !.pc = "projection",
                            !.seen = IF Scanned \in WithoutPr THEN @
                                     ELSE Append(@, live[Scanned]["pr"])]
    /\ UNCHANGED <<live, expected, inflight, failing, reported, moves, throws>>

Detect_Mutant(seen, want) ==
    IF seen[1] \notin {Gone, want["issue"]} THEN <<"issue">>
    ELSE IF Len(seen) = 2 /\ seen[2] # Gone /\ want["pr"] \notin {Unknown, seen[2]}
         THEN <<"pr">> ELSE <<>>

(* DriftDetector.detect: the sides that differ, the issue's first.  What    *)
(* GitHub does not have and a head the database does not know differ from   *)
(* nothing.                                                                 *)
Detect(seen, want) ==
    (IF seen[1] \notin {Gone, want["issue"]} THEN <<"issue">> ELSE <<>>)
        \o (IF Len(seen) = 2 /\ seen[2] # Gone /\ want["pr"] \notin {Unknown, seen[2]}
            THEN <<"pr">> ELSE <<>>)

Publishes(drifts) ==
    scan' = IF drifts = <<>> THEN GoOn(scan.todo \ {Place})
            ELSE [scan EXCEPT !.pc = "publish", !.seen = <<>>, !.drifts = drifts]

ReadProjection ==
    /\ scan.pc = "projection"
    /\ Publishes(Detect(scan.seen, expected[Scanned]))
    /\ UNCHANGED <<live, expected, inflight, failing, reported, moves, throws>>

PublishDrift ==
    /\ scan.pc = "publish"
    /\ reported' = reported \union {<<Scanned, Head(scan.drifts)>>}
    /\ Publishes(Tail(scan.drifts))
    /\ UNCHANGED <<live, expected, inflight, failing, moves, throws>>

(* tick's finally: running is reset, and the rest of the list is not looked *)
(* at until the next tick.  Nobody catches what the timer's tick rejects    *)
(* with; should the process end of it, it starts with the next tick too.    *)
AfterThrow == NotRunning

HydrationFails ==
    /\ scan.pc = "issue"
    /\ Scanned \in failing
    /\ scan' = AfterThrow
    /\ UNCHANGED <<live, expected, inflight, failing, reported, moves, throws>>

ScanThrows ==
    /\ scan.pc # "not_running"
    /\ throws < MaxThrows
    /\ throws' = throws + 1
    /\ scan' = AfterThrow
    /\ UNCHANGED <<live, expected, inflight, failing, reported, moves>>

ScanStep == FetchIssue \/ HydrationFails \/ FetchPr \/ ReadProjection \/ PublishDrift

DriftNext ==
    \/ \E r \in ScannedRuns : \E s \in Sides : MoveOnGitHub(r, s) \/ MoveInDatabase(r, s)
    \/ \E r \in ScannedRuns : RunFinishes(r)
    \/ TickAndList \/ ScanStep \/ ScanThrows

-----------------------------------------------------------------------------

DriftTypeOK ==
    /\ live \in [ScannedRuns -> [Sides -> Live]]
    /\ expected \in [ScannedRuns -> [Sides -> Versions \union {Unknown}]]
    /\ inflight \subseteq ScannedRuns /\ failing \subseteq ScannedRuns
    /\ scan.pc \in {"not_running", "issue", "pr", "projection", "publish"}
    /\ reported \subseteq ScannedRuns \X Sides
    /\ moves \in 0 .. MaxMoves /\ throws \in 0 .. MaxThrows

(* Both sides are known and they differ. *)
Drifted(r, s) ==
    /\ r \in inflight
    /\ live[r][s] \notin {Gone, expected[r][s]} /\ expected[r][s] # Unknown
    /\ ~(s = "pr" /\ r \in WithoutPr)

(* No run in flight up to this one, in the order of the list, keeps         *)
(* throwing.                                                                *)
Reached(r) ==
    \E i \in DOMAIN RunOrder :
        RunOrder[i] = r /\ \A j \in 1 .. i : RunOrder[j] \notin inflight \intersect failing

(* reconciler-scheduler.ts, drift-detector.ts: a difference that lasts is   *)
(* reported of every run no tick fails before, although a scan compares     *)
(* what it read at different times and a call that throws ends the scan for *)
(* the runs behind it too.  Of a run behind one whose hydration throws on   *)
(* every tick nothing need ever be reported.                                *)
LastingDriftIsReported ==
    \A r \in ScannedRuns, s \in Sides :
        <>[](Drifted(r, s) /\ Reached(r)) => <>[](<<r, s>> \in reported)

=============================================================================
