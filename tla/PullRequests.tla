---------------------------- MODULE PullRequests ----------------------------
(***************************************************************************)
(* PullRequestService and WorkflowRunPrAdapter.  createPr() joins the call *)
(* that is in flight for the run, if there is one; otherwise it lists the  *)
(* run's open pull requests, reuses the one of its head sha or creates it, *)
(* writes the number to the workflow run's row by compare-and-set on the   *)
(* row's version, and appends to the audit chain.  Other modules update    *)
(* the same row, every awaited call may throw, and the process may crash.  *)
(*                                                                         *)
(* GitHub is what the service's port and its tests take it for: a pull     *)
(* request stays at the head it was created for.  The row, the chain and   *)
(* GitHub survive a crash, the in-flight map does not.                     *)
(***************************************************************************)
EXTENDS Integers, FiniteSets

CONSTANTS
    Calls,          \* calls of createPr()
    Runs,           \* workflow runs
    Heads,          \* head shas
    MaxVersion,     \* bound: the other modules leave the row alone beyond it
    None            \* no call, no run, no head, no pull request

Attempts == 3       \* of the listing, and of the row update

ASSUME NoneAssumption == None \notin Calls \union Runs \union Heads \union Nat
ASSUME VersionAssumption == MaxVersion \in Nat

PullRequest == [number : Nat, run : Runs, head : Heads]

VARIABLES
    call,       \* per call: control point, arguments, what it has read, answer
    inflight,   \* per run: the call that is in flight
    prs,        \* GitHub: the open pull requests
    row,        \* per run: version and prNumber of the workflow_run row
    audit       \* records [kind, run, head, number]

pullVars == <<call, inflight, prs, row, audit>>

Working == {"list", "check", "create", "load", "update", "append"}
Finished == {"answered", "failed", "lost"}

Call ==
    [pc : Working \union Finished \union {"new", "joined"},
     run : Runs \union {None}, head : Heads \union {None},
     tries : 1..Attempts,           \* of the loop it is in
     version : Nat,                 \* of the row it has loaded
     number : Nat \union {None},    \* of the pull request found or created
     created : BOOLEAN]

PullTypeOK ==
    /\ call \in [Calls -> Call]
    /\ inflight \in [Runs -> Calls \union {None}]
    /\ prs \subseteq PullRequest
    /\ row \in [Runs -> [version : Nat, number : Nat \union {None}]]
    /\ audit \subseteq [kind : {"pr.create", "pr.reused"}, run : Runs,
                        head : Heads, number : Nat]

PullInit ==
    /\ call = [c \in Calls |->
                [pc |-> "new", run |-> None, head |-> None, tries |-> 1,
                 version |-> 0, number |-> None, created |-> FALSE]]
    /\ inflight = [r \in Runs |-> None]
    /\ prs = {}
    /\ row = [r \in Runs |-> [version |-> 0, number |-> None]]
    /\ audit = {}

-----------------------------------------------------------------------------

At(c, pc) == call[c].pc = pc
RunOf(c) == call[c].run

(* Leave a loop: its counter and the version it loaded are dead. *)
Leave(c, pc) == [call[c] EXCEPT !.pc = pc, !.tries = 1, !.version = 0]
Goto(c, pc) == call' = [call EXCEPT ![c] = Leave(c, pc)]

(* The definitions named *_Mutant are wrong on purpose: a run with one in   *)
(* place of the definition below it must fail.                              *)
Invoke_Mutant(c, r, h) ==
    /\ At(c, "new")
    /\ call' = [call EXCEPT ![c].run = r, ![c].head = h, ![c].pc = "list"]
    /\ inflight' = [inflight EXCEPT ![r] = c]
    /\ UNCHANGED <<prs, row, audit>>

(* Only the run is compared: a call for another head joins as well. *)
Invoke(c, r, h) ==
    /\ At(c, "new")
    /\ IF inflight[r] = None
       THEN /\ call' = [call EXCEPT ![c].run = r, ![c].head = h, ![c].pc = "list"]
            /\ inflight' = [inflight EXCEPT ![r] = c]
       ELSE /\ call' = [call EXCEPT ![c].run = r, ![c].head = h, ![c].pc = "joined"]
            /\ UNCHANGED inflight
    /\ UNCHANGED <<prs, row, audit>>

Settle_Mutant(c, pc) ==
    /\ call' = [call EXCEPT ![c] = Leave(c, pc)]
    /\ inflight' = [inflight EXCEPT ![RunOf(c)] = None]

(* doCreatePr() of call c settles, and with it every call that joined it. *)
Settle(c, pc) ==
    /\ call' = [d \in Calls |->
                  IF d = c \/ (At(d, "joined") /\ RunOf(d) = RunOf(c))
                  THEN [Leave(d, pc) EXCEPT !.number = call[c].number]
                  ELSE call[d]]
    /\ inflight' = [inflight EXCEPT ![RunOf(c)] = None]

(* Any awaited call may throw, after its effect or without. *)
Throw(c) ==
    /\ call[c].pc \in Working
    /\ Settle(c, "failed")
    /\ UNCHANGED <<prs, row, audit>>

ListAgain_Mutant(c) ==
    /\ At(c, "list")
    /\ call[c].tries <= Attempts
    /\ call' = [call EXCEPT ![c].tries = @ + 1]
    /\ UNCHANGED <<inflight, prs, row, audit>>

(* GitHub answers the listing with a 5xx; the last one is thrown on. *)
ListAgain(c) ==
    /\ At(c, "list")
    /\ call[c].tries < Attempts
    /\ call' = [call EXCEPT ![c].tries = @ + 1]
    /\ UNCHANGED <<inflight, prs, row, audit>>

Matches(c) == {p \in prs : p.run = RunOf(c) /\ p.head = call[c].head}

ListFinds(c) ==
    /\ At(c, "list")
    /\ \E p \in Matches(c) :
         call' = [call EXCEPT ![c] = [Leave(c, "check") EXCEPT !.number = p.number]]
    /\ UNCHANGED <<inflight, prs, row, audit>>

ListFindsNone(c) ==
    /\ At(c, "list")
    /\ Matches(c) = {}
    /\ Goto(c, "create")
    /\ UNCHANGED <<inflight, prs, row, audit>>

(* getPrNumber(): the row of a reused pull request is written if it differs. *)
CheckNumber(c) ==
    /\ At(c, "check")
    /\ Goto(c, IF row[RunOf(c)].number = call[c].number THEN "append" ELSE "load")
    /\ UNCHANGED <<inflight, prs, row, audit>>

NextNumber == Cardinality(prs) + 1

CreatePr(c) ==
    /\ At(c, "create")
    /\ prs' = prs \union {[number |-> NextNumber, run |-> RunOf(c), head |-> call[c].head]}
    /\ call' = [call EXCEPT ![c].pc = "load", ![c].number = NextNumber,
                            ![c].created = TRUE]
    /\ UNCHANGED <<inflight, row, audit>>

(* setPrNumber(): findById. *)
LoadRow(c) ==
    /\ At(c, "load")
    /\ call' = [call EXCEPT
                  ![c].pc = IF row[RunOf(c)].number = call[c].number
                            THEN "append" ELSE "update",
                  ![c].version = row[RunOf(c)].version]
    /\ UNCHANGED <<inflight, prs, row, audit>>

Fresh(c) == row[RunOf(c)].version = call[c].version

UpdateRow(c) ==
    /\ At(c, "update")
    /\ Fresh(c)
    /\ row' = [row EXCEPT ![RunOf(c)] =
                 [version |-> @.version + 1, number |-> call[c].number]]
    /\ Goto(c, "append")
    /\ UNCHANGED <<inflight, prs, audit>>

UpdateAgain_Mutant(c) ==
    /\ At(c, "update")
    /\ ~Fresh(c)
    /\ IF call[c].tries < Attempts
       THEN call' = [call EXCEPT ![c].pc = "load", ![c].tries = @ + 1]
       ELSE call' = [call EXCEPT ![c].pc = "append"]
    /\ UNCHANGED <<inflight, prs, row, audit>>

(* ConcurrentUpdateError: the row has moved; the third one is thrown on. *)
UpdateAgain(c) ==
    /\ At(c, "update")
    /\ ~Fresh(c)
    /\ IF call[c].tries < Attempts
       THEN /\ call' = [call EXCEPT ![c].pc = "load", ![c].tries = @ + 1]
            /\ UNCHANGED inflight
       ELSE Settle(c, "failed")
    /\ UNCHANGED <<prs, row, audit>>

AuditRecord_Mutant(c) ==
    IF call[c].created
    THEN {[kind |-> "pr.create", run |-> RunOf(c), head |-> call[c].head,
           number |-> call[c].number]}
    ELSE {}

AuditRecord(c) ==
    {[kind |-> IF call[c].created THEN "pr.create" ELSE "pr.reused",
      run |-> RunOf(c), head |-> call[c].head, number |-> call[c].number]}

AppendAudit(c) ==
    /\ At(c, "append")
    /\ audit' = audit \union AuditRecord(c)
    /\ Settle(c, "answered")
    /\ UNCHANGED <<prs, row>>

Step(c) ==
    \/ Throw(c)
    \/ ListAgain(c)
    \/ ListFinds(c)
    \/ ListFindsNone(c)
    \/ CheckNumber(c)
    \/ CreatePr(c)
    \/ LoadRow(c)
    \/ UpdateRow(c)
    \/ UpdateAgain(c)
    \/ AppendAudit(c)

(* Another module updates the row. *)
TouchRow(r) ==
    /\ row[r].version < MaxVersion
    /\ row' = [row EXCEPT ![r].version = @ + 1]
    /\ UNCHANGED <<call, inflight, prs, audit>>

(* The process dies, and a new one starts with an empty in-flight map. *)
Crash ==
    /\ \E r \in Runs : inflight[r] # None
    /\ call' = [c \in Calls |->
                  IF call[c].pc \in Finished \union {"new"} THEN call[c]
                  ELSE Leave(c, "lost")]
    /\ inflight' = [r \in Runs |-> None]
    /\ UNCHANGED <<prs, row, audit>>

PullNext ==
    \/ \E c \in Calls, r \in Runs, h \in Heads : Invoke(c, r, h)
    \/ \E c \in Calls : Step(c)
    \/ \E r \in Runs : TouchRow(r)
    \/ Crash

PullSpec == PullInit /\ [][PullNext]_pullVars

(* The awaited calls settle. *)
PullFairSpec == PullSpec /\ \A c \in Calls : WF_pullVars(Step(c))

-----------------------------------------------------------------------------

(* "At most one open PR per (runId, headSha)": neither concurrent calls nor *)
(* calls repeated after an error, a lost answer or a crash open a second.   *)
OnePrPerHead ==
    \A p, q \in prs : p.run = q.run /\ p.head = q.head => p = q

(* "prNumber is persisted onto the workflow_run row", "Performs optimistic  *)
(* update with retry so a stale version doesn't lose the prNumber": when a  *)
(* call is answered the row holds the number it is answered with, however   *)
(* the other modules and earlier calls have updated the row.  It follows    *)
(* from ImplementsRegistry below, which TLC checks, and is proved by itself. *)
AnswerIsStored ==
    [][\A c \in Calls :
         ~At(c, "answered") /\ At(c, "answered")' =>
            row'[RunOf(c)].number = call'[c].number]_pullVars

(* "Audit chain is extended on every create (and on every reuse ...)": a    *)
(* pull request that was handed out is in the chain, also when the call     *)
(* that created it died before its record.                                  *)
AnswersAreAudited ==
    \A c \in Calls :
        At(c, "answered") =>
            \E rec \in audit : rec.run = RunOf(c) /\ rec.number = call[c].number

(* The promise of PrRegistry: what callers see of all this.                 *)
Registry == INSTANCE PrRegistry
            WITH opened <- prs,
                 registered <- [r \in Runs |-> row[r].number],
                 asked <- [c \in Calls |-> RunOf(c)],
                 answer <- [c \in Calls |-> IF At(c, "answered") THEN call[c].number ELSE None]

(* pr-service.ts: calls that overlap, join, fail, repeat or die with the    *)
(* process are seen by their callers as one registry: a head is opened once *)
(* and under its own number, a row only ever names a pull request of its    *)
(* run that is open by then, and an answer is what the caller's run is      *)
(* registered under when it is given, and stays so.                         *)
ImplementsRegistry == Registry!RegistrySpec

(* Nobody waits for ever, in particular no call that joined another. *)
CallsSettle == \A c \in Calls : ~At(c, "new") ~> call[c].pc \in Finished

(* createPr(): "the first one creates, the second one observes the new PR   *)
(* via listOpenPrsForRun and reuses", per (runId, headSha).  A call is      *)
(* answered with a pull request of the head it asked for.  The code does    *)
(* not keep it.                                                             *)
AnswerIsForItsHead ==
    \A c \in Calls :
        At(c, "answered") =>
            \E p \in prs : p.number = call[c].number /\ p.head = call[c].head

=============================================================================
