------------------------------ MODULE Worktrees ------------------------------
(***************************************************************************)
(* The tasks of a plan, each in an overlay of its own over one read-only   *)
(* base: what an agent writes passes PathWritePolicy into its WriteOverlay, *)
(* runDevTask dispatches the tasks and reports, TaskMergeController joins  *)
(* what they produced, and the joined patch is applied to a clean checkout *)
(* (detectConflicts, validatePatch, applyToCleanCheckout).                 *)
(*                                                                         *)
(* A path is the sequence of its segments, the workspace's root one of     *)
(* them; a pattern is a path and the form it is written in:                *)
(*   any     "**"            tree    "d/e/**"                              *)
(*   plain   "d/e"           stem    "d/e**"         slash   "d/e/"        *)
(* runDevTask's caller, which hands on what it reports, is external.       *)
(***************************************************************************)
EXTENDS SequencesExt

CONSTANTS
    TaskOrder,      \* the tasks in the order they are dispatched and merged
    Stems,          \* <<s, segment>>: the segment's name begins with s
    Allowed,        \* [tasks -> sets of patterns]: allowedPaths
    Forbidden,      \* [tasks -> sets of patterns]: forbiddenPaths
    Proposals,      \* the absolute paths agents try to write to
    Contents,       \* what they write
    BaseFiles,      \* [files of the base -> contents]
    MaxWrites       \* bound: writes and deletions an agent tries per task

Tasks == {TaskOrder[i] : i \in DOMAIN TaskOrder}

(* Task ids are unique within a plan: its validation refuses others. *)
ASSUME WorktreeAssumption ==
    TaskOrder \in Seq(Tasks) /\ IsInjective(TaskOrder) /\ MaxWrites \in Nat

WorkspaceRoot == <<"ws">>

VARIABLES
    dispatched,     \* how many tasks have been dispatched
    development,    \* where runDevTask and its caller are
    overlay,        \* per task: [paths -> entries]
    denied,         \* per task: the proposals that were refused
    writes,         \* what the running task's agent tried so far
    results,        \* the aggregator: results in dispatch order
    devAudit,       \* dev.failed and fix.requested records
    merged,         \* the outcome of the merge, once there is one
    checkout        \* contents after the patch was applied, or the base

worktreeVars == <<dispatched, development, overlay, denied, writes, results, devAudit,
                  merged, checkout>>

Deletion == [deleted |-> TRUE, contents |-> ""]
Write(contents) == [deleted |-> FALSE, contents |-> contents]

WorktreeInit ==
    /\ dispatched = 0 /\ development = "dispatch"
    /\ overlay = [t \in Tasks |-> <<>>]
    /\ denied = [t \in Tasks |-> {}]
    /\ writes = 0 /\ results = <<>> /\ devAudit = {} /\ merged = <<>>
    /\ checkout = BaseFiles

-----------------------------------------------------------------------------

(* normalizePath of an absolute path. *)
NormalizePath(path) ==
    FoldLeft(LAMBDA out, part :
               IF part \in {"", "."} THEN out
               ELSE IF part # ".." THEN Append(out, part)
               ELSE IF out = <<>> THEN out ELSE Front(out),
             <<>>, path)

HasTraversal(path) == Contains(path, "..")

(* matchesGlob and validatePatch's matchesAny, on a normalized path.  A     *)
(* stem is compared as a string; a pattern that ends in a slash matches     *)
(* nothing, because no normalized path ends in one or has two in a row.     *)
MatchesGlob(rel, pattern) ==
    \/ pattern.form = "any"
    \/ pattern.form \in {"tree", "plain"} /\ IsPrefix(pattern.path, rel)
    \/ /\ pattern.form = "stem"
       /\ Len(pattern.path) <= Len(rel)
       /\ IsPrefix(Front(pattern.path), rel)
       /\ <<Last(pattern.path), rel[Len(pattern.path)]>> \in Stems

InWorkspace(path) == IsPrefix(WorkspaceRoot, path) /\ path # WorkspaceRoot
Relative(path) == IF InWorkspace(path) THEN Tail(path) ELSE path

(* PathWritePolicy.isAllowed, as the overlay calls it: without a symlink.   *)
IsAllowed(path, allowed, forbidden) ==
    LET normalized == NormalizePath(path)
    IN  /\ InWorkspace(normalized)
        /\ ~HasTraversal(path)
        /\ \E p \in allowed : MatchesGlob(Relative(normalized), p)
        /\ ~ \E p \in forbidden : MatchesGlob(Relative(normalized), p)

(* f with path mapped to entry, as Map.set does. *)
Set(f, path, entry) ==
    [p \in DOMAIN f \union {path} |-> IF p = path THEN entry ELSE f[p]]

Running == TaskOrder[dispatched]

Dispatch ==
    /\ development = "dispatch"
    /\ dispatched < Len(TaskOrder)
    /\ dispatched' = dispatched + 1
    /\ development' = "running"
    /\ writes' = 0
    /\ UNCHANGED <<overlay, denied, results, devAudit, merged, checkout>>

(* WriteOverlay.write and delete: a later entry for a path replaces it.     *)
AgentWrites ==
    /\ development = "running"
    /\ writes < MaxWrites
    /\ writes' = writes + 1
    /\ \E path \in Proposals, entry \in {Write(c) : c \in Contents} \union {Deletion} :
         IF IsAllowed(path, Allowed[Running], Forbidden[Running])
         THEN /\ overlay' = [overlay EXCEPT
                               ![Running] = Set(@, Relative(NormalizePath(path)), entry)]
              /\ UNCHANGED denied
         ELSE /\ denied' = [denied EXCEPT ![Running] = @ \union {path}]
              /\ UNCHANGED overlay
    /\ UNCHANGED <<dispatched, development, results, devAudit, merged, checkout>>

(* A failed task returns no entries; tests that ran and failed make it      *)
(* recoverable.                                                             *)
TaskReturns ==
    /\ development = "running"
    /\ development' = "dispatch"
    /\ \E status \in {"completed", "failed"}, testsFailed \in BOOLEAN :
         results' = Append(results,
             [task |-> Running, status |-> status, testsFailed |-> testsFailed,
              entries |-> IF status = "completed" THEN overlay[Running] ELSE <<>>])
    /\ UNCHANGED <<dispatched, overlay, denied, writes, devAudit, merged, checkout>>

(* dispatch or the audit chain throws, and runDevTask with it. *)
DevelopmentThrows ==
    /\ \/ development = "running"
       \/ development = "dispatch" /\ dispatched = Len(TaskOrder)
          /\ \E i \in DOMAIN results : results[i].status = "failed"
    /\ development' = "thrown"
    /\ UNCHANGED <<dispatched, overlay, denied, writes, results, devAudit, merged, checkout>>

Failures(returned) == {returned[i] : i \in {j \in DOMAIN returned : returned[j].status = "failed"}}

Report ==
    /\ development = "dispatch"
    /\ dispatched = Len(TaskOrder)
    /\ LET failed == Failures(results)
           kind == IF \E r \in failed : r.testsFailed THEN "fix.requested" ELSE "dev.failed"
       IN IF failed = {}
          THEN development' = "completed" /\ UNCHANGED devAudit
          ELSE /\ development' = kind
               /\ devAudit' = devAudit \union {[kind |-> kind, tasks |-> {r.task : r \in failed}]}
    /\ UNCHANGED <<dispatched, overlay, denied, writes, results, merged, checkout>>

-----------------------------------------------------------------------------

(* The results that touch a path. *)
Writers(returned, path) == {i \in DOMAIN returned : path \in DOMAIN returned[i].entries}
Touched(returned) == UNION {DOMAIN returned[i].entries : i \in DOMAIN returned}

(* detectConflicts: a path is safe when its writers left the same entry.    *)
SafePaths_Mutant(returned) ==
    {p \in Touched(returned) :
        \A i, j \in Writers(returned, p) :
            returned[i].entries[p].deleted = returned[j].entries[p].deleted}

SafePaths(returned) ==
    {p \in Touched(returned) :
        \A i, j \in Writers(returned, p) : returned[i].entries[p] = returned[j].entries[p]}

ConflictKind(entries) ==
    IF \A e \in entries : e.deleted THEN "delete_delete"
    ELSE IF \E e \in entries : e.deleted THEN "delete_modify"
    ELSE "modify_modify"

Conflicts(returned) ==
    {[path |-> p, tasks |-> {returned[i].task : i \in Writers(returned, p)},
      kind |-> ConflictKind({returned[i].entries[p] : i \in Writers(returned, p)})] :
        p \in Touched(returned) \ SafePaths(returned)}

(* TaskMergeController.merge: the tasks in order, safe paths only, whatever *)
(* became of the tasks.                                                     *)
MergedEntries(returned) ==
    [p \in SafePaths(returned) |->
        LET last == CHOOSE i \in Writers(returned, p) :
                       \A j \in Writers(returned, p) : j <= i
        IN returned[last].entries[p]]

Merge ==
    /\ development \in {"completed", "fix.requested"}
    /\ merged = <<>>
    /\ merged' = <<[state |-> IF Conflicts(results) = {} THEN "clean" ELSE "CONFLICTED",
                    conflicts |-> Conflicts(results),
                    entries |-> MergedEntries(results)]>>
    /\ UNCHANGED <<dispatched, development, overlay, denied, writes, results, devAudit, checkout>>

(* validatePatch over the plan's lists (DevHandoff). *)
ValidatePatch(entries) ==
    \A file \in DOMAIN entries :
        /\ \E t \in Tasks : \E p \in Allowed[t] : MatchesGlob(file, p)
        /\ ~ \E t \in Tasks : \E p \in Forbidden[t] : MatchesGlob(file, p)

Apply ==
    /\ merged # <<>>
    /\ development \in {"completed", "fix.requested"}
    /\ development' = IF ValidatePatch(merged[1].entries) THEN "applied" ELSE "rejected"
    /\ LET entries == merged[1].entries
           kept == {p \in DOMAIN checkout \union DOMAIN entries :
                       p \in DOMAIN entries => ~entries[p].deleted}
       IN checkout' = IF ~ValidatePatch(entries) THEN checkout
                      ELSE [p \in kept |-> IF p \in DOMAIN entries THEN entries[p].contents
                                           ELSE checkout[p]]
    /\ UNCHANGED <<dispatched, overlay, denied, writes, results, devAudit, merged>>

WorktreeNext ==
    Dispatch \/ AgentWrites \/ TaskReturns \/ DevelopmentThrows \/ Report \/ Merge \/ Apply

WorktreeSpec == WorktreeInit /\ [][WorktreeNext]_worktreeVars

-----------------------------------------------------------------------------

Entries == {Write(c) : c \in Contents} \union {Deletion}

WorktreeTypeOK ==
    /\ dispatched \in 0 .. Len(TaskOrder)
    /\ development \in {"dispatch", "running", "thrown", "completed", "fix.requested",
                        "dev.failed", "applied", "rejected"}
    /\ \A t \in Tasks : /\ \A p \in DOMAIN overlay[t] : overlay[t][p] \in Entries
                        /\ denied[t] \subseteq Proposals
    /\ Len(results) <= dispatched /\ Len(merged) <= 1 /\ writes \in 0 .. MaxWrites

(* conflict-resolver.ts, task-merge-controller.ts: what was applied holds,  *)
(* of every file, what each completed task that touched it left there, or   *)
(* -- where they disagree -- the base, the dispute being on record with all *)
(* its tasks; no file that its writer's patterns, as matchesGlob reads      *)
(* them, do not take has changed.                                           *)
NoWorkLostOrSmuggled ==
    development = "applied" =>
        LET Is(file, entry) ==
                IF entry.deleted THEN file \notin DOMAIN checkout
                ELSE file \in DOMAIN checkout /\ checkout[file] = entry.contents
            Same(file) == \/ file \notin DOMAIN checkout \union DOMAIN BaseFiles
                          \/ file \in DOMAIN checkout \intersect DOMAIN BaseFiles
                             /\ checkout[file] = BaseFiles[file]
            Wrote(t, file) == \E i \in DOMAIN results :
                                 results[i].task = t /\ file \in DOMAIN results[i].entries
        IN  \A file \in DOMAIN checkout \union DOMAIN BaseFiles \union UNION {DOMAIN overlay[t] : t \in Tasks} :
                \/ \E t \in Tasks : Wrote(t, file)
                   /\ \A u \in Tasks : Wrote(u, file) =>
                        /\ Is(file, overlay[u][file])
                        /\ \E p \in Allowed[u] : MatchesGlob(file, p)
                        /\ \A p \in Forbidden[u] : ~MatchesGlob(file, p)
                \/ Same(file)
                   /\ \A u \in Tasks : Wrote(u, file) =>
                        \E c \in merged[1].conflicts : c.path = file /\ u \in c.tasks

(* path-write-policy.ts, header: the policy rejects "Any path that lands    *)
(* inside forbiddenPaths", and the planning prompt, "paths it must NOT      *)
(* touch (enforced by FS sandbox)", writes one as "src/auth/".  What was    *)
(* applied holds no change a task made at or below a path it is forbidden.  *)
(* The code does not keep it.                                               *)
ForbiddenPathsAreKept ==
    development = "applied" =>
        \A i \in DOMAIN results : \A file \in DOMAIN results[i].entries :
            \A p \in Forbidden[results[i].task] :
                p.form \in {"tree", "plain", "slash"} /\ IsPrefix(p.path, file)
                    => \E c \in merged[1].conflicts : c.path = file

=============================================================================
