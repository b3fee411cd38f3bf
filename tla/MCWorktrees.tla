---------------------------- MODULE MCWorktrees ----------------------------
(* Worktrees on a small instance: two tasks that share a directory.  Either *)
(* both are forbidden a part of it, one as a tree and one in the form the   *)
(* planning prompt shows, or only the second is, in that form.              *)
EXTENDS Worktrees

MCTaskOrder == <<"t1", "t2">>

Pattern(form, path) == [form |-> form, path |-> path]

MCStems == {<<"s", "src">>}
MCAllowed ==
    [t1 |-> {Pattern("tree", <<"src">>)},
     t2 |-> {Pattern("stem", <<"s">>), Pattern("plain", <<"doc">>)}]
MCForbidden ==
    [t1 |-> {Pattern("tree", <<"src", "auth">>)},
     t2 |-> {Pattern("slash", <<"src", "auth">>)}]
MCForbiddenAsPrompted == [MCForbidden EXCEPT !.t1 = {}]

MCProposals ==
    {<<"ws", "src", "a">>, <<"ws", "src", "auth">>, <<"ws", "src", "..", "..", "etc">>}
MCBaseFiles == [p \in {<<"src", "a">>} |-> "old"]

=============================================================================
