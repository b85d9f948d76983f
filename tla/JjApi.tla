------------------------------- MODULE JjApi -------------------------------
(***************************************************************************)
(* crates/jj_api: what each call reads from and writes to a jj repository. *)
(* Every call loads the repository at its head operation, and a writing    *)
(* call publishes a transaction on the view it loaded; jj merges it with   *)
(* whatever other processes published meanwhile.                           *)
(*                                                                         *)
(* A commit is its history: the sequence of <<author, version>> labels     *)
(* from the root.  Version 0 is an empty commit; rewriting a commit        *)
(* replaces its last label.  A ref target is a set: {} absent, a singleton *)
(* normal, anything larger conflicted.  A view is                          *)
(*   [main, branch, tracked : ref targets, wc : workspace -> ref target].  *)
(***************************************************************************)
EXTENDS Integers, Sequences, FiniteSets, SequencesExt

Root == <<>>

Absent == {}
Normal(c) == {c}
IsNormal(t) == Cardinality(t) = 1
as_normal(t) == CHOOSE c \in t : TRUE

\* evaluate_revset, of the symbols the orchestrator passes: <<"bookmark", name>>
\* and <<"workspace", name>> (`name@`).
evaluate_revset(v, symbol) ==
    IF symbol[1] = "workspace" THEN v.wc[symbol[2]] ELSE v[symbol[2]]

\* resolve_single: exactly one commit, or an error, here {}.
resolve_single(v, symbol) ==
    IF IsNormal(evaluate_revset(v, symbol)) THEN evaluate_revset(v, symbol) ELSE {}

\* revset::is_ancestor: inclusive ancestry of two resolved commits.
is_ancestor(a, d) == IsPrefix(a, d)

\* diff: two trees differ when their histories carry different content.
HasContent(label) == label[2] > 0
Tree(c) == SelectSeq(c, HasContent)
differs(a, b) == Tree(a) # Tree(b)

\* External (jj-lib): three-way merge of one ref.  Two targets of which one
\* descends from the other become the descendant, others a conflict.
MergeTargets(base, ours, theirs) ==
    CASE ours = base -> theirs
      [] theirs = base -> ours
      [] OTHER -> LET both == ours \cup theirs
                  IN  {c \in both : \A d \in both \ {c} : ~is_ancestor(c, d)}

\* External (jj-lib): load_at_head merges the operations published
\* concurrently; repo_at_head sees the result.
MergeViews(base, ours, theirs) ==
    [main    |-> MergeTargets(base.main, ours.main, theirs.main),
     branch  |-> MergeTargets(base.branch, ours.branch, theirs.branch),
     tracked |-> MergeTargets(base.tracked, ours.tracked, theirs.tracked),
     wc      |-> [n \in DOMAIN base.wc |->
                    MergeTargets(base.wc[n], ours.wc[n], theirs.wc[n])]]

\* workspace_add, first transaction: the workspace is registered on the root.
init_workspace(v, n) == [v EXCEPT !.wc[n] = Normal(Root)]

\* workspace_add, second transaction: an empty commit on the base.
add_initial_commit(v, n, base) ==
    [v EXCEPT !.wc[n] = Normal(Append(base, <<n, 0>>))]

\* workspace_forget: the working-copy commit leaves the view.
workspace_forget(v, n) == [v EXCEPT !.wc[n] = Absent]

\* workspace_list.
workspace_list(v) == {n \in DOMAIN v.wc : v.wc[n] # Absent}

\* Rewriting the working-copy commit of n onto the tree its files have.
Rewritten(c, n, files) == Append(Front(c), <<n, files>>)

\* snapshot_working_copy: rewrite it when the tracked files on disk differ from
\* the recorded tree, else publish nothing.  Its start-tracking matcher is the
\* NothingMatcher: a new file stays out, where the jj CLI would begin to track it.
snapshot_working_copy(v, n, files) ==
    [v EXCEPT !.wc[n] = Normal(Rewritten(as_normal(@), n, files))]

\* rebase: the commit is rewritten onto the destination; working copies on
\* it follow.
rebased(c, dest) == Append(dest, Last(c))
rebase(v, c, dest) ==
    [v EXCEPT !.wc = [n \in DOMAIN @ |->
        IF @[n] = Normal(c) THEN Normal(rebased(c, dest)) ELSE @[n]]]

\* bookmark_create and bookmark_move.
bookmark_set(v, name, c) == [v EXCEPT ![name] = Normal(c)]

\* bookmark_forget: the local pointer only.
bookmark_forget(v, name) == [v EXCEPT ![name] = Absent]

\* External (git): a push with a lease.  A ref already at the target is up to
\* date; otherwise the remote must be where the lease says.
PushAccepted(origin, lease, target) == origin = Normal(target) \/ origin = lease
=============================================================================
