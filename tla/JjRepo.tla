------------------------------- MODULE JjRepo -------------------------------
(***************************************************************************)
(* One issue's use of the .jj repository, which the orchestrator shares    *)
(* with every other jj process: the WorkspaceManager (workspace.rs) runs   *)
(* rounds of workers over jj_api calls -- prepare, read back, land on main *)
(* or push, forget -- while workers in their sandboxes and people in the   *)
(* default workspace publish operations of their own.  The manager's gate  *)
(* is a mutex of one process: it orders the orchestrator's calls and       *)
(* nobody else's.                                                          *)
(***************************************************************************)
EXTENDS JjApi

CONSTANTS
    MaxNames,       \* bound: workspaces prepared (names carry fresh uuids)
    MaxEdits,       \* bound: edits a worker makes in its workspace
    MaxMoves,       \* bound: times somebody else advances main
    MaxPushes,      \* bound: times somebody else pushes to the branch
    MaxFaults,      \* bound: jj calls that fail
    MaxCrashes      \* bound: deaths of the orchestrator

ASSUME JjBounds == {MaxNames, MaxEdits, MaxMoves, MaxPushes, MaxFaults,
                    MaxCrashes} \subseteq Nat

VARIABLES
    view,       \* the repository's view at the head operation
    origin,     \* the branch on the git remote, a ref target
    dirs,       \* workspaces whose directory exists
    files,      \* workspace -> edits in its tracked files
    untracked,  \* workspace -> files created in it that jj does not track yet
    op,         \* the orchestrator's control state and locals
    remote,     \* landing mode: tracker_remote is set
    used,       \* names generated
    faults, crashes,
    \* history
    published,  \* commits main has pointed at
    foreign,    \* commits somebody else pushed to the branch
    judged,     \* workspace -> what it held when static QA passed
    marks       \* what happened: "raced", "rejected", "unsnapped", "partial"

repoVars == <<view, origin>>
history  == <<published, foreign, judged>>
vars == <<view, origin, dirs, files, untracked, op, remote, used, faults, crashes,
          published, foreign, judged, marks>>

Names == 1..MaxNames
People == 0

EmptyView == [main |-> Normal(Root), branch |-> Absent, tracked |-> Absent,
              wc |-> [n \in Names |-> Absent]]

\* base, next: the open transaction; change: the commit in hand; then: where
\* the transaction or the cleanup returns to.
Idle == [pc |-> "idle", role |-> "implementer", name |-> 0, change |-> Root,
         base |-> EmptyView, next |-> EmptyView, then |-> "idle",
         after |-> "idle"]

\* The issue is terminal.
Ended == [Idle EXCEPT !.pc = "ended"]

Init ==
    /\ view = EmptyView /\ origin = Absent
    /\ dirs = {}
    /\ files = [n \in Names |-> 0] /\ untracked = [n \in Names |-> 0]
    /\ op = Idle
    /\ remote \in BOOLEAN
    /\ used = 0 /\ faults = 0 /\ crashes = 0
    /\ published = {Root} /\ foreign = {}
    /\ judged = [n \in Names |-> [tracked |-> 0, new |-> 0]]
    /\ marks = {}

At(pc) == op.pc = pc
Goto(pc) == op' = [op EXCEPT !.pc = pc]
Transact(base, next, then) ==
    op' = [op EXCEPT !.pc = "publish", !.base = base, !.next = next, !.then = then]

Quiet == UNCHANGED <<remote, used, faults, crashes>>
OnDisk == UNCHANGED <<dirs, files, untracked>>

\* The directory goes, and the files in it.
RemoveFiles(n) ==
    /\ dirs' = dirs \ {n}
    /\ files' = [files EXCEPT ![n] = 0]
    /\ untracked' = [untracked EXCEPT ![n] = 0]

\* tx.commit: published on the loaded view, merged with what others did.
Publish ==
    /\ At("publish")
    /\ view' = MergeViews(op.base, op.next, view)
    /\ published' = published \cup view'.main
    /\ Goto(op.then)
    /\ UNCHANGED <<origin, foreign, judged, marks>> /\ OnDisk /\ Quiet

----------------------------------------------------------------------------
(* prepare and forget *)

\* prepare with a freshly generated name; a Merger's base is the commit in
\* hand, an Implementer's is main.
Prepare(role) ==
    /\ used < MaxNames
    /\ used' = used + 1
    /\ op' = [op EXCEPT !.pc = "cleanup", !.role = role, !.name = used + 1,
                        !.after = "add"]
    /\ UNCHANGED <<repoVars, history, marks, remote, faults, crashes>> /\ OnDisk

PrepareImplementer == At("idle") /\ Prepare("implementer")
PrepareMerger == At("conflict") /\ Prepare("merger")

\* cleanup: forget the workspace only when it is registered...
Cleanup ==
    /\ At("cleanup")
    /\ IF op.name \in workspace_list(view)
         THEN Transact(view, workspace_forget(view, op.name), "rmdir")
         ELSE Goto("rmdir")
    /\ UNCHANGED <<repoVars, history, marks>> /\ OnDisk /\ Quiet

\* ... then remove its directory, an absent one included.
RemoveDir ==
    /\ At("rmdir")
    /\ RemoveFiles(op.name)
    /\ Goto(op.after)
    /\ UNCHANGED <<repoVars, history, marks>> /\ Quiet

\* workspace_add: resolve the base (a conflicted main does not resolve), make
\* the directory, register the workspace.
WorkspaceAdd ==
    /\ At("add")
    /\ IF op.role = "implementer" /\ resolve_single(view, <<"bookmark", "main">>) = {}
         THEN Goto("add_failed") /\ UNCHANGED dirs
         ELSE /\ dirs' = dirs \cup {op.name}
              /\ op' = [op EXCEPT
                    !.pc = "publish", !.then = "add_commit",
                    !.base = view, !.next = init_workspace(view, op.name),
                    !.change = IF op.role = "implementer"
                                 THEN as_normal(view.main) ELSE @]
    /\ UNCHANGED <<repoVars, history, marks, files, untracked>> /\ Quiet

\* workspace_add: an empty commit on the base, on the operation just written.
AddCommit ==
    /\ At("add_commit")
    /\ Transact(op.next, add_initial_commit(op.next, op.name, op.change), "check_out")
    /\ UNCHANGED <<repoVars, history, marks>> /\ OnDisk /\ Quiet

\* workspace_add: the files; then the worker is registered and spawned.
CheckOut ==
    /\ At("check_out")
    /\ files' = [files EXCEPT ![op.name] = 0]
    /\ untracked' = [untracked EXCEPT ![op.name] = 0]
    /\ Goto("work")
    /\ UNCHANGED <<repoVars, history, marks, dirs>> /\ Quiet

InCreate == \/ op.pc \in {"add", "add_commit", "check_out"}
            \/ At("publish") /\ op.then \in {"add_commit", "check_out"}

\* A jj call of workspace_add fails.
AddFails ==
    /\ InCreate /\ faults < MaxFaults
    /\ faults' = faults + 1
    /\ Goto("add_failed")
    /\ UNCHANGED <<repoVars, history, marks, remote, used, crashes>> /\ OnDisk

\* prepare: a failed create removes the directory and nothing else.
UndoAdd ==
    /\ At("add_failed")
    /\ RemoveFiles(op.name)
    /\ marks' = marks \cup (IF op.name \in workspace_list(view) THEN {"partial"} ELSE {})
    /\ op' = Ended
    /\ UNCHANGED <<repoVars, history>> /\ Quiet

----------------------------------------------------------------------------
(* the worker, and reading its work back *)

\* External: the worker edits files of its workspace, or creates some.
WorkerEdits ==
    /\ At("work") /\ files[op.name] + untracked[op.name] < MaxEdits
    /\ \/ files' = [files EXCEPT ![op.name] = @ + 1] /\ untracked' = untracked
       \/ untracked' = [untracked EXCEPT ![op.name] = @ + 1] /\ files' = files
    /\ UNCHANGED <<repoVars, op, history, marks, dirs>> /\ Quiet

\* External: the worker runs a jj verb, which snapshots its workspace and
\* tracks what is new in it.
WorkerJj ==
    /\ At("work")
    /\ op.name \in workspace_list(view)
    /\ files' = [files EXCEPT ![op.name] = @ + untracked[op.name]]
    /\ untracked' = [untracked EXCEPT ![op.name] = 0]
    /\ view' = snapshot_working_copy(view, op.name, files'[op.name])
    /\ UNCHANGED <<origin, op, history, marks, dirs>> /\ Quiet

\* The worker ends with a valid DONE.  Only a Merger's workspace is snapshotted.
WorkerEnds ==
    /\ At("work")
    /\ Goto(IF op.role = "merger" THEN "snapshot" ELSE "read_back")
    /\ UNCHANGED <<repoVars, history, marks>> /\ OnDisk /\ Quiet

\* Mutant: the Merger is trusted to have run a snapshotting verb.
TrustMerger ==
    /\ At("snapshot") /\ Goto("read_back")
    /\ UNCHANGED <<repoVars, history, marks, faults>> /\ OnDisk
    /\ UNCHANGED <<remote, used, crashes>>

\* snapshot_workspace, best effort: a failure is dropped.
SnapshotWorkspace ==
    /\ At("snapshot")
    /\ \/ /\ Transact(view, snapshot_working_copy(view, op.name, files[op.name]),
                      "read_back")
          /\ UNCHANGED <<faults, marks>>
       \/ /\ faults < MaxFaults /\ faults' = faults + 1
          /\ marks' = marks \cup {"unsnapped"}
          /\ Goto("read_back")
    /\ UNCHANGED <<repoVars, history, remote, used, crashes>> /\ OnDisk

\* change_revset and its check: an Implementer's change must differ from main
\* as it is now, a Merger's must be free of conflicts (here: carry an edit).
ReadBack ==
    /\ At("read_back")
    /\ LET change == as_normal(resolve_single(view, <<"workspace", op.name>>))
           main == resolve_single(view, <<"bookmark", "main">>)
           good == IF op.role = "merger" THEN HasContent(Last(change))
                   ELSE main # {} /\ differs(as_normal(main), change)
       IN  op' = IF good THEN [op EXCEPT !.pc = "qa", !.change = change]
                         ELSE [op EXCEPT !.pc = "cleanup", !.after = "ended"]
    /\ UNCHANGED <<repoVars, history, marks>> /\ OnDisk /\ Quiet

\* Static QA runs in the workspace's directory.  The Implementer's workspace
\* is forgotten before the review (the commit stays in hand) and on a failure,
\* which requeues the issue; a failure after a merge parks it.
Qa ==
    /\ At("qa")
    /\ \/ /\ op' = [op EXCEPT !.pc = "cleanup",
                          !.after = IF op.role = "merger" THEN "ended" ELSE "idle"]
          /\ UNCHANGED judged
       \/ /\ judged' = [judged EXCEPT ![op.name] =
                          [tracked |-> files[op.name], new |-> untracked[op.name]]]
          /\ op' = IF op.role = "merger" THEN [op EXCEPT !.pc = "move"]
                   ELSE [op EXCEPT !.pc = "cleanup",
                                   !.after = IF remote THEN "point" ELSE "rebase"]
    /\ UNCHANGED <<repoVars, published, foreign, marks>> /\ OnDisk /\ Quiet

----------------------------------------------------------------------------
(* landing on main *)

\* Back to the pump: a Merger's workspace is forgotten last.
Leave == IF op.role = "merger" THEN [op EXCEPT !.pc = "cleanup", !.after = "ended"]
         ELSE Ended

\* rebase_step: a change already on top of main lands as it is, another one
\* is rebased; the rebase may leave a conflict for the Merger.
RebaseStep ==
    /\ At("rebase")
    /\ IF resolve_single(view, <<"bookmark", "main">>) = {} THEN op' = Leave
       ELSE LET main == as_normal(view.main)
            IN  IF is_ancestor(main, op.change) THEN Goto("move")
                ELSE \E next \in {"move", "conflict"} :
                       op' = [op EXCEPT !.pc = "publish", !.then = next,
                                 !.base = view, !.next = rebase(view, op.change, main),
                                 !.change = rebased(op.change, main)]
    /\ UNCHANGED <<repoVars, history, marks>> /\ OnDisk /\ Quiet

\* Mutant: the move is not checked for being a fast-forward.
MoveAnywhere ==
    /\ At("move")
    /\ Goto("move_load")
    /\ UNCHANGED <<repoVars, history, marks>> /\ OnDisk /\ Quiet

\* move_step and fast_forward_bookmark: read main, refuse a conflicted one
\* and one that is not an ancestor; a main already there is landed.
FastForwardCheck ==
    /\ At("move")
    /\ op' = IF ~IsNormal(view.main) \/ view.main = Normal(op.change)
                  \/ ~is_ancestor(as_normal(view.main), op.change)
               THEN Leave
               ELSE [op EXCEPT !.pc = "move_load"]
    /\ UNCHANGED <<repoVars, history, marks>> /\ OnDisk /\ Quiet

\* fast_forward_bookmark: bookmark_move loads the repository again.
BookmarkMove ==
    /\ At("move_load")
    /\ Transact(view, bookmark_set(view, "main", op.change), "landed")
    /\ UNCHANGED <<repoVars, history, marks>> /\ OnDisk /\ Quiet

\* Gone with the merged phase.
Landed ==
    /\ At("landed")
    /\ op' = Leave
    /\ UNCHANGED <<repoVars, history, marks>> /\ OnDisk /\ Quiet

----------------------------------------------------------------------------
(* landing as a pull request *)

\* point_bookmark: create the branch or move it.
PointBookmark ==
    /\ At("point")
    /\ Transact(view, bookmark_set(view, "branch", op.change), "push")
    /\ UNCHANGED <<repoVars, history, marks>> /\ OnDisk /\ Quiet

\* Mutant: the push carries no lease.
PushByForce ==
    /\ At("push")
    /\ IsNormal(view.branch)
    /\ origin' = view.branch
    /\ Transact(view, [view EXCEPT !.tracked = view.branch], "pr")
    /\ UNCHANGED <<view, history, marks>> /\ OnDisk /\ Quiet

\* git_push: the lease is the tracked position; the new position is recorded
\* after git has pushed.  A rejected push changes nothing.
GitPush ==
    /\ At("push")
    /\ IsNormal(view.branch)
    /\ LET target == as_normal(view.branch)
       IN  IF PushAccepted(origin, view.tracked, target)
             THEN /\ origin' = Normal(target)
                  /\ Transact(view, [view EXCEPT !.tracked = Normal(target)], "pr")
                  /\ UNCHANGED marks
             ELSE /\ op' = Leave
                  /\ marks' = marks \cup {"rejected"}
                  /\ UNCHANGED origin
    /\ UNCHANGED <<view, history>> /\ OnDisk /\ Quiet

\* complete_pr_open: the local branch is forgotten.
ForgetBookmark ==
    /\ At("pr")
    /\ Transact(view, bookmark_forget(view, "branch"), "landed")
    /\ UNCHANGED <<repoVars, history, marks>> /\ OnDisk /\ Quiet

----------------------------------------------------------------------------
(* crashes and everybody else *)

\* The orchestrator dies; an open transaction is never published.
Crash ==
    /\ op.pc \notin {"idle", "ended", "restart"} /\ crashes < MaxCrashes
    /\ crashes' = crashes + 1
    /\ marks' = marks \cup (IF InCreate \/ At("rmdir") THEN {"partial"} ELSE {})
    /\ op' = [op EXCEPT !.pc = "restart",
                        !.then = IF At("publish") THEN op.then ELSE op.pc]
    /\ UNCHANGED <<repoVars, history, remote, used, faults>> /\ OnDisk

\* Mutant: the resumed push starts from a rebase of the branch.
ResumeRebased ==
    /\ At("restart")
    /\ op.then \in {"point", "push", "pr"} /\ IsNormal(view.branch)
    /\ op' = [Idle EXCEPT !.pc = "point",
                !.change = rebased(as_normal(view.branch), as_normal(view.main))]
    /\ UNCHANGED <<repoVars, history, marks>> /\ OnDisk /\ Quiet

\* Recovery at push_started: the branch itself is the change.
ResumePush ==
    /\ At("restart")
    /\ op.then \in {"point", "push", "pr"} /\ IsNormal(view.branch)
    /\ op' = [Idle EXCEPT !.pc = "point", !.change = as_normal(view.branch)]
    /\ UNCHANGED <<repoVars, history, marks>> /\ OnDisk /\ Quiet

\* Recovery otherwise: the workspace of a registered Implementer is forgotten
\* and its round redone; a landing has no commit to resume from.
GiveUp ==
    /\ At("restart")
    /\ op.then \notin {"point", "push", "pr"} \/ ~IsNormal(view.branch)
    /\ op' = IF op.role = "merger" THEN Ended
             ELSE CASE op.then \in {"work", "read_back", "qa"} ->
                         [op EXCEPT !.pc = "cleanup", !.after = "idle"]
                    [] op.then \in {"cleanup", "rmdir", "add", "add_commit",
                                    "check_out"} -> Idle
                    [] OTHER -> Ended
    /\ UNCHANGED <<repoVars, history, marks>> /\ OnDisk /\ Quiet

\* External: another jj process commits on main and advances it.  The race
\* that matters is the one between the check and the move.
Moved == Cardinality({c \in published : c # Root /\ Last(c)[1] = People})
OthersMoveMain ==
    /\ Moved < MaxMoves /\ IsNormal(view.main)
    /\ view' = bookmark_set(view, "main",
                            Append(as_normal(view.main), <<People, Moved + 1>>))
    /\ published' = published \cup view'.main
    /\ marks' = marks \cup (IF At("move_load") THEN {"raced"} ELSE {})
    /\ UNCHANGED <<origin, op, foreign, judged>> /\ OnDisk /\ Quiet

\* External: somebody pushes a commit to the branch of the pull request.
OthersPush ==
    /\ Cardinality(foreign) < MaxPushes
    /\ LET c == Append(IF origin = Absent THEN Root ELSE as_normal(origin),
                       <<People, Cardinality(foreign) + 1>>)
       IN  origin' = Normal(c) /\ foreign' = foreign \cup {c}
    /\ UNCHANGED <<view, op, published, judged, marks>> /\ OnDisk /\ Quiet

Orchestrator ==
    \/ Publish \/ PrepareImplementer \/ PrepareMerger \/ Cleanup \/ RemoveDir
    \/ WorkspaceAdd \/ AddCommit \/ CheckOut \/ AddFails \/ UndoAdd
    \/ SnapshotWorkspace \/ ReadBack \/ Qa \/ RebaseStep \/ FastForwardCheck
    \/ BookmarkMove \/ Landed \/ PointBookmark \/ GitPush \/ ForgetBookmark
    \/ ResumePush \/ GiveUp

Others == WorkerEdits \/ WorkerJj \/ WorkerEnds \/ OthersMoveMain \/ OthersPush

Next == Orchestrator \/ Others \/ Crash

Spec == Init /\ [][Next]_vars

----------------------------------------------------------------------------
(* properties *)

OnMain(c) == \E t \in view.main : is_ancestor(c, t)

\* As long as nobody advances main between the ancestry check and the move
\* (fast_forward_bookmark, two loads of the repository), every commit main
\* ever pointed at stays below it: transactions that other processes publish
\* at any other moment, during the move itself included, are merged.
MainKeepsPublished == "raced" \notin marks => \A c \in published : OnMain(c)

\* "landing can never clobber main" (README.md:18), whoever else writes.
MainNeverClobbered == \A c \in published : OnMain(c)

\* What somebody else pushed to an issue's branch is never overwritten
\* (git_push leases the position jj last saw), crashes between git's push and
\* jj's record of it included.
ForeignPushKept ==
    \A c \in foreign : \E t \in origin : is_ancestor(c, t)

\* A push is refused only because somebody else pushed: a push redone after a
\* crash finds its own work, whichever of git and jj recorded it.
RejectedOnlyForOthers == "rejected" \in marks => foreign # {}

\* A Merger's resolution lands with every edit of the tracked files that static
\* QA judged and no other, though the Merger may edit after its last jj verb,
\* unless the snapshot failed.  A file it creates after that verb is judged
\* and does not land: snapshot_working_copy tracks nothing new.
MergeLandsAsJudged ==
    \A c \in published : \A i \in 1..Len(c) :
        LET n == c[i][1] IN
          (n = op.name /\ op.role = "merger" /\ "unsnapped" \notin marks)
            => c[i][2] = judged[n].tracked

----------------------------------------------------------------------------
(* inductive invariants *)

\* The histories made of the labels of k workers and of other people.
Commits(k) == Seq((0..k) \X Nat)
Views(k) == [main : SUBSET Commits(k), branch : SUBSET Commits(k),
             tracked : SUBSET Commits(k), wc : [Names -> SUBSET Commits(k)]]

\* The orchestrator's control points, and its state.
Steps == {"idle", "ended", "publish", "cleanup", "rmdir", "add", "add_commit",
          "check_out", "add_failed", "work", "snapshot", "read_back", "qa",
          "rebase", "conflict", "move", "move_load", "landed", "point", "push",
          "pr", "restart"}

Ops(k) == [pc : Steps, role : {"implementer", "merger"}, name : 0..k,
           change : Commits(k), base : Views(k), next : Views(k),
           then : Steps, after : {"idle", "ended", "add", "rebase", "point"}]

\* The type invariant: no commit has a label of a name not generated yet.
TypeInv ==
    /\ view \in Views(used)
    /\ op \in Ops(used)
    /\ origin \subseteq Seq(Nat \X Nat)
    /\ used \in 0..MaxNames
    /\ files \in [Names -> Nat] /\ untracked \in [Names -> Nat]
    /\ judged \in [Names -> [tracked : Nat, new : Nat]]
    /\ published \subseteq Commits(used) /\ IsFiniteSet(published)
    /\ foreign \subseteq Seq(Nat \X Nat) /\ IsFiniteSet(foreign)
    /\ marks \subseteq {"raced", "rejected", "unsnapped", "partial"}

\* A call is under way, after which the orchestrator goes on at one of steps.
Publishing(steps) == At("publish") /\ op.then \in steps

\* A workspace is being cleaned up, after which it goes on at one of steps.
Cleaning(steps) ==
    (op.pc \in {"cleanup", "rmdir"} \/ Publishing({"rmdir"})) /\ op.after \in steps

\* From the preparation of a workspace to the end of static QA.
Unjudged ==
    \/ InCreate \/ op.pc \in {"work", "snapshot", "read_back", "qa"}
    \/ Cleaning({"add"}) \/ Publishing({"read_back"})

AtMostOne(t) == \A c, d \in t : c = d

\* Only main can be in conflict.
OneEach(v) ==
    /\ IsFiniteSet(v.main) /\ AtMostOne(v.branch) /\ AtMostOne(v.tracked)
    /\ \A n \in Names : AtMostOne(v.wc[n])
OneTarget == AtMostOne(origin) /\ \A v \in {view, op.base, op.next} : OneEach(v)

\* While a transaction is open nobody else writes a branch, the position jj
\* tracks or a workspace: of a view only main is ever merged.
SameRefs(v, w) == v.branch = w.branch /\ v.tracked = w.tracked /\ v.wc = w.wc
OnlyMainMoves ==
    /\ At("publish") => /\ SameRefs(view, op.base)
                        /\ op.then \in {"rmdir", "add_commit", "check_out", "read_back",
                                       "move", "conflict", "landed", "push", "pr"}
    /\ At("add_commit") => SameRefs(view, op.next)

\* A worker's commit, and a view that has this worker's.
Own(c) == c # Root /\ Last(c)[1] # People
HasWork(v) == \E c \in v.wc[op.name] : c # Root /\ Last(c)[1] = op.name

\* The worker's commit is in its workspace until it is read back; from then on
\* it is the change in hand.
WorkInTree ==
    /\ Unjudged => op.name \in Names
    /\ op.pc \in {"check_out", "work", "snapshot", "read_back"} => HasWork(view)
    /\ Publishing({"check_out", "read_back"}) => HasWork(op.next)
    /\ op.pc \in {"qa", "rebase"} \/ Cleaning({"rebase", "point"}) =>
         Own(op.change)

\* What every proof about the repository rests on.
RepoInv == TypeInv /\ OneTarget /\ OnlyMainMoves /\ WorkInTree

\* Commits of main that are not below one another, all of them published; and
\* the change a landing moves main to is above the main it was checked against.
Above(t) == \E b \in t : t = {b} /\ is_ancestor(b, op.change)
MainInv ==
    /\ view.main \subseteq published
    /\ \A c, d \in view.main : is_ancestor(c, d) => c = d
    /\ At("move_load") => "raced" \in marks \/ Above(view.main)
    /\ At("publish") /\ op.next.main # op.base.main =>
         /\ op.then = "landed" /\ op.next.main = {op.change}
         /\ "raced" \in marks \/ Above(op.base.main)
    /\ MainKeepsPublished

\* The last commit of a branch, here and as jj tracks it, is a worker's, and
\* nothing is tracked before the first push.
Ours(v) ==
    /\ \A c \in v.branch \cup v.tracked : Own(c)
    /\ foreign = {} /\ origin = {} => v.tracked = {}

\* A Merger's work is never pushed.
PushedByImplementer ==
    op.pc \in {"point", "push", "pr"} \/ Publishing({"push", "pr"}) \/ Cleaning({"point"})
      => op.role = "implementer"

\* What is on the remote is the branch that is being pushed.
Pushed ==
    \/ At("ended")
    \/ op.role = "implementer" /\ (At("landed") \/ Publishing({"landed"}))
    \/ At("restart") /\ op.then = "landed"
    \/ /\ view.branch = origin
       /\ \/ op.pc \in {"push", "pr"}
          \/ At("restart") /\ op.then \in {"point", "push", "pr"}
          \/ At("point") /\ origin = {op.change}
          \/ Publishing({"push", "pr"}) /\ op.next.branch = origin

\* The last commit of the remote is somebody else's as soon as somebody else
\* pushed; until then it is the branch.
PushInv ==
    /\ Ours(view) /\ Ours(op.base) /\ Ours(op.next)
    /\ At("point") => Own(op.change)
    /\ PushedByImplementer
    /\ foreign # {} => \E o \in origin :
         /\ o # Root /\ Last(o)[1] = People
         /\ \A c \in foreign : is_ancestor(c, o)
    /\ foreign = {} /\ origin # {} => Pushed
    /\ RejectedOnlyForOthers

\* No label of c is n's; every one of them has these edits; the last one does.
Without(n, c) == \A i \in 1..Len(c) : c[i][1] # n
AsJudged(n, c, edits) == \A i \in 1..Len(c) : c[i][1] = n => c[i][2] = edits
Topped(c, edits) == c # Root /\ Last(c)[2] = edits

\* Only the last label of a Merger's commit is its own, and it has the edits
\* of its files once they are snapshotted.
Work(c, edits) ==
    Without(op.name, Front(c)) /\ ("unsnapped" \in marks \/ Topped(c, edits))
MergerWork ==
    /\ op.pc \in {"check_out", "work", "snapshot", "read_back"} =>
         \A c \in view.wc[op.name] : Without(op.name, Front(c))
    /\ Publishing({"check_out", "read_back"}) =>
         \A c \in op.next.wc[op.name] : Without(op.name, Front(c))
    /\ Publishing({"read_back"}) =>
         \A c \in op.next.wc[op.name] : Work(c, files[op.name])
    /\ At("read_back") => \A c \in view.wc[op.name] : Work(c, files[op.name])
    /\ At("qa") => Work(op.change, files[op.name])
    /\ op.pc \in {"move", "move_load"} \/ Publishing({"landed"}) =>
         Work(op.change, judged[op.name].tracked)

\* A Merger has a name, and nothing of it is rebased.
MergerNamed ==
    /\ op.role = "merger" => op.name # People
    /\ At("rebase") \/ Publishing({"move"}) \/ Cleaning({"rebase"}) =>
         op.role = "implementer"

\* Until static QA has judged the work, no commit of the worker is published or
\* below its own; then the change in hand is the one that was judged.
MergeInv ==
    /\ MergerNamed
    /\ Unjudged => \A c \in published : Without(op.name, c)
    /\ InCreate \/ Cleaning({"add"}) => Without(op.name, op.change)
    /\ op.role = "merger" =>
         /\ MergerWork
         /\ "unsnapped" \in marks
              \/ \A c \in published : AsJudged(op.name, c, judged[op.name].tracked)

=============================================================================
