----------------------------- MODULE LocalLanding -----------------------------
(***************************************************************************)
(* Local-mode landing (landing.rs, land_local / resume_from): rebase the   *)
(* change onto main, fast-forward main to it, record it merged; a substate *)
(* is persisted before and after each jj operation.  The same steps serve  *)
(* the pump, the retry after a Merger, and recovery: `pc` enters at        *)
(* "rebase_start" (RebaseStarted), "move" (RebaseDoneBookmarkPending),     *)
(* "retry_land" (retry_land_after_merge) or "merged_step"                  *)
(* (BookmarkMovedComplete).  The fast-forward reads main, then moves it in *)
(* a transaction that loads the repository again: two steps, between which *)
(* another jj process may advance main.                                    *)
(***************************************************************************)
EXTENDS IssueState

Landing == UNCHANGED <<workers, remoteState, labels, minted, history, crashes, leaks>>

\* Mutant: the Merger's workspace is not cleaned up after it landed.
LandedKeepsMerger == Return

\* Landing is over.  With a Merger's workspace in hand the pump forgets it.
Landed ==
    IF cur = 0 THEN Return
    ELSE /\ pc' = "drop_ws" /\ goal' = "landed"
         /\ UNCHANGED <<cur, change, source, iter>>

\* rebase_step, first write: Landing/RebaseStarted.
RebaseStart ==
    /\ pc = "rebase_start"
    /\ set_phase("landing", "rebase_started")
    /\ pc' = "rebase"
    /\ UNCHANGED <<workspaces, trunk, locals>> /\ Landing

\* The rebase.  It is skipped when main is already at or below the change.
\* Otherwise jj writes a new commit on main -- conflicted or not -- holding
\* the diff of that ONE commit, and moves along any workspace standing on it.
RebaseResults ==
    IF is_ancestor_of(change) THEN {change}
    ELSE LET w == IF change.work = "below" THEN "gone" ELSE change.work
             onMain(f) == [change EXCEPT !.base = Len(trunk), !.work = w, !.form = f]
         IN  {onMain("rebased")}
             \cup (IF w = "own" THEN {onMain("conflicted")} ELSE {})

Rebase ==
    /\ pc = "rebase"
    /\ \E target \in RebaseResults :
         /\ change' = target
         /\ workspaces' = {IF w.commit = change THEN [w EXCEPT !.commit = target]
                                                ELSE w : w \in workspaces}
         /\ pc' = IF target.form = "conflicted" THEN "merging" ELSE "rebase_done"
    /\ UNCHANGED <<row, trunk, goal, cur, source, iter>> /\ Landing

\* rebase_step, conflict: Landing/Merging.  land() dispatches a Merger;
\* recover() just returns the RebaseConflict outcome.
Merging ==
    /\ pc = "merging"
    /\ set_phase("landing", "merging")
    /\ IF source = "pump" THEN pc' = "merger_gate" /\ UNCHANGED locals ELSE Return
    /\ UNCHANGED <<workspaces, trunk>> /\ Landing

\* rebase_step, clean; also the first write of retry_land_after_merge.
RebaseDone ==
    /\ pc \in {"rebase_done", "retry_land"}
    /\ set_phase("landing", "rebase_done_bookmark_pending")
    /\ pc' = "move"
    /\ UNCHANGED <<workspaces, trunk, locals>> /\ Landing

\* Mutant: the bookmark is moved without looking where main is.
CanMoveAnywhere == TRUE

\* fast_forward_bookmark's guard: main may only advance.
CanFastForward == is_ancestor_of(change)

\* move_step and the guard: skip if main is already at the target, go on if it
\* is below it, refuse otherwise.
Move ==
    /\ pc = "move"
    /\ \/ main_is(change) /\ pc' = "moved"
       \/ ~ main_is(change) /\ CanFastForward /\ pc' = "bookmark_move"
       \/ ~ main_is(change) /\ ~ CanFastForward /\ pc' = "refused"
    /\ UNCHANGED <<row, workspaces, trunk, locals>> /\ Landing

\* fast_forward_bookmark's move: main is set to the change wherever it is now.
BookmarkMove ==
    /\ pc = "bookmark_move"
    /\ bookmark_move(change, source)
    /\ pc' = "moved"
    /\ UNCHANGED <<row, workspaces, locals>> /\ Landing

\* move_step: NotFastForward parks the issue for a human.
Refused ==
    /\ pc = "refused"
    /\ set_phase("awaiting-human-merge", None)
    /\ Landed
    /\ UNCHANGED <<workspaces, trunk>> /\ Landing

\* move_step: Landing/BookmarkMovedComplete.
Moved ==
    /\ pc = "moved"
    /\ set_phase("landing", "bookmark_moved_complete")
    /\ pc' = "merged_step"
    /\ UNCHANGED <<workspaces, trunk, locals>> /\ Landing

\* merged_step: the terminal transition.
MergedStep ==
    /\ pc = "merged_step"
    /\ set_phase("merged", None)
    /\ Landed
    /\ UNCHANGED <<workspaces, trunk>> /\ Landing

LandLocally == \/ RebaseStart \/ Rebase \/ Merging \/ RebaseDone
               \/ Move \/ BookmarkMove \/ Refused \/ Moved \/ MergedStep
=============================================================================
