------------------------------- MODULE Recovery -------------------------------
(***************************************************************************)
(* Crash recovery (recovery.rs).  The process may die before any effect;   *)
(* its locals are lost.  On restart recover() classifies the issue with    *)
(* the pure table plan_recovery and executes the plan; it may die too.     *)
(* A plan that errors quarantines the issue at orchestrator-error.         *)
(***************************************************************************)
EXTENDS LocalLanding, RemoteLanding

\* plan_recovery, over every phase and substate (None included).
plan_recovery(p, s, has_worker, has_done) ==
    CASE s = "answer_sent" /\ is_terminal(p)               -> "CompleteAnswerClose"
      [] s \in AnswerSubstate \ {"answer_sent"} /\ is_terminal(p) -> "NoAction"
      [] s \in AnswerSubstate /\ ~ is_terminal(p)          -> "Inconsistent"
      [] s \notin AnswerSubstate /\ is_terminal(p)         -> "NoAction"
      [] p = "graphed" /\ s = None                         -> "NoAction"
      [] p = "implementing" /\ s = None /\ ~ has_worker    -> "NoAction"
      [] p = "implementing" /\ s = None /\ has_worker /\ has_done -> "ReplayDoneThenRedrive"
      [] p = "implementing" /\ s = None /\ has_worker /\ ~ has_done -> "CleanCrashedWorker"
      [] p = "qa-gate" /\ s \in QaSubstate \cup {None}     -> "CleanCrashedWorker"
      [] p = "landing" /\ s \in LocalSubstate              -> "ResumeLanding"
      [] p = "landing" /\ s \in RemoteSubstate             -> "ResumeRemoteLanding"
      [] p = "converged" /\ s = None                       -> "StartLanding"
      [] p = "adversary-review" /\ s = None                -> "CleanCrashedWorker"
      [] OTHER                                             -> "Inconsistent"

has_worker == workers # {}

\* done_present of the issue's worker row: its workspace holds a valid DONE.
has_done == \E w \in workspaces : w.uuid \in workers /\ w.st = "done"

Plan == plan_recovery(phase, phase_substate, has_worker, has_done)

\* The row recover_issue looks at.
WorkerRow == IF has_worker THEN CHOOSE u \in workers : TRUE ELSE 0

\* Mutant: the scan forgets to compare the round.
any_round_revset == {w.commit : w \in {x \in workspaces : x.phase = "implementing"}}

\* landing_change_revset: the working copies of live Implementer workspaces
\* of this issue's current round; the scan takes the first by name, and the
\* name ends in a random uuid.
landing_change_revset ==
    {w.commit : w \in {x \in workspaces : x.phase = "implementing" /\ x.round = round}}

Recovering == UNCHANGED <<trunk, remoteState, labels, minted, history>>

\* The process dies: every local is lost.
Crash ==
    /\ crashes < MaxCrashes
    /\ pc # "down"
    /\ crashes' = crashes + 1
    /\ pc' = "down"
    /\ goal' = None /\ cur' = 0 /\ change' = NoCommit /\ source' = "pump" /\ iter' = 0
    /\ UNCHANGED <<row, workers, workspaces, leaks>> /\ Recovering

\* recover_with skips a terminal issue and NoAction changes nothing; a
\* combination the table does not know is an error like any other.
RecoverOutright ==
    /\ pc = "down"
    /\ Plan \in {"NoAction", "Inconsistent"}
    /\ IF Plan = "NoAction" THEN Return ELSE pc' = "quarantine" /\ UNCHANGED locals
    /\ UNCHANGED <<row, workers, workspaces, crashes, leaks>> /\ Recovering

\* The plans that first reclaim the worker: roll back to implementing (after
\* replaying its DONE artifacts), or, for a Merger, park the issue.
RecoverWorker ==
    /\ pc = "down"
    /\ \/ /\ Plan \in {"CleanCrashedWorker", "ReplayDoneThenRedrive"}
          /\ goal' = "rollback"
       \/ /\ Plan = "ResumeLanding" /\ phase_substate = "merging"
          /\ goal' = "park_merger"
    /\ cur' = WorkerRow
    /\ pc' = IF has_worker THEN "rec_ws"
             ELSE IF goal' = "rollback" THEN "rollback" ELSE "park_human"
    /\ UNCHANGED <<row, workers, workspaces, change, source, iter, crashes, leaks>>
    /\ Recovering

\* clean_crashed_worker: forget the worker's workspace, best effort ...
ReclaimWorkspace ==
    /\ pc = "rec_ws"
    /\ forget_best_effort(cur)
    /\ pc' = "rec_row"
    /\ UNCHANGED <<row, workers, locals, crashes>> /\ Recovering

\* ... then drop its row ...
ReclaimRow ==
    /\ pc = "rec_row"
    /\ workers' = workers \ {cur}
    /\ cur' = 0
    /\ pc' = IF goal = "rollback" THEN "rollback" ELSE "park_human"
    /\ UNCHANGED <<row, workspaces, goal, change, source, iter, crashes, leaks>>
    /\ Recovering

\* Mutant: a review is rolled back to itself, which no tick drives.
RollbackToSame ==
    /\ pc = "rollback"
    /\ set_phase(IF phase = "adversary-review" THEN phase ELSE "implementing", None)
    /\ Return
    /\ UNCHANGED <<workers, workspaces, crashes, leaks>> /\ Recovering

\* ... and make the issue drivable again.  The round stays.
Rollback ==
    /\ pc = "rollback"
    /\ set_phase("implementing", None)
    /\ Return
    /\ UNCHANGED <<workers, workspaces, crashes, leaks>> /\ Recovering

\* A landing that is past the change: only the terminal write is missing.
ResumeMoved ==
    /\ pc = "down"
    /\ Plan = "ResumeLanding" /\ phase_substate = "bookmark_moved_complete"
    /\ pc' = "merged_step"
    /\ source' = "stored"
    /\ UNCHANGED <<row, workers, workspaces, goal, cur, change, iter, crashes, leaks>>
    /\ Recovering

\* Mutant: every landing is re-entered at its first step.
ResumeAtTop(s) == "rebase_start"

\* resume_from: where the landing machine is re-entered.
ResumeEntry(s) ==
    IF s = "rebase_done_bookmark_pending" THEN "move" ELSE "rebase_start"

\* ResumeLanding from RebaseStarted or RebaseDoneBookmarkPending, and
\* StartLanding.  The change is the stored one (ResumeLanding only), else
\* whatever the workspace scan finds, else the plan errors.
ResumeLanding ==
    /\ pc = "down"
    /\ \/ Plan = "StartLanding"
       \/ Plan = "ResumeLanding"
          /\ phase_substate \in {"rebase_started", "rebase_done_bookmark_pending"}
    /\ \/ /\ Plan = "ResumeLanding" /\ landing_change # NoCommit
          /\ change' = landing_change /\ source' = "stored"
          /\ pc' = ResumeEntry(phase_substate)
       \/ /\ Plan = "StartLanding" \/ landing_change = NoCommit
          /\ change' \in landing_change_revset /\ source' = "scan"
          /\ pc' = ResumeEntry(phase_substate)
       \/ /\ Plan = "StartLanding" \/ landing_change = NoCommit
          /\ landing_change_revset = {}
          /\ pc' = "quarantine" /\ UNCHANGED <<change, source>>
    /\ UNCHANGED <<row, workers, workspaces, goal, cur, iter, crashes, leaks>>
    /\ Recovering

\* resume_remote_landing: the change of an interrupted push is the branch
\* itself; a branch that was never made resolves to nothing.
branch_revset == IF branch = NoCommit THEN {} ELSE {branch}

\* resume_remote_landing.
ResumeRemoteLanding ==
    /\ pc = "down"
    /\ Plan = "ResumeRemoteLanding"
    /\ \/ /\ phase_substate = "push_started"
          /\ pc' = "push_start" /\ change' \in branch_revset /\ source' = "stored"
       \/ /\ phase_substate # "push_started"
          /\ pc' = IF phase_substate = "pr_created" THEN "pr_adopt" ELSE "pr"
          /\ source' = "stored" /\ change' = change
       \/ /\ phase_substate = "push_started" /\ branch_revset = {}
          /\ pc' = "quarantine" /\ UNCHANGED <<change, source>>
    /\ UNCHANGED <<row, workers, workspaces, goal, cur, iter, crashes, leaks>>
    /\ Recovering

\* An operation of a plan errors -- jj, the push, GitHub (or its token), the
\* tracker while a DONE is replayed -- and the issue is quarantined as it is.
\* In the pump the same error ends the process: that is a Crash.
PlanFails ==
    /\ OpsMayFail
    /\ \/ pc = "down" /\ Plan \in {"ReplayDoneThenRedrive", "StartLanding",
                                   "ResumeRemoteLanding"}
       \/ source # "pump" /\ pc \in {"rebase", "move", "bookmark_move", "point", "push",
                                     "pr", "pr_adopt"}
    /\ pc' = "quarantine"
    /\ UNCHANGED <<row, workers, workspaces, locals, crashes, leaks>> /\ Recovering

\* A plan writes a phase and events.jsonl refuses the record of it: the phase
\* stays as written, the plan errs, and the issue is quarantined even if that
\* phase was terminal.  (In the pump the error ends the process: a Crash.)
RecordRefused ==
    /\ LogMayFail
    /\ \/ pc = "rollback" /\ set_phase("implementing", None)
       \/ pc = "park_human" /\ goal = "park_merger" /\ set_phase("awaiting-human-merge", None)
       \/ source # "pump" /\ \/ pc = "merging" /\ set_phase("landing", "merging")
                             \/ pc = "refused" /\ set_phase("awaiting-human-merge", None)
                             \/ pc = "merged_step" /\ set_phase("merged", None)
                             \/ pc = "pr_open" /\ set_phase("pr-open", None)
    /\ pc' = "quarantine"
    /\ UNCHANGED <<workers, workspaces, locals, crashes, leaks>> /\ Recovering

\* quarantine: park the issue at orchestrator-error and go on.
Quarantine ==
    /\ pc = "quarantine"
    /\ set_phase("orchestrator-error", None)
    /\ Return
    /\ UNCHANGED <<workers, workspaces, crashes, leaks>> /\ Recovering

Recover == \/ RecoverOutright \/ RecoverWorker \/ ReclaimWorkspace \/ ReclaimRow
           \/ Rollback \/ ResumeMoved \/ ResumeLanding \/ ResumeRemoteLanding
           \/ PlanFails \/ RecordRefused \/ Quarantine
=============================================================================
