------------------------------ MODULE BuildPump ------------------------------
(***************************************************************************)
(* The build pump (pump.rs) driving one issue through implement -> QA ->   *)
(* adversary review -> converge -> land, with its workers, composed with   *)
(* both landing machines and crash recovery.  Other issues appear only as  *)
(* ExternalAdvance: a tick drives issues one after the other, so all they  *)
(* share is main.                                                          *)
(*                                                                         *)
(* A PumpError ends the process (main.rs, run_loop), so every fallible     *)
(* call that can end in `?` is covered by Crash at that point.             *)
(***************************************************************************)
EXTENDS Recovery

Driving == UNCHANGED <<trunk, remoteState, labels, crashes>>
Init ==
    /\ phase = "graphed" /\ phase_substate = None
    /\ round = 0 /\ empty_round_streak = 0 /\ landing_retry_count = 0
    /\ landing_change = NoCommit
    /\ workers = {} /\ workspaces = {} /\ trunk = <<>>
    /\ branch = NoCommit /\ pushed = NoCommit /\ prs = 0 /\ open_prs = 0
    /\ inbound \in Origins /\ remote \in Modes /\ approved = FALSE
    /\ pc = "idle" /\ goal = None /\ cur = 0 /\ change = NoCommit
    /\ source = "pump" /\ iter = 0
    /\ minted = 0 /\ qa_passed = {} /\ clean = {} /\ flagged = {}
    /\ crashes = 0 /\ leaks = 0

-----------------------------------------------------------------------------
(* Implementer round. *)

\* Mutant: an issue parked at orchestrator-error is picked up again.
PickupErrored ==
    /\ pc = "idle" /\ (is_drivable(phase) \/ phase = "orchestrator-error")
    /\ set_phase("implementing", None)
    /\ pc' = "reset_streak"
    /\ UNCHANGED <<workers, workspaces, locals, minted, history, leaks>>
    /\ Driving

\* tick / drive_issue: pick the issue up.
Pickup ==
    /\ pc = "idle" /\ is_drivable(phase)
    /\ set_phase("implementing", None)
    /\ pc' = "reset_streak"
    /\ UNCHANGED <<workers, workspaces, locals, minted, history, leaks>>
    /\ Driving

\* Mutant: the streak is not reset for a new Implementer.
KeepStreak ==
    /\ pc = "reset_streak"
    /\ pc' = "prepare"
    /\ UNCHANGED <<row, workers, workspaces, locals, minted, history, leaks>>
    /\ Driving

\* run_implementer_round: a streak never outlives the change it was earned on.
ResetStreak ==
    /\ pc = "reset_streak"
    /\ empty_round_streak' = 0
    /\ pc' = "prepare"
    /\ UNCHANGED <<phase, phase_substate, round, landing_retry_count, landing_change>>
    /\ UNCHANGED <<workers, workspaces, locals, minted, history, leaks>>
    /\ Driving

PrepareImplementer ==
    /\ pc = "prepare"
    /\ prepare("implementing", [origin |-> minted + 1, base |-> Len(trunk),
                                work |-> "gone", form |-> "original"])
    /\ pc' = "register"
    /\ UNCHANGED <<row, workers, goal, change, source, iter, history, leaks>>
    /\ Driving

\* register_worker, then spawn.
RegisterWorker ==
    /\ pc = "register"
    /\ workers' = workers \cup {cur}
    /\ workspaces' = {IF w.uuid = cur THEN [w EXCEPT !.st = "running"] ELSE w
                        : w \in workspaces}
    /\ pc' = "wait"
    /\ UNCHANGED <<row, locals, minted, history, leaks>>
    /\ Driving

\* External: a worker ends with DONE.  It runs on its own in a zellij pane,
\* so it may do so while the orchestrator is down.  An Implementer leaves its
\* work in the working-copy commit, or below it (`jj commit`, `jj new`), or
\* no work at all; a Merger resolves the conflict or not.
WorkerDone ==
    /\ \E w \in workspaces :
         /\ w.st = "running"
         /\ \E c \in CASE w.phase = "implementing" ->
                             {[w.commit EXCEPT !.work = s] : s \in Shapes \cup {"gone"}}
                       [] w.phase = "landing" ->
                             {w.commit, [w.commit EXCEPT !.form = "merged"]}
                       [] OTHER -> {w.commit} :
              workspaces' = (workspaces \ {w}) \cup {[w EXCEPT !.st = "done", !.commit = c]}
    /\ UNCHANGED <<row, workers, pc, locals, minted, history, leaks>>
    /\ Driving

\* What the cleanup after a worker leads to.  A Merger that fails parks the
\* issue, the other roles poison it.
FailureGoal == IF Current.phase = "landing" THEN "park" ELSE "fail"

\* wait() times out, or the worker exits without a valid DONE, or -- an
\* Adversary -- without an attested findings.jsonl.
WorkerFails ==
    /\ pc = "wait"
    /\ goal' = FailureGoal
    /\ pc' = "drop_row"
    /\ UNCHANGED <<row, workers, workspaces, cur, change, source, iter,
                   minted, history, leaks>>
    /\ Driving

\* change_differs_from("main", change): the TREES differ.  A commit without
\* work has the tree of its base, which is main's only if main stayed there.
change_differs_from_main(c) == c.work # "gone" \/ c.base # Len(trunk)

\* The Implementer is done.  Its artifacts are translated; an empty change is
\* refused before QA can look at it.
ImplementerDone ==
    /\ pc = "wait" /\ Current.phase = "implementing" /\ Current.st = "done"
    /\ IF ~ change_differs_from_main(Current.commit)
       THEN goal' = "fail" /\ pc' = "drop_row"
       ELSE goal' = goal /\ pc' = "enter_qa"
    /\ UNCHANGED <<row, workers, workspaces, cur, change, source, iter,
                   minted, history, leaks>>
    /\ Driving

EnterQa ==
    /\ pc = "enter_qa"
    /\ set_phase("qa-gate", None)
    /\ pc' = "qa"
    /\ UNCHANGED <<workers, workspaces, locals, minted, history, leaks>>
    /\ Driving

\* QaGate::run: the exit code passes or fails the tree; a gate that cannot
\* give a verdict poisons the issue.
RunQa ==
    /\ pc = "qa"
    /\ \/ /\ goal' = "qa_pass"
          /\ qa_passed' = qa_passed \cup {<<Current.commit.origin, "original">>}
       \/ goal' \in {"qa_fail", "fail"} /\ qa_passed' = qa_passed
    /\ pc' = "drop_row"
    /\ UNCHANGED <<row, workers, workspaces, cur, change, source, iter,
                   minted, clean, flagged, leaks>>
    /\ Driving

-----------------------------------------------------------------------------
(* Cleanup after a worker: its row first, then its workspace. *)

\* remove_worker.  The passing Implementer's workspace and the Merger's are
\* still needed.
DropRow ==
    /\ pc = "drop_row"
    /\ workers' = workers \ {cur}
    /\ pc' = CASE goal = "qa_pass" -> "enter_review"
               [] goal = "merged"  -> "check_merge"
               [] OTHER            -> "drop_ws"
    /\ UNCHANGED <<row, workspaces, locals, minted, history, leaks>>
    /\ Driving

\* forget: best effort everywhere but in on_qa_fail.
DropWorkspace ==
    /\ pc = "drop_ws"
    /\ IF goal = "qa_fail" THEN forget(cur) ELSE forget_best_effort(cur)
    /\ IF goal = "landed" THEN Return
       ELSE /\ pc' = CASE goal = "fail"     -> "poison"
                       [] goal = "qa_fail"  -> "qa_failed"
                       [] goal = "findings" -> "findings"
                       [] goal = "clean"    -> "clean"
                       [] OTHER             -> "park_human"
            /\ cur' = 0
            /\ UNCHANGED <<goal, change, source, iter>>
    /\ UNCHANGED <<row, workers, minted, history>>
    /\ Driving

\* poison: orchestrator-error.
Poison ==
    /\ pc = "poison"
    /\ set_phase("orchestrator-error", None)
    /\ Return
    /\ UNCHANGED <<workers, workspaces, minted, history, leaks>>
    /\ Driving

\* on_qa_fail: requeue under the next round, or give up.
OnQaFail ==
    /\ pc = "qa_failed"
    /\ IF round + 1 >= MAX_QA_RETRIES
       THEN pc' = "poison" /\ UNCHANGED <<row, locals>>
       ELSE /\ phase' = "implementing" /\ phase_substate' = None
            /\ round' = round + 1 /\ empty_round_streak' = 0
            /\ UNCHANGED <<landing_retry_count, landing_change>>
            /\ Return
    /\ UNCHANGED <<workers, workspaces, minted, history, leaks>>
    /\ Driving

-----------------------------------------------------------------------------
(* Adversary review. *)

\* run_adversary_review pins the change, by commit id, while the workspace
\* is still registered.
EnterReview ==
    /\ pc = "enter_review"
    /\ change' = Current.commit
    /\ set_phase("adversary-review", None)
    /\ iter' = 0
    /\ pc' = "forget_impl"
    /\ UNCHANGED <<workers, workspaces, goal, cur, source, minted, history, leaks>>
    /\ Driving

ForgetImplementer ==
    /\ pc = "forget_impl"
    /\ forget_best_effort(cur)
    /\ cur' = 0
    /\ pc' = "adv_prepare"
    /\ UNCHANGED <<row, workers, goal, change, source, iter, minted, history>>
    /\ Driving

PrepareAdversary ==
    /\ pc = "adv_prepare"
    /\ prepare("adversary-review", [NoCommit EXCEPT !.base = Len(trunk)])
    /\ pc' = "register"
    /\ UNCHANGED <<row, workers, goal, change, source, iter, history, leaks>>
    /\ Driving

\* The Adversary is done: its findings.jsonl has findings or is empty.
AdversaryDone ==
    /\ pc = "wait" /\ Current.phase = "adversary-review" /\ Current.st = "done"
    /\ \/ goal' = "findings" /\ flagged' = flagged \cup {change.origin} /\ clean' = clean
       \/ goal' = "clean" /\ flagged' = flagged
          /\ clean' = clean \cup {<<change.origin, iter + 1>>}
    /\ pc' = "drop_row"
    /\ UNCHANGED <<row, workers, workspaces, cur, change, source, iter,
                   minted, qa_passed, leaks>>
    /\ Driving

\* on_adversary_findings: a new round with no streak, or give up.
OnAdversaryFindings ==
    /\ pc = "findings"
    /\ IF round + 1 >= MAX_ADVERSARY_ROUNDS
       THEN pc' = "poison" /\ UNCHANGED <<row, locals>>
       ELSE /\ round' = round + 1 /\ empty_round_streak' = 0 /\ phase_substate' = None
            /\ pc' = "reimplement"
            /\ UNCHANGED <<phase, landing_retry_count, landing_change, locals>>
    /\ UNCHANGED <<workers, workspaces, minted, history, leaks>>
    /\ Driving

\* on_adversary_findings: back to implementing; drive_issue loops.
Reimplement ==
    /\ pc = "reimplement"
    /\ set_phase("implementing", None)
    /\ pc' = "reset_streak"
    /\ goal' = None /\ change' = NoCommit /\ iter' = 0
    /\ UNCHANGED <<cur, source, workers, workspaces, minted, history, leaks>>
    /\ Driving

\* on_clean_round, the convergence test, and the bound of the review loop.
OnCleanRound ==
    /\ pc = "clean"
    /\ empty_round_streak' = empty_round_streak + 1
    /\ iter' = iter + 1
    /\ pc' = IF empty_round_streak + 1 >= n_rounds THEN "converge"
             ELSE IF iter + 1 < MAX_ADVERSARY_ROUNDS THEN "adv_prepare" ELSE "poison"
    /\ UNCHANGED <<phase, phase_substate, round, landing_retry_count, landing_change>>
    /\ UNCHANGED <<workers, workspaces, goal, cur, change, source,
                   minted, history, leaks>>
    /\ Driving

Converge ==
    /\ pc = "converge"
    /\ set_phase("converged", None)
    /\ pc' = "land"
    /\ UNCHANGED <<workers, workspaces, locals, minted, history, leaks>>
    /\ Driving

-----------------------------------------------------------------------------
(* Landing: the inbound gate, the choice of mode, the Merger. *)

\* Mutant: the gate guards the local landing only.
NeedsApprovalLocally == inbound /\ ~ approved /\ ~ remote

\* land's first test: an inbound change lands only once a human approved it.
NeedsApproval == inbound /\ ~ approved

\* land.  Without a GitHub token remote mode poisons the issue.
Land ==
    /\ pc = "land"
    /\ \/ NeedsApproval /\ pc' = "park_store"
       \/ ~ NeedsApproval /\ remote /\ pc' = "push_start"
       \/ ~ NeedsApproval /\ remote /\ OpsMayFail /\ pc' = "poison"
       \/ ~ NeedsApproval /\ ~ remote /\ pc' = "rebase_start"
    /\ UNCHANGED <<row, workers, workspaces, locals, minted, history, leaks>>
    /\ Driving

\* Mutant: the issue is parked without storing what is to be landed.
ParkWithoutChange ==
    /\ pc = "park_store"
    /\ pc' = "park_inbound"
    /\ UNCHANGED <<row, workers, workspaces, locals, minted, history, leaks>>
    /\ Driving

\* park_for_inbound_approval: store the change first ...
StoreLandingChange ==
    /\ pc = "park_store"
    /\ landing_change' = change
    /\ pc' = "park_inbound"
    /\ UNCHANGED <<phase, phase_substate, round, empty_round_streak, landing_retry_count>>
    /\ UNCHANGED <<workers, workspaces, locals, minted, history, leaks>>
    /\ Driving

\* ... then flip the phase.
ParkForInboundApproval ==
    /\ pc = "park_inbound"
    /\ set_phase("awaiting-inbound-approval", None)
    /\ Return
    /\ UNCHANGED <<workers, workspaces, minted, history, leaks>>
    /\ Driving

\* resume_approved_inbound: land the stored change of an approved issue.
ResumeApprovedInbound ==
    /\ pc = "idle"
    /\ phase = "awaiting-inbound-approval" /\ approved
    /\ landing_change # NoCommit
    /\ change' = landing_change
    /\ pc' = "land"
    /\ UNCHANGED <<row, workers, workspaces, goal, cur, source, iter,
                   minted, history, leaks>>
    /\ Driving

\* resolve_conflict_with_merger: one Merger per issue, counted before it runs.
MergerGate ==
    /\ pc = "merger_gate"
    /\ IF landing_retry_count >= MAX_MERGER_SPAWNS
       THEN pc' = "park_human" /\ landing_retry_count' = landing_retry_count
       ELSE pc' = "merger_prepare" /\ landing_retry_count' = landing_retry_count + 1
    /\ UNCHANGED <<phase, phase_substate, round, empty_round_streak, landing_change>>
    /\ UNCHANGED <<workers, workspaces, locals, minted, history, leaks>>
    /\ Driving

PrepareMerger ==
    /\ pc = "merger_prepare"
    /\ prepare("landing", change)
    /\ pc' = "register"
    /\ UNCHANGED <<row, workers, goal, change, source, iter, history, leaks>>
    /\ Driving

MergerDone ==
    /\ pc = "wait" /\ Current.phase = "landing" /\ Current.st = "done"
    /\ goal' = "merged"
    /\ pc' = "drop_row"
    /\ UNCHANGED <<row, workers, workspaces, cur, change, source, iter,
                   minted, history, leaks>>
    /\ Driving

\* Mutant: the Merger's DONE is believed without looking at its tree.
TrustMerge ==
    /\ pc = "check_merge"
    /\ change' = Current.commit
    /\ pc' = "retry_land" /\ goal' = goal
    /\ UNCHANGED <<row, workers, workspaces, cur, source, iter,
                   minted, history, leaks>>
    /\ Driving

\* The tree must be conflict-free and pass QA before the landing is retried.
CheckMerge ==
    /\ pc = "check_merge"
    /\ change' = Current.commit
    /\ \/ /\ Current.commit.form = "merged"
          /\ qa_passed' = qa_passed \cup {<<Current.commit.origin, "merged">>}
          /\ pc' = "retry_land" /\ goal' = goal
       \/ /\ pc' = "drop_ws" /\ goal' = "park" /\ qa_passed' = qa_passed
    /\ UNCHANGED <<row, workers, workspaces, cur, source, iter,
                   minted, clean, flagged, leaks>>
    /\ Driving

\* park_for_human; also resume_from(Merging), in recovery.
ParkForHuman ==
    /\ pc = "park_human"
    /\ set_phase("awaiting-human-merge", None)
    /\ Return
    /\ UNCHANGED <<workers, workspaces, minted, history, leaks>>
    /\ Driving

-----------------------------------------------------------------------------
(* The environment. *)

\* External: another jj process or a person advances main, and may do so
\* between the guard of a move and the move.
ExternalAdvance ==
    /\ Cardinality({i \in DOMAIN trunk : trunk[i].source \in Foreign}) < MaxAdvances
    /\ trunk' = Append(trunk, [commit |-> [origin |-> 0, base |-> Len(trunk),
                                           work |-> "own", form |-> "original"],
                               source |-> IF pc = "bookmark_move" THEN "raced" ELSE "external"])
    /\ UNCHANGED <<row, workers, workspaces, remoteState, labels, pc, locals,
                   minted, history, crashes, leaks>>

\* External: a human applies inbound-approved:land.
Approve ==
    /\ inbound /\ ~ approved
    /\ approved' = TRUE
    /\ UNCHANGED <<row, workers, workspaces, trunk, remoteState, inbound, remote, pc,
                   locals, minted, history, crashes, leaks>>

Drive ==
    \/ Pickup \/ ResetStreak \/ PrepareImplementer \/ RegisterWorker
    \/ WorkerFails \/ ImplementerDone \/ EnterQa \/ RunQa
    \/ DropRow \/ DropWorkspace \/ Poison \/ OnQaFail
    \/ EnterReview \/ ForgetImplementer \/ PrepareAdversary \/ AdversaryDone
    \/ OnAdversaryFindings \/ Reimplement \/ OnCleanRound \/ Converge
    \/ Land \/ StoreLandingChange \/ ParkForInboundApproval \/ ResumeApprovedInbound
    \/ MergerGate \/ PrepareMerger \/ MergerDone \/ CheckMerge \/ ParkForHuman

Orchestrator == Drive \/ LandLocally \/ LandRemotely \/ Recover

Environment == WorkerDone \/ ExternalAdvance \/ Approve \/ ClosePr

Next == Orchestrator \/ Environment \/ Crash

Spec == Init /\ [][Next]_vars

\* The orchestrator is one thread that always goes on; every wait on a worker
\* is bounded by worker_timeout, after which WorkerFails is enabled.
FairSpec == Spec /\ WF_vars(Orchestrator)
=============================================================================
