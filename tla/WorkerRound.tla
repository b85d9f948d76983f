------------------------------ MODULE WorkerRound ------------------------------
(***************************************************************************)
(* One Implementer round as processes see it: the worker in its pane       *)
(* (WorkerHost), then the QA gate on its workspace (QaGate), again while   *)
(* QA fails, with the orchestrator dying anywhere in between.              *)
(***************************************************************************)
EXTENDS WorkerHost, QaGate

vars == <<worker, qa>>

Init == HostInit /\ QaInit

\* DoneSentinel::verify decides whether the gate is run at all.
VerifyDone ==
    /\ host = "verify"
    /\ IF panes[row].done
       THEN host' = "qa" /\ UNCHANGED <<row, removed>>
       ELSE host' = "end" /\ removed' = removed \cup {row} /\ row' = 0
    /\ UNCHANGED <<panes, handle, expired, attempts, crashes, abandoned, strays>>
    /\ UNCHANGED qa

\* run_implementer_round after qa.run(): review, another attempt, or poison.
\* The gate object is dropped.
AfterQa ==
    /\ host = "qa" /\ gate = "done"
    /\ row' = 0
    /\ host' = IF verdict = "fail" /\ attempts < MaxAttempts THEN "prepare" ELSE "end"
    /\ removed' = IF verdict = "pass" THEN removed ELSE removed \cup {row}
    /\ UNCHANGED <<panes, handle, expired, attempts, crashes, abandoned, strays>>
    /\ gate' = "off" /\ child' = NoChild /\ verdict' = "none"
    /\ out' = <<>> /\ err' = <<>> /\ tail_out' = <<>> /\ tail_err' = <<>>
    /\ late' = FALSE /\ written' = 0

\* The orchestrator dies; bwrap runs with --die-with-parent, so the script
\* dies with it, and the worker does not.
Crash ==
    /\ crashes < MaxCrashes /\ host \notin {"end", "down"}
    /\ crashes' = crashes + 1 /\ host' = "down" /\ handle' = 0
    /\ gate' = "off" /\ child' = NoChild /\ verdict' = "none"
    /\ out' = <<>> /\ err' = <<>> /\ tail_out' = <<>> /\ tail_err' = <<>>
    /\ late' = FALSE /\ written' = 0
    /\ UNCHANGED <<panes, row, removed, expired, attempts, abandoned, strays>>

-----------------------------------------------------------------------------

HostSteps ==
    \/ Register \/ Spawn \/ SpawnFails \/ WaitPoll \/ WaitCheck \/ CloseExited
    \/ Close \/ ClosePoll \/ CloseCheck \/ PoisonTimeout \/ Recover

Orchestrator ==
    \/ HostSteps /\ UNCHANGED qa
    \/ host = "qa" /\ QaSteps /\ UNCHANGED worker
    \/ VerifyDone \/ AfterQa

Readers == (ReadStdout \/ ReadStderr) /\ UNCHANGED worker

Clock == (Expire /\ UNCHANGED qa) \/ (Deadline /\ UNCHANGED worker)

Workers == (\E n \in DOMAIN panes : WriteDone(n) \/ Exit(n)) /\ UNCHANGED qa

Next ==
    \/ Orchestrator \/ Readers \/ Clock \/ Workers \/ Crash
    \/ QaEnvironment /\ UNCHANGED worker
    \/ ZellijHangs /\ UNCHANGED qa

Spec == Init /\ [][Next]_vars

\* The orchestrator and its reader threads run, and time passes.  Nothing is
\* assumed of workers, scripts, bubblewrap or zellij; an orchestrator that waits
\* for a zellij command that hangs has no step to take.
FairSpec == Spec /\ WF_vars(Orchestrator) /\ WF_vars(Readers) /\ WF_vars(Clock)

-----------------------------------------------------------------------------
(* What is claimed. *)

\* A QA failure is charged to the Implementer, and a pass credited, only when
\* the script really ran and ended with that exit code: a sandbox that never
\* came up, a signal and exit 126/127 are never mistaken for a verdict, although
\* bubblewrap's own failure has the exit code of a failing script.
VerdictIsTheScripts ==
    /\ verdict = "fail" => child.st = "exited" /\ child.code = 101
    /\ verdict = "pass" => child.st = "exited" /\ child.code = 0 /\ Head(tail_out) = "S"

\* A workspace is not removed under a worker that still writes to it, except
\* after a crash, after close_and_wait gave up, or when the pump itself ended in
\* an error with the pane alive (the three residual risks the code has).
QuietRemoval ==
    (crashes = 0 /\ abandoned = 0 /\ strays = {}) => removed \cap LivePanes = {}

\* The gate judges the tree of a worker that has ended: nothing writes to the
\* workspace while QA reads it.
QaReadsQuietTree == host = "qa" => ~ panes[row].live

\* A round that was begun ends, with a verdict or without one, although the
\* worker may hang, the script may hang or flood its pipes, and zellij may keep
\* failing: the deadlines and the draining readers see to it.  One thing holds it
\* up for good: a zellij command that does not return, for the deadlines of wait
\* and close_and_wait are tested between such commands only.
RoundEnds == (row # 0) ~> (row = 0 \/ host = "hung")

-----------------------------------------------------------------------------
(* Why the safety properties hold: the inductive invariant. *)

\* The steps that hold the handle of the row's pane, and those at which the row
\* names a pane.
Holding == {"wait", "waited", "failed", "exited", "close", "closing", "closed", "gone"}
Working == Holding \cup {"verify", "qa", "hung"}

HostTypeOK ==
    /\ host \in Working \cup {"prepare", "spawn", "down", "end"}
    /\ panes \in Seq([live : BOOLEAN, done : BOOLEAN])
    /\ row \in Nat /\ handle \in Nat /\ removed \subseteq DOMAIN panes
    /\ expired \in BOOLEAN /\ attempts \in Nat /\ crashes \in Nat
    /\ abandoned \in Nat /\ strays \subseteq Nat

\* The row runs ahead of the pane it names only between register_worker and
\* the spawn, or across a crash there.
RowAndPane ==
    /\ host = "spawn" => row = Len(panes) + 1
    /\ host \in Working => row \in DOMAIN panes
    /\ host \in Holding => handle = row
    /\ host = "down" => row \in 0 .. Len(panes) + 1
    /\ host \in {"prepare", "end"} => row = 0

\* Once its pane was seen gone the worker stays gone.
WorkerHasEnded == host \in {"exited", "verify", "qa"} => ~ panes[row].live

\* Without the three residual risks the only worker is the row's.
Undisturbed == crashes = 0 /\ abandoned = 0 /\ strays = {}

OneLiveWorker ==
    Undisturbed => /\ LivePanes \subseteq {row} \ removed
                   /\ host \in {"gone", "down"} => LivePanes = {}

QaTypeOK ==
    /\ gate \in {"off", "poll", "check", "join", "done"}
    /\ child \in [st : {"none", "setup", "script", "exited", "signalled"},
                   code : {0, 1, 101, 127}]
    /\ out \in Seq({"S", "x"}) /\ err \in Seq({"S", "x"})
    /\ tail_out \in Seq({"S", "x"}) /\ tail_err \in Seq({"S", "x"})
    /\ late \in BOOLEAN /\ written \in Nat
    /\ verdict \in {"none", "script_not_found", "sandbox_unavailable", "unspawnable",
                    "timed_out", "killed", "pass", "script_errored", "fail"}

\* The gate polls a child it has spawned and joins one that is reaped; only a
\* child that exited has an exit code.
GateAndChild ==
    /\ gate \in {"poll", "check"} => child.st # "none"
    /\ gate = "join" => child.st \in {"exited", "signalled"}
    /\ child.st # "exited" => child.code = 0
    /\ gate # "done" => verdict = "none"

\* bubblewrap itself writes nothing to the script's stdout, so a child that
\* never got past it has left no sentinel.
SilentUntilHandoff ==
    child.st \in {"none", "setup"} \/ child.code = 1 => out = <<>> /\ tail_out = <<>>

\* A verdict is on a script that has ended, with all it wrote read.
VerdictIsFinal ==
    verdict \in {"pass", "fail"} =>
        /\ child = [st |-> "exited", code |-> IF verdict = "pass" THEN 0 ELSE 101]
        /\ out = <<>> /\ HandedOff

WorkerInv ==
    /\ HostTypeOK /\ RowAndPane /\ WorkerHasEnded /\ OneLiveWorker
    /\ QaTypeOK /\ GateAndChild /\ SilentUntilHandoff /\ VerdictIsFinal
=============================================================================
