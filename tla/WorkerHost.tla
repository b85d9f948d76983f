------------------------------ MODULE WorkerHost ------------------------------
(***************************************************************************)
(* A worker's process and workspace: Spawner::spawn, WorkerHandle::wait,   *)
(* close and close_and_wait over zellij's panes, and what recovery does    *)
(* with a worker whose orchestrator died.  The zellij server is a process  *)
(* of its own: panes outlive the orchestrator, its answers may be late,    *)
(* unreadable or never come, and the orchestrator knows a pane by its id   *)
(* only.                                                                   *)
(***************************************************************************)
EXTENDS Integers, Sequences, FiniteSets

CONSTANTS
    MaxAttempts,    \* bound: Implementer rounds
    MaxCrashes      \* bound: how often the orchestrator dies

ASSUME HostAssumption == MaxAttempts \in Nat \ {0} /\ MaxCrashes \in Nat

VARIABLES
    host,       \* step of the orchestrator
    panes,      \* panes[n]: [live, done]; pane n works in workspace n
    row,        \* the active_workers row: a workspace, or 0
    handle,     \* the pane the orchestrator holds, 0 for none
    removed,    \* workspaces that were forgotten and removed
    expired,    \* the deadline of the current wait has passed
    attempts,   \* Implementer rounds so far
    crashes,
    abandoned,  \* history: how often close_and_wait gave up
    strays      \* history: live panes the pump left when it returned an error

worker == <<host, panes, row, handle, removed, expired, attempts, crashes, abandoned, strays>>

HostInit ==
    /\ host = "prepare" /\ panes = <<>> /\ row = 0 /\ handle = 0
    /\ removed = {} /\ expired = FALSE /\ attempts = 0 /\ crashes = 0
    /\ abandoned = 0 /\ strays = {}

LivePanes == {n \in DOMAIN panes : panes[n].live}

-----------------------------------------------------------------------------
(* Workers, and zellij killing them. *)

\* DONE is the last thing a worker writes.
WriteDone(n) ==
    /\ panes[n].live /\ ~ panes[n].done
    /\ panes' = [panes EXCEPT ![n].done = TRUE]
    /\ UNCHANGED <<host, row, handle, removed, expired, attempts, crashes, abandoned, strays>>

\* The command ends and, with --close-on-exit, its pane.
Exit(n) ==
    /\ panes[n].live
    /\ panes' = [panes EXCEPT ![n].live = FALSE]
    /\ UNCHANGED <<host, row, handle, removed, expired, attempts, crashes, abandoned, strays>>

Expire ==
    /\ host \in {"wait", "waited", "failed", "close", "closing", "closed"} /\ ~ expired
    /\ expired' = TRUE
    /\ UNCHANGED <<host, panes, row, handle, removed, attempts, crashes, abandoned, strays>>

-----------------------------------------------------------------------------
(* Spawning. *)

\* register_worker comes before the spawn: the row names a workspace that may
\* have no pane yet.
Register ==
    /\ host = "prepare" /\ attempts < MaxAttempts
    /\ attempts' = attempts + 1
    /\ row' = Len(panes) + 1
    /\ host' = "spawn"
    /\ UNCHANGED <<panes, handle, removed, expired, crashes, abandoned, strays>>

\* Spawner::spawn and pane_create: a pane with a readable id.
Spawn ==
    /\ host = "spawn"
    /\ panes' = Append(panes, [live |-> TRUE, done |-> FALSE])
    /\ handle' = row
    /\ expired' = FALSE
    /\ host' = "wait"
    /\ UNCHANGED <<row, removed, attempts, crashes, abandoned, strays>>

\* The pin, the shell.nix or the task file is wrong, zellij fails, or it answers
\* without a pane id: then the pane is there, and the pump returns the error.
SpawnFails ==
    /\ host = "spawn"
    /\ \/ panes' = Append(panes, [live |-> FALSE, done |-> FALSE]) /\ strays' = strays
       \/ panes' = Append(panes, [live |-> TRUE, done |-> FALSE]) /\ strays' = strays \cup {row}
    /\ host' = "down"
    /\ UNCHANGED <<row, handle, removed, expired, attempts, crashes, abandoned>>

-----------------------------------------------------------------------------
(* run_zellij waits for the command to end, without a time limit. *)

\* A zellij command that never returns: of pane_create, the pane being there or
\* not; of pane_alive, in wait or in close_and_wait; or of a close.
ZellijHangs ==
    /\ \/ /\ host = "spawn"
          /\ \E live \in BOOLEAN : panes' = Append(panes, [live |-> live, done |-> FALSE])
       \/ host \in {"wait", "exited", "close", "closing"} /\ UNCHANGED panes
    /\ host' = "hung"
    /\ UNCHANGED <<row, handle, removed, expired, attempts, crashes, abandoned, strays>>

-----------------------------------------------------------------------------
(* wait: pane_alive, then the deadline. *)

\* Mutant: a listing that cannot be read counts as a pane that is gone.
WaitPollTrusting ==
    /\ host = "wait"
    /\ host' \in {"exited", IF panes[handle].live THEN "waited" ELSE "exited"}
    /\ UNCHANGED <<panes, row, handle, removed, expired, attempts, crashes, abandoned, strays>>

\* pane_alive: false for a pane that is not listed, an error when the listing
\* cannot be read.
WaitPoll ==
    /\ host = "wait"
    /\ \/ ~ panes[handle].live /\ host' = "exited"
       \/ panes[handle].live /\ host' = "waited"
       \/ host' = "failed"
    /\ UNCHANGED <<panes, row, handle, removed, expired, attempts, crashes, abandoned, strays>>

\* Alive: StillRunning once the deadline has passed.  A failed query at the
\* deadline is returned as an error, which ends the process, whatever earlier
\* queries answered.
WaitCheck ==
    /\ host \in {"waited", "failed"}
    /\ host' = IF ~ expired THEN "wait" ELSE IF host = "waited" THEN "close" ELSE "down"
    /\ handle' = IF host' = "down" THEN 0 ELSE handle
    /\ strays' = IF host' = "down" /\ panes[handle].live THEN strays \cup {row} ELSE strays
    /\ UNCHANGED <<panes, row, removed, expired, attempts, crashes, abandoned>>

\* handle.close() after an exit: the pane is gone already.
CloseExited ==
    /\ host = "exited"
    /\ host' = "verify" /\ handle' = 0
    /\ UNCHANGED <<panes, row, removed, expired, attempts, crashes, abandoned, strays>>

-----------------------------------------------------------------------------
(* close_and_wait. *)

\* Mutant: close-pane is believed and the pane not looked at again.
CloseAndForget ==
    /\ host = "close"
    /\ host' = "gone"
    /\ UNCHANGED <<panes, row, handle, removed, expired, attempts, crashes, abandoned, strays>>

\* close-pane: the worker is killed now, or later (Exit), or not at all.
Close ==
    /\ host = "close"
    /\ \/ panes' = [panes EXCEPT ![handle].live = FALSE]
       \/ UNCHANGED panes
    /\ expired' = FALSE /\ host' = "closing"
    /\ UNCHANGED <<row, handle, removed, attempts, crashes, abandoned, strays>>

ClosePoll ==
    /\ host = "closing"
    /\ \/ ~ panes[handle].live /\ host' = "gone"
       \/ host' = "closed"
    /\ UNCHANGED <<panes, row, handle, removed, expired, attempts, crashes, abandoned, strays>>

\* Alive, or the query failed: once the time is up the pump goes on anyway.
CloseCheck ==
    /\ host = "closed"
    /\ host' = IF expired THEN "gone" ELSE "closing"
    /\ abandoned' = IF expired THEN abandoned + 1 ELSE abandoned
    /\ UNCHANGED <<panes, row, handle, removed, expired, attempts, crashes, strays>>

\* remove_worker, and poison's forget and rm -rf.
PoisonTimeout ==
    /\ host = "gone"
    /\ removed' = removed \cup {row} /\ row' = 0 /\ handle' = 0
    /\ host' = "end"
    /\ UNCHANGED <<panes, expired, attempts, crashes, abandoned, strays>>

-----------------------------------------------------------------------------
(* Crash and recovery. *)

\* clean_crashed_worker: the workspace and the row go, the pane is not looked
\* for (no pid and no pane id is stored).  A finished worker is replayed first;
\* either way the issue is driven again.
Recover ==
    /\ host = "down"
    /\ removed' = IF row = 0 THEN removed ELSE removed \cup {row}
    /\ row' = 0 /\ handle' = 0
    /\ panes' = IF row > Len(panes) THEN Append(panes, [live |-> FALSE, done |-> FALSE]) ELSE panes
    /\ host' = IF attempts < MaxAttempts THEN "prepare" ELSE "end"
    /\ UNCHANGED <<expired, attempts, crashes, abandoned, strays>>
=============================================================================
