-------------------------------- MODULE QaGate --------------------------------
(***************************************************************************)
(* QaGate::run: the orchestrator runs static_qa.sh inside bubblewrap, two  *)
(* threads drain its pipes, and the main thread polls for its exit until   *)
(* the deadline.  bubblewrap reports its own failures with exit code 1, so *)
(* the inner bash prints a sentinel line first.                            *)
(*                                                                         *)
(* Output is counted in units: the sentinel "S" is one, and so is every    *)
(* other piece "x" the script writes.                                      *)
(***************************************************************************)
EXTENDS Integers, Sequences

CONSTANTS
    MAX_CAPTURE,    \* qa.rs MAX_CAPTURE_BYTES: 512 KiB, in units
    PIPE,           \* what a pipe holds before its writer blocks
    MaxOutput       \* bound: units the script writes to a pipe

ASSUME QaAssumption ==
    MAX_CAPTURE \in Nat \ {0} /\ PIPE \in Nat \ {0} /\ MaxOutput \in Nat

VARIABLES
    gate,      \* step of run(): "off", "poll", "check", "join", "done"
    child,     \* [st, code]: "none", "setup", "script", "exited", "signalled"
    out, err,  \* the two pipes
    tail_out, tail_err,    \* what the reader threads have kept
    late,      \* the QA deadline has passed
    written,   \* history: units written to stdout by the script
    verdict    \* what run() returned, "none" before

qa == <<gate, child, out, err, tail_out, tail_err, late, written, verdict>>

NoChild == [st |-> "none", code |-> 0]
Alive == child.st \in {"setup", "script"}

QaInit ==
    /\ gate = "off" /\ child = NoChild
    /\ out = <<>> /\ err = <<>> /\ tail_out = <<>> /\ tail_err = <<>>
    /\ late = FALSE /\ written = 0 /\ verdict = "none"

-----------------------------------------------------------------------------
(* run() up to the spawn. *)

\* A missing script, a bwrap that is not the pinned one, a failing exec.
QaUnavailable ==
    /\ gate = "off"
    /\ gate' = "done"
    /\ verdict' \in {"script_not_found", "sandbox_unavailable", "unspawnable"}
    /\ UNCHANGED <<child, out, err, tail_out, tail_err, late, written>>

QaSpawn ==
    /\ gate = "off"
    /\ gate' = "poll" /\ child' = [st |-> "setup", code |-> 0]
    /\ out' = <<>> /\ err' = <<>> /\ tail_out' = <<>> /\ tail_err' = <<>>
    /\ late' = FALSE /\ written' = 0
    /\ UNCHANGED verdict

-----------------------------------------------------------------------------
(* The child. *)

\* bwrap cannot set the sandbox up.
SandboxFails ==
    /\ child.st = "setup"
    /\ child' = [st |-> "exited", code |-> 1]
    /\ UNCHANGED <<gate, out, err, tail_out, tail_err, late, written, verdict>>

\* bash prints the sentinel and becomes the script.
Handoff ==
    /\ child.st = "setup" /\ Len(out) < PIPE
    /\ child' = [child EXCEPT !.st = "script"]
    /\ out' = Append(out, "S")
    /\ UNCHANGED <<gate, err, tail_out, tail_err, late, written, verdict>>

ScriptWrites ==
    /\ child.st = "script" /\ written < MaxOutput
    /\ \/ Len(out) < PIPE /\ out' = Append(out, "x") /\ err' = err
       \/ Len(err) < PIPE /\ err' = Append(err, "x") /\ out' = out
    /\ written' = written + 1
    /\ UNCHANGED <<gate, child, tail_out, tail_err, late, verdict>>

\* The script ends with an exit code, or a signal ends it.
ScriptExits ==
    /\ child.st = "script"
    /\ \/ \E c \in {0, 101, 127} : child' = [st |-> "exited", code |-> c]
       \/ child' = [st |-> "signalled", code |-> 0]
    /\ UNCHANGED <<gate, out, err, tail_out, tail_err, late, written, verdict>>

Deadline ==
    /\ gate \in {"poll", "check"} /\ ~ late
    /\ late' = TRUE
    /\ UNCHANGED <<gate, child, out, err, tail_out, tail_err, written, verdict>>

-----------------------------------------------------------------------------
(* The reader threads. *)

\* Mutant: a reader stops reading when it has as much as it keeps.
drain_to_cap(buf, pipe) ==
    IF Len(buf) < MAX_CAPTURE THEN [buf |-> Append(buf, Head(pipe)), pipe |-> Tail(pipe)]
    ELSE [buf |-> buf, pipe |-> pipe]

\* drain_bounded: always read, keep the trailing MAX_CAPTURE.
drain_bounded(buf, pipe) ==
    LET all == Append(buf, Head(pipe))
    IN [buf |-> IF Len(all) > MAX_CAPTURE THEN Tail(all) ELSE all, pipe |-> Tail(pipe)]

ReadStdout ==
    /\ out # <<>>
    /\ tail_out' = drain_bounded(tail_out, out).buf
    /\ out' = drain_bounded(tail_out, out).pipe
    /\ UNCHANGED <<gate, child, err, tail_err, late, written, verdict>>

ReadStderr ==
    /\ err # <<>>
    /\ tail_err' = drain_bounded(tail_err, err).buf
    /\ err' = drain_bounded(tail_err, err).pipe
    /\ UNCHANGED <<gate, child, out, tail_out, late, written, verdict>>

-----------------------------------------------------------------------------
(* The poll loop. *)

\* try_wait.
Poll ==
    /\ gate = "poll"
    /\ gate' = IF Alive THEN "check" ELSE "join"
    /\ UNCHANGED <<child, out, err, tail_out, tail_err, late, written, verdict>>

\* try_wait fails: kill, reap, and give up on the gate.
PollFails ==
    /\ gate = "poll"
    /\ child' = [st |-> "signalled", code |-> 0]
    /\ gate' = "done" /\ verdict' = "unspawnable"
    /\ UNCHANGED <<out, err, tail_out, tail_err, late, written>>

\* The deadline test that follows: kill and reap, or sleep and poll again.
Check ==
    /\ gate = "check"
    /\ IF late
       THEN /\ child' = IF Alive THEN [st |-> "signalled", code |-> 0] ELSE child
            /\ gate' = "done" /\ verdict' = "timed_out"
       ELSE gate' = "poll" /\ UNCHANGED <<child, verdict>>
    /\ UNCHANGED <<out, err, tail_out, tail_err, late, written>>

\* strip_handoff_sentinel: the sentinel is the first thing captured.
HandedOff == tail_out # <<>> /\ Head(tail_out) = "S"

\* Mutant: the exit code is read before the sentinel is looked for.
classify_blindly ==
    IF child.st = "signalled" THEN "killed"
    ELSE IF child.code = 0 THEN "pass"
    ELSE IF child.code \in {126, 127} THEN "script_errored"
    ELSE "fail"

\* The end of run(), and classify.
classify ==
    IF ~ HandedOff THEN "sandbox_unavailable"
    ELSE IF child.st = "signalled" THEN "killed"
    ELSE IF child.code = 0 THEN "pass"
    ELSE IF child.code \in {126, 127} THEN "script_errored"
    ELSE "fail"

\* Both readers are joined: the pipes are empty and have no writer.
Judge ==
    /\ gate = "join" /\ out = <<>> /\ err = <<>>
    /\ gate' = "done" /\ verdict' = classify
    /\ UNCHANGED <<child, out, err, tail_out, tail_err, late, written>>

QaSteps ==
    QaUnavailable \/ QaSpawn \/ Poll \/ PollFails \/ Check \/ Judge

QaEnvironment == SandboxFails \/ Handoff \/ ScriptWrites \/ ScriptExits
=============================================================================
