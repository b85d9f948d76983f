-------------------------------- MODULE Tick --------------------------------
(***************************************************************************)
(* The tick of the orchestrator over MANY issues (pump.rs, tick) with the  *)
(* answer-back machine switched on (answer.rs): ingest newly graphed       *)
(* issues, drive up to a budget of drivable ones, land the approved parked *)
(* ones, and deliver the answers that are owed to peers.                   *)
(*                                                                         *)
(* Driving one issue is BuildPump's subject; here it is the stages of      *)
(* Lifecycle.  The answer substate rides on the terminal phase.  Every     *)
(* action makes one durable effect; the process may die before any of them.*)
(* A tracker error ends the process (PumpError), except inside the answer  *)
(* sweep and inside recovery, which go on with the next issue: those are   *)
(* the faults.                                                             *)
(***************************************************************************)
EXTENDS Integers, FiniteSets

CONSTANTS
    Issues,                          \* crosslink issue ids
    max_concurrent_agents,           \* config: issues driven per tick
    MAX_ANSWER_ATTEMPTS,             \* answer.rs: 12
    MAX_ANSWER_DELIVERIES_PER_TICK,  \* answer.rs: 2
    Slugs,                           \* what xb-source: labels may look like
    MaxRequeues,                     \* bound: QA failures per issue
    MaxCrashes,                      \* bound: how often the process dies
    MaxFaults                        \* bound: tracker errors that are survived

ASSUME TickAssumption ==
    /\ Issues \subseteq Nat /\ IsFiniteSet(Issues)
    /\ max_concurrent_agents \in Nat
    /\ MAX_ANSWER_ATTEMPTS \in Nat \ {0}
    /\ MAX_ANSWER_DELIVERIES_PER_TICK \in Nat \ {0}
    /\ Slugs \subseteq {"valid", "invalid", "missing"}
    /\ MaxRequeues \in Nat /\ MaxCrashes \in Nat /\ MaxFaults \in Nat

None == "none"
AnswerSubstate == {"answer_pending", "answer_sent", "answer_unreachable"}

VARIABLES
    stage,      \* [Issues -> "untracked" or a stage of Lifecycle]
    substate,   \* [Issues -> the answer part of phase_substate]
    answer_attempts,
    due,        \* [Issues -> has the retry interval passed since updated_at?]
    graphed,    \* [Issues -> open, phase:graphed and unblocked in the tracker]
    inbound,    \* [Issues -> does it carry xb:inbound?]
    slug,       \* [Issues -> its xb-source:/xb-ref: labels]
    approved,   \* [Issues -> does it carry inbound-approved:land?]
    open,       \* [Issues -> open in the tracker?]
    blocker,    \* [Issues -> was the delivery-failure blocker posted?]
    human,      \* [Issues -> did a human apply the approval?]
    delivered,  \* [Issues -> answers the peer has received]
    requeues,   \* [Issues -> QA failures so far]
    orphans,    \* issues with an Implementer's workspace of this round left over
    pc, todo, cur, owed,
    deliveries, \* attempts counted in this sweep
    wire,       \* round trips really made in this sweep
    crashes, faults

tracker == <<graphed, inbound, slug, approved, open, blocker, human>>
answers == <<substate, answer_attempts, due, delivered>>
sweepLocals == <<deliveries, wire>>
rounds == <<requeues, orphans>>
vars == <<stage, answers, tracker, rounds, pc, todo, cur, owed, sweepLocals,
          crashes, faults>>

is_terminal(s) == s \in {"parked", "landed", "stopped"}

\* drivable_issue_ids goes by ascending id, list_issues by the text of the id:
\* the same order for ids with the same number of digits.
First(S) == CHOOSE i \in S : \A j \in S : i <= j

Init ==
    /\ stage = [i \in Issues |-> "untracked"]
    /\ substate = [i \in Issues |-> None]
    /\ answer_attempts = [i \in Issues |-> 0]
    /\ due = [i \in Issues |-> FALSE]
    /\ graphed = [i \in Issues |-> FALSE]
    /\ inbound \in [Issues -> BOOLEAN]
       \* only the crossbridge server routes issues
    /\ slug \in [Issues -> Slugs \cup {None}]
    /\ \A i \in Issues : slug[i] = None <=> ~ inbound[i]
       \* only a peer can have set the approval label by then
    /\ approved \in [Issues -> BOOLEAN] /\ \A i \in Issues : approved[i] => inbound[i]
    /\ open = [i \in Issues |-> TRUE]
    /\ blocker = [i \in Issues |-> FALSE]
    /\ human = [i \in Issues |-> FALSE]
    /\ delivered = [i \in Issues |-> 0]
    /\ requeues = [i \in Issues |-> 0] /\ orphans = {}
    /\ pc = "idle" /\ todo = {} /\ cur = 0 /\ owed = FALSE
    /\ deliveries = 0 /\ wire = 0 /\ crashes = 0 /\ faults = 0

-----------------------------------------------------------------------------
(* state.db: one UPDATE each. *)

set_phase_substate(i, s) ==
    substate' = [substate EXCEPT ![i] = s] /\ UNCHANGED <<answer_attempts, due>>

record_answer_unreachable(i) ==
    /\ answer_attempts' = [answer_attempts EXCEPT ![i] = @ + 1]
    /\ substate' = [substate EXCEPT ![i] = "answer_unreachable"]
    /\ due' = [due EXCEPT ![i] = FALSE]

retire_answer_unreachable(i, attempts_floor) ==
    /\ answer_attempts' = [answer_attempts EXCEPT ![i] =
                             IF @ > attempts_floor THEN @ ELSE attempts_floor]
    /\ substate' = [substate EXCEPT ![i] = "answer_unreachable"]
    /\ due' = [due EXCEPT ![i] = FALSE]

(* crosslink_api. *)

close_issue(i) == open' = [open EXCEPT ![i] = FALSE]

-----------------------------------------------------------------------------
(* Step 1: ingest. *)

\* list_by_label("open", "phase:graphed") without open blockers.
BeginIngest ==
    /\ pc = "idle"
    /\ pc' = "ingest"
    /\ todo' = {i \in Issues : graphed[i] /\ stage[i] = "untracked"}
    /\ UNCHANGED <<stage, answers, tracker, rounds, cur, owed, sweepLocals,
                   crashes, faults>>

\* Mutant: the label a peer smuggled in stays.
KeepPeerLabels ==
    /\ pc = "ingest" /\ todo # {} /\ inbound[First(todo)]
    /\ pc' = "adopt"
    /\ UNCHANGED <<stage, answers, tracker, rounds, todo, cur, owed, sweepLocals,
                   crashes, faults>>

\* sanitize_inbound_labels, before the row exists.
Sanitize ==
    /\ pc = "ingest" /\ todo # {} /\ inbound[First(todo)]
    /\ approved' = [approved EXCEPT ![First(todo)] = FALSE]
    /\ pc' = "adopt"
    /\ UNCHANGED <<stage, answers, graphed, inbound, slug, open, blocker, human, rounds,
                   todo, cur, owed, sweepLocals, crashes, faults>>

\* upsert_issue(Graphed).
Adopt ==
    /\ todo # {}
    /\ pc = "adopt" \/ (pc = "ingest" /\ ~ inbound[First(todo)])
    /\ stage' = [stage EXCEPT ![First(todo)] = "ready"]
    /\ todo' = todo \ {First(todo)}
    /\ pc' = "ingest"
    /\ UNCHANGED <<answers, tracker, rounds, cur, owed, sweepLocals, crashes, faults>>

-----------------------------------------------------------------------------
(* Step 2: drive. *)

\* Mutant: the budget is off by one.
BeginDriveShort ==
    /\ pc = "ingest" /\ todo = {}
    /\ pc' = "drive"
    /\ LET ready == {i \in Issues : stage[i] = "ready"}
       IN  todo' = {i \in ready :
                      Cardinality({j \in ready : j < i}) + 1 < max_concurrent_agents}
    /\ UNCHANGED <<stage, answers, tracker, rounds, cur, owed, sweepLocals,
                   crashes, faults>>

\* drivable_issue_ids().take(budget)
BeginDrive ==
    /\ pc = "ingest" /\ todo = {}
    /\ pc' = "drive"
    /\ LET ready == {i \in Issues : stage[i] = "ready"}
       IN  todo' = {i \in ready :
                      Cardinality({j \in ready : j < i}) < max_concurrent_agents}
    /\ UNCHANGED <<stage, answers, tracker, rounds, cur, owed, sweepLocals,
                   crashes, faults>>

DriveIssue ==
    /\ pc = "drive" /\ todo # {}
    /\ cur' = First(todo) /\ todo' = todo \ {First(todo)}
    /\ pc' = "driving"
    /\ UNCHANGED <<stage, answers, tracker, rounds, owed, sweepLocals, crashes, faults>>

\* The issue passes QA and goes into review and landing.
Work ==
    /\ pc = "driving" /\ stage[cur] = "ready"
    /\ stage' = [stage EXCEPT ![cur] = "working"]
    /\ UNCHANGED <<answers, tracker, rounds, pc, todo, cur, owed, sweepLocals,
                   crashes, faults>>

\* The review starts without the Implementer's workspace, but the best-effort
\* forget may fail (forget_best_effort, which BuildPump's ForgetImplementer is).
ForgetFails ==
    /\ pc = "driving" /\ stage[cur] = "working"
    /\ faults < MaxFaults /\ faults' = faults + 1
    /\ orphans' = orphans \cup {cur}
    /\ UNCHANGED <<stage, answers, tracker, requeues, pc, todo, cur, owed, sweepLocals, crashes>>

\* drive_issue ends: requeued under the next round, parked, landed or given up.
EndIssue ==
    /\ pc = "driving"
    /\ \/ /\ requeues[cur] < MaxRequeues
          /\ requeues' = [requeues EXCEPT ![cur] = @ + 1]
          /\ stage' = [stage EXCEPT ![cur] = "ready"] /\ orphans' = orphans \ {cur}
          /\ pc' = "drive"
       \/ /\ stage[cur] = "working"
          /\ stage' = [stage EXCEPT ![cur] =
                         IF inbound[cur] /\ ~ approved[cur] THEN "parked" ELSE "landed"]
          /\ pc' = "arm" /\ UNCHANGED rounds
       \/ /\ stage' = [stage EXCEPT ![cur] = "stopped"]
          /\ pc' = "arm" /\ UNCHANGED rounds
    /\ UNCHANGED <<answers, tracker, todo, cur, owed, sweepLocals, crashes, faults>>

\* on_issue_terminal: queue the answer of an inbound issue, once.
Arm ==
    /\ pc = "arm"
    /\ IF inbound[cur] /\ substate[cur] \notin AnswerSubstate
       THEN set_phase_substate(cur, "answer_pending")
       ELSE UNCHANGED <<substate, answer_attempts, due>>
    /\ pc' = "drive"
    /\ UNCHANGED <<stage, delivered, tracker, rounds, todo, cur,
                   owed, sweepLocals, crashes, faults>>

-----------------------------------------------------------------------------
(* Step 2b: land what a human approved. *)

BeginResume ==
    /\ pc = "drive" /\ todo = {}
    /\ pc' = "resume"
    /\ todo' = {i \in Issues : stage[i] = "parked"}
    /\ UNCHANGED <<stage, answers, tracker, rounds, cur, owed, sweepLocals,
                   crashes, faults>>

\* Mutant: an answer that was sent counts as owed.
OweAnyAnswer ==
    /\ pc = "resume" /\ todo # {}
    /\ todo' = todo \ {First(todo)}
    /\ IF approved[First(todo)]
       THEN /\ owed' = (substate[First(todo)] \in AnswerSubstate)
            /\ cur' = First(todo) /\ pc' = "land"
       ELSE UNCHANGED <<owed, cur, pc>>
    /\ UNCHANGED <<stage, answers, tracker, rounds, sweepLocals, crashes, faults>>

\* resume_approved_inbound looks at one parked issue.
ResumeApprovedInbound ==
    /\ pc = "resume" /\ todo # {}
    /\ todo' = todo \ {First(todo)}
    /\ IF approved[First(todo)]
       THEN /\ owed' = (substate[First(todo)] \in {"answer_pending", "answer_unreachable"})
            /\ cur' = First(todo) /\ pc' = "land"
       ELSE UNCHANGED <<owed, cur, pc>>
    /\ UNCHANGED <<stage, answers, tracker, rounds, sweepLocals, crashes, faults>>

\* land: the first phase it writes takes the place of the answer substate.
LandApproved ==
    /\ pc = "land"
    /\ \/ stage[cur] = "parked" /\ stage' = [stage EXCEPT ![cur] = "working"] /\ pc' = pc
       \/ /\ stage[cur] = "working" /\ stage' = [stage EXCEPT ![cur] = "landed"]
          /\ pc' = IF owed THEN "rearm" ELSE "resume"
       \/ /\ stage' = [stage EXCEPT ![cur] = "stopped"]
          /\ pc' = IF owed THEN "rearm" ELSE "resume"
    /\ substate' = [substate EXCEPT ![cur] = None]
    /\ UNCHANGED <<answer_attempts, due, delivered, tracker, rounds, todo, cur, owed,
                   sweepLocals, crashes, faults>>

\* Mutant: the park's answer is forgotten.
NeverRearm ==
    /\ pc = "rearm"
    /\ pc' = "resume"
    /\ UNCHANGED <<stage, answers, tracker, rounds, todo, cur, owed,
                   sweepLocals, crashes, faults>>

\* The answer the park still owed is queued again.
Rearm ==
    /\ pc = "rearm"
    /\ set_phase_substate(cur, "answer_pending")
    /\ pc' = "resume"
    /\ UNCHANGED <<stage, delivered, tracker, rounds, todo, cur,
                   owed, sweepLocals, crashes, faults>>

-----------------------------------------------------------------------------
(* Step 3: the answer sweep. *)

BeginSweep ==
    /\ pc = "resume" /\ todo = {}
    /\ pc' = "sweep"
    /\ todo' = {i \in Issues : substate[i] \in {"answer_pending", "answer_unreachable"}}
    /\ deliveries' = 0 /\ wire' = 0
    /\ UNCHANGED <<stage, answers, tracker, rounds, cur, owed, crashes, faults>>

\* Mutant: one attempt too many.
CappedLate == deliveries > MAX_ANSWER_DELIVERIES_PER_TICK

Capped == deliveries >= MAX_ANSWER_DELIVERIES_PER_TICK

\* The guards of a degraded retry: attempts left, and the interval passed.
MayRetry(i) == answer_attempts[i] < MAX_ANSWER_ATTEMPTS /\ due[i]

Eligible(i) == substate[i] = "answer_pending" \/ MayRetry(i)

SkipRetry ==
    /\ pc = "sweep" /\ todo # {} /\ ~ Capped
    /\ ~ Eligible(First(todo))
    /\ todo' = todo \ {First(todo)}
    /\ UNCHANGED <<stage, answers, tracker, rounds, pc, cur, owed, sweepLocals,
                   crashes, faults>>

\* External: the peer takes the request off its socket.
PeerTakes(i) == delivered' = [delivered EXCEPT ![i] = @ + 1]

\* No connection, or the frame is not taken within ANSWER_IO_TIMEOUT, or the
\* peer answers with an error.
NotTaken == delivered' = delivered /\ faults' = faults /\ pc' = "failed"

\* The peer took the answer, but its reply is late, cut off or no frame:
\* classify_wire_error makes it a failure like any other.
ReplyLost(i) ==
    /\ faults < MaxFaults /\ faults' = faults + 1
    /\ PeerTakes(i) /\ pc' = "failed"

Answered(i) == PeerTakes(i) /\ faults' = faults /\ pc' = "sent"

\* crossbridge_api::answer: connect, write the request, read the response.
round_trip(i) == wire' = wire + 1 /\ (NotTaken \/ ReplyLost(i) \/ Answered(i))

is_valid_peer_slug(i) == slug[i] = "valid"

\* attempt_delivery, up to the round trip: route it, send it, or not.
AttemptDelivery ==
    /\ pc = "sweep" /\ todo # {} /\ ~ Capped
    /\ Eligible(First(todo))
    /\ cur' = First(todo)
    /\ todo' = todo \ {First(todo)}
    /\ \/ /\ slug[cur'] = "missing" /\ pc' = "failed"
          /\ UNCHANGED <<wire, delivered, faults>>
       \/ /\ slug[cur'] # "missing" /\ ~ is_valid_peer_slug(cur') /\ pc' = "retire"
          /\ UNCHANGED <<wire, delivered, faults>>
       \/ is_valid_peer_slug(cur') /\ round_trip(cur')
    /\ UNCHANGED <<stage, substate, answer_attempts, due, tracker, rounds, owed,
                   deliveries, crashes>>

\* Reading the issue errs, or writing the result to state.db does: the issue
\* is skipped and nothing is counted.
SweepError ==
    /\ faults < MaxFaults /\ faults' = faults + 1
    /\ \/ /\ pc = "sweep" /\ todo # {} /\ ~ Capped
          /\ Eligible(First(todo))
          /\ todo' = todo \ {First(todo)}
       \/ pc \in {"failed", "retire", "sent"} /\ todo' = todo
    /\ pc' = "sweep"
    /\ UNCHANGED <<stage, answers, tracker, rounds, cur, owed, sweepLocals, crashes>>

\* record_failure / record_invalid_slug: one UPDATE.  The first failure, the
\* one out of answer_pending, goes on to post a blocker.
RecordUnreachable ==
    /\ pc \in {"failed", "retire"}
    /\ IF pc = "failed" THEN record_answer_unreachable(cur)
       ELSE retire_answer_unreachable(cur, MAX_ANSWER_ATTEMPTS)
    /\ IF substate[cur] = "answer_pending"
       THEN pc' = "blocker" /\ deliveries' = deliveries
       ELSE pc' = "sweep" /\ deliveries' = deliveries + 1
    /\ UNCHANGED <<stage, delivered, tracker, rounds, todo, cur, owed, wire,
                   crashes, faults>>

\* comment_write of the blocker.
PostBlocker ==
    /\ pc = "blocker"
    /\ \/ blocker' = [blocker EXCEPT ![cur] = TRUE] /\ deliveries' = deliveries + 1
          /\ faults' = faults
       \/ faults < MaxFaults /\ faults' = faults + 1 /\ UNCHANGED <<blocker, deliveries>>
    /\ pc' = "sweep"
    /\ UNCHANGED <<stage, answers, graphed, inbound, slug, approved, open, human, rounds,
                   todo, cur, owed, wire, crashes>>

\* record_success: state.db first ...
RecordSent ==
    /\ pc = "sent"
    /\ set_phase_substate(cur, "answer_sent")
    /\ pc' = "close"
    /\ UNCHANGED <<stage, delivered, tracker, rounds, todo, cur,
                   owed, sweepLocals, crashes, faults>>

\* ... then the courtesy label and the close.
CloseIssue ==
    /\ pc = "close"
    /\ \/ close_issue(cur) /\ deliveries' = deliveries + 1
          /\ faults' = faults
       \/ faults < MaxFaults /\ faults' = faults + 1 /\ UNCHANGED <<open, deliveries>>
    /\ pc' = "sweep"
    /\ UNCHANGED <<stage, answers, graphed, inbound, slug, approved, blocker, human, rounds,
                   todo, cur, owed, wire, crashes>>

\* The sweep is through, or has reached its cap: the tick is over.
EndSweep ==
    /\ pc = "sweep" /\ (todo = {} \/ Capped)
    /\ pc' = "idle" /\ todo' = {} /\ cur' = 0 /\ owed' = FALSE
    /\ deliveries' = 0 /\ wire' = 0
    /\ UNCHANGED <<stage, answers, tracker, rounds, crashes, faults>>

-----------------------------------------------------------------------------
(* Crash and recovery. *)

\* An Implementer in hand may leave its workspace: recovery reclaims it only
\* by the worker's row, and forgets it best effort.
Crash ==
    /\ crashes < MaxCrashes /\ pc # "down"
    /\ crashes' = crashes + 1
    /\ \/ orphans' = orphans
       \/ pc = "driving" /\ stage[cur] = "ready" /\ orphans' = orphans \cup {cur}
    /\ pc' = "down" /\ todo' = {} /\ cur' = 0 /\ owed' = FALSE
    /\ deliveries' = 0 /\ wire' = 0
    /\ UNCHANGED <<stage, answers, tracker, requeues, faults>>

\* Mutant: an answer that is only pending is closed too.
RecoverAnyAnswer ==
    /\ pc = "down"
    /\ pc' = "recover"
    /\ todo' = {i \in Issues : stage[i] \in {"ready", "working"}
                                \/ substate[i] \in AnswerSubstate}
    /\ UNCHANGED <<stage, answers, tracker, rounds, cur, owed, sweepLocals,
                   crashes, faults>>

\* recover_with: every issue that is not terminal, and the terminal ones that
\* are in the answer machine.
BeginRecovery ==
    /\ pc = "down"
    /\ pc' = "recover"
    /\ todo' = {i \in Issues : stage[i] \in {"ready", "working"}
                                \/ substate[i] = "answer_sent"}
    /\ UNCHANGED <<stage, answers, tracker, rounds, cur, owed, sweepLocals,
                   crashes, faults>>

\* An issue that is not terminal is rolled back -- a review that had just begun
\* may leave the Implementer's workspace -- quarantined, landed, or left as it is
\* (recover_issue, which is Recovery's subject).  A landing goes on with the
\* stored change, which is there once the work is approved, or with what the
\* workspace scan finds: an orphan of this round, and there no gate is asked.
RecoverIssue ==
    /\ pc = "recover" /\ todo # {} /\ ~ is_terminal(stage[First(todo)])
    /\ \/ /\ stage' = [stage EXCEPT ![First(todo)] = "ready"]
          /\ \/ orphans' = orphans
             \/ stage[First(todo)] = "working" /\ orphans' = orphans \cup {First(todo)}
       \/ stage' = [stage EXCEPT ![First(todo)] = "stopped"] /\ orphans' = orphans
       \/ /\ stage[First(todo)] = "working"
          /\ inbound[First(todo)] => approved[First(todo)] \/ First(todo) \in orphans
          /\ stage' = [stage EXCEPT ![First(todo)] = "landed"] /\ orphans' = orphans
       \/ stage' = stage /\ orphans' = orphans
    /\ todo' = todo \ {First(todo)}
    /\ UNCHANGED <<answers, tracker, requeues, pc, cur, owed, sweepLocals, crashes, faults>>

\* complete_answer_close: close what was answered; an error quarantines it.
CompleteAnswerClose ==
    /\ pc = "recover" /\ todo # {} /\ is_terminal(stage[First(todo)])
    /\ \/ /\ close_issue(First(todo))
          /\ UNCHANGED <<stage, substate, faults>>
       \/ /\ faults < MaxFaults /\ faults' = faults + 1
          /\ stage' = [stage EXCEPT ![First(todo)] = "stopped"]
          /\ substate' = [substate EXCEPT ![First(todo)] = None]
          /\ open' = open
    /\ todo' = todo \ {First(todo)}
    /\ UNCHANGED <<answer_attempts, due, delivered, graphed, inbound, slug, approved, blocker,
                   human, rounds, pc, cur, owed, sweepLocals, crashes>>

EndRecovery ==
    /\ pc = "recover" /\ todo = {}
    /\ pc' = "idle"
    /\ UNCHANGED <<stage, answers, tracker, rounds, todo, cur, owed, sweepLocals,
                   crashes, faults>>

-----------------------------------------------------------------------------
(* The environment. *)

\* External: the section chief graphs an issue whose blockers are closed.
Graph(i) ==
    /\ ~ graphed[i]
    /\ graphed' = [graphed EXCEPT ![i] = TRUE]
    /\ UNCHANGED <<stage, answers, inbound, slug, approved, open, blocker, human, rounds,
                   pc, todo, cur, owed, sweepLocals, crashes, faults>>

\* External: a human approves the landing of an inbound issue.  (Before the
\* issue is adopted Sanitize would take the label for the peer's; once it has
\* landed or stopped nobody reads the label.)
Approve(i) ==
    /\ inbound[i] /\ ~ approved[i] /\ stage[i] \in {"ready", "working", "parked"}
    /\ approved' = [approved EXCEPT ![i] = TRUE]
    /\ human' = [human EXCEPT ![i] = TRUE]
    /\ UNCHANGED <<stage, answers, graphed, inbound, slug, open, blocker, rounds,
                   pc, todo, cur, owed, sweepLocals, crashes, faults>>

\* The clock: the interval (and the issue's jitter) since the last attempt,
\* which is read only while there are attempts left.
RetryDue(i) ==
    /\ substate[i] = "answer_unreachable" /\ ~ due[i]
    /\ answer_attempts[i] < MAX_ANSWER_ATTEMPTS
    /\ due' = [due EXCEPT ![i] = TRUE]
    /\ UNCHANGED <<stage, substate, answer_attempts, delivered, tracker, rounds,
                   pc, todo, cur, owed, sweepLocals, crashes, faults>>

Orchestrator ==
    \/ BeginIngest \/ Sanitize \/ Adopt
    \/ BeginDrive \/ DriveIssue \/ Work \/ ForgetFails \/ EndIssue \/ Arm
    \/ BeginResume \/ ResumeApprovedInbound \/ LandApproved \/ Rearm
    \/ BeginSweep \/ SkipRetry \/ AttemptDelivery \/ SweepError
    \/ RecordUnreachable \/ PostBlocker \/ RecordSent \/ CloseIssue \/ EndSweep
    \/ BeginRecovery \/ RecoverIssue \/ CompleteAnswerClose \/ EndRecovery

Next == \/ Orchestrator
        \/ Crash
        \/ \E i \in Issues : Graph(i) \/ Approve(i) \/ RetryDue(i)

Spec == Init /\ [][Next]_vars

\* run_loop ticks for ever, and the clock runs.
FairSpec == /\ Spec
            /\ WF_vars(Orchestrator)
            /\ \A i \in Issues : WF_vars(RetryDue(i))
=============================================================================
