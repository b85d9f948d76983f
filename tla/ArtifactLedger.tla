---------------------------- MODULE ArtifactLedger ----------------------------
(***************************************************************************)
(* How the work of one issue's workers reaches the tracker and the next    *)
(* Implementer: DONE is verified, its artifacts are translated into        *)
(* comments under the posted_artifacts ledger, findings are handed to the  *)
(* next round, and all of it is rebuilt from the tracker after a crash.    *)
(*                                                                         *)
(* A comment and its ledger row are two effects, and the process may die   *)
(* between any two steps.  Landing is out of scope (a converged issue      *)
(* stops here), and so are the other writes of a round, which BuildPump    *)
(* has: round and phase change in one step.                                *)
(***************************************************************************)
EXTENDS Artifacts, FiniteSets

CONSTANTS
    ImplementerOutputs,    \* the DONEs an Implementer may leave
    AdversaryOutputs,      \* the DONEs an Adversary may leave
    n_rounds,              \* clean rounds that converge
    MAX_ROUNDS,            \* pump.rs: MAX_ADVERSARY_ROUNDS, MAX_QA_RETRIES
    MaxCrashes             \* bound: how often the process dies

ASSUME LedgerAssumption ==
    /\ n_rounds \in Nat \ {0} /\ MAX_ROUNDS \in Nat \ {0} /\ MaxCrashes \in Nat

ASSUME OutputAssumption ==
    \A d \in ImplementerOutputs \cup AdversaryOutputs : WellFormed(d)

VARIABLES
    phase, round, streak,  \* the issue's row
    worker,                \* the role of its active_workers row, or "none"
    done,                  \* the DONE in that worker's workspace
    comments,              \* the tracker: [kind, role, body, key]
    posted,                \* posted_artifacts: ledger keys
    followup_proposed,     \* the tracker label
    pc,                    \* next step of the orchestrator
    plan,                  \* items still to be posted
    noted,                 \* the plan has a follow-up proposal
    prior_findings,        \* findings collected by this drive
    brief,                 \* what the worker in hand was given: [file, task]
    crashes

\* History: the DONEs that counted as a clean round.
VARIABLES clean

row == <<phase, round, streak, worker>>
tracker == <<comments, posted, followup_proposed>>
locals == <<plan, noted, prior_findings, brief>>
vars == <<row, done, tracker, pc, locals, crashes, clean>>

Terminal == {"converged", "orchestrator-error"}

NoBrief == [file |-> <<>>, task |-> <<>>]

Init ==
    /\ phase = "implementing" /\ round = 0 /\ streak = 0
    /\ worker = "none" /\ done = NoDone
    /\ comments = <<>> /\ posted = {} /\ followup_proposed = FALSE
    /\ pc = "drive" /\ plan = <<>> /\ noted = FALSE /\ prior_findings = <<>>
    /\ brief = NoBrief
    /\ crashes = 0
    /\ clean = {}

-----------------------------------------------------------------------------
(* The tracker. *)

\* CrosslinkRepo::comment_write: the role becomes the marker before the body.
comment_write(kind, role, body, key) ==
    comments' = Append(comments, [kind |-> kind, role |-> role, body |-> body, key |-> key])

\* list_comments: oldest first, without what the model remembers of their keys.
list_comments ==
    [n \in DOMAIN comments |-> [kind |-> comments[n].kind, role |-> comments[n].role,
                                body |-> comments[n].body]]

\* rehydrate_prior_findings: Adversary blockers that parse.
rehydrate_prior_findings ==
    LET parsed == [n \in DOMAIN list_comments |-> parse_finding_from_body(list_comments[n].body)]
    IN At([n \in DOMAIN parsed |-> parsed[n].val],
          {n \in DOMAIN list_comments :
             /\ list_comments[n].kind = "blocker" /\ list_comments[n].role = "adversary"
             /\ parsed[n].ok})

\* The worker's row is removed; nothing looks at its workspace any more.
RemoveWorker == worker' = "none" /\ done' = NoDone

\* poison.
Poison ==
    /\ phase' = "orchestrator-error" /\ RemoveWorker /\ pc' = "idle"
    /\ UNCHANGED <<round, streak, tracker, locals>>

-----------------------------------------------------------------------------
(* Workers run beside the orchestrator, and go on while it is down. *)

WorkerFinishes ==
    /\ worker # "none" /\ done = NoDone
    /\ pc \in {"wait", "down"}
    /\ done' \in (IF worker = "implementer" THEN ImplementerOutputs ELSE AdversaryOutputs)
    /\ UNCHANGED <<row, tracker, pc, locals, crashes, clean>>

-----------------------------------------------------------------------------
(* One round. *)

\* drive_issue: what earlier rounds found is read back from the tracker.
DriveIssue ==
    /\ pc = "drive"
    /\ prior_findings' = rehydrate_prior_findings
    /\ pc' = "implement"
    /\ UNCHANGED <<row, done, tracker, plan, noted, brief, crashes, clean>>

\* run_implementer_round up to the wait: the streak is reset, the findings are
\* written to prior_findings.jsonl and the task, the worker is registered.
SpawnImplementer ==
    /\ pc = "implement"
    /\ streak' = 0 /\ worker' = "implementer" /\ done' = NoDone
    /\ brief' = [file |-> render_prior_findings(prior_findings),
                 task |-> append_prior_findings(<<>>, prior_findings)]
    /\ pc' = "wait"
    /\ UNCHANGED <<phase, round, tracker, plan, noted, prior_findings, crashes, clean>>

\* The worker never wrote DONE, or one that does not verify.
WorkerFails ==
    /\ pc = "wait" /\ ~ verify(done).ok
    /\ Poison
    /\ UNCHANGED <<crashes, clean>>

\* translate_artifacts starts: the plan is made, or the pump returns the error
\* and the process ends.
Translate(next) ==
    LET p == translation_plan(done)
    IN IF p.ok
       THEN /\ plan' = p.val /\ pc' = next
            /\ noted' = (\E k \in DOMAIN p.val : p.val[k].kind = "note")
       ELSE /\ plan' = <<>> /\ pc' = "down" /\ noted' = FALSE

\* Note that exit_status is not looked at here.
ImplementerDone ==
    /\ pc = "wait" /\ worker = "implementer" /\ verify(done).ok
    /\ Translate("translate")
    /\ prior_findings' = IF translation_plan(done).ok THEN prior_findings ELSE <<>>
    /\ UNCHANGED <<row, done, tracker, brief, crashes, clean>>

\* run_adversary_review after the wait.  The row goes first; an empty
\* findings.jsonl is a clean round, whatever else DONE declares.
AdversaryDone ==
    LET f == from_done(done)
    IN /\ pc = "wait" /\ worker = "adversary" /\ verify(done).ok
       /\ RemoveWorker
       /\ \/ /\ ~ f.ok
             /\ phase' = "orchestrator-error" /\ pc' = "idle"
             /\ UNCHANGED <<streak, locals, clean>>
          \/ /\ f.ok /\ f.val # <<>>
             /\ Translate("translate")
             /\ prior_findings' = IF translation_plan(done).ok
                                  THEN prior_findings \o f.val ELSE <<>>
             /\ UNCHANGED <<phase, streak, brief, clean>>
          \/ /\ f.ok /\ f.val = <<>>
             /\ streak' = streak + 1
             /\ clean' = clean \cup {done}
             /\ IF streak + 1 >= n_rounds
                THEN phase' = "converged" /\ pc' = "idle"
                ELSE phase' = phase /\ pc' = "review"
             /\ UNCHANGED locals
       /\ UNCHANGED <<round, tracker, crashes>>

-----------------------------------------------------------------------------
(* The loop of translate_artifacts and of recovery's replay_done. *)

Role == IF pc \in {"replay", "replay_record"} \/ phase = "implementing"
        THEN "implementer" ELSE "adversary"

\* Mutant: the ledger is consulted for whole-file artifacts only.
is_posted_file(item) == LedgerKey(item) \in posted /\ item.finding_index = WHOLE_FILE_INDEX

is_posted(item) == LedgerKey(item) \in posted

\* Mutant: the ledger row is written first, the comment afterwards.
RecordThenWrite ==
    /\ pc \in {"translate", "replay"} /\ plan # <<>>
    /\ IF is_posted(Head(plan))
       THEN /\ plan' = Tail(plan) /\ pc' = pc
            /\ UNCHANGED <<comments, posted>>
       ELSE /\ posted' = posted \cup {LedgerKey(Head(plan))}
            /\ pc' = IF pc = "replay" THEN "replay_record" ELSE "record"
            /\ UNCHANGED <<plan, comments>>
    /\ UNCHANGED <<row, done, followup_proposed, noted, prior_findings, brief, crashes, clean>>

\* Skip what the ledger has; otherwise post the comment ...
PostItem ==
    /\ pc \in {"translate", "replay"} /\ plan # <<>>
    /\ IF is_posted(Head(plan))
       THEN /\ plan' = Tail(plan) /\ pc' = pc
            /\ UNCHANGED comments
       ELSE /\ comment_write(Head(plan).kind, Role, Head(plan).body, LedgerKey(Head(plan)))
            /\ pc' = IF pc = "replay" THEN "replay_record" ELSE "record"
            /\ UNCHANGED plan
    /\ UNCHANGED <<row, done, posted, followup_proposed, noted, prior_findings, brief, crashes, clean>>

\* ... and then record it.
record_posted ==
    /\ pc \in {"record", "replay_record"}
    /\ posted' = posted \cup {LedgerKey(Head(plan))}
    /\ plan' = Tail(plan)
    /\ pc' = IF pc = "record" THEN "translate" ELSE "replay"
    /\ UNCHANGED <<row, done, comments, followup_proposed, noted, prior_findings, brief, crashes, clean>>

\* The end of translate_artifacts: the label of a plan with proposals.
LabelFollowups ==
    /\ pc = "translate" /\ plan = <<>>
    /\ followup_proposed' = (followup_proposed \/ noted)
    /\ pc' = IF phase = "implementing" THEN "translated" ELSE "findings"
    /\ UNCHANGED <<row, done, comments, posted, locals, crashes, clean>>

-----------------------------------------------------------------------------
(* After the translation. *)

\* run_implementer_round: an empty change poisons, any other goes to QA.
EmptyChange ==
    /\ pc = "translated" /\ Poison /\ UNCHANGED <<crashes, clean>>

EnterQaGate ==
    /\ pc = "translated" /\ phase' = "qa-gate" /\ pc' = "qa"
    /\ UNCHANGED <<round, streak, worker, done, tracker, locals, crashes, clean>>

\* The static QA gate passes, or its output becomes a blocker of the
\* Implementer's role and the issue is queued again, or the gate is broken.
QaPasses ==
    /\ pc = "qa" /\ phase' = "adversary-review" /\ RemoveWorker /\ pc' = "review"
    /\ UNCHANGED <<round, streak, tracker, locals, crashes, clean>>

QaFails ==
    /\ pc = "qa"
    /\ comment_write("blocker", "implementer", <<<<"qa", round>>>>, <<>>)
    /\ RemoveWorker
    /\ IF round + 1 >= MAX_ROUNDS
       THEN phase' = "orchestrator-error" /\ pc' = "idle" /\ UNCHANGED <<round, streak>>
       ELSE phase' = "implementing" /\ round' = round + 1 /\ streak' = 0 /\ pc' = "drive"
    /\ UNCHANGED <<posted, followup_proposed, locals, crashes, clean>>

QaBroken ==
    /\ pc = "qa" /\ Poison /\ UNCHANGED <<crashes, clean>>

\* The next Adversary of the review.
SpawnAdversary ==
    /\ pc = "review"
    /\ worker' = "adversary" /\ done' = NoDone
    /\ brief' = render_inputs(<<>>, prior_findings)
    /\ pc' = "wait"
    /\ UNCHANGED <<phase, round, streak, tracker, plan, noted, prior_findings, crashes, clean>>

\* on_adversary_findings: another round in the same drive, or give up.
OnAdversaryFindings ==
    /\ pc = "findings"
    /\ IF round + 1 >= MAX_ROUNDS
       THEN phase' = "orchestrator-error" /\ pc' = "idle" /\ UNCHANGED <<round, streak>>
       ELSE phase' = "implementing" /\ round' = round + 1 /\ streak' = 0 /\ pc' = "implement"
    /\ UNCHANGED <<worker, done, tracker, locals, crashes, clean>>

-----------------------------------------------------------------------------
(* Crash and recovery. *)

Crash ==
    /\ crashes < MaxCrashes /\ pc \notin {"idle", "down"}
    /\ crashes' = crashes + 1
    /\ pc' = "down" /\ plan' = <<>> /\ noted' = FALSE /\ prior_findings' = <<>>
    /\ UNCHANGED <<row, done, tracker, brief, clean>>

\* clean_crashed_worker: the row goes and the issue is driven from the start.
CleanCrashedWorker ==
    /\ RemoveWorker /\ phase' = "implementing" /\ pc' = "drive"
    /\ UNCHANGED <<round, streak, tracker, locals, crashes>>

\* Mutant: a finished worker is cleaned up like a crashed one.
RecoverWithoutReplay ==
    /\ pc = "down"
    /\ CleanCrashedWorker
    /\ UNCHANGED clean

\* recover_issue.  Only a finished worker of an implementing issue is replayed;
\* a plan that does not parse quarantines the issue and keeps its row.
Recover ==
    /\ pc = "down"
    /\ IF phase = "implementing" /\ worker # "none" /\ verify(done).ok
       THEN IF translation_plan(done).ok
            THEN /\ Translate("replay")
                 /\ UNCHANGED <<row, done, tracker, prior_findings, brief, crashes, clean>>
            ELSE /\ phase' = "orchestrator-error" /\ pc' = "idle"
                 /\ UNCHANGED <<round, streak, worker, done, tracker, locals, crashes, clean>>
       ELSE CleanCrashedWorker /\ UNCHANGED clean

\* The end of replay_done: no label, then the worker is cleaned up.
ReplayEnds ==
    /\ pc = "replay" /\ plan = <<>>
    /\ CleanCrashedWorker
    /\ UNCHANGED clean

-----------------------------------------------------------------------------

Orchestrator ==
    \/ DriveIssue \/ SpawnImplementer \/ WorkerFails \/ ImplementerDone \/ AdversaryDone
    \/ PostItem \/ record_posted \/ LabelFollowups
    \/ EmptyChange \/ EnterQaGate \/ QaPasses \/ QaFails \/ QaBroken \/ SpawnAdversary \/ OnAdversaryFindings
    \/ Recover \/ ReplayEnds

Next == Orchestrator \/ WorkerFinishes \/ Crash

Spec == Init /\ [][Next]_vars

\* The orchestrator is one thread that goes on; a wait ends with the timeout
\* (WorkerFails), and a killed orchestrator is started again.
FairSpec == Spec /\ WF_vars(Orchestrator)
=============================================================================
