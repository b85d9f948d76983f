------------------------------ MODULE IssueState ------------------------------
(***************************************************************************)
(* The state one issue owns while the orchestrator drives it: its row in   *)
(* state.db, its active_workers rows, its jj workspaces, the trunk that    *)
(* the bookmark `main` names, the per-issue branch and pull request of     *)
(* remote mode, and the locals of the (single-threaded) orchestrator.      *)
(*                                                                         *)
(* Granularity: an action makes ONE durable effect (a state.db statement,  *)
(* a jj transaction, a call to GitHub), because the process may die        *)
(* between any two of them.  `pc` names the next effect.                   *)
(*                                                                         *)
(* Commits are abstracted to what landing and review tell apart; see       *)
(* Commits below.  The answer-back machine is off in these modules         *)
(* (config.crossbridge.enabled = false), it has modules of its own.        *)
(***************************************************************************)
EXTENDS Integers, Sequences, FiniteSets

CONSTANTS
    n_rounds,              \* [convergence] n_rounds: clean rounds that converge
    MAX_QA_RETRIES,        \* pump.rs: 3
    MAX_ADVERSARY_ROUNDS,  \* pump.rs: 6
    MAX_MERGER_SPAWNS,     \* pump.rs: 1
    Origins,               \* where the issue may come from: {TRUE} = xb:inbound
    Modes,                 \* {TRUE} = tracker_remote set, {FALSE} = local mode
    Shapes,                \* how an Implementer leaves its work in the graph
    MaxCrashes,            \* bound: how often the process dies
    MaxAdvances,           \* bound: how often somebody else advances main
    MaxLeaks,              \* bound: how often a best-effort forget fails
    OpsMayFail,            \* may jj, the push, GitHub or the tracker fail us?
    LogMayFail             \* may events.jsonl refuse recovery's record of a phase?

\* config.rs validates n_rounds at load; the other three are source constants.
ASSUME ConfigAssumption ==
    /\ MAX_ADVERSARY_ROUNDS \in Nat \ {0}
    /\ n_rounds \in 1 .. MAX_ADVERSARY_ROUNDS
    /\ MAX_QA_RETRIES \in Nat \ {0}
    /\ MAX_MERGER_SPAWNS \in Nat

ASSUME EnvironmentAssumption ==
    /\ Origins \subseteq BOOLEAN
    /\ Modes \subseteq BOOLEAN
    /\ Shapes \subseteq {"own", "below"}
    /\ MaxCrashes \in Nat
    /\ MaxAdvances \in Nat
    /\ MaxLeaks \in Nat
    /\ OpsMayFail \in BOOLEAN
    /\ LogMayFail \in BOOLEAN

-----------------------------------------------------------------------------
(* Phases and substates (state.rs). *)

None == "none"

Phase == {"graphed", "implementing", "qa-gate", "adversary-review",
          "converged", "landing", "merged", "pr-open",
          "awaiting-human-merge", "awaiting-inbound-approval",
          "orchestrator-error"}

\* The substates the landing machines write.  qa_running and
\* qa_passed_pending_transition exist in state.rs but no code writes them; the
\* three answer_* substates belong to the answer-back machine.
LocalSubstate == {"rebase_started", "rebase_done_bookmark_pending", "merging",
                  "bookmark_moved_complete"}
RemoteSubstate == {"push_started", "push_done_pr_pending", "pr_created"}
QaSubstate == {"qa_running", "qa_passed_pending_transition"}
AnswerSubstate == {"answer_pending", "answer_sent", "answer_unreachable"}
PhaseSubstate == LocalSubstate \cup RemoteSubstate \cup QaSubstate \cup AnswerSubstate

is_drivable(p) == p \in {"graphed", "implementing", "qa-gate"}

is_terminal(p) == p \in {"merged", "pr-open", "awaiting-human-merge",
                         "awaiting-inbound-approval", "orchestrator-error"}

-----------------------------------------------------------------------------
(* The commit graph.  Trunk is linear and its commits are numbered, so a   *)
(* commit is placed by `base`, the length of trunk below it.               *)
(*   origin  the Implementer workspace the work comes from (0: not ours)   *)
(*   work    "own": the commit's own diff is the work; "below": the work   *)
(*           is in ancestors of the commit, above base; "gone": neither    *)
(*   form    how the commit came to be                                     *)

Form == {"original", "rebased", "conflicted", "merged"}
Commits == [origin : Nat, base : Nat, work : {"own", "below", "gone"}, form : Form]

\* A value no commit has: an Option that is None.
NoCommit == [origin |-> 0, base |-> 0, work |-> "gone", form |-> "original"]

WorkspacePhase == {"implementing", "adversary-review", "landing"}
Workspaces == [phase : WorkspacePhase, round : Nat, uuid : Nat \ {0},
               commit : Commits, st : {"prepared", "running", "done"}]

\* How a commit gets to trunk: by the pump, by recovery from the stored
\* landing_change, by recovery from a workspace scan, or by somebody else; and
\* "raced" by somebody else while a move of ours is past its guard.
Foreign == {"external", "raced"}
Source == {"pump", "stored", "scan"} \cup Foreign

VARIABLES
    phase, phase_substate, round, empty_round_streak,
    landing_retry_count, landing_change,        \* the issues row
    workers,       \* the issue's active_workers rows, by workspace uuid
    workspaces,    \* the issue's registered jj workspaces
    trunk,         \* the commits main stands on, with their sources
    branch,        \* the local bookmark vdd/<id>-<slug>
    pushed,        \* the same branch on the git remote
    prs,           \* pull requests ever opened for that branch
    open_prs,      \* those of them still open
    inbound,       \* the issue carries xb:inbound
    remote,        \* crosslink's tracker_remote is set
    approved,      \* the issue carries inbound-approved:land
    pc,            \* the orchestrator's next durable effect
    goal,          \* why the current worker is being cleaned up
    cur,           \* uuid of the workspace in hand, 0 if none
    change,        \* the commit under review or landing
    source,        \* who is landing: the pump or a kind of recovery
    iter,          \* index of the adversary loop
    minted,        \* workspaces created so far: uuids are fresh
    qa_passed,     \* <<origin, form>> whose tree passed static QA
    clean,         \* <<origin, k>>: k-th clean round in a row on that work
    flagged,       \* origins an Adversary reported findings on
    crashes, leaks \* how much of the bounds is used up

row == <<phase, phase_substate, round, empty_round_streak,
         landing_retry_count, landing_change>>
remoteState == <<branch, pushed, prs, open_prs>>
labels == <<inbound, remote, approved>>
locals == <<goal, cur, change, source, iter>>
history == <<qa_passed, clean, flagged>>
vars == <<row, workers, workspaces, trunk, remoteState, labels, pc, locals,
          minted, history, crashes, leaks>>

-----------------------------------------------------------------------------
(* Primitives of state.rs, workspace.rs and jj_api. *)

\* StateDb::set_phase: one UPDATE of phase and substate.
set_phase(p, s) ==
    /\ phase' = p
    /\ phase_substate' = s
    /\ UNCHANGED <<round, empty_round_streak, landing_retry_count, landing_change>>

Tip == trunk[Len(trunk)].commit

\* bookmark_target(main) = Some(c)
main_is(c) == trunk # <<>> /\ Tip = c

\* is_ancestor(main, c): main is c or below it.
is_ancestor_of(c) == main_is(c) \/ c.base = Len(trunk)

\* bookmark_move: main now names c, whatever it named before.
bookmark_move(c, who) ==
    trunk' = Append(SubSeq(trunk, 1, c.base), [commit |-> c, source |-> who])

\* Mutant: the workspace is named by its round, without a uuid.
prepare_by_round(p, c) ==
    /\ minted' = minted + 1
    /\ cur' = round + 1
    /\ workspaces' = workspaces \cup
         {[phase |-> p, round |-> round, uuid |-> round + 1,
           commit |-> c, st |-> "prepared"]}

\* WorkspaceManager::prepare: a fresh workspace under a fresh name, its
\* working copy an empty commit on `commit.base`.
prepare(p, c) ==
    /\ minted' = minted + 1
    /\ cur' = minted + 1
    /\ workspaces' = workspaces \cup
         {[phase |-> p, round |-> round, uuid |-> minted + 1,
           commit |-> c, st |-> "prepared"]}

Current == CHOOSE w \in workspaces : w.uuid = cur

\* WorkspaceManager::forget
forget(u) == workspaces' = {w \in workspaces : w.uuid # u} /\ leaks' = leaks

\* `let _ = manager.forget(..)`: the error is dropped, so the workspace may
\* stay registered.
forget_best_effort(u) ==
    \/ forget(u)
    \/ leaks < MaxLeaks /\ leaks' = leaks + 1 /\ workspaces' = workspaces

\* The call that drives the issue returns: the tick goes on.
Return ==
    /\ pc' = "idle"
    /\ goal' = None /\ cur' = 0 /\ change' = NoCommit
    /\ source' = "pump" /\ iter' = 0
=============================================================================
