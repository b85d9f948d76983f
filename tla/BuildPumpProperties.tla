------------------------- MODULE BuildPumpProperties -------------------------
(***************************************************************************)
(* What makes the build pump correct: what may reach main or a pull        *)
(* request, what a crash may cost, and what must happen in the end.        *)
(***************************************************************************)
EXTENDS BuildPump

PCs == {"idle", "reset_streak", "prepare", "register", "wait", "enter_qa", "qa",
        "drop_row", "drop_ws", "poison", "qa_failed", "enter_review", "forget_impl",
        "adv_prepare", "findings", "reimplement", "clean", "converge", "land",
        "park_store", "park_inbound", "merger_gate", "merger_prepare", "check_merge",
        "park_human", "rebase_start", "rebase", "merging", "rebase_done", "retry_land",
        "move", "bookmark_move", "refused", "moved", "merged_step", "push_start", "point",
        "push", "push_done", "pr", "pr_made", "pr_adopt", "pr_open", "forget_branch",
        "down", "rec_ws", "rec_row", "rollback", "quarantine"}
Goals == {None, "fail", "qa_pass", "qa_fail", "findings", "clean", "merged",
          "park", "park_merger", "landed", "rollback"}

RowOK ==
    /\ phase \in Phase /\ phase_substate \in PhaseSubstate \cup {None}
    /\ round \in Nat /\ empty_round_streak \in Nat /\ landing_retry_count \in Nat
    /\ landing_change \in Commits

RegistryOK ==
    /\ workers \subseteq Nat
    /\ workspaces \subseteq Workspaces
    /\ minted \in Nat
    /\ \A v, w \in workspaces : v.uuid = w.uuid => v = w

TrunkOK == trunk \in Seq([commit : Commits, source : Source])

RemoteOK == branch \in Commits /\ pushed \in Commits /\ prs \in Nat /\ open_prs \in Nat

LabelsOK == inbound \in BOOLEAN /\ remote \in BOOLEAN /\ approved \in BOOLEAN

LocalsOK ==
    /\ pc \in PCs /\ goal \in Goals /\ cur \in Nat /\ change \in Commits
    /\ source \in Source /\ iter \in Nat

HistoryOK ==
    /\ qa_passed \subseteq Nat \X Form /\ clean \subseteq Nat \X Nat
    /\ flagged \subseteq Nat
    /\ crashes \in Nat /\ leaks \in Nat

\* Every variable has its type, and the workspace registry is keyed by name:
\* no two registered workspaces share one (WorkspaceName::generate).
TypeOK == /\ RowOK /\ RegistryOK /\ TrunkOK /\ RemoteOK /\ LabelsOK
          /\ LocalsOK /\ HistoryOK

\* The steps at which a workspace is in hand.
Holding == {"register", "wait", "enter_qa", "qa", "drop_row", "enter_review", "check_merge"}

\* Whenever the pump is about to look into the workspace in hand, that
\* workspace is registered: change_revset never ends in LandingTargetMissing.
InHand == pc \in Holding => \E w \in workspaces : w.uuid = cur

\* What a move is about to move main to stands on main.
BaseAtMove == pc = "bookmark_move" => change.base <= Len(trunk)

\* The inductive form of TypeOK.
TypeInv == TypeOK /\ InHand /\ BaseAtMove /\ \A w \in workspaces : w.uuid <= minted

-----------------------------------------------------------------------------
(* What may land. *)

\* The work passed static QA, n_rounds Adversaries in a row found nothing in
\* it, and none ever found anything.
Vetted(o) == /\ <<o, "original">> \in qa_passed
             /\ <<o, n_rounds>> \in clean
             /\ o \notin flagged

\* The places on main that this orchestrator filled, and those of them it
\* filled with a change it knew: the pump's own or the stored landing_change,
\* not what a workspace scan came up with.
Ours == {i \in DOMAIN trunk : trunk[i].source \notin Foreign}
Chosen == {i \in Ours : trunk[i].source # "scan"}

\* However often the process dies: what the pump lands, and what recovery
\* lands from the stored landing_change, is work that passed QA and earned
\* its whole streak of clean rounds -- on that very implementation, never
\* carried over from an earlier one (pump.rs, on_clean_round and the reset in
\* run_implementer_round).
ChosenWorkIsVetted == \A i \in Chosen : Vetted(trunk[i].commit.origin)

\* Nothing but vetted work gets to main, the landing that recovery restarts
\* from a workspace scan included (recovery.rs, landing_change_revset).
\* Holds for one crash; a second one refutes it.
OnlyVettedLands == \A i \in Ours : Vetted(trunk[i].commit.origin)

\* A pull request is only ever opened on vetted work (land_remote and its
\* resumption, which takes the change from the branch).
PrIsVetted == prs > 0 => Vetted(pushed.origin)

\* The pump never lands an inbound issue's work, nor does it or its
\* resumption open a pull request for it, before a human approved it.
PumpInboundGate ==
    /\ \A i \in Ours : inbound /\ trunk[i].source = "pump" => approved
    /\ inbound /\ prs > 0 => approved

\* A rebase that conflicted lands only as a Merger's conflict-free tree that
\* passed QA again (resolve_conflict_with_merger).
NoUnresolvedMergeLands ==
    \A i \in Chosen : /\ trunk[i].commit.form # "conflicted"
                      /\ trunk[i].commit.form = "merged" =>
                           <<trunk[i].commit.origin, "merged">> \in qa_passed

\* Landing is not repeated: whatever crashed when, main takes the issue's work
\* at most once (landing.rs: re-entry skips what is already done).
LandsOnce == Cardinality(Ours) <= 1

\* A commit of main stays where it is, whatever lands, crashes or is resumed,
\* unless somebody put it there after the guard of a move of ours had read
\* main: the move does not look again, and drops it (fast_forward_bookmark,
\* whose doc claims otherwise).
OnlyRacedIsLost ==
    [][\A i \in DOMAIN trunk : ~ (pc = "bookmark_move" /\ trunk[i].source = "raced")
           => i \in DOMAIN trunk' /\ trunk'[i] = trunk[i]]_trunk

\* At most one pull request is open for the issue's branch, even if the
\* process died after GitHub made it and before state.db knew (pr_step).
OneOpenPr == open_prs <= 1

-----------------------------------------------------------------------------
(* What a crash may cost. *)

\* The names under which workspaces are registered; TypeOK: one each.
Registered == {w.uuid : w \in workspaces}

\* An issue has at most one worker row, so the first row is the ground truth
\* recover_issue takes it for; between ticks it has none, as every path of the
\* pump and every recovery plan that succeeds drops the row it met; and there it
\* leaves no more workspaces registered than there were crashes and failing
\* forgets: none of the paths of the pump or of recovery leaks one by itself.
Reclaimed ==
    /\ Cardinality(workers) <= 1
    /\ pc = "idle" /\ phase # "orchestrator-error" => workers = {}
    /\ pc = "idle" => Cardinality(Registered) <= crashes + leaks

\* The lifecycle stage of a phase.
StageOf(p) ==
    CASE is_drivable(p)                               -> "ready"
      [] p \in {"adversary-review", "converged", "landing"} -> "working"
      [] p = "awaiting-inbound-approval"              -> "parked"
      [] p \in {"merged", "pr-open"}                  -> "landed"
      [] OTHER                                        -> "stopped"

L == INSTANCE Lifecycle WITH stage <- StageOf(phase)

\* The pump, its landings and its recovery implement the lifecycle: a terminal
\* phase is final, a parked issue moves only when it is approved, and inbound
\* work is recorded as landed only with an approval (state.rs, is_terminal;
\* pump.rs, land).  Holds for one crash if no workspace is left behind: a scan
\* that finds one lands it without looking at the gate.
ImplementsLifecycle == L!Lifecycle

-----------------------------------------------------------------------------
(* What must happen. *)

\* Every issue of our own ends in a terminal phase for good: no worker that
\* hangs, no review that never ends and no crash leaves it in a phase nobody
\* drives (drive_issue, recover_issue).
OwnIssueEnds == ~ inbound => <>[]is_terminal(phase)

\* An approved inbound issue is not forgotten in its parking place, and a crash
\* does not lose what it should land (resume_approved_inbound).
ApprovedIsResumed ==
    (phase = "awaiting-inbound-approval" /\ approved)
        ~> (phase # "awaiting-inbound-approval")

-----------------------------------------------------------------------------
(* Why ChosenWorkIsVetted and PrIsVetted hold: the inductive invariant that *)
(* follows one piece of work from its Implementer to main.                  *)

\* Origins are workspaces that were made: a new Implementer's is new.
OriginsMinted ==
    /\ change.origin <= minted /\ landing_change.origin <= minted /\ branch.origin <= minted
    /\ \A w \in workspaces : w.commit.origin <= minted
    /\ \A o \in flagged : o <= minted
    /\ \A p \in clean : p[1] <= minted

\* The phase in state.db tells at which steps the pump may be ...
PhaseAtStep ==
    /\ pc \in {"reset_streak", "prepare", "enter_qa"} => phase = "implementing"
    /\ pc \in {"register", "wait"} => phase # "qa-gate"
    /\ pc \in {"qa", "enter_review"} => phase = "qa-gate"
    /\ pc \in {"forget_impl", "adv_prepare", "clean"} => phase = "adversary-review"
    /\ pc \in {"merger_gate", "merger_prepare", "check_merge"} => phase = "landing"
    /\ pc = "drop_row" /\ goal = "qa_pass" => phase = "qa-gate"
    /\ pc = "drop_row" /\ goal = "merged" => phase = "landing"
    /\ pc \in {"drop_row", "drop_ws"} /\ goal = "clean" => phase = "adversary-review"

Role(p) == IF p \in {"implementing", "qa-gate"} THEN "implementing" ELSE p

\* ... and which role's workspace is in hand.
RoleInHand ==
    /\ pc \in Holding => phase \in {"implementing", "qa-gate", "adversary-review", "landing"}
    /\ pc \in Holding => \A w \in workspaces : w.uuid = cur => w.phase = Role(phase)
    /\ \A w \in workspaces : w.phase = "implementing" => w.commit.origin = w.uuid

\* While it is implemented and tested nobody has judged the work, and no
\* clean round of earlier work counts for it.
WorkIsFresh ==
    /\ pc = "prepare" => empty_round_streak = 0
    /\ pc \in Holding /\ phase \in {"implementing", "qa-gate"} =>
          /\ empty_round_streak = 0
          /\ cur \notin flagged
          /\ \A p \in clean : p[1] # cur

\* What is about to be reviewed has passed QA.
QaBeforeReview ==
    \/ pc = "drop_row" /\ goal = "qa_pass"
    \/ pc = "enter_review"
    => <<cur, "original">> \in qa_passed

\* The k-th clean round in a row is the k-th of this work.
Counted(k) ==
    /\ <<change.origin, "original">> \in qa_passed
    /\ change.origin \notin flagged
    /\ empty_round_streak = iter /\ iter < n_rounds
    /\ k > 0 => <<change.origin, k>> \in clean
    /\ \A p \in clean : p[1] = change.origin => p[2] <= k

StreakIsEarned ==
    /\ pc \in {"forget_impl", "adv_prepare", "register", "wait"} /\ phase = "adversary-review"
          => Counted(iter)
    /\ pc = "clean" \/ (pc \in {"drop_row", "drop_ws"} /\ goal = "clean")
          => Counted(iter + 1)

\* Recovery's scan is the only source of unvetted work, and it ends with the
\* landing it started.
ScanIsContained ==
    /\ pc = "down" => cur = 0
    /\ source = "scan" =>
         /\ cur = 0
         /\ pc \in {"rebase_start", "rebase", "merging", "rebase_done", "move",
                    "bookmark_move", "moved", "refused", "merged_step", "quarantine"}

\* Whatever is being landed, stored, merged or pushed was vetted.
LandingIsVetted ==
    /\ pc \in {"converge", "land", "park_store", "merger_gate", "merger_prepare",
               "rebase_start", "rebase", "merging", "rebase_done", "retry_land", "move",
               "bookmark_move", "push_start", "point"} /\ source # "scan"
         => Vetted(change.origin)
    /\ landing_change # NoCommit => Vetted(landing_change.origin)
    /\ \A w \in workspaces : w.phase = "landing" => Vetted(w.commit.origin)

PushIsVetted ==
    /\ branch # NoCommit => Vetted(branch.origin)
    /\ pc = "push" => Vetted(branch.origin)
    /\ pc \in {"push_done", "pr"} => Vetted(pushed.origin)
    /\ phase_substate = "push_done_pr_pending" => Vetted(pushed.origin)

VettedInv ==
    /\ OriginsMinted /\ PhaseAtStep /\ RoleInHand /\ WorkIsFresh /\ QaBeforeReview
    /\ StreakIsEarned /\ ScanIsContained /\ LandingIsVetted /\ PushIsVetted
    /\ ChosenWorkIsVetted /\ PrIsVetted

-----------------------------------------------------------------------------
(* Why the other claims about landing hold: the invariant that follows the  *)
(* approval, the merged tree and the place on main.                         *)

Approved == inbound => approved

\* Every step of a landing the pump began, its Merger's included, has passed the
\* gate; so has every step of a remote landing.
GateWasPassed ==
    /\ pc \in {"rebase_start", "rebase", "merging", "rebase_done", "move", "bookmark_move"}
       /\ source = "pump" => Approved
    /\ pc \in {"merger_gate", "merger_prepare", "check_merge", "retry_land"} => Approved
    /\ pc \in {"register", "wait"} /\ phase = "landing" => Approved
    /\ pc = "drop_row" /\ goal = "merged" => Approved
    /\ pc \in {"push_start", "point", "push", "push_done", "pr", "pr_made"} => Approved
    /\ phase_substate \in RemoteSubstate => Approved

Resolved(c) ==
    c.form # "conflicted" /\ (c.form = "merged" => <<c.origin, "merged">> \in qa_passed)

\* What is implemented and reviewed was never rebased or merged.
ReviewedIsOriginal ==
    /\ pc \in Holding /\ phase \in {"implementing", "qa-gate"}
          => \A w \in workspaces : w.uuid = cur => w.commit.form = "original"
    /\ \/ pc \in {"forget_impl", "adv_prepare", "register", "wait"} /\ phase = "adversary-review"
       \/ pc = "clean" \/ (pc \in {"drop_row", "drop_ws"} /\ goal = "clean")
       => change.form = "original"

\* What is on its way to main, or stored for it, is no unresolved merge.
LandingIsResolved ==
    /\ pc \in {"converge", "land", "park_store", "rebase_start", "rebase", "rebase_done",
               "retry_land", "move", "bookmark_move"} /\ source # "scan" => Resolved(change)
    /\ Resolved(landing_change)

\* Every commit the orchestrator may still land stands on main as it was ...
BasesOnMain ==
    /\ {change.base, landing_change.base, branch.base} \subseteq 0 .. Len(trunk)
    /\ \A w \in workspaces : w.commit.base <= Len(trunk)

\* ... main is moved behind the record of it (rebase_step's second write) ...
MoveIsRecorded ==
    pc \in {"move", "bookmark_move"} => phase = "landing" /\ phase_substate = "rebase_done_bookmark_pending"

\* ... from the guard to the move main keeps what the guard saw, the change's
\* base, and grows only by what it did not see ...
PastTheGuard ==
    pc = "bookmark_move" =>
        /\ Ours = {}
        /\ \A i \in change.base + 1 .. Len(trunk) : trunk[i].source = "raced"
        /\ landing_change.base <= change.base /\ branch.base <= change.base
        /\ \A w \in workspaces : w.commit.base <= change.base

\* ... and once main has the issue's work, whatever may still be landed stands
\* below it: it is not landed again.
LandingIsOver ==
    Ours # {} =>
        /\ \/ phase = "landing"
              /\ phase_substate \in {"rebase_done_bookmark_pending", "bookmark_moved_complete"}
           \/ phase \in {"merged", "awaiting-human-merge", "orchestrator-error"}
        /\ \/ pc \in {"idle", "move", "moved", "refused", "merged_step", "down", "quarantine"}
           \/ pc = "drop_ws" /\ goal = "landed"
        /\ pc = "move" => change.base < Len(trunk)
        /\ landing_change.base < Len(trunk)
        /\ \A w \in workspaces : w.commit.base < Len(trunk)

AtMostOnce == \A i, j \in Ours : i = j

GateInv == GateWasPassed /\ PumpInboundGate
MergeInv == ReviewedIsOriginal /\ LandingIsResolved /\ NoUnresolvedMergeLands
OnceInv == BasesOnMain /\ MoveIsRecorded /\ LandingIsOver /\ AtMostOnce
PlaceInv == OnceInv /\ PastTheGuard

-----------------------------------------------------------------------------
(* Why Reclaimed holds: the invariant that follows the row and the workspace *)
(* of the worker in hand.                                                   *)

\* The phases a crash can leave a worker row in, with the substate they have:
\* plan_recovery has a plan for each of them, and the plan reclaims the row.
AtWork == \/ phase \in {"implementing", "qa-gate", "adversary-review"} /\ phase_substate = None
          \/ phase = "landing" /\ phase_substate = "merging"

WorkHasPlan ==
    /\ phase_substate \notin AnswerSubstate
    /\ phase \in {"implementing", "qa-gate", "adversary-review"} => phase_substate = None
    /\ pc \in {"merger_gate", "merger_prepare", "rec_ws", "rec_row"} => AtWork
    /\ pc \in {"register", "wait", "enter_qa", "qa", "drop_row"} => AtWork

\* There is a row only while somebody has it in hand, or when a crash or an
\* error of the plan left it behind.
RowIsFollowed ==
    \/ workers = {}
    \/ pc \in {"wait", "enter_qa", "qa", "drop_row", "rec_ws", "rec_row"} /\ workers = {cur}
    \/ /\ \E u \in workers : workers = {u}
       /\ \/ pc \in {"down", "quarantine"} /\ AtWork
          \/ pc \in {"idle", "down"} /\ phase = "orchestrator-error"

\* The steps with a workspace in hand; recovery's landings have none.
WithWorkspace == Holding \cup {"drop_ws", "forget_impl", "retry_land", "move",
                               "bookmark_move", "moved", "refused", "merged_step",
                               "rec_ws", "rec_row"}
LandingSteps == {"rebase_start", "rebase", "merging", "rebase_done", "move",
                 "bookmark_move", "moved", "refused", "merged_step", "push_start", "point", "push", "push_done",
                 "pr", "pr_made", "pr_adopt", "pr_open", "forget_branch", "quarantine"}

HandIsEmpty ==
    /\ pc \notin WithWorkspace => cur = 0
    /\ source # "pump" => cur = 0 /\ pc \in LandingSteps

RecoveryFollowsCrash ==
    crashes = 0 => /\ source = "pump"
                   /\ pc \notin {"down", "rec_ws", "rec_row", "rollback", "quarantine", "pr_adopt"}
                   /\ goal # "park_merger"

OnlyInHand == crashes = 0 /\ leaks = 0 => \A w \in workspaces : w.uuid = cur

\* The workspaces nobody has in hand any more: each is the work of a crash or of
\* a forget that failed.
OrphansAreCounted ==
    /\ IsFiniteSet(Registered)
    /\ Cardinality(Registered \ {cur}) <= crashes + leaks
    /\ pc = "rec_row" => Cardinality(Registered) <= crashes + leaks

ReclaimInv == /\ WorkHasPlan /\ RowIsFollowed /\ HandIsEmpty /\ RecoveryFollowsCrash
              /\ OnlyInHand

-----------------------------------------------------------------------------
(* Why OnlyVettedLands holds for one crash: before it, each round has one    *)
(* Implementer workspace, so what the scan finds after it is the work that  *)
(* converged.                                                               *)

OfRound == {w \in workspaces : w.phase = "implementing" /\ w.round = round}

\* The phases with work that converged, and the steps of a landing after its
\* first write.
Converged == {"converged", "landing", "awaiting-inbound-approval"}
Underway == {"rebase", "merging", "rebase_done", "retry_land", "move", "bookmark_move",
             "moved", "refused", "merged_step", "point", "push", "push_done", "pr", "pr_made", "pr_adopt", "pr_open"}

PhaseOfStep ==
    /\ pc \in Underway \cup {"land", "park_store", "park_inbound", "rebase_start", "push_start"}
          => phase \in Converged
    /\ pc = "findings" \/ (pc \in {"drop_row", "drop_ws"} /\ goal = "findings")
          => phase = "adversary-review"
    /\ pc = "qa_failed" \/ (pc \in {"drop_row", "drop_ws"} /\ goal = "qa_fail")
          => phase = "qa-gate"
    /\ pc = "forget_branch" \/ (pc \in {"drop_row", "drop_ws"} /\ goal = "landed")
          => ~ is_drivable(phase)

OneOfRound ==
    crashes = 0 =>
        /\ \A w \in workspaces : w.phase = "implementing" => w.round <= round
        /\ \/ pc \in {"reset_streak", "prepare", "reimplement"}
           \/ pc = "idle" /\ is_drivable(phase)
           => OfRound = {}
        /\ pc \in Holding /\ phase \in {"implementing", "qa-gate"}
              => \A w \in OfRound : w.uuid = cur
        /\ \/ pc \in {"forget_impl", "adv_prepare", "register", "wait", "drop_row", "drop_ws", "clean"}
              /\ phase = "adversary-review"
           \/ pc = "converge"
           => \A w \in OfRound : w.commit.origin = change.origin

ScanIsVetted ==
    /\ (crashes = 0 \/ pc = "down") /\ phase \in Converged
          => \A w \in OfRound : Vetted(w.commit.origin)
    /\ source = "scan" /\ pc \in {"rebase_start", "rebase", "merging", "rebase_done", "move",
                                  "bookmark_move"}
          => Vetted(change.origin)

ScanInv == PhaseOfStep /\ OneOfRound /\ ScanIsVetted /\ OnlyVettedLands

-----------------------------------------------------------------------------
(* Why ImplementsLifecycle holds for one crash and no leak.                 *)

\* With no workspace left behind the scan finds nothing.
NothingToScan ==
    /\ leaks <= MaxLeaks
    /\ (crashes = 0 /\ leaks = 0) \/ pc = "down" => (phase \in Converged => OfRound = {})
    /\ source # "scan"

\* Where a landing may be, where a parked issue, and where one that has ended.
StageAtStep ==
    /\ phase = "landing" => Approved
    /\ pc \in Underway \/ (pc = "rebase_start" /\ source # "pump") => phase = "landing"
    /\ pc = "land" => phase \in {"converged", "awaiting-inbound-approval"}
    /\ pc \in {"park_store", "park_inbound"} => phase = "converged" /\ inbound
    /\ phase = "awaiting-inbound-approval" =>
          /\ inbound
          /\ \/ pc \in {"idle", "down"}
             \/ pc \in {"land", "poison", "push_start", "rebase_start"} /\ approved
    /\ phase \in {"merged", "pr-open", "awaiting-human-merge", "orchestrator-error"} =>
          pc \in {"idle", "down", "forget_branch"} \/ (pc = "drop_ws" /\ goal = "landed")

StageInv == PhaseOfStep /\ NothingToScan /\ StageAtStep
=============================================================================
