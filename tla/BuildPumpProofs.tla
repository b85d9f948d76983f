--------------------------- MODULE BuildPumpProofs ---------------------------
(***************************************************************************)
(* Machine-checked proofs about the build pump, for every value of the     *)
(* constants: any number of crashes, of leaked workspaces, of foreign      *)
(* advances of main, any n_rounds and any retry bounds.                    *)
(***************************************************************************)
EXTENDS BuildPumpProperties, FiniteSetTheorems, TLAPS

-----------------------------------------------------------------------------
(* Types. *)

\* A commit with some of its fields replaced is a commit (the rebase and the
\* workers rewrite commits field by field).
LEMMA CommitFields ==
  ASSUME NEW c \in Commits
  PROVE  /\ c.origin \in Nat /\ c.base \in Nat
         /\ c.work \in {"own", "below", "gone"} /\ c.form \in Form
         /\ \A w \in {"own", "below", "gone"} : [c EXCEPT !.work = w] \in Commits
         /\ \A f \in Form : [c EXCEPT !.form = f] \in Commits
         /\ \A b \in Nat, w \in {"own", "below", "gone"}, f \in Form :
              [c EXCEPT !.base = b, !.work = w, !.form = f] \in Commits
  BY DEF Commits, Form

\* The value that stands for an absent commit has the type of a commit.
LEMMA NoCommitType == NoCommit \in Commits
  BY DEF NoCommit, Commits, Form

\* change_revset finds the workspace in hand if it is registered.
LEMMA CurrentHeld ==
  ASSUME \E w \in workspaces : w.uuid = cur
  PROVE  Current \in workspaces /\ Current.uuid = cur
  BY DEF Current

\* What rebase_step may produce: a commit of the same origin.
LEMMA RebaseResultsType ==
  ASSUME TypeOK, NEW t \in RebaseResults
  PROVE  t \in Commits /\ t.origin = change.origin
  <1>1. change \in Commits /\ Len(trunk) \in Nat
    BY DEF TypeOK, LocalsOK, TrunkOK
  <1>2. CASE is_ancestor_of(change)
    BY <1>1, <1>2 DEF RebaseResults
  <1>3. CASE ~ is_ancestor_of(change)
    <2> DEFINE w == IF change.work = "below" THEN "gone" ELSE change.work
    <2> DEFINE onMain(f) == [change EXCEPT !.base = Len(trunk), !.work = w, !.form = f]
    <2>1. t = onMain("rebased") \/ t = onMain("conflicted")
      BY <1>3 DEF RebaseResults
    <2>2. w \in {"own", "below", "gone"}
      BY <1>1, CommitFields
    <2>3. onMain("rebased") \in Commits /\ onMain("conflicted") \in Commits
      BY <1>1, <2>2, CommitFields DEF Form
    <2>4. onMain("rebased").origin = change.origin /\ onMain("conflicted").origin = change.origin
      BY <1>1 DEF Commits
    <2> QED BY <2>1, <2>3, <2>4
  <1> QED BY <1>2, <1>3

\* TypeInv without what it says of a pending move of main.
Typed == TypeOK /\ InHand /\ \A w \in workspaces : w.uuid <= minted

\* The orchestrator starts well-typed.
LEMMA TypeInit == Init => TypeInv
  <1> SUFFICES ASSUME Init PROVE TypeInv
    OBVIOUS
  <1>1. RowOK /\ RegistryOK /\ TrunkOK /\ RemoteOK
    BY NoCommitType DEF Init, RowOK, RegistryOK, TrunkOK, RemoteOK, Phase
  <1>2. LabelsOK
    BY EnvironmentAssumption DEF Init, LabelsOK
  <1>3. LocalsOK /\ HistoryOK /\ InHand
    BY NoCommitType DEF Init, LocalsOK, HistoryOK, InHand, Holding, PCs, Goals, Source
  <1> QED BY <1>1, <1>2, <1>3 DEF Init, TypeInv, TypeOK, BaseAtMove

\* The move keeps main up to the base of the change and puts the change on it.
LEMMA MovedMain ==
  ASSUME TypeInv, BookmarkMove
  PROVE  /\ Len(trunk) \in Nat /\ change.base \in Nat /\ change.base <= Len(trunk)
         /\ DOMAIN trunk = 1 .. Len(trunk)
         /\ Len(trunk') = change.base + 1 /\ DOMAIN trunk' = 1 .. change.base + 1
         /\ \A i \in 1 .. change.base : i \in DOMAIN trunk /\ trunk'[i] = trunk[i]
         /\ trunk'[change.base + 1] = [commit |-> change, source |-> source]
         /\ trunk' \in Seq([commit : Commits, source : Source])
  <1> DEFINE Places == [commit : Commits, source : Source]
  <1> DEFINE n == [commit |-> change, source |-> source]
  <1>1. trunk \in Seq(Places) /\ n \in Places /\ change.base \in Nat
    BY CommitFields DEF TypeInv, TypeOK, TrunkOK, LocalsOK
  <1>2. change.base <= Len(trunk)
    BY DEF TypeInv, BaseAtMove, BookmarkMove
  <1>3. trunk' = Append(SubSeq(trunk, 1, change.base), n)
    BY DEF BookmarkMove, bookmark_move
  <1> HIDE DEF Places, n
  <1> DEFINE kept == SubSeq(trunk, 1, change.base)
  <1>4. /\ kept \in Seq(Places) /\ Len(kept) = change.base
        /\ \A i \in 1 .. change.base : i \in DOMAIN trunk /\ kept[i] = trunk[i]
    BY <1>1, <1>2
  <1> HIDE DEF kept
  <1>5. trunk' = Append(kept, n)
    BY <1>3 DEF kept
  <1>6. /\ Len(trunk') = change.base + 1 /\ DOMAIN trunk' = 1 .. change.base + 1
        /\ \A i \in 1 .. change.base : trunk'[i] = kept[i]
        /\ trunk'[change.base + 1] = n /\ trunk' \in Seq(Places)
    BY <1>1, <1>4, <1>5
  <1>7. Len(trunk) \in Nat /\ DOMAIN trunk = 1 .. Len(trunk)
    BY <1>1
  <1> QED BY <1>1, <1>2, <1>4, <1>6, <1>7 DEF n, Places

\* So every place on main is what it was, or is the change's.
LEMMA MovedPlaces ==
  ASSUME TypeInv, BookmarkMove
  PROVE  \A i \in DOMAIN trunk' : \/ i \in DOMAIN trunk /\ trunk'[i] = trunk[i]
                                  \/ trunk'[i] = [commit |-> change, source |-> source]
  BY MovedMain

\* Local landing preserves the types.
LEMMA TypeLandLocally == TypeInv /\ LandLocally => Typed'
  <1> SUFFICES ASSUME TypeInv, LandLocally PROVE Typed'
    OBVIOUS
  <1> USE DEF TypeInv, TypeOK, RowOK, RegistryOK, TrunkOK, RemoteOK, LabelsOK, LocalsOK,
              HistoryOK, InHand, row, remoteState, labels, locals, history, Landing,
              set_phase, Return, Typed
  <1>1. CASE RebaseStart
    BY <1>1 DEF RebaseStart, Phase, PhaseSubstate, LocalSubstate, PCs, Holding
  <1>2. CASE Rebase
    <2>1. PICK t \in RebaseResults :
            /\ change' = t
            /\ workspaces' = {IF w.commit = change THEN [w EXCEPT !.commit = t]
                                                   ELSE w : w \in workspaces}
            /\ pc' = IF t.form = "conflicted" THEN "merging" ELSE "rebase_done"
      BY <1>2 DEF Rebase
    <2>2. t \in Commits
      BY <2>1, RebaseResultsType
    <2> DEFINE moved(w) == IF w.commit = change THEN [w EXCEPT !.commit = t] ELSE w
    <2>3. \A w \in workspaces : moved(w) \in Workspaces /\ moved(w).uuid = w.uuid
      BY <2>2 DEF Workspaces
    <2>4. workspaces' = {moved(w) : w \in workspaces}
      BY <2>1
    <2> HIDE DEF moved
    <2>5. RegistryOK' /\ (\A w \in workspaces' : w.uuid <= minted)
      <3>1. workers' = workers /\ minted' = minted
        BY <1>2 DEF Rebase
      <3>2. workspaces' \subseteq Workspaces /\ \A w \in workspaces' : w.uuid <= minted
        BY <2>3, <2>4
      <3>3. \A v, w \in workspaces' : v.uuid = w.uuid => v = w
        BY <2>3, <2>4
      <3> QED BY <3>1, <3>2, <3>3
    <2>6. pc' \in {"merging", "rebase_done"}
      BY <2>1
    <2>7. RowOK' /\ TrunkOK' /\ RemoteOK' /\ LabelsOK' /\ HistoryOK'
      BY <1>2 DEF Rebase
    <2>8. LocalsOK'
      BY <1>2, <2>1, <2>2, <2>6 DEF Rebase, PCs
    <2>9. InHand'
      BY <2>6 DEF Holding
    <2> QED BY <1>2, <2>5, <2>7, <2>8, <2>9 DEF Rebase
  <1>3. CASE Merging
    BY <1>3, NoCommitType
    DEF Merging, Phase, PhaseSubstate, LocalSubstate, PCs, Goals, Source, Holding, None
  <1>4. CASE RebaseDone
    BY <1>4 DEF RebaseDone, Phase, PhaseSubstate, LocalSubstate, PCs, Holding
  <1>5. CASE Move
    <2>1. pc' \in {"moved", "refused", "bookmark_move"}
      BY <1>5 DEF Move
    <2> QED BY <1>5, <2>1 DEF Move, PCs, Holding
  <1>9. CASE BookmarkMove
    BY <1>9, MovedMain DEF BookmarkMove, PCs, Holding
  <1>6. CASE Refused
    BY <1>6, NoCommitType DEF Refused, Landed, Phase, PCs, Goals, Source, Holding, None
  <1>7. CASE Moved
    BY <1>7 DEF Moved, Phase, PhaseSubstate, LocalSubstate, PCs, Holding
  <1>8. CASE MergedStep
    BY <1>8, NoCommitType DEF MergedStep, Landed, Phase, PCs, Goals, Source, Holding, None
  <1> QED BY <1>1, <1>2, <1>3, <1>4, <1>5, <1>6, <1>7, <1>8, <1>9 DEF LandLocally

\* Remote landing preserves the types.
LEMMA TypeLandRemotely == TypeInv /\ (LandRemotely \/ ClosePr) => Typed'
  <1> SUFFICES ASSUME TypeInv, LandRemotely \/ ClosePr PROVE Typed'
    OBVIOUS
  <1> USE DEF TypeInv, TypeOK, RowOK, RegistryOK, TrunkOK, RemoteOK, LabelsOK, LocalsOK,
              HistoryOK, InHand, row, remoteState, labels, locals, history, LandingRemotely,
              set_phase, Return, Typed
  <1>1. CASE PushStart
    BY <1>1 DEF PushStart, Phase, PhaseSubstate, RemoteSubstate, PCs, Holding
  <1>2. CASE PointBookmark
    BY <1>2 DEF PointBookmark, PCs, Holding
  <1>3. CASE Push
    BY <1>3 DEF Push, PCs, Holding
  <1>4. CASE PushDone
    BY <1>4 DEF PushDone, Phase, PhaseSubstate, RemoteSubstate, PCs, Holding
  <1>5. CASE OpenPr
    BY <1>5 DEF OpenPr, find_open_pr, open_pr, PCs, Holding
  <1>6. CASE PrCreated
    BY <1>6 DEF PrCreated, Phase, PhaseSubstate, RemoteSubstate, PCs, Holding
  <1>7. CASE AdoptPr
    BY <1>7 DEF AdoptPr, PCs, Holding
  <1>8. CASE PrOpen
    BY <1>8 DEF PrOpen, Phase, PCs, Holding
  <1>9. CASE ForgetBranch
    BY <1>9, NoCommitType DEF ForgetBranch, PCs, Goals, Source, Holding, None
  <1>10. CASE ClosePr
    BY <1>10 DEF ClosePr, PCs, Holding
  <1> QED BY <1>1, <1>2, <1>3, <1>4, <1>5, <1>6, <1>7, <1>8, <1>9, <1>10 DEF LandRemotely

\* Crashing and recovering preserve the types.
LEMMA TypeRecover == TypeInv /\ (Recover \/ Crash) => Typed'
  <1> SUFFICES ASSUME TypeInv, Recover \/ Crash PROVE Typed'
    OBVIOUS
  <1> USE DEF TypeInv, TypeOK, RowOK, RegistryOK, TrunkOK, RemoteOK, LabelsOK, LocalsOK,
              HistoryOK, InHand, row, remoteState, labels, locals, history, Recovering,
              set_phase, Return, Typed
  <1>1. CASE RecoverOutright
    BY <1>1, NoCommitType DEF RecoverOutright, PCs, Goals, Source, Holding, None
  <1>2. CASE RecoverWorker
    <2>1. WorkerRow \in Nat
      BY DEF WorkerRow, has_worker
    <2>2. goal' \in {"rollback", "park_merger"} /\ pc' \in {"rec_ws", "rollback", "park_human"}
      BY <1>2 DEF RecoverWorker
    <2> QED BY <1>2, <2>1, <2>2 DEF RecoverWorker, PCs, Goals, Holding
  <1>3. CASE ReclaimWorkspace
    BY <1>3 DEF ReclaimWorkspace, forget_best_effort, forget, PCs, Holding
  <1>4. CASE ReclaimRow
    BY <1>4 DEF ReclaimRow, PCs, Holding
  <1>5. CASE Rollback
    BY <1>5, NoCommitType DEF Rollback, Phase, PCs, Goals, Source, Holding, None
  <1>6. CASE ResumeMoved
    BY <1>6 DEF ResumeMoved, PCs, Source, Holding
  <1>7. CASE ResumeLanding
    <2>1. landing_change_revset \subseteq Commits
      BY DEF landing_change_revset, Workspaces
    <2>2. /\ change' \in Commits /\ source' \in Source
          /\ pc' \in {"move", "rebase_start", "quarantine"}
      BY <1>7, <2>1 DEF ResumeLanding, ResumeEntry, Source
    <2> QED BY <1>7, <2>2 DEF ResumeLanding, PCs, Holding
  <1>8. CASE ResumeRemoteLanding
    <2>1. /\ change' \in Commits /\ source' \in Source
          /\ pc' \in {"push_start", "pr", "pr_adopt", "quarantine"}
      BY <1>8 DEF ResumeRemoteLanding, branch_revset, Source
    <2> QED BY <1>8, <2>1 DEF ResumeRemoteLanding, PCs, Holding
  <1>9. CASE Quarantine
    BY <1>9, NoCommitType DEF Quarantine, Phase, PCs, Goals, Source, Holding, None
  <1>10. CASE PlanFails
    BY <1>10 DEF PlanFails, PCs, Holding
  <1>11. CASE Crash
    BY <1>11, NoCommitType DEF Crash, PCs, Goals, Source, Holding, None
  <1>12. CASE RecordRefused
    BY <1>12 DEF RecordRefused, Phase, PhaseSubstate, LocalSubstate, PCs, Holding, None
  <1> QED BY <1>1, <1>2, <1>3, <1>4, <1>5, <1>6, <1>7, <1>8, <1>9, <1>10, <1>11, <1>12
          DEF Recover

\* A fresh workspace keeps the registry well-typed and is the one in hand.
LEMMA TypePrepare ==
  ASSUME TypeInv, round' = round, NEW p \in WorkspacePhase, NEW c \in Commits,
         prepare(p, c), workers' = workers
  PROVE  /\ RegistryOK' /\ cur' \in Nat
         /\ \A w \in workspaces' : w.uuid <= minted'
         /\ \E w \in workspaces' : w.uuid = cur'
  <1> DEFINE n == [phase |-> p, round |-> round, uuid |-> minted + 1,
                   commit |-> c, st |-> "prepared"]
  <1>1. n \in Workspaces /\ n.uuid = minted + 1
    BY DEF Workspaces, TypeInv, TypeOK, RegistryOK, RowOK
  <1>2. workspaces' = workspaces \cup {n} /\ minted' = minted + 1 /\ cur' = minted + 1
    BY DEF prepare
  <1> HIDE DEF n
  <1>3. \A w \in workspaces : w.uuid \in Nat /\ w.uuid <= minted
    BY DEF TypeInv, TypeOK, RegistryOK, Workspaces
  <1> QED BY <1>1, <1>2, <1>3 DEF TypeInv, TypeOK, RegistryOK

\* Implementing, reviewing, converging and merging preserve the types.
LEMMA TypeDrive == TypeInv /\ Drive => Typed'
  <1> SUFFICES ASSUME TypeInv, Drive PROVE Typed'
    OBVIOUS
  <1> USE DEF TypeInv, TypeOK, RowOK, RegistryOK, TrunkOK, RemoteOK, LabelsOK, LocalsOK,
              HistoryOK, InHand, row, remoteState, labels, locals, history, Driving,
              set_phase, Return, Typed
  <1>1. CASE Pickup
    BY <1>1 DEF Pickup, Phase, PCs, Holding
  <1>2. CASE ResetStreak
    BY <1>2 DEF ResetStreak, PCs, Holding
  <1>3. CASE PrepareImplementer
    <2>1. /\ [origin |-> minted + 1, base |-> Len(trunk), work |-> "gone", form |-> "original"]
               \in Commits
          /\ "implementing" \in WorkspacePhase
      BY DEF Commits, Form, WorkspacePhase
    <2>2. /\ RegistryOK' /\ cur' \in Nat
          /\ \A w \in workspaces' : w.uuid <= minted'
          /\ \E w \in workspaces' : w.uuid = cur'
      BY <1>3, <2>1, TypePrepare DEF PrepareImplementer
    <2> QED BY <1>3, <2>2 DEF PrepareImplementer, PCs
  <1>4. CASE RegisterWorker
    <2> DEFINE run(w) == IF w.uuid = cur THEN [w EXCEPT !.st = "running"] ELSE w
    <2>1. \A w \in workspaces : run(w) \in Workspaces /\ run(w).uuid = w.uuid
      BY DEF Workspaces
    <2>2. workspaces' = {run(w) : w \in workspaces}
      BY <1>4 DEF RegisterWorker
    <2>3. \E w \in workspaces : w.uuid = cur
      BY <1>4 DEF RegisterWorker, Holding
    <2> HIDE DEF run
    <2>4. /\ RegistryOK' /\ \A w \in workspaces' : w.uuid <= minted'
          /\ \E w \in workspaces' : w.uuid = cur
      <3>1. workers' \subseteq Nat /\ minted' = minted
        BY <1>4 DEF RegisterWorker
      <3>2. workspaces' \subseteq Workspaces /\ \A w \in workspaces' : w.uuid <= minted
        BY <2>1, <2>2
      <3>3. \A v, w \in workspaces' : v.uuid = w.uuid => v = w
        BY <2>1, <2>2
      <3>4. \E w \in workspaces' : w.uuid = cur
        BY <2>1, <2>2, <2>3
      <3> QED BY <3>1, <3>2, <3>3, <3>4
    <2> QED BY <1>4, <2>4 DEF RegisterWorker, PCs
  <1>5. CASE WorkerFails
    BY <1>5 DEF WorkerFails, FailureGoal, PCs, Goals, Holding
  <1>6. CASE ImplementerDone
    BY <1>6 DEF ImplementerDone, PCs, Goals, Holding
  <1>7. CASE EnterQa
    BY <1>7 DEF EnterQa, Phase, PCs, Holding
  <1>8. CASE RunQa
    <2>1. Current \in Workspaces
      BY <1>8, CurrentHeld DEF RunQa, Holding
    <2>2. Current.commit.origin \in Nat
      BY <2>1, CommitFields DEF Workspaces
    <2>3. qa_passed' \subseteq Nat \X Form
      BY <1>8, <2>2 DEF RunQa, Form
    <2>4. goal' \in Goals
      BY <1>8 DEF RunQa, Goals
    <2> QED BY <1>8, <2>3, <2>4 DEF RunQa, PCs, Holding
  <1>9. CASE DropRow
    <2>1. pc' \in {"enter_review", "check_merge", "drop_ws"}
      BY <1>9 DEF DropRow
    <2> QED BY <1>9, <2>1 DEF DropRow, PCs, Holding
  <1>10. CASE DropWorkspace
    <2>1. /\ workspaces' \subseteq workspaces /\ leaks' \in Nat
          /\ workers' = workers /\ minted' = minted
      BY <1>10 DEF DropWorkspace, forget, forget_best_effort
    <2>2. pc' \in {"idle", "poison", "qa_failed", "findings", "clean", "park_human"}
      BY <1>10 DEF DropWorkspace
    <2>3. goal' \in Goals /\ cur' \in Nat /\ change' \in Commits /\ source' \in Source /\ iter' \in Nat
      BY <1>10, NoCommitType DEF DropWorkspace, Goals, Source, None
    <2>4. RegistryOK' /\ \A w \in workspaces' : w.uuid <= minted'
      BY <2>1
    <2>5. LocalsOK' /\ InHand'
      BY <2>2, <2>3 DEF PCs, Holding
    <2> QED BY <1>10, <2>1, <2>4, <2>5 DEF DropWorkspace
  <1>11. CASE Poison
    BY <1>11, NoCommitType DEF Poison, Phase, PCs, Goals, Source, Holding, None
  <1>12. CASE OnQaFail
    <2>1. RowOK'
      BY <1>12 DEF OnQaFail, Phase
    <2>2. LocalsOK' /\ InHand'
      BY <1>12, NoCommitType DEF OnQaFail, PCs, Goals, Source, Holding, None
    <2> QED BY <1>12, <2>1, <2>2 DEF OnQaFail
  <1>13. CASE EnterReview
    <2>1. Current.commit \in Commits
      BY <1>13, CurrentHeld DEF EnterReview, Holding, Workspaces
    <2> QED BY <1>13, <2>1 DEF EnterReview, Phase, PCs, Holding
  <1>14. CASE ForgetImplementer
    BY <1>14 DEF ForgetImplementer, forget_best_effort, forget, PCs, Holding
  <1>15. CASE PrepareAdversary
    <2>1. [NoCommit EXCEPT !.base = Len(trunk)] \in Commits /\ "adversary-review" \in WorkspacePhase
      <3>1. Len(trunk) \in Nat
        OBVIOUS
      <3> QED BY <3>1 DEF NoCommit, Commits, Form, WorkspacePhase
    <2>2. /\ RegistryOK' /\ cur' \in Nat
          /\ \A w \in workspaces' : w.uuid <= minted'
          /\ \E w \in workspaces' : w.uuid = cur'
      BY <1>15, <2>1, TypePrepare DEF PrepareAdversary
    <2> QED BY <1>15, <2>2 DEF PrepareAdversary, PCs
  <1>16. CASE AdversaryDone
    <2>1. change.origin \in Nat
      BY CommitFields
    <2>2. <<change.origin, iter + 1>> \in Nat \X Nat
      BY <2>1
    <2>3. /\ clean' = clean \/ clean' = clean \cup {<<change.origin, iter + 1>>}
          /\ flagged' = flagged \/ flagged' = flagged \cup {change.origin}
          /\ goal' \in {"findings", "clean"}
      BY <1>16 DEF AdversaryDone
    <2>4. clean' \subseteq Nat \X Nat /\ flagged' \subseteq Nat
      BY <2>1, <2>2, <2>3
    <2> QED BY <1>16, <2>3, <2>4 DEF AdversaryDone, PCs, Goals, Holding
  <1>17. CASE OnAdversaryFindings
    <2>1. RowOK'
      BY <1>17 DEF OnAdversaryFindings, Phase, None
    <2>2. LocalsOK' /\ InHand'
      BY <1>17 DEF OnAdversaryFindings, PCs, Holding
    <2> QED BY <1>17, <2>1, <2>2 DEF OnAdversaryFindings
  <1>18. CASE Reimplement
    <2>1. RowOK'
      BY <1>18 DEF Reimplement, Phase
    <2>2. LocalsOK' /\ InHand'
      BY <1>18, NoCommitType DEF Reimplement, PCs, Goals, Holding, None
    <2> QED BY <1>18, <2>1, <2>2 DEF Reimplement
  <1>19. CASE OnCleanRound
    BY <1>19 DEF OnCleanRound, PCs, Holding
  <1>20. CASE Converge
    BY <1>20 DEF Converge, Phase, PCs, Holding
  <1>21. CASE Land
    BY <1>21 DEF Land, PCs, Holding
  <1>22. CASE StoreLandingChange
    BY <1>22 DEF StoreLandingChange, PCs, Holding
  <1>23. CASE ParkForInboundApproval
    BY <1>23, NoCommitType DEF ParkForInboundApproval, Phase, PCs, Goals, Source, Holding, None
  <1>24. CASE ResumeApprovedInbound
    BY <1>24 DEF ResumeApprovedInbound, PCs, Holding
  <1>25. CASE MergerGate
    BY <1>25 DEF MergerGate, PCs, Holding
  <1>26. CASE PrepareMerger
    <2>1. "landing" \in WorkspacePhase
      BY DEF WorkspacePhase
    <2>2. /\ RegistryOK' /\ cur' \in Nat
          /\ \A w \in workspaces' : w.uuid <= minted'
          /\ \E w \in workspaces' : w.uuid = cur'
      BY <1>26, <2>1, TypePrepare DEF PrepareMerger
    <2> QED BY <1>26, <2>2 DEF PrepareMerger, PCs
  <1>27. CASE MergerDone
    BY <1>27 DEF MergerDone, PCs, Goals, Holding
  <1>28. CASE CheckMerge
    <2>1. Current \in Workspaces
      BY <1>28, CurrentHeld DEF CheckMerge, Holding
    <2>2. Current.commit \in Commits /\ Current.commit.origin \in Nat
      BY <2>1, CommitFields DEF Workspaces
    <2>3. qa_passed' \subseteq Nat \X Form
      BY <1>28, <2>2 DEF CheckMerge, Form
    <2> QED BY <1>28, <2>2, <2>3 DEF CheckMerge, PCs, Goals, Holding
  <1>29. CASE ParkForHuman
    BY <1>29, NoCommitType DEF ParkForHuman, Phase, PCs, Goals, Source, Holding, None
  <1> QED BY <1>1, <1>2, <1>3, <1>4, <1>5, <1>6, <1>7, <1>8, <1>9, <1>10, <1>11, <1>12, <1>13,
             <1>14, <1>15, <1>16, <1>17, <1>18, <1>19, <1>20, <1>21, <1>22, <1>23, <1>24,
             <1>25, <1>26, <1>27, <1>28, <1>29 DEF Drive

\* A worker that ends may rewrite its commit, never where it comes from.
LEMMA WorkerKeepsOrigin ==
  ASSUME TypeOK, WorkerDone
  PROVE  \E w \in workspaces, c \in Commits :
            /\ c.origin = w.commit.origin
            /\ workspaces' = (workspaces \ {w}) \cup {[w EXCEPT !.st = "done", !.commit = c]}
  <1>1. PICK w \in workspaces :
          \E c \in CASE w.phase = "implementing" ->
                         {[w.commit EXCEPT !.work = s] : s \in Shapes \cup {"gone"}}
                     [] w.phase = "landing" ->
                         {w.commit, [w.commit EXCEPT !.form = "merged"]}
                     [] OTHER -> {w.commit} :
            workspaces' = (workspaces \ {w}) \cup {[w EXCEPT !.st = "done", !.commit = c]}
    BY DEF WorkerDone
  <1>2. w.commit \in Commits
    BY DEF Workspaces, TypeOK, RegistryOK
  <1>3. \A s \in Shapes \cup {"gone"} :
          /\ [w.commit EXCEPT !.work = s] \in Commits
          /\ [w.commit EXCEPT !.work = s].origin = w.commit.origin
    BY <1>2, EnvironmentAssumption DEF Commits
  <1>4. /\ [w.commit EXCEPT !.form = "merged"] \in Commits
        /\ [w.commit EXCEPT !.form = "merged"].origin = w.commit.origin
    BY <1>2 DEF Commits, Form
  <1>5. CASE w.phase = "implementing"
    BY <1>1, <1>3, <1>5
  <1>6. CASE w.phase = "landing"
    BY <1>1, <1>2, <1>4, <1>6
  <1>7. CASE w.phase \notin {"implementing", "landing"}
    BY <1>1, <1>2, <1>7
  <1> QED BY <1>5, <1>6, <1>7

\* What the rest of the world does preserves the types.
LEMMA TypeEnvironment == TypeInv /\ (WorkerDone \/ ExternalAdvance \/ Approve) => Typed'
  <1> SUFFICES ASSUME TypeInv, WorkerDone \/ ExternalAdvance \/ Approve PROVE Typed'
    OBVIOUS
  <1> USE DEF TypeInv, TypeOK, RowOK, RegistryOK, TrunkOK, RemoteOK, LabelsOK, LocalsOK,
              HistoryOK, InHand, row, remoteState, labels, locals, history, Typed
  <1>1. CASE WorkerDone
    <2>1. PICK w \in workspaces, c \in Commits :
            /\ c.origin = w.commit.origin
            /\ workspaces' = (workspaces \ {w}) \cup {[w EXCEPT !.st = "done", !.commit = c]}
      BY <1>1, WorkerKeepsOrigin
    <2> DEFINE n == [w EXCEPT !.st = "done", !.commit = c]
    <2>2. n \in Workspaces /\ n.uuid = w.uuid
      BY <2>1 DEF Workspaces
    <2>3. workspaces' = (workspaces \ {w}) \cup {n}
      BY <2>1
    <2> HIDE DEF n
    <2>4. UNCHANGED <<workers, minted, pc, cur>>
      BY <1>1 DEF WorkerDone
    <2>5. RegistryOK' /\ \A v \in workspaces' : v.uuid <= minted'
      BY <2>2, <2>3, <2>4
    <2>6. InHand'
      BY <2>2, <2>3, <2>4
    <2> QED BY <1>1, <2>5, <2>6 DEF WorkerDone, Driving
  <1>2. CASE ExternalAdvance
    <2>1. [commit |-> [origin |-> 0, base |-> Len(trunk), work |-> "own", form |-> "original"],
           source |-> IF pc = "bookmark_move" THEN "raced" ELSE "external"]
             \in [commit : Commits, source : Source]
      BY DEF Commits, Form, Source, Foreign
    <2>2. TrunkOK'
      BY <1>2, <2>1 DEF ExternalAdvance
    <2> QED BY <1>2, <2>2 DEF ExternalAdvance
  <1>3. CASE Approve
    <2>1. LabelsOK'
      BY <1>3 DEF Approve
    <2> QED BY <1>3, <2>1 DEF Approve
  <1> QED BY <1>1, <1>2, <1>3

\* What may happen between the guard and the move.
Meanwhile == WorkerDone \/ (workspaces' = workspaces /\ (ExternalAdvance \/ trunk' = trunk))
SameChange == change' = change /\ landing_change' = landing_change /\ branch' = branch

\* Only the guard of a move leads to the move, and until it is made nothing
\* else of the issue changes but what a worker writes.
LEMMA GuardIsFirst ==
  ASSUME TypeInv, [Next]_vars, pc' = "bookmark_move"
  PROVE  SameChange /\ (Move \/ (pc = "bookmark_move" /\ Meanwhile))
  <1> USE DEF set_phase, Return, row, remoteState, labels, locals
  <1>1. ~ Recover /\ ~ Crash
    <2>1. pc' # "bookmark_move" \/ ~ (RecoverWorker \/ ReclaimRow \/ ResumeLanding \/ ResumeRemoteLanding)
      BY DEF RecoverWorker, ReclaimRow, ResumeLanding, ResumeEntry, ResumeRemoteLanding
    <2>2. ~ (RecoverOutright \/ ReclaimWorkspace \/ Rollback \/ ResumeMoved \/ PlanFails
             \/ RecordRefused \/ Quarantine \/ Crash)
      BY DEF RecoverOutright, ReclaimWorkspace, Rollback, ResumeMoved, PlanFails, RecordRefused,
             Quarantine, Crash
    <2> QED BY <2>1, <2>2 DEF Recover
  <1>2. ~ LandRemotely
    BY DEF LandRemotely, PushStart, PointBookmark, Push, PushDone, OpenPr, PrCreated, AdoptPr,
           PrOpen, ForgetBranch
  <1>3. LandLocally => Move
    BY DEF LandLocally, RebaseStart, Rebase, Merging, RebaseDone, BookmarkMove, Refused, Moved,
           MergedStep, Landed
  <1>4. ~ Drive
    BY DEF Drive, Driving, Pickup, ResetStreak, PrepareImplementer,
           RegisterWorker, WorkerFails, ImplementerDone, EnterQa, RunQa, DropRow,
           DropWorkspace, Poison, OnQaFail, EnterReview, ForgetImplementer,
           PrepareAdversary, AdversaryDone, OnAdversaryFindings, Reimplement,
           OnCleanRound, Converge, Land, StoreLandingChange, ParkForInboundApproval,
           ResumeApprovedInbound, MergerGate, PrepareMerger, MergerDone, CheckMerge,
           ParkForHuman
  <1>5. Move => SameChange
    BY DEF Move, Landing, SameChange
  <1>6. Environment \/ UNCHANGED vars => SameChange /\ pc' = pc /\ Meanwhile
    <2>1. CASE WorkerDone
      BY <2>1 DEF WorkerDone, Driving, SameChange, Meanwhile
    <2>2. CASE ExternalAdvance
      BY <2>2 DEF ExternalAdvance, SameChange, Meanwhile
    <2>3. CASE Approve
      BY <2>3 DEF Approve, SameChange, Meanwhile
    <2>4. CASE ClosePr
      BY <2>4 DEF ClosePr, LandingRemotely, SameChange, Meanwhile
    <2>5. CASE UNCHANGED vars
      BY <2>5 DEF vars, SameChange, Meanwhile
    <2> QED BY <2>1, <2>2, <2>3, <2>4, <2>5 DEF Environment
  <1> HIDE DEF set_phase, Return, row, remoteState, labels, locals
  <1>7. Move \/ Environment \/ UNCHANGED vars
    BY <1>1, <1>2, <1>3, <1>4 DEF Next, Orchestrator
  <1>8. CASE Move
    BY <1>5, <1>8
  <1>9. CASE Environment \/ UNCHANGED vars
    <2>1. SameChange /\ pc' = pc /\ Meanwhile
      BY <1>6, <1>9
    <2> QED BY <2>1
  <1> QED BY <1>7, <1>8, <1>9

\* The guard lets only a change pass that stands on main, and main does not
\* shrink before it is moved.
LEMMA GuardLooked == TypeInv /\ [Next]_vars => BaseAtMove'
  <1> SUFFICES ASSUME TypeInv, [Next]_vars, pc' = "bookmark_move"
               PROVE  change'.base <= Len(trunk')
    BY DEF BaseAtMove
  <1>0. trunk \in Seq([commit : Commits, source : Source]) /\ change.base \in Nat
    BY CommitFields DEF TypeInv, TypeOK, TrunkOK, LocalsOK
  <1>1. SameChange /\ (Move \/ (pc = "bookmark_move" /\ Meanwhile))
    BY GuardIsFirst
  <1>2. change'.base = change.base
    BY <1>1 DEF SameChange
  <1>3. CASE Move
    <2>1. change.base = Len(trunk)
      BY <1>3 DEF Move, CanFastForward, is_ancestor_of
    <2>2. trunk' = trunk
      BY <1>3 DEF Move
    <2> QED BY <1>0, <1>2, <2>1, <2>2
  <1>4. CASE pc = "bookmark_move" /\ Meanwhile
    <2>1. change.base <= Len(trunk)
      BY <1>4 DEF TypeInv, BaseAtMove
    <2>2. trunk' = trunk \/ \E x : trunk' = Append(trunk, x)
      BY <1>4 DEF Meanwhile, WorkerDone, Driving, ExternalAdvance
    <2>3. trunk' = trunk \/ Len(trunk') = Len(trunk) + 1
      BY <1>0, <2>2
    <2>4. Len(trunk') >= Len(trunk)
      BY <1>0, <2>3
    <2> QED BY <1>0, <1>2, <2>1, <2>4
  <1> QED BY <1>1, <1>3, <1>4

\* A step that changes nothing changes no type.
LEMMA TypeStutter == TypeInv /\ UNCHANGED vars => TypeInv'
  BY DEF TypeInv, TypeOK, RowOK, RegistryOK, TrunkOK, RemoteOK, LabelsOK, LocalsOK,
         HistoryOK, InHand, BaseAtMove, row, remoteState, labels, locals, history, vars

\* The registry, the row and the orchestrator's locals keep their types, no two
\* workspaces share a name, and the workspace in hand is always registered.
THEOREM TypeCorrect == Spec => []TypeInv
  <1>1. TypeInv /\ [Next]_vars => Typed'
    <2>1. TypeInv /\ UNCHANGED vars => Typed'
      BY TypeStutter DEF TypeInv, Typed
    <2> QED BY <2>1, TypeLandLocally, TypeLandRemotely, TypeRecover, TypeDrive, TypeEnvironment
            DEF Next, Orchestrator, Environment
  <1>2. TypeInv /\ [Next]_vars => TypeInv'
    BY <1>1, GuardLooked DEF TypeInv, Typed
  <1> QED BY <1>2, TypeInit, PTL DEF Spec

\* TypeOK is an invariant of the build pump.
THEOREM TypeOKHolds == Spec => []TypeOK
  <1>1. TypeInv => TypeOK
    BY DEF TypeInv
  <1> QED BY <1>1, TypeCorrect, PTL

\* The workspace the pump is about to look into is registered, however often
\* the process died before: LandingTargetMissing cannot happen.
THEOREM WorkspaceIsInHand == Spec => []InHand
  <1>1. TypeInv => InHand
    BY DEF TypeInv
  <1> QED BY <1>1, TypeCorrect, PTL

-----------------------------------------------------------------------------
(* Vetting.  What the pump chooses to land, and what it opens a pull        *)
(* request for, is vetted work, however often and wherever the process      *)
(* dies.  The invariant follows the work: made fresh by an Implementer,     *)
(* passed by QA, reviewed n_rounds times in a row, then landed, stored or   *)
(* pushed.                                                                  *)

\* Nothing is reviewed, stored or landed when the orchestrator starts.
LEMMA VettedInit == Init => VettedInv
  BY DEF Init, VettedInv, OriginsMinted, PhaseAtStep, RoleInHand, WorkIsFresh, QaBeforeReview,
         StreakIsEarned, ScanIsContained, LandingIsVetted, PushIsVetted, ChosenWorkIsVetted,
         PrIsVetted, Holding, Chosen, Ours, NoCommit, None

\* Local landing only appends what it was given.
LEMMA VettedLandLocally == TypeInv /\ VettedInv /\ LandLocally => VettedInv'
  <1> SUFFICES ASSUME TypeInv, VettedInv, LandLocally PROVE VettedInv'
    OBVIOUS
  <1> USE DEF Landing, set_phase, Return, row, remoteState, labels, locals, history,
              VettedInv, OriginsMinted, PhaseAtStep, RoleInHand, WorkIsFresh, QaBeforeReview,
              StreakIsEarned, ScanIsContained, LandingIsVetted, PushIsVetted,
              ChosenWorkIsVetted, PrIsVetted, Counted, Vetted, Holding, Role, Chosen, Ours
  <1>0. minted \in Nat
    BY DEF TypeInv, TypeOK, RegistryOK
  <1>1. CASE RebaseStart
    BY <1>1 DEF RebaseStart
  <1>2. CASE Rebase
    <2>1. PICK t \in RebaseResults :
            /\ change' = t
            /\ workspaces' = {IF w.commit = change THEN [w EXCEPT !.commit = t]
                                                   ELSE w : w \in workspaces}
            /\ pc' = IF t.form = "conflicted" THEN "merging" ELSE "rebase_done"
      BY <1>2 DEF Rebase
    <2>2. t.origin = change.origin
      BY <2>1, RebaseResultsType DEF TypeInv
    <2> DEFINE moved(w) == IF w.commit = change THEN [w EXCEPT !.commit = t] ELSE w
    <2>3. \A w \in workspaces : /\ moved(w).commit.origin = w.commit.origin
                               /\ moved(w).phase = w.phase /\ moved(w).uuid = w.uuid
      BY <2>2 DEF Workspaces, TypeInv, TypeOK, RegistryOK
    <2>4. workspaces' = {moved(w) : w \in workspaces}
      BY <2>1
    <2>5. pc' \in {"merging", "rebase_done"}
      BY <2>1
    <2> HIDE DEF moved
    <2>6. \A v \in workspaces' : \E w \in workspaces :
            /\ v.commit.origin = w.commit.origin /\ v.phase = w.phase /\ v.uuid = w.uuid
      BY <2>3, <2>4
    <2>7. OriginsMinted' /\ RoleInHand'
      BY <1>2, <2>1, <2>2, <2>5, <2>6 DEF Rebase
    <2>8. LandingIsVetted'
      BY <1>2, <2>1, <2>2, <2>5, <2>6 DEF Rebase
    <2> QED BY <1>2, <2>1, <2>2, <2>5, <2>7, <2>8 DEF Rebase
  <1>3. CASE Merging
    BY <1>0, <1>3 DEF Merging, NoCommit
  <1>4. CASE RebaseDone
    BY <1>4 DEF RebaseDone
  <1>5. CASE Move
    <2>1. pc' \in {"moved", "refused", "bookmark_move"}
      BY <1>5 DEF Move
    <2> QED BY <1>5, <2>1 DEF Move
  <1>9. CASE BookmarkMove
    <2>1. source # "scan" => Vetted(change.origin)
      BY <1>9 DEF BookmarkMove
    <2>2. UNCHANGED <<qa_passed, clean, flagged>>
      BY <1>9 DEF BookmarkMove
    <2>3. ChosenWorkIsVetted'
      BY <1>9, <2>1, <2>2, MovedPlaces
    <2> QED BY <1>9, <2>3 DEF BookmarkMove
  <1>6. CASE Refused
    BY <1>0, <1>6 DEF Refused, Landed, NoCommit, None
  <1>7. CASE Moved
    BY <1>7 DEF Moved
  <1>8. CASE MergedStep
    BY <1>0, <1>8 DEF MergedStep, Landed, NoCommit, None
  <1> QED BY <1>1, <1>2, <1>3, <1>4, <1>5, <1>6, <1>7, <1>8, <1>9 DEF LandLocally

\* Remote landing only pushes what it was given.
LEMMA VettedLandRemotely == TypeInv /\ VettedInv /\ (LandRemotely \/ ClosePr) => VettedInv'
  <1> SUFFICES ASSUME TypeInv, VettedInv, LandRemotely \/ ClosePr PROVE VettedInv'
    OBVIOUS
  <1> USE DEF LandingRemotely, set_phase, Return, row, remoteState, labels, locals, history,
              VettedInv, OriginsMinted, PhaseAtStep, RoleInHand, WorkIsFresh, QaBeforeReview,
              StreakIsEarned, ScanIsContained, LandingIsVetted, PushIsVetted,
              ChosenWorkIsVetted, PrIsVetted, Counted, Vetted, Holding, Role, Chosen, Ours
  <1>0. minted \in Nat
    BY DEF TypeInv, TypeOK, RegistryOK
  <1>1. CASE PushStart
    BY <1>1 DEF PushStart
  <1>2. CASE PointBookmark
    BY <1>2 DEF PointBookmark
  <1>3. CASE Push
    BY <1>3 DEF Push
  <1>4. CASE PushDone
    BY <1>4 DEF PushDone
  <1>5. CASE OpenPr
    BY <1>5 DEF OpenPr, find_open_pr, open_pr
  <1>6. CASE PrCreated
    BY <1>6 DEF PrCreated
  <1>7. CASE AdoptPr
    BY <1>7 DEF AdoptPr
  <1>8. CASE PrOpen
    BY <1>8 DEF PrOpen, None
  <1>9. CASE ForgetBranch
    BY <1>0, <1>9 DEF ForgetBranch, NoCommit
  <1>10. CASE ClosePr
    BY <1>10 DEF ClosePr
  <1> QED BY <1>1, <1>2, <1>3, <1>4, <1>5, <1>6, <1>7, <1>8, <1>9, <1>10 DEF LandRemotely

\* plan_recovery resumes a remote landing from a remote substate only.
LEMMA RemotePlan == Plan = "ResumeRemoteLanding" => phase_substate \in RemoteSubstate
  BY DEF Plan, plan_recovery

\* A crash forgets what was being reviewed; recovery resumes what was stored
\* or pushed, and marks what it finds by a scan.
LEMMA VettedRecover == TypeInv /\ VettedInv /\ (Recover \/ Crash) => VettedInv'
  <1> SUFFICES ASSUME TypeInv, VettedInv, Recover \/ Crash PROVE VettedInv'
    OBVIOUS
  <1> USE DEF Recovering, set_phase, Return, row, remoteState, labels, locals, history,
              VettedInv, OriginsMinted, PhaseAtStep, RoleInHand, WorkIsFresh, QaBeforeReview,
              StreakIsEarned, ScanIsContained, LandingIsVetted, PushIsVetted,
              ChosenWorkIsVetted, PrIsVetted, Counted, Vetted, Holding, Role, Chosen, Ours
  <1>0. minted \in Nat
    BY DEF TypeInv, TypeOK, RegistryOK
  <1>1. CASE RecoverOutright
    BY <1>0, <1>1 DEF RecoverOutright, NoCommit
  <1>2. CASE RecoverWorker
    BY <1>2 DEF RecoverWorker
  <1>3. CASE ReclaimWorkspace
    BY <1>3 DEF ReclaimWorkspace, forget_best_effort, forget
  <1>4. CASE ReclaimRow
    BY <1>4 DEF ReclaimRow
  <1>5. CASE Rollback
    BY <1>0, <1>5 DEF Rollback, NoCommit, None
  <1>6. CASE ResumeMoved
    BY <1>6 DEF ResumeMoved
  <1>7. CASE ResumeLanding
    BY <1>7 DEF ResumeLanding, ResumeEntry, landing_change_revset
  <1>8. CASE ResumeRemoteLanding
    <2>1. phase_substate \in {"push_started", "push_done_pr_pending", "pr_created"}
      BY <1>8, RemotePlan DEF ResumeRemoteLanding, RemoteSubstate
    <2> QED BY <1>8, <2>1 DEF ResumeRemoteLanding, branch_revset
  <1>9. CASE Quarantine
    BY <1>0, <1>9 DEF Quarantine, NoCommit, None
  <1>10. CASE PlanFails
    BY <1>10 DEF PlanFails
  <1>11. CASE Crash
    BY <1>0, <1>11 DEF Crash, NoCommit
  <1>12. CASE RecordRefused
    BY <1>12 DEF RecordRefused, None
  <1> QED BY <1>1, <1>2, <1>3, <1>4, <1>5, <1>6, <1>7, <1>8, <1>9, <1>10, <1>11, <1>12
          DEF Recover

\* A fresh workspace takes nothing away and adds one.
LEMMA VettedPrepare ==
  ASSUME NEW p, NEW c, prepare(p, c)
  PROVE  /\ minted' = minted + 1 /\ cur' = minted + 1
         /\ \A w \in workspaces' :
               w \in workspaces \/ (w.phase = p /\ w.commit = c /\ w.uuid = minted + 1)
  <1> DEFINE n == [phase |-> p, round |-> round, uuid |-> minted + 1,
                   commit |-> c, st |-> "prepared"]
  <1>1. n.phase = p /\ n.commit = c /\ n.uuid = minted + 1
    OBVIOUS
  <1>2. workspaces' = workspaces \cup {n} /\ minted' = minted + 1 /\ cur' = minted + 1
    BY DEF prepare
  <1> HIDE DEF n
  <1> QED BY <1>1, <1>2

\* Implementing: the work is fresh, and stays unjudged until QA passed it.
\* Reviewing: each clean round is counted once, for this work.
\* Landing starts only from a full streak or from the stored change.
LEMMA VettedDrive == TypeInv /\ VettedInv /\ Drive => VettedInv'
  <1> SUFFICES ASSUME TypeInv, VettedInv, Drive PROVE VettedInv'
    OBVIOUS
  <1> USE DEF Driving, set_phase, Return, row, remoteState, labels, locals, history,
              VettedInv, OriginsMinted, PhaseAtStep, RoleInHand, WorkIsFresh, QaBeforeReview,
              StreakIsEarned, ScanIsContained, LandingIsVetted, PushIsVetted,
              ChosenWorkIsVetted, PrIsVetted, Counted, Vetted, Holding, Role, Chosen, Ours
  <1>0. minted \in Nat /\ iter \in Nat
    BY DEF TypeInv, TypeOK, RegistryOK, LocalsOK
  <1>1. CASE Pickup
    BY <1>0, <1>1 DEF Pickup, is_drivable, None
  <1>2. CASE ResetStreak
    BY <1>0, <1>2 DEF ResetStreak
  <1>3. CASE PrepareImplementer
    <2> DEFINE c == [origin |-> minted + 1, base |-> Len(trunk),
                     work |-> "gone", form |-> "original"]
    <2>1. c.origin = minted + 1
      OBVIOUS
    <2>2. prepare("implementing", c)
      BY <1>3 DEF PrepareImplementer
    <2> HIDE DEF c
    <2>3. /\ minted' = minted + 1 /\ cur' = minted + 1
          /\ \A w \in workspaces' :
               \/ w \in workspaces
               \/ w.phase = "implementing" /\ w.commit.origin = minted + 1 /\ w.uuid = minted + 1
      BY <2>1, <2>2, VettedPrepare
    <2>4. \A w \in workspaces : w.uuid <= minted /\ w.uuid \in Nat /\ w.commit.origin \in Nat
      BY CommitFields DEF TypeInv, TypeOK, RegistryOK, Workspaces
    <2>5. /\ change.origin \in Nat /\ landing_change.origin \in Nat /\ branch.origin \in Nat
          /\ flagged \subseteq Nat /\ \A q \in clean : q[1] \in Nat
      BY CommitFields DEF TypeInv, TypeOK, LocalsOK, RowOK, RemoteOK, HistoryOK
    <2>6. OriginsMinted'
      BY <1>0, <1>3, <2>3, <2>4, <2>5 DEF PrepareImplementer
    <2>7. RoleInHand' /\ WorkIsFresh'
      BY <1>0, <1>3, <2>3, <2>4, <2>5 DEF PrepareImplementer
    <2> QED BY <1>0, <1>3, <2>3, <2>6, <2>7 DEF PrepareImplementer
  <1>4. CASE RegisterWorker
    <2> DEFINE run(w) == IF w.uuid = cur THEN [w EXCEPT !.st = "running"] ELSE w
    <2>1. \A w \in workspaces : /\ run(w).commit = w.commit
                               /\ run(w).phase = w.phase /\ run(w).uuid = w.uuid
      BY DEF Workspaces, TypeInv, TypeOK, RegistryOK
    <2>2. workspaces' = {run(w) : w \in workspaces}
      BY <1>4 DEF RegisterWorker
    <2> HIDE DEF run
    <2>3. \A v \in workspaces' : \E w \in workspaces :
            v.commit = w.commit /\ v.phase = w.phase /\ v.uuid = w.uuid
      BY <2>1, <2>2
    <2>4. OriginsMinted' /\ RoleInHand'
      BY <1>4, <2>3 DEF RegisterWorker
    <2>5. WorkIsFresh'
      BY <1>4, <2>3 DEF RegisterWorker
    <2> QED BY <1>4, <2>3, <2>4, <2>5 DEF RegisterWorker
  <1>5. CASE WorkerFails
    BY <1>0, <1>5 DEF WorkerFails, FailureGoal
  <1>6. CASE ImplementerDone
    <2>1. Current \in workspaces /\ Current.uuid = cur
      BY <1>6, CurrentHeld DEF ImplementerDone, TypeInv, InHand
    <2>2. phase = "implementing"
      BY <1>6, <2>1 DEF ImplementerDone
    <2> QED BY <1>6, <2>2 DEF ImplementerDone
  <1>7. CASE EnterQa
    BY <1>0, <1>7 DEF EnterQa, None
  <1>8. CASE RunQa
    <2>1. Current \in workspaces /\ Current.uuid = cur
      BY <1>8, CurrentHeld DEF RunQa, TypeInv, InHand
    <2>2. Current.commit.origin = cur
      BY <1>8, <2>1 DEF RunQa
    <2>3. /\ qa_passed \subseteq qa_passed'
          /\ goal' \in {"qa_pass", "qa_fail", "fail"}
          /\ goal' = "qa_pass" => <<cur, "original">> \in qa_passed'
      BY <1>8, <2>2 DEF RunQa
    <2> QED BY <1>8, <2>3 DEF RunQa
  <1>9. CASE DropRow
    BY <1>0, <1>9 DEF DropRow
  <1>10. CASE DropWorkspace
    BY <1>0, <1>10 DEF DropWorkspace, forget, forget_best_effort, NoCommit
  <1>11. CASE Poison
    BY <1>0, <1>11 DEF Poison, NoCommit, None
  <1>12. CASE OnQaFail
    BY <1>0, <1>12 DEF OnQaFail, NoCommit, None
  <1>13. CASE EnterReview
    <2>1. Current \in workspaces /\ Current.uuid = cur
      BY <1>13, CurrentHeld DEF EnterReview, TypeInv, InHand
    <2>2. Current.commit.origin = cur
      BY <1>13, <2>1 DEF EnterReview
    <2>3. n_rounds > 0
      BY ConfigAssumption
    <2> QED BY <1>13, <2>1, <2>2, <2>3 DEF EnterReview, None
  <1>14. CASE ForgetImplementer
    BY <1>0, <1>14 DEF ForgetImplementer, forget, forget_best_effort
  <1>15. CASE PrepareAdversary
    <2> DEFINE c == [NoCommit EXCEPT !.base = Len(trunk)]
    <2>1. c.origin = 0
      BY DEF NoCommit
    <2>2. prepare("adversary-review", c)
      BY <1>15 DEF PrepareAdversary
    <2> HIDE DEF c
    <2>3. /\ minted' = minted + 1 /\ cur' = minted + 1
          /\ \A w \in workspaces' :
               \/ w \in workspaces
               \/ w.phase = "adversary-review" /\ w.commit.origin = 0 /\ w.uuid = minted + 1
      BY <2>1, <2>2, VettedPrepare
    <2>4. \A w \in workspaces : w.uuid <= minted /\ w.uuid \in Nat /\ w.commit.origin \in Nat
      BY CommitFields DEF TypeInv, TypeOK, RegistryOK, Workspaces
    <2>5. /\ change.origin \in Nat /\ landing_change.origin \in Nat /\ branch.origin \in Nat
          /\ flagged \subseteq Nat /\ \A q \in clean : q[1] \in Nat
      BY CommitFields DEF TypeInv, TypeOK, LocalsOK, RowOK, RemoteOK, HistoryOK
    <2>6. OriginsMinted'
      BY <1>0, <1>15, <2>3, <2>4, <2>5 DEF PrepareAdversary
    <2>7. RoleInHand' /\ LandingIsVetted'
      BY <1>0, <1>15, <2>3, <2>4 DEF PrepareAdversary
    <2> QED BY <1>0, <1>15, <2>3, <2>6, <2>7 DEF PrepareAdversary
  <1>16. CASE AdversaryDone
    <2>1. Current \in workspaces /\ Current.uuid = cur
      BY <1>16, CurrentHeld DEF AdversaryDone, TypeInv, InHand
    <2>2. phase = "adversary-review"
      BY <1>16, <2>1 DEF AdversaryDone
    <2>3. Counted(iter)
      BY <1>16, <2>2 DEF AdversaryDone
    <2>4. n_rounds \in Nat /\ change.origin \in Nat /\ \A q \in clean : q[2] \in Nat
      <3>1. n_rounds \in Nat
        BY ConfigAssumption
      <3>2. change \in Commits /\ clean \subseteq Nat \X Nat
        BY DEF TypeInv, TypeOK, LocalsOK, HistoryOK
      <3> QED BY <3>1, <3>2, CommitFields
    <2>5. ~ Vetted(change.origin)
      BY <1>0, <2>3, <2>4
    <2>6. /\ clean \subseteq clean' /\ qa_passed' = qa_passed
          /\ flagged \subseteq flagged' /\ flagged' \subseteq flagged \cup {change.origin}
      BY <1>16 DEF AdversaryDone
    <2>7. \A o : Vetted(o) => /\ <<o, "original">> \in qa_passed' /\ <<o, n_rounds>> \in clean'
                             /\ o \notin flagged'
      BY <2>5, <2>6
    <2>8. LandingIsVetted' /\ PushIsVetted' /\ ChosenWorkIsVetted' /\ PrIsVetted'
      BY <1>16, <2>7 DEF AdversaryDone
    <2>9. OriginsMinted' /\ WorkIsFresh' /\ QaBeforeReview' /\ ScanIsContained'
      BY <1>16, <2>2 DEF AdversaryDone
    <2>10. StreakIsEarned'
      BY <1>0, <1>16, <2>2, <2>3, <2>4 DEF AdversaryDone
    <2>11. PhaseAtStep' /\ RoleInHand'
      BY <1>16, <2>2 DEF AdversaryDone
    <2> QED BY <2>8, <2>9, <2>10, <2>11
  <1>17. CASE OnAdversaryFindings
    BY <1>0, <1>17 DEF OnAdversaryFindings, None
  <1>18. CASE Reimplement
    BY <1>0, <1>18 DEF Reimplement, NoCommit, None
  <1>19. CASE OnCleanRound
    <2>1. Counted(iter + 1)
      BY <1>19 DEF OnCleanRound
    <2>2. n_rounds \in Nat /\ n_rounds > 0
      BY ConfigAssumption
    <2>3. /\ pc' \in {"converge", "adv_prepare", "poison"}
          /\ pc' = "converge" => iter + 1 = n_rounds
          /\ pc' = "adv_prepare" => iter + 1 < n_rounds
          /\ empty_round_streak' = iter + 1 /\ iter' = iter + 1
      BY <1>0, <1>19, <2>1, <2>2 DEF OnCleanRound
    <2>4. StreakIsEarned'
      BY <1>0, <1>19, <2>1, <2>2, <2>3 DEF OnCleanRound
    <2>5. LandingIsVetted'
      BY <1>0, <1>19, <2>1, <2>2, <2>3 DEF OnCleanRound
    <2> QED BY <1>19, <2>3, <2>4, <2>5 DEF OnCleanRound
  <1>20. CASE Converge
    BY <1>0, <1>20 DEF Converge, None
  <1>21. CASE Land
    BY <1>0, <1>21 DEF Land
  <1>22. CASE StoreLandingChange
    BY <1>0, <1>22 DEF StoreLandingChange
  <1>23. CASE ParkForInboundApproval
    BY <1>0, <1>23 DEF ParkForInboundApproval, NoCommit, None
  <1>24. CASE ResumeApprovedInbound
    BY <1>0, <1>24 DEF ResumeApprovedInbound
  <1>25. CASE MergerGate
    BY <1>0, <1>25 DEF MergerGate
  <1>26. CASE PrepareMerger
    <2>1. prepare("landing", change)
      BY <1>26 DEF PrepareMerger
    <2>2. /\ minted' = minted + 1 /\ cur' = minted + 1
          /\ \A w \in workspaces' :
               \/ w \in workspaces
               \/ w.phase = "landing" /\ w.commit = change /\ w.uuid = minted + 1
      BY <2>1, VettedPrepare
    <2>3. \A w \in workspaces : w.uuid <= minted /\ w.uuid \in Nat /\ w.commit.origin \in Nat
      BY CommitFields DEF TypeInv, TypeOK, RegistryOK, Workspaces
    <2>4. /\ change.origin \in Nat /\ landing_change.origin \in Nat /\ branch.origin \in Nat
          /\ flagged \subseteq Nat /\ \A q \in clean : q[1] \in Nat
      BY CommitFields DEF TypeInv, TypeOK, LocalsOK, RowOK, RemoteOK, HistoryOK
    <2>5. OriginsMinted'
      BY <1>0, <1>26, <2>2, <2>3, <2>4 DEF PrepareMerger
    <2>6. RoleInHand' /\ LandingIsVetted'
      BY <1>0, <1>26, <2>2, <2>3 DEF PrepareMerger
    <2> QED BY <1>0, <1>26, <2>2, <2>5, <2>6 DEF PrepareMerger
  <1>27. CASE MergerDone
    <2>1. Current \in workspaces /\ Current.uuid = cur
      BY <1>27, CurrentHeld DEF MergerDone, TypeInv, InHand
    <2>2. phase = "landing"
      BY <1>27, <2>1 DEF MergerDone
    <2> QED BY <1>27, <2>2 DEF MergerDone
  <1>28. CASE CheckMerge
    <2>1. Current \in workspaces /\ Current.uuid = cur
      BY <1>28, CurrentHeld DEF CheckMerge, TypeInv, InHand
    <2>2. phase = "landing" /\ Vetted(Current.commit.origin) /\ Current.commit.origin <= minted
      BY <1>28, <2>1 DEF CheckMerge
    <2>3. qa_passed \subseteq qa_passed' /\ pc' \in {"retry_land", "drop_ws"}
      BY <1>28 DEF CheckMerge
    <2> QED BY <1>28, <2>2, <2>3 DEF CheckMerge
  <1>29. CASE ParkForHuman
    BY <1>0, <1>29 DEF ParkForHuman, NoCommit, None
  <1> QED BY <1>1, <1>2, <1>3, <1>4, <1>5, <1>6, <1>7, <1>8, <1>9, <1>10, <1>11, <1>12, <1>13, <1>14, <1>15, <1>16, <1>17, <1>18, <1>19, <1>20, <1>21, <1>22, <1>23, <1>24, <1>25, <1>26, <1>27, <1>28, <1>29 DEF Drive

\* The rest of the world does not vet, nor does it land for us.
LEMMA VettedEnvironment ==
  TypeInv /\ VettedInv /\ (WorkerDone \/ ExternalAdvance \/ Approve) => VettedInv'
  <1> SUFFICES ASSUME TypeInv, VettedInv, WorkerDone \/ ExternalAdvance \/ Approve
               PROVE  VettedInv'
    OBVIOUS
  <1> USE DEF row, remoteState, labels, locals, history,
              VettedInv, OriginsMinted, PhaseAtStep, RoleInHand, WorkIsFresh, QaBeforeReview,
              StreakIsEarned, ScanIsContained, LandingIsVetted, PushIsVetted,
              ChosenWorkIsVetted, PrIsVetted, Counted, Vetted, Holding, Role, Chosen, Ours
  <1>1. CASE WorkerDone
    <2>1. PICK w \in workspaces, c \in Commits :
            /\ c.origin = w.commit.origin
            /\ workspaces' = (workspaces \ {w}) \cup {[w EXCEPT !.st = "done", !.commit = c]}
      BY <1>1, WorkerKeepsOrigin DEF TypeInv
    <2> DEFINE n == [w EXCEPT !.st = "done", !.commit = c]
    <2>2. n.commit.origin = w.commit.origin /\ n.phase = w.phase /\ n.uuid = w.uuid
      BY <2>1 DEF Workspaces, TypeInv, TypeOK, RegistryOK
    <2>3. workspaces' = (workspaces \ {w}) \cup {n}
      BY <2>1
    <2> HIDE DEF n
    <2>4. \A v \in workspaces' : \E u \in workspaces :
            /\ v.commit.origin = u.commit.origin /\ v.phase = u.phase /\ v.uuid = u.uuid
      BY <2>2, <2>3
    <2>5. UNCHANGED <<row, workers, trunk, remoteState, labels, pc, locals, minted, history>>
      BY <1>1 DEF WorkerDone, Driving
    <2>6. OriginsMinted' /\ RoleInHand' /\ LandingIsVetted'
      BY <2>4, <2>5
    <2> QED BY <2>5, <2>6
  <1>2. CASE ExternalAdvance
    <2> DEFINE x == [commit |-> [origin |-> 0, base |-> Len(trunk),
                                 work |-> "own", form |-> "original"],
                     source |-> IF pc = "bookmark_move" THEN "raced" ELSE "external"]
    <2>1. trunk' = Append(trunk, x) /\ x.source \in Foreign
      BY <1>2 DEF ExternalAdvance, Foreign
    <2> HIDE DEF x
    <2>2. trunk \in Seq([commit : Commits, source : Source])
      BY DEF TypeInv, TypeOK, TrunkOK
    <2>3. \A i \in DOMAIN trunk' : (i \in DOMAIN trunk /\ trunk'[i] = trunk[i]) \/ trunk'[i] = x
      BY <2>1, <2>2
    <2>4. ChosenWorkIsVetted'
      BY <1>2, <2>1, <2>3 DEF ExternalAdvance
    <2> QED BY <1>2, <2>4 DEF ExternalAdvance
  <1>3. CASE Approve
    BY <1>3 DEF Approve
  <1> QED BY <1>1, <1>2, <1>3

\* A step that changes nothing keeps the invariant.
LEMMA VettedStutter == VettedInv /\ UNCHANGED vars => VettedInv'
  BY DEF row, remoteState, labels, locals, history, vars,
         VettedInv, OriginsMinted, PhaseAtStep, RoleInHand, WorkIsFresh, QaBeforeReview,
         StreakIsEarned, ScanIsContained, LandingIsVetted, PushIsVetted,
         ChosenWorkIsVetted, PrIsVetted, Counted, Vetted, Holding, Role, Chosen, Ours

\* The path of a piece of work, from its Implementer to main, is as VettedInv
\* describes it.
THEOREM WorkIsFollowed == Spec => []VettedInv
  <1>1. TypeInv /\ VettedInv /\ [Next]_vars => VettedInv'
    BY VettedLandLocally, VettedLandRemotely, VettedRecover, VettedDrive, VettedEnvironment,
       VettedStutter DEF Next, Orchestrator, Environment
  <1> QED BY <1>1, VettedInit, TypeCorrect, PTL DEF Spec

\* For every number of crashes, rounds and foreign advances: what the pump
\* lands, or recovery lands from the stored landing_change, passed QA and
\* n_rounds clean reviews in a row, and was never flagged.
THEOREM LandedWorkIsVetted == Spec => []ChosenWorkIsVetted
  <1>1. VettedInv => ChosenWorkIsVetted
    BY DEF VettedInv
  <1> QED BY <1>1, WorkIsFollowed, PTL

\* The same of every pull request that was ever opened.
THEOREM PullRequestIsVetted == Spec => []PrIsVetted
  <1>1. VettedInv => PrIsVetted
    BY DEF VettedInv
  <1> QED BY <1>1, WorkIsFollowed, PTL

-----------------------------------------------------------------------------
(* The landings: the gate of an inbound issue, the resolved merge, one place *)
(* on main and one pull request.                                             *)

\* What the pump knows of the workspace in hand at each step.
LEMMA RoleOfCurrent ==
  ASSUME TypeInv, VettedInv, pc \in Holding
  PROVE  /\ Current \in workspaces /\ Current.uuid = cur
         /\ Current.phase = Role(phase)
         /\ Current.phase = "implementing" => phase \in {"implementing", "qa-gate"}
         /\ Current.phase \in {"landing", "adversary-review"} => phase = Current.phase
  <1>1. Current \in workspaces /\ Current.uuid = cur
    BY CurrentHeld DEF TypeInv, InHand
  <1>2. Current.phase = Role(phase)
    BY <1>1 DEF VettedInv, RoleInHand
  <1>3. phase \in {"implementing", "qa-gate", "adversary-review", "landing"}
    BY DEF VettedInv, RoleInHand
  <1> QED BY <1>1, <1>2, <1>3 DEF Role

\* Main keeps its places, and a step that lands adds one at the end.
LEMMA TrunkGrows ==
  ASSUME TypeInv, NEW x, trunk' = Append(trunk, x)
  PROVE  /\ Len(trunk) \in Nat /\ Len(trunk') = Len(trunk) + 1
         /\ DOMAIN trunk = 1 .. Len(trunk) /\ DOMAIN trunk' = 1 .. Len(trunk) + 1
         /\ \A i \in DOMAIN trunk : trunk'[i] = trunk[i]
         /\ trunk'[Len(trunk) + 1] = x
  <1> DEFINE Places == [commit : Commits, source : Source]
  <1>1. trunk \in Seq(Places)
    BY DEF TypeInv, TypeOK, TrunkOK
  <1> HIDE DEF Places
  <1>2. trunk \in Seq(Places \cup {x})
    BY <1>1
  <1> QED BY <1>2

-----------------------------------------------------------------------------
(* The inbound gate. *)

\* Nothing was landed before the first step.
LEMMA GateInit == Init => GateInv
  BY DEF Init, GateInv, GateWasPassed, PumpInboundGate, Approved, RemoteSubstate, None, Ours

\* Local landing does not leave what was approved.
LEMMA GateLandLocally == TypeInv /\ GateInv /\ LandLocally => GateInv'
  <1> SUFFICES ASSUME TypeInv, GateInv, LandLocally PROVE GateInv'
    OBVIOUS
  <1> USE DEF Landing, set_phase, Return, locals, row, remoteState, labels,
              GateInv, GateWasPassed, PumpInboundGate, Approved, RemoteSubstate, Ours
  <1>1. CASE RebaseStart \/ Merging \/ RebaseDone
    BY <1>1 DEF RebaseStart, Merging, RebaseDone
  <1>2. CASE Rebase
    <2>1. pc' \in {"merging", "rebase_done"}
      BY <1>2 DEF Rebase
    <2> QED BY <1>2, <2>1 DEF Rebase
  <1>3. CASE Move
    <2>1. pc' \in {"moved", "refused", "bookmark_move"}
      BY <1>3 DEF Move
    <2> QED BY <1>3, <2>1 DEF Move
  <1>5. CASE BookmarkMove
    <2>1. source = "pump" => Approved
      BY <1>5 DEF BookmarkMove
    <2>2. \A i \in Ours' : inbound /\ trunk'[i].source = "pump" => approved
      BY <2>1, <1>5, MovedPlaces
    <2> QED BY <1>5, <2>2 DEF BookmarkMove
  <1>4. CASE Refused \/ Moved \/ MergedStep
    BY <1>4 DEF Refused, Moved, MergedStep, Landed, None
  <1> QED BY <1>1, <1>2, <1>3, <1>4, <1>5 DEF LandLocally

\* A pull request is the end of a push that passed the gate.
LEMMA GateLandRemotely == GateInv /\ (LandRemotely \/ ClosePr) => GateInv'
  <1> SUFFICES ASSUME GateInv, LandRemotely \/ ClosePr PROVE GateInv'
    OBVIOUS
  <1> USE DEF LandingRemotely, set_phase, Return, locals, row, remoteState, labels,
              GateInv, GateWasPassed, PumpInboundGate, Approved, RemoteSubstate, Ours
  <1>1. CASE PushStart \/ PointBookmark \/ Push \/ PushDone
    BY <1>1 DEF PushStart, PointBookmark, Push, PushDone
  <1>2. CASE OpenPr
    BY <1>2 DEF OpenPr
  <1>3. CASE PrCreated \/ AdoptPr
    BY <1>3 DEF PrCreated, AdoptPr
  <1>4. CASE PrOpen
    BY <1>4 DEF PrOpen, None
  <1>5. CASE ForgetBranch
    BY <1>5 DEF ForgetBranch
  <1>6. CASE ClosePr
    BY <1>6 DEF ClosePr
  <1> QED BY <1>1, <1>2, <1>3, <1>4, <1>5, <1>6 DEF LandRemotely

\* Recovery resumes a remote landing only from a substate that was written
\* behind the gate, and is not the pump in a local one.
LEMMA GateRecover == GateInv /\ (Recover \/ Crash) => GateInv'
  <1> SUFFICES ASSUME GateInv, Recover \/ Crash PROVE GateInv'
    OBVIOUS
  <1> USE DEF Recovering, set_phase, Return, locals, row, remoteState, labels,
              GateInv, GateWasPassed, PumpInboundGate, Approved, Ours
  <1>1. CASE RecoverOutright \/ RecoverWorker \/ ReclaimWorkspace \/ ReclaimRow
    BY <1>1 DEF RecoverOutright, RecoverWorker, ReclaimWorkspace, ReclaimRow
  <1>2. CASE Rollback \/ Quarantine \/ RecordRefused
    BY <1>2 DEF Rollback, Quarantine, RecordRefused, RemoteSubstate, None
  <1>3. CASE ResumeMoved \/ ResumeLanding
    BY <1>3 DEF ResumeMoved, ResumeLanding, ResumeEntry
  <1>4. CASE ResumeRemoteLanding
    BY <1>4, RemotePlan DEF ResumeRemoteLanding
  <1>5. CASE PlanFails \/ Crash
    BY <1>5 DEF PlanFails, Crash
  <1> QED BY <1>1, <1>2, <1>3, <1>4, <1>5 DEF Recover

\* The pump lands behind the gate of `land`, and its Merger works behind it.
LEMMA GateDrive == TypeInv /\ VettedInv /\ GateInv /\ Drive => GateInv'
  <1> SUFFICES ASSUME TypeInv, VettedInv, GateInv, Drive PROVE GateInv'
    OBVIOUS
  <1> USE DEF Driving, set_phase, Return, locals, row, remoteState, labels,
              GateInv, GateWasPassed, PumpInboundGate, Approved, RemoteSubstate, Ours
  <1>1. CASE Pickup \/ ResetStreak \/ EnterQa \/ Poison \/ OnQaFail \/ ParkForHuman
    BY <1>1 DEF Pickup, ResetStreak, EnterQa, Poison, OnQaFail, ParkForHuman, None
  <1>2. CASE PrepareImplementer \/ PrepareAdversary
    <2>1. phase \in {"implementing", "adversary-review"}
      BY <1>2 DEF PrepareImplementer, PrepareAdversary, VettedInv, PhaseAtStep
    <2> QED BY <1>2, <2>1 DEF PrepareImplementer, PrepareAdversary, prepare
  <1>3. CASE PrepareMerger \/ MergerGate
    BY <1>3 DEF PrepareMerger, MergerGate, prepare
  <1>4. CASE RegisterWorker
    BY <1>4 DEF RegisterWorker
  <1>5. CASE WorkerFails \/ ImplementerDone \/ RunQa \/ AdversaryDone
    BY <1>5 DEF WorkerFails, ImplementerDone, RunQa, AdversaryDone, FailureGoal
  <1>6. CASE MergerDone
    <2>1. phase = "landing"
      BY <1>6, RoleOfCurrent DEF MergerDone, Holding
    <2> QED BY <1>6, <2>1 DEF MergerDone
  <1>7. CASE DropRow \/ DropWorkspace
    BY <1>7 DEF DropRow, DropWorkspace
  <1>8. CASE EnterReview \/ ForgetImplementer \/ OnAdversaryFindings \/ Reimplement
             \/ OnCleanRound \/ Converge
    BY <1>8 DEF EnterReview, ForgetImplementer, OnAdversaryFindings, Reimplement,
                OnCleanRound, Converge, None
  <1>9. CASE Land
    BY <1>9 DEF Land, NeedsApproval
  <1>10. CASE StoreLandingChange \/ ParkForInboundApproval \/ ResumeApprovedInbound
    BY <1>10 DEF StoreLandingChange, ParkForInboundApproval, ResumeApprovedInbound, None
  <1>11. CASE CheckMerge
    BY <1>11 DEF CheckMerge
  <1> QED BY <1>1, <1>2, <1>3, <1>4, <1>5, <1>6, <1>7, <1>8, <1>9, <1>10, <1>11 DEF Drive

\* An approval is not taken back, and nobody else lands as the pump.
LEMMA GateEnvironment ==
  TypeInv /\ GateInv /\ (WorkerDone \/ ExternalAdvance \/ Approve) => GateInv'
  <1> SUFFICES ASSUME TypeInv, GateInv, WorkerDone \/ ExternalAdvance \/ Approve PROVE GateInv'
    OBVIOUS
  <1> USE DEF Driving, locals, row, remoteState, labels,
              GateInv, GateWasPassed, PumpInboundGate, Approved, Ours
  <1>1. CASE WorkerDone
    <2>1. UNCHANGED <<pc, source, phase, phase_substate, goal, inbound, approved, prs, trunk>>
      BY <1>1 DEF WorkerDone
    <2> QED BY <2>1
  <1>2. CASE ExternalAdvance
    <2> DEFINE x == [commit |-> [origin |-> 0, base |-> Len(trunk),
                                 work |-> "own", form |-> "original"],
                     source |-> IF pc = "bookmark_move" THEN "raced" ELSE "external"]
    <2>1. trunk' = Append(trunk, x) /\ x.source \in Foreign
      BY <1>2 DEF ExternalAdvance, Foreign
    <2> HIDE DEF x
    <2>2. \A i \in DOMAIN trunk' : (i \in DOMAIN trunk /\ trunk'[i] = trunk[i]) \/ trunk'[i] = x
      BY <2>1, TrunkGrows
    <2> QED BY <1>2, <2>1, <2>2 DEF ExternalAdvance
  <1>3. CASE Approve
    BY <1>3 DEF Approve
  <1> QED BY <1>1, <1>2, <1>3

\* A step of another component changes nothing of it.
LEMMA GateStutter == GateInv /\ UNCHANGED vars => GateInv'
  BY DEF vars, locals, row, remoteState, labels, GateInv, GateWasPassed, PumpInboundGate,
         Approved, Ours

\* A landing the pump began stays behind the gate to its last step.
THEOREM GateIsPassed == Spec => []GateInv
  <1>1. TypeInv /\ VettedInv /\ GateInv /\ [Next]_vars => GateInv'
    BY GateLandLocally, GateLandRemotely, GateRecover, GateDrive, GateEnvironment, GateStutter
    DEF Next, Orchestrator, Environment
  <1> QED BY <1>1, GateInit, TypeCorrect, WorkIsFollowed, PTL DEF Spec

\* The pump never lands the work of an inbound issue, and nobody opens a pull
\* request for it, before a human approved it (land, resume_remote_landing).
THEOREM InboundGateHolds == Spec => []PumpInboundGate
  <1>1. GateInv => PumpInboundGate
    BY DEF GateInv
  <1> QED BY <1>1, GateIsPassed, PTL

-----------------------------------------------------------------------------
(* The merge. *)

\* A rebase that writes a commit writes a rebased or a conflicted one.
LEMMA RebaseForms ==
  ASSUME TypeInv, NEW t \in RebaseResults
  PROVE  t = change \/ t.form \in {"rebased", "conflicted"}
  <1>1. change \in Commits
    BY DEF TypeInv, TypeOK, LocalsOK
  <1>2. CASE is_ancestor_of(change)
    BY <1>2 DEF RebaseResults
  <1>3. CASE ~ is_ancestor_of(change)
    <2> DEFINE w == IF change.work = "below" THEN "gone" ELSE change.work
    <2> DEFINE onMain(f) == [change EXCEPT !.base = Len(trunk), !.work = w, !.form = f]
    <2>1. t = onMain("rebased") \/ t = onMain("conflicted")
      BY <1>3 DEF RebaseResults
    <2>2. onMain("rebased").form = "rebased" /\ onMain("conflicted").form = "conflicted"
      BY <1>1 DEF Commits
    <2> QED BY <2>1, <2>2
  <1> QED BY <1>2, <1>3

\* A worker that ends stays where its base is, and only a Merger changes the
\* form of a commit.
LEMMA WorkerKeepsPlace ==
  ASSUME TypeInv, WorkerDone
  PROVE  \A v \in workspaces' : \E w \in workspaces :
            /\ v.uuid = w.uuid /\ v.phase = w.phase /\ v.commit.base = w.commit.base
            /\ w.phase = "implementing" => v.commit.form = w.commit.form
  <1>1. PICK w \in workspaces :
          \E c \in CASE w.phase = "implementing" ->
                         {[w.commit EXCEPT !.work = s] : s \in Shapes \cup {"gone"}}
                     [] w.phase = "landing" ->
                         {w.commit, [w.commit EXCEPT !.form = "merged"]}
                     [] OTHER -> {w.commit} :
            workspaces' = (workspaces \ {w}) \cup {[w EXCEPT !.st = "done", !.commit = c]}
    BY DEF WorkerDone
  <1>2. w \in Workspaces /\ w.commit \in Commits
    BY DEF Workspaces, TypeInv, TypeOK, RegistryOK
  <1>3. \A s : /\ [w.commit EXCEPT !.work = s].base = w.commit.base
               /\ [w.commit EXCEPT !.work = s].form = w.commit.form
    BY <1>2 DEF Commits
  <1>4. [w.commit EXCEPT !.form = "merged"].base = w.commit.base
    BY <1>2 DEF Commits
  <1>5. PICK c : /\ c.base = w.commit.base
                 /\ w.phase = "implementing" => c.form = w.commit.form
                 /\ workspaces' = (workspaces \ {w}) \cup {[w EXCEPT !.st = "done", !.commit = c]}
    <2>1. CASE w.phase = "implementing"
      BY <1>1, <1>3, <2>1
    <2>2. CASE w.phase = "landing"
      BY <1>1, <1>4, <2>2
    <2>3. CASE w.phase \notin {"implementing", "landing"}
      BY <1>1, <2>3
    <2> QED BY <2>1, <2>2, <2>3
  <1> DEFINE n == [w EXCEPT !.st = "done", !.commit = c]
  <1>6. n.uuid = w.uuid /\ n.phase = w.phase /\ n.commit = c
    BY <1>2 DEF Workspaces
  <1> HIDE DEF n
  <1>7. workspaces' = (workspaces \ {w}) \cup {n}
    BY <1>5 DEF n
  <1> QED BY <1>5, <1>6, <1>7

\* No commit was reviewed, rewritten or landed before the first step.
LEMMA MergeInit == Init => MergeInv
  BY DEF Init, MergeInv, ReviewedIsOriginal, LandingIsResolved, NoUnresolvedMergeLands,
         Resolved, Holding, Chosen, Ours, NoCommit, None

\* A conflict goes to the Merger, everything else to main.
LEMMA MergeLandLocally == TypeInv /\ MergeInv /\ LandLocally => MergeInv'
  <1> SUFFICES ASSUME TypeInv, MergeInv, LandLocally PROVE MergeInv'
    OBVIOUS
  <1> USE DEF Landing, set_phase, Return, locals, row, history,
              MergeInv, ReviewedIsOriginal, LandingIsResolved, NoUnresolvedMergeLands,
              Resolved, Holding, Chosen, Ours
  <1>1. CASE RebaseStart \/ RebaseDone
    BY <1>1 DEF RebaseStart, RebaseDone
  <1>2. CASE Rebase
    <2>1. PICK t \in RebaseResults :
            change' = t /\ pc' = IF t.form = "conflicted" THEN "merging" ELSE "rebase_done"
      BY <1>2 DEF Rebase
    <2>2. t = change \/ t.form \in {"rebased", "conflicted"}
      BY RebaseForms
    <2>3. UNCHANGED <<landing_change, qa_passed, trunk, source>> /\ pc = "rebase"
      BY <1>2 DEF Rebase
    <2> QED BY <2>1, <2>2, <2>3
  <1>3. CASE Merging
    BY <1>3 DEF Merging
  <1>4. CASE Move
    <2>1. pc' \in {"moved", "refused", "bookmark_move"}
      BY <1>4 DEF Move
    <2> QED BY <1>4, <2>1 DEF Move
  <1>6. CASE BookmarkMove
    <2>1. source # "scan" => Resolved(change)
      BY <1>6 DEF BookmarkMove
    <2>2. pc' = "moved" /\ UNCHANGED <<row, qa_passed, locals>>
      BY <1>6 DEF BookmarkMove
    <2>3. NoUnresolvedMergeLands'
      BY <1>6, <2>1, <2>2, MovedPlaces
    <2> QED BY <2>2, <2>3
  <1>5. CASE Refused \/ Moved \/ MergedStep
    BY <1>5 DEF Refused, Moved, MergedStep, Landed, None
  <1> QED BY <1>1, <1>2, <1>3, <1>4, <1>5, <1>6 DEF LandLocally

\* Remote landing leaves main and what is stored alone.
LEMMA MergeLandRemotely == MergeInv /\ (LandRemotely \/ ClosePr) => MergeInv'
  <1> SUFFICES ASSUME MergeInv, LandRemotely \/ ClosePr PROVE MergeInv'
    OBVIOUS
  <1> USE DEF LandingRemotely, set_phase, Return, locals, row, history,
              MergeInv, ReviewedIsOriginal, LandingIsResolved, NoUnresolvedMergeLands,
              Resolved, Holding, Chosen, Ours
  <1>1. CASE PushStart \/ PointBookmark \/ Push \/ PushDone
    BY <1>1 DEF PushStart, PointBookmark, Push, PushDone
  <1>2. CASE OpenPr \/ PrCreated \/ AdoptPr \/ PrOpen
    BY <1>2 DEF OpenPr, PrCreated, AdoptPr, PrOpen
  <1>3. CASE ForgetBranch
    BY <1>3 DEF ForgetBranch
  <1>4. CASE ClosePr
    BY <1>4 DEF ClosePr
  <1> QED BY <1>1, <1>2, <1>3, <1>4 DEF LandRemotely

\* Recovery goes on with the stored change, or with what a scan found.
LEMMA MergeRecover == MergeInv /\ (Recover \/ Crash) => MergeInv'
  <1> SUFFICES ASSUME MergeInv, Recover \/ Crash PROVE MergeInv'
    OBVIOUS
  <1> USE DEF Recovering, set_phase, Return, locals, row, history,
              MergeInv, ReviewedIsOriginal, LandingIsResolved, NoUnresolvedMergeLands,
              Resolved, Holding, Chosen, Ours
  <1>1. CASE RecoverOutright \/ RecoverWorker \/ ReclaimWorkspace \/ ReclaimRow
    BY <1>1 DEF RecoverOutright, RecoverWorker, ReclaimWorkspace, ReclaimRow
  <1>2. CASE Rollback \/ Quarantine \/ RecordRefused
    BY <1>2 DEF Rollback, Quarantine, RecordRefused, None
  <1>3. CASE ResumeMoved \/ ResumeLanding
    BY <1>3 DEF ResumeMoved, ResumeLanding, ResumeEntry
  <1>4. CASE ResumeRemoteLanding
    BY <1>4 DEF ResumeRemoteLanding
  <1>5. CASE PlanFails \/ Crash
    BY <1>5 DEF PlanFails, Crash
  <1> QED BY <1>1, <1>2, <1>3, <1>4, <1>5 DEF Recover

\* What was implemented is reviewed as it is, and what a Merger made of it is
\* tested before the landing is retried.
LEMMA MergeDrive == TypeInv /\ VettedInv /\ MergeInv /\ Drive => MergeInv'
  <1> SUFFICES ASSUME TypeInv, VettedInv, MergeInv, Drive PROVE MergeInv'
    OBVIOUS
  <1> USE DEF Driving, set_phase, Return, locals, row, history,
              MergeInv, ReviewedIsOriginal, LandingIsResolved, NoUnresolvedMergeLands,
              Resolved, Holding, Chosen, Ours
  <1>1. CASE Pickup \/ ResetStreak \/ Poison \/ OnQaFail \/ ParkForHuman
    BY <1>1 DEF Pickup, ResetStreak, Poison, OnQaFail, ParkForHuman
  <1>2. CASE PrepareImplementer
    <2> DEFINE c == [origin |-> minted + 1, base |-> Len(trunk),
                     work |-> "gone", form |-> "original"]
    <2>1. c.form = "original"
      OBVIOUS
    <2>2. prepare("implementing", c)
      BY <1>2 DEF PrepareImplementer
    <2> HIDE DEF c
    <2>3. /\ cur' = minted + 1
          /\ \A w \in workspaces' : w \in workspaces \/ w.commit.form = "original"
      BY <2>1, <2>2, VettedPrepare
    <2>4. \A w \in workspaces : w.uuid <= minted /\ w.uuid \in Nat
      BY DEF TypeInv, TypeOK, RegistryOK, Workspaces
    <2>5. minted \in Nat /\ phase = "implementing"
      BY <1>2 DEF PrepareImplementer, TypeInv, TypeOK, RegistryOK, VettedInv, PhaseAtStep
    <2>6. ReviewedIsOriginal'
      BY <1>2, <2>3, <2>4, <2>5 DEF PrepareImplementer
    <2> QED BY <1>2, <2>6 DEF PrepareImplementer
  <1>3. CASE PrepareAdversary
    <2>1. phase = "adversary-review"
      BY <1>3 DEF PrepareAdversary, VettedInv, PhaseAtStep
    <2> QED BY <1>3, <2>1 DEF PrepareAdversary, prepare
  <1>4. CASE PrepareMerger \/ MergerGate
    <2>1. phase = "landing"
      BY <1>4 DEF PrepareMerger, MergerGate, VettedInv, PhaseAtStep
    <2> QED BY <1>4, <2>1 DEF PrepareMerger, MergerGate, prepare
  <1>5. CASE RegisterWorker
    <2> DEFINE run(w) == IF w.uuid = cur THEN [w EXCEPT !.st = "running"] ELSE w
    <2>1. \A w \in workspaces : run(w).commit = w.commit /\ run(w).uuid = w.uuid
      BY DEF Workspaces, TypeInv, TypeOK, RegistryOK
    <2>2. workspaces' = {run(w) : w \in workspaces}
      BY <1>5 DEF RegisterWorker
    <2> HIDE DEF run
    <2>3. \A v \in workspaces' : \E w \in workspaces : v.commit = w.commit /\ v.uuid = w.uuid
      BY <2>1, <2>2
    <2>4. pc = "register" /\ pc' = "wait" /\ UNCHANGED <<phase, cur, change, goal>>
      BY <1>5 DEF RegisterWorker
    <2>5. ReviewedIsOriginal'
      BY <2>3, <2>4
    <2> QED BY <1>5, <2>5 DEF RegisterWorker
  <1>6. CASE WorkerFails \/ ImplementerDone \/ EnterQa
    <2>1. pc = "enter_qa" => phase = "implementing"
      BY DEF VettedInv, PhaseAtStep
    <2> QED BY <1>6, <2>1 DEF WorkerFails, ImplementerDone, EnterQa, FailureGoal
  <1>7. CASE RunQa
    <2>1. pc = "qa" /\ pc' = "drop_row" /\ goal' \in {"qa_pass", "qa_fail", "fail"}
          /\ qa_passed \subseteq qa_passed'
          /\ UNCHANGED <<phase, landing_change, workspaces, cur, change, source, trunk>>
      BY <1>7 DEF RunQa
    <2> QED BY <2>1
  <1>8. CASE DropRow \/ DropWorkspace
    BY <1>8 DEF DropRow, DropWorkspace
  <1>9. CASE EnterReview
    <2>1. Current.commit.form = "original"
      <3>1. Current \in workspaces /\ Current.uuid = cur /\ phase = "qa-gate"
        BY <1>9, RoleOfCurrent DEF EnterReview, VettedInv, PhaseAtStep
      <3> QED BY <1>9, <3>1 DEF EnterReview
    <2> QED BY <1>9, <2>1 DEF EnterReview
  <1>10. CASE ForgetImplementer
    <2>1. phase = "adversary-review"
      BY <1>10 DEF ForgetImplementer, VettedInv, PhaseAtStep
    <2> QED BY <1>10, <2>1 DEF ForgetImplementer
  <1>11. CASE AdversaryDone
    <2>1. phase = "adversary-review"
      BY <1>11, RoleOfCurrent DEF AdversaryDone
    <2> QED BY <1>11, <2>1 DEF AdversaryDone
  <1>12. CASE MergerDone
    <2>1. phase = "landing"
      BY <1>12, RoleOfCurrent DEF MergerDone
    <2> QED BY <1>12, <2>1 DEF MergerDone
  <1>13. CASE OnAdversaryFindings \/ Reimplement
    BY <1>13 DEF OnAdversaryFindings, Reimplement
  <1>14. CASE OnCleanRound
    BY <1>14 DEF OnCleanRound
  <1>15. CASE Converge \/ Land
    BY <1>15 DEF Converge, Land
  <1>16. CASE StoreLandingChange
    <2>1. source # "scan"
      BY <1>16 DEF StoreLandingChange, VettedInv, ScanIsContained
    <2> QED BY <1>16, <2>1 DEF StoreLandingChange
  <1>17. CASE ParkForInboundApproval \/ ResumeApprovedInbound
    BY <1>17 DEF ParkForInboundApproval, ResumeApprovedInbound
  <1>18. CASE CheckMerge
    <2>1. /\ change' = Current.commit /\ qa_passed \subseteq qa_passed'
          /\ \/ /\ pc' = "retry_land" /\ Current.commit.form = "merged"
                /\ <<Current.commit.origin, "merged">> \in qa_passed'
             \/ pc' = "drop_ws" /\ goal' = "park"
          /\ UNCHANGED <<landing_change, trunk, source>>
      BY <1>18 DEF CheckMerge
    <2> QED BY <2>1
  <1> QED BY <1>1, <1>2, <1>3, <1>4, <1>5, <1>6, <1>7, <1>8, <1>9, <1>10, <1>11, <1>12,
             <1>13, <1>14, <1>15, <1>16, <1>17, <1>18 DEF Drive

\* The work in hand keeps its form while its Implementer goes on.
LEMMA MergeEnvironment ==
  TypeInv /\ VettedInv /\ MergeInv /\ (WorkerDone \/ ExternalAdvance \/ Approve) => MergeInv'
  <1> SUFFICES ASSUME TypeInv, VettedInv, MergeInv, WorkerDone \/ ExternalAdvance \/ Approve
               PROVE  MergeInv'
    OBVIOUS
  <1> USE DEF locals, row, history, MergeInv, ReviewedIsOriginal, LandingIsResolved,
              NoUnresolvedMergeLands, Resolved, Holding, Chosen, Ours
  <1>1. CASE WorkerDone
    <2>1. UNCHANGED <<pc, phase, goal, cur, change, source, landing_change, qa_passed, trunk>>
      BY <1>1 DEF WorkerDone, Driving
    <2>2. \A v \in workspaces' : \E w \in workspaces :
            /\ v.uuid = w.uuid /\ v.phase = w.phase
            /\ w.phase = "implementing" => v.commit.form = w.commit.form
      BY <1>1, WorkerKeepsPlace
    <2>3. pc \in Holding /\ phase \in {"implementing", "qa-gate"} =>
            \A w \in workspaces : w.uuid = cur => w.phase = "implementing"
      BY DEF VettedInv, RoleInHand, Role
    <2> QED BY <2>1, <2>2, <2>3
  <1>2. CASE ExternalAdvance
    <2> DEFINE x == [commit |-> [origin |-> 0, base |-> Len(trunk),
                                 work |-> "own", form |-> "original"],
                     source |-> IF pc = "bookmark_move" THEN "raced" ELSE "external"]
    <2>1. trunk' = Append(trunk, x) /\ x.source \in Foreign
      BY <1>2 DEF ExternalAdvance, Foreign
    <2> HIDE DEF x
    <2>2. \A i \in DOMAIN trunk' : (i \in DOMAIN trunk /\ trunk'[i] = trunk[i]) \/ trunk'[i] = x
      BY <2>1, TrunkGrows
    <2>3. NoUnresolvedMergeLands'
      BY <1>2, <2>1, <2>2 DEF ExternalAdvance
    <2> QED BY <1>2, <2>3 DEF ExternalAdvance
  <1>3. CASE Approve
    BY <1>3 DEF Approve
  <1> QED BY <1>1, <1>2, <1>3

\* A step of another component changes nothing of it.
LEMMA MergeStutter == MergeInv /\ UNCHANGED vars => MergeInv'
  BY DEF vars, locals, row, history, MergeInv, ReviewedIsOriginal, LandingIsResolved,
         NoUnresolvedMergeLands, Resolved, Holding, Chosen, Ours

\* What is landed or stored for landing is the reviewed work, rebased or merged.
THEOREM MergesAreFollowed == Spec => []MergeInv
  <1>1. TypeInv /\ VettedInv /\ MergeInv /\ [Next]_vars => MergeInv'
    BY MergeLandLocally, MergeLandRemotely, MergeRecover, MergeDrive, MergeEnvironment,
       MergeStutter
    DEF Next, Orchestrator, Environment
  <1> QED BY <1>1, MergeInit, TypeCorrect, WorkIsFollowed, PTL DEF Spec

\* No conflicted tree is landed, and a Merger's only after it passed QA
\* (resolve_conflict_with_merger).
THEOREM MergesAreResolved == Spec => []NoUnresolvedMergeLands
  <1>1. MergeInv => NoUnresolvedMergeLands
    BY DEF MergeInv
  <1> QED BY <1>1, MergesAreFollowed, PTL

-----------------------------------------------------------------------------
(* One place on main. *)

\* The bases compared with main are numbers.
LEMMA BasesAreNumbers ==
  ASSUME TypeInv
  PROVE  /\ change.base \in Nat /\ landing_change.base \in Nat /\ branch.base \in Nat
         /\ \A w \in workspaces : w.commit.base \in Nat
         /\ Len(trunk) \in Nat /\ NoCommit.base = 0
  <1>1. change \in Commits /\ landing_change \in Commits /\ branch \in Commits
    BY DEF TypeInv, TypeOK, LocalsOK, RowOK, RemoteOK
  <1>2. \A w \in workspaces : w.commit \in Commits
    BY DEF TypeInv, TypeOK, RegistryOK, Workspaces
  <1>3. Len(trunk) \in Nat
    BY DEF TypeInv, TypeOK, TrunkOK
  <1> QED BY <1>1, <1>2, <1>3, CommitFields DEF NoCommit

\* What plan_recovery says of an issue whose work may be on main.
LEMMA PlanOfLanding ==
  /\ phase = "landing" /\ phase_substate \in LocalSubstate => Plan = "ResumeLanding"
  /\ phase \in {"merged", "awaiting-human-merge", "orchestrator-error"}
        => Plan \in {"NoAction", "CompleteAnswerClose"}
  /\ Plan = "ResumeLanding" => phase = "landing"
  /\ Plan = "StartLanding" => phase = "converged" /\ phase_substate = None
  /\ Plan = "ResumeRemoteLanding" => phase = "landing" /\ phase_substate \in RemoteSubstate
  BY DEF Plan, plan_recovery, LocalSubstate, RemoteSubstate, AnswerSubstate, None, is_terminal

\* Main holds its base alone, and no pull request is open.
LEMMA OnceInit == Init => OnceInv
  <1> SUFFICES ASSUME Init PROVE OnceInv
    OBVIOUS
  <1>1. Len(trunk) = 0 /\ Ours = {}
    BY DEF Init, Ours
  <1> QED BY <1>1 DEF Init, OnceInv, BasesOnMain, MoveIsRecorded, LandingIsOver, AtMostOnce,
                      NoCommit

\* A step that leaves main alone leaves the issue's places on it alone.
LEMMA SamePlaces ==
  ASSUME trunk' = trunk
  PROVE  Ours' = Ours /\ Len(trunk') = Len(trunk)
  BY DEF Ours

\* The guard lets only a change pass that stands on the tip of main, and there
\* is none any more once the work has its place; the move then has only the
\* places before its own to keep.
LEMMA OnceLandLocally == TypeInv /\ PlaceInv /\ LandLocally => OnceInv'
  <1> SUFFICES ASSUME TypeInv, OnceInv, PastTheGuard, LandLocally PROVE OnceInv'
    BY DEF PlaceInv
  <1> USE DEF Landing, set_phase, Return, locals, row, remoteState,
              OnceInv, BasesOnMain, MoveIsRecorded, LandingIsOver, AtMostOnce
  <1>1. CASE RebaseStart \/ RebaseDone
    <2>1. Ours = {} /\ Ours' = {} /\ Len(trunk') = Len(trunk)
      BY <1>1, SamePlaces DEF RebaseStart, RebaseDone
    <2> QED BY <1>1, <2>1 DEF RebaseStart, RebaseDone
  <1>2. CASE Rebase
    <2>1. PICK t \in RebaseResults :
            /\ change' = t
            /\ workspaces' = {IF w.commit = change THEN [w EXCEPT !.commit = t]
                                                   ELSE w : w \in workspaces}
            /\ pc' \in {"merging", "rebase_done"}
      BY <1>2 DEF Rebase
    <2>2. t.base \in 0 .. Len(trunk)
      <3>1. CASE is_ancestor_of(change)
        BY <3>1, BasesAreNumbers DEF RebaseResults
      <3>2. CASE ~ is_ancestor_of(change)
        <4>1. change \in Commits
          BY DEF TypeInv, TypeOK, LocalsOK
        <4>2. t.base = Len(trunk)
          BY <3>2, <4>1 DEF RebaseResults, Commits
        <4> QED BY <4>2, BasesAreNumbers
      <3> QED BY <3>1, <3>2
    <2> DEFINE moved(w) == IF w.commit = change THEN [w EXCEPT !.commit = t] ELSE w
    <2>3. \A w \in workspaces : moved(w).commit = t \/ moved(w).commit = w.commit
      BY DEF Workspaces, TypeInv, TypeOK, RegistryOK
    <2>4. workspaces' = {moved(w) : w \in workspaces}
      BY <2>1
    <2> HIDE DEF moved
    <2>5. \A v \in workspaces' : v.commit.base <= Len(trunk)
      BY <2>2, <2>3, <2>4
    <2>6. Ours = {} /\ Ours' = {} /\ Len(trunk') = Len(trunk)
      BY <1>2, SamePlaces DEF Rebase
    <2>7. UNCHANGED <<landing_change, branch>>
      BY <1>2 DEF Rebase
    <2> QED BY <2>1, <2>2, <2>5, <2>6, <2>7
  <1>3. CASE Merging
    <2>1. Ours = {} /\ Ours' = {} /\ Len(trunk') = Len(trunk)
      BY <1>3, SamePlaces DEF Merging
    <2> QED BY <1>3, <2>1, BasesAreNumbers DEF Merging
  <1>4. CASE Move
    <2>1. pc' \in {"moved", "refused", "bookmark_move"}
          /\ UNCHANGED <<phase, phase_substate, landing_change, workspaces, change, branch>>
      BY <1>4 DEF Move
    <2>2. pc' = "bookmark_move" => Ours = {}
      BY <1>4, BasesAreNumbers DEF Move, CanFastForward, is_ancestor_of
    <2>3. trunk' = trunk
      BY <1>4 DEF Move
    <2> QED BY <1>4, <2>1, <2>2, <2>3, SamePlaces DEF Move
  <1>6. CASE BookmarkMove
    <2>1. pc' = "moved"
          /\ UNCHANGED <<phase, phase_substate, landing_change, workspaces, change, branch>>
      BY <1>6 DEF BookmarkMove
    <2>2. /\ Ours = {} /\ landing_change.base <= change.base /\ branch.base <= change.base
          /\ \A w \in workspaces : w.commit.base <= change.base
      BY <1>6 DEF BookmarkMove, PastTheGuard
    <2>3. Ours' \subseteq {change.base + 1} /\ Len(trunk') = change.base + 1
      BY <1>6, <2>2, MovedMain DEF Ours
    <2>4. phase = "landing" /\ phase_substate = "rebase_done_bookmark_pending"
      BY <1>6 DEF BookmarkMove
    <2> QED BY <2>1, <2>2, <2>3, <2>4, BasesAreNumbers
  <1>5. CASE Refused \/ Moved \/ MergedStep
    <2>1. Ours' = Ours /\ Len(trunk') = Len(trunk)
      BY <1>5, SamePlaces DEF Refused, Moved, MergedStep
    <2> QED BY <1>5, <2>1, BasesAreNumbers DEF Refused, Moved, MergedStep, Landed
  <1> QED BY <1>1, <1>2, <1>3, <1>4, <1>5, <1>6 DEF LandLocally

\* Remote landing is for work that is not on main, and keeps it off.
LEMMA OnceLandRemotely == TypeInv /\ OnceInv /\ (LandRemotely \/ ClosePr) => OnceInv'
  <1> SUFFICES ASSUME TypeInv, OnceInv, LandRemotely \/ ClosePr PROVE OnceInv'
    OBVIOUS
  <1> USE DEF LandingRemotely, set_phase, Return, locals, row, remoteState,
              OnceInv, BasesOnMain, MoveIsRecorded, LandingIsOver, AtMostOnce
  <1>1. Ours' = Ours /\ Len(trunk') = Len(trunk)
    BY SamePlaces DEF LandRemotely, PushStart, PointBookmark, Push, PushDone, OpenPr, PrCreated,
                      AdoptPr, PrOpen, ForgetBranch, ClosePr
  <1>2. CASE PushStart \/ PointBookmark \/ Push \/ PushDone
    BY <1>1, <1>2 DEF PushStart, PointBookmark, Push, PushDone
  <1>3. CASE OpenPr \/ PrCreated \/ AdoptPr \/ PrOpen
    BY <1>1, <1>3 DEF OpenPr, PrCreated, AdoptPr, PrOpen
  <1>4. CASE ForgetBranch
    BY <1>1, <1>4, BasesAreNumbers DEF ForgetBranch
  <1>5. CASE ClosePr
    BY <1>1, <1>5 DEF ClosePr
  <1> QED BY <1>2, <1>3, <1>4, <1>5 DEF LandRemotely

\* Recovery re-enters a landing that moved main behind the rebase, or ends it.
LEMMA OnceRecover == TypeInv /\ OnceInv /\ (Recover \/ Crash) => OnceInv'
  <1> SUFFICES ASSUME TypeInv, OnceInv, Recover \/ Crash PROVE OnceInv'
    OBVIOUS
  <1> USE DEF Recovering, set_phase, Return, locals, row, remoteState,
              OnceInv, BasesOnMain, MoveIsRecorded, LandingIsOver, AtMostOnce
  <1>1. Ours' = Ours /\ Len(trunk') = Len(trunk) /\ branch' = branch
    BY SamePlaces DEF Recover, RecoverOutright, RecoverWorker, ReclaimWorkspace, ReclaimRow,
                      Rollback, ResumeMoved, ResumeLanding, ResumeRemoteLanding, PlanFails,
                      RecordRefused, Quarantine, Crash
  <1>2. CASE RecoverOutright
    BY <1>1, <1>2, BasesAreNumbers DEF RecoverOutright
  <1>3. CASE RecoverWorker
    <2>1. Ours = {}
      BY <1>3, PlanOfLanding DEF RecoverWorker, LocalSubstate
    <2> QED BY <1>1, <1>3, <2>1 DEF RecoverWorker
  <1>4. CASE ReclaimWorkspace \/ ReclaimRow \/ Rollback
    <2>1. Ours = {}
      BY <1>4 DEF ReclaimWorkspace, ReclaimRow, Rollback
    <2> QED BY <1>1, <1>4, <2>1, BasesAreNumbers
            DEF ReclaimWorkspace, ReclaimRow, Rollback, forget_best_effort, forget
  <1>5. CASE ResumeMoved
    BY <1>1, <1>5 DEF ResumeMoved
  <1>6. CASE ResumeLanding
    <2>1. phase = "converged" \/ phase = "landing"
      BY <1>6, PlanOfLanding DEF ResumeLanding
    <2>2. CASE change' = landing_change /\ pc' = ResumeEntry(phase_substate)
               /\ Plan = "ResumeLanding"
      BY <1>1, <1>6, <2>2, PlanOfLanding DEF ResumeLanding, ResumeEntry
    <2>3. CASE change' \in landing_change_revset /\ pc' = ResumeEntry(phase_substate)
      <3>1. PICK w \in workspaces : change' = w.commit
        BY <2>3 DEF landing_change_revset
      <3>2. pc' = "move" => phase = "landing" /\ phase_substate = "rebase_done_bookmark_pending"
        BY <1>6, <2>3, PlanOfLanding DEF ResumeLanding, ResumeEntry, None
      <3>3. Ours # {} => pc' = "move"
        BY <1>6, <2>3, PlanOfLanding DEF ResumeLanding, ResumeEntry
      <3>4. UNCHANGED <<row, workspaces>> /\ pc' \in {"move", "rebase_start"}
        BY <1>6, <2>3 DEF ResumeLanding, ResumeEntry
      <3>5. w.commit.base \in 0 .. Len(trunk) /\ (Ours # {} => w.commit.base < Len(trunk))
        BY <3>1, BasesAreNumbers
      <3>6. BasesOnMain' /\ MoveIsRecorded' /\ AtMostOnce'
        BY <1>1, <3>1, <3>2, <3>4, <3>5
      <3>7. LandingIsOver'
        BY <1>1, <3>1, <3>3, <3>4, <3>5
      <3> QED BY <3>6, <3>7
    <2>4. CASE pc' = "quarantine" /\ change' = change
      BY <1>1, <1>6, <2>4 DEF ResumeLanding
    <2> QED BY <1>6, <2>2, <2>3, <2>4 DEF ResumeLanding
  <1>7. CASE ResumeRemoteLanding
    <2>1. Ours = {}
      BY <1>7, PlanOfLanding DEF ResumeRemoteLanding, RemoteSubstate
    <2> QED BY <1>1, <1>7, <2>1 DEF ResumeRemoteLanding, branch_revset
  <1>8. CASE PlanFails
    BY <1>1, <1>8 DEF PlanFails
  <1>9. CASE Quarantine
    BY <1>1, <1>9, BasesAreNumbers DEF Quarantine
  <1>10. CASE Crash
    BY <1>1, <1>10, BasesAreNumbers DEF Crash
  <1>11. CASE RecordRefused
    BY <1>1, <1>11 DEF RecordRefused
  <1> QED BY <1>2, <1>3, <1>4, <1>5, <1>6, <1>7, <1>8, <1>9, <1>10, <1>11
          DEF Recover

\* A tick does not pick up an issue whose work is on main, and whatever the
\* pump makes or takes in hand stands on main.
LEMMA OnceDrive == TypeInv /\ OnceInv /\ Drive => OnceInv'
  <1> SUFFICES ASSUME TypeInv, OnceInv, Drive PROVE OnceInv'
    OBVIOUS
  <1> USE DEF Driving, set_phase, Return, locals, row, remoteState,
              OnceInv, BasesOnMain, MoveIsRecorded, LandingIsOver, AtMostOnce
  <1>1. CASE Pickup \/ ResetStreak \/ EnterQa
    BY <1>1, SamePlaces DEF Pickup, ResetStreak, EnterQa, is_drivable
  <1>2. CASE Poison \/ OnQaFail \/ ParkForHuman \/ ParkForInboundApproval
    BY <1>2, SamePlaces, BasesAreNumbers
    DEF Poison, OnQaFail, ParkForHuman, ParkForInboundApproval
  <1>3. CASE PrepareImplementer \/ PrepareAdversary \/ PrepareMerger
    <2>1. Ours = {} /\ Ours' = {} /\ Len(trunk') = Len(trunk) /\ pc' = "register"
          /\ UNCHANGED <<change, landing_change, branch>>
      BY <1>3, SamePlaces DEF PrepareImplementer, PrepareAdversary, PrepareMerger
    <2>2. PICK p, c : prepare(p, c) /\ c.base \in 0 .. Len(trunk)
      <3>1. CASE PrepareImplementer
        <4>1. [origin |-> minted + 1, base |-> Len(trunk),
               work |-> "gone", form |-> "original"].base \in 0 .. Len(trunk)
          BY BasesAreNumbers
        <4> QED BY <3>1, <4>1 DEF PrepareImplementer
      <3>2. CASE PrepareAdversary
        <4>1. [NoCommit EXCEPT !.base = Len(trunk)].base \in 0 .. Len(trunk)
          BY BasesAreNumbers DEF NoCommit
        <4> QED BY <3>2, <4>1 DEF PrepareAdversary
      <3>3. CASE PrepareMerger
        BY <3>3 DEF PrepareMerger
      <3> QED BY <1>3, <3>1, <3>2, <3>3
    <2>3. \A w \in workspaces' : w \in workspaces \/ w.commit = c
      BY <2>2, VettedPrepare
    <2> QED BY <2>1, <2>2, <2>3
  <1>4. CASE RegisterWorker
    <2> DEFINE run(w) == IF w.uuid = cur THEN [w EXCEPT !.st = "running"] ELSE w
    <2>1. \A w \in workspaces : run(w).commit = w.commit
      BY DEF Workspaces, TypeInv, TypeOK, RegistryOK
    <2>2. workspaces' = {run(w) : w \in workspaces}
      BY <1>4 DEF RegisterWorker
    <2> HIDE DEF run
    <2>3. \A v \in workspaces' : v.commit.base <= Len(trunk)
      BY <2>1, <2>2
    <2>4. Ours = {} /\ Ours' = {} /\ Len(trunk') = Len(trunk) /\ pc' = "wait"
          /\ UNCHANGED <<change, landing_change, branch>>
      BY <1>4, SamePlaces DEF RegisterWorker
    <2> QED BY <2>3, <2>4
  <1>5. CASE WorkerFails \/ ImplementerDone \/ RunQa \/ AdversaryDone \/ MergerDone
    <2>1. Ours = {} /\ Ours' = {} /\ Len(trunk') = Len(trunk) /\ pc' \in {"drop_row", "enter_qa"}
          /\ UNCHANGED <<change, landing_change, branch, workspaces>>
      BY <1>5, SamePlaces DEF WorkerFails, ImplementerDone, RunQa, AdversaryDone, MergerDone
    <2> QED BY <2>1
  <1>6. CASE DropRow
    BY <1>6, SamePlaces DEF DropRow
  <1>7. CASE DropWorkspace
    <2>1. workspaces' \subseteq workspaces /\ Ours' = Ours /\ Len(trunk') = Len(trunk)
          /\ UNCHANGED <<phase, phase_substate, landing_change, branch>>
      BY <1>7, SamePlaces DEF DropWorkspace, forget, forget_best_effort
    <2>2. \/ goal = "landed" /\ pc' = "idle" /\ change' = NoCommit
          \/ goal # "landed" /\ change' = change
               /\ pc' \in {"poison", "qa_failed", "findings", "clean", "park_human"}
      BY <1>7 DEF DropWorkspace
    <2>3. goal # "landed" => Ours = {}
      BY <1>7 DEF DropWorkspace
    <2> QED BY <2>1, <2>2, <2>3, BasesAreNumbers
  <1>8. CASE EnterReview \/ CheckMerge
    <2>1. Current \in workspaces
      BY <1>8, CurrentHeld DEF EnterReview, CheckMerge, TypeInv, InHand, Holding
    <2>2. /\ Ours = {} /\ Ours' = {} /\ Len(trunk') = Len(trunk)
          /\ change' = Current.commit /\ pc' \in {"forget_impl", "retry_land", "drop_ws"}
          /\ UNCHANGED <<landing_change, branch, workspaces>>
      BY <1>8, SamePlaces DEF EnterReview, CheckMerge
    <2> QED BY <2>1, <2>2, BasesAreNumbers
  <1>9. CASE ForgetImplementer
    BY <1>9, SamePlaces DEF ForgetImplementer, forget, forget_best_effort
  <1>10. CASE OnAdversaryFindings \/ Reimplement \/ OnCleanRound \/ Converge
    BY <1>10, SamePlaces, BasesAreNumbers
    DEF OnAdversaryFindings, Reimplement, OnCleanRound, Converge
  <1>11. CASE Land \/ MergerGate
    BY <1>11, SamePlaces DEF Land, MergerGate
  <1>12. CASE StoreLandingChange \/ ResumeApprovedInbound
    BY <1>12, SamePlaces DEF StoreLandingChange, ResumeApprovedInbound
  <1> QED BY <1>1, <1>2, <1>3, <1>4, <1>5, <1>6, <1>7, <1>8, <1>9, <1>10, <1>11, <1>12
          DEF Drive

\* Others move main upwards only, and workers stay on their base.
LEMMA OnceEnvironment ==
  TypeInv /\ OnceInv /\ (WorkerDone \/ ExternalAdvance \/ Approve) => OnceInv'
  <1> SUFFICES ASSUME TypeInv, OnceInv, WorkerDone \/ ExternalAdvance \/ Approve PROVE OnceInv'
    OBVIOUS
  <1> USE DEF Driving, locals, row, remoteState,
              OnceInv, BasesOnMain, MoveIsRecorded, LandingIsOver, AtMostOnce
  <1>1. CASE WorkerDone
    <2>1. \A v \in workspaces' : \E w \in workspaces : v.commit.base = w.commit.base
      BY <1>1, WorkerKeepsPlace
    <2>2. /\ Ours' = Ours /\ Len(trunk') = Len(trunk)
          /\ UNCHANGED <<phase, phase_substate, pc, goal, change, landing_change, branch>>
      BY <1>1, SamePlaces DEF WorkerDone
    <2> QED BY <2>1, <2>2
  <1>2. CASE ExternalAdvance
    <2> DEFINE x == [commit |-> [origin |-> 0, base |-> Len(trunk),
                                 work |-> "own", form |-> "original"],
                     source |-> IF pc = "bookmark_move" THEN "raced" ELSE "external"]
    <2>1. trunk' = Append(trunk, x) /\ x.source \in Foreign
      BY <1>2 DEF ExternalAdvance, Foreign
    <2> HIDE DEF x
    <2>2. Ours' = Ours /\ Len(trunk') = Len(trunk) + 1
      BY <2>1, TrunkGrows DEF Ours
    <2>3. UNCHANGED <<phase, phase_substate, pc, goal, change, landing_change, branch, workspaces>>
      BY <1>2 DEF ExternalAdvance
    <2> QED BY <2>2, <2>3, BasesAreNumbers
  <1>3. CASE Approve
    BY <1>3, SamePlaces DEF Approve
  <1> QED BY <1>1, <1>2, <1>3

\* A step of another component changes nothing of it.
LEMMA OnceStutter == OnceInv /\ UNCHANGED vars => OnceInv'
  BY SamePlaces DEF vars, locals, row, remoteState, OnceInv, BasesOnMain, MoveIsRecorded,
                    LandingIsOver, AtMostOnce

\* When the guard has looked, nothing of the issue is on main, whatever may
\* still be landed stands below the guard's place, and main only grows by what
\* the guard did not see.
LEMMA GuardIsKept == TypeInv /\ PlaceInv /\ [Next]_vars => PastTheGuard'
  <1> SUFFICES ASSUME TypeInv, OnceInv, PastTheGuard, [Next]_vars, pc' = "bookmark_move"
               PROVE  /\ Ours' = {}
                      /\ \A i \in change'.base + 1 .. Len(trunk') : trunk'[i].source = "raced"
                      /\ landing_change'.base <= change'.base /\ branch'.base <= change'.base
                      /\ \A w \in workspaces' : w.commit.base <= change'.base
    BY DEF PlaceInv, PastTheGuard
  <1>5. SameChange /\ (Move \/ (pc = "bookmark_move" /\ Meanwhile))
    BY GuardIsFirst
  <1>0. change' = change /\ landing_change' = landing_change /\ branch' = branch
    BY <1>5 DEF SameChange
  <1>1. CASE Move
    <2>1. ~ main_is(change) /\ change.base = Len(trunk) /\ UNCHANGED <<trunk, workspaces>>
      BY <1>1 DEF Move, CanFastForward, is_ancestor_of
    <2>2. Ours = {}
      BY <1>1, <2>1, BasesAreNumbers DEF Move, OnceInv, LandingIsOver
    <2> QED BY <1>0, <2>1, <2>2, SamePlaces, BasesAreNumbers DEF OnceInv, BasesOnMain
  <1>2. CASE pc = "bookmark_move" /\ WorkerDone
    <2>1. \A v \in workspaces' : \E w \in workspaces : v.commit.base = w.commit.base
      BY <1>2, WorkerKeepsPlace
    <2>2. trunk' = trunk
      BY <1>2 DEF WorkerDone, Driving
    <2> QED BY <1>0, <1>2, <2>1, <2>2, SamePlaces DEF PastTheGuard
  <1>3. CASE pc = "bookmark_move" /\ UNCHANGED workspaces /\ UNCHANGED trunk
    BY <1>0, <1>3, SamePlaces DEF PastTheGuard
  <1>4. CASE pc = "bookmark_move" /\ UNCHANGED workspaces /\ ExternalAdvance
    <2> DEFINE x == [commit |-> [origin |-> 0, base |-> Len(trunk),
                                 work |-> "own", form |-> "original"],
                     source |-> IF pc = "bookmark_move" THEN "raced" ELSE "external"]
    <2>1. trunk' = Append(trunk, x) /\ x.source = "raced"
      BY <1>4 DEF ExternalAdvance
    <2> HIDE DEF x
    <2>2. Ours' = {}
      BY <1>4, <2>1, TrunkGrows DEF Ours, Foreign, PastTheGuard
    <2>3. \A i \in change.base + 1 .. Len(trunk') : trunk'[i].source = "raced"
      BY <1>4, <2>1, TrunkGrows, BasesAreNumbers DEF PastTheGuard
    <2> QED BY <1>0, <1>4, <2>2, <2>3 DEF PastTheGuard
  <1> QED BY <1>1, <1>2, <1>3, <1>4, <1>5 DEF Meanwhile

\* Where the issue's work stands on main, what may still be landed, and what a
\* move of main is about to drop.
THEOREM PlaceIsFollowed == Spec => []PlaceInv
  <1>1. TypeInv /\ PlaceInv /\ [Next]_vars => OnceInv'
    BY OnceLandLocally, OnceLandRemotely, OnceRecover, OnceDrive, OnceEnvironment, OnceStutter
    DEF Next, Orchestrator, Environment, PlaceInv
  <1>2. TypeInv /\ PlaceInv /\ [Next]_vars => PlaceInv'
    BY <1>1, GuardIsKept DEF PlaceInv
  <1>3. Init => PlaceInv
    BY OnceInit DEF Init, PlaceInv, PastTheGuard
  <1> QED BY <1>2, <1>3, TypeCorrect, PTL DEF Spec

\* Whatever crashes and whoever else advances main, a commit of main is lost
\* only if it got there after the guard of our move had looked
\* (fast_forward_bookmark, which looks and moves in two transactions).
THEOREM OnlyTheRaceIsLost == Spec => OnlyRacedIsLost
  <1> DEFINE Kept == \A i \in DOMAIN trunk : ~ (pc = "bookmark_move" /\ trunk[i].source = "raced")
                       => i \in DOMAIN trunk' /\ trunk'[i] = trunk[i]
  <1>1. ASSUME TypeInv, [Next]_vars, ~ BookmarkMove
        PROVE  trunk' = trunk \/ \E x : trunk' = Append(trunk, x)
    <2>2. CASE ExternalAdvance
      BY <2>2 DEF ExternalAdvance
    <2>3. CASE LandLocally
      BY <1>1, <2>3 DEF LandLocally, RebaseStart, Rebase, Merging, RebaseDone, Move, Refused,
                        Moved, MergedStep
    <2>4. CASE LandRemotely \/ ClosePr
      BY <2>4 DEF LandRemotely, LandingRemotely, PushStart, PointBookmark, Push, PushDone,
                  OpenPr, find_open_pr, open_pr, PrCreated, AdoptPr, PrOpen, ForgetBranch, ClosePr
    <2>5. CASE Recover \/ Crash
      BY <2>5 DEF Recover, Recovering, RecoverOutright, RecoverWorker, ReclaimWorkspace, ReclaimRow,
                  Rollback, ResumeMoved, ResumeLanding, ResumeRemoteLanding, PlanFails,
                  RecordRefused, Quarantine, Crash
    <2>6. CASE Drive \/ WorkerDone
      BY <2>6 DEF Drive, Driving, WorkerDone, Pickup, ResetStreak, PrepareImplementer,
                  RegisterWorker, WorkerFails, ImplementerDone, EnterQa, RunQa, DropRow,
                  DropWorkspace, Poison, OnQaFail, EnterReview, ForgetImplementer,
                  PrepareAdversary, AdversaryDone, OnAdversaryFindings, Reimplement,
                  OnCleanRound, Converge, Land, StoreLandingChange, ParkForInboundApproval,
                  ResumeApprovedInbound, MergerGate, PrepareMerger, MergerDone, CheckMerge,
                  ParkForHuman
    <2>7. CASE Approve \/ UNCHANGED vars
      BY <2>7 DEF Approve, vars
    <2> QED BY <1>1, <2>2, <2>3, <2>4, <2>5, <2>6, <2>7
            DEF Next, Orchestrator, Environment
  <1>2. ASSUME TypeInv, PlaceInv, [Next]_vars PROVE Kept
    <2>1. CASE BookmarkMove
      <3>1. pc = "bookmark_move"
        BY <2>1 DEF BookmarkMove
      <3>2. \A i \in change.base + 1 .. Len(trunk) : trunk[i].source = "raced"
        BY <1>2, <3>1 DEF PlaceInv, PastTheGuard
      <3>3. \A i \in DOMAIN trunk : i \in 1 .. change.base \/ i \in change.base + 1 .. Len(trunk)
        BY <1>2, <2>1, MovedMain
      <3>4. \A i \in 1 .. change.base : i \in DOMAIN trunk' /\ trunk'[i] = trunk[i]
        BY <1>2, <2>1, MovedMain
      <3> QED BY <3>1, <3>2, <3>3, <3>4
    <2>2. CASE ~ BookmarkMove
      <3>1. CASE trunk' = trunk
        BY <3>1
      <3>2. CASE \E x : trunk' = Append(trunk, x)
        BY <1>2, <3>2, TrunkGrows
      <3> QED BY <1>1, <1>2, <2>2, <3>1, <3>2
    <2> QED BY <2>1, <2>2
  <1>3. TypeInv /\ PlaceInv /\ [Next]_vars => [Kept]_trunk
    BY <1>2
  <1> QED BY <1>3, TypeCorrect, PlaceIsFollowed, PTL DEF Spec, OnlyRacedIsLost

\* However often the process dies and whoever else moves main, it takes the
\* issue's work at most once (landing.rs, resume_from and fast_forward_bookmark).
THEOREM WorkLandsOnce == Spec => []LandsOnce
  <1>1. OnceInv => LandsOnce
    <2> SUFFICES ASSUME OnceInv PROVE Cardinality(Ours) <= 1
      BY DEF LandsOnce
    <2>1. Ours = {} \/ \E i : Ours = {i}
      BY DEF OnceInv, AtMostOnce
    <2>2. CASE Ours = {}
      BY <2>2, FS_EmptySet
    <2>3. ASSUME NEW i, Ours = {i} PROVE Cardinality(Ours) <= 1
      <3>1. Cardinality({i}) = 1
        BY FS_Singleton
      <3> QED BY <2>3, <3>1
    <2> QED BY <2>1, <2>2, <2>3
  <1>2. PlaceInv => OnceInv
    BY DEF PlaceInv
  <1> QED BY <1>1, <1>2, PlaceIsFollowed, PTL

-----------------------------------------------------------------------------
(* One pull request. *)

\* At most one pull request of the branch is open at a time: pr_step looks for
\* it before it opens one, after a crash as before.
THEOREM PullRequestIsUnique == Spec => []OneOpenPr
  <1>1. Init => OneOpenPr
    BY DEF Init, OneOpenPr
  <1>2. TypeInv /\ OneOpenPr /\ [Next]_vars => OneOpenPr'
    <2> SUFFICES ASSUME TypeInv, OneOpenPr, [Next]_vars PROVE OneOpenPr'
      OBVIOUS
    <2>1. open_prs \in Nat
      BY DEF TypeInv, TypeOK, RemoteOK
    <2>2. CASE LandRemotely \/ ClosePr
      BY <2>1, <2>2 DEF LandRemotely, PushStart, PointBookmark, Push, PushDone, OpenPr,
         find_open_pr, open_pr, PrCreated, AdoptPr, PrOpen, ForgetBranch, ClosePr, remoteState,
         OneOpenPr
    <2>3. CASE LandLocally
      BY <2>3 DEF LandLocally, RebaseStart, Rebase, Merging, RebaseDone, Move, BookmarkMove,
         Refused, Moved, MergedStep, Landing, remoteState, OneOpenPr
    <2>4. CASE Recover \/ Crash
      BY <2>4 DEF Recover, RecoverOutright, RecoverWorker, ReclaimWorkspace, ReclaimRow,
         Rollback, ResumeMoved, ResumeLanding, ResumeRemoteLanding, PlanFails, RecordRefused,
         Quarantine, Crash, Recovering, remoteState, OneOpenPr
    <2>5. CASE Drive
      <3>1. open_prs' = open_prs
        BY <2>5 DEF Drive, Driving, remoteState, Pickup, ResetStreak, PrepareImplementer,
           RegisterWorker, WorkerFails, ImplementerDone, EnterQa, RunQa, DropRow, DropWorkspace,
           Poison, OnQaFail, EnterReview, ForgetImplementer, PrepareAdversary, AdversaryDone,
           OnAdversaryFindings, Reimplement, OnCleanRound, Converge, Land, StoreLandingChange,
           ParkForInboundApproval, ResumeApprovedInbound, MergerGate, PrepareMerger, MergerDone,
           CheckMerge, ParkForHuman
      <3> QED BY <3>1 DEF OneOpenPr
    <2>6. CASE WorkerDone \/ ExternalAdvance \/ Approve \/ UNCHANGED vars
      BY <2>6 DEF WorkerDone, ExternalAdvance, Approve, Driving, remoteState, vars, OneOpenPr
    <2> QED BY <2>2, <2>3, <2>4, <2>5, <2>6 DEF Next, Orchestrator, Environment
  <1> QED BY <1>1, <1>2, TypeCorrect, PTL DEF Spec

-----------------------------------------------------------------------------
(* What a crash may cost: no worker row and no workspace is left behind      *)
(* unnoticed, for any number of crashes; nothing but vetted work lands, and  *)
(* every issue keeps to its lifecycle, for at most one.                      *)

-----------------------------------------------------------------------------
(* The row and the workspace of the worker in hand. *)

\* The orchestrator starts with neither.
LEMMA ReclaimInit == Init => ReclaimInv
  BY DEF Init, ReclaimInv, WorkHasPlan, AtWork, AnswerSubstate, None, RowIsFollowed,
         HandIsEmpty, WithWorkspace, RecoveryFollowsCrash, OnlyInHand, Holding

\* A landing takes its workspace along to the end.
LEMMA ReclaimLandLocally == TypeInv /\ VettedInv /\ ReclaimInv /\ LandLocally => ReclaimInv'
  <1> SUFFICES ASSUME TypeInv, VettedInv, ReclaimInv, LandLocally PROVE ReclaimInv'
    OBVIOUS
  <1> USE DEF Landing, set_phase, Return, row, remoteState, labels, locals,
              ReclaimInv, WorkHasPlan, AtWork, AnswerSubstate, None, RowIsFollowed,
              HandIsEmpty, WithWorkspace, LandingSteps,
              RecoveryFollowsCrash, OnlyInHand, Holding
  <1>0. /\ crashes \in Nat
        /\ leaks \in Nat
        /\ cur \in Nat
        /\ \A w \in workspaces : w.uuid \in Nat \ {0}
    BY DEF TypeInv, TypeOK, HistoryOK, LocalsOK, RegistryOK, Workspaces
  <1>1. CASE RebaseStart
    BY <1>0, <1>1 DEF RebaseStart
  <1>2. CASE Rebase
    <2>1. PICK t \in RebaseResults :
            /\ workspaces' = {IF w.commit = change THEN [w EXCEPT !.commit = t]
                                                   ELSE w : w \in workspaces}
            /\ pc' = IF t.form = "conflicted" THEN "merging" ELSE "rebase_done"
      BY <1>2 DEF Rebase
    <2> DEFINE moved(w) == IF w.commit = change THEN [w EXCEPT !.commit = t] ELSE w
    <2>2. \A w \in workspaces : moved(w).uuid = w.uuid
      BY DEF Workspaces, TypeInv, TypeOK, RegistryOK
    <2>3. workspaces' = {moved(w) : w \in workspaces} /\ pc' \in {"merging", "rebase_done"}
      BY <2>1
    <2> HIDE DEF moved
    <2>4. \A v \in workspaces' : \E w \in workspaces : v.uuid = w.uuid
      BY <2>2, <2>3
    <2> QED BY <1>0, <1>2, <2>3, <2>4 DEF Rebase
  <1>3. CASE Merging
    BY <1>0, <1>3 DEF Merging, None
  <1>4. CASE RebaseDone
    BY <1>0, <1>4 DEF RebaseDone
  <1>5. CASE Move
    BY <1>0, <1>5 DEF Move
  <1>6. CASE Refused
    BY <1>0, <1>6 DEF Refused, Landed, None
  <1>7. CASE Moved
    BY <1>0, <1>7 DEF Moved
  <1>8. CASE MergedStep
    BY <1>0, <1>8 DEF MergedStep, Landed, None
  <1>9. CASE BookmarkMove
    BY <1>0, <1>9 DEF BookmarkMove
  <1> QED BY <1>1, <1>2, <1>3, <1>4, <1>5, <1>6, <1>7, <1>8, <1>9 DEF LandLocally

\* A remote landing has no workspace.
LEMMA ReclaimLandRemotely ==
  TypeInv /\ VettedInv /\ ReclaimInv /\ (LandRemotely \/ ClosePr) => ReclaimInv'
  <1> SUFFICES ASSUME TypeInv, VettedInv, ReclaimInv, LandRemotely \/ ClosePr
               PROVE ReclaimInv'
    OBVIOUS
  <1> USE DEF LandingRemotely, set_phase, Return, row, remoteState, labels, locals,
              ReclaimInv, WorkHasPlan, AtWork, AnswerSubstate, None, RowIsFollowed,
              HandIsEmpty, WithWorkspace, LandingSteps,
              RecoveryFollowsCrash, OnlyInHand, Holding
  <1>0. /\ crashes \in Nat
        /\ leaks \in Nat
        /\ cur \in Nat
        /\ \A w \in workspaces : w.uuid \in Nat \ {0}
    BY DEF TypeInv, TypeOK, HistoryOK, LocalsOK, RegistryOK, Workspaces
  <1>1. CASE PushStart
    BY <1>0, <1>1 DEF PushStart
  <1>2. CASE PointBookmark
    BY <1>0, <1>2 DEF PointBookmark
  <1>3. CASE Push
    BY <1>0, <1>3 DEF Push
  <1>4. CASE PushDone
    BY <1>0, <1>4 DEF PushDone
  <1>5. CASE OpenPr
    BY <1>0, <1>5 DEF OpenPr, find_open_pr, open_pr
  <1>6. CASE PrCreated
    BY <1>0, <1>6 DEF PrCreated
  <1>7. CASE AdoptPr
    BY <1>0, <1>7 DEF AdoptPr
  <1>8. CASE PrOpen
    BY <1>0, <1>8 DEF PrOpen, None
  <1>9. CASE ForgetBranch
    BY <1>0, <1>9 DEF ForgetBranch
  <1>10. CASE ClosePr
    BY <1>0, <1>10 DEF ClosePr
  <1> QED BY <1>1, <1>2, <1>3, <1>4, <1>5, <1>6, <1>7, <1>8, <1>9, <1>10 DEF LandRemotely

\* Every plan reclaims the row it met, or gives the issue up.
LEMMA ReclaimRecover ==
  TypeInv /\ VettedInv /\ ReclaimInv /\ (Recover \/ Crash) => ReclaimInv'
  <1> SUFFICES ASSUME TypeInv, VettedInv, ReclaimInv, Recover \/ Crash PROVE ReclaimInv'
    OBVIOUS
  <1> USE DEF Recovering, set_phase, Return, row, remoteState, labels, locals,
              ReclaimInv, WorkHasPlan, AtWork, AnswerSubstate, None, RowIsFollowed,
              HandIsEmpty, WithWorkspace, LandingSteps,
              RecoveryFollowsCrash, OnlyInHand, Holding
  <1>0. /\ crashes \in Nat
        /\ leaks \in Nat
        /\ cur \in Nat
        /\ \A w \in workspaces : w.uuid \in Nat \ {0}
    BY DEF TypeInv, TypeOK, HistoryOK, LocalsOK, RegistryOK, Workspaces
  <1>1. CASE RecoverOutright
    BY <1>0, <1>1
      DEF RecoverOutright, Plan, plan_recovery, has_worker, is_terminal, QaSubstate,
          LocalSubstate, RemoteSubstate
  <1>2. CASE RecoverWorker
    BY <1>0, <1>2
      DEF RecoverWorker, Plan, plan_recovery, has_worker, WorkerRow, is_terminal,
          QaSubstate, LocalSubstate, RemoteSubstate
  <1>3. CASE ReclaimWorkspace
    BY <1>0, <1>3 DEF ReclaimWorkspace, forget_best_effort, forget
  <1>4. CASE ReclaimRow
    BY <1>0, <1>4 DEF ReclaimRow
  <1>5. CASE Rollback
    BY <1>0, <1>5 DEF Rollback, None
  <1>6. CASE ResumeMoved
    BY <1>0, <1>6
      DEF ResumeMoved, Plan, plan_recovery, is_terminal, QaSubstate, LocalSubstate,
          RemoteSubstate
  <1>7. CASE ResumeLanding
    BY <1>0, <1>7
      DEF ResumeLanding, ResumeEntry, Plan, plan_recovery, is_terminal, QaSubstate,
          LocalSubstate, RemoteSubstate
  <1>8. CASE ResumeRemoteLanding
    BY <1>0, <1>8
      DEF ResumeRemoteLanding, Plan, plan_recovery, is_terminal, QaSubstate, LocalSubstate,
          RemoteSubstate
  <1>9. CASE PlanFails
    BY <1>0, <1>9
      DEF PlanFails, Plan, plan_recovery, is_terminal, QaSubstate, LocalSubstate,
          RemoteSubstate
  <1>10. CASE Quarantine
    BY <1>0, <1>10 DEF Quarantine
  <1>11. CASE Crash
    BY <1>0, <1>11 DEF Crash
  <1>12. CASE RecordRefused
    BY <1>0, <1>12 DEF RecordRefused
  <1> QED BY <1>1, <1>2, <1>3, <1>4, <1>5, <1>6, <1>7, <1>8, <1>9, <1>10, <1>11, <1>12
          DEF Recover

\* The pump drops the row and the workspace it has in hand.
LEMMA ReclaimDrive == TypeInv /\ VettedInv /\ ReclaimInv /\ Drive => ReclaimInv'
  <1> SUFFICES ASSUME TypeInv, VettedInv, ReclaimInv, Drive PROVE ReclaimInv'
    OBVIOUS
  <1> USE DEF Driving, set_phase, Return, row, remoteState, labels, locals,
              ReclaimInv, WorkHasPlan, AtWork, AnswerSubstate, None, RowIsFollowed,
              HandIsEmpty, WithWorkspace, LandingSteps,
              RecoveryFollowsCrash, OnlyInHand, Holding
  <1>0. /\ crashes \in Nat
        /\ leaks \in Nat
        /\ cur \in Nat
        /\ \A w \in workspaces : w.uuid \in Nat \ {0}
    BY DEF TypeInv, TypeOK, HistoryOK, LocalsOK, RegistryOK, Workspaces
  <1>1. CASE Pickup
    BY <1>0, <1>1 DEF Pickup, is_drivable, None
  <1>2. CASE ResetStreak
    BY <1>0, <1>2 DEF ResetStreak
  <1>3. CASE PrepareImplementer
    <2> DEFINE c == [origin |-> minted + 1, base |-> Len(trunk),
                     work |-> "gone", form |-> "original"]
    <2>1. prepare("implementing", c)
      BY <1>3 DEF PrepareImplementer
    <2> HIDE DEF c
    <2>2. /\ minted' = minted + 1 /\ cur' = minted + 1
          /\ \A w \in workspaces' : w \in workspaces \/ w.uuid = minted + 1
      BY <2>1, VettedPrepare
    <2> QED BY <1>0, <1>3, <2>2 DEF PrepareImplementer, VettedInv, PhaseAtStep
  <1>4. CASE RegisterWorker
    <2> DEFINE run(w) == IF w.uuid = cur THEN [w EXCEPT !.st = "running"] ELSE w
    <2>1. \A w \in workspaces : run(w).uuid = w.uuid
      BY DEF Workspaces, TypeInv, TypeOK, RegistryOK
    <2>2. workspaces' = {run(w) : w \in workspaces}
      BY <1>4 DEF RegisterWorker
    <2> HIDE DEF run
    <2>3. \A v \in workspaces' : \E w \in workspaces : v.uuid = w.uuid
      BY <2>1, <2>2
    <2> QED BY <1>0, <1>4, <2>3 DEF RegisterWorker
  <1>5. CASE WorkerFails
    BY <1>0, <1>5 DEF WorkerFails, FailureGoal
  <1>6. CASE ImplementerDone
    BY <1>0, <1>6 DEF ImplementerDone
  <1>7. CASE EnterQa
    BY <1>0, <1>7 DEF EnterQa, None
  <1>8. CASE RunQa
    BY <1>0, <1>8 DEF RunQa
  <1>9. CASE DropRow
    BY <1>0, <1>9 DEF DropRow
  <1>10. CASE DropWorkspace
    BY <1>0, <1>10 DEF DropWorkspace, forget, forget_best_effort
  <1>11. CASE Poison
    BY <1>0, <1>11 DEF Poison
  <1>12. CASE OnQaFail
    BY <1>0, <1>12 DEF OnQaFail
  <1>13. CASE EnterReview
    BY <1>0, <1>13 DEF EnterReview, None
  <1>14. CASE ForgetImplementer
    BY <1>0, <1>14 DEF ForgetImplementer, forget, forget_best_effort
  <1>15. CASE PrepareAdversary
    <2> DEFINE c == [NoCommit EXCEPT !.base = Len(trunk)]
    <2>1. prepare("adversary-review", c)
      BY <1>15 DEF PrepareAdversary
    <2> HIDE DEF c
    <2>2. /\ minted' = minted + 1 /\ cur' = minted + 1
          /\ \A w \in workspaces' : w \in workspaces \/ w.uuid = minted + 1
      BY <2>1, VettedPrepare
    <2> QED BY <1>0, <1>15, <2>2 DEF PrepareAdversary, VettedInv, PhaseAtStep
  <1>16. CASE AdversaryDone
    BY <1>0, <1>16 DEF AdversaryDone
  <1>17. CASE OnAdversaryFindings
    BY <1>0, <1>17 DEF OnAdversaryFindings, None
  <1>18. CASE Reimplement
    BY <1>0, <1>18 DEF Reimplement, None
  <1>19. CASE OnCleanRound
    BY <1>0, <1>19 DEF OnCleanRound
  <1>20. CASE Converge
    BY <1>0, <1>20 DEF Converge, None
  <1>21. CASE Land
    BY <1>0, <1>21 DEF Land
  <1>22. CASE StoreLandingChange
    BY <1>0, <1>22 DEF StoreLandingChange
  <1>23. CASE ParkForInboundApproval
    BY <1>0, <1>23 DEF ParkForInboundApproval
  <1>24. CASE ResumeApprovedInbound
    BY <1>0, <1>24 DEF ResumeApprovedInbound
  <1>25. CASE MergerGate
    BY <1>0, <1>25 DEF MergerGate
  <1>26. CASE PrepareMerger
    <2> DEFINE c == change
    <2>1. prepare("landing", c)
      BY <1>26 DEF PrepareMerger
    <2> HIDE DEF c
    <2>2. /\ minted' = minted + 1 /\ cur' = minted + 1
          /\ \A w \in workspaces' : w \in workspaces \/ w.uuid = minted + 1
      BY <2>1, VettedPrepare
    <2> QED BY <1>0, <1>26, <2>2 DEF PrepareMerger, VettedInv, PhaseAtStep
  <1>27. CASE MergerDone
    BY <1>0, <1>27 DEF MergerDone
  <1>28. CASE CheckMerge
    BY <1>0, <1>28 DEF CheckMerge
  <1>29. CASE ParkForHuman
    BY <1>0, <1>29 DEF ParkForHuman
  <1> QED BY <1>1, <1>2, <1>3, <1>4, <1>5, <1>6, <1>7, <1>8, <1>9, <1>10, <1>11, <1>12,
             <1>13, <1>14, <1>15, <1>16, <1>17, <1>18, <1>19, <1>20, <1>21, <1>22, <1>23,
             <1>24, <1>25, <1>26, <1>27, <1>28, <1>29
            DEF Drive

\* Nobody else has a hand in it.
LEMMA ReclaimEnvironment ==
  TypeInv /\ ReclaimInv /\ (WorkerDone \/ ExternalAdvance \/ Approve) => ReclaimInv'
  <1> SUFFICES ASSUME TypeInv, ReclaimInv, WorkerDone \/ ExternalAdvance \/ Approve
               PROVE  ReclaimInv'
    OBVIOUS
  <1> USE DEF row, remoteState, labels, locals, ReclaimInv, WorkHasPlan, AtWork,
              AnswerSubstate, None, RowIsFollowed,
              HandIsEmpty, WithWorkspace, LandingSteps, RecoveryFollowsCrash, OnlyInHand,
              Holding
  <1>1. CASE WorkerDone
    <2>1. PICK w \in workspaces, c \in Commits :
            /\ c.origin = w.commit.origin
            /\ workspaces' = (workspaces \ {w}) \cup {[w EXCEPT !.st = "done", !.commit = c]}
      BY <1>1, WorkerKeepsOrigin DEF TypeInv
    <2> DEFINE n == [w EXCEPT !.st = "done", !.commit = c]
    <2>2. n.uuid = w.uuid
      BY <2>1 DEF Workspaces, TypeInv, TypeOK, RegistryOK
    <2>3. workspaces' = (workspaces \ {w}) \cup {n}
      BY <2>1
    <2> HIDE DEF n
    <2>4. \A v \in workspaces' : \E u \in workspaces : v.uuid = u.uuid
      BY <2>2, <2>3
    <2> QED BY <1>1, <2>4 DEF WorkerDone, Driving
  <1>2. CASE ExternalAdvance \/ Approve
    BY <1>2 DEF ExternalAdvance, Approve
  <1> QED BY <1>1, <1>2

\* A step that changes nothing keeps the invariant.
LEMMA ReclaimStutter == ReclaimInv /\ UNCHANGED vars => ReclaimInv'
  BY DEF vars, row, remoteState, labels, locals, ReclaimInv, WorkHasPlan, AtWork,
         AnswerSubstate, None, RowIsFollowed, HandIsEmpty, WithWorkspace, LandingSteps,
         RecoveryFollowsCrash, OnlyInHand, Holding

\* At every step of the pump, of a landing and of recovery it is known who has
\* the row and the workspace of the worker.
THEOREM WorkerIsFollowed == Spec => []ReclaimInv
  <1>1. TypeInv /\ VettedInv /\ ReclaimInv /\ [Next]_vars => ReclaimInv'
    BY ReclaimLandLocally, ReclaimLandRemotely, ReclaimRecover, ReclaimDrive,
       ReclaimEnvironment, ReclaimStutter DEF Next, Orchestrator, Environment
  <1> QED BY <1>1, ReclaimInit, TypeCorrect, WorkIsFollowed, PTL DEF Spec

\* Without one of its elements a finite set counts at most one less.
LEMMA OneLess ==
  ASSUME NEW R, NEW c, IsFiniteSet(R)
  PROVE  /\ IsFiniteSet(R \ {c}) /\ Cardinality(R) \in Nat /\ Cardinality(R \ {c}) \in Nat
         /\ Cardinality(R \ {c}) <= Cardinality(R)
         /\ Cardinality(R) <= Cardinality(R \ {c}) + 1
  BY FS_RemoveElement, FS_CardinalityType

\* The steps that leave the registered workspaces, and the one in hand, alone.
KeepsOrphans ==
    /\ Registered' = Registered /\ cur' = cur
    /\ crashes' = crashes /\ leaks' = leaks /\ pc' # "rec_row"

\* They keep the count.
LEMMA KeptOrphans == OrphansAreCounted /\ KeepsOrphans => OrphansAreCounted'
  BY DEF KeepsOrphans, OrphansAreCounted

\* No workspace is named 0, the hand that holds nothing.
LEMMA ZeroIsNoName == TypeInv => 0 \notin Registered
  BY DEF TypeInv, TypeOK, RegistryOK, Workspaces, Registered

\* No landing makes or forgets a workspace.
LEMMA OrphansLand ==
  ASSUME TypeInv, ReclaimInv, LandLocally \/ LandRemotely
  PROVE  KeepsOrphans
  <1> USE DEF KeepsOrphans, Landing, LandingRemotely, Return, locals, ReclaimInv, HandIsEmpty,
              WithWorkspace, Holding
  <1>1. CASE Rebase
    <2>1. PICK t \in RebaseResults :
            /\ workspaces' = {IF w.commit = change THEN [w EXCEPT !.commit = t]
                                                   ELSE w : w \in workspaces}
            /\ pc' = IF t.form = "conflicted" THEN "merging" ELSE "rebase_done"
      BY <1>1 DEF Rebase
    <2> DEFINE moved(w) == IF w.commit = change THEN [w EXCEPT !.commit = t] ELSE w
    <2>2. \A w \in workspaces : moved(w).uuid = w.uuid
      BY DEF Workspaces, TypeInv, TypeOK, RegistryOK
    <2>3. workspaces' = {moved(w) : w \in workspaces} /\ pc' \in {"merging", "rebase_done"}
      BY <2>1
    <2> HIDE DEF moved
    <2>4. Registered' = Registered
      BY <2>2, <2>3 DEF Registered
    <2> QED BY <1>1, <2>3, <2>4 DEF Rebase
  <1>2. CASE LandLocally /\ ~ Rebase
    <2>1. workspaces' = workspaces
      BY <1>2 DEF LandLocally, RebaseStart, Merging, RebaseDone, Move, BookmarkMove, Refused,
                  Moved, MergedStep
    <2>2. Registered' = Registered
      BY <2>1 DEF Registered
    <2>3. CASE RebaseStart \/ RebaseDone \/ Move \/ BookmarkMove \/ Moved
      BY <2>2, <2>3 DEF RebaseStart, RebaseDone, Move, BookmarkMove, Moved
    <2>4. CASE Merging
      BY <2>2, <2>4 DEF Merging
    <2>5. CASE Refused \/ MergedStep
      BY <2>2, <2>5 DEF Refused, MergedStep, Landed
    <2> QED BY <1>2, <2>3, <2>4, <2>5 DEF LandLocally
  <1>3. CASE LandRemotely
    <2>1. workspaces' = workspaces
      BY <1>3 DEF LandRemotely, PushStart, PointBookmark, Push, PushDone, OpenPr, PrCreated,
                  AdoptPr, PrOpen, ForgetBranch
    <2>2. Registered' = Registered
      BY <2>1 DEF Registered
    <2>3. CASE PushStart \/ PointBookmark \/ Push \/ PushDone
      BY <2>2, <2>3 DEF PushStart, PointBookmark, Push, PushDone
    <2>4. CASE OpenPr \/ PrCreated \/ AdoptPr
      BY <2>2, <2>4 DEF OpenPr, find_open_pr, open_pr, PrCreated, AdoptPr
    <2>5. CASE PrOpen \/ ForgetBranch
      BY <2>2, <2>5 DEF PrOpen, ForgetBranch
    <2> QED BY <1>3, <2>3, <2>4, <2>5 DEF LandRemotely
  <1> QED BY <1>1, <1>2, <1>3

\* A forget that fails leaves one workspace more, and so does a crash; what
\* recovery reclaims was the work of one of them.
LEMMA OrphansRecover ==
  ASSUME TypeInv, ReclaimInv, OrphansAreCounted, Recover \/ Crash
  PROVE  OrphansAreCounted'
  <1> USE DEF Recovering, Return, locals
  <1>0. crashes \in Nat /\ leaks \in Nat /\ 0 \notin Registered /\ IsFiniteSet(Registered)
    BY ZeroIsNoName DEF TypeInv, TypeOK, HistoryOK, OrphansAreCounted
  <1>1. CASE Crash
    <2>1. Registered' = Registered /\ cur' = 0 /\ crashes' = crashes + 1 /\ leaks' = leaks
          /\ pc' = "down"
      BY <1>1 DEF Crash, Registered
    <2>2. Registered \ {0} = Registered
      BY <1>0
    <2>3. Cardinality(Registered) <= Cardinality(Registered \ {cur}) + 1
          /\ Cardinality(Registered) \in Nat /\ Cardinality(Registered \ {cur}) \in Nat
      BY <1>0, OneLess
    <2>4. Cardinality(Registered) <= crashes + 1 + leaks
      BY <1>0, <2>3 DEF OrphansAreCounted
    <2>5. Cardinality(Registered' \ {cur'}) <= crashes' + leaks'
      BY <1>0, <2>1, <2>2, <2>4
    <2> QED BY <1>0, <2>1, <2>5 DEF OrphansAreCounted
  <1>2. CASE RecoverWorker
    <2>1. Registered' = Registered /\ crashes' = crashes /\ leaks' = leaks
          /\ pc' # "rec_row" /\ pc = "down"
      BY <1>2 DEF RecoverWorker, Registered
    <2>2. cur = 0
      BY <2>1 DEF ReclaimInv, HandIsEmpty, WithWorkspace, Holding
    <2>3. Registered \ {cur} = Registered
      BY <1>0, <2>2
    <2>4. Cardinality(Registered) <= crashes + leaks
      BY <2>3 DEF OrphansAreCounted
    <2>5. Cardinality(Registered \ {cur'}) <= Cardinality(Registered)
          /\ Cardinality(Registered) \in Nat /\ Cardinality(Registered \ {cur'}) \in Nat
      BY <1>0, OneLess
    <2>6. Cardinality(Registered' \ {cur'}) <= crashes' + leaks'
      BY <1>0, <2>1, <2>4, <2>5
    <2> QED BY <1>0, <2>1, <2>6 DEF OrphansAreCounted
  <1>3. CASE ReclaimWorkspace
    <2>1. cur' = cur /\ crashes' = crashes /\ pc' = "rec_row"
      BY <1>3 DEF ReclaimWorkspace
    <2>2. \/ Registered' = Registered \ {cur} /\ leaks' = leaks
          \/ Registered' = Registered /\ leaks' = leaks + 1
      BY <1>3 DEF ReclaimWorkspace, forget_best_effort, forget, Registered
    <2>3. /\ Cardinality(Registered) <= Cardinality(Registered \ {cur}) + 1
          /\ Cardinality(Registered) \in Nat /\ Cardinality(Registered \ {cur}) \in Nat
          /\ IsFiniteSet(Registered \ {cur})
      BY <1>0, OneLess
    <2>4. IsFiniteSet(Registered') /\ Cardinality(Registered') <= crashes' + leaks'
      BY <1>0, <2>1, <2>2, <2>3 DEF OrphansAreCounted
    <2>5. Cardinality(Registered' \ {cur'}) <= Cardinality(Registered')
          /\ Cardinality(Registered') \in Nat /\ Cardinality(Registered' \ {cur'}) \in Nat
      BY <2>4, OneLess
    <2>6. crashes' + leaks' \in Nat
      BY <1>0, <2>1, <2>2
    <2>7. Cardinality(Registered' \ {cur'}) <= crashes' + leaks'
      BY <2>4, <2>5, <2>6
    <2> QED BY <2>4, <2>7 DEF OrphansAreCounted
  <1>4. CASE ReclaimRow
    <2>1. Registered' = Registered /\ cur' = 0 /\ crashes' = crashes /\ leaks' = leaks
          /\ pc' # "rec_row" /\ pc = "rec_row"
      BY <1>4 DEF ReclaimRow, Registered
    <2>2. Registered \ {0} = Registered
      BY <1>0
    <2> QED BY <1>0, <2>1, <2>2 DEF OrphansAreCounted
  <1>5. CASE RecoverOutright \/ Rollback \/ Quarantine \/ RecordRefused
    <2>1. workspaces' = workspaces /\ crashes' = crashes /\ leaks' = leaks /\ pc' # "rec_row"
          /\ (cur' = cur \/ cur' = 0)
      BY <1>5 DEF RecoverOutright, Rollback, Quarantine, RecordRefused
    <2>2. CASE cur' = cur
      BY <2>1, <2>2, KeptOrphans DEF KeepsOrphans, Registered
    <2>3. CASE cur' # cur
      <3>1. pc \in {"down", "rollback", "quarantine"}
        BY <1>5, <2>3 DEF RecoverOutright, Rollback, Quarantine, RecordRefused
      <3>2. cur = 0
        BY <3>1 DEF ReclaimInv, HandIsEmpty, WithWorkspace, Holding
      <3> QED BY <2>1, <2>3, <3>2
    <2> QED BY <2>2, <2>3
  <1>6. CASE ResumeMoved \/ ResumeLanding \/ ResumeRemoteLanding \/ PlanFails
    <2>1. workspaces' = workspaces /\ crashes' = crashes /\ leaks' = leaks /\ cur' = cur
          /\ pc' # "rec_row"
      BY <1>6 DEF ResumeMoved, ResumeLanding, ResumeEntry, ResumeRemoteLanding, PlanFails
    <2> QED BY <2>1, KeptOrphans DEF KeepsOrphans, Registered
  <1> QED BY <1>1, <1>2, <1>3, <1>4, <1>5, <1>6 DEF Recover

\* A new workspace takes a new name.
LEMMA PreparedName ==
  ASSUME NEW p, NEW c, prepare(p, c)
  PROVE  /\ minted' = minted + 1 /\ cur' = minted + 1
         /\ Registered' = Registered \cup {minted + 1}
  <1> DEFINE n == [phase |-> p, round |-> round, uuid |-> minted + 1,
                   commit |-> c, st |-> "prepared"]
  <1>1. n.uuid = minted + 1
    OBVIOUS
  <1>2. workspaces' = workspaces \cup {n} /\ minted' = minted + 1 /\ cur' = minted + 1
    BY DEF prepare
  <1> HIDE DEF n
  <1> QED BY <1>1, <1>2 DEF Registered

\* A new workspace is taken in hand, one that is let go of is forgotten, or its
\* forget failed.
LEMMA OrphansDrive ==
  ASSUME TypeInv, VettedInv, ReclaimInv, OrphansAreCounted, Drive
  PROVE  OrphansAreCounted'
  <1> USE DEF Driving, Return, locals
  <1>0. crashes \in Nat /\ leaks \in Nat /\ minted \in Nat /\ 0 \notin Registered
        /\ IsFiniteSet(Registered)
    BY ZeroIsNoName DEF TypeInv, TypeOK, HistoryOK, RegistryOK, OrphansAreCounted
  <1>1. CASE PrepareImplementer \/ PrepareAdversary \/ PrepareMerger
    <2>1. /\ minted' = minted + 1 /\ cur' = minted + 1
          /\ Registered' = Registered \cup {minted + 1}
      BY <1>1, PreparedName DEF PrepareImplementer, PrepareAdversary, PrepareMerger
    <2>2. crashes' = crashes /\ leaks' = leaks /\ pc' = "register"
          /\ pc \in {"prepare", "adv_prepare", "merger_prepare"}
      BY <1>1 DEF PrepareImplementer, PrepareAdversary, PrepareMerger
    <2>3. cur = 0
      BY <2>2 DEF ReclaimInv, HandIsEmpty, WithWorkspace, Holding
    <2>4. minted + 1 \notin Registered
      <3>1. \A w \in workspaces : w.uuid \in Nat /\ w.uuid <= minted
        BY DEF TypeInv, TypeOK, RegistryOK, Workspaces
      <3>2. \A w \in workspaces : w.uuid # minted + 1
        BY <1>0, <3>1
      <3> QED BY <3>2 DEF Registered
    <2>5. Registered' \ {cur'} = Registered \ {cur}
      BY <1>0, <2>1, <2>3, <2>4
    <2>6. IsFiniteSet(Registered')
      BY <1>0, <2>1, FS_AddElement
    <2> QED BY <2>2, <2>5, <2>6 DEF OrphansAreCounted
  <1>2. CASE DropWorkspace \/ ForgetImplementer
    <2>1. cur' = 0 /\ crashes' = crashes /\ pc' # "rec_row"
      BY <1>2 DEF DropWorkspace, ForgetImplementer
    <2>2. \/ Registered' = Registered \ {cur} /\ leaks' = leaks
          \/ Registered' = Registered /\ leaks' = leaks + 1
      BY <1>2 DEF DropWorkspace, ForgetImplementer, forget_best_effort, forget, Registered
    <2>3. /\ Cardinality(Registered) <= Cardinality(Registered \ {cur}) + 1
          /\ Cardinality(Registered) \in Nat /\ Cardinality(Registered \ {cur}) \in Nat
          /\ IsFiniteSet(Registered \ {cur})
      BY <1>0, OneLess
    <2>4. Registered' \ {cur'} = Registered'
      BY <1>0, <2>1, <2>2
    <2>6. Cardinality(Registered \ {cur}) <= crashes + leaks
      BY DEF OrphansAreCounted
    <2> HIDE DEF Driving, Return, locals
    <2>7. Cardinality(Registered') <= crashes' + leaks'
      <3>1. CASE Registered' = Registered \ {cur} /\ leaks' = leaks
        BY <2>1, <2>6, <3>1
      <3>2. CASE Registered' = Registered /\ leaks' = leaks + 1
        BY <1>0, <2>1, <2>3, <2>6, <3>2
      <3> QED BY <2>2, <3>1, <3>2
    <2>5. IsFiniteSet(Registered') /\ Cardinality(Registered') <= crashes' + leaks'
      BY <1>0, <2>2, <2>3, <2>7
    <2> QED BY <2>1, <2>4, <2>5 DEF OrphansAreCounted
  <1>3. CASE RegisterWorker
    <2> DEFINE run(w) == IF w.uuid = cur THEN [w EXCEPT !.st = "running"] ELSE w
    <2>1. \A w \in workspaces : run(w).uuid = w.uuid
      BY DEF Workspaces, TypeInv, TypeOK, RegistryOK
    <2>2. workspaces' = {run(w) : w \in workspaces}
      BY <1>3 DEF RegisterWorker
    <2> HIDE DEF run
    <2>3. Registered' = Registered
      BY <2>1, <2>2 DEF Registered
    <2> QED BY <1>3, <2>3, KeptOrphans DEF KeepsOrphans, RegisterWorker
  <1>4. CASE Pickup \/ ResetStreak \/ WorkerFails \/ ImplementerDone \/ EnterQa \/ RunQa
             \/ DropRow \/ EnterReview \/ AdversaryDone \/ OnAdversaryFindings
    <2>1. workspaces' = workspaces /\ crashes' = crashes /\ leaks' = leaks /\ cur' = cur
          /\ pc' # "rec_row"
      BY <1>4 DEF Pickup, ResetStreak, WorkerFails, ImplementerDone, EnterQa, RunQa, DropRow,
                  EnterReview, AdversaryDone, OnAdversaryFindings
    <2> QED BY <2>1, KeptOrphans DEF KeepsOrphans, Registered
  <1>5. CASE Reimplement \/ OnCleanRound \/ Converge \/ Land \/ StoreLandingChange
             \/ ResumeApprovedInbound \/ MergerGate \/ MergerDone \/ CheckMerge
    <2>1. workspaces' = workspaces /\ crashes' = crashes /\ leaks' = leaks /\ cur' = cur
          /\ pc' # "rec_row"
      BY <1>5 DEF Reimplement, OnCleanRound, Converge, Land, StoreLandingChange,
                  ResumeApprovedInbound, MergerGate, MergerDone, CheckMerge
    <2> QED BY <2>1, KeptOrphans DEF KeepsOrphans, Registered
  <1>6. CASE Poison \/ OnQaFail \/ ParkForInboundApproval \/ ParkForHuman
    <2>1. workspaces' = workspaces /\ crashes' = crashes /\ leaks' = leaks /\ pc' # "rec_row"
          /\ (cur' = cur \/ cur' = 0) /\ pc \in {"poison", "qa_failed", "park_inbound", "park_human"}
      BY <1>6 DEF Poison, OnQaFail, ParkForInboundApproval, ParkForHuman
    <2>2. cur = 0
      BY <2>1 DEF ReclaimInv, HandIsEmpty, WithWorkspace, Holding
    <2> QED BY <2>1, <2>2, KeptOrphans DEF KeepsOrphans, Registered
  <1> QED BY <1>1, <1>2, <1>3, <1>4, <1>5, <1>6 DEF Drive

\* Nobody else has a hand in the registry.
LEMMA OrphansElse ==
  ASSUME TypeInv, ReclaimInv, WorkerDone \/ ExternalAdvance \/ Approve \/ ClosePr \/ UNCHANGED vars
  PROVE  Registered' = Registered /\ UNCHANGED <<cur, crashes, leaks, pc>>
  <1> USE DEF locals
  <1>1. CASE WorkerDone
    <2>1. PICK w \in workspaces, c \in Commits :
            /\ c.origin = w.commit.origin
            /\ workspaces' = (workspaces \ {w}) \cup {[w EXCEPT !.st = "done", !.commit = c]}
      BY <1>1, WorkerKeepsOrigin DEF TypeInv
    <2> DEFINE n == [w EXCEPT !.st = "done", !.commit = c]
    <2>2. n.uuid = w.uuid
      BY <2>1 DEF Workspaces, TypeInv, TypeOK, RegistryOK
    <2>3. workspaces' = (workspaces \ {w}) \cup {n}
      BY <2>1
    <2> HIDE DEF n
    <2>4. Registered' = Registered
      BY <2>1, <2>2, <2>3 DEF Registered
    <2> QED BY <1>1, <2>4 DEF WorkerDone, Driving
  <1>2. CASE ExternalAdvance \/ Approve \/ UNCHANGED vars
    BY <1>2 DEF ExternalAdvance, Approve, vars, Registered
  <1>3. CASE ClosePr
    BY <1>3 DEF ClosePr, LandingRemotely, Registered
  <1> QED BY <1>1, <1>2, <1>3

\* However many workspaces nobody has in hand any more, as many crashes and
\* failing forgets there were.
THEOREM OrphansAreFollowed == Spec => []OrphansAreCounted
  <1>1. TypeInv /\ VettedInv /\ ReclaimInv /\ OrphansAreCounted /\ [Next]_vars => OrphansAreCounted'
    <2> SUFFICES ASSUME TypeInv, VettedInv, ReclaimInv, OrphansAreCounted, [Next]_vars
                 PROVE  OrphansAreCounted'
      OBVIOUS
    <2>1. CASE LandLocally \/ LandRemotely
      BY <2>1, OrphansLand, KeptOrphans
    <2>2. CASE Recover \/ Crash
      BY <2>2, OrphansRecover
    <2>3. CASE Drive
      BY <2>3, OrphansDrive
    <2>4. CASE WorkerDone \/ ExternalAdvance \/ Approve \/ ClosePr \/ UNCHANGED vars
      BY <2>4, OrphansElse DEF OrphansAreCounted
    <2> QED BY <2>1, <2>2, <2>3, <2>4 DEF Next, Orchestrator, Environment
  <1>2. Init => OrphansAreCounted
    <2> SUFFICES ASSUME Init PROVE OrphansAreCounted
      OBVIOUS
    <2>1. Registered = {} /\ Registered \ {cur} = {} /\ crashes + leaks = 0 /\ pc # "rec_row"
      BY DEF Init, Registered
    <2>2. IsFiniteSet({}) /\ Cardinality({}) = 0
      BY FS_EmptySet
    <2> QED BY <2>1, <2>2 DEF OrphansAreCounted
  <1> QED BY <1>1, <1>2, TypeCorrect, WorkIsFollowed, WorkerIsFollowed, PTL DEF Spec

\* An issue has at most one worker row; between ticks it has none, unless
\* recovery gave the issue up; and there no more workspaces are registered for
\* it than there were crashes and failing forgets, for any number of either
\* (clean_crashed_worker, remove_worker, forget).
THEOREM NothingIsLeftBehind == Spec => []Reclaimed
  <1>1. ASSUME TypeInv, ReclaimInv, OrphansAreCounted PROVE Reclaimed
    <2>1. workers = {} \/ \E u \in workers : workers = {u}
      BY <1>1 DEF ReclaimInv, RowIsFollowed
    <2>2. Cardinality(workers) <= 1
      <3>1. CASE workers = {}
        <4>1. Cardinality({}) = 0
          BY FS_EmptySet
        <4> QED BY <3>1, <4>1
      <3>2. CASE \E u \in workers : workers = {u}
        <4>1. PICK u \in workers : workers = {u}
          BY <3>2
        <4>2. Cardinality({u}) = 1
          BY FS_Singleton
        <4> QED BY <4>1, <4>2
      <3> QED BY <2>1, <3>1, <3>2
    <2>3. pc = "idle" /\ phase # "orchestrator-error" => workers = {}
      BY <1>1 DEF ReclaimInv, RowIsFollowed
    <2>4. pc = "idle" => Cardinality(Registered) <= crashes + leaks
      <3>1. pc = "idle" => cur = 0
        BY <1>1 DEF ReclaimInv, HandIsEmpty, WithWorkspace, Holding
      <3>2. pc = "idle" => Registered \ {cur} = Registered
        BY <1>1, <3>1, ZeroIsNoName
      <3> QED BY <1>1, <3>2 DEF OrphansAreCounted
    <2> QED BY <2>2, <2>3, <2>4 DEF Reclaimed
  <1> QED BY <1>1, WorkerIsFollowed, OrphansAreFollowed, TypeCorrect, PTL

-----------------------------------------------------------------------------
(* One crash: what the scan finds. *)

\* No workspace, and nothing on main, at the start.
LEMMA ScanInit == Init => ScanInv
  BY DEF Init, ScanInv, PhaseOfStep, OneOfRound, ScanIsVetted, OnlyVettedLands, OfRound,
         Converged, Underway, Ours, Holding

\* A landing from a scan puts on main what the scan found.
LEMMA ScanLandLocally ==
  ASSUME TypeInv, VettedInv, ReclaimInv, ScanInv, LandLocally
  PROVE  ScanInv'
  <1> USE DEF Landing, set_phase, Return, row, remoteState, labels, locals, history,
              ScanInv, PhaseOfStep, OneOfRound, ScanIsVetted, OnlyVettedLands, OfRound,
              Converged, Underway, Vetted, Ours, is_drivable, None
  <1>0. crashes \in Nat /\ round \in Nat /\ (\A w \in workspaces : w.round \in Nat)
    BY DEF TypeInv, TypeOK, HistoryOK, RowOK, RegistryOK, Workspaces
  <1>1. CASE RebaseStart
    BY <1>0, <1>1 DEF RebaseStart, ReclaimInv, HandIsEmpty, LandingSteps
  <1>2. CASE Rebase
    <2>1. PICK t \in RebaseResults :
            /\ change' = t
            /\ workspaces' = {IF w.commit = change THEN [w EXCEPT !.commit = t]
                                                   ELSE w : w \in workspaces}
            /\ pc' = IF t.form = "conflicted" THEN "merging" ELSE "rebase_done"
      BY <1>2 DEF Rebase
    <2>2. t.origin = change.origin
      BY <2>1, RebaseResultsType DEF TypeInv
    <2> DEFINE moved(w) == IF w.commit = change THEN [w EXCEPT !.commit = t] ELSE w
    <2>3. \A w \in workspaces : /\ moved(w).commit.origin = w.commit.origin
                               /\ moved(w).phase = w.phase /\ moved(w).uuid = w.uuid
                               /\ moved(w).round = w.round
      BY <2>2 DEF Workspaces, TypeInv, TypeOK, RegistryOK
    <2>4. workspaces' = {moved(w) : w \in workspaces} /\ pc' \in {"merging", "rebase_done"}
      BY <2>1
    <2> HIDE DEF moved
    <2>5. \A v \in workspaces' : \E w \in workspaces :
            /\ v.phase = w.phase /\ v.round = w.round /\ v.uuid = w.uuid
            /\ v.commit.origin = w.commit.origin
      BY <2>3, <2>4
    <2> QED BY <1>0, <1>2, <2>1, <2>2, <2>4, <2>5 DEF Rebase, Holding
  <1>3. CASE Merging
    BY <1>0, <1>3 DEF Merging
  <1>4. CASE RebaseDone
    BY <1>0, <1>4 DEF RebaseDone, VettedInv, ScanIsContained
  <1>5. CASE Move
    BY <1>0, <1>5 DEF Move, Holding
  <1>9. CASE BookmarkMove
    <2>1. Vetted(change.origin) /\ UNCHANGED history
      BY <1>9 DEF BookmarkMove, Landing, VettedInv, LandingIsVetted
    <2>2. OnlyVettedLands'
      BY <1>9, <2>1, MovedPlaces
    <2> QED BY <1>0, <1>9, <2>2 DEF BookmarkMove, Holding
  <1>6. CASE Refused
    BY <1>0, <1>6 DEF Refused, Landed
  <1>7. CASE Moved
    BY <1>0, <1>7 DEF Moved
  <1>8. CASE MergedStep
    BY <1>0, <1>8 DEF MergedStep, Landed
  <1> QED BY <1>1, <1>2, <1>3, <1>4, <1>5, <1>6, <1>7, <1>8, <1>9 DEF LandLocally

\* A remote landing scans nothing.
LEMMA ScanLandRemotely ==
  ASSUME TypeInv, VettedInv, ReclaimInv, ScanInv, LandRemotely \/ ClosePr
  PROVE  ScanInv'
  <1> USE DEF LandingRemotely, set_phase, Return, row, remoteState, labels, locals, history,
              ScanInv, PhaseOfStep, OneOfRound, ScanIsVetted, OnlyVettedLands, OfRound,
              Converged, Underway, Vetted, Ours, is_drivable, None
  <1>0. crashes \in Nat /\ round \in Nat /\ (\A w \in workspaces : w.round \in Nat)
    BY DEF TypeInv, TypeOK, HistoryOK, RowOK, RegistryOK, Workspaces
  <1>1. CASE PushStart
    BY <1>0, <1>1 DEF PushStart
  <1>2. CASE PointBookmark
    BY <1>0, <1>2 DEF PointBookmark
  <1>3. CASE Push
    BY <1>0, <1>3 DEF Push
  <1>4. CASE PushDone
    BY <1>0, <1>4 DEF PushDone
  <1>5. CASE OpenPr
    BY <1>0, <1>5 DEF OpenPr, find_open_pr, open_pr
  <1>6. CASE PrCreated
    BY <1>0, <1>6 DEF PrCreated
  <1>7. CASE AdoptPr
    BY <1>0, <1>7 DEF AdoptPr
  <1>8. CASE PrOpen
    BY <1>0, <1>8 DEF PrOpen
  <1>9. CASE ForgetBranch
    BY <1>0, <1>9 DEF ForgetBranch
  <1>10. CASE ClosePr
    BY <1>0, <1>10 DEF ClosePr
  <1> QED BY <1>1, <1>2, <1>3, <1>4, <1>5, <1>6, <1>7, <1>8, <1>9, <1>10 DEF LandRemotely

\* The first crash leaves the work that converged; there is no second one.
LEMMA ScanRecover ==
  ASSUME MaxCrashes \in {0, 1}, TypeInv, VettedInv, ReclaimInv, ScanInv, Recover \/ Crash
  PROVE  ScanInv'
  <1> USE DEF Recovering, set_phase, Return, row, remoteState, labels, locals, history,
              ScanInv, PhaseOfStep, OneOfRound, ScanIsVetted, OnlyVettedLands, OfRound,
              Converged, Underway, Vetted, Ours, is_drivable, None
  <1>0. crashes \in Nat /\ round \in Nat /\ (\A w \in workspaces : w.round \in Nat)
    BY DEF TypeInv, TypeOK, HistoryOK, RowOK, RegistryOK, Workspaces
  <1>1. CASE RecoverOutright
    BY <1>0, <1>1 DEF RecoverOutright, ReclaimInv, RecoveryFollowsCrash
  <1>2. CASE RecoverWorker
    BY <1>0, <1>2 DEF RecoverWorker, ReclaimInv, RecoveryFollowsCrash
  <1>3. CASE ReclaimWorkspace
    BY <1>0, <1>3
      DEF ReclaimWorkspace, ReclaimInv, RecoveryFollowsCrash, forget_best_effort, forget
  <1>4. CASE ReclaimRow
    BY <1>0, <1>4 DEF ReclaimRow, ReclaimInv, RecoveryFollowsCrash
  <1>5. CASE Rollback
    BY <1>0, <1>5 DEF Rollback, ReclaimInv, RecoveryFollowsCrash
  <1>6. CASE ResumeMoved
    BY <1>0, <1>6
      DEF ResumeMoved, ReclaimInv, RecoveryFollowsCrash, Plan, plan_recovery, is_terminal,
          AnswerSubstate, QaSubstate, LocalSubstate, RemoteSubstate
  <1>7. CASE ResumeLanding
    BY <1>0, <1>7
      DEF ResumeLanding, ReclaimInv, RecoveryFollowsCrash, ResumeEntry,
          landing_change_revset, Plan, plan_recovery, is_terminal, AnswerSubstate,
          QaSubstate, LocalSubstate, RemoteSubstate
  <1>8. CASE ResumeRemoteLanding
    BY <1>0, <1>8
      DEF ResumeRemoteLanding, ReclaimInv, RecoveryFollowsCrash, Plan, plan_recovery,
          is_terminal, AnswerSubstate, QaSubstate, LocalSubstate, RemoteSubstate
  <1>9. CASE PlanFails
    BY <1>0, <1>9 DEF PlanFails, ReclaimInv, RecoveryFollowsCrash
  <1>10. CASE Quarantine
    BY <1>0, <1>10 DEF Quarantine, ReclaimInv, RecoveryFollowsCrash
  <1>11. CASE Crash
    BY <1>0, <1>11 DEF Crash, Holding
  <1>12. CASE RecordRefused
    BY <1>0, <1>12 DEF RecordRefused, ReclaimInv, RecoveryFollowsCrash
  <1> QED BY <1>1, <1>2, <1>3, <1>4, <1>5, <1>6, <1>7, <1>8, <1>9, <1>10, <1>11, <1>12
          DEF Recover

\* A fresh workspace is of the current round.
LEMMA PreparedRound ==
  ASSUME NEW p, NEW c, prepare(p, c)
  PROVE  /\ minted' = minted + 1 /\ cur' = minted + 1
         /\ \A w \in workspaces' :
               \/ w \in workspaces
               \/ w.phase = p /\ w.commit = c /\ w.uuid = minted + 1 /\ w.round = round
  <1> DEFINE n == [phase |-> p, round |-> round, uuid |-> minted + 1,
                   commit |-> c, st |-> "prepared"]
  <1>1. n.phase = p /\ n.commit = c /\ n.uuid = minted + 1 /\ n.round = round
    OBVIOUS
  <1>2. workspaces' = workspaces \cup {n} /\ minted' = minted + 1 /\ cur' = minted + 1
    BY DEF prepare
  <1> HIDE DEF n
  <1> QED BY <1>1, <1>2

\* Each round has its own Implementer.
LEMMA ScanDrive ==
  ASSUME TypeInv, VettedInv, ReclaimInv, ScanInv, Drive
  PROVE  ScanInv'
  <1> USE DEF Driving, set_phase, Return, row, remoteState, labels, locals, history,
              ScanInv, PhaseOfStep, OneOfRound, ScanIsVetted, OnlyVettedLands, OfRound,
              Converged, Underway, Vetted, Ours, is_drivable, None
  <1>0. crashes \in Nat /\ round \in Nat /\ (\A w \in workspaces : w.round \in Nat)
    BY DEF TypeInv, TypeOK, HistoryOK, RowOK, RegistryOK, Workspaces
  <1>1. CASE Pickup
    BY <1>0, <1>1 DEF Pickup, Holding
  <1>2. CASE ResetStreak
    BY <1>0, <1>2 DEF ResetStreak
  <1>3. CASE PrepareImplementer
    <2> DEFINE c == [origin |-> minted + 1, base |-> Len(trunk),
                     work |-> "gone", form |-> "original"]
    <2>1. prepare("implementing", c)
      BY <1>3 DEF PrepareImplementer
    <2> HIDE DEF c
    <2>2. /\ minted' = minted + 1 /\ cur' = minted + 1
          /\ \A w \in workspaces' :
               \/ w \in workspaces
               \/ /\ w.phase = "implementing" /\ w.commit = c
                  /\ w.uuid = minted + 1 /\ w.round = round
      BY <2>1, PreparedRound
    <2> QED BY <1>0, <1>3, <2>2 DEF PrepareImplementer, VettedInv, PhaseAtStep
  <1>4. CASE RegisterWorker
    <2> DEFINE run(w) == IF w.uuid = cur THEN [w EXCEPT !.st = "running"] ELSE w
    <2>1. \A w \in workspaces : /\ run(w).commit = w.commit /\ run(w).round = w.round
                               /\ run(w).phase = w.phase /\ run(w).uuid = w.uuid
      BY DEF Workspaces, TypeInv, TypeOK, RegistryOK
    <2>2. workspaces' = {run(w) : w \in workspaces}
      BY <1>4 DEF RegisterWorker
    <2> HIDE DEF run
    <2>3. \A v \in workspaces' : \E w \in workspaces :
            /\ v.phase = w.phase /\ v.round = w.round /\ v.uuid = w.uuid
            /\ v.commit.origin = w.commit.origin
      BY <2>1, <2>2
    <2> QED BY <1>0, <1>4, <2>3 DEF RegisterWorker, Holding
  <1>5. CASE WorkerFails
    BY <1>0, <1>5 DEF WorkerFails, FailureGoal, Holding
  <1>6. CASE ImplementerDone
    BY <1>0, <1>6 DEF ImplementerDone, Holding
  <1>7. CASE EnterQa
    BY <1>0, <1>7 DEF EnterQa, VettedInv, PhaseAtStep, Holding
  <1>8. CASE RunQa
    BY <1>0, <1>8 DEF RunQa, VettedInv, PhaseAtStep, Holding
  <1>9. CASE DropRow
    <2>1. pc = "drop_row" /\ pc' \in {"enter_review", "check_merge", "drop_ws"}
      BY <1>9 DEF DropRow
    <2>2. UNCHANGED <<phase, round, workspaces, trunk, change, source, goal, cur, crashes, history>>
      BY <1>9 DEF DropRow
    <2> QED BY <1>9, <2>1, <2>2 DEF DropRow, Holding
  <1>10. CASE DropWorkspace
    BY <1>0, <1>10 DEF DropWorkspace, forget, forget_best_effort, Holding
  <1>11. CASE Poison
    BY <1>0, <1>11 DEF Poison
  <1>12. CASE OnQaFail
    BY <1>0, <1>12 DEF OnQaFail, Holding
  <1>13. CASE EnterReview
    <2>1. Current \in workspaces /\ Current.uuid = cur
      BY <1>13, RoleOfCurrent DEF EnterReview, Holding
    <2>2. \A w \in workspaces : w.phase = "implementing" => w.commit.origin = w.uuid
      BY DEF VettedInv, RoleInHand
    <2>3. Current.commit.origin = cur
      BY <1>13, <2>1, <2>2, RoleOfCurrent
        DEF EnterReview, Holding, VettedInv, PhaseAtStep, Role
    <2> QED BY <1>0, <1>13, <2>2, <2>3 DEF EnterReview, VettedInv, PhaseAtStep, Holding
  <1>14. CASE ForgetImplementer
    BY <1>0, <1>14 DEF ForgetImplementer, forget, forget_best_effort, Holding
  <1>15. CASE PrepareAdversary
    <2> DEFINE c == [NoCommit EXCEPT !.base = Len(trunk)]
    <2>1. prepare("adversary-review", c)
      BY <1>15 DEF PrepareAdversary
    <2> HIDE DEF c
    <2>2. /\ minted' = minted + 1 /\ cur' = minted + 1
          /\ \A w \in workspaces' :
               \/ w \in workspaces
               \/ /\ w.phase = "adversary-review" /\ w.commit = c
                  /\ w.uuid = minted + 1 /\ w.round = round
      BY <2>1, PreparedRound
    <2> QED BY <1>0, <1>15, <2>2 DEF PrepareAdversary, VettedInv, PhaseAtStep
  <1>16. CASE AdversaryDone
    <2>1. Current.phase = "adversary-review" /\ pc \in Holding
      BY <1>16 DEF AdversaryDone, Holding
    <2>2. phase = "adversary-review"
      BY <2>1, RoleOfCurrent
    <2>3. Counted(iter)
      BY <1>16, <2>2 DEF AdversaryDone, VettedInv, StreakIsEarned
    <2>4. /\ n_rounds \in Nat /\ iter \in Nat /\ change.origin \in Nat
          /\ \A q \in clean : q[2] \in Nat
      <3>1. n_rounds \in Nat
        BY ConfigAssumption
      <3>2. change \in Commits /\ clean \subseteq Nat \X Nat /\ iter \in Nat
        BY DEF TypeInv, TypeOK, LocalsOK, HistoryOK
      <3> QED BY <3>1, <3>2, CommitFields
    <2>5. ~ Vetted(change.origin)
      BY <2>3, <2>4 DEF Counted
    <2>6. /\ clean \subseteq clean' /\ qa_passed' = qa_passed
          /\ flagged' \subseteq flagged \cup {change.origin}
      BY <1>16 DEF AdversaryDone
    <2>7. \A o : Vetted(o) => /\ <<o, "original">> \in qa_passed' /\ <<o, n_rounds>> \in clean'
                             /\ o \notin flagged'
      BY <2>5, <2>6
    <2>8. OnlyVettedLands'
      BY <1>16, <2>7 DEF AdversaryDone
    <2>9. ScanIsVetted'
      BY <1>16, <2>2 DEF AdversaryDone
    <2>10. PhaseOfStep' /\ OneOfRound'
      BY <1>16, <2>2 DEF AdversaryDone, Holding
    <2> QED BY <2>8, <2>9, <2>10
  <1>17. CASE OnAdversaryFindings
    BY <1>0, <1>17 DEF OnAdversaryFindings
  <1>18. CASE Reimplement
    BY <1>0, <1>18 DEF Reimplement, Holding
  <1>19. CASE OnCleanRound
    BY <1>0, <1>19 DEF OnCleanRound, Holding, VettedInv, PhaseAtStep
  <1>20. CASE Converge
    <2>1. Vetted(change.origin)
      BY <1>20
        DEF Converge, VettedInv, LandingIsVetted, ReclaimInv, HandIsEmpty, LandingSteps
    <2> QED BY <1>0, <1>20, <2>1 DEF Converge, Holding
  <1>21. CASE Land
    <2>1. pc = "land" /\ pc' \in {"park_store", "push_start", "poison", "rebase_start"}
      BY <1>21 DEF Land
    <2>2. UNCHANGED <<phase, round, workspaces, trunk, change, source, goal, cur, crashes, history>>
      BY <1>21 DEF Land
    <2> QED BY <1>21, <2>1, <2>2 DEF Land, Holding, ReclaimInv, HandIsEmpty, LandingSteps
  <1>22. CASE StoreLandingChange
    BY <1>0, <1>22 DEF StoreLandingChange
  <1>23. CASE ParkForInboundApproval
    BY <1>0, <1>23 DEF ParkForInboundApproval
  <1>24. CASE ResumeApprovedInbound
    BY <1>0, <1>24 DEF ResumeApprovedInbound
  <1>25. CASE MergerGate
    <2>1. pc' \in {"park_human", "merger_prepare"}
      BY <1>25 DEF MergerGate
    <2>2. UNCHANGED <<phase, round, workspaces, trunk, change, source, goal, cur, crashes, history>>
      BY <1>25 DEF MergerGate
    <2> QED BY <1>25, <2>1, <2>2 DEF MergerGate, Holding
  <1>26. CASE PrepareMerger
    <2> DEFINE c == change
    <2>1. prepare("landing", c)
      BY <1>26 DEF PrepareMerger
    <2> HIDE DEF c
    <2>2. /\ minted' = minted + 1 /\ cur' = minted + 1
          /\ \A w \in workspaces' :
               \/ w \in workspaces
               \/ /\ w.phase = "landing" /\ w.commit = c
                  /\ w.uuid = minted + 1 /\ w.round = round
      BY <2>1, PreparedRound
    <2> QED BY <1>0, <1>26, <2>2 DEF PrepareMerger, VettedInv, PhaseAtStep
  <1>27. CASE MergerDone
    BY <1>0, <1>27 DEF MergerDone, Holding
  <1>28. CASE CheckMerge
    <2>1. phase = "landing" /\ pc = "check_merge"
      BY <1>28 DEF CheckMerge, VettedInv, PhaseAtStep
    <2>2. /\ UNCHANGED <<phase, round, workspaces, trunk, source, cur, crashes, clean, flagged>>
          /\ qa_passed \subseteq qa_passed' /\ pc' \in {"retry_land", "drop_ws"}
          /\ pc' = "drop_ws" => goal' = "park"
      BY <1>28 DEF CheckMerge
    <2> QED BY <1>28, <2>1, <2>2 DEF Holding
  <1>29. CASE ParkForHuman
    BY <1>0, <1>29 DEF ParkForHuman
  <1> QED BY <1>1, <1>2, <1>3, <1>4, <1>5, <1>6, <1>7, <1>8, <1>9, <1>10, <1>11, <1>12,
             <1>13, <1>14, <1>15, <1>16, <1>17, <1>18, <1>19, <1>20, <1>21, <1>22, <1>23,
             <1>24, <1>25, <1>26, <1>27, <1>28, <1>29
            DEF Drive

\* Workers and other people land nothing for us and move no workspace.
LEMMA ScanEnvironment ==
  ASSUME TypeInv, ScanInv, WorkerDone \/ ExternalAdvance \/ Approve
  PROVE  ScanInv'
  <1> USE DEF row, remoteState, labels, locals, history,
              ScanInv, PhaseOfStep, OneOfRound, ScanIsVetted, OnlyVettedLands, OfRound,
              Converged, Underway, Vetted, Ours, is_drivable, None
  <1>1. CASE WorkerDone
    <2>1. PICK w \in workspaces, c \in Commits :
            /\ c.origin = w.commit.origin
            /\ workspaces' = (workspaces \ {w}) \cup {[w EXCEPT !.st = "done", !.commit = c]}
      BY <1>1, WorkerKeepsOrigin DEF TypeInv
    <2> DEFINE n == [w EXCEPT !.st = "done", !.commit = c]
    <2>2. n.commit.origin = w.commit.origin /\ n.phase = w.phase /\ n.uuid = w.uuid
          /\ n.round = w.round
      BY <2>1 DEF Workspaces, TypeInv, TypeOK, RegistryOK
    <2>3. workspaces' = (workspaces \ {w}) \cup {n}
      BY <2>1
    <2> HIDE DEF n
    <2>4. \A v \in workspaces' : \E o \in workspaces :
            /\ v.phase = o.phase /\ v.round = o.round /\ v.uuid = o.uuid
            /\ v.commit.origin = o.commit.origin
      BY <2>2, <2>3
    <2>5. UNCHANGED <<row, trunk, pc, locals, history, crashes>>
      BY <1>1 DEF WorkerDone, Driving
    <2>6. PhaseOfStep' /\ OnlyVettedLands'
      BY <2>5
    <2>7. ScanIsVetted'
      BY <2>4, <2>5
    <2>8. OneOfRound'
      BY <2>4, <2>5
    <2> QED BY <2>6, <2>7, <2>8
  <1>2. CASE ExternalAdvance
    <2> DEFINE x == [commit |-> [origin |-> 0, base |-> Len(trunk),
                                 work |-> "own", form |-> "original"],
                     source |-> IF pc = "bookmark_move" THEN "raced" ELSE "external"]
    <2>1. trunk' = Append(trunk, x) /\ x.source \in Foreign
      BY <1>2 DEF ExternalAdvance, Foreign
    <2> HIDE DEF x
    <2>2. \A i \in DOMAIN trunk' : (i \in DOMAIN trunk /\ trunk'[i] = trunk[i]) \/ trunk'[i] = x
      BY <2>1, TrunkGrows
    <2>3. OnlyVettedLands'
      BY <1>2, <2>1, <2>2 DEF ExternalAdvance
    <2> QED BY <1>2, <2>3 DEF ExternalAdvance
  <1>3. CASE Approve
    BY <1>3 DEF Approve
  <1> QED BY <1>1, <1>2, <1>3

\* A step that changes nothing keeps the invariant.
LEMMA ScanStutter == ScanInv /\ UNCHANGED vars => ScanInv'
  BY DEF vars, row, remoteState, labels, locals, history, ScanInv, PhaseOfStep, OneOfRound,
         ScanIsVetted, OnlyVettedLands, OfRound, Converged, Underway, Vetted, Ours,
         is_drivable, None

\* With one crash at most, recovery's scan finds nothing but the work that
\* converged: the implementer workspaces of the current round hold no other.
THEOREM ScanIsFollowed == ASSUME MaxCrashes \in {0, 1} PROVE Spec => []ScanInv
  <1>1. TypeInv /\ VettedInv /\ ReclaimInv /\ ScanInv /\ [Next]_vars => ScanInv'
    BY ScanLandLocally, ScanLandRemotely, ScanRecover, ScanDrive, ScanEnvironment,
       ScanStutter
    DEF Next, Orchestrator, Environment
  <1> QED BY <1>1, ScanInit, TypeCorrect, WorkIsFollowed, WorkerIsFollowed, PTL DEF Spec

\* With one crash at most, wherever it comes, and any number of workspaces that
\* could not be forgotten, nothing but vetted work gets to main (StartLanding
\* and ResumeLanding in recovery.rs; landing_change_revset).
THEOREM OneCrashLandsVetted ==
  ASSUME MaxCrashes \in {0, 1}
  PROVE  Spec => []OnlyVettedLands
  <1>1. ScanInv => OnlyVettedLands
    BY DEF ScanInv
  <1> QED BY <1>1, ScanIsFollowed, PTL

-----------------------------------------------------------------------------
(* One crash and no workspace left behind: the lifecycle. *)

\* The issue starts ready, with nothing to scan.
LEMMA StageInit == Init => StageInv
  BY EnvironmentAssumption
  DEF Init, StageInv, NothingToScan, StageAtStep, PhaseOfStep, OfRound, Converged, Underway,
      Approved

\* A landing is one step after the other, in the phase landing.
LEMMA StageLandLocally ==
  ASSUME MaxCrashes \in {0, 1}, MaxLeaks = 0, TypeInv, VettedInv, ReclaimInv, GateInv, StageInv,
         LandLocally
  PROVE  StageInv'
  <1> USE DEF Landing, set_phase, Return, row, remoteState, labels, locals, history,
              StageInv, NothingToScan, StageAtStep, PhaseOfStep, OfRound, Converged,
              Underway,
              Approved, is_drivable, None
  <1>0. leaks = 0 /\ (\A w \in workspaces : w.uuid \in Nat \ {0}) /\ crashes \in Nat
    BY DEF TypeInv, TypeOK, HistoryOK, RegistryOK, Workspaces
  <1>1. CASE RebaseStart
    BY <1>0, <1>1
      DEF RebaseStart, GateInv, GateWasPassed, ReclaimInv, HandIsEmpty, LandingSteps
  <1>2. CASE Rebase
    <2>1. PICK t \in RebaseResults :
            /\ workspaces' = {IF w.commit = change THEN [w EXCEPT !.commit = t]
                                                   ELSE w : w \in workspaces}
            /\ pc' = IF t.form = "conflicted" THEN "merging" ELSE "rebase_done"
      BY <1>2 DEF Rebase
    <2> DEFINE moved(w) == IF w.commit = change THEN [w EXCEPT !.commit = t] ELSE w
    <2>2. \A w \in workspaces : moved(w).phase = w.phase /\ moved(w).round = w.round
      BY DEF Workspaces, TypeInv, TypeOK, RegistryOK
    <2>3. workspaces' = {moved(w) : w \in workspaces} /\ pc' \in {"merging", "rebase_done"}
      BY <2>1
    <2> HIDE DEF moved
    <2>4. \A v \in workspaces' : \E w \in workspaces : v.phase = w.phase /\ v.round = w.round
      BY <2>2, <2>3
    <2> QED BY <1>0, <1>2, <2>3, <2>4 DEF Rebase
  <1>3. CASE Merging
    BY <1>0, <1>3 DEF Merging
  <1>4. CASE RebaseDone
    BY <1>0, <1>4 DEF RebaseDone
  <1>5. CASE Move
    BY <1>0, <1>5 DEF Move
  <1>6. CASE Refused
    BY <1>0, <1>6 DEF Refused, Landed
  <1>7. CASE Moved
    BY <1>0, <1>7 DEF Moved
  <1>8. CASE MergedStep
    BY <1>0, <1>8 DEF MergedStep, Landed
  <1>9. CASE BookmarkMove
    BY <1>0, <1>9 DEF BookmarkMove
  <1> QED BY <1>1, <1>2, <1>3, <1>4, <1>5, <1>6, <1>7, <1>8, <1>9 DEF LandLocally

\* So is a remote one.
LEMMA StageLandRemotely ==
  ASSUME MaxCrashes \in {0, 1}, MaxLeaks = 0, TypeInv, VettedInv, ReclaimInv, GateInv, StageInv,
         LandRemotely \/ ClosePr
  PROVE  StageInv'
  <1> USE DEF LandingRemotely, set_phase, Return, row, remoteState, labels, locals, history,
              StageInv, NothingToScan, StageAtStep, PhaseOfStep, OfRound, Converged,
              Underway,
              Approved, is_drivable, None
  <1>0. leaks = 0 /\ (\A w \in workspaces : w.uuid \in Nat \ {0}) /\ crashes \in Nat
    BY DEF TypeInv, TypeOK, HistoryOK, RegistryOK, Workspaces
  <1>1. CASE PushStart
    BY <1>0, <1>1 DEF PushStart, GateInv, GateWasPassed
  <1>2. CASE PointBookmark
    BY <1>0, <1>2 DEF PointBookmark
  <1>3. CASE Push
    BY <1>0, <1>3 DEF Push
  <1>4. CASE PushDone
    BY <1>0, <1>4 DEF PushDone
  <1>5. CASE OpenPr
    BY <1>0, <1>5 DEF OpenPr, find_open_pr, open_pr
  <1>6. CASE PrCreated
    BY <1>0, <1>6 DEF PrCreated
  <1>7. CASE AdoptPr
    BY <1>0, <1>7 DEF AdoptPr
  <1>8. CASE PrOpen
    BY <1>0, <1>8 DEF PrOpen
  <1>9. CASE ForgetBranch
    BY <1>0, <1>9 DEF ForgetBranch
  <1>10. CASE ClosePr
    BY <1>0, <1>10 DEF ClosePr
  <1> QED BY <1>1, <1>2, <1>3, <1>4, <1>5, <1>6, <1>7, <1>8, <1>9, <1>10 DEF LandRemotely

\* Recovery resumes what it finds in landing, and leaves alone what has ended.
LEMMA StageRecover ==
  ASSUME MaxCrashes \in {0, 1}, MaxLeaks = 0, ~ LogMayFail,
         TypeInv, VettedInv, ReclaimInv, GateInv, StageInv, Recover \/ Crash
  PROVE  StageInv'
  <1> USE DEF Recovering, set_phase, Return, row, remoteState, labels, locals, history,
              StageInv, NothingToScan, StageAtStep, PhaseOfStep, OfRound, Converged,
              Underway,
              Approved, is_drivable, None
  <1>0. leaks = 0 /\ (\A w \in workspaces : w.uuid \in Nat \ {0}) /\ crashes \in Nat
    BY DEF TypeInv, TypeOK, HistoryOK, RegistryOK, Workspaces
  <1>1. CASE RecoverOutright
    BY <1>0, <1>1
      DEF RecoverOutright, ReclaimInv, WorkHasPlan, Plan, plan_recovery, is_terminal,
          AnswerSubstate, QaSubstate, LocalSubstate, RemoteSubstate
  <1>2. CASE RecoverWorker
    BY <1>0, <1>2
      DEF RecoverWorker, ReclaimInv, WorkHasPlan, Plan, plan_recovery, is_terminal,
          AnswerSubstate, QaSubstate, LocalSubstate, RemoteSubstate
  <1>3. CASE ReclaimWorkspace
    BY <1>0, <1>3
      DEF ReclaimWorkspace, ReclaimInv, WorkHasPlan, AtWork, forget_best_effort, forget
  <1>4. CASE ReclaimRow
    BY <1>0, <1>4 DEF ReclaimRow, ReclaimInv, WorkHasPlan, AtWork
  <1>5. CASE Rollback
    BY <1>0, <1>5 DEF Rollback
  <1>6. CASE ResumeMoved
    BY <1>0, <1>6
      DEF ResumeMoved, ReclaimInv, WorkHasPlan, Plan, plan_recovery, is_terminal,
          AnswerSubstate, QaSubstate, LocalSubstate, RemoteSubstate
  <1>7. CASE ResumeLanding
    BY <1>0, <1>7
      DEF ResumeLanding, ReclaimInv, WorkHasPlan, ResumeEntry, landing_change_revset, Plan,
          plan_recovery, is_terminal, AnswerSubstate, QaSubstate, LocalSubstate,
          RemoteSubstate
  <1>8. CASE ResumeRemoteLanding
    BY <1>0, <1>8
      DEF ResumeRemoteLanding, ReclaimInv, WorkHasPlan, Plan, plan_recovery, is_terminal,
          AnswerSubstate, QaSubstate, LocalSubstate, RemoteSubstate
  <1>9. CASE PlanFails
    BY <1>0, <1>9
      DEF PlanFails, ReclaimInv, WorkHasPlan, Plan, plan_recovery, is_terminal,
          AnswerSubstate, QaSubstate, LocalSubstate, RemoteSubstate
  <1>10. CASE Quarantine
    BY <1>0, <1>10 DEF Quarantine
  <1>11. CASE Crash
    BY <1>0, <1>11 DEF Crash
  <1> QED BY <1>1, <1>2, <1>3, <1>4, <1>5, <1>6, <1>7, <1>8, <1>9, <1>10, <1>11
          DEF Recover, RecordRefused

\* The pump parks what is not approved, and ends what it gives up.
LEMMA StageDrive ==
  ASSUME MaxCrashes \in {0, 1}, MaxLeaks = 0, TypeInv, VettedInv, ReclaimInv, GateInv, StageInv,
         Drive
  PROVE  StageInv'
  <1> USE DEF Driving, set_phase, Return, row, remoteState, labels, locals, history,
              StageInv, NothingToScan, StageAtStep, PhaseOfStep, OfRound, Converged,
              Underway,
              Approved, is_drivable, None
  <1>0. leaks = 0 /\ (\A w \in workspaces : w.uuid \in Nat \ {0}) /\ crashes \in Nat
    BY DEF TypeInv, TypeOK, HistoryOK, RegistryOK, Workspaces
  <1>1. CASE Pickup
    BY <1>0, <1>1 DEF Pickup
  <1>2. CASE ResetStreak
    BY <1>0, <1>2 DEF ResetStreak
  <1>3. CASE PrepareImplementer
    <2> DEFINE c == [origin |-> minted + 1, base |-> Len(trunk),
                     work |-> "gone", form |-> "original"]
    <2>1. prepare("implementing", c)
      BY <1>3 DEF PrepareImplementer
    <2> HIDE DEF c
    <2>2. \A w \in workspaces' : w \in workspaces \/ w.phase = "implementing"
      BY <2>1, PreparedRound
    <2> QED BY <1>0, <1>3, <2>2 DEF PrepareImplementer, VettedInv, PhaseAtStep
  <1>4. CASE RegisterWorker
    <2> DEFINE run(w) == IF w.uuid = cur THEN [w EXCEPT !.st = "running"] ELSE w
    <2>1. \A w \in workspaces : run(w).round = w.round /\ run(w).phase = w.phase
      BY DEF Workspaces, TypeInv, TypeOK, RegistryOK
    <2>2. workspaces' = {run(w) : w \in workspaces}
      BY <1>4 DEF RegisterWorker
    <2> HIDE DEF run
    <2>3. \A v \in workspaces' : \E w \in workspaces : v.phase = w.phase /\ v.round = w.round
      BY <2>1, <2>2
    <2> QED BY <1>0, <1>4, <2>3 DEF RegisterWorker
  <1>5. CASE WorkerFails
    BY <1>0, <1>5 DEF WorkerFails, FailureGoal
  <1>6. CASE ImplementerDone
    BY <1>0, <1>6 DEF ImplementerDone
  <1>7. CASE EnterQa
    BY <1>0, <1>7 DEF EnterQa, VettedInv, PhaseAtStep
  <1>8. CASE RunQa
    BY <1>0, <1>8 DEF RunQa, VettedInv, PhaseAtStep
  <1>9. CASE DropRow
    BY <1>0, <1>9 DEF DropRow
  <1>10. CASE DropWorkspace
    BY <1>0, <1>10 DEF DropWorkspace, forget, forget_best_effort
  <1>11. CASE Poison
    BY <1>0, <1>11 DEF Poison
  <1>12. CASE OnQaFail
    BY <1>0, <1>12 DEF OnQaFail
  <1>13. CASE EnterReview
    BY <1>0, <1>13 DEF EnterReview, VettedInv, PhaseAtStep
  <1>14. CASE ForgetImplementer
    BY <1>0, <1>14 DEF ForgetImplementer, forget, forget_best_effort
  <1>15. CASE PrepareAdversary
    <2> DEFINE c == [NoCommit EXCEPT !.base = Len(trunk)]
    <2>1. prepare("adversary-review", c)
      BY <1>15 DEF PrepareAdversary
    <2> HIDE DEF c
    <2>2. \A w \in workspaces' : w \in workspaces \/ w.phase = "adversary-review"
      BY <2>1, PreparedRound
    <2> QED BY <1>0, <1>15, <2>2 DEF PrepareAdversary, VettedInv, PhaseAtStep
  <1>16. CASE AdversaryDone
    <2>1. Current.phase = "adversary-review" /\ pc \in Holding
      BY <1>16 DEF AdversaryDone, Holding
    <2>2. phase = "adversary-review"
      BY <2>1, RoleOfCurrent
    <2> QED BY <1>0, <1>16, <2>2 DEF AdversaryDone
  <1>17. CASE OnAdversaryFindings
    BY <1>0, <1>17 DEF OnAdversaryFindings
  <1>18. CASE Reimplement
    BY <1>0, <1>18 DEF Reimplement
  <1>19. CASE OnCleanRound
    BY <1>0, <1>19 DEF OnCleanRound, VettedInv, PhaseAtStep
  <1>20. CASE Converge
    BY <1>0, <1>20 DEF Converge, ReclaimInv, HandIsEmpty, OnlyInHand, WithWorkspace, Holding
  <1>21. CASE Land
    <2>1. pc = "land" /\ pc' \in {"park_store", "push_start", "poison", "rebase_start"}
      BY <1>21 DEF Land
    <2>2. /\ UNCHANGED <<phase, round, workspaces, source, goal, cur, crashes, leaks>>
          /\ inbound' = inbound /\ approved' = approved
          /\ pc' = "park_store" => inbound /\ ~ approved
      BY <1>21 DEF Land, NeedsApproval
    <2>3. source = "pump"
      BY <2>1 DEF ReclaimInv, HandIsEmpty, LandingSteps
    <2> QED BY <1>0, <2>1, <2>2, <2>3
  <1>22. CASE StoreLandingChange
    BY <1>0, <1>22 DEF StoreLandingChange
  <1>23. CASE ParkForInboundApproval
    BY <1>0, <1>23 DEF ParkForInboundApproval
  <1>24. CASE ResumeApprovedInbound
    BY <1>0, <1>24 DEF ResumeApprovedInbound
  <1>25. CASE MergerGate
    BY <1>0, <1>25 DEF MergerGate, VettedInv, PhaseAtStep
  <1>26. CASE PrepareMerger
    <2> DEFINE c == change
    <2>1. prepare("landing", c)
      BY <1>26 DEF PrepareMerger
    <2> HIDE DEF c
    <2>2. \A w \in workspaces' : w \in workspaces \/ w.phase = "landing"
      BY <2>1, PreparedRound
    <2> QED BY <1>0, <1>26, <2>2 DEF PrepareMerger, VettedInv, PhaseAtStep
  <1>27. CASE MergerDone
    BY <1>0, <1>27 DEF MergerDone
  <1>28. CASE CheckMerge
    BY <1>0, <1>28 DEF CheckMerge, VettedInv, PhaseAtStep
  <1>29. CASE ParkForHuman
    BY <1>0, <1>29 DEF ParkForHuman
  <1> QED BY <1>1, <1>2, <1>3, <1>4, <1>5, <1>6, <1>7, <1>8, <1>9, <1>10, <1>11, <1>12,
             <1>13, <1>14, <1>15, <1>16, <1>17, <1>18, <1>19, <1>20, <1>21, <1>22, <1>23,
             <1>24, <1>25, <1>26, <1>27, <1>28, <1>29
            DEF Drive

\* An approval is never taken back.
LEMMA StageEnvironment ==
  ASSUME TypeInv, StageInv, WorkerDone \/ ExternalAdvance \/ Approve
  PROVE  StageInv'
  <1> USE DEF row, remoteState, labels, locals, history,
              StageInv, NothingToScan, StageAtStep, PhaseOfStep, OfRound, Converged,
              Underway,
              Approved, is_drivable, None
  <1>1. CASE WorkerDone
    <2>1. PICK w \in workspaces, c \in Commits :
            /\ c.origin = w.commit.origin
            /\ workspaces' = (workspaces \ {w}) \cup {[w EXCEPT !.st = "done", !.commit = c]}
      BY <1>1, WorkerKeepsOrigin DEF TypeInv
    <2> DEFINE n == [w EXCEPT !.st = "done", !.commit = c]
    <2>2. n.phase = w.phase /\ n.round = w.round
      BY <2>1 DEF Workspaces, TypeInv, TypeOK, RegistryOK
    <2>3. workspaces' = (workspaces \ {w}) \cup {n}
      BY <2>1
    <2> HIDE DEF n
    <2>4. \A v \in workspaces' : \E o \in workspaces : v.phase = o.phase /\ v.round = o.round
      BY <2>2, <2>3
    <2>5. /\ UNCHANGED <<phase, round, pc, source, goal, crashes, leaks>>
          /\ inbound' = inbound /\ approved' = approved
      BY <1>1 DEF WorkerDone, Driving
    <2>6. NothingToScan'
      BY <2>4, <2>5
    <2> QED BY <2>5, <2>6
  <1>2. CASE ExternalAdvance \/ Approve
    BY <1>2 DEF ExternalAdvance, Approve
  <1> QED BY <1>1, <1>2

\* A step that changes nothing keeps the invariant.
LEMMA StageStutter == StageInv /\ UNCHANGED vars => StageInv'
  BY DEF vars, row, remoteState, labels, locals, history, StageInv, NothingToScan,
         StageAtStep, PhaseOfStep, OfRound, Converged, Underway, Approved, is_drivable,
         None

\* With one crash at most, no workspace left behind and no refused event there
\* is nothing to scan, so every landing has passed the gate.
THEOREM StageIsFollowed ==
  ASSUME MaxCrashes \in {0, 1}, MaxLeaks = 0, ~ LogMayFail
  PROVE  Spec => []StageInv
  <1>1. /\ TypeInv /\ VettedInv /\ ReclaimInv /\ GateInv /\ StageInv /\ [Next]_vars
        => StageInv'
    BY StageLandLocally, StageLandRemotely, StageRecover, StageDrive, StageEnvironment,
       StageStutter DEF Next, Orchestrator, Environment
  <1> QED BY <1>1, StageInit, TypeCorrect, WorkIsFollowed, WorkerIsFollowed, GateIsPassed,
             PTL DEF Spec

-----------------------------------------------------------------------------
(* One crash and no workspace left behind: the refinement. *)

\* The phases the pump takes an issue through before it is over.
InFlight == {"graphed", "implementing", "qa-gate", "adversary-review", "converged", "landing"}

\* The stage of each phase.
LEMMA StageOfPhase ==
  /\ \A p \in InFlight : StageOf(p) \in {"ready", "working"}
  /\ \A p \in {"adversary-review", "converged", "landing"} : StageOf(p) = "working"
  /\ StageOf("awaiting-inbound-approval") = "parked"
  /\ StageOf("merged") = "landed" /\ StageOf("pr-open") = "landed"
  /\ StageOf("orchestrator-error") = "stopped" /\ StageOf("awaiting-human-merge") = "stopped"
  <1> USE DEF StageOf, is_drivable, InFlight
  <1>1. StageOf("graphed") = "ready" /\ StageOf("implementing") = "ready"
        /\ StageOf("qa-gate") = "ready"
    OBVIOUS
  <1>2. StageOf("adversary-review") = "working" /\ StageOf("converged") = "working"
        /\ StageOf("landing") = "working"
    OBVIOUS
  <1>3. /\ StageOf("awaiting-inbound-approval") = "parked"
        /\ StageOf("merged") = "landed" /\ StageOf("pr-open") = "landed"
        /\ StageOf("orchestrator-error") = "stopped"
        /\ StageOf("awaiting-human-merge") = "stopped"
    OBVIOUS
  <1> HIDE DEF StageOf
  <1> QED BY <1>1, <1>2, <1>3

\* Which changes of the phase the lifecycle allows.
LEMMA PhaseChange ==
  ASSUME UNCHANGED <<inbound, approved>>,
         \/ phase' = phase
         \/ phase \in InFlight /\ phase' \in InFlight
         \/ phase \in InFlight /\ phase' \in {"orchestrator-error", "awaiting-human-merge"}
         \/ phase = "converged" /\ inbound /\ phase' = "awaiting-inbound-approval"
         \/ /\ phase = "awaiting-inbound-approval" /\ approved
            /\ phase' \in {"landing", "orchestrator-error"}
         \/ /\ phase = "landing" /\ Approved /\ phase' \in {"merged", "pr-open"}
  PROVE  [L!Step]_(L!lifecycle)
  <1>1. CASE phase' = phase
    BY <1>1 DEF L!lifecycle
  <1>2. CASE phase \in InFlight /\ phase' \in InFlight
    BY <1>2, StageOfPhase DEF L!Step, L!Work
  <1>3. CASE phase \in InFlight /\ phase' \in {"orchestrator-error", "awaiting-human-merge"}
    BY <1>3, StageOfPhase DEF L!Step, L!Stop
  <1>4. CASE phase = "converged" /\ inbound /\ phase' = "awaiting-inbound-approval"
    BY <1>4, StageOfPhase DEF L!Step, L!Park
  <1>5. CASE /\ phase = "awaiting-inbound-approval" /\ approved
             /\ phase' \in {"landing", "orchestrator-error"}
    BY <1>5, StageOfPhase DEF L!Step, L!Unpark
  <1>6. CASE phase = "landing" /\ Approved /\ phase' \in {"merged", "pr-open"}
    BY <1>6, StageOfPhase DEF L!Step, L!LandIssue, Approved
  <1> QED BY <1>1, <1>2, <1>3, <1>4, <1>5, <1>6

\* Every step of the orchestrator, of its recovery and of the world around it is
\* a step of the lifecycle, or none.
LEMMA StepOfLifecycle ==
  ASSUME ~ LogMayFail, TypeInv, VettedInv, ReclaimInv, StageInv, [Next]_vars
  PROVE  [L!Step]_(L!lifecycle)
  <1> USE DEF set_phase, row, labels, StageInv, StageAtStep, PhaseOfStep, Converged,
              Underway
  <1>0. phase \in InFlight \cup {"merged", "pr-open", "awaiting-human-merge",
                                 "awaiting-inbound-approval", "orchestrator-error"}
    BY DEF TypeInv, TypeOK, RowOK, Phase, InFlight
  <1>1. CASE LandLocally
    <2>1. UNCHANGED <<inbound, approved>>
      BY <1>1 DEF LandLocally, Landing, RebaseStart, Rebase, Merging, RebaseDone, Move,
                  BookmarkMove, Refused, Moved, MergedStep
    <2>2. CASE RebaseStart
      BY <1>0, <2>1, <2>2, PhaseChange DEF RebaseStart, InFlight
    <2>3. CASE Rebase \/ Move \/ BookmarkMove
      BY <2>1, <2>3, PhaseChange DEF Rebase, Move, BookmarkMove
    <2>4. CASE Merging \/ Moved \/ Refused
      BY <2>1, <2>4, PhaseChange DEF Merging, Moved, Refused, InFlight
    <2>5. CASE RebaseDone
      BY <1>0, <2>1, <2>5, PhaseChange DEF RebaseDone, InFlight
    <2>6. CASE MergedStep
      BY <2>1, <2>6, PhaseChange DEF MergedStep
    <2> QED BY <1>1, <2>2, <2>3, <2>4, <2>5, <2>6 DEF LandLocally
  <1>2. CASE LandRemotely \/ ClosePr
    <2>1. UNCHANGED <<inbound, approved>>
      BY <1>2 DEF LandRemotely, LandingRemotely, PushStart, PointBookmark, Push, PushDone,
                  OpenPr, PrCreated, AdoptPr, PrOpen, ForgetBranch, ClosePr
    <2>2. CASE PushStart
      BY <1>0, <2>1, <2>2, PhaseChange DEF PushStart, InFlight
    <2>3. CASE PointBookmark \/ Push \/ OpenPr \/ AdoptPr \/ ForgetBranch \/ ClosePr
      BY <2>1, <2>3, PhaseChange
      DEF PointBookmark, Push, OpenPr, AdoptPr, ForgetBranch, ClosePr
    <2>4. CASE PushDone \/ PrCreated
      BY <2>1, <2>4, PhaseChange DEF PushDone, PrCreated, InFlight
    <2>5. CASE PrOpen
      BY <2>1, <2>5, PhaseChange DEF PrOpen
    <2> QED BY <1>2, <2>2, <2>3, <2>4, <2>5 DEF LandRemotely
  <1>3. CASE Recover \/ Crash
    <2>1. UNCHANGED <<inbound, approved>>
      BY <1>3 DEF Recover, Recovering, RecoverOutright, RecoverWorker, ReclaimWorkspace,
                  ReclaimRow, Rollback, ResumeMoved, ResumeLanding, ResumeRemoteLanding,
                  PlanFails, RecordRefused, Quarantine, Crash
    <2>2. CASE Rollback \/ Quarantine
      BY <1>0, <2>1, <2>2, PhaseChange DEF Rollback, Quarantine, InFlight
    <2>3. CASE (Recover \/ Crash) /\ ~ (Rollback \/ Quarantine)
      BY <2>1, <2>3, PhaseChange
      DEF Recover, RecoverOutright, RecoverWorker, ReclaimWorkspace, ReclaimRow,
          ResumeMoved,
          ResumeLanding, ResumeRemoteLanding, PlanFails, RecordRefused, Crash
    <2> QED BY <1>3, <2>2, <2>3
  <1>4. CASE Drive
    <2>1. UNCHANGED <<inbound, approved>>
      BY <1>4 DEF Drive, Driving, Pickup, ResetStreak, PrepareImplementer,
                  RegisterWorker, WorkerFails, ImplementerDone, EnterQa, RunQa, DropRow,
                  DropWorkspace, Poison, OnQaFail, EnterReview, ForgetImplementer,
                  PrepareAdversary, AdversaryDone, OnAdversaryFindings, Reimplement,
                  OnCleanRound, Converge, Land, StoreLandingChange, ParkForInboundApproval,
                  ResumeApprovedInbound, MergerGate, PrepareMerger, MergerDone, CheckMerge,
                  ParkForHuman
    <2>2. CASE Pickup \/ EnterQa \/ EnterReview
      BY <1>0, <2>1, <2>2, PhaseChange
      DEF Pickup, EnterQa, EnterReview, is_drivable, InFlight, VettedInv, PhaseAtStep
    <2>3. CASE OnQaFail \/ Reimplement \/ Converge
      BY <1>0, <2>1, <2>3, PhaseChange DEF OnQaFail, Reimplement, Converge, InFlight
    <2>4. CASE Poison \/ ParkForHuman
      BY <1>0, <2>1, <2>4, PhaseChange DEF Poison, ParkForHuman
    <2>5. CASE ParkForInboundApproval
      BY <2>1, <2>5, PhaseChange DEF ParkForInboundApproval
    <2>6. CASE Drive /\ UNCHANGED phase
      BY <2>1, <2>6, PhaseChange
    <2>7. Drive => UNCHANGED phase \/ Pickup \/ EnterQa \/ EnterReview \/ OnQaFail
                   \/ Reimplement \/ Converge \/ Poison \/ ParkForHuman
                   \/ ParkForInboundApproval
      BY DEF Drive, ResetStreak, PrepareImplementer,
             RegisterWorker, WorkerFails, ImplementerDone, RunQa, DropRow,
             DropWorkspace, ForgetImplementer, PrepareAdversary, AdversaryDone,
             OnAdversaryFindings, OnCleanRound, Land, StoreLandingChange,
             ResumeApprovedInbound, MergerGate, PrepareMerger, MergerDone, CheckMerge
    <2> QED BY <1>4, <2>2, <2>3, <2>4, <2>5, <2>6, <2>7
  <1>5. CASE WorkerDone \/ ExternalAdvance \/ UNCHANGED vars
    <2>1. UNCHANGED <<phase, inbound, approved>>
      BY <1>5 DEF WorkerDone, Driving, ExternalAdvance, vars
    <2> QED BY <2>1, PhaseChange
  <1>6. CASE Approve
    BY <1>6 DEF Approve, L!Step, L!Grant
  <1> QED BY <1>1, <1>2, <1>3, <1>4, <1>5, <1>6 DEF Next, Orchestrator, Environment

\* With one crash at most, no workspace left behind and an event log that takes
\* every line, the build pump with its landings and its recovery implements the
\* lifecycle of an issue.
THEOREM PumpImplementsLifecycle ==
  ASSUME MaxCrashes \in {0, 1}, MaxLeaks = 0, ~ LogMayFail
  PROVE  Spec => ImplementsLifecycle
  <1>1. Init => L!Start
    <2>1. ASSUME Init PROVE StageOf(phase) = "ready" /\ inbound \in BOOLEAN /\ approved = FALSE
      BY <2>1, EnvironmentAssumption DEF Init, StageOf, is_drivable
    <2> QED BY <2>1 DEF L!Start
  <1>2. TypeInv /\ VettedInv /\ ReclaimInv /\ StageInv /\ [Next]_vars
        => [L!Step]_(L!lifecycle)
    BY StepOfLifecycle
  <1> QED BY <1>1, <1>2, TypeCorrect, WorkIsFollowed, WorkerIsFollowed, StageIsFollowed, PTL
          DEF Spec, ImplementsLifecycle, L!Lifecycle
=============================================================================
