----------------------------- MODULE TickProofs -----------------------------
(***************************************************************************)
(* Machine-checked proofs about the tick and the answer-back machine, for  *)
(* any number of issues, any budgets, any number of crashes and of         *)
(* survived errors: the inductive invariant of TickProperties, and with it *)
(* what a peer is sent and the lifecycle every issue keeps.                *)
(***************************************************************************)
EXTENDS TickProperties, TLAPS, WellFoundedInduction

-----------------------------------------------------------------------------
(* The order in which a tick takes its issues. *)

\* A list that is not empty has a first issue: ids are natural numbers.
LEMMA FirstIn ==
  ASSUME NEW S, S \subseteq Issues, S # {}
  PROVE  First(S) \in S
  <1>1. S \subseteq Nat
    BY TickAssumption
  <1>2. PICK x \in S : \A y \in S : <<y, x>> \notin OpToRel(<, Nat)
    BY <1>1, NatLessThanWellFounded, WFMin, Zenon
  <1>3. \A y \in S : y \in Nat /\ x \in Nat /\ ~ (y < x)
    BY <1>1, <1>2, Zenon DEF OpToRel
  <1>4. \A y \in S : x <= y
    BY <1>3
  <1> QED BY <1>4 DEF First

-----------------------------------------------------------------------------
(* The inductive invariant: first the initial states, then one lemma for   *)
(* each step of the tick.                                                  *)

\* The orchestrator starts with nothing tracked, armed or delivered.
LEMMA TickInvInit == Init => TickInv
  <1> SUFFICES ASSUME Init PROVE TickInv
    OBVIOUS
  <1>1. RowsOK /\ TrackerOK /\ LocalsOK
    BY DEF Init, RowsOK, TrackerOK, LocalsOK, Stages, PCs
  <1>2. InHand /\ ListIsCurrent /\ HandIsCurrent
    BY DEF Init, InHand, ListIsCurrent, HandIsCurrent
  <1>3. AnswerRidesTerminal /\ SentIsDelivered /\ ClosedIsDelivered
    BY DEF Init, AnswerRidesTerminal, SentIsDelivered, ClosedIsDelivered, None
  <1>4. OneDeliveryEach /\ SweepIsCapped /\ ApprovalIsHuman
    BY TickAssumption DEF Init, OneDeliveryEach, SweepIsCapped, InFlight, ApprovalIsHuman
  <1> QED BY <1>1, <1>2, <1>3, <1>4 DEF TickInv, TypeOK

\* Ingesting: the list holds untracked issues, and an inbound one loses its
\* peer's labels before it is adopted.
LEMMA IngestKeepsInv ==
  ASSUME TickInv,
         BeginIngest \/ Sanitize \/ Adopt
  PROVE  TickInv'
  <1> USE DEF rounds
  <1>1. todo # {} => First(todo) \in todo /\ First(todo) \in Issues
    BY FirstIn DEF TickInv, TypeOK, LocalsOK
  <1>2. todo \ {First(todo)} \subseteq Issues
    BY DEF TickInv, TypeOK, LocalsOK
  <1>3. CASE BeginIngest
    <2>1. RowsOK' /\ TrackerOK' /\ AnswerRidesTerminal' /\ ClosedIsDelivered'
      BY <1>3 DEF TickInv, TypeOK, BeginIngest, RowsOK, TrackerOK, AnswerRidesTerminal,
         ClosedIsDelivered, tracker, answers
    <2>2. LocalsOK'
      BY <1>3 DEF TickInv, TypeOK, BeginIngest, LocalsOK, PCs, sweepLocals
    <2>3. InHand'
      BY <1>3 DEF BeginIngest, InHand
    <2>4. ListIsCurrent'
      BY <1>3 DEF BeginIngest, ListIsCurrent
    <2>5. HandIsCurrent'
      BY <1>3 DEF BeginIngest, HandIsCurrent
    <2>6. SentIsDelivered'
      BY <1>3 DEF TickInv, BeginIngest, SentIsDelivered, answers
    <2>7. OneDeliveryEach'
      BY <1>3 DEF TickInv, BeginIngest, OneDeliveryEach, Settled, answers
    <2>8. SweepIsCapped'
      BY <1>3 DEF TickInv, BeginIngest, SweepIsCapped, InFlight, sweepLocals
    <2>9. ApprovalIsHuman'
      BY <1>3 DEF TickInv, BeginIngest, ApprovalIsHuman, tracker
    <2> QED BY <2>1, <2>2, <2>3, <2>4, <2>5, <2>6, <2>7, <2>8, <2>9 DEF TickInv, TypeOK
  <1>4. CASE Sanitize
    <2>1. RowsOK' /\ AnswerRidesTerminal' /\ ClosedIsDelivered'
      BY <1>4 DEF TickInv, TypeOK, Sanitize, RowsOK, AnswerRidesTerminal,
         ClosedIsDelivered, answers
    <2>2. TrackerOK'
      BY <1>4 DEF TickInv, TypeOK, Sanitize, TrackerOK
    <2>3. LocalsOK'
      BY <1>4 DEF TickInv, TypeOK, Sanitize, LocalsOK, PCs, sweepLocals
    <2>4. InHand'
      BY <1>4 DEF Sanitize, InHand
    <2>5. ListIsCurrent'
      BY <1>4 DEF TickInv, Sanitize, ListIsCurrent
    <2>6. HandIsCurrent'
      BY <1>4 DEF Sanitize, HandIsCurrent
    <2>7. SentIsDelivered'
      BY <1>4 DEF TickInv, Sanitize, SentIsDelivered, answers
    <2>8. OneDeliveryEach'
      BY <1>4 DEF TickInv, Sanitize, OneDeliveryEach, Settled, answers
    <2>9. SweepIsCapped'
      BY <1>4 DEF TickInv, Sanitize, SweepIsCapped, InFlight, sweepLocals
    <2>10. ApprovalIsHuman'
      BY <1>1, <1>4 DEF TickInv, TypeOK, Sanitize, TrackerOK, ListIsCurrent, ApprovalIsHuman
    <2> QED BY <2>1, <2>2, <2>3, <2>4, <2>5, <2>6, <2>7, <2>8, <2>9, <2>10
            DEF TickInv, TypeOK
  <1>5. CASE Adopt
    <2>1. TrackerOK' /\ ClosedIsDelivered'
      BY <1>5 DEF TickInv, TypeOK, Adopt, TrackerOK, ClosedIsDelivered, tracker, answers
    <2>2. RowsOK'
      BY <1>5 DEF TickInv, TypeOK, Adopt, RowsOK, Stages, answers
    <2>3. LocalsOK'
      BY <1>5 DEF TickInv, TypeOK, Adopt, LocalsOK, PCs, sweepLocals
    <2>4. InHand'
      BY <1>5 DEF Adopt, InHand
    <2>5. AnswerRidesTerminal'
      BY <1>1, <1>5 DEF TickInv, Adopt, AnswerRidesTerminal, ListIsCurrent, answers,
         is_terminal
    <2>6. ListIsCurrent'
      BY <1>5 DEF TickInv, Adopt, ListIsCurrent
    <2>7. HandIsCurrent'
      BY <1>5 DEF Adopt, HandIsCurrent
    <2>8. SentIsDelivered'
      BY <1>5 DEF TickInv, Adopt, SentIsDelivered, answers
    <2>9. OneDeliveryEach'
      BY <1>1, <1>5 DEF TickInv, Adopt, ListIsCurrent, OneDeliveryEach, Settled, answers
    <2>10. SweepIsCapped'
      BY <1>5 DEF TickInv, Adopt, SweepIsCapped, InFlight, sweepLocals
    <2>11. ApprovalIsHuman'
      BY <1>5 DEF TickInv, Adopt, ApprovalIsHuman, tracker
    <2> QED BY <2>1, <2>2, <2>3, <2>4, <2>5, <2>6, <2>7, <2>8, <2>9, <2>10, <2>11
            DEF TickInv, TypeOK
  <1> QED BY <1>3, <1>4, <1>5

\* Driving: the answer is armed after the terminal phase, and only where no
\* answer state rides on it yet.
LEMMA DriveKeepsInv ==
  ASSUME TickInv,
         BeginDrive \/ DriveIssue \/ Work \/ ForgetFails \/ EndIssue \/ Arm
  PROVE  TickInv'
  <1> USE DEF rounds
  <1>1. todo # {} => First(todo) \in todo /\ First(todo) \in Issues
    BY FirstIn DEF TickInv, TypeOK, LocalsOK
  <1>2. todo \ {First(todo)} \subseteq Issues
    BY DEF TickInv, TypeOK, LocalsOK
  <1>3. CASE BeginDrive
    <2>1. RowsOK' /\ TrackerOK' /\ AnswerRidesTerminal' /\ ClosedIsDelivered'
      BY <1>3 DEF TickInv, TypeOK, BeginDrive, RowsOK, TrackerOK, AnswerRidesTerminal,
         ClosedIsDelivered, tracker, answers
    <2>2. LocalsOK'
      BY <1>3 DEF TickInv, TypeOK, BeginDrive, LocalsOK, PCs, sweepLocals
    <2>3. InHand'
      BY <1>3 DEF BeginDrive, InHand
    <2>4. ListIsCurrent'
      BY <1>3 DEF BeginDrive, ListIsCurrent
    <2>5. HandIsCurrent'
      BY <1>3 DEF BeginDrive, HandIsCurrent
    <2>6. SentIsDelivered'
      BY <1>3 DEF TickInv, BeginDrive, SentIsDelivered, answers
    <2>7. OneDeliveryEach'
      BY <1>3 DEF TickInv, BeginDrive, OneDeliveryEach, Settled, answers
    <2>8. SweepIsCapped'
      BY <1>3 DEF TickInv, BeginDrive, SweepIsCapped, InFlight, sweepLocals
    <2>9. ApprovalIsHuman'
      BY <1>3 DEF TickInv, BeginDrive, ApprovalIsHuman, tracker
    <2> QED BY <2>1, <2>2, <2>3, <2>4, <2>5, <2>6, <2>7, <2>8, <2>9 DEF TickInv, TypeOK
  <1>4. CASE DriveIssue
    <2>1. RowsOK' /\ TrackerOK' /\ AnswerRidesTerminal' /\ ClosedIsDelivered'
      BY <1>4 DEF TickInv, TypeOK, DriveIssue, RowsOK, TrackerOK, AnswerRidesTerminal,
         ClosedIsDelivered, tracker, answers
    <2>2. LocalsOK'
      BY <1>4 DEF TickInv, TypeOK, DriveIssue, LocalsOK, PCs, sweepLocals
    <2>3. InHand'
      BY <1>1, <1>4 DEF DriveIssue, InHand
    <2>4. ListIsCurrent'
      BY <1>4 DEF TickInv, DriveIssue, ListIsCurrent
    <2>5. HandIsCurrent'
      BY <1>1, <1>4 DEF TickInv, DriveIssue, ListIsCurrent, HandIsCurrent
    <2>6. SentIsDelivered'
      BY <1>4 DEF TickInv, DriveIssue, SentIsDelivered, answers
    <2>7. OneDeliveryEach'
      BY <1>4 DEF TickInv, DriveIssue, OneDeliveryEach, Settled, answers
    <2>8. SweepIsCapped'
      BY <1>4 DEF TickInv, DriveIssue, SweepIsCapped, InFlight, sweepLocals
    <2>9. ApprovalIsHuman'
      BY <1>4 DEF TickInv, DriveIssue, ApprovalIsHuman, tracker
    <2> QED BY <2>1, <2>2, <2>3, <2>4, <2>5, <2>6, <2>7, <2>8, <2>9 DEF TickInv, TypeOK
  <1>5. CASE Work
    <2>1. TrackerOK' /\ LocalsOK' /\ InHand' /\ SentIsDelivered' /\ SweepIsCapped' /\
          ClosedIsDelivered'
      BY <1>5 DEF TickInv, TypeOK, Work, TrackerOK, LocalsOK, InHand, SentIsDelivered,
         SweepIsCapped, ClosedIsDelivered, InFlight, tracker, answers, sweepLocals
    <2>2. RowsOK'
      BY <1>5 DEF TickInv, TypeOK, Work, RowsOK, Stages, answers
    <2>3. AnswerRidesTerminal'
      BY <1>5 DEF TickInv, Work, AnswerRidesTerminal, answers, is_terminal
    <2>4. ListIsCurrent'
      BY <1>5 DEF TickInv, Work, InHand, ListIsCurrent
    <2>5. HandIsCurrent'
      BY <1>5 DEF Work, HandIsCurrent
    <2>6. OneDeliveryEach'
      BY <1>5 DEF TickInv, Work, OneDeliveryEach, Settled, answers
    <2>7. ApprovalIsHuman'
      BY <1>5 DEF TickInv, Work, ApprovalIsHuman, tracker
    <2> QED BY <2>1, <2>2, <2>3, <2>4, <2>5, <2>6, <2>7 DEF TickInv, TypeOK
  <1>6. CASE EndIssue
    <2>1. TrackerOK' /\ ClosedIsDelivered'
      BY <1>6 DEF TickInv, TypeOK, EndIssue, TrackerOK, ClosedIsDelivered, tracker, answers
    <2>2. RowsOK'
      BY <1>6 DEF TickInv, TypeOK, EndIssue, RowsOK, Stages, answers
    <2>3. LocalsOK'
      BY <1>6 DEF TickInv, TypeOK, EndIssue, LocalsOK, PCs, sweepLocals
    <2>4. InHand'
      BY <1>6 DEF TickInv, EndIssue, InHand
    <2>5. AnswerRidesTerminal'
      BY <1>6 DEF TickInv, TypeOK, EndIssue, RowsOK, AnswerRidesTerminal, HandIsCurrent,
         answers, is_terminal
    <2>6. ListIsCurrent'
      BY <1>6 DEF TickInv, TypeOK, EndIssue, RowsOK, LocalsOK, InHand, ListIsCurrent
    <2>7. HandIsCurrent'
      <3>1. pc = "driving" /\ cur \in Issues /\ stage \in [Issues -> Stages]
        BY <1>6 DEF TickInv, TypeOK, EndIssue, RowsOK, InHand
      <3>2. substate[cur] = None
        BY <3>1 DEF TickInv, AnswerRidesTerminal, HandIsCurrent, is_terminal
      <3>3. pc' = "drive" \/ (pc' = "arm" /\ is_terminal(stage'[cur]))
        BY <1>6, <3>1 DEF EndIssue, is_terminal
      <3> QED BY <1>6, <3>2, <3>3 DEF EndIssue, HandIsCurrent, answers
    <2>8. SentIsDelivered'
      BY <1>6 DEF TickInv, EndIssue, SentIsDelivered, answers
    <2>9. OneDeliveryEach'
      BY <1>6 DEF TickInv, TypeOK, EndIssue, RowsOK, HandIsCurrent, OneDeliveryEach,
         Settled, answers
    <2>10. SweepIsCapped'
      BY <1>6 DEF TickInv, EndIssue, SweepIsCapped, InFlight, sweepLocals
    <2>11. ApprovalIsHuman'
      BY <1>6 DEF TickInv, TypeOK, EndIssue, RowsOK, HandIsCurrent, ApprovalIsHuman, tracker
    <2> QED BY <2>1, <2>2, <2>3, <2>4, <2>5, <2>6, <2>7, <2>8, <2>9, <2>10, <2>11
            DEF TickInv, TypeOK
  <1>7. CASE Arm
    <2>1. TrackerOK' /\ ClosedIsDelivered'
      BY <1>7 DEF TickInv, TypeOK, Arm, TrackerOK, ClosedIsDelivered, tracker
    <2>2. RowsOK'
      BY <1>7 DEF TickInv, TypeOK, Arm, RowsOK, AnswerSubstate, set_phase_substate
    <2>3. LocalsOK'
      BY <1>7 DEF TickInv, TypeOK, Arm, LocalsOK, PCs, sweepLocals
    <2>4. InHand'
      BY <1>7 DEF Arm, InHand
    <2>5. AnswerRidesTerminal'
      BY <1>7 DEF TickInv, TypeOK, Arm, RowsOK, AnswerRidesTerminal, HandIsCurrent,
         set_phase_substate
    <2>6. ListIsCurrent'
      BY <1>7 DEF TickInv, Arm, ListIsCurrent
    <2>7. HandIsCurrent'
      BY <1>7 DEF Arm, HandIsCurrent
    <2>8. SentIsDelivered'
      BY <1>7 DEF TickInv, TypeOK, Arm, RowsOK, SentIsDelivered, set_phase_substate
    <2>9. OneDeliveryEach'
      BY <1>7 DEF TickInv, TypeOK, Arm, RowsOK, OneDeliveryEach, Settled, None,
         set_phase_substate
    <2>10. SweepIsCapped'
      BY <1>7 DEF TickInv, Arm, SweepIsCapped, InFlight, sweepLocals
    <2>11. ApprovalIsHuman'
      BY <1>7 DEF TickInv, Arm, ApprovalIsHuman, tracker
    <2> QED BY <2>1, <2>2, <2>3, <2>4, <2>5, <2>6, <2>7, <2>8, <2>9, <2>10, <2>11
            DEF TickInv, TypeOK
  <1>8. CASE ForgetFails
    <2>1. TrackerOK' /\ InHand' /\ AnswerRidesTerminal' /\ ClosedIsDelivered'
      BY <1>8 DEF TickInv, TypeOK, ForgetFails, TrackerOK, InHand, AnswerRidesTerminal,
         ClosedIsDelivered, tracker, answers
    <2>2. RowsOK'
      BY <1>8 DEF TickInv, TypeOK, ForgetFails, RowsOK, InHand, answers
    <2>3. LocalsOK'
      <3>1. faults' \in Nat
        BY <1>8 DEF ForgetFails, TickInv, TypeOK, LocalsOK
      <3> QED BY <1>8, <3>1 DEF ForgetFails, TickInv, TypeOK, LocalsOK, sweepLocals
    <2>4. ListIsCurrent' /\ HandIsCurrent'
      BY <1>8 DEF TickInv, ForgetFails, ListIsCurrent, HandIsCurrent, tracker, answers
    <2>5. SentIsDelivered'
      BY <1>8 DEF TickInv, ForgetFails, SentIsDelivered, answers
    <2>6. OneDeliveryEach'
      BY <1>8 DEF TickInv, TypeOK, ForgetFails, RowsOK, LocalsOK, OneDeliveryEach, answers
    <2>7. SweepIsCapped'
      BY <1>8 DEF TickInv, TypeOK, ForgetFails, LocalsOK, SweepIsCapped, InFlight, sweepLocals
    <2>8. ApprovalIsHuman'
      BY <1>8 DEF TickInv, ForgetFails, ApprovalIsHuman, tracker
    <2> QED BY <2>1, <2>2, <2>3, <2>4, <2>5, <2>6, <2>7, <2>8 DEF TickInv, TypeOK
  <1> QED BY <1>3, <1>4, <1>5, <1>6, <1>7, <1>8

\* Landing what was approved: the answer substate is wiped, and queued
\* again only if an answer was owed.
LEMMA ResumeKeepsInv ==
  ASSUME TickInv,
         BeginResume \/ ResumeApprovedInbound \/ LandApproved \/ Rearm
  PROVE  TickInv'
  <1> USE DEF rounds
  <1>1. todo # {} => First(todo) \in todo /\ First(todo) \in Issues
    BY FirstIn DEF TickInv, TypeOK, LocalsOK
  <1>2. todo \ {First(todo)} \subseteq Issues
    BY DEF TickInv, TypeOK, LocalsOK
  <1>3. CASE BeginResume
    <2>1. RowsOK' /\ TrackerOK' /\ AnswerRidesTerminal' /\ ClosedIsDelivered'
      BY <1>3 DEF TickInv, TypeOK, BeginResume, RowsOK, TrackerOK, AnswerRidesTerminal,
         ClosedIsDelivered, tracker, answers
    <2>2. LocalsOK'
      BY <1>3 DEF TickInv, TypeOK, BeginResume, LocalsOK, PCs, sweepLocals
    <2>3. InHand'
      BY <1>3 DEF BeginResume, InHand
    <2>4. ListIsCurrent'
      BY <1>3 DEF BeginResume, ListIsCurrent
    <2>5. HandIsCurrent'
      BY <1>3 DEF BeginResume, HandIsCurrent
    <2>6. SentIsDelivered'
      BY <1>3 DEF TickInv, BeginResume, SentIsDelivered, answers
    <2>7. OneDeliveryEach'
      BY <1>3 DEF TickInv, BeginResume, OneDeliveryEach, Settled, answers
    <2>8. SweepIsCapped'
      BY <1>3 DEF TickInv, BeginResume, SweepIsCapped, InFlight, sweepLocals
    <2>9. ApprovalIsHuman'
      BY <1>3 DEF TickInv, BeginResume, ApprovalIsHuman, tracker
    <2> QED BY <2>1, <2>2, <2>3, <2>4, <2>5, <2>6, <2>7, <2>8, <2>9 DEF TickInv, TypeOK
  <1>4. CASE ResumeApprovedInbound
    <2>1. RowsOK' /\ TrackerOK' /\ AnswerRidesTerminal' /\ ClosedIsDelivered'
      BY <1>4 DEF TickInv, TypeOK, ResumeApprovedInbound, RowsOK, TrackerOK,
         AnswerRidesTerminal, ClosedIsDelivered, tracker, answers
    <2>2. LocalsOK'
      <3>1. owed' \in BOOLEAN
        <4>1. CASE approved[First(todo)]
          <5>1. owed' = (substate[First(todo)] \in Undelivered)
            BY <1>4, <4>1 DEF ResumeApprovedInbound, Undelivered
          <5> QED BY <5>1
        <4>2. CASE ~ approved[First(todo)]
          BY <1>4, <4>2 DEF ResumeApprovedInbound, TickInv, TypeOK, LocalsOK
        <4> QED BY <4>1, <4>2
      <3>2. pc' \in PCs
        BY <1>4 DEF ResumeApprovedInbound, TickInv, TypeOK, LocalsOK, PCs
      <3> QED BY <1>2, <1>4, <3>1, <3>2
              DEF ResumeApprovedInbound, TickInv, TypeOK, LocalsOK, sweepLocals
    <2>3. InHand'
      BY <1>1, <1>4 DEF ResumeApprovedInbound, InHand
    <2>4. ListIsCurrent'
      BY <1>4 DEF TickInv, ResumeApprovedInbound, ListIsCurrent
    <2>5. HandIsCurrent'
      <3>1. CASE approved[First(todo)]
        <4>1. cur' = First(todo) /\ pc' = "land" /\ owed' = (substate[First(todo)] \in Undelivered)
          BY <1>4, <3>1 DEF ResumeApprovedInbound, Undelivered
        <4>2. stage[First(todo)] = "parked"
          BY <1>1, <1>4 DEF TickInv, ListIsCurrent, ResumeApprovedInbound
        <4>3. stage' = stage /\ substate' = substate /\ approved' = approved
          BY <1>4 DEF ResumeApprovedInbound, answers, tracker
        <4> QED BY <3>1, <4>1, <4>2, <4>3 DEF HandIsCurrent, Undelivered
      <3>2. CASE ~ approved[First(todo)]
        BY <1>4, <3>2 DEF ResumeApprovedInbound, HandIsCurrent
      <3> QED BY <3>1, <3>2
    <2>6. SentIsDelivered'
      BY <1>4 DEF TickInv, ResumeApprovedInbound, SentIsDelivered, answers
    <2>7. OneDeliveryEach'
      BY <1>4 DEF TickInv, ResumeApprovedInbound, OneDeliveryEach, Settled, answers
    <2>8. SweepIsCapped'
      BY <1>4 DEF TickInv, ResumeApprovedInbound, SweepIsCapped, InFlight, sweepLocals
    <2>9. ApprovalIsHuman'
      BY <1>4 DEF TickInv, ApprovalIsHuman, ResumeApprovedInbound, tracker
    <2> QED BY <2>1, <2>2, <2>3, <2>4, <2>5, <2>6, <2>7, <2>8, <2>9 DEF TickInv, TypeOK
  <1>5. CASE LandApproved
    <2>1. TrackerOK' /\ ClosedIsDelivered'
      BY <1>5 DEF TickInv, TypeOK, LandApproved, TrackerOK, ClosedIsDelivered, tracker
    <2>2. RowsOK'
      BY <1>5 DEF TickInv, TypeOK, LandApproved, RowsOK, Stages
    <2>3. LocalsOK'
      BY <1>5 DEF TickInv, TypeOK, LandApproved, LocalsOK, PCs, sweepLocals
    <2>4. InHand'
      BY <1>5 DEF TickInv, LandApproved, InHand
    <2>5. AnswerRidesTerminal'
      BY <1>5 DEF TickInv, TypeOK, LandApproved, RowsOK, AnswerRidesTerminal
    <2>6. ListIsCurrent'
      BY <1>5 DEF TickInv, TypeOK, LandApproved, RowsOK, LocalsOK, InHand, ListIsCurrent
    <2>7. HandIsCurrent'
      BY <1>5 DEF TickInv, TypeOK, LandApproved, RowsOK, InHand, HandIsCurrent, tracker,
         None
    <2>8. SentIsDelivered'
      BY <1>5 DEF TickInv, LandApproved, SentIsDelivered, None
    <2>9. OneDeliveryEach'
      BY <1>5 DEF TickInv, TypeOK, LandApproved, RowsOK, HandIsCurrent, OneDeliveryEach,
         Settled
    <2>10. SweepIsCapped'
      BY <1>5 DEF TickInv, LandApproved, SweepIsCapped, InFlight, sweepLocals
    <2>11. ApprovalIsHuman'
      BY <1>5 DEF TickInv, TypeOK, LandApproved, RowsOK, HandIsCurrent, ApprovalIsHuman,
         tracker
    <2> QED BY <2>1, <2>2, <2>3, <2>4, <2>5, <2>6, <2>7, <2>8, <2>9, <2>10, <2>11
            DEF TickInv, TypeOK
  <1>6. CASE Rearm
    <2>1. TrackerOK' /\ ClosedIsDelivered'
      BY <1>6 DEF TickInv, TypeOK, Rearm, TrackerOK, ClosedIsDelivered, tracker
    <2>2. RowsOK'
      BY <1>6 DEF TickInv, TypeOK, Rearm, RowsOK, AnswerSubstate, set_phase_substate
    <2>3. LocalsOK'
      BY <1>6 DEF TickInv, TypeOK, Rearm, LocalsOK, PCs, sweepLocals
    <2>4. InHand'
      BY <1>6 DEF Rearm, InHand
    <2>5. AnswerRidesTerminal'
      BY <1>6 DEF TickInv, Rearm, AnswerRidesTerminal, HandIsCurrent, is_terminal,
         set_phase_substate
    <2>6. ListIsCurrent'
      BY <1>6 DEF TickInv, Rearm, ListIsCurrent
    <2>7. HandIsCurrent'
      BY <1>6 DEF Rearm, HandIsCurrent
    <2>8. SentIsDelivered'
      BY <1>6 DEF TickInv, Rearm, SentIsDelivered, set_phase_substate
    <2>9. OneDeliveryEach'
      BY <1>6 DEF TickInv, Rearm, HandIsCurrent, OneDeliveryEach, Settled, None,
         set_phase_substate
    <2>10. SweepIsCapped'
      BY <1>6 DEF TickInv, Rearm, SweepIsCapped, InFlight, sweepLocals
    <2>11. ApprovalIsHuman'
      BY <1>6 DEF TickInv, Rearm, ApprovalIsHuman, tracker
    <2> QED BY <2>1, <2>2, <2>3, <2>4, <2>5, <2>6, <2>7, <2>8, <2>9, <2>10, <2>11
            DEF TickInv, TypeOK
  <1> QED BY <1>3, <1>4, <1>5, <1>6

\* The answer sweep: only an undelivered answer goes on the wire; one that
\* is counted twice is one a survived error explains.
LEMMA SweepKeepsInv ==
  ASSUME TickInv,
         BeginSweep \/ SkipRetry \/ AttemptDelivery \/ SweepError \/
         RecordUnreachable \/ PostBlocker \/ RecordSent \/ CloseIssue \/ EndSweep
  PROVE  TickInv'
  <1> USE DEF rounds
  <1>1. todo # {} => First(todo) \in todo /\ First(todo) \in Issues
    BY FirstIn DEF TickInv, TypeOK, LocalsOK
  <1>2. todo \ {First(todo)} \subseteq Issues
    BY DEF TickInv, TypeOK, LocalsOK
  <1>3. CASE BeginSweep
    <2>1. RowsOK' /\ TrackerOK' /\ AnswerRidesTerminal' /\ ClosedIsDelivered'
      BY <1>3 DEF TickInv, TypeOK, BeginSweep, RowsOK, TrackerOK, AnswerRidesTerminal,
         ClosedIsDelivered, tracker, answers
    <2>2. LocalsOK'
      BY <1>3 DEF TickInv, TypeOK, BeginSweep, LocalsOK, PCs
    <2>3. InHand'
      BY <1>3 DEF BeginSweep, InHand
    <2>4. ListIsCurrent'
      BY <1>3 DEF BeginSweep, ListIsCurrent, answers, Undelivered
    <2>5. HandIsCurrent'
      BY <1>3 DEF BeginSweep, HandIsCurrent
    <2>6. SentIsDelivered'
      BY <1>3 DEF TickInv, BeginSweep, SentIsDelivered, answers
    <2>7. OneDeliveryEach'
      BY <1>3 DEF TickInv, BeginSweep, OneDeliveryEach, Settled, answers
    <2>8. SweepIsCapped'
      BY <1>3, TickAssumption DEF TickInv, TypeOK, BeginSweep, LocalsOK, SweepIsCapped,
         InFlight
    <2>9. ApprovalIsHuman'
      BY <1>3 DEF TickInv, BeginSweep, ApprovalIsHuman, tracker
    <2> QED BY <2>1, <2>2, <2>3, <2>4, <2>5, <2>6, <2>7, <2>8, <2>9 DEF TickInv, TypeOK
  <1>4. CASE SkipRetry
    <2>1. RowsOK' /\ TrackerOK' /\ AnswerRidesTerminal' /\ HandIsCurrent' /\
          SentIsDelivered' /\ OneDeliveryEach' /\ SweepIsCapped' /\ ClosedIsDelivered'
      BY <1>4 DEF TickInv, TypeOK, SkipRetry, RowsOK, TrackerOK, AnswerRidesTerminal,
         HandIsCurrent, SentIsDelivered, OneDeliveryEach, SweepIsCapped, ClosedIsDelivered,
         Settled, InFlight, tracker, answers, sweepLocals
    <2>2. LocalsOK'
      BY <1>4 DEF TickInv, TypeOK, SkipRetry, LocalsOK, sweepLocals
    <2>3. InHand'
      BY <1>4 DEF SkipRetry, InHand
    <2>4. ListIsCurrent'
      BY <1>4 DEF TickInv, SkipRetry, ListIsCurrent, answers
    <2>5. ApprovalIsHuman'
      BY <1>4 DEF TickInv, SkipRetry, ApprovalIsHuman, tracker
    <2> QED BY <2>1, <2>2, <2>3, <2>4, <2>5 DEF TickInv, TypeOK
  <1>5. CASE AttemptDelivery
    <2>1. TrackerOK' /\ AnswerRidesTerminal'
      BY <1>5 DEF TickInv, TypeOK, AttemptDelivery, TrackerOK, AnswerRidesTerminal, tracker
    <2>2. RowsOK'
      BY <1>5 DEF TickInv, TypeOK, AttemptDelivery, RowsOK, PeerTakes, NotTaken, ReplyLost,
         Answered, round_trip
    <2>3. LocalsOK'
      BY <1>2, <1>5 DEF TickInv, TypeOK, AttemptDelivery, LocalsOK, PCs, NotTaken,
         ReplyLost, Answered, round_trip
    <2>4. InHand'
      BY <1>1, <1>5 DEF AttemptDelivery, InHand
    <2>5. ListIsCurrent'
      BY <1>5 DEF TickInv, AttemptDelivery, ListIsCurrent, NotTaken, ReplyLost, Answered,
         round_trip
    <2>6. HandIsCurrent'
      BY <1>1, <1>5 DEF TickInv, AttemptDelivery, ListIsCurrent, HandIsCurrent, NotTaken,
         ReplyLost, Answered, round_trip
    <2>7. SentIsDelivered'
      <3>1. \A i \in Issues : delivered'[i] >= delivered[i]
        BY <1>5 DEF TickInv, TypeOK, RowsOK, AttemptDelivery, round_trip, NotTaken,
           ReplyLost, Answered, PeerTakes
      <3>2. pc' = "sent" => delivered'[cur'] > 0
        BY <1>1, <1>5 DEF TickInv, TypeOK, RowsOK, AttemptDelivery, round_trip, NotTaken,
           ReplyLost, Answered, PeerTakes
      <3>3. pc' # "close" /\ substate' = substate
        BY <1>5 DEF AttemptDelivery, round_trip, NotTaken, ReplyLost, Answered
      <3>4. delivered' \in [Issues -> Nat]
        BY <2>2 DEF RowsOK
      <3> QED BY <3>1, <3>2, <3>3, <3>4 DEF SentIsDelivered, TickInv, TypeOK, RowsOK
    <2>8. OneDeliveryEach'
      BY <1>1, <1>5 DEF TickInv, TypeOK, AttemptDelivery, RowsOK, LocalsOK, ListIsCurrent,
         OneDeliveryEach, Settled, Undelivered, None, PeerTakes, NotTaken, ReplyLost,
         Answered, round_trip
    <2>9. SweepIsCapped'
      BY <1>5, TickAssumption DEF TickInv, TypeOK, LocalsOK, SweepIsCapped, InFlight,
         AttemptDelivery, Capped, round_trip, NotTaken, ReplyLost, Answered
    <2>10. ApprovalIsHuman'
      BY <1>5 DEF TickInv, AttemptDelivery, ApprovalIsHuman, tracker, NotTaken, ReplyLost,
         Answered, round_trip
    <2>11. ClosedIsDelivered'
      BY <1>5 DEF TickInv, TypeOK, AttemptDelivery, RowsOK, ClosedIsDelivered, tracker,
         PeerTakes, NotTaken, ReplyLost, Answered, round_trip
    <2> QED BY <2>1, <2>2, <2>3, <2>4, <2>5, <2>6, <2>7, <2>8, <2>9, <2>10, <2>11
            DEF TickInv, TypeOK
  <1>6. CASE SweepError
    <2>1. RowsOK' /\ TrackerOK' /\ AnswerRidesTerminal' /\ ClosedIsDelivered'
      BY <1>6 DEF TickInv, TypeOK, SweepError, RowsOK, TrackerOK, AnswerRidesTerminal,
         ClosedIsDelivered, tracker, answers
    <2>2. LocalsOK'
      BY <1>1, <1>2, <1>6 DEF TickInv, TypeOK, SweepError, LocalsOK, PCs, sweepLocals
    <2>3. InHand'
      BY <1>6 DEF SweepError, InHand
    <2>4. ListIsCurrent'
      BY <1>6 DEF TickInv, SweepError, ListIsCurrent, answers
    <2>5. HandIsCurrent'
      BY <1>6 DEF SweepError, HandIsCurrent
    <2>6. SentIsDelivered'
      BY <1>6 DEF TickInv, SentIsDelivered, SweepError, answers
    <2>7. OneDeliveryEach'
      BY <1>6 DEF TickInv, TypeOK, SweepError, RowsOK, LocalsOK, OneDeliveryEach, answers
    <2>8. SweepIsCapped'
      BY <1>6, TickAssumption DEF TickInv, TypeOK, SweepError, LocalsOK, SweepIsCapped,
         InFlight, sweepLocals
    <2>9. ApprovalIsHuman'
      BY <1>6 DEF TickInv, SweepError, ApprovalIsHuman, tracker
    <2> QED BY <2>1, <2>2, <2>3, <2>4, <2>5, <2>6, <2>7, <2>8, <2>9 DEF TickInv, TypeOK
  <1>7. CASE RecordUnreachable
    <2>1. TrackerOK' /\ ClosedIsDelivered'
      BY <1>7 DEF TickInv, TypeOK, RecordUnreachable, TrackerOK, ClosedIsDelivered, tracker
    <2>2. RowsOK'
      <3>1. cur \in Issues
        BY <1>7 DEF RecordUnreachable, TickInv, InHand
      <3>2. substate' \in [Issues -> AnswerSubstate \cup {None}]
        BY <1>7 DEF TickInv, TypeOK, RowsOK, RecordUnreachable, record_answer_unreachable,
           retire_answer_unreachable, AnswerSubstate
      <3>3. answer_attempts' \in [Issues -> Nat]
        BY <1>7, TickAssumption DEF TickInv, TypeOK, RowsOK, RecordUnreachable,
           record_answer_unreachable, retire_answer_unreachable
      <3>4. due' \in [Issues -> BOOLEAN]
        BY <1>7 DEF TickInv, TypeOK, RowsOK, RecordUnreachable, record_answer_unreachable,
           retire_answer_unreachable
      <3> QED BY <1>7, <3>2, <3>3, <3>4 DEF TickInv, TypeOK, RowsOK, RecordUnreachable
    <2>3. LocalsOK'
      BY <1>7 DEF TickInv, TypeOK, RecordUnreachable, LocalsOK, PCs
    <2>4. InHand'
      BY <1>7 DEF TickInv, RecordUnreachable, InHand
    <2>5. AnswerRidesTerminal'
      BY <1>7 DEF TickInv, TypeOK, RecordUnreachable, RowsOK, AnswerRidesTerminal,
         HandIsCurrent, Undelivered, None, record_answer_unreachable,
         retire_answer_unreachable
    <2>6. ListIsCurrent'
      BY <1>7 DEF TickInv, TypeOK, RecordUnreachable, RowsOK, LocalsOK, InHand,
         ListIsCurrent, record_answer_unreachable, retire_answer_unreachable
    <2>7. HandIsCurrent'
      BY <1>7 DEF RecordUnreachable, HandIsCurrent
    <2>8. SentIsDelivered'
      BY <1>7 DEF TickInv, TypeOK, RecordUnreachable, RowsOK, SentIsDelivered,
         record_answer_unreachable, retire_answer_unreachable
    <2>9. OneDeliveryEach'
      BY <1>7 DEF TickInv, TypeOK, RecordUnreachable, RowsOK, HandIsCurrent,
         OneDeliveryEach, Settled, Undelivered, None, record_answer_unreachable,
         retire_answer_unreachable
    <2>10. SweepIsCapped'
      BY <1>7 DEF TickInv, TypeOK, RecordUnreachable, LocalsOK, SweepIsCapped, InFlight
    <2>11. ApprovalIsHuman'
      BY <1>7 DEF TickInv, RecordUnreachable, ApprovalIsHuman, tracker
    <2> QED BY <2>1, <2>2, <2>3, <2>4, <2>5, <2>6, <2>7, <2>8, <2>9, <2>10, <2>11
            DEF TickInv, TypeOK
  <1>8. CASE PostBlocker
    <2>1. RowsOK' /\ AnswerRidesTerminal' /\ ClosedIsDelivered'
      BY <1>8 DEF TickInv, TypeOK, PostBlocker, RowsOK, AnswerRidesTerminal,
         ClosedIsDelivered, answers
    <2>2. TrackerOK'
      BY <1>8 DEF TickInv, TypeOK, PostBlocker, TrackerOK
    <2>3. LocalsOK'
      BY <1>8 DEF TickInv, TypeOK, PostBlocker, LocalsOK, PCs
    <2>4. InHand'
      BY <1>8 DEF PostBlocker, InHand
    <2>5. ListIsCurrent'
      BY <1>8 DEF TickInv, PostBlocker, ListIsCurrent, answers
    <2>6. HandIsCurrent'
      BY <1>8 DEF PostBlocker, HandIsCurrent
    <2>7. SentIsDelivered'
      BY <1>8 DEF TickInv, PostBlocker, SentIsDelivered, answers
    <2>8. OneDeliveryEach'
      BY <1>8 DEF TickInv, TypeOK, PostBlocker, RowsOK, LocalsOK, OneDeliveryEach, Settled,
         answers
    <2>9. SweepIsCapped'
      BY <1>8, TickAssumption DEF TickInv, TypeOK, PostBlocker, LocalsOK, SweepIsCapped,
         InFlight
    <2>10. ApprovalIsHuman'
      BY <1>8 DEF TickInv, PostBlocker, ApprovalIsHuman
    <2> QED BY <2>1, <2>2, <2>3, <2>4, <2>5, <2>6, <2>7, <2>8, <2>9, <2>10
            DEF TickInv, TypeOK
  <1>9. CASE RecordSent
    <2>1. TrackerOK' /\ ClosedIsDelivered'
      BY <1>9 DEF TickInv, TypeOK, RecordSent, TrackerOK, ClosedIsDelivered, tracker
    <2>2. RowsOK'
      BY <1>9 DEF TickInv, TypeOK, RecordSent, RowsOK, AnswerSubstate, set_phase_substate
    <2>3. LocalsOK'
      BY <1>9 DEF TickInv, TypeOK, RecordSent, LocalsOK, PCs, sweepLocals
    <2>4. InHand'
      BY <1>9 DEF TickInv, RecordSent, InHand
    <2>5. AnswerRidesTerminal'
      BY <1>9 DEF TickInv, RecordSent, AnswerRidesTerminal, HandIsCurrent, Undelivered,
         None, set_phase_substate
    <2>6. ListIsCurrent'
      BY <1>9 DEF TickInv, RecordSent, InHand, ListIsCurrent, set_phase_substate
    <2>7. HandIsCurrent'
      BY <1>9 DEF TickInv, TypeOK, RecordSent, RowsOK, InHand, HandIsCurrent,
         set_phase_substate
    <2>8. SentIsDelivered'
      BY <1>9 DEF TickInv, RecordSent, SentIsDelivered, set_phase_substate
    <2>9. OneDeliveryEach'
      BY <1>9 DEF TickInv, TypeOK, RecordSent, RowsOK, OneDeliveryEach, Settled,
         set_phase_substate
    <2>10. SweepIsCapped'
      BY <1>9 DEF TickInv, RecordSent, SweepIsCapped, InFlight, sweepLocals
    <2>11. ApprovalIsHuman'
      BY <1>9 DEF TickInv, RecordSent, ApprovalIsHuman, tracker
    <2> QED BY <2>1, <2>2, <2>3, <2>4, <2>5, <2>6, <2>7, <2>8, <2>9, <2>10, <2>11
            DEF TickInv, TypeOK
  <1>10. CASE CloseIssue
    <2>1. RowsOK' /\ AnswerRidesTerminal'
      BY <1>10 DEF TickInv, TypeOK, CloseIssue, RowsOK, AnswerRidesTerminal, answers
    <2>2. TrackerOK'
      BY <1>10 DEF TickInv, TypeOK, CloseIssue, TrackerOK, close_issue
    <2>3. LocalsOK'
      BY <1>10 DEF TickInv, TypeOK, CloseIssue, LocalsOK, PCs
    <2>4. InHand'
      BY <1>10 DEF CloseIssue, InHand
    <2>5. ListIsCurrent'
      BY <1>10 DEF TickInv, CloseIssue, ListIsCurrent, answers
    <2>6. HandIsCurrent'
      BY <1>10 DEF CloseIssue, HandIsCurrent
    <2>7. SentIsDelivered'
      BY <1>10 DEF TickInv, CloseIssue, SentIsDelivered, answers
    <2>8. OneDeliveryEach'
      BY <1>10 DEF TickInv, TypeOK, CloseIssue, RowsOK, LocalsOK, OneDeliveryEach, Settled,
         answers
    <2>9. SweepIsCapped'
      BY <1>10, TickAssumption DEF TickInv, TypeOK, CloseIssue, LocalsOK, SweepIsCapped,
         InFlight
    <2>10. ApprovalIsHuman'
      BY <1>10 DEF TickInv, CloseIssue, ApprovalIsHuman
    <2>11. ClosedIsDelivered'
      BY <1>10 DEF TickInv, TypeOK, CloseIssue, TrackerOK, SentIsDelivered,
         ClosedIsDelivered, answers, close_issue
    <2> QED BY <2>1, <2>2, <2>3, <2>4, <2>5, <2>6, <2>7, <2>8, <2>9, <2>10, <2>11
            DEF TickInv, TypeOK
  <1>11. CASE EndSweep
    <2>1. RowsOK' /\ TrackerOK' /\ AnswerRidesTerminal' /\ ClosedIsDelivered'
      BY <1>11 DEF TickInv, TypeOK, EndSweep, RowsOK, TrackerOK, AnswerRidesTerminal,
         ClosedIsDelivered, tracker, answers
    <2>2. LocalsOK'
      BY <1>11 DEF TickInv, TypeOK, EndSweep, LocalsOK, PCs
    <2>3. InHand'
      BY <1>11 DEF EndSweep, InHand
    <2>4. ListIsCurrent'
      BY <1>11 DEF EndSweep, ListIsCurrent
    <2>5. HandIsCurrent'
      BY <1>11 DEF EndSweep, HandIsCurrent
    <2>6. SentIsDelivered'
      BY <1>11 DEF TickInv, EndSweep, SentIsDelivered, answers
    <2>7. OneDeliveryEach'
      BY <1>11 DEF TickInv, EndSweep, OneDeliveryEach, Settled, answers
    <2>8. SweepIsCapped'
      BY <1>11, TickAssumption DEF TickInv, TypeOK, EndSweep, LocalsOK, SweepIsCapped,
         InFlight
    <2>9. ApprovalIsHuman'
      BY <1>11 DEF TickInv, EndSweep, ApprovalIsHuman, tracker
    <2> QED BY <2>1, <2>2, <2>3, <2>4, <2>5, <2>6, <2>7, <2>8, <2>9 DEF TickInv, TypeOK
  <1> QED BY <1>3, <1>4, <1>5, <1>6, <1>7, <1>8, <1>9, <1>10, <1>11

\* A crash and the recovery after it.
LEMMA RecoveryKeepsInv ==
  ASSUME TickInv,
         Crash \/ BeginRecovery \/ RecoverIssue \/ CompleteAnswerClose \/
         EndRecovery
  PROVE  TickInv'
  <1> USE DEF rounds
  <1>1. todo # {} => First(todo) \in todo /\ First(todo) \in Issues
    BY FirstIn DEF TickInv, TypeOK, LocalsOK
  <1>2. todo \ {First(todo)} \subseteq Issues
    BY DEF TickInv, TypeOK, LocalsOK
  <1>3. CASE Crash
    <2>1. TrackerOK' /\ AnswerRidesTerminal' /\ ClosedIsDelivered'
      BY <1>3 DEF TickInv, TypeOK, Crash, TrackerOK, AnswerRidesTerminal,
         ClosedIsDelivered, tracker, answers
    <2>10. RowsOK'
      <3>1. orphans' \subseteq Issues
        BY <1>3 DEF TickInv, TypeOK, Crash, RowsOK, InHand
      <3> QED BY <1>3, <3>1 DEF TickInv, TypeOK, Crash, RowsOK, answers
    <2>2. LocalsOK'
      <3>1. crashes' \in Nat /\ pc' \in PCs
        BY <1>3 DEF Crash, TickInv, TypeOK, LocalsOK, PCs
      <3> QED BY <1>3, <3>1 DEF Crash, TickInv, TypeOK, LocalsOK
    <2>3. InHand'
      BY <1>3 DEF Crash, InHand
    <2>4. ListIsCurrent'
      BY <1>3 DEF Crash, ListIsCurrent
    <2>5. HandIsCurrent'
      BY <1>3 DEF Crash, HandIsCurrent
    <2>6. SentIsDelivered'
      BY <1>3 DEF TickInv, Crash, SentIsDelivered, answers
    <2>7. OneDeliveryEach'
      BY <1>3 DEF TickInv, TypeOK, Crash, RowsOK, LocalsOK, OneDeliveryEach, answers
    <2>8. SweepIsCapped'
      BY <1>3, TickAssumption DEF TickInv, TypeOK, Crash, LocalsOK, SweepIsCapped, InFlight
    <2>9. ApprovalIsHuman'
      BY <1>3 DEF TickInv, Crash, ApprovalIsHuman, tracker
    <2> QED BY <2>1, <2>2, <2>3, <2>4, <2>5, <2>6, <2>7, <2>8, <2>9, <2>10 DEF TickInv, TypeOK
  <1>4. CASE BeginRecovery
    <2>1. RowsOK' /\ TrackerOK' /\ AnswerRidesTerminal' /\ ClosedIsDelivered'
      BY <1>4 DEF TickInv, TypeOK, BeginRecovery, RowsOK, TrackerOK, AnswerRidesTerminal,
         ClosedIsDelivered, tracker, answers
    <2>2. LocalsOK'
      BY <1>4 DEF TickInv, TypeOK, BeginRecovery, LocalsOK, PCs, sweepLocals
    <2>3. InHand'
      BY <1>4 DEF BeginRecovery, InHand
    <2>4. ListIsCurrent'
      BY <1>4 DEF TickInv, BeginRecovery, AnswerRidesTerminal, ListIsCurrent, answers,
         is_terminal, None
    <2>5. HandIsCurrent'
      BY <1>4 DEF BeginRecovery, HandIsCurrent
    <2>6. SentIsDelivered'
      BY <1>4 DEF TickInv, BeginRecovery, SentIsDelivered, answers
    <2>7. OneDeliveryEach'
      BY <1>4 DEF TickInv, BeginRecovery, OneDeliveryEach, Settled, answers
    <2>8. SweepIsCapped'
      BY <1>4 DEF TickInv, BeginRecovery, SweepIsCapped, InFlight, sweepLocals
    <2>9. ApprovalIsHuman'
      BY <1>4 DEF TickInv, BeginRecovery, ApprovalIsHuman, tracker
    <2> QED BY <2>1, <2>2, <2>3, <2>4, <2>5, <2>6, <2>7, <2>8, <2>9 DEF TickInv, TypeOK
  <1>5. CASE RecoverIssue
    <2>1. TrackerOK' /\ SentIsDelivered' /\ SweepIsCapped' /\ ClosedIsDelivered'
      BY <1>5 DEF TickInv, TypeOK, RecoverIssue, TrackerOK, SentIsDelivered, SweepIsCapped,
         ClosedIsDelivered, InFlight, tracker, answers, sweepLocals
    <2>2. RowsOK'
      <3>1. orphans' \subseteq Issues
        BY <1>1, <1>5 DEF TickInv, TypeOK, RecoverIssue, RowsOK
      <3>2. stage' \in [Issues -> Stages]
        BY <1>5 DEF TickInv, TypeOK, RecoverIssue, RowsOK, Stages
      <3> QED BY <1>5, <3>1, <3>2 DEF TickInv, TypeOK, RecoverIssue, RowsOK, answers
    <2>3. LocalsOK'
      BY <1>5 DEF TickInv, TypeOK, LocalsOK, RecoverIssue, sweepLocals
    <2>4. InHand'
      BY <1>5 DEF RecoverIssue, InHand
    <2>5. AnswerRidesTerminal'
      BY <1>5 DEF TickInv, TypeOK, RecoverIssue, RowsOK, AnswerRidesTerminal, answers
    <2>6. ListIsCurrent'
      BY <1>5 DEF TickInv, TypeOK, RecoverIssue, RowsOK, LocalsOK, ListIsCurrent, answers
    <2>7. HandIsCurrent'
      BY <1>5 DEF RecoverIssue, HandIsCurrent
    <2>8. OneDeliveryEach'
      BY <1>5 DEF TickInv, TypeOK, RecoverIssue, RowsOK, OneDeliveryEach, Settled, answers,
         is_terminal
    <2>9. ApprovalIsHuman'
      BY <1>1, <1>5 DEF TickInv, TypeOK, RecoverIssue, RowsOK, ListIsCurrent,
         ApprovalIsHuman, tracker
    <2> QED BY <2>1, <2>2, <2>3, <2>4, <2>5, <2>6, <2>7, <2>8, <2>9 DEF TickInv, TypeOK
  <1>6. CASE CompleteAnswerClose
    <2>1. RowsOK'
      BY <1>6 DEF TickInv, TypeOK, CompleteAnswerClose, RowsOK, Stages
    <2>2. TrackerOK'
      BY <1>6 DEF TickInv, TypeOK, CompleteAnswerClose, TrackerOK, close_issue
    <2>3. LocalsOK'
      BY <1>2, <1>6 DEF TickInv, TypeOK, CompleteAnswerClose, LocalsOK, sweepLocals
    <2>4. InHand'
      BY <1>6 DEF CompleteAnswerClose, InHand
    <2>5. AnswerRidesTerminal'
      BY <1>6 DEF TickInv, TypeOK, CompleteAnswerClose, RowsOK, AnswerRidesTerminal
    <2>6. ListIsCurrent'
      BY <1>6 DEF TickInv, TypeOK, CompleteAnswerClose, RowsOK, LocalsOK, ListIsCurrent
    <2>7. HandIsCurrent'
      BY <1>6 DEF CompleteAnswerClose, HandIsCurrent
    <2>8. SentIsDelivered'
      BY <1>6 DEF TickInv, TypeOK, CompleteAnswerClose, RowsOK, SentIsDelivered, None
    <2>9. OneDeliveryEach'
      BY <1>6 DEF TickInv, TypeOK, CompleteAnswerClose, RowsOK, LocalsOK, OneDeliveryEach,
         Settled
    <2>10. SweepIsCapped'
      BY <1>6 DEF TickInv, TypeOK, CompleteAnswerClose, LocalsOK, SweepIsCapped, InFlight,
         sweepLocals
    <2>11. ApprovalIsHuman'
      BY <1>1, <1>6 DEF TickInv, TypeOK, CompleteAnswerClose, RowsOK, ListIsCurrent,
         ApprovalIsHuman
    <2>12. ClosedIsDelivered'
      BY <1>1, <1>6 DEF TickInv, TypeOK, CompleteAnswerClose, TrackerOK, ListIsCurrent,
         SentIsDelivered, ClosedIsDelivered, close_issue
    <2> QED BY <2>1, <2>2, <2>3, <2>4, <2>5, <2>6, <2>7, <2>8, <2>9, <2>10, <2>11, <2>12
            DEF TickInv, TypeOK
  <1>7. CASE EndRecovery
    <2>1. RowsOK' /\ TrackerOK' /\ AnswerRidesTerminal' /\ ClosedIsDelivered'
      BY <1>7 DEF TickInv, TypeOK, EndRecovery, RowsOK, TrackerOK, AnswerRidesTerminal,
         ClosedIsDelivered, tracker, answers
    <2>2. LocalsOK'
      BY <1>7 DEF TickInv, TypeOK, EndRecovery, LocalsOK, PCs, sweepLocals
    <2>3. InHand'
      BY <1>7 DEF EndRecovery, InHand
    <2>4. ListIsCurrent'
      BY <1>7 DEF EndRecovery, ListIsCurrent
    <2>5. HandIsCurrent'
      BY <1>7 DEF EndRecovery, HandIsCurrent
    <2>6. SentIsDelivered'
      BY <1>7 DEF TickInv, EndRecovery, SentIsDelivered, answers
    <2>7. OneDeliveryEach'
      BY <1>7 DEF TickInv, EndRecovery, OneDeliveryEach, Settled, answers
    <2>8. SweepIsCapped'
      BY <1>7 DEF TickInv, EndRecovery, SweepIsCapped, InFlight, sweepLocals
    <2>9. ApprovalIsHuman'
      BY <1>7 DEF TickInv, EndRecovery, ApprovalIsHuman, tracker
    <2> QED BY <2>1, <2>2, <2>3, <2>4, <2>5, <2>6, <2>7, <2>8, <2>9 DEF TickInv, TypeOK
  <1> QED BY <1>3, <1>4, <1>5, <1>6, <1>7

\* The world around the orchestrator.
LEMMA EnvironmentKeepsInv ==
  ASSUME TickInv, NEW i \in Issues,
         Graph(i) \/ Approve(i) \/ RetryDue(i)
  PROVE  TickInv'
  <1> USE DEF rounds
  <1>1. todo # {} => First(todo) \in todo
    BY FirstIn DEF TickInv, TypeOK, LocalsOK
  <1>2. CASE Graph(i)
    <2>1. RowsOK' /\ LocalsOK' /\ InHand' /\ AnswerRidesTerminal' /\ ListIsCurrent' /\
          HandIsCurrent' /\ SentIsDelivered' /\ OneDeliveryEach' /\ SweepIsCapped' /\
          ApprovalIsHuman' /\ ClosedIsDelivered'
      BY <1>2 DEF TickInv, TypeOK, Graph, RowsOK, LocalsOK, InHand, AnswerRidesTerminal,
         ListIsCurrent, HandIsCurrent, SentIsDelivered, OneDeliveryEach, SweepIsCapped,
         ApprovalIsHuman, ClosedIsDelivered, Settled, InFlight, answers, sweepLocals
    <2>2. TrackerOK'
      BY <1>2 DEF TickInv, TypeOK, Graph, TrackerOK
    <2> QED BY <2>1, <2>2 DEF TickInv, TypeOK
  <1>3. CASE Approve(i)
    <2>1. RowsOK' /\ LocalsOK' /\ InHand' /\ AnswerRidesTerminal' /\ ListIsCurrent' /\
          SentIsDelivered' /\ OneDeliveryEach' /\ SweepIsCapped' /\ ClosedIsDelivered'
      BY <1>3 DEF TickInv, TypeOK, Approve, RowsOK, LocalsOK, InHand, AnswerRidesTerminal,
         ListIsCurrent, SentIsDelivered, OneDeliveryEach, SweepIsCapped, ClosedIsDelivered,
         Settled, InFlight, answers, sweepLocals
    <2>2. TrackerOK'
      BY <1>3 DEF TickInv, TypeOK, Approve, TrackerOK
    <2>3. HandIsCurrent'
      BY <1>3 DEF TickInv, Approve, HandIsCurrent, answers
    <2>4. ApprovalIsHuman'
      BY <1>1, <1>3 DEF TickInv, TypeOK, TrackerOK, ApprovalIsHuman, Approve, ListIsCurrent
    <2> QED BY <2>1, <2>2, <2>3, <2>4 DEF TickInv, TypeOK
  <1>4. CASE RetryDue(i)
    <2>1. TrackerOK' /\ LocalsOK' /\ InHand' /\ AnswerRidesTerminal' /\ ListIsCurrent'
          /\ HandIsCurrent' /\ SentIsDelivered' /\ OneDeliveryEach' /\ SweepIsCapped' /\
          ApprovalIsHuman' /\ ClosedIsDelivered'
      BY <1>4 DEF TickInv, TypeOK, RetryDue, TrackerOK, LocalsOK, InHand,
         AnswerRidesTerminal, ListIsCurrent, HandIsCurrent, SentIsDelivered,
         OneDeliveryEach, SweepIsCapped, ApprovalIsHuman, ClosedIsDelivered, Settled,
         InFlight, tracker, sweepLocals
    <2>2. RowsOK'
      BY <1>4 DEF TickInv, TypeOK, RetryDue, RowsOK
    <2> QED BY <2>1, <2>2 DEF TickInv, TypeOK
  <1> QED BY <1>2, <1>3, <1>4

\* Every step of the tick keeps the invariant.
LEMMA TickInvStep == TickInv /\ [Next]_vars => TickInv'
  <1> SUFFICES ASSUME TickInv, [Next]_vars PROVE TickInv'
    OBVIOUS
  <1>1. CASE Orchestrator
    BY <1>1, IngestKeepsInv, DriveKeepsInv, ResumeKeepsInv, SweepKeepsInv, RecoveryKeepsInv
    DEF Orchestrator
  <1>2. CASE Crash
    BY <1>2, RecoveryKeepsInv
  <1>3. ASSUME NEW i \in Issues, Graph(i) \/ Approve(i) \/ RetryDue(i)
        PROVE  TickInv'
    BY <1>3, EnvironmentKeepsInv
  <1>4. CASE UNCHANGED vars
    <2>1. TypeOK' /\ InHand' /\ AnswerRidesTerminal' /\ ApprovalIsHuman' /\ ClosedIsDelivered'
      BY <1>4 DEF TickInv, TypeOK, RowsOK, TrackerOK, LocalsOK, InHand,
         AnswerRidesTerminal, ApprovalIsHuman, ClosedIsDelivered, vars, answers, tracker,
         rounds, sweepLocals
    <2>2. ListIsCurrent' /\ HandIsCurrent' /\ SentIsDelivered'
      BY <1>4 DEF TickInv, ListIsCurrent, HandIsCurrent, SentIsDelivered, vars, answers,
         tracker
    <2>3. OneDeliveryEach' /\ SweepIsCapped'
      BY <1>4 DEF TickInv, OneDeliveryEach, Settled, SweepIsCapped, InFlight, vars,
         answers, sweepLocals
    <2> QED BY <2>1, <2>2, <2>3 DEF TickInv
  <1> QED BY <1>1, <1>2, <1>3, <1>4 DEF Next

\* The inductive invariant holds in every behaviour.
THEOREM TickInvariant == Spec => []TickInv
  BY TickInvInit, TickInvStep, PTL DEF Spec

-----------------------------------------------------------------------------
(* What a peer gets. *)

\* The tracker shows an issue closed only if its peer has the answer
\* (record_success, complete_answer_close).
THEOREM ClosedOnlyIfDelivered == Spec => []ClosedIsDelivered
  <1>1. TickInv => ClosedIsDelivered
    BY DEF TickInv
  <1> QED BY <1>1, TickInvariant, PTL

\* No sequence of parking, approving, landing and retrying sends an answer
\* twice: every delivery but one is explained by a crash or a survived error
\* of its own (resume_approved_inbound, record_success, classify_wire_error).
THEOREM AnsweredAtMostOnce == Spec => []DeliveredOnce
  <1>1. TickInv => DeliveredOnce
    <2> SUFFICES ASSUME TickInv, NEW i \in Issues
                 PROVE  delivered[i] <= 1 + crashes + faults
      BY DEF DeliveredOnce
    <2>1. delivered[i] \in Nat /\ crashes \in Nat /\ faults \in Nat
      BY DEF TickInv, TypeOK, RowsOK, LocalsOK
    <2>2. delivered[i] <= crashes + faults \/ delivered[i] = crashes + faults + 1
      BY DEF TickInv, OneDeliveryEach
    <2> QED BY <2>1, <2>2
  <1> QED BY <1>1, TickInvariant, PTL

\* A sweep makes at most MAX_ANSWER_DELIVERIES_PER_TICK round trips and one
\* more for every survived error: only those go uncounted (run_answer_sweep).
THEOREM WireIsBounded == Spec => [](wire <= MAX_ANSWER_DELIVERIES_PER_TICK + faults)
  <1>1. TickInv => wire <= MAX_ANSWER_DELIVERIES_PER_TICK + faults
    <2> SUFFICES ASSUME TickInv PROVE wire <= MAX_ANSWER_DELIVERIES_PER_TICK + faults
      OBVIOUS
    <2>1. wire \in Nat /\ deliveries \in Nat /\ faults \in Nat /\ InFlight \in Nat
      BY DEF TickInv, TypeOK, LocalsOK, InFlight
    <2> QED BY <2>1, TickAssumption DEF TickInv, SweepIsCapped
  <1> QED BY <1>1, TickInvariant, PTL

\* The survived errors are counted up to their bound.
LEMMA FaultsAreBounded == Spec => [](faults \in 0 .. MaxFaults)
  <1>1. Init => faults \in 0 .. MaxFaults
    BY TickAssumption DEF Init
  <1>2. faults \in 0 .. MaxFaults /\ [Next]_vars => (faults \in 0 .. MaxFaults)'
    <2> SUFFICES ASSUME faults \in 0 .. MaxFaults, [Next]_vars
                 PROVE  faults' \in 0 .. MaxFaults
      OBVIOUS
    <2>1. faults' = faults \/ (faults < MaxFaults /\ faults' = faults + 1)
      <3>1. CASE BeginIngest \/ Sanitize \/ Adopt \/ BeginDrive \/ DriveIssue \/ Work
                   \/ EndIssue \/ Arm \/ BeginResume \/ ResumeApprovedInbound
                   \/ LandApproved \/ Rearm \/ BeginSweep \/ SkipRetry
        BY <3>1 DEF BeginIngest, Sanitize, Adopt, BeginDrive, DriveIssue, Work, EndIssue, Arm,
                    BeginResume, ResumeApprovedInbound, LandApproved, Rearm, BeginSweep,
                    SkipRetry
      <3>2. CASE AttemptDelivery \/ ForgetFails
        BY <3>2 DEF AttemptDelivery, round_trip, NotTaken, ReplyLost, Answered, ForgetFails
      <3>3. CASE SweepError \/ RecordUnreachable \/ PostBlocker \/ RecordSent \/ CloseIssue
                   \/ EndSweep
        BY <3>3 DEF SweepError, RecordUnreachable, PostBlocker, RecordSent, CloseIssue,
                    EndSweep
      <3>4. CASE BeginRecovery \/ RecoverIssue \/ CompleteAnswerClose \/ EndRecovery \/ Crash
        BY <3>4 DEF BeginRecovery, RecoverIssue, CompleteAnswerClose, EndRecovery, Crash
      <3>5. CASE \E i \in Issues : Graph(i) \/ Approve(i) \/ RetryDue(i)
        BY <3>5 DEF Graph, Approve, RetryDue
      <3>6. CASE UNCHANGED vars
        BY <3>6 DEF vars
      <3> QED BY <3>1, <3>2, <3>3, <3>4, <3>5, <3>6 DEF Next, Orchestrator
    <2> QED BY <2>1, TickAssumption
  <1> QED BY <1>1, <1>2, PTL DEF Spec

\* As long as nothing errs, at most MAX_ANSWER_DELIVERIES_PER_TICK issues
\* reach the wire per sweep (answer.rs).
THEOREM FanOutWithoutFaults == ASSUME MaxFaults = 0 PROVE Spec => []FanOut
  <1>1. /\ wire <= MAX_ANSWER_DELIVERIES_PER_TICK + faults
        /\ faults \in 0 .. MaxFaults
        => FanOut
    BY TickAssumption DEF FanOut
  <1> QED BY <1>1, WireIsBounded, FaultsAreBounded, PTL

-----------------------------------------------------------------------------
(* Every issue keeps the lifecycle: Tick implements Lifecycle, issue by     *)
(* issue, under the mapping L of TickProperties.                           *)

\* Every issue starts its lifecycle ready, and without a human's approval.
LEMMA LifecycleStarts == Init => \A i \in Issues : L(i)!Start
  <1> SUFFICES ASSUME Init, NEW i \in Issues PROVE L(i)!Start
    OBVIOUS
  <1> QED BY DEF Init, L!Start

\* Driving: a step of the pump is a step of the lifecycle of the issue it
\* drives.  The gate of the park is the approval, and by then it is a human's.
LEMMA DriveKeepsLifecycle ==
  ASSUME TickInv, Adopt \/ Work \/ EndIssue, NEW i \in Issues
  PROVE  [L(i)!Step]_(L(i)!lifecycle)
  <1>1. CASE Adopt
    <2>1. First(todo) \in todo /\ First(todo) \in Issues
      BY <1>1, FirstIn DEF Adopt, TickInv, TypeOK, LocalsOK
    <2>2. stage[First(todo)] = "untracked"
      BY <1>1, <2>1 DEF Adopt, TickInv, ListIsCurrent
    <2> QED BY <1>1, <2>1, <2>2 DEF Adopt, tracker, L!lifecycle, TickInv, TypeOK, RowsOK
  <1>2. CASE Work
    <2>1. cur \in Issues
      BY <1>2 DEF Work, TickInv, InHand
    <2> QED BY <1>2, <2>1 DEF Work, tracker, L!Step, L!Work, L!lifecycle, TickInv, TypeOK, RowsOK
  <1>3. CASE EndIssue
    <2>1. cur \in Issues /\ stage[cur] \in {"ready", "working"}
      BY <1>3 DEF EndIssue, TickInv, InHand, HandIsCurrent
    <2>2. inbound' = inbound /\ human' = human
      BY <1>3 DEF EndIssue, tracker
    <2>3. approved[cur] <=> human[cur]
      BY <2>1 DEF TickInv, ApprovalIsHuman
    <2>4. CASE i # cur
      BY <1>3, <2>2, <2>4 DEF EndIssue, L!lifecycle, TickInv, TypeOK, RowsOK
    <2>5. CASE i = cur
      <3>1. CASE stage' = [stage EXCEPT ![cur] = "ready"]
        BY <2>1, <2>2, <2>5, <3>1 DEF L!Step, L!Work, TickInv, TypeOK, RowsOK
      <3>2. CASE stage[cur] = "working" /\ inbound[cur] /\ ~ approved[cur]
                   /\ stage' = [stage EXCEPT ![cur] = "parked"]
        BY <2>1, <2>2, <2>5, <3>2 DEF L!Step, L!Park, TickInv, TypeOK, RowsOK
      <3>3. CASE stage[cur] = "working" /\ ~ (inbound[cur] /\ ~ approved[cur])
                   /\ stage' = [stage EXCEPT ![cur] = "landed"]
        BY <2>1, <2>2, <2>3, <2>5, <3>3 DEF L!Step, L!LandIssue, TickInv, TypeOK, RowsOK
      <3>4. CASE stage' = [stage EXCEPT ![cur] = "stopped"]
        BY <2>1, <2>2, <2>5, <3>4 DEF L!Step, L!Stop, TickInv, TypeOK, RowsOK
      <3> QED BY <1>3, <3>1, <3>2, <3>3, <3>4 DEF EndIssue
    <2> QED BY <2>4, <2>5
  <1> QED BY <1>1, <1>2, <1>3

\* Landing an approved issue unparks it first.
LEMMA LandKeepsLifecycle ==
  ASSUME TickInv, LandApproved, NEW i \in Issues
  PROVE  [L(i)!Step]_(L(i)!lifecycle)
  <1>1. cur \in Issues /\ stage[cur] \in {"parked", "working"} /\ approved[cur]
    BY DEF LandApproved, TickInv, InHand, HandIsCurrent
  <1>2. inbound' = inbound /\ human' = human /\ human[cur]
    BY <1>1 DEF LandApproved, tracker, TickInv, TypeOK, TrackerOK, ApprovalIsHuman
  <1>3. CASE i # cur
    BY <1>2, <1>3 DEF LandApproved, L!lifecycle, TickInv, TypeOK, RowsOK
  <1>4. CASE i = cur
    <2>1. CASE stage[cur] = "parked" /\ stage' = [stage EXCEPT ![cur] = "working"]
      BY <1>1, <1>2, <1>4, <2>1 DEF L!Step, L!Unpark, TickInv, TypeOK, RowsOK
    <2>2. CASE stage[cur] = "working" /\ stage' = [stage EXCEPT ![cur] = "landed"]
      BY <1>1, <1>2, <1>4, <2>2 DEF L!Step, L!LandIssue, TickInv, TypeOK, RowsOK
    <2>3. CASE stage' = [stage EXCEPT ![cur] = "stopped"]
      BY <1>1, <1>2, <1>4, <2>3 DEF L!Step, L!Unpark, L!Stop, TickInv, TypeOK, RowsOK
    <2> QED BY <2>1, <2>2, <2>3 DEF LandApproved
  <1> QED BY <1>3, <1>4

\* The tracker errs while complete_answer_close closes the answered issue i:
\* the issue is quarantined.
CloseErrs(i) ==
    /\ pc = "recover" /\ substate[i] = "answer_sent"
    /\ stage'[i] = "stopped" /\ faults' = faults + 1

\* recover_issue finds the change of issue i in a workspace that an earlier
\* crash or a failed forget left, and lands it without asking the gate.
LandsOrphan(i) ==
    pc = "recover" /\ i \in orphans /\ stage[i] = "working" /\ stage'[i] = "landed"

\* A step of every issue's lifecycle, or one of the two exceptions.
KeepsOrErrs ==
    \A i \in Issues : [L(i)!Step]_(L(i)!lifecycle) \/ CloseErrs(i) \/ LandsOrphan(i)

\* Recovery moves only issues that are in flight; what is terminal it closes
\* in the tracker.  What leaves the lifecycle is named: CloseErrs, LandsOrphan.
LEMMA RecoveryKeepsLifecycle ==
  ASSUME TickInv, RecoverIssue \/ CompleteAnswerClose, NEW i \in Issues
  PROVE  [L(i)!Step]_(L(i)!lifecycle) \/ CloseErrs(i) \/ LandsOrphan(i)
  <1> DEFINE c == First(todo)
  <1>1. CASE RecoverIssue
    <2>1. c \in todo /\ c \in Issues
      BY <1>1, FirstIn DEF RecoverIssue, TickInv, TypeOK, LocalsOK
    <2>2. stage[c] \in {"ready", "working"}
      BY <1>1, <2>1 DEF RecoverIssue, is_terminal, TickInv, TypeOK, RowsOK, Stages,
                        ListIsCurrent
    <2>3. inbound' = inbound /\ human' = human /\ (approved[c] <=> human[c])
      BY <1>1, <2>1, <2>2 DEF RecoverIssue, tracker, TickInv, ApprovalIsHuman
    <2> HIDE DEF c
    <2>4. \/ stage' = [stage EXCEPT ![c] = "ready"]
          \/ stage' = [stage EXCEPT ![c] = "stopped"]
          \/ /\ stage[c] = "working" /\ (inbound[c] => approved[c])
             /\ stage' = [stage EXCEPT ![c] = "landed"]
          \/ /\ stage[c] = "working" /\ c \in orphans
             /\ stage' = [stage EXCEPT ![c] = "landed"]
          \/ stage' = stage
      BY <1>1 DEF RecoverIssue, c
    <2>5. CASE i # c
      BY <2>1, <2>3, <2>4, <2>5 DEF L!lifecycle, TickInv, TypeOK, RowsOK
    <2>6. CASE i = c
      <3>1. CASE stage' = [stage EXCEPT ![c] = "ready"]
        BY <2>1, <2>2, <2>3, <2>6, <3>1 DEF L!Step, L!Work, TickInv, TypeOK, RowsOK
      <3>2. CASE stage' = [stage EXCEPT ![c] = "stopped"]
        BY <2>1, <2>2, <2>3, <2>6, <3>2 DEF L!Step, L!Stop, TickInv, TypeOK, RowsOK
      <3>3. CASE /\ stage[c] = "working" /\ (inbound[c] => approved[c])
                 /\ stage' = [stage EXCEPT ![c] = "landed"]
        BY <2>1, <2>3, <2>6, <3>3 DEF L!Step, L!LandIssue, TickInv, TypeOK, RowsOK
      <3>4. CASE stage' = stage
        BY <2>3, <3>4 DEF L!lifecycle
      <3>5. CASE /\ stage[c] = "working" /\ c \in orphans
                 /\ stage' = [stage EXCEPT ![c] = "landed"]
        BY <1>1, <2>1, <2>6, <3>5 DEF LandsOrphan, RecoverIssue, TickInv, TypeOK, RowsOK
      <3> QED BY <2>4, <3>1, <3>2, <3>3, <3>4, <3>5
    <2> QED BY <2>5, <2>6
  <1>2. CASE CompleteAnswerClose
    <2>1. c \in todo /\ c \in Issues
      BY <1>2, FirstIn DEF CompleteAnswerClose, TickInv, TypeOK, LocalsOK
    <2>2. pc = "recover" /\ inbound' = inbound /\ human' = human /\ substate[c] = "answer_sent"
      BY <1>2, <2>1 DEF CompleteAnswerClose, TickInv, ListIsCurrent
    <2> HIDE DEF c
    <2>3. \/ stage' = stage
          \/ faults' = faults + 1 /\ stage' = [stage EXCEPT ![c] = "stopped"]
      BY <1>2 DEF CompleteAnswerClose, c
    <2>4. CASE stage' = stage
      BY <2>2, <2>4 DEF L!lifecycle
    <2>5. CASE i # c
      BY <2>1, <2>2, <2>3, <2>5 DEF L!lifecycle, TickInv, TypeOK, RowsOK
    <2>6. CASE i = c /\ faults' = faults + 1 /\ stage' = [stage EXCEPT ![c] = "stopped"]
      BY <2>1, <2>2, <2>6 DEF CloseErrs, TickInv, TypeOK, RowsOK
    <2> QED BY <2>3, <2>4, <2>5, <2>6
  <1> QED BY <1>1, <1>2

\* Every step of the tick is, for every issue, a step of its lifecycle, none,
\* or one of the two exceptions.
LEMMA StepKeepsLifecycle ==
  ASSUME TickInv, [Next]_vars, NEW i \in Issues
  PROVE  [L(i)!Step]_(L(i)!lifecycle) \/ CloseErrs(i) \/ LandsOrphan(i)
  <1>1. CASE Adopt \/ Work \/ EndIssue
    BY <1>1, DriveKeepsLifecycle
  <1>2. CASE LandApproved
    BY <1>2, LandKeepsLifecycle
  <1>3. CASE RecoverIssue \/ CompleteAnswerClose
    BY <1>3, RecoveryKeepsLifecycle
  <1>4. ASSUME NEW j \in Issues, Approve(j)
        PROVE  [L(i)!Step]_(L(i)!lifecycle)
    <2>1. stage' = stage /\ inbound' = inbound /\ human' = [human EXCEPT ![j] = TRUE]
      BY <1>4 DEF Approve
    <2> QED BY <2>1 DEF L!Step, L!Grant, L!lifecycle, TickInv, TypeOK, TrackerOK
  <1>5. CASE stage' = stage /\ inbound' = inbound /\ human' = human
    BY <1>5 DEF L!lifecycle
  <1>6. CASE BeginIngest \/ Sanitize \/ BeginDrive \/ DriveIssue \/ Arm \/ BeginResume
               \/ ResumeApprovedInbound \/ Rearm \/ ForgetFails
    BY <1>5, <1>6 DEF BeginIngest, Sanitize, BeginDrive, DriveIssue, Arm, BeginResume,
                      ResumeApprovedInbound, Rearm, ForgetFails, tracker
  <1>7. CASE BeginSweep \/ SkipRetry \/ AttemptDelivery \/ SweepError \/ RecordUnreachable
               \/ PostBlocker \/ RecordSent \/ CloseIssue \/ EndSweep
    BY <1>5, <1>7 DEF BeginSweep, SkipRetry, AttemptDelivery, SweepError, RecordUnreachable,
                      PostBlocker, RecordSent, CloseIssue, EndSweep, tracker
  <1>8. CASE Crash \/ BeginRecovery \/ EndRecovery
    BY <1>5, <1>8 DEF Crash, BeginRecovery, EndRecovery, tracker
  <1>9. CASE \E j \in Issues : Graph(j) \/ RetryDue(j)
    BY <1>5, <1>9 DEF Graph, RetryDue, tracker
  <1>10. CASE UNCHANGED vars
    BY <1>5, <1>10 DEF vars, tracker
  <1> QED BY <1>1, <1>2, <1>3, <1>4, <1>6, <1>7, <1>8, <1>9, <1>10 DEF Next, Orchestrator

\* However issues, ticks, crashes and survived errors are interleaved, every
\* step of the process is a step of each issue's lifecycle -- a peer's own
\* approval label lands nothing, and a terminal stage is final -- unless it is
\* one of two steps of recovery: complete_answer_close meets an error, or
\* recover_issue lands what a workspace left over holds.
THEOREM LifecycleUnlessRecoveryErrs ==
  Spec => (\A i \in Issues : L(i)!Start) /\ [][KeepsOrErrs]_vars
  <1>1. TickInv /\ [Next]_vars => [KeepsOrErrs]_vars
    BY StepKeepsLifecycle DEF KeepsOrErrs
  <1> QED BY <1>1, LifecycleStarts, TickInvariant, PTL DEF Spec

\* No orphan is left before the first crash and the first survived error, and
\* what the first crash leaves belongs to an issue that recovery rolls back.
LEMMA OrphansNeedTwoFailures == Spec => []OrphansFollowCrash
  <1>1. Init => OrphansFollowCrash
    BY DEF Init, OrphansFollowCrash
  <1>2. TickInv /\ OrphansFollowCrash /\ [Next]_vars => OrphansFollowCrash'
    <2> SUFFICES ASSUME TickInv, OrphansFollowCrash, [Next]_vars PROVE OrphansFollowCrash'
      OBVIOUS
    <2>1. crashes \in Nat /\ faults \in Nat /\ stage \in [Issues -> Stages]
      BY DEF TickInv, TypeOK, LocalsOK, RowsOK
    <2>2. CASE Crash
      BY <2>1, <2>2 DEF Crash, OrphansFollowCrash
    <2>3. CASE RecoverIssue
      <3> DEFINE c == First(todo)
      <3>1. c \in Issues
        BY <2>3, FirstIn DEF RecoverIssue, TickInv, TypeOK, LocalsOK
      <3>2. pc = "recover" /\ pc' = pc /\ crashes' = crashes /\ faults' = faults /\ crashes > 0
        BY <2>3 DEF RecoverIssue, OrphansFollowCrash
      <3>3. \/ stage' = stage /\ orphans' = orphans
            \/ /\ stage' = [stage EXCEPT ![c] = stage'[c]]
               /\ stage'[c] \in {"ready", "stopped"} /\ orphans' \subseteq orphans \cup {c}
            \/ /\ stage' = [stage EXCEPT ![c] = "landed"] /\ orphans' = orphans
        BY <2>1, <2>3, <3>1 DEF RecoverIssue
      <3> HIDE DEF c
      <3>4. ASSUME crashes <= 1, faults = 0, NEW i \in orphans'
            PROVE  stage'[i] # "working"
        <4>1. CASE i = c
          BY <2>1, <3>1, <3>2, <3>3, <3>4, <4>1 DEF OrphansFollowCrash
        <4>2. CASE i # c
          <5>1. i \in orphans /\ i \in Issues
            BY <3>3, <4>2 DEF TickInv, TypeOK, RowsOK
          <5>2. stage'[i] = stage[i]
            BY <2>1, <3>1, <3>3, <4>2, <5>1
          <5> QED BY <3>2, <3>4, <5>1, <5>2 DEF OrphansFollowCrash
        <4> QED BY <4>1, <4>2
      <3> QED BY <2>1, <3>2, <3>4 DEF OrphansFollowCrash
    <2>4. CASE CompleteAnswerClose
      BY <2>1, <2>4 DEF CompleteAnswerClose, OrphansFollowCrash, rounds
    <2>5. CASE BeginRecovery \/ EndRecovery
      BY <2>5 DEF BeginRecovery, EndRecovery, OrphansFollowCrash, rounds
    <2>6. CASE ForgetFails \/ EndIssue
      BY <2>1, <2>6 DEF ForgetFails, EndIssue, OrphansFollowCrash, rounds
    <2>7. CASE BeginIngest \/ Sanitize \/ Adopt \/ BeginDrive \/ DriveIssue \/ Work \/ Arm
                 \/ BeginResume \/ ResumeApprovedInbound \/ LandApproved \/ Rearm
      BY <2>7 DEF BeginIngest, Sanitize, Adopt, BeginDrive, DriveIssue, Work, Arm, BeginResume,
                  ResumeApprovedInbound, LandApproved, Rearm, OrphansFollowCrash, rounds
    <2>8. CASE BeginSweep \/ SkipRetry \/ RecordUnreachable \/ RecordSent \/ EndSweep
      BY <2>8 DEF BeginSweep, SkipRetry, RecordUnreachable, RecordSent, EndSweep,
                  OrphansFollowCrash, rounds
    <2>9. CASE AttemptDelivery \/ SweepError \/ PostBlocker \/ CloseIssue
      BY <2>1, <2>9 DEF AttemptDelivery, round_trip, NotTaken, ReplyLost, Answered, SweepError,
                        PostBlocker, CloseIssue, OrphansFollowCrash, rounds
    <2>10. CASE \E i \in Issues : Graph(i) \/ Approve(i) \/ RetryDue(i)
      BY <2>10 DEF Graph, Approve, RetryDue, OrphansFollowCrash, rounds
    <2>11. CASE UNCHANGED vars
      BY <2>11 DEF vars, OrphansFollowCrash, rounds
    <2> QED BY <2>2, <2>3, <2>4, <2>5, <2>6, <2>7, <2>8, <2>9, <2>10, <2>11
            DEF Next, Orchestrator
  <1> QED BY <1>1, <1>2, TickInvariant, PTL DEF Spec

\* The crashes are counted up to their bound.
LEMMA CrashesAreBounded == Spec => [](crashes \in 0 .. MaxCrashes)
  <1>1. Init => crashes \in 0 .. MaxCrashes
    BY TickAssumption DEF Init
  <1>2. crashes \in 0 .. MaxCrashes /\ [Next]_vars => (crashes \in 0 .. MaxCrashes)'
    <2> SUFFICES ASSUME crashes \in 0 .. MaxCrashes, [Next]_vars
                 PROVE  crashes' \in 0 .. MaxCrashes
      OBVIOUS
    <2>1. CASE Crash
      BY <2>1, TickAssumption DEF Crash
    <2>2. CASE BeginIngest \/ Sanitize \/ Adopt \/ BeginDrive \/ DriveIssue \/ Work
                 \/ ForgetFails \/ EndIssue \/ Arm \/ BeginResume \/ ResumeApprovedInbound
                 \/ LandApproved \/ Rearm \/ BeginSweep \/ SkipRetry
      BY <2>2 DEF BeginIngest, Sanitize, Adopt, BeginDrive, DriveIssue, Work, ForgetFails,
                  EndIssue, Arm, BeginResume, ResumeApprovedInbound, LandApproved, Rearm,
                  BeginSweep, SkipRetry
    <2>3. CASE AttemptDelivery \/ SweepError \/ RecordUnreachable \/ PostBlocker \/ RecordSent
                 \/ CloseIssue \/ EndSweep \/ BeginRecovery \/ RecoverIssue
                 \/ CompleteAnswerClose \/ EndRecovery
      BY <2>3 DEF AttemptDelivery, SweepError, RecordUnreachable, PostBlocker, RecordSent,
                  CloseIssue, EndSweep, BeginRecovery, RecoverIssue, CompleteAnswerClose,
                  EndRecovery
    <2>4. CASE \E i \in Issues : Graph(i) \/ Approve(i) \/ RetryDue(i)
      BY <2>4 DEF Graph, Approve, RetryDue
    <2>5. CASE UNCHANGED vars
      BY <2>5 DEF vars
    <2> QED BY <2>1, <2>2, <2>3, <2>4, <2>5 DEF Next, Orchestrator
  <1> QED BY <1>1, <1>2, PTL DEF Spec

\* With at most one crash and no survived error neither exception can happen,
\* and the tick implements Lifecycle for every issue.
THEOREM TickImplementsLifecycle ==
  ASSUME MaxFaults = 0, MaxCrashes \in {0, 1}
  PROVE  Spec => KeepsLifecycle
  <1>1. /\ TickInv /\ OrphansFollowCrash /\ [Next]_vars
        /\ faults \in 0 .. MaxFaults /\ (faults \in 0 .. MaxFaults)'
        /\ crashes \in 0 .. MaxCrashes
        => [\A i \in Issues : [L(i)!Step]_(L(i)!lifecycle)]_vars
    <2> SUFFICES ASSUME TickInv, OrphansFollowCrash, [Next]_vars,
                        faults \in 0 .. MaxFaults, faults' \in 0 .. MaxFaults,
                        crashes \in 0 .. MaxCrashes, NEW i \in Issues
                 PROVE  [L(i)!Step]_(L(i)!lifecycle)
      OBVIOUS
    <2>1. faults = 0 /\ faults' = 0 /\ crashes <= 1
      OBVIOUS
    <2>2. ~ CloseErrs(i)
      BY <2>1 DEF CloseErrs
    <2>3. ~ LandsOrphan(i)
      BY <2>1 DEF LandsOrphan, OrphansFollowCrash
    <2> QED BY <2>2, <2>3, StepKeepsLifecycle
  <1> QED BY <1>1, LifecycleStarts, TickInvariant, OrphansNeedTwoFailures, FaultsAreBounded,
             CrashesAreBounded, PTL DEF Spec, KeepsLifecycle
=============================================================================
