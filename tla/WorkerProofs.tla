----------------------------- MODULE WorkerProofs -----------------------------
(***************************************************************************)
(* Machine-checked proofs about one Implementer round, for any number of   *)
(* attempts and crashes, any pipe and capture sizes and any amount of      *)
(* output: the three safety properties of WorkerRound, from its inductive  *)
(* invariant.                                                              *)
(***************************************************************************)
EXTENDS WorkerRound, TLAPS

-----------------------------------------------------------------------------
(* The pane side.  Nothing here looks at the QA gate except for its verdict. *)

PaneInv == HostTypeOK /\ RowAndPane /\ WorkerHasEnded /\ OneLiveWorker

\* The round starts without a worker.
LEMMA PaneInit == HostInit => PaneInv
  <1> SUFFICES ASSUME HostInit PROVE PaneInv
    OBVIOUS
  <1>1. panes = <<>> /\ DOMAIN panes = {}
    BY DEF HostInit
  <1>2. panes \in Seq([live : BOOLEAN, done : BOOLEAN])
    BY DEF HostInit
  <1>3. HostTypeOK
    BY <1>2 DEF HostInit, HostTypeOK
  <1>4. RowAndPane /\ WorkerHasEnded
    BY DEF HostInit, RowAndPane, WorkerHasEnded, Working, Holding
  <1>5. OneLiveWorker
    BY DEF HostInit, OneLiveWorker, LivePanes
  <1> QED BY <1>3, <1>4, <1>5 DEF PaneInv

\* What appending a pane does: it is the row's, and the others stay.
LEMMA NewPane ==
  ASSUME HostTypeOK, NEW p \in [live : BOOLEAN, done : BOOLEAN]
  PROVE  /\ Append(panes, p) \in Seq([live : BOOLEAN, done : BOOLEAN])
         /\ Len(Append(panes, p)) = Len(panes) + 1
         /\ DOMAIN Append(panes, p) = DOMAIN panes \cup {Len(panes) + 1}
         /\ Append(panes, p)[Len(panes) + 1] = p
         /\ \A n \in DOMAIN panes : Append(panes, p)[n] = panes[n]
  <1> DEFINE R == [live : BOOLEAN, done : BOOLEAN]
  <1> HIDE DEF R
  <1>1. panes \in Seq(R) /\ p \in R
    BY DEF HostTypeOK, R
  <1>2. Append(panes, p) \in Seq(R) /\ Len(Append(panes, p)) = Len(panes) + 1
    BY <1>1
  <1>3. /\ DOMAIN Append(panes, p) = 1 .. Len(panes) + 1
        /\ DOMAIN panes = 1 .. Len(panes) /\ Len(panes) \in Nat
    BY <1>1
  <1>4. 1 .. Len(panes) + 1 = (1 .. Len(panes)) \cup {Len(panes) + 1}
    BY <1>3
  <1>5. /\ Append(panes, p)[Len(panes) + 1] = p
        /\ \A n \in DOMAIN panes : Append(panes, p)[n] = panes[n]
    BY <1>1
  <1> QED BY <1>2, <1>3, <1>4, <1>5 DEF R

\* A sequence is a function on 1 .. its length.
LEMMA SeqIsFunction ==
  ASSUME NEW R, NEW s \in Seq(R)
  PROVE  s \in [1 .. Len(s) -> R] /\ Len(s) \in Nat
  OBVIOUS

\* A change in one pane leaves the others as they are.
LEMMA SamePanes ==
  ASSUME HostTypeOK, NEW n \in DOMAIN panes, NEW b \in BOOLEAN
  PROVE  /\ [panes EXCEPT ![n].live = b] \in Seq([live : BOOLEAN, done : BOOLEAN])
         /\ [panes EXCEPT ![n].done = b] \in Seq([live : BOOLEAN, done : BOOLEAN])
         /\ DOMAIN [panes EXCEPT ![n].live = b] = DOMAIN panes
         /\ DOMAIN [panes EXCEPT ![n].done = b] = DOMAIN panes
         /\ Len([panes EXCEPT ![n].live = b]) = Len(panes)
         /\ Len([panes EXCEPT ![n].done = b]) = Len(panes)
         /\ \A m \in DOMAIN panes :
              /\ [panes EXCEPT ![n].live = b][m].live = IF m = n THEN b ELSE panes[m].live
              /\ [panes EXCEPT ![n].done = b][m].live = panes[m].live
  <1> DEFINE R == [live : BOOLEAN, done : BOOLEAN]
  <1> DEFINE L == Len(panes)
  <1> DEFINE live == [panes EXCEPT ![n].live = b]
  <1> DEFINE done == [panes EXCEPT ![n].done = b]
  <1>1. panes \in [1 .. L -> R] /\ L \in Nat
    BY SeqIsFunction DEF HostTypeOK
  <1>2. n \in 1 .. L
    BY <1>1
  <1>3. [panes[n] EXCEPT !.live = b] \in R /\ [panes[n] EXCEPT !.done = b] \in R
    BY <1>1, <1>2
  <1>4. live \in [1 .. L -> R] /\ done \in [1 .. L -> R]
    BY <1>1, <1>3
  <1>5. \A m \in 1 .. L : /\ live[m].live = IF m = n THEN b ELSE panes[m].live
                          /\ done[m].live = panes[m].live
    BY <1>1
  <1> HIDE DEF R, L, live, done
  <1>6. live \in Seq(R) /\ Len(live) = L /\ done \in Seq(R) /\ Len(done) = L
    BY <1>1, <1>4
  <1>7. DOMAIN live = DOMAIN panes /\ DOMAIN done = DOMAIN panes /\ DOMAIN panes = 1 .. L
    BY <1>1, <1>4
  <1> QED BY <1>5, <1>6, <1>7 DEF R, L, live, done

\* Spawning: the new pane is the row's own.
LEMMA SpawnKeepsPanes ==
  ASSUME PaneInv, Register \/ Spawn \/ SpawnFails
  PROVE  PaneInv'
  <1> USE DEF PaneInv
  <1>1. CASE Register
    <2>1. HostTypeOK'
      <3>1. Len(panes) \in Nat
        BY DEF HostTypeOK
      <3> QED BY <1>1, <3>1 DEF Register, HostTypeOK, Working, Holding
    <2>2. RowAndPane'
      BY <1>1 DEF Register, RowAndPane, Working, Holding
    <2>3. WorkerHasEnded'
      BY <1>1 DEF Register, WorkerHasEnded
    <2>4. OneLiveWorker'
      BY <1>1 DEF Register, RowAndPane, OneLiveWorker, LivePanes, Undisturbed
    <2> QED BY <2>1, <2>2, <2>3, <2>4
  <1>2. CASE Spawn
    <2>1. HostTypeOK'
      <3>1. Len(panes) \in Nat /\ row = Len(panes) + 1
        BY <1>2 DEF HostTypeOK, Spawn, RowAndPane
      <3>2. /\ panes' \in Seq([live : BOOLEAN, done : BOOLEAN])
            /\ DOMAIN panes' = DOMAIN panes \cup {row}
        BY <1>2, <3>1, NewPane DEF Spawn
      <3> QED BY <1>2, <3>1, <3>2 DEF Spawn, HostTypeOK, Working, Holding
    <2>2. RowAndPane'
      BY <1>2 DEF Spawn, RowAndPane
    <2>3. WorkerHasEnded'
      BY <1>2 DEF Spawn, WorkerHasEnded
    <2>4. OneLiveWorker'
      <3>1. row = Len(panes) + 1 /\ row \notin removed
        BY <1>2 DEF HostTypeOK, Spawn, RowAndPane
      <3>2. LivePanes' \subseteq LivePanes \cup {row}
        BY <1>2, <3>1, NewPane DEF Spawn, LivePanes
      <3> QED BY <1>2, <3>1, <3>2 DEF Spawn, OneLiveWorker, Undisturbed
    <2> QED BY <2>1, <2>2, <2>3, <2>4
  <1>3. CASE SpawnFails
    <2>1. HostTypeOK'
      <3>1. Len(panes) \in Nat /\ row = Len(panes) + 1
        BY <1>3 DEF HostTypeOK, SpawnFails, RowAndPane
      <3>2. PICK b \in BOOLEAN : panes' = Append(panes, [live |-> b, done |-> FALSE])
        BY <1>3 DEF SpawnFails
      <3>3. /\ panes' \in Seq([live : BOOLEAN, done : BOOLEAN])
            /\ DOMAIN panes' = DOMAIN panes \cup {row}
        BY <3>1, <3>2, NewPane
      <3> QED BY <1>3, <3>1, <3>3 DEF SpawnFails, HostTypeOK, Working, Holding
    <2>2. RowAndPane'
      BY <1>3 DEF SpawnFails, RowAndPane, Holding
    <2>3. WorkerHasEnded'
      BY <1>3 DEF SpawnFails, WorkerHasEnded
    <2>4. OneLiveWorker'
      <3>1. row = Len(panes) + 1
        BY <1>3 DEF HostTypeOK, SpawnFails, RowAndPane
      <3>2. CASE strays' = strays \cup {row}
        BY <3>2 DEF OneLiveWorker, Undisturbed
      <3>3. CASE panes' = Append(panes, [live |-> FALSE, done |-> FALSE]) /\ strays' = strays
        <4>1. LivePanes' = LivePanes
          BY <3>1, <3>3, NewPane DEF LivePanes
        <4>2. LivePanes = {} \/ ~ Undisturbed
          BY <3>1 DEF OneLiveWorker, LivePanes, HostTypeOK
        <4> QED BY <1>3, <3>3, <4>1, <4>2 DEF OneLiveWorker, Undisturbed, SpawnFails
      <3> QED BY <1>3, <3>2, <3>3 DEF SpawnFails
    <2> QED BY <2>1, <2>2, <2>3, <2>4
  <1> QED BY <1>1, <1>2, <1>3

\* Waiting: the handle is dropped only for a pane that is gone, or that the
\* pump leaves as a stray.
LEMMA WaitKeepsPanes ==
  ASSUME PaneInv, WaitPoll \/ WaitCheck \/ CloseExited
  PROVE  PaneInv'
  <1> USE DEF PaneInv
  <1>1. CASE WaitPoll
    <2>1. HostTypeOK'
      BY <1>1 DEF WaitPoll, HostTypeOK, Working, Holding
    <2>2. RowAndPane'
      BY <1>1 DEF WaitPoll, RowAndPane, Working, Holding
    <2>3. WorkerHasEnded'
      BY <1>1 DEF WaitPoll, RowAndPane, Holding, WorkerHasEnded
    <2>4. OneLiveWorker'
      BY <1>1 DEF WaitPoll, OneLiveWorker, LivePanes, Undisturbed
    <2> QED BY <2>1, <2>2, <2>3, <2>4
  <1>2. CASE WaitCheck
    <2>1. HostTypeOK'
      BY <1>2 DEF WaitCheck, HostTypeOK, Working, Holding
    <2>2. RowAndPane'
      <3>1. host \in Working /\ host \in Holding /\ host' \in {"wait", "close", "down"}
        BY <1>2 DEF WaitCheck, Working, Holding
      <3>2. row \in DOMAIN panes /\ handle = row /\ UNCHANGED <<row, panes>>
        BY <1>2, <3>1 DEF WaitCheck, RowAndPane
      <3>3. row \in 0 .. Len(panes) + 1
        BY <3>2 DEF HostTypeOK
      <3>4. host' # "down" => handle' = row
        BY <1>2, <3>2 DEF WaitCheck
      <3>5. "down" \notin Holding
        BY DEF Holding
      <3> QED BY <3>1, <3>2, <3>3, <3>4, <3>5 DEF RowAndPane
    <2>3. WorkerHasEnded'
      BY <1>2 DEF WaitCheck, WorkerHasEnded
    <2>4. OneLiveWorker'
      BY <1>2 DEF WaitCheck, RowAndPane, Holding, OneLiveWorker, LivePanes, Undisturbed
    <2> QED BY <2>1, <2>2, <2>3, <2>4
  <1>3. CASE CloseExited
    <2>1. HostTypeOK'
      BY <1>3 DEF CloseExited, HostTypeOK, Working
    <2>2. RowAndPane'
      BY <1>3 DEF CloseExited, RowAndPane, Working, Holding
    <2>3. WorkerHasEnded'
      BY <1>3 DEF CloseExited, WorkerHasEnded
    <2>4. OneLiveWorker'
      BY <1>3 DEF CloseExited, OneLiveWorker, LivePanes, Undisturbed
    <2> QED BY <2>1, <2>2, <2>3, <2>4
  <1> QED BY <1>1, <1>2, <1>3

\* Closing: the workspace goes once the pane was seen gone, or
\* close_and_wait has given up on it.
LEMMA CloseKeepsPanes ==
  ASSUME PaneInv, Close \/ ClosePoll \/ CloseCheck \/ PoisonTimeout \/ Recover
  PROVE  PaneInv'
  <1> USE DEF PaneInv
  <1>1. CASE Close
    <2>1. HostTypeOK'
      <3>1. handle \in DOMAIN panes
        BY <1>1 DEF RowAndPane, Close, Working, Holding
      <3>2. [panes EXCEPT ![handle].live = FALSE] \in Seq([live : BOOLEAN, done : BOOLEAN])
        BY <3>1, SamePanes
      <3>3. panes' \in Seq([live : BOOLEAN, done : BOOLEAN]) /\ DOMAIN panes' = DOMAIN panes
        BY <1>1, <3>1, <3>2, SamePanes DEF Close, HostTypeOK
      <3> QED BY <1>1, <3>3 DEF Close, HostTypeOK, Working, Holding
    <2>2. RowAndPane'
      BY <1>1 DEF Close, RowAndPane, Working, Holding
    <2>3. WorkerHasEnded'
      BY <1>1 DEF Close, WorkerHasEnded
    <2>4. OneLiveWorker'
      BY <1>1, SamePanes DEF Close, HostTypeOK, OneLiveWorker, LivePanes, Undisturbed
    <2> QED BY <2>1, <2>2, <2>3, <2>4
  <1>2. CASE ClosePoll
    <2>1. HostTypeOK'
      BY <1>2 DEF ClosePoll, HostTypeOK, Working, Holding
    <2>2. RowAndPane'
      BY <1>2 DEF ClosePoll, RowAndPane, Working, Holding
    <2>3. WorkerHasEnded'
      BY <1>2 DEF ClosePoll, WorkerHasEnded
    <2>4. OneLiveWorker'
      BY <1>2 DEF ClosePoll, RowAndPane, Holding, OneLiveWorker, LivePanes, Undisturbed
    <2> QED BY <2>1, <2>2, <2>3, <2>4
  <1>3. CASE CloseCheck
    <2>1. HostTypeOK'
      BY <1>3 DEF CloseCheck, HostTypeOK, Working, Holding
    <2>2. RowAndPane'
      BY <1>3 DEF CloseCheck, RowAndPane, Working, Holding
    <2>3. WorkerHasEnded'
      BY <1>3 DEF CloseCheck, WorkerHasEnded
    <2>4. OneLiveWorker'
      BY <1>3 DEF CloseCheck, HostTypeOK, OneLiveWorker, LivePanes, Undisturbed
    <2> QED BY <2>1, <2>2, <2>3, <2>4
  <1>4. CASE PoisonTimeout
    <2>1. HostTypeOK'
      BY <1>4 DEF PoisonTimeout, HostTypeOK, RowAndPane
    <2>2. RowAndPane'
      BY <1>4 DEF PoisonTimeout, RowAndPane, Working, Holding
    <2>3. WorkerHasEnded'
      BY <1>4 DEF PoisonTimeout, WorkerHasEnded
    <2>4. OneLiveWorker'
      BY <1>4 DEF PoisonTimeout, OneLiveWorker, LivePanes, Undisturbed
    <2> QED BY <2>1, <2>2, <2>3, <2>4
  <1>5. CASE Recover
    <2>1. HostTypeOK'
      <3>1. row \in 0 .. Len(panes) + 1
        BY <1>5 DEF RowAndPane, Recover
      <3>2. panes' \in Seq([live : BOOLEAN, done : BOOLEAN])
        BY <1>5, NewPane DEF Recover, HostTypeOK
      <3>3. DOMAIN panes' = DOMAIN panes \cup ({row} \ {0})
        BY <1>5, <3>1, NewPane DEF Recover, HostTypeOK
      <3> QED BY <1>5, <3>2, <3>3 DEF Recover, HostTypeOK, Working, Holding
    <2>2. RowAndPane'
      BY <1>5 DEF Recover, RowAndPane, Working, Holding
    <2>3. WorkerHasEnded'
      BY <1>5 DEF Recover, WorkerHasEnded
    <2>4. OneLiveWorker'
      BY <1>5 DEF Recover, OneLiveWorker, LivePanes, Undisturbed
    <2> QED BY <2>1, <2>2, <2>3, <2>4
  <1> QED BY <1>1, <1>2, <1>3, <1>4, <1>5

\* QA's side of the round, and the crash.
LEMMA VerdictKeepsPanes ==
  ASSUME PaneInv, VerifyDone \/ AfterQa \/ Crash \/ Expire
  PROVE  PaneInv'
  <1> USE DEF PaneInv
  <1>1. CASE VerifyDone
    <2>1. HostTypeOK'
      BY <1>1 DEF VerifyDone, HostTypeOK, RowAndPane, Working
    <2>2. RowAndPane'
      BY <1>1 DEF VerifyDone, RowAndPane, Working, Holding
    <2>3. WorkerHasEnded'
      BY <1>1 DEF VerifyDone, WorkerHasEnded
    <2>4. OneLiveWorker'
      BY <1>1 DEF VerifyDone, WorkerHasEnded, OneLiveWorker, LivePanes, Undisturbed
    <2> QED BY <2>1, <2>2, <2>3, <2>4
  <1>2. CASE AfterQa
    <2>1. HostTypeOK'
      BY <1>2 DEF AfterQa, HostTypeOK, RowAndPane
    <2>2. RowAndPane'
      BY <1>2 DEF AfterQa, RowAndPane, Working, Holding
    <2>3. WorkerHasEnded'
      BY <1>2 DEF AfterQa, WorkerHasEnded
    <2>4. OneLiveWorker'
      BY <1>2 DEF AfterQa, WorkerHasEnded, OneLiveWorker, LivePanes, Undisturbed
    <2> QED BY <2>1, <2>2, <2>3, <2>4
  <1>3. CASE Crash
    <2>1. HostTypeOK'
      BY <1>3 DEF Crash, HostTypeOK
    <2>2. RowAndPane'
      BY <1>3 DEF Crash, HostTypeOK, RowAndPane, Working, Holding
    <2>3. WorkerHasEnded'
      BY <1>3 DEF Crash, WorkerHasEnded
    <2>4. OneLiveWorker'
      BY <1>3 DEF Crash, HostTypeOK, OneLiveWorker, Undisturbed
    <2> QED BY <2>1, <2>2, <2>3, <2>4
  <1>4. CASE Expire
    <2>1. HostTypeOK'
      BY <1>4 DEF Expire, HostTypeOK
    <2>2. RowAndPane'
      BY <1>4 DEF Expire, RowAndPane
    <2>3. WorkerHasEnded'
      BY <1>4 DEF Expire, WorkerHasEnded
    <2>4. OneLiveWorker'
      BY <1>4 DEF Expire, OneLiveWorker, LivePanes, Undisturbed
    <2> QED BY <2>1, <2>2, <2>3, <2>4
  <1> QED BY <1>1, <1>2, <1>3, <1>4

\* The worker itself: it may write DONE or end at any time.
LEMMA WorkerKeepsPanes ==
  ASSUME PaneInv, NEW n \in DOMAIN panes, WriteDone(n) \/ Exit(n)
  PROVE  PaneInv'
  <1> USE DEF PaneInv
  <1>1. CASE WriteDone(n)
    <2>1. HostTypeOK'
      BY <1>1, SamePanes DEF WriteDone, HostTypeOK
    <2>2. RowAndPane'
      BY <1>1 DEF WriteDone, RowAndPane
    <2>3. WorkerHasEnded'
      BY <1>1 DEF WriteDone, WorkerHasEnded
    <2>4. OneLiveWorker'
      BY <1>1 DEF WriteDone, OneLiveWorker, LivePanes, Undisturbed
    <2> QED BY <2>1, <2>2, <2>3, <2>4
  <1>2. CASE Exit(n)
    <2>1. HostTypeOK'
      BY <1>2, SamePanes DEF Exit, HostTypeOK
    <2>2. RowAndPane'
      BY <1>2 DEF Exit, RowAndPane
    <2>3. WorkerHasEnded'
      BY <1>2 DEF Exit, WorkerHasEnded
    <2>4. OneLiveWorker'
      BY <1>2 DEF Exit, OneLiveWorker, LivePanes, Undisturbed
    <2> QED BY <2>1, <2>2, <2>3, <2>4
  <1> QED BY <1>1, <1>2

\* A call that hangs leaves the panes as they are, or with the row's own.
LEMMA HangKeepsPanes ==
  ASSUME PaneInv, ZellijHangs
  PROVE  PaneInv'
  <1> USE DEF PaneInv
  <1>s. UNCHANGED <<row, removed, strays, crashes, abandoned>> /\ host' = "hung"
    BY DEF ZellijHangs
  <1>1. CASE host = "spawn"
    <2>1. Len(panes) \in Nat /\ row = Len(panes) + 1 /\ row \notin removed
      BY <1>1 DEF HostTypeOK, RowAndPane
    <2>2. PICK live \in BOOLEAN : panes' = Append(panes, [live |-> live, done |-> FALSE])
      BY <1>1 DEF ZellijHangs
    <2>3. /\ panes' \in Seq([live : BOOLEAN, done : BOOLEAN])
          /\ DOMAIN panes' = DOMAIN panes \cup {row}
          /\ \A n \in DOMAIN panes : panes'[n] = panes[n]
      BY <2>1, <2>2, NewPane
    <2>4. HostTypeOK' /\ RowAndPane' /\ WorkerHasEnded'
      BY <1>1, <2>3 DEF ZellijHangs, HostTypeOK, RowAndPane, WorkerHasEnded, Working, Holding
    <2>5. OneLiveWorker'
      <3>1. LivePanes' \subseteq LivePanes \cup {row}
        BY <2>3 DEF LivePanes
      <3> QED BY <1>s, <2>1, <3>1 DEF OneLiveWorker, Undisturbed
    <2> QED BY <2>4, <2>5
  <1>2. CASE host \in {"wait", "exited", "close", "closing"} /\ UNCHANGED panes
    <2>1. HostTypeOK' /\ RowAndPane' /\ WorkerHasEnded'
      BY <1>2 DEF ZellijHangs, HostTypeOK, RowAndPane, WorkerHasEnded, Working, Holding
    <2>2. OneLiveWorker'
      BY <1>s, <1>2 DEF OneLiveWorker, LivePanes, Undisturbed
    <2> QED BY <2>1, <2>2
  <1> QED BY <1>1, <1>2 DEF ZellijHangs

\* Every step of the round keeps the panes in order.
LEMMA PaneStep == PaneInv /\ [Next]_vars => PaneInv'
  <1> SUFFICES ASSUME PaneInv, [Next]_vars PROVE PaneInv'
    OBVIOUS
  <1>1. CASE UNCHANGED worker
    BY <1>1 DEF worker, PaneInv, HostTypeOK, RowAndPane, WorkerHasEnded, OneLiveWorker,
       LivePanes, Undisturbed
  <1>2. CASE HostSteps
    BY <1>2, SpawnKeepsPanes, WaitKeepsPanes, CloseKeepsPanes DEF HostSteps
  <1>3. CASE VerifyDone \/ AfterQa \/ Crash \/ Expire
    BY <1>3, VerdictKeepsPanes
  <1>4. CASE Workers
    BY <1>4, WorkerKeepsPanes DEF Workers
  <1>5. CASE ZellijHangs
    BY <1>5, HangKeepsPanes
  <1> QED BY <1>1, <1>2, <1>3, <1>4, <1>5 DEF Next, Orchestrator, Readers, Clock, vars

-----------------------------------------------------------------------------
(* The QA gate. *)

QaInv == QaTypeOK /\ GateAndChild /\ SilentUntilHandoff /\ VerdictIsFinal

\* No gate, no child, no output.
LEMMA GateInit == QaInit => QaInv
  <1> SUFFICES ASSUME QaInit PROVE QaInv
    OBVIOUS
  <1>1. <<>> \in Seq({"S", "x"})
    OBVIOUS
  <1>2. QaTypeOK
    BY <1>1 DEF QaInit, QaTypeOK, NoChild
  <1>3. GateAndChild /\ SilentUntilHandoff /\ VerdictIsFinal
    BY DEF QaInit, GateAndChild, SilentUntilHandoff, VerdictIsFinal, NoChild
  <1> QED BY <1>2, <1>3 DEF QaInv

\* A reader takes the first unit off its pipe and keeps the last MAX_CAPTURE.
LEMMA DrainKeepsUnits ==
  ASSUME NEW buf \in Seq({"S", "x"}), NEW pipe \in Seq({"S", "x"}), pipe # <<>>
  PROVE  /\ drain_bounded(buf, pipe).buf \in Seq({"S", "x"})
         /\ drain_bounded(buf, pipe).pipe \in Seq({"S", "x"})
  <1>1. Head(pipe) \in {"S", "x"} /\ Tail(pipe) \in Seq({"S", "x"})
    OBVIOUS
  <1>2. Append(buf, Head(pipe)) \in Seq({"S", "x"}) /\ Append(buf, Head(pipe)) # <<>>
    BY <1>1
  <1>3. Tail(Append(buf, Head(pipe))) \in Seq({"S", "x"})
    BY <1>2
  <1> QED BY <1>1, <1>2, <1>3 DEF drain_bounded

\* The child: bubblewrap is silent, and the sentinel comes before the
\* script.
LEMMA ChildKeepsGate ==
  ASSUME QaInv, SandboxFails \/ Handoff \/ ScriptWrites \/ ScriptExits
  PROVE  QaInv'
  <1> USE DEF QaInv
  <1>1. CASE SandboxFails
    <2>1. QaTypeOK'
      BY <1>1 DEF SandboxFails, QaTypeOK
    <2>2. GateAndChild'
      BY <1>1 DEF SandboxFails, GateAndChild
    <2>3. SilentUntilHandoff'
      BY <1>1 DEF SandboxFails, SilentUntilHandoff
    <2>4. VerdictIsFinal'
      BY <1>1 DEF SandboxFails, VerdictIsFinal
    <2> QED BY <2>1, <2>2, <2>3, <2>4
  <1>2. CASE Handoff
    <2>1. QaTypeOK'
      <3>1. /\ [child EXCEPT !.st = "script"] \in
                [st : {"none", "setup", "script", "exited", "signalled"}, code : {0, 1, 101, 127}]
            /\ Append(out, "S") \in Seq({"S", "x"})
        BY DEF QaTypeOK
      <3> QED BY <1>2, <3>1 DEF Handoff, QaTypeOK
    <2>2. GateAndChild'
      BY <1>2 DEF Handoff, GateAndChild
    <2>3. SilentUntilHandoff'
      BY <1>2 DEF Handoff, SilentUntilHandoff, GateAndChild
    <2>4. VerdictIsFinal'
      BY <1>2 DEF Handoff, VerdictIsFinal
    <2> QED BY <2>1, <2>2, <2>3, <2>4
  <1>3. CASE ScriptWrites
    <2>1. QaTypeOK'
      <3> DEFINE U == Seq({"S", "x"})
      <3>1. out \in U /\ err \in U /\ Append(out, "x") \in U /\ Append(err, "x") \in U
        BY DEF QaTypeOK
      <3> HIDE DEF U
      <3>2. out' \in U /\ err' \in U
        BY <1>3, <3>1 DEF ScriptWrites
      <3> QED BY <1>3, <3>2 DEF U, ScriptWrites, QaTypeOK
    <2>2. GateAndChild'
      BY <1>3 DEF ScriptWrites, GateAndChild
    <2>3. SilentUntilHandoff'
      BY <1>3 DEF ScriptWrites, SilentUntilHandoff, GateAndChild
    <2>4. VerdictIsFinal'
      BY <1>3 DEF ScriptWrites, VerdictIsFinal
    <2> QED BY <2>1, <2>2, <2>3, <2>4
  <1>4. CASE ScriptExits
    <2>1. QaTypeOK'
      BY <1>4 DEF ScriptExits, QaTypeOK
    <2>2. GateAndChild'
      BY <1>4 DEF ScriptExits, GateAndChild
    <2>3. SilentUntilHandoff'
      BY <1>4 DEF ScriptExits, SilentUntilHandoff
    <2>4. VerdictIsFinal'
      BY <1>4 DEF ScriptExits, VerdictIsFinal
    <2> QED BY <2>1, <2>2, <2>3, <2>4
  <1> QED BY <1>1, <1>2, <1>3, <1>4

\* The reader threads and the clock.
LEMMA ReadersKeepsGate ==
  ASSUME QaInv, ReadStdout \/ ReadStderr \/ Deadline
  PROVE  QaInv'
  <1> USE DEF QaInv
  <1>1. CASE ReadStdout
    <2>1. QaTypeOK'
      BY <1>1, DrainKeepsUnits DEF ReadStdout, QaTypeOK
    <2>2. GateAndChild'
      BY <1>1 DEF ReadStdout, GateAndChild
    <2>3. SilentUntilHandoff'
      BY <1>1 DEF ReadStdout, SilentUntilHandoff
    <2>4. VerdictIsFinal'
      BY <1>1 DEF ReadStdout, VerdictIsFinal
    <2> QED BY <2>1, <2>2, <2>3, <2>4
  <1>2. CASE ReadStderr
    <2>1. QaTypeOK'
      BY <1>2, DrainKeepsUnits DEF ReadStderr, QaTypeOK
    <2>2. GateAndChild'
      BY <1>2 DEF ReadStderr, GateAndChild
    <2>3. SilentUntilHandoff'
      BY <1>2 DEF ReadStderr, SilentUntilHandoff
    <2>4. VerdictIsFinal'
      BY <1>2 DEF ReadStderr, VerdictIsFinal, HandedOff
    <2> QED BY <2>1, <2>2, <2>3, <2>4
  <1>3. CASE Deadline
    <2>1. QaTypeOK'
      BY <1>3 DEF Deadline, QaTypeOK
    <2>2. GateAndChild'
      BY <1>3 DEF Deadline, GateAndChild
    <2>3. SilentUntilHandoff'
      BY <1>3 DEF Deadline, SilentUntilHandoff
    <2>4. VerdictIsFinal'
      BY <1>3 DEF Deadline, VerdictIsFinal, HandedOff
    <2> QED BY <2>1, <2>2, <2>3, <2>4
  <1> QED BY <1>1, <1>2, <1>3

\* The gate itself: a verdict is reached once, on a child that is reaped
\* and read out.
LEMMA GateKeepsVerdict ==
  ASSUME QaInv, QaUnavailable \/ QaSpawn \/ Poll \/ PollFails \/ Check \/ Judge
  PROVE  QaInv'
  <1> USE DEF QaInv
  <1>1. CASE QaUnavailable
    <2>1. QaTypeOK'
      BY <1>1 DEF QaUnavailable, QaTypeOK
    <2>2. GateAndChild'
      BY <1>1 DEF QaUnavailable, GateAndChild
    <2>3. SilentUntilHandoff'
      BY <1>1 DEF QaUnavailable, SilentUntilHandoff
    <2>4. VerdictIsFinal'
      BY <1>1 DEF QaUnavailable, VerdictIsFinal
    <2> QED BY <2>1, <2>2, <2>3, <2>4
  <1>2. CASE QaSpawn
    <2>1. QaTypeOK'
      <3>1. /\ <<>> \in Seq({"S", "x"})
            /\ child' \in [st : {"none", "setup", "script", "exited", "signalled"},
                          code : {0, 1, 101, 127}]
        BY <1>2 DEF QaSpawn, NoChild
      <3> QED BY <1>2, <3>1 DEF QaSpawn, QaTypeOK
    <2>2. GateAndChild'
      BY <1>2 DEF QaSpawn, GateAndChild
    <2>3. SilentUntilHandoff'
      BY <1>2 DEF QaSpawn, SilentUntilHandoff
    <2>4. VerdictIsFinal'
      BY <1>2 DEF QaSpawn, GateAndChild, VerdictIsFinal
    <2> QED BY <2>1, <2>2, <2>3, <2>4
  <1>3. CASE Poll
    <2>1. QaTypeOK'
      BY <1>3 DEF Poll, QaTypeOK
    <2>2. GateAndChild'
      BY <1>3 DEF Poll, QaTypeOK, GateAndChild, Alive
    <2>3. SilentUntilHandoff'
      BY <1>3 DEF Poll, SilentUntilHandoff
    <2>4. VerdictIsFinal'
      BY <1>3 DEF Poll, VerdictIsFinal, HandedOff
    <2> QED BY <2>1, <2>2, <2>3, <2>4
  <1>4. CASE PollFails
    <2>1. QaTypeOK'
      BY <1>4 DEF PollFails, QaTypeOK
    <2>2. GateAndChild'
      BY <1>4 DEF PollFails, GateAndChild
    <2>3. SilentUntilHandoff'
      BY <1>4 DEF PollFails, SilentUntilHandoff
    <2>4. VerdictIsFinal'
      BY <1>4 DEF PollFails, VerdictIsFinal
    <2> QED BY <2>1, <2>2, <2>3, <2>4
  <1>5. CASE Check
    <2>1. QaTypeOK'
      BY <1>5 DEF Check, QaTypeOK
    <2>2. GateAndChild'
      BY <1>5 DEF Check, GateAndChild
    <2>3. SilentUntilHandoff'
      BY <1>5 DEF Check, SilentUntilHandoff
    <2>4. VerdictIsFinal'
      BY <1>5 DEF Check, VerdictIsFinal, HandedOff
    <2> QED BY <2>1, <2>2, <2>3, <2>4
  <1>6. CASE Judge
    <2>1. QaTypeOK'
      BY <1>6 DEF Judge, QaTypeOK, classify
    <2>2. GateAndChild'
      BY <1>6 DEF Judge, GateAndChild
    <2>3. SilentUntilHandoff'
      BY <1>6 DEF Judge, SilentUntilHandoff
    <2>4. VerdictIsFinal'
      BY <1>6 DEF Judge, QaTypeOK, GateAndChild, SilentUntilHandoff, VerdictIsFinal,
         HandedOff, classify
    <2> QED BY <2>1, <2>2, <2>3, <2>4
  <1> QED BY <1>1, <1>2, <1>3, <1>4, <1>5, <1>6

\* The gate is dropped with the round, or with the orchestrator.
LEMMA ResetKeepsGate ==
  ASSUME QaInv, AfterQa \/ Crash
  PROVE  QaInv'
  <1> USE DEF QaInv
  <1>1. CASE AfterQa
    <2>1. QaTypeOK'
      <3>1. /\ <<>> \in Seq({"S", "x"})
            /\ child' \in [st : {"none", "setup", "script", "exited", "signalled"},
                          code : {0, 1, 101, 127}]
        BY <1>1 DEF AfterQa, NoChild
      <3> QED BY <1>1, <3>1 DEF AfterQa, QaTypeOK
    <2>2. GateAndChild'
      BY <1>1 DEF AfterQa, GateAndChild, NoChild
    <2>3. SilentUntilHandoff'
      BY <1>1 DEF AfterQa, SilentUntilHandoff
    <2>4. VerdictIsFinal'
      BY <1>1 DEF AfterQa, VerdictIsFinal
    <2> QED BY <2>1, <2>2, <2>3, <2>4
  <1>2. CASE Crash
    <2>1. QaTypeOK'
      <3>1. /\ <<>> \in Seq({"S", "x"})
            /\ child' \in [st : {"none", "setup", "script", "exited", "signalled"},
                          code : {0, 1, 101, 127}]
        BY <1>2 DEF Crash, NoChild
      <3> QED BY <1>2, <3>1 DEF Crash, QaTypeOK
    <2>2. GateAndChild'
      BY <1>2 DEF Crash, GateAndChild, NoChild
    <2>3. SilentUntilHandoff'
      BY <1>2 DEF Crash, SilentUntilHandoff
    <2>4. VerdictIsFinal'
      BY <1>2 DEF Crash, VerdictIsFinal
    <2> QED BY <2>1, <2>2, <2>3, <2>4
  <1> QED BY <1>1, <1>2

\* Every step of the round keeps the gate in order.
LEMMA QaStep == QaInv /\ [Next]_vars => QaInv'
  <1> SUFFICES ASSUME QaInv, [Next]_vars PROVE QaInv'
    OBVIOUS
  <1>1. CASE UNCHANGED qa
    BY <1>1 DEF qa, QaInv, QaTypeOK, GateAndChild, SilentUntilHandoff, VerdictIsFinal,
       HandedOff
  <1>2. CASE QaSteps
    BY <1>2, GateKeepsVerdict DEF QaSteps
  <1>3. CASE AfterQa \/ Crash
    BY <1>3, ResetKeepsGate
  <1>4. CASE VerifyDone
    BY <1>1, <1>4 DEF VerifyDone
  <1>5. CASE ReadStdout \/ ReadStderr \/ Deadline
    BY <1>5, ReadersKeepsGate
  <1>6. CASE QaEnvironment
    BY <1>6, ChildKeepsGate DEF QaEnvironment
  <1> QED BY <1>1, <1>2, <1>3, <1>4, <1>5, <1>6 DEF Next, Orchestrator, Readers, Clock, Workers, vars

-----------------------------------------------------------------------------
(* What follows. *)

\* The inductive invariant of the round.
THEOREM WorkerInvariant == Spec => []WorkerInv
  <1>1. Init => PaneInv /\ QaInv
    BY PaneInit, GateInit DEF Init
  <1>2. PaneInv /\ QaInv => WorkerInv
    BY DEF PaneInv, QaInv, WorkerInv
  <1> QED BY <1>1, <1>2, PaneStep, QaStep, PTL DEF Spec

\* A QA failure and a pass are the script's own: it ran to its end with that
\* exit code, and what it wrote begins with the sentinel (QaGate::run, classify).
THEOREM VerdictsAreTheScripts == Spec => []VerdictIsTheScripts
  <1>1. WorkerInv => VerdictIsTheScripts
    BY DEF WorkerInv, VerdictIsFinal, VerdictIsTheScripts, HandedOff
  <1> QED BY <1>1, WorkerInvariant, PTL

\* Without a crash, a close_and_wait that gave up or a stray pane, no workspace
\* is removed under a live worker (close_and_wait, poison_timeout, wait).
THEOREM RemovalsAreQuiet == Spec => []QuietRemoval
  <1>1. WorkerInv => QuietRemoval
    BY DEF WorkerInv, OneLiveWorker, Undisturbed, QuietRemoval
  <1> QED BY <1>1, WorkerInvariant, PTL

\* QA never reads a workspace that a worker still writes to, whatever crashed,
\* gave up or was left behind before (wait, CloseExited, DoneSentinel::verify).
THEOREM QaTreeIsQuiet == Spec => []QaReadsQuietTree
  <1>1. WorkerInv => QaReadsQuietTree
    BY DEF WorkerInv, WorkerHasEnded, QaReadsQuietTree
  <1> QED BY <1>1, WorkerInvariant, PTL
=============================================================================
