--------------------------- MODULE TickProperties ---------------------------
(***************************************************************************)
(* What makes the tick and the answer-back machine correct: every issue    *)
(* keeps the lifecycle, a peer is answered, and once.  Properties the code *)
(* does not have are stated with the doc line that claims them.            *)
(***************************************************************************)
EXTENDS Tick

-----------------------------------------------------------------------------
(* Lifecycle and trust boundary. *)

\* The lifecycle of issue i; the approval that counts is a human's.
L(i) == INSTANCE Lifecycle WITH
            stage <- IF stage[i] = "untracked" THEN "ready" ELSE stage[i],
            inbound <- inbound[i], approved <- human[i]

\* Every issue keeps its lifecycle, however issues, ticks and a crash are
\* interleaved: a peer's own inbound-approved:land never lands its work
\* (sanitize_inbound_labels), and a terminal stage is final (state.rs,
\* is_terminal: neither the drive step nor crash recovery advances it).
\* Refuted by complete_answer_close: if the tracker errs while an answered
\* issue is closed at restart, a merged issue is quarantined; and by a recovery
\* that lands what it finds in an orphan, which takes two crashes, or a crash
\* after a forget that failed.
KeepsLifecycle == /\ \A i \in Issues : L(i)!Start
                  /\ [][\A i \in Issues : [L(i)!Step]_(L(i)!lifecycle)]_vars

-----------------------------------------------------------------------------
(* Answering. *)

\* The tracker shows an issue closed only if its peer has the answer; the
\* orchestrator closes issues in record_success and in complete_answer_close.
ClosedIsDelivered == \A i \in Issues : ~ open[i] => delivered[i] > 0

\* The peer is sent the answer once, across park, approval and merge; only a
\* crash, a state.db error or a lost reply after the peer took it sends it once
\* more (resume_approved_inbound's answer_still_owed, record_success,
\* classify_wire_error).
DeliveredOnce == \A i \in Issues : delivered[i] <= 1 + crashes + faults

\* answer.rs: "At most [`MAX_ANSWER_DELIVERIES_PER_TICK`] issues actually reach
\* the wire per sweep".  Holds as long as nothing errs after the round trip;
\* an error there is skipped without being counted.
FanOut == wire <= MAX_ANSWER_DELIVERIES_PER_TICK

\* Every inbound issue that ends is answered, or the attempts at it are used
\* up -- also when the peer is offline while the issue is parked and the
\* landing wipes the answer substate (resume_approved_inbound).  Refuted by a
\* crash between the terminal phase and the arming.
PeerIsAnswered ==
    \A i \in Issues :
        (inbound[i] /\ is_terminal(stage[i]))
            ~> (delivered[i] > 0 \/ answer_attempts[i] >= MAX_ANSWER_ATTEMPTS)

\* No issue starves: whatever the budget and the other issues do, a graphed
\* issue reaches a terminal phase.
EveryIssueEnds == \A i \in Issues : graphed[i] ~> is_terminal(stage[i])

-----------------------------------------------------------------------------
(* Why the safety properties hold: the inductive invariant. *)

Stages == {"untracked", "ready", "working", "parked", "landed", "stopped"}
PCs == {"idle", "ingest", "adopt", "drive", "driving", "arm", "resume", "land", "rearm",
        "sweep", "failed", "retire", "sent", "blocker", "close", "down", "recover"}

RowsOK ==
    /\ stage \in [Issues -> Stages]
    /\ substate \in [Issues -> AnswerSubstate \cup {None}]
    /\ answer_attempts \in [Issues -> Nat] /\ due \in [Issues -> BOOLEAN]
    /\ delivered \in [Issues -> Nat] /\ requeues \in [Issues -> Nat]
    /\ orphans \subseteq Issues

TrackerOK ==
    /\ graphed \in [Issues -> BOOLEAN] /\ inbound \in [Issues -> BOOLEAN]
    /\ slug \in [Issues -> Slugs \cup {None}]
    /\ approved \in [Issues -> BOOLEAN] /\ open \in [Issues -> BOOLEAN]
    /\ blocker \in [Issues -> BOOLEAN] /\ human \in [Issues -> BOOLEAN]

LocalsOK ==
    /\ pc \in PCs /\ todo \subseteq Issues /\ owed \in BOOLEAN
    /\ deliveries \in Nat /\ wire \in Nat /\ crashes \in Nat /\ faults \in Nat

TypeOK == RowsOK /\ TrackerOK /\ LocalsOK

\* The steps at which an issue is in hand; it is then no longer on the list.
InHand == pc \in {"driving", "arm", "land", "rearm", "failed", "retire", "sent",
                  "blocker", "close"} => cur \in Issues \ todo

Undelivered == {"answer_pending", "answer_unreachable"}

\* The answer substate rides on a terminal phase (on_issue_terminal).
AnswerRidesTerminal ==
    \A i \in Issues : substate[i] # None => is_terminal(stage[i])

\* What the list of a step says of the issues that are still on it, although
\* others were worked on in between.
ListIsCurrent ==
    /\ pc \in {"ingest", "adopt"} => \A i \in todo : stage[i] = "untracked"
    /\ pc = "adopt" => todo # {}
    /\ pc \in {"drive", "driving", "arm"} => \A i \in todo : stage[i] = "ready"
    /\ pc \in {"resume", "land", "rearm"} => \A i \in todo : stage[i] = "parked"
    /\ pc \in {"sweep", "failed", "retire", "sent", "blocker", "close"} =>
          \A i \in todo : substate[i] \in Undelivered
    /\ pc = "recover" => \A i \in todo : stage[i] # "untracked"
                            /\ (is_terminal(stage[i]) => substate[i] = "answer_sent")

\* What a step knows of the issue in hand.
HandIsCurrent ==
    /\ pc = "driving" => stage[cur] \in {"ready", "working"}
    /\ pc = "arm" => is_terminal(stage[cur]) /\ substate[cur] = None
    /\ pc = "land" => /\ stage[cur] \in {"parked", "working"}
                      /\ owed => substate[cur] # "answer_sent"
                      /\ stage[cur] = "parked" /\ ~ owed => substate[cur] \notin Undelivered
                      /\ approved[cur]
    /\ pc = "rearm" => stage[cur] \in {"landed", "stopped"} /\ substate[cur] = None
    /\ pc \in {"failed", "retire", "sent"} => substate[cur] \in Undelivered
    /\ pc = "close" => substate[cur] = "answer_sent"

\* An answer is recorded as sent, and its issue closed, after the peer has it.
SentIsDelivered ==
    /\ \A i \in Issues : substate[i] = "answer_sent" => delivered[i] > 0
    /\ pc \in {"sent", "close"} => delivered[cur] > 0

\* Nothing but a crash or a survived error can send issue i's answer again.
Settled(i) ==
    \/ substate[i] = "answer_sent"
    \/ pc = "sent" /\ cur = i
    \/ pc = "land" /\ cur = i /\ ~ owed
    \/ substate[i] = None /\ stage[i] \in {"landed", "stopped"}
         /\ ~ (pc \in {"arm", "rearm"} /\ cur = i)

\* Only a settled issue has had the one delivery that no crash and no survived
\* error explains.
OneDeliveryEach ==
    \A i \in Issues : \/ delivered[i] <= crashes + faults
                      \/ delivered[i] = crashes + faults + 1 /\ Settled(i)

\* An attempt under way is not counted yet, and the cap has room for it.
InFlight == IF pc \in {"failed", "retire", "sent", "blocker", "close"} THEN 1 ELSE 0
SweepIsCapped ==
    /\ deliveries + InFlight <= MAX_ANSWER_DELIVERIES_PER_TICK
    /\ wire <= deliveries + InFlight + faults

\* Approvals are a human's as soon as an issue is tracked (sanitize_inbound_labels);
\* only inbound issues are parked, and an inbound one in a landing is approved.
ApprovalIsHuman ==
    /\ \A i \in Issues : /\ stage[i] # "untracked" => (approved[i] <=> human[i])
                         /\ stage[i] = "untracked" => ~ human[i]
                         /\ approved[i] => inbound[i]
                         /\ stage[i] = "parked" => inbound[i]
    /\ pc = "adopt" => ~ approved[First(todo)]

TickInv ==
    /\ TypeOK /\ InHand /\ AnswerRidesTerminal /\ ListIsCurrent /\ HandIsCurrent
    /\ SentIsDelivered /\ OneDeliveryEach /\ SweepIsCapped /\ ApprovalIsHuman
    /\ ClosedIsDelivered

\* It takes a crash or a failing forget to leave an orphan, and after the first
\* crash no orphan's issue is being landed.
OrphansFollowCrash ==
    /\ pc \in {"down", "recover"} => crashes > 0
    /\ crashes = 0 /\ faults = 0 => orphans = {}
    /\ crashes <= 1 /\ faults = 0 /\ pc \in {"down", "recover"} =>
          \A i \in orphans : stage[i] # "working"
=============================================================================
