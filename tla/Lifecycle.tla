------------------------------ MODULE Lifecycle ------------------------------
(***************************************************************************)
(* What the orchestrator promises about ONE issue, whatever happens inside: *)
(* the stages it goes through and the only ways from one to another.       *)
(*   ready    the pump may pick it up (Phase::is_drivable)                 *)
(*   working  in flight: in review, converged or landing                   *)
(*   parked   awaiting-inbound-approval                                    *)
(*   landed   merged or pr-open                                            *)
(*   stopped  orchestrator-error or awaiting-human-merge                   *)
(* BuildPump implements it for the issue it drives, Tick for every issue.  *)
(***************************************************************************)
VARIABLES stage, inbound, approved

lifecycle == <<stage, inbound, approved>>

Stages == {"ready", "working", "parked", "landed", "stopped"}

Start == stage = "ready" /\ inbound \in BOOLEAN /\ approved = FALSE

\* Implementing, reviewing, and being sent back to the Implementer -- by
\* findings, by a failed QA or by recovery.
Work == /\ stage \in {"ready", "working"}
        /\ stage' \in {"ready", "working"}
        /\ UNCHANGED <<inbound, approved>>

\* Inbound work is parked, and nothing else is.  The approval may come after
\* the gate has looked for it.
Park == /\ stage = "working" /\ inbound
        /\ stage' = "parked"
        /\ UNCHANGED <<inbound, approved>>

\* A parked issue moves only once it is approved.
Unpark == /\ stage = "parked" /\ approved
          /\ stage' \in {"working", "stopped"}
          /\ UNCHANGED <<inbound, approved>>

\* Inbound work lands only with an approval.
LandIssue == /\ stage = "working"
             /\ inbound => approved
             /\ stage' = "landed"
             /\ UNCHANGED <<inbound, approved>>

\* Anything in flight may end without landing.
Stop == /\ stage \in {"ready", "working"}
        /\ stage' = "stopped"
        /\ UNCHANGED <<inbound, approved>>

\* A human approves.
Grant == approved' = TRUE /\ UNCHANGED <<stage, inbound>>

Step == Work \/ Park \/ Unpark \/ LandIssue \/ Stop \/ Grant

Lifecycle == Start /\ [][Step]_lifecycle
=============================================================================
