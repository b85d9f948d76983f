---------------------------- MODULE RemoteLanding ----------------------------
(***************************************************************************)
(* Remote-mode landing (landing.rs, land_remote / resume_remote_from):     *)
(* point the issue's branch at the change, push it, open a pull request    *)
(* unless one is open, record pr-open.  Recovery re-enters at "push_start" *)
(* with the branch itself as the change, at "pr" or at "pr_adopt".         *)
(***************************************************************************)
EXTENDS IssueState

LandingRemotely == UNCHANGED <<workers, workspaces, trunk, labels, minted,
                               history, crashes, leaks>>

\* push_step: Landing/PushStarted.
PushStart ==
    /\ pc = "push_start"
    /\ set_phase("landing", "push_started")
    /\ pc' = "point"
    /\ UNCHANGED <<remoteState, locals>> /\ LandingRemotely

\* push_step: point_bookmark, creating or moving the branch.
PointBookmark ==
    /\ pc = "point"
    /\ branch' = change
    /\ pc' = "push"
    /\ UNCHANGED <<row, pushed, prs, open_prs, locals>> /\ LandingRemotely

\* push_step: git_push.
Push ==
    /\ pc = "push"
    /\ pushed' = branch
    /\ pc' = "push_done"
    /\ UNCHANGED <<row, branch, prs, open_prs, locals>> /\ LandingRemotely

\* push_step: Landing/PushDonePrPending.
PushDone ==
    /\ pc = "push_done"
    /\ set_phase("landing", "push_done_pr_pending")
    /\ pc' = "pr"
    /\ UNCHANGED <<remoteState, locals>> /\ LandingRemotely

\* Mutant: a pull request is opened without looking for an open one.
OpenPrBlindly ==
    /\ pc = "pr"
    /\ prs' = prs + 1 /\ open_prs' = open_prs + 1
    /\ pc' = "pr_made"
    /\ UNCHANGED <<row, branch, pushed, locals>> /\ LandingRemotely

\* OctocrabPrOpener::find_open_pr: a pull request of exactly this head is open.
find_open_pr == open_prs > 0

\* OctocrabPrOpener::open_pr.  (A create that GitHub refuses adopts the open
\* one; nobody else opens pull requests for the branch here.)
open_pr == prs' = prs + 1 /\ open_prs' = open_prs + 1

\* pr_step: adopt the open pull request of this head, else open one.
OpenPr ==
    /\ pc = "pr"
    /\ \/ find_open_pr /\ UNCHANGED <<prs, open_prs>>
       \/ ~find_open_pr /\ open_pr
    /\ pc' = "pr_made"
    /\ UNCHANGED <<row, branch, pushed, locals>> /\ LandingRemotely

\* pr_step: Landing/PrCreated.
PrCreated ==
    /\ pc = "pr_made"
    /\ set_phase("landing", "pr_created")
    /\ pc' = "pr_open"
    /\ UNCHANGED <<remoteState, locals>> /\ LandingRemotely

\* resume_remote_from(PrCreated): the url comes from the open pull request;
\* without one the resume errors and the issue is quarantined.
AdoptPr ==
    /\ pc = "pr_adopt"
    /\ pc' = IF find_open_pr THEN "pr_open" ELSE "quarantine"
    /\ UNCHANGED <<row, remoteState, locals>> /\ LandingRemotely

\* complete_pr_open: terminal transition.
PrOpen ==
    /\ pc = "pr_open"
    /\ set_phase("pr-open", None)
    /\ pc' = "forget_branch"
    /\ UNCHANGED <<remoteState, locals>> /\ LandingRemotely

\* complete_pr_open: best-effort forget of the local branch.
ForgetBranch ==
    /\ pc = "forget_branch"
    /\ branch' \in {NoCommit, branch}
    /\ Return
    /\ UNCHANGED <<row, pushed, prs, open_prs>> /\ LandingRemotely

\* External: somebody merges or closes the pull request on GitHub.
ClosePr ==
    /\ open_prs > 0
    /\ open_prs' = open_prs - 1
    /\ UNCHANGED <<row, branch, pushed, prs, pc, locals>> /\ LandingRemotely

LandRemotely == \/ PushStart \/ PointBookmark \/ Push \/ PushDone \/ OpenPr
                \/ PrCreated \/ AdoptPr \/ PrOpen \/ ForgetBranch
=============================================================================
