-------------------------- MODULE ArtifactProperties --------------------------
(***************************************************************************)
(* What is claimed of the artifact ledger (ArtifactLedger).                *)
(***************************************************************************)
EXTENDS ArtifactLedger

\* The comments of one ledger key.
Copies(k) == {n \in DOMAIN comments : comments[n].key = k}

\* The finding a ledger key stands for, and the one a comment was made from.
Recorded(key) == Findings_parse(key[2]).val[key[3] + 1]
Original(c) == Recorded(c.key)

\* Two records of one finding: severity, first line of the claim, location.
SameFinding(f, g) ==
    f.severity = g.severity /\ Head(f.claim) = Head(g.claim) /\ f.location = g.location

\* The ledger keys of everything a DONE is translated into.
PlannedKeys(d) ==
    {LedgerKey(translation_plan(d).val[k]) : k \in DOMAIN translation_plan(d).val}

\* A worker, or an Implementer, is at work; brief is what it was given.
WorkerRuns == pc = "wait" /\ worker # "none"
ImplementerRuns == pc = "wait" /\ worker = "implementer"

-----------------------------------------------------------------------------
(* Safety. *)

\* A ledger row is only ever written for a comment that is in the tracker: a
\* crash between comment_write and record_posted may repeat a comment, it never
\* suppresses one (translate_artifacts, replay_done).
LedgerIsHonest == \A k \in posted : Copies(k) # {}

\* Each planned comment is posted once, and once more at most for every crash:
\* later rounds, replays and identical artifacts of other workers add nothing.
CopiesAreCrashes == \A k \in posted : Cardinality(Copies(k)) <= 1 + crashes

\* Every finding an Adversary's comment records reaches every later worker, as a
\* line of its prior findings that parses, and an Implementer in its task too, in
\* the same drive or rebuilt from the tracker after any number of crashes; a claim of several
\* lines and a claim that looks like a location line do not corrupt its place
\* (rehydrate_prior_findings, render_prior_findings, render_inputs).
PostedFindingsAreBriefed ==
    WorkerRuns =>
        \A n \in DOMAIN comments :
            (comments[n].role = "adversary" /\ comments[n].kind = "blocker") =>
                LET original == Original(comments[n]) IN
                /\ \E line \in Range(brief.file) :
                     IsFinding(line) /\ SameFinding(line[2], original)
                /\ ImplementerRuns =>
                     {<<"head", original.severity, Head(original.claim)>>,
                      <<"location", original.location>>} \subseteq Range(brief.task)

\* A round counts as clean only on a verified DONE that declares a findings.jsonl
\* in which there is no finding: an absent or malformed file never does.
CleanRoundsAreAttested ==
    \A d \in clean :
        /\ verify(d).ok
        /\ Named(d, "findings.jsonl") # <<>>
        /\ NotBlank(Head(Named(d, "findings.jsonl")).disk) = {}

-----------------------------------------------------------------------------
(* Liveness, under FairSpec. *)

\* What a finished Implementer declared is published, whatever crashes come
\* between its DONE and the last comment.
FinishedWorkIsPublished ==
    \A d \in {out \in ImplementerOutputs : verify(out).ok /\ translation_plan(out).ok} :
        \A key \in PlannedKeys(d) : (ImplementerRuns /\ done = d) ~> (key \in posted)

-----------------------------------------------------------------------------
(* What holds between any two steps of the ledger (the inductive invariant  *)
(* behind LedgerIsHonest and CopiesAreCrashes).                              *)

\* The key whose comment is in the tracker while its ledger row is not written.
Unrecorded == IF pc \in {"record", "replay_record"} THEN {LedgerKey(Head(plan))} ELSE {}

\* A comment that is neither recorded nor about to be was left by a crash: each
\* crash costs one copy, the record only the first.
Allowance(k) == crashes + (IF k \in posted \cup Unrecorded THEN 1 ELSE 0)

LedgerInv ==
    /\ crashes \in Nat
    /\ comments \in Seq(Range(comments))
    /\ <<>> \notin posted
    /\ posted \cap Unrecorded = {}
    /\ \A k \in posted \cup Unrecorded : Copies(k) # {}
    /\ \A n \in DOMAIN comments :
          comments[n].key # <<>> =>
              Cardinality(Copies(comments[n].key)) <= Allowance(comments[n].key)

-----------------------------------------------------------------------------
(* What holds between any two steps of a round (the inductive invariant      *)
(* behind CleanRoundsAreAttested and PostedFindingsAreBriefed).              *)

FromAdversary(c) == c.role = "adversary" /\ c.kind = "blocker"

\* A finding that survives its comment and its prior_findings line.
Sound(f) ==
    /\ f.severity \in Severity /\ Location_parse(f.location).ok
    /\ IsWhole(f)

\* The key of a finding that was read, and the comment made of that finding.
IsRecord(key, body) ==
    /\ Findings_parse(key[2]).ok /\ key[3] + 1 \in DOMAIN Findings_parse(key[2]).val
    /\ Sound(Recorded(key)) /\ body = comment_body(Recorded(key))

\* This drive has collected it.
Known(key) == \E k \in DOMAIN prior_findings : SameFinding(prior_findings[k], Recorded(key))

\* The steps in which an Adversary's plan is posted, and those after the
\* findings were collected.
Posting == pc \in {"translate", "record"} /\ phase # "implementing"
Driven == pc \in {"implement", "wait", "translate", "record", "translated", "qa",
                  "review", "findings"}

\* A DONE declares one findings.jsonl, or copies of one: translation_plan posts
\* from each that is declared, and the drive collects the findings of the first.
OneFindingsFile(d) ==
    \A j, k \in DOMAIN d.artifacts :
        artifact_file_name(d.artifacts[j].path) = "findings.jsonl"
        /\ artifact_file_name(d.artifacts[k].path) = "findings.jsonl"
          => d.artifacts[j].disk = d.artifacts[k].disk

\* The DONE in hand is one its worker may leave.
OutputInv ==
    done # NoDone =>
        done \in (IF worker = "implementer" THEN ImplementerOutputs ELSE AdversaryOutputs)

\* Every comment of an Adversary was made from a finding, and is known to the
\* drive from its start; an item is known before it is posted.
BriefInv ==
    /\ IsSeq(comments)
    /\ \A n \in DOMAIN comments :
         FromAdversary(comments[n]) => IsRecord(comments[n].key, comments[n].body)
    /\ IsSeq(prior_findings)
    /\ \A k \in DOMAIN prior_findings : Sound(prior_findings[k])
    /\ pc \in {"drive", "implement"} \/ ImplementerRuns => phase = "implementing"
    /\ Posting => IsSeq(plan) /\ (pc = "record" => plan # <<>>)
    /\ Posting =>
         \A k \in DOMAIN plan : plan[k].kind = "blocker" =>
            IsRecord(LedgerKey(plan[k]), plan[k].body) /\ Known(LedgerKey(plan[k]))
    /\ Driven =>
         \A n \in DOMAIN comments : FromAdversary(comments[n]) => Known(comments[n].key)
=============================================================================
