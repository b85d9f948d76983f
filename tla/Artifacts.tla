------------------------------- MODULE Artifacts -------------------------------
(***************************************************************************)
(* What a worker leaves in `_orchestrator/` and how the orchestrator reads *)
(* it: the DONE sentinel, findings.jsonl, followups.jsonl, result.md, the  *)
(* plan of tracker comments they are translated into, and the way back     *)
(* from a comment to a finding.  Operators only.                           *)
(*                                                                         *)
(* A file is the sequence of its lines, a line is a tuple that starts with *)
(* its kind.  SHA-256 is taken to be injective: the hash of a file is the  *)
(* file.  A path is the sequence of its components.  Text is a sequence of *)
(* lines, each <<tag, ...>>; a tag stands for the prefix a parser looks    *)
(* for ("location: ", "evidence:", "- ") and "text" for none of them.      *)
(***************************************************************************)
EXTENDS Ordered, SequencesExt

CONSTANTS
    FINDINGS_MAX,             \* artifacts.rs: 256 findings in a file
    FOLLOWUP_MAX_PROPOSALS,   \* artifacts.rs: 32 proposals in a file
    ARTIFACT_MAX              \* artifacts.rs: the byte cap of a file, in lines

ASSUME ArtifactLimits ==
    {FINDINGS_MAX, FOLLOWUP_MAX_PROPOSALS, ARTIFACT_MAX} \subseteq Nat \ {0}

FOLLOWUP_TITLE_MAX == 200
FOLLOWUP_RATIONALE_MAX == 4000
FOLLOWUP_GATE_SKETCH_MAX == 2000
FOLLOWUP_MAX_SUGGESTED_BLOCKERS == 32
WHOLE_FILE_INDEX == -1
Severity == {"high", "med", "low"}

\* Results of fallible functions.
Ok(v) == [ok |-> TRUE, val |-> v]
Err == [ok |-> FALSE, val |-> <<>>]

\* The lines of a text that carry this tag.
Tagged(text, tag) == {k \in DOMAIN text : text[k][1] = tag}

\* What these lines carry.
Carried(text, lines) ==
    LET those == At(text, lines) IN [k \in 1 .. Len(those) |-> those[k][2]]

-----------------------------------------------------------------------------
(* Findings. *)

\* Location::parse of "<path>:<line>".  A string without a colon has no path.
\* A line token that does not fit a u32 is -1 here.
Location_parse(raw) ==
    IF raw.path # "" /\ raw.line >= 0 THEN Ok(raw) ELSE Err

\* Finding::comment_body.  The claim is free text and may have several lines.
comment_body(f) ==
    <<<<"head", f.severity, Head(f.claim)>>>>
    \o Tail(f.claim)
    \o <<<<"location", f.location>>>>
    \o (IF f.evidence_files = <<>> THEN <<>> ELSE <<<<"evidence">>>>)
    \o [k \in 1 .. Len(f.evidence_files) |-> <<"item", f.evidence_files[k]>>]

\* What comes after the first line.
Rest(body) == DOMAIN body \ {1}

\* Mutant: the first location line of the text is taken.
parse_first_location(body) ==
    LET locs == Tagged(body, "location") \cap Rest(body)
        loc  == body[CHOOSE k \in locs : \A j \in locs : k <= j][2]
    IN IF locs = {} \/ ~ Location_parse(loc).ok THEN Err
       ELSE Ok([severity |-> body[1][2], claim |-> <<body[1][3]>>,
                location |-> loc, evidence_files |-> <<>>])

\* parse_finding_from_body: the first line gives severity and claim, the last
\* location line the location, the items after the first "evidence:" the files.
parse_finding_from_body(body) ==
    LET locs  == Tagged(body, "location") \cap Rest(body)
        loc   == body[CHOOSE k \in locs : \A j \in locs : j <= k][2]
        items == {k \in Tagged(body, "item") :
                    \E ev \in Tagged(body, "evidence") \cap Rest(body) : ev < k}
        head  == body[1]
    IN IF \/ head[1] # "head" \/ head[2] \notin Severity
          \/ locs = {} \/ ~ Location_parse(loc).ok
       THEN Err
       ELSE Ok([severity |-> head[2], claim |-> <<head[3]>>, location |-> loc,
                evidence_files |-> Carried(body, items)])

\* Finding::to_jsonl_line: the wire form, its location flattened again.
to_jsonl_line(f) ==
    <<"finding", [severity |-> f.severity, location |-> f.location,
                  claim |-> f.claim, evidence_files |-> f.evidence_files]>>

\* A sequence, whatever is in it.
IsSeq(s) == Len(s) \in Nat /\ s = [k \in 1 .. Len(s) |-> s[k]]

\* The claim of a finding has a first line, which may be empty.
IsWhole(f) == IsSeq(f.claim) /\ f.claim # <<>> /\ IsSeq(f.evidence_files)

\* What a re-implement round is handed: prior_findings.jsonl for any worker, and
\* for an agent the comments' texts at the end of its task.
render_prior_findings(fs) == [k \in 1 .. Len(fs) |-> to_jsonl_line(fs[k])]
append_prior_findings(task, fs) ==
    task \o FlattenSeq([k \in 1 .. Len(fs) |-> comment_body(fs[k])])

\* The Adversary's inputs: prior_findings.json in the same form, the task as it
\* is.  (Patch has its diff.patch.)
PriorFinding(f) == to_jsonl_line(f)
render_inputs(task, fs) ==
    [file |-> [k \in 1 .. Len(fs) |-> PriorFinding(fs[k])], task |-> task]

\* Blank lines count here, and nowhere else.
reject_oversized(content) == Len(content) > ARTIFACT_MAX

NotBlank(content) == DOMAIN content \ Tagged(content, "blank")

\* A line of findings.jsonl that serde and Location::parse accept.
IsFinding(line) ==
    line[1] = "finding" /\ line[2].severity \in Severity
                        /\ Location_parse(line[2].location).ok

\* Findings::parse: all of the file, or nothing.
Findings_parse(content) ==
    LET lines == NotBlank(content)
    IN IF reject_oversized(content) \/ Cardinality(lines) > FINDINGS_MAX
          \/ \E k \in lines : ~ IsFinding(content[k])
       THEN Err
       ELSE Ok(Carried(content, lines))

-----------------------------------------------------------------------------
(* Follow-up proposals.  Only the sizes of their texts are bounded. *)

\* The checks Followups::parse makes on one proposal.
IsFollowup(line) ==
    /\ line[1] = "followup"
    /\ line[2].title \in 1 .. FOLLOWUP_TITLE_MAX /\ line[2].title_lines = 1
    /\ line[2].rationale <= FOLLOWUP_RATIONALE_MAX
    /\ line[2].gate_sketch <= FOLLOWUP_GATE_SKETCH_MAX
    /\ line[2].suggested_blockers <= FOLLOWUP_MAX_SUGGESTED_BLOCKERS

Followups_parse(content) ==
    LET lines == NotBlank(content)
    IN IF reject_oversized(content) \/ Cardinality(lines) > FOLLOWUP_MAX_PROPOSALS
          \/ \E k \in lines : ~ IsFollowup(content[k])
       THEN Err
       ELSE Ok(Carried(content, lines))

\* FollowupProposal::comment_body: a proposal never looks like a finding.
followup_body(p) == <<<<"proposal", p>>>>

-----------------------------------------------------------------------------
(* The DONE sentinel: [exit_status, artifacts], each artifact with the path  *)
(* and hash DONE declares and the file (`disk`) that is there.               *)

\* is_workspace_relative: no "..", no root.
is_workspace_relative(path) == \A k \in DOMAIN path : path[k] \notin {"..", "/"}

artifact_file_name(path) == Last(path)

Missing == <<<<"missing">>>>

\* The file DONE names is inside the workspace, exists, and hashes to what
\* DONE says.
Attested(a) ==
    is_workspace_relative(a.path) /\ a.disk # Missing /\ a.disk = a.sha256

\* DoneSentinel::verify.  NoDone: the file is missing, or is not the JSON it
\* should be.  The verified bytes are kept, so the disk is read once.
NoDone == [exit_status |-> "none", artifacts |-> <<>>]
verify(done) ==
    IF done = NoDone \/ \E k \in DOMAIN done.artifacts : ~ Attested(done.artifacts[k])
    THEN Err
    ELSE Ok(done)

\* What serde lets a DONE be: lists of artifacts, of lines and of texts.
WellFormed(done) ==
    /\ IsSeq(done.artifacts)
    /\ \A k \in DOMAIN done.artifacts :
         LET file == done.artifacts[k].disk
         IN  /\ IsSeq(file)
             /\ \A n \in DOMAIN file : file[n][1] = "finding" => IsWhole(file[n][2])

\* The artifacts of a verified DONE with this file name, in DONE's order.
Named(done, name) ==
    At(done.artifacts,
       {k \in DOMAIN done.artifacts : artifact_file_name(done.artifacts[k].path) = name})

\* Mutant: Findings::read, where a file that is not there has no findings.
findings_or_none(done) ==
    LET files == Named(done, "findings.jsonl")
    IN IF files = <<>> THEN Ok(<<>>) ELSE Findings_parse(Head(files).disk)

\* Findings::from_done: the FIRST findings.jsonl DONE declares, or FindingsMissing.
from_done(done) ==
    LET files == Named(done, "findings.jsonl")
    IN IF files = <<>> THEN Err ELSE Findings_parse(Head(files).disk)

-----------------------------------------------------------------------------
(* The translation plan. *)

\* TranslationItem.  The first three fields are the ledger's content key.
Item(a, index, kind, body) ==
    [artifact_path |-> a.path, content_sha |-> a.sha256, finding_index |-> index,
     kind |-> kind, body |-> body]

\* What one artifact turns into; finding indices count from 0.
ItemsOf(done, a) ==
    CASE artifact_file_name(a.path) = "result.md" ->
            Ok(IF done.exit_status = "success"
               THEN <<Item(a, WHOLE_FILE_INDEX, "result", <<<<"result", a.disk>>>>)>>
               ELSE <<>>)
      [] artifact_file_name(a.path) = "findings.jsonl" ->
            LET p == Findings_parse(a.disk)
            IN IF ~ p.ok THEN Err
               ELSE Ok([k \in 1 .. Len(p.val) |-> Item(a, k - 1, "blocker", comment_body(p.val[k]))])
      [] artifact_file_name(a.path) = "followups.jsonl" ->
            LET p == Followups_parse(a.disk)
            IN IF ~ p.ok THEN Err
               ELSE Ok([k \in 1 .. Len(p.val) |-> Item(a, k - 1, "note", followup_body(p.val[k]))])
      [] OTHER -> Ok(<<>>)

\* translation_plan: one artifact that does not parse fails the whole plan,
\* before anything of it is posted.
translation_plan(done) ==
    LET parts == [k \in DOMAIN done.artifacts |-> ItemsOf(done, done.artifacts[k])]
    IN IF \E k \in DOMAIN parts : ~ parts[k].ok THEN Err
       ELSE Ok(FlattenSeq([k \in DOMAIN parts |-> parts[k].val]))

\* The key of the posted_artifacts table, less the issue.
LedgerKey(item) == <<item.artifact_path, item.content_sha, item.finding_index>>
=============================================================================
