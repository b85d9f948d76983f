------------------------------ MODULE MCArtifacts ------------------------------
(* Small artifacts for TLC. *)
EXTENDS ArtifactProperties

File(name, content) ==
    [path |-> <<"_orchestrator", name>>, sha256 |-> content, disk |-> content]
Done(status, artifacts) == [exit_status |-> status, artifacts |-> artifacts]

Result(text) == File("result.md", <<<<"text", text>>>>)

\* Findings with a plain claim, and with one whose second line looks like a
\* location line of its own.
F1 == [severity |-> "high", location |-> [path |-> "a", line |-> 1],
       claim |-> <<"c1">>, evidence_files |-> <<"e">>]
F2 == [severity |-> "low", location |-> [path |-> "b", line |-> 0],
       claim |-> <<"c2", <<"location", [path |-> "z", line |-> 9]>>>>, evidence_files |-> <<>>]

Proposal(title) == [title |-> title, title_lines |-> 1, rationale |-> 4000,
                    gate_sketch |-> 0, suggested_blockers |-> 32]

MCImplementerOutputs == {
    Done("success", <<Result("work"), File("followups.jsonl", <<<<"followup", Proposal(200)>>>>)>>),
    Done("error", <<Result("gave up")>>),
    Done("success", <<File("followups.jsonl", <<<<"followup", Proposal(201)>>>>)>>),
    Done("success", <<[Result("work") EXCEPT !.disk = Missing]>>)}

MCAdversaryOutputs == {
    Done("success", <<File("findings.jsonl", <<>>)>>),
    Done("success", <<File("findings.jsonl", <<<<"finding", F1>>, <<"blank">>, <<"finding", F2>>>>)>>),
    Done("success", <<File("findings.jsonl", <<<<"finding", F1>>>>),
                      File("followups.jsonl", <<<<"garbage">>>>)>>),
    Done("success", <<File("findings.jsonl", <<<<"finding", [F1 EXCEPT !.location.path = ""]>>>>)>>),
    Done("success", <<>>),
    Done("success", <<File("findings.jsonl", <<<<"blank">>, <<"blank">>, <<"blank">>, <<"blank">>>>)>>),
    Done("error", <<File("findings.jsonl", <<>>)>>)}

\* What the theorem about these findings assumes of the Adversary's outputs.
ASSUME MCAdversaryAssumption == \A d \in MCAdversaryOutputs : OneFindingsFile(d)
=============================================================================
