------------------------------ MODULE Spelling ------------------------------
(***************************************************************************)
(* The conversions a worker's launch and its outcome go through: workspace *)
(* names to directory names and back (workspace.rs), titles to branches and *)
(* remote URLs to repositories (landing.rs), an argument vector to a shell *)
(* command line (spawn.rs), a process's output to lines (qa.rs).           *)
(***************************************************************************)
EXTENDS Ordered, SequencesExt

\* Names are sequences of the words between their dashes.  A raw id is a
\* sequence of words and of characters that are not alphanumeric.
Junk == "#"
IsWord(w) == w # Junk

\* sanitize: junk becomes single dashes between words, none at the ends.
sanitize(raw) == At(raw, {k \in DOMAIN raw : IsWord(raw[k])})

PhaseWords == [graphed |-> <<"graphed">>, implementing |-> <<"implementing">>,
    qa_gate |-> <<"qa", "gate">>, adversary_review |-> <<"adversary", "review">>,
    converged |-> <<"converged">>, landing |-> <<"landing">>,
    merged |-> <<"merged">>, pr_open |-> <<"pr", "open">>,
    awaiting_human_merge |-> <<"awaiting", "human", "merge">>,
    awaiting_inbound_approval |-> <<"awaiting", "inbound", "approval">>,
    orchestrator_error |-> <<"orchestrator", "error">>]
Phases == DOMAIN PhaseWords

\* The words rounds and short uuids render to; "r1" and hex words may also
\* occur in an id.
RoundWord == <<"r0", "r1">>
UuidWords == {"0a1b2c3d", "deadbeef"}

\* WorkspaceName::from_parts.
from_parts(phase, raw, round, uuid) ==
    [phase |-> phase, round |-> round, uuid |-> uuid,
     issue |-> IF sanitize(raw) = <<>> THEN <<"issue">> ELSE sanitize(raw)]

\* WorkspaceName::as_str.
as_str(name) == PhaseWords[name.phase] \o name.issue
                \o <<RoundWord[name.round + 1], name.uuid>>

\* Mutant: the phase ends at the first dash.
match_first_word(head) ==
    {<<p, Tail(head)>> : p \in {q \in Phases : PhaseWords[q] = <<head[1]>>}}

\* match_phase: the shortest prefix, ending at a dash, that is a phase.
match_phase(head) ==
    LET ends == {i \in 1..Len(head) - 1 :
                    \E p \in Phases : PhaseWords[p] = SubSeq(head, 1, i)}
        i == CHOOSE k \in ends : \A j \in ends : k <= j
    IN  IF ends = {} THEN {}
        ELSE {<<p, SubSeq(head, i + 1, Len(head))>> :
                p \in {q \in Phases : PhaseWords[q] = SubSeq(head, 1, i)}}

\* WorkspaceName::parse: the uuid and the round come off the right end.
parse(words) ==
    LET n == Len(words) IN
      IF n < 3 \/ words[n] \notin UuidWords \/ ~Contains(RoundWord, words[n - 1])
        THEN {}
        ELSE {[phase |-> m[1], issue |-> m[2], uuid |-> words[n],
               round |-> (CHOOSE i \in DOMAIN RoundWord :
                              RoundWord[i] = words[n - 1]) - 1] :
                m \in match_phase(SubSeq(words, 1, n - 2))}

\* recovery's workspace_issue_matches: the same words but for the uuid.
workspace_issue_matches(name, raw) ==
    Front(as_str(from_parts(name.phase, raw, name.round, "deadbeef")))
      = Front(as_str(name))

\* PaneName::new and as_str; issue is sanitized already.
pane_name(role, issue, round) == <<role>> \o issue \o <<RoundWord[round + 1]>>

\* A line of zellij's output is a sequence of words; "terminal_" and "plugin_"
\* begin the id of a pane, and digits are words of their own.
PanePrefixes == {"terminal_", "plugin_"}
Digits == {"0", "7"}
Digit(d) == IF d = "7" THEN 7 ELSE 0

\* is_pane_id: a prefix and at least one digit, nothing else.
is_pane_id(token) ==
    Len(token) > 1 /\ token[1] \in PanePrefixes /\ Range(Tail(token)) \subseteq Digits

\* extract_pane_id: the last such line of what `new-pane` prints, if any.
extract_pane_id(output) ==
    LET ids == At(output, {k \in DOMAIN output : is_pane_id(output[k])})
    IN  IF ids = <<>> THEN {} ELSE {Last(ids)}

\* split_pane_id: the kind and the number by which pane_alive looks a pane up.
split_pane_id(token) ==
    IF is_pane_id(token)
      THEN {[is_plugin |-> token[1] = "plugin_",
             id |-> FoldLeft(LAMBDA n, d : 10 * n + Digit(d), 0, Tail(token))]}
      ELSE {}

----------------------------------------------------------------------------
(* Branches and remotes (landing.rs). *)

\* The characters of a slug: those of its words and the dashes between them.
WordLen(w) == CASE w = "deadbeef" -> 8 [] w = "gate" -> 4 [] OTHER -> 1
Width(words) == FoldLeft(LAMBDA n, w : n + WordLen(w), Len(words) - 1, words)

\* slugify: a slug that is too long is cut at the last dash among its first
\* max_len characters, or in the middle of its first word.
slugify(raw, max_len) ==
    LET words == sanitize(raw)
        cuts == {k \in 1..Len(words) - 1 : Width(SubSeq(words, 1, k)) < max_len}
    IN  IF Width(words) <= max_len THEN words
        ELSE IF cuts = {} THEN <<IF WordLen(words[1]) = max_len THEN words[1] ELSE "cut">>
        ELSE SubSeq(words, 1, CHOOSE k \in cuts : \A j \in cuts : j <= k)

\* branch_name: vdd/<id>-<slug>; the id is not capped.
branch_name(id, title, max_len) ==
    <<"vdd">> \o (IF sanitize(id) = <<>> THEN <<"issue">> ELSE sanitize(id))
    \o slugify(title, max_len)

\* A URL is a sequence of words and of the marks "://", ":", "/" and ".git".
Before(url, mark) == SubSeq(url, 1, SelectInSeq(url, LAMBDA t : t = mark) - 1)
After(url, mark) == SubSeq(url, SelectInSeq(url, LAMBDA t : t = mark) + 1, Len(url))
TrimSlashes(path) ==
    LET kept == {i \in DOMAIN path : path[i] # "/"}
    IN  IF kept = {} THEN <<>>
        ELSE SubSeq(path, CHOOSE i \in kept : \A j \in kept : i <= j,
                          CHOOSE i \in kept : \A j \in kept : j <= i)

\* parse_owner_repo: what follows the host, without .git, must be owner/repo.
parse_owner_repo(url) ==
    LET tail == IF Contains(url, "://")
                  THEN IF Contains(After(url, "://"), "/")
                         THEN After(After(url, "://"), "/") ELSE <<>>
                  ELSE IF Contains(url, ":") THEN After(url, ":") ELSE <<>>
        path == TrimSlashes(tail)
        bare == IF path # <<>> /\ Last(path) = ".git" THEN Front(path) ELSE path
        owner == Before(bare, "/")
        repo == After(bare, "/")
    IN  IF Contains(bare, "/") /\ owner # <<>> /\ repo # <<>> /\ ~Contains(repo, "/")
          THEN {<<owner, repo>>} ELSE {}

\* OctocrabPrOpener::for_remote: else the repository the environment names.
for_remote(url, GITHUB_REPOSITORY) ==
    IF parse_owner_repo(url) # {} THEN parse_owner_repo(url) ELSE GITHUB_REPOSITORY

----------------------------------------------------------------------------
(* Text is a sequence of characters: "a" stands for the ones a shell takes  *)
(* literally.                                                               *)

IsSafe(c) == c = "a"

\* Mutant: quotes within an argument are kept.
shell_quote_plain(s) ==
    IF s # <<>> /\ \A i \in DOMAIN s : IsSafe(s[i]) THEN s
    ELSE <<"'">> \o s \o <<"'">>

\* A single quote is closed, escaped and reopened.
escaped(s) ==
    FoldLeft(LAMBDA done, c : done \o (IF c = "'" THEN <<"'", "\\", "'", "'">> ELSE <<c>>),
             <<>>, s)

\* shell_quote: safe text as it is, other text in single quotes.
shell_quote(s) ==
    IF s # <<>> /\ \A i \in DOMAIN s : IsSafe(s[i]) THEN s
    ELSE <<"'">> \o escaped(s) \o <<"'">>

\* shell_join.
shell_join(argv) ==
    FoldLeft(LAMBDA line, arg : IF line = <<>> THEN shell_quote(arg)
                                ELSE line \o <<" ">> \o shell_quote(arg),
             <<>>, argv)

\* External (sh): word splitting of a command line.  open: a word has begun.
ShStart == [mode |-> "plain", word |-> <<>>, open |-> FALSE, words |-> <<>>]
ShRead(s, c) ==
    CASE s.mode = "escape" -> [s EXCEPT !.mode = "plain", !.word = Append(@, c)]
      [] s.mode = "quote" -> IF c = "'" THEN [s EXCEPT !.mode = "plain"]
                             ELSE [s EXCEPT !.word = Append(@, c)]
      [] s.mode = "plain" /\ c = "'" -> [s EXCEPT !.mode = "quote", !.open = TRUE]
      [] s.mode = "plain" /\ c = "\\" -> [s EXCEPT !.mode = "escape", !.open = TRUE]
      [] s.mode = "plain" /\ c = " " ->
           IF s.open THEN [ShStart EXCEPT !.words = Append(s.words, s.word)] ELSE s
      [] OTHER -> [s EXCEPT !.open = TRUE, !.word = Append(@, c)]
ShWords(line) ==
    LET end == FoldLeft(ShRead, ShStart, line)
    IN  IF end.open THEN Append(end.words, end.word) ELSE end.words

\* split_lines: "\n", "\r\n" and a lone "\r" each end a line; text after the
\* last of them is a line too.  cr: the last line was ended by an "\r".
LinesStart == [lines |-> <<>>, line |-> <<>>, cr |-> FALSE]
LineRead(s, c) ==
    CASE c = "\n" /\ s.cr -> [s EXCEPT !.cr = FALSE]
      [] c = "\r" \/ (c = "\n" /\ ~ s.cr) ->
           [lines |-> Append(s.lines, s.line), line |-> <<>>, cr |-> c = "\r"]
      [] OTHER -> [s EXCEPT !.line = Append(@, c), !.cr = FALSE]
split_lines(raw) ==
    LET end == FoldLeft(LineRead, LinesStart, raw)
    IN  IF end.line = <<>> THEN end.lines ELSE Append(end.lines, end.line)

\* OutputTail::from_output.
from_output(raw, TAIL_LINES) ==
    LET lines == split_lines(raw)
    IN  SubSeq(lines, IF Len(lines) > TAIL_LINES THEN Len(lines) - TAIL_LINES + 1 ELSE 1,
               Len(lines))

\* combine: stderr starts on a line of its own.
combine(stdout, stderr) ==
    IF stderr = <<>> THEN stdout
    ELSE IF stdout = <<>> \/ Last(stdout) = "\n" THEN stdout \o stderr
    ELSE stdout \o <<"\n">> \o stderr
=============================================================================
