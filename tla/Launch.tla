------------------------------- MODULE Launch -------------------------------
(***************************************************************************)
(* From config.toml to a running worker: the configuration is loaded and   *)
(* checked, the workspace named, the worker's command line and sandbox put *)
(* together and handed to a pane; the worker calls tools and writes files; *)
(* its round is judged by static QA, whose output is reported, and by      *)
(* reviews.  Inputs are chosen where the code reads them.                  *)
(***************************************************************************)
EXTENDS Sandbox, Spelling, Patch

CONSTANTS
    MAX_ADVERSARY_ROUNDS,   \* pump.rs
    TAIL_LINES,             \* qa.rs
    Hosts,                  \* hosts: [root, config, dirs]
    RawIds,                 \* raw issue ids
    Arguments,              \* texts an argument may be
    Outputs,                \* texts a process may write
    Calls,                  \* tool calls a worker may make
    Scripts,                \* the edits of a file between two revisions
    DIFF_CONTEXT_LINES,     \* jj_api/diff.rs
    SLUG_MAX                \* landing.rs: the cap of branch_name's slug

\* The limit admits the rounds of the default configuration, which nothing checks.
ASSUME LaunchBounds == /\ MAX_ADVERSARY_ROUNDS \in Nat /\ MAX_ADVERSARY_ROUNDS >= 2
                       /\ TAIL_LINES \in Nat \ {0} /\ SLUG_MAX \in Nat \ {0}

\* A path is a sequence.
ASSUME HostAssumption ==
    \A h \in Hosts : h.root \in Seq(Range(h.root)) /\ h.config \in Seq(Range(h.config))

\* An id is a sequence of words.
ASSUME IdAssumption == \A id \in RawIds : id \in Seq(Range(id))

\* A text is a sequence of characters.
ASSUME TextAssumption == \A t \in Arguments \cup Outputs : t \in Seq(Range(t))

\* A line of a script is kept, taken out or put in.
ASSUME ScriptAssumption ==
    /\ DIFF_CONTEXT_LINES \in Nat
    /\ \A s \in Scripts :
         s \in Seq([sigil : {" ", "-", "+"},
                    line : [text : {s[k].line.text : k \in DOMAIN s}, nl : BOOLEAN]])

VARIABLES
    stage,      \* where the launch stands
    conf,       \* the loaded configuration
    name,       \* the name generated for a workspace
    found,      \* the names its directory is read as after a restart
    argv, line, \* the worker's arguments, and the command line they become
    host, user, \* the host, and who runs in the sandbox: a role or "qa"
    mounts,     \* the sandbox
    env,        \* the names of the variables in its environment
    reviews     \* clean reviews so far

vars == <<stage, conf, name, found, argv, line, host, user, mounts, env, reviews>>

Roles == {"implementer", "adversary", "merger"}
\* External: what the orchestrator's environment and PATH may hold.
Secrets == {"GH_TOKEN", "VDD_BWRAP_PIN", "API_KEY"}
Ambient == {"PATH", "HOME", "CLAUDE_CONFIG_DIR"} \cup Secrets
Paths == [1..2 -> {"nothing", "store", "other"}]

Workspace(root) == root \o <<".workspace", "mine">>

----------------------------------------------------------------------------
(* config.rs *)

\* A direct worker's arguments, as paths: an interpreter, a script that is in
\* the repository or not, arguments of its own.
DirectArgvs == { <<>>, << <<"bash">>, <<"tests", "x.sh">>, <<"tests", "x.sh">> >>,
                 << <<"bash">>, <<"lost.sh">> >> }
InRepository == { <<"tests", "x.sh">> }

\* The fields of config.toml that can be refused, or that the launch reads
\* (kind and argv stand for those of the role that is launched).
ConfigFiles == [mode : {"n-rounds", "judge", "human"},
           n_rounds : 0..MAX_ADVERSARY_ROUNDS + 1,
           enabled : BOOLEAN, answer_retry_interval_s : {0, 300},
           kind : {"direct", "claude"}, argv : DirectArgvs]

\* OrchestratorConfig::default, and what is kept of a configuration here.
Default == [n_rounds |-> 2, kind |-> "direct",
            argv |-> << <<"bash">>, <<"tests", "x.sh">> >>]
Kept(c) == [n_rounds |-> c.n_rounds, kind |-> c.kind,
            argv |-> IF c.kind = "direct" THEN c.argv ELSE <<>>]

ensure_supported(c) == c.mode = "n-rounds"

\* Mutant: the bound is off by one.
rounds_within_one(c) == c.n_rounds >= 1 /\ c.n_rounds <= MAX_ADVERSARY_ROUNDS + 1

ensure_rounds_reachable(c) == c.n_rounds >= 1 /\ c.n_rounds <= MAX_ADVERSARY_ROUNDS
ensure_valid(c) == ~(c.enabled /\ c.answer_retry_interval_s = 0)

\* OrchestratorConfig::load: no file is the default, unchecked; a file is
\* parsed, then checked.
Load ==
    /\ stage = "boot"
    /\ \/ conf' = Default /\ stage' = "loaded"
       \/ stage' = "refused" /\ UNCHANGED conf      \* unreadable, or not the schema
       \/ \E c \in ConfigFiles :
            /\ conf' = Kept(c)
            /\ stage' = IF ensure_supported(c) /\ ensure_rounds_reachable(c)
                             /\ ensure_valid(c)
                          THEN "loaded" ELSE "refused"
    /\ UNCHANGED <<name, found, argv, line, host, user, mounts, env, reviews>>

----------------------------------------------------------------------------
(* main.rs and bin/vetinari.rs: where the orchestrator keeps its books, and  *)
(* where a query command looks for them                                      *)

\* main: the directory it is started in is the repository's root.
orchestrator_dir(cwd) == Append(cwd, ".orchestrator")

ancestors(path) == {SubSeq(path, 1, n) : n \in 0..Len(path)}

\* An override must exist; else the nearest one going up from where one is.
resolve_orchestrator_dir(override, cwd, dirs) ==
    LET candidates == {orchestrator_dir(p) : p \in ancestors(cwd)} \cap dirs
    IN  IF override # Unset THEN {override} \cap dirs
        ELSE {c \in candidates : \A other \in candidates : Len(other) <= Len(c)}

\* open_state: read-only, so a state.db that is not there is not made.
open_state(dir, databases) == {Append(dir, "state.db")} \cap databases

\* open_crosslink: the tracker next to the directory.
open_crosslink(dir, dirs) == {Append(Front(dir), ".crosslink")} \cap dirs

----------------------------------------------------------------------------
(* the launch *)

\* WorkspaceName::generate.
Generate ==
    /\ stage = "loaded"
    /\ \E p \in Phases, id \in RawIds, r \in {0, 1}, u \in UuidWords :
         name' = from_parts(p, id, r, u)
    /\ stage' = "named"
    /\ UNCHANGED <<conf, found, argv, line, host, user, mounts, env, reviews>>

\* recovery's workspace_name_from: the name is read off the directory.
Restart ==
    /\ stage = "named"
    /\ found' = parse(as_str(name))
    /\ stage' = "recovered"
    /\ UNCHANGED <<conf, name, argv, line, host, user, mounts, env, reviews>>

\* resolve_script_argv: no arguments are no command; the script, and nothing
\* else, is looked up in the repository.
SCRIPT_ARGV_INDEX == 2
resolve_script_argv(args, root) ==
    IF args = <<>> THEN {}
    ELSE {[k \in DOMAIN args |-> IF k = SCRIPT_ARGV_INDEX /\ args[k] \in InRepository
                                   THEN <<"/">> \o root \o args[k] ELSE args[k]]}

\* ClaudeSpawn::claude_argv; flags and numbers are plain text.
Plain == <<"a">>
HEADLESS_BOOTSTRAP == <<"a", " ", "a">>
claude_argv(allowlist, denylist, prompt) ==
    <<Plain, Plain, HEADLESS_BOOTSTRAP, Plain, Plain, Plain, allowlist>>
    \o (IF denylist = <<>> THEN <<>> ELSE <<Plain, denylist>>)
    \o <<Plain, prompt, Plain, Plain>>

\* WorkerCommand::direct and WorkerCommand::claude.
CommandFor(role) ==
    /\ stage = "loaded" /\ user' = role
    /\ \/ /\ conf.kind = "direct" /\ resolve_script_argv(conf.argv, host.root) = {}
          /\ stage' = "refused" /\ UNCHANGED <<argv, env>>
       \/ /\ conf.kind = "direct"
          /\ argv' \in resolve_script_argv(conf.argv, host.root)
          /\ env' = scrub_env_prefix(Ambient, {})
          /\ stage' = "unboxed"
       \/ /\ conf.kind = "claude"
          /\ \E allow, prompt \in Arguments : argv' = claude_argv(allow, allow, prompt)
          /\ stage' = "command" /\ UNCHANGED env
    /\ UNCHANGED <<conf, name, found, line, host, mounts, reviews>>

worker_command == CommandFor("implementer")
adversary_worker_command == CommandFor("adversary")
merger_worker_command == CommandFor("merger")

\* spawn of a claude worker begins with the pin.
VerifyPin ==
    /\ stage = "command"
    /\ \E pin \in {"", "store"}, path \in Paths :
         stage' = IF verify_pin(pin, path) THEN "pinned" ELSE "refused"
    /\ UNCHANGED <<conf, name, found, argv, line, host, user, mounts, env, reviews>>

\* ClaudeSpawn::to_argv: the sandbox, and in it nix-shell --run with one line.
to_argv(role, at, args) ==
    [sandbox |-> bwrap_prefix(role, at, Workspace(at.root)), run |-> shell_join(args)]

\* The sandbox's host is resolved, the workspace must have its shell.nix, the
\* task is written to a file, and the arguments become one command line for
\* nix-shell --run.
Resolve ==
    /\ stage = "pinned"
    /\ host' \in Hosts
    /\ \/ /\ stage' = "refused" /\ UNCHANGED <<line, mounts, env>>
          /\ ConfigMissing(host') \/ "shell.nix" \notin host'.has
       \/ /\ ~ConfigMissing(host') /\ "shell.nix" \in host'.has
          /\ line' = to_argv(user, host', argv).run
          /\ mounts' = to_argv(user, host', argv).sandbox
          /\ env' = scrub_env_prefix(Ambient, IF host'.config = Unset THEN {}
                                              ELSE {"CLAUDE_CONFIG_DIR"})
          /\ stage' = "running"
    /\ UNCHANGED <<conf, name, found, argv, user, reviews>>

\* The worker calls a tool: one nobody may answer for stops it until the
\* worker timeout.
CallTool ==
    /\ stage = "running" /\ user \in Roles
    /\ \E call \in Calls : ToolOutcome(user, call) = "wedged"
    /\ stage' = "timed_out"
    /\ UNCHANGED <<conf, name, found, argv, line, host, user, mounts, env, reviews>>

\* The round ends; static QA gets a sandbox of its own.
RunQa ==
    /\ stage = "running" /\ user = "implementer"
    /\ user' = "qa"
    /\ mounts' = qa_mounts(host, Workspace(host.root))
    /\ env' = scrub_env_prefix(Ambient, {})
    /\ UNCHANGED <<stage, conf, name, found, argv, line, host, reviews>>

\* run_adversary_review's loop, for an issue whose reviews are all clean.
Review ==
    /\ stage \in {"loaded", "review"} /\ reviews < MAX_ADVERSARY_ROUNDS
    /\ reviews' = reviews + 1
    /\ stage' = IF reviews' >= conf.n_rounds THEN "converged"
                ELSE IF reviews' = MAX_ADVERSARY_ROUNDS THEN "poisoned" ELSE "review"
    /\ UNCHANGED <<conf, name, found, argv, line, host, user, mounts, env>>

Init ==
    /\ stage = "boot" /\ conf = Default
    /\ name = from_parts("graphed", <<>>, 0, "deadbeef")
    /\ found = {}
    /\ argv = <<>> /\ line = <<>>
    /\ host = [root |-> <<"srv", "repo">>, config |-> Unset, dirs |-> {}, has |-> {}]
    /\ user = "implementer" /\ mounts = <<>> /\ env = {} /\ reviews = 0

Next == Load \/ Generate \/ Restart
        \/ worker_command \/ adversary_worker_command \/ merger_worker_command
        \/ VerifyPin \/ Resolve \/ CallTool \/ RunQa \/ Review

Spec == Init /\ [][Next]_vars

----------------------------------------------------------------------------
(* properties *)

\* The path of one's own workspace, and for the roles that commit also the
\* repository's stores.
Granted(p) ==
    \/ IsPrefix(Workspace(host.root), p)
    \/ /\ role_gets_jj(user)
       /\ \E d \in {".jj", ".git"} : IsPrefix(Append(host.root, d), p)

\* Files asked about: of the repository and its parent, of this and another
\* workspace, and elsewhere.
Probes ==
    {host.root \o q : q \in { <<>>, <<"src">>, <<".jj", "repo">>, <<".git", "refs">>,
                              <<".crosslink", "db">>, <<".orchestrator", "state.db">>,
                              <<".workspace", "mine", "src">>,
                              <<".workspace", "other", "src">> }}
    \cup {Front(host.root), host.config, Append(host.config, "x"), <<"nix", "x">>, <<"tmp", "x">>}
    \cup {InHome(q) : q \in { <<"x">>, <<".claude", "x">>, <<".config", "jj", "x">> }}

WritesPersist ==
    \A p \in Probes : Persists(mounts, p) <=> Granted(p)

ReviewerSeesNoStore ==
    ~role_gets_jj(user) /\ (host.config = Unset \/ ~IsPrefix(host.config, host.root))
        => \A d \in {".jj", ".git"} : ~Shows(mounts, Append(host.root, d))

\* What a sandbox may show of the host beside the role's own mounts, and the
\* hosts whose stores are not in there, but for a configuration above the repository.
ShownDirs(h) ==
    { <<"nix">>, <<"etc">> } \cup {InHome(c) : c \in Range(RoCandidates)}
    \cup Range(config_overlays(h))
StoresAreApart(h) ==
    \A d \in ShownDirs(h), store \in {".jj", ".git"} :
        IsPrefix(d, Append(h.root, store))
            => h.config # Unset /\ d = h.config /\ IsPrefix(d, h.root)

\* Whatever it is given, and a worker outside of a sandbox too, no process gets
\* a secret; a claude that is told of a configuration can see it.
EnvironmentIsClean ==
    /\ stage \in {"unboxed", "running"} => env \cap Secrets = {}
    /\ stage = "running" /\ "CLAUDE_CONFIG_DIR" \in env => Shows(mounts, host.config)

\* In every sandbox a write persists exactly where it was granted: wherever
\* the repository lies (under HOME or /tmp, which the sandbox replaces) and
\* whatever directory claude's configuration is in, the mounts of the role
\* (for_role) win over those they overlap (base_mounts), and nothing else is
\* writable.  A reviewer and the QA script never see the repository's stores,
\* unless CLAUDE_CONFIG_DIR names a directory above the repository.  No worker
\* is handed the orchestrator's secrets, and claude is told of no configuration
\* that its sandbox hides.
SandboxHolds ==
    (stage = "running" => WritesPersist /\ ReviewerSeesNoStore) /\ EnvironmentIsClean

\* Issue ids are numbers, titles are anything.
BranchesDiffer ==
    \A id, other \in RawIds, title, its \in RawIds :
        /\ Width(slugify(title, SLUG_MAX)) <= SLUG_MAX
        /\ Len(sanitize(id)) = 1 /\ Len(sanitize(other)) = 1
           /\ branch_name(id, title, SLUG_MAX) = branch_name(other, its, SLUG_MAX)
             => sanitize(id) = sanitize(other)

\* Both forms of a remote, with and without .git and a last slash; a bare path.
PrGoesWherePushed ==
    LET tails == {<<"o", "/", "r">> \o t : t \in { <<>>, <<"/">>, <<".git">>, <<".git", "/">> }}
        remotes == {<<"https", "://", "github", "/">> \o t : t \in tails}
                   \cup {<<"git@github", ":">> \o t : t \in tails}
    IN  /\ \A url \in remotes : for_remote(url, {}) = {<< <<"o">>, <<"r">> >>}
        /\ parse_owner_repo(<<"/", "o", "/", "r", ".git">>) = {}

\* What zellij prints before the id of a new pane, and the panes it may be.
PaneIsFound ==
    \A kind \in PanePrefixes, digits \in {<<"7">>, <<"7", "0">>},
       banner \in UNION {[1..k -> { <<>>, <<"note">>, <<"terminal_">>, <<"terminal_", "0">>,
                                    <<"terminal_", "7", "note">> }] : k \in 0..2} :
        LET ids == extract_pane_id(banner \o << <<kind>> \o digits >>)
        IN  /\ ids = {<<kind>> \o digits}
            /\ \A id \in ids : split_pane_id(id) =
                 {[is_plugin |-> kind = "plugin_", id |-> IF Len(digits) = 1 THEN 7 ELSE 70]}

\* A workspace may hold copies of what a revision has of .orchestrator/ and
\* .crosslink/; the databases are never part of a revision.
CommandsFindTheBooks ==
    LET repo  == <<"srv", "repo">>
        books == orchestrator_dir(repo)
        mine  == Workspace(repo)
    IN  \A copies \in SUBSET {orchestrator_dir(mine), Append(mine, ".crosslink")},
           cwd \in {repo, Append(repo, "src"), mine, Append(mine, "src"), Front(repo)},
           override \in {Unset, books, Append(repo, "lost")} :
        LET dirs == {books, Append(repo, ".crosslink")} \cup copies
            read == UNION {open_state(dir, {Append(books, "state.db")}) :
                             dir \in resolve_orchestrator_dir(override, cwd, dirs)}
            copied == orchestrator_dir(mine) \in copies /\ IsPrefix(mine, cwd)
        IN  /\ read # {} <=> \/ override = books
                             \/ override = Unset /\ IsPrefix(repo, cwd) /\ ~copied
            /\ read # {} => \A dir \in resolve_orchestrator_dir(override, cwd, dirs) :
                  open_crosslink(dir, dirs) = {Append(repo, ".crosslink")}

NamesAreReadBack ==
    /\ found = {name}
    /\ \A id \in RawIds :
         workspace_issue_matches(name, id)
            <=> from_parts(name.phase, id, 0, "deadbeef").issue = name.issue
    /\ \A role \in Roles, id \in RawIds, round \in {0, 1} :
         LET issue == from_parts(name.phase, id, 0, "deadbeef").issue IN
           pane_name(role, issue, round) = pane_name("merger", name.issue, name.round)
             => role = "merger" /\ issue = name.issue /\ round = name.round

\* A workspace's directory name gives its name back after a restart, and
\* matches exactly the ids that sanitize to the issue's (recovery's
\* landing_change_revset looks a landing's workspace up this way); the names
\* of two workers' panes differ, and a worker is polled and closed by the id of
\* the pane it was put in, whatever else zellij prints.  Two issues never share a
\* branch, whatever their titles and wherever the cap cuts them, and a pull
\* request goes to the GitHub repository the branch was pushed to.  From
\* anywhere in the repository a query command reads the running orchestrator's
\* state.db and its tracker -- but finds none from within a workspace whose
\* revision has files in .orchestrator/ (resolve_orchestrator_dir).
NamesRoundTrip ==
    /\ stage = "boot" => BranchesDiffer /\ PrGoesWherePushed /\ PaneIsFound
                       /\ CommandsFindTheBooks
    /\ stage = "recovered" => NamesAreReadBack

ArgumentsSurvive == stage = "running" => ShWords(line) = argv

TailIsWhole == \A out \in Outputs, err \in Outputs :
    LET both == split_lines(out) \o split_lines(err)
    IN  from_output(combine(out, err), TAIL_LINES)
          = SubSeq(both, IF Len(both) > TAIL_LINES
                           THEN Len(both) - TAIL_LINES + 1 ELSE 1, Len(both))

PatchIsTheChange == \A script \in Scripts, m \in {"644", "755"} :
    LET file(lines, mode) == [mode |-> IF lines = <<>> THEN NoMode ELSE mode,
                              lines |-> lines, binary |-> FALSE]
        edits  == [path |-> script, other |-> <<>>]
        before == [path |-> file(LeftOf(script), "644"), other |-> file(<<>>, "644")]
        after  == [before EXCEPT !.path = file(RightOf(script), m)]
        patch  == render_git_diff(before, after, edits, DIFF_CONTEXT_LINES)
    IN  /\ Apply(patch, before) = after
        /\ \A p \in DOMAIN patch : \A k \in DOMAIN patch[p].hunks :
             NamesItsLines(patch[p].hunks[k], before[p].lines, after[p].lines)

\* Text crosses process boundaries whole: the shell in the sandbox sees the
\* arguments claude was to be given, quotes, spaces and empty ones included
\* (shell_join); the blocker of a failed QA run holds the last lines of
\* stdout followed by stderr, none cut or glued (combine, split_lines); and
\* the patch a reviewer judges, applied to the base, gives the change, at the
\* ends of a file and for new, deleted and unterminated ones too (diff.rs).
TextSurvives ==
    ArgumentsSurvive /\ (stage = "boot" => TailIsWhole /\ PatchIsTheChange)

\* With every configuration the loader accepts, an issue whose reviews are
\* clean converges, after at least one of them.
AcceptedConfigConverges ==
    /\ stage # "poisoned"
    /\ stage = "converged" => reviews >= 1

----------------------------------------------------------------------------
(* What holds between any two steps (the inductive invariants behind the     *)
(* properties).                                                              *)

\* What runs, runs in the sandbox of its host and of who it is, in a scrubbed
\* environment.
LaunchInv ==
    /\ stage \in {"command", "pinned"} => user \in Roles
    /\ stage = "running" =>
        /\ host \in Hosts /\ user \in Roles \cup {"qa"}
        /\ mounts = IF user = "qa" THEN qa_mounts(host, Workspace(host.root))
                    ELSE bwrap_prefix(user, host, Workspace(host.root))
        /\ "CLAUDE_CONFIG_DIR" \in env => user # "qa" /\ host.config # Unset
    /\ stage \in {"unboxed", "running"} => env \cap Secrets = {}

\* A name is made of a phase, an issue's id, a round and a uuid, and what is found
\* is what it reads as.
NameInv ==
    /\ stage \in {"named", "recovered"} =>
        \E p \in Phases, id \in RawIds, r \in {0, 1}, u \in UuidWords :
          name = from_parts(p, id, r, u)
    /\ stage = "recovered" => found = parse(as_str(name))

\* A claude worker's arguments are those of claude_argv, and the line its sandbox
\* runs is made of them.
CommandInv ==
    /\ stage \in {"command", "pinned", "running"} =>
        \E allow, prompt \in Arguments : argv = claude_argv(allow, allow, prompt)
    /\ stage = "running" => line = shell_join(argv)

\* Reviews start from none, and end with the rounds of the configuration.
ReviewInv ==
    /\ stage # "refused" => conf.n_rounds \in 1..MAX_ADVERSARY_ROUNDS
    /\ stage \in {"boot", "loaded"} => reviews = 0
    /\ stage = "review" => reviews \in 1..conf.n_rounds - 1
    /\ AcceptedConfigConverges
=============================================================================
