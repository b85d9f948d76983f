------------------------------- MODULE Sandbox -------------------------------
(***************************************************************************)
(* What a sandboxed process can see and change (spawn.rs): the bubblewrap  *)
(* mounts of a worker by role and of the static QA script, and the tool    *)
(* rules claude is started with (roles/).                                  *)
(*                                                                         *)
(* A path is the sequence of its components.  A mount is [at, kind]; the   *)
(* sandbox's root is empty, so a path is what the last mount at one of its *)
(* ancestors makes of it.                                                  *)
(***************************************************************************)
EXTENDS Ordered, SequencesExt

Home == <<"home">>
Unset == <<>>   \* an environment variable that is unset or empty
InHome(p) == Home \o p

Mount(kind, at) == [kind |-> kind, at |-> at]
Mounts(kind, paths) == [i \in DOMAIN paths |-> Mount(kind, paths[i])]

\* A host: the repository's root, CLAUDE_CONFIG_DIR (a path or Unset), and
\* the directories that exist under HOME.
\* resolve_home_sh_ro: the read-only candidates that exist.
RoCandidates == << <<".nix-profile">>, <<".local", "state", "nix">>,
                   <<".config", "git">>, <<".config", "jj">> >>
ro_binds(host) ==
    LET found == At(RoCandidates, {k \in DOMAIN RoCandidates :
                                     InHome(RoCandidates[k]) \in host.dirs})
    IN  [i \in DOMAIN found |-> InHome(found[i])]

\* resolve_claude_config: CLAUDE_CONFIG_DIR must exist when it is set;
\* otherwise the default directory if there is one; the legacy one too.
ConfigMissing(host) == host.config # Unset /\ host.config \notin host.dirs
config_overlays(host) ==
    LET default == InHome(<<".config", "claude">>)
        legacy  == InHome(<<".claude">>)
        first   == IF host.config # Unset THEN <<host.config>>
                   ELSE IF default \in host.dirs THEN <<default>> ELSE <<>>
    IN  first \o (IF legacy \in host.dirs /\ ~Contains(first, legacy)
                    THEN <<legacy>> ELSE <<>>)

\* What every sandbox starts from: HOME, /run and /tmp are fresh.
Common == << Mount("tmpfs", Home), Mount("ro", <<"nix">>), Mount("ro", <<"etc">>),
             Mount("proc", <<"proc">>), Mount("dev", <<"dev">>),
             Mount("tmpfs", <<"run">>), Mount("tmpfs", <<"tmp">>) >>

\* SandboxHost::base_mounts, for workers.
base_mounts(host) ==
    Common \o Mounts("ro", ro_binds(host)) \o Mounts("overlay", config_overlays(host))

\* SandboxHost::qa_mounts, for static_qa.sh: no configuration, one workspace.
qa_mounts(host, ws) ==
    Common \o Mounts("ro", ro_binds(host)) \o <<Mount("rw", ws)>>

role_gets_jj(role) == role \in {"implementer", "merger"}

\* MountMatrix::for_role.
for_role(role, root, ws) ==
    << Mount("rw", ws), Mount("ro", root \o <<".crosslink">>) >>
    \o (IF role_gets_jj(role)
          THEN << Mount("rw", root \o <<".jj">>), Mount("rw", root \o <<".git">>) >>
          ELSE <<>>)

\* Mutant: the role's mounts come first.
bwrap_role_first(role, host, ws) == for_role(role, host.root, ws) \o base_mounts(host)

\* ClaudeSpawn::bwrap_prefix: the role's mounts come last.
bwrap_prefix(role, host, ws) == base_mounts(host) \o for_role(role, host.root, ws)

\* resolve_on_path: what the first entry of PATH that holds the program leads to.
resolve_on_path(path) == SelectSeq(path, LAMBDA target : target # "nothing")

\* SandboxPin::verify: the bwrap found first is the pinned one; no pin, no spawn.
verify_pin(pin, path) ==
    /\ pin # "" /\ resolve_on_path(path) # <<>>
    /\ Head(resolve_on_path(path)) = pin

\* scrub_env_prefix: env -i, the allowlist, and what is asked for in addition.
WORKER_ENV_ALLOWLIST == {"PATH", "HOME", "TERM"}
scrub_env_prefix(ambient, extra) == (WORKER_ENV_ALLOWLIST \cap ambient) \cup extra

\* External (bubblewrap): what becomes of a path.
MountOf(mounts, p) ==
    LET covering == {i \in DOMAIN mounts : IsPrefix(mounts[i].at, p)}
    IN  IF covering = {} THEN "none"
        ELSE mounts[CHOOSE i \in covering : \A j \in covering : j <= i].kind
Persists(mounts, p) == MountOf(mounts, p) = "rw"
Shows(mounts, p) == MountOf(mounts, p) \in {"ro", "rw", "overlay"}

----------------------------------------------------------------------------
(* Tool rules.  A call is a sequence of words; a rule covers every call it   *)
(* is a prefix of.                                                           *)

Cargo == { <<"cargo", "build">>, <<"cargo", "test">> }
Files == { <<"Read">>, <<"Write">>, <<"sha256sum">> }
Jj(verbs) == {<<"jj">> \o v : v \in verbs}

\* ALLOWED_TOOLS of the three roles.
allowed_tools(role) == Files \cup Cargo \cup
    CASE role = "implementer" ->
           Jj({<<"describe">>, <<"commit">>, <<"new">>, <<"diff">>, <<"show">>,
               <<"log">>, <<"status">>, <<"files">>})
           \cup { <<"Edit">>, <<"cargo", "fmt">>, <<"cargo", "clippy">> }
      [] role = "merger" ->
           Jj({<<"resolve">>, <<"restore">>, <<"status">>, <<"diff">>})
           \cup { <<"Edit">> }
      [] OTHER -> {}

\* DISALLOWED_TOOLS of the three roles.
HistoryVerbs == Jj({<<"git", "push">>, <<"git", "fetch">>, <<"abandon">>, <<"op">>,
                    <<"rebase">>, <<"squash">>, <<"split">>, <<"edit">>,
                    <<"workspace">>})
disallowed_tools(role) == { <<"git">> } \cup
    CASE role = "implementer" -> HistoryVerbs
      [] role = "merger" ->
           HistoryVerbs \cup Jj({<<"bookmark">>, <<"new">>, <<"commit">>})
      [] OTHER -> { <<"jj">> }

\* External (claude, --permission-mode default): a denied call is refused, an
\* allowed one runs, any other waits for an answer nobody gives.
Covers(rules, call) == \E r \in rules : IsPrefix(r, call)
ToolOutcome(role, call) ==
    IF Covers(disallowed_tools(role), call) THEN "refused"
    ELSE IF Covers(allowed_tools(role), call) THEN "runs" ELSE "wedged"
=============================================================================
