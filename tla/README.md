# Vetinari: a TLA+ verification project

Vetinari is an orchestrator that drives AI workers over the issues of a tracker:
an Implementer writes a change in a jj workspace, a static QA gate and a row of
Adversaries judge it, and the orchestrator lands it on `main` (or opens a pull
request). It is one thread that keeps all its state in `state.db` (SQLite), jj
and the tracker, and it must survive being killed between any two effects. That
is what this project is about. Paths below are relative to
`crates/orchestrator/src/` unless they say otherwise.

## 1. Inventory

| part | state | operations | hard because | what makes it correct |
|---|---|---|---|---|
| build pump (`pump.rs`) | the issue's row, worker rows, workspaces, locals of one drive | pick up, implement, QA, review, converge, land, merge conflicts, requeue, poison, park | long call with a durable effect every few lines; locals die with the process; workers outlive it | only vetted work lands; every row and workspace is given back; every issue ends |
| local landing (`landing.rs`) | `landing` substates, `main` | rebase, bookmark move, terminal write; resume at a substate | crash between jj and state.db; main moves underneath | main loses nothing it was seen to have, work lands once, conflicts never land |
| remote landing (`landing.rs`) | `landing` substates, branch, pull request | point, push, find, open or adopt a pull request | crash between GitHub and state.db | at most one open pull request, on vetted work |
| recovery (`recovery.rs`) | everything durable | decision table, rollback, replay, resume, quarantine | may die itself; sees only what was persisted | no unvetted landing, nothing leaks, terminal is final |
| artifacts (`artifacts.rs`, `pump.rs`) | DONE, findings, `posted_artifacts` ledger, comments | verify, plan, post, record, replay, rehydrate | post and record are two effects; comments are parsed back | no comment lost or repeated beyond the crashes; findings reach every later worker; no unattested clean round |
| workspace manager and jj (`workspace.rs`, `crates/jj_api`) | operations, workspaces, bookmarks, remote branches | prepare, forget, snapshot, rebase, fast-forward, push, diff | jj is shared with workers and people; each call loads the head operation anew | main keeps what it had, a foreign push is never overwritten, what was judged is what lands |
| state.db (`state.rs`) | issues, active_workers, posted_artifacts, events, schema version | single-statement writes, migrations | the granularity of a crash; a reader beside the writer | phases and substates consistent; the version says what is there |
| tick (`pump.rs`) | all issues | ingest, drive under a budget, resume approved, sweep answers | issues share budget and main; peers smuggle labels | lifecycle of every issue, no starvation |
| answer-back (`answer.rs`, `crates/crossbridge_api`) | answer substates, attempts | arm, deliver, retry, retire, close | delivery and record are two effects; caps; landing wipes the substate; replies get lost | answered, and once |
| spawner and zellij (`spawn.rs`, `crates/zellij_host`) | panes, deadlines | spawn, wait, close, close and wait | panes outlive the orchestrator; late or unreadable answers, commands that hang | no workspace is judged or removed under a live worker; every round ends unless zellij hangs |
| QA gate (`qa.rs`) | child, two pipes, two readers, deadline | spawn, drain, poll, kill, classify | bubblewrap's failures look like the script's; full pipes | a verdict is the script's own |
| sandbox and roles (`spawn.rs`, `roles/`) | mounts, environment, tool rules | put together per role and for QA | mounts overlap | writes persist where granted and nowhere else; reviewers see no store; no secrets |
| event log (`events.rs`) | events table, `events.jsonl`, its buffer | append, rebuild, read | two sinks; partial writes; readers at any time | the file is always a beginning of the table; only its tail may be torn |
| start-up, CLI (`main.rs`, `bin/vetinari.rs`), crosslink (`crates/crosslink_api`) | server thread, labels | start, relabel, stop, `graph`, `events` | labels change by several commands; two sources are read one after the other | labels follow phases; views are honest; the process ends |
| configuration (`config.rs`) | - | load, validate, worker arguments | boundaries | what is accepted can converge |
| errors, xtask | - | - | - | not modelled |

The pump calls landing, workspaces, QA and spawning; the tick calls the pump,
then answer-back; start-up runs recovery once and then ticks for ever
(`main.rs`). All of them communicate through `state.db`, jj and the tracker, never
through memory that survives a crash.

## 2. Modules

| module | models |
|---|---|
| `IssueState` | variables and primitives of one issue: the row, worker rows, workspaces, trunk, branch and pull requests, the orchestrator's locals |
| `LocalLanding`, `RemoteLanding` | `land_local`, `resume_from`, `retry_land_after_merge`; `land_remote`, `resume_remote_from`, the pull request opener |
| `Recovery` | `plan_recovery`, `recover_issue` and its plans, the crash |
| `BuildPump` | `drive_issue` and everything below it; composes the four above |
| `BuildPumpProperties` | what is claimed of it, its inductive invariants, the refinement mapping |
| `Lifecycle` | abstract specification of one issue: ready, working, parked, landed, stopped |
| `Tick`, `TickProperties` | many issues: ingest, drive budget, approval, answer sweep, delivery over the wire, restart; every issue keeps `Lifecycle` |
| `Artifacts` | formats and pure functions: findings, follow-ups, DONE, `translation_plan`, rendering and parsing back |
| `ArtifactLedger`, `ArtifactProperties` | the rounds of an issue as far as artifacts, comments and the ledger go, with crash and replay |
| `WorkerHost`, `QaGate` | a worker in its pane; the QA child, its readers and its deadline |
| `WorkerRound` | composes the two into one Implementer round, with its properties |
| `EventLog`, `Schema` | the events table and its mirror; migrations |
| `Observers` | composes the two with start-up, tick, labels and shutdown, and with those who watch: a reader of the file and the `vetinari` command |
| `JjApi`, `JjRepo` | `jj_api` calls as functions of a view; the workspace manager's sequence of jj transactions among other jj processes |
| `Sandbox`, `Spelling`, `Patch` | algorithms: mounts and tool rules; names, branches, shell words, output tails, pane ids; git diffs |
| `Launch` | composes the three from configuration to a running worker, with its properties |
| `MCArtifacts`, `MCLaunch` | small inputs for TLC |
| `Ordered` | a set of numbers in ascending order, the selected places of a sequence |
| `BuildPumpProofs` | proofs: types, the workspace in hand, `main` loses only what came between a check and its move; what the pump lands or opens a pull request on is vetted; the inbound gate, resolved merges, landing once, one pull request; rows and workspaces given back, one crash lands vetted work, the pump implements `Lifecycle` |
| `TickProofs` | proofs: answers, the caps, every issue of the tick keeps `Lifecycle` |
| `ArtifactProofs`, `WorkerProofs` | proofs: the ledger, clean rounds, findings on their way to the next worker; the round of a worker and its QA gate |
| `JjProofs` | proofs: main, the branch and the Merger's tree among other jj processes |
| `ObserverProofs` | proofs: the log and its readers, the labels, the views of the `vetinari` command |
| `LaunchProofs` | proofs: mounts and environment, accepted configurations; names, panes, branches, remotes; shell words, output tails, patches |
| `OrderedProofs` | lemmas about ascending sets, selected places, flattened sequences and folds, shared by the last two and by `ArtifactProofs` |

`BuildPump`, `ArtifactLedger`, `WorkerRound`, `JjRepo` and `Observers` look at one
issue's drive (or, in `Observers`, at two) through five different lenses; each has
the control of the others as far as its own state depends on it, with the steps it
does not look at contracted, as its header says.

### How state and steps correspond to the code

*Granularity.* One action makes one durable effect: one SQL statement, one jj
transaction, one call to GitHub, the tracker or a peer. `pc` (`step`, `host`, `op.pc`)
names the next effect, and a crash is enabled before every one. An error that the
code propagates with `?` out of the pump ends the process (`run_loop`), so in
`BuildPump` it is a `Crash` at that point. Errors that are handled are steps:
`WorkerFails`, `PlanFails` and `RecordRefused` (recovery quarantines), `SweepError`, a
best-effort `forget` that fails. A state.db error inside `remove_worker`, which the code
swallows, is not modelled apart from a crash.

*Commits.* In `BuildPump` they are records of what landing and review tell apart:
whose work it is (`origin`), where it stands (`base`, the length of the linear trunk
below it), where the work is relative to the commit (`own`, `below`, `gone`), and how
it came to be. A fast-forward is two steps there too, the check and the move, and what
somebody else puts on main in between is marked `raced`. In `JjRepo` a commit is its
history, a sequence of `<<author, version>>` labels, because there ancestry and rewriting
are the point; a ref target is a set of commits and a conflicted one has several.

*jj.* A call reads the view at the head operation; a writing call opens a transaction
on it and `Publish` merges it with the view as it is then, the way jj-lib merges
concurrent operations (`MergeViews`, external). Nothing is fetched: the code never does.

*Workspaces* carry what `WorkspaceName` carries (phase, round, uuid). `Spelling` has
the text: a word is one character of the model, chosen so that phases contain the
separator and ids look like rounds and uuids.

*Artifacts.* A file is the sequence of its lines, each blank, garbage or a record; its
hash is the content it stands for; a text of several lines keeps its first line and
the rest apart, because that is what rendering and parsing treat differently. Paths and
names of evidence files are taken to be of one line. Lengths
of titles and rationales are numbers, at and over the code's own limits.

*QA.* Output is counted in units; the pipe holds one, the capture two and the script
writes three, so that it can block, flood and push the sentinel out of the capture.

*Files of a workspace.* In `JjRepo` they are two numbers of edits: of the files jj tracks,
and of those created since the last jj command of the worker. The worker's own command
tracks the latter; the orchestrator's snapshot does not.

*Events.* A line is written in three pieces, so that the disk can refuse any part of
it; the line and what an earlier failure left are assumed to fit the BufWriter's 8 KiB.
The events of the issues in `Wide` have a character of two bytes across the first two
pieces. `Observers` has of recovery what others can see: a row that is left, rolled back,
landed or quarantined, and the event of it.

*History variables* (`qa_passed`, `clean`, `flagged`, `source` of a
trunk entry; `human`, `delivered`, `wire` in `Tick`; `clean`, `abandoned`, `strays`,
`torn`, `published`, `foreign`, `judged`, `marks`) record what happened; no guard of
the orchestrator reads them.

*Substates.* `qa_running` and `qa_passed_pending_transition` are in the table but
nothing writes them. The answer substates are off in `BuildPump`
(`crossbridge.enabled = false`) and on in `Tick`.

*Tick* abstracts the drive of one issue to the stages of `Lifecycle`, which
`BuildPump` is checked to implement; in exchange it has many issues, the labels a
peer may have smuggled in, and the answer machine. Of the workspaces it keeps which issues
have one left over (`orphans`), because recovery's scan lands that without asking the gate.
`list_issues` orders by the text of the id, `drivable_issue_ids` by number: the same for
ids with as many digits.

## 3. Runs

Bounds are chosen so that each mechanism is used at least once beyond its limit:
the round limits are reached and exceeded, two crashes let one orphan a workspace
or a comment and the next find it, an advance of main makes a rebase necessary, makes the check
refuse, or falls between check and move. Deadlock is not checked where the system really
stops (its issue is terminal, its launch is over); the tick never stops, and there it
is checked.

| run | states | shows |
|---|---|---|
| `landings` | 6 918 285 | local and remote, inbound (an issue approved early takes the path of an own one), two crashes at any effect, main moving at any time, failing plans, GitHub and event log: `ChosenWorkIsVetted`, `PrIsVetted`, `PumpInboundGate`, `NoUnresolvedMergeLands`, `LandsOnce`, `OneOpenPr`, `OnlyRacedIsLost` |
| `one_fault` | 2 683 614 | one crash, one failed cleanup and an event log that refuses recovery's records: `OnlyVettedLands` (workspace scan included), `Reclaimed` |
| `lifecycle` | 140 221 | refinement: the pump implements `Lifecycle`; liveness: `OwnIssueEnds`, `ApprovedIsResumed`, with one crash |
| `tick_crash` | 1 037 712 | two issues, any routing labels, one crash that may leave a workspace behind: `KeepsLifecycle`, `ClosedIsDelivered`, `FanOut` |
| `tick_live` | 1 068 169 | two issues, one survived error, lost reply or failed forget: `DeliveredOnce`; liveness: `PeerIsAnswered`, `EveryIssueEnds` |
| `artifacts` | 35 396 | four Implementer and seven Adversary outputs (limits reached and exceeded, missing file, garbage, blank lines), two rounds, two crashes: `LedgerIsHonest`, `CopiesAreCrashes`, `PostedFindingsAreBriefed`, `CleanRoundsAreAttested`; liveness: `FinishedWorkIsPublished` |
| `worker_round` | 82 107 | worker, pane, script, readers and clocks interleave, two crashes, zellij commands that hang: `VerdictIsTheScripts`, `QuietRemoval`, `QaReadsQuietTree`; liveness: `RoundEnds` |
| `observers` | 1 487 640 | two issues, one kill with the recovery after it, one refused write: `ReaderSeesPrefix`, `ViewsAreHonest`, `LabelsFollowPhase`; liveness: `ExitEnds` |
| `repo` | 9 762 098 | three workspaces, edited and new files, two foreign commits on main, one foreign push, one failing call, two crashes: `MainKeepsPublished`, `ForeignPushKept`, `RejectedOnlyForOthers`, `MergeLandsAsJudged` |
| `launch` | 163 468 | every small host, configuration, role, name, argument, output and edit: `SandboxHolds`, `NamesRoundTrip`, `TextSurvives`, `AcceptedConfigConverges` |

`one_fault` cannot be merged with `lifecycle`: a workspace that was not forgotten lets
one crash land inbound work without its approval, as `v_second_crash` explains.

Fairness is weak fairness of the orchestrator's next step (one thread that always
goes on; every wait for a worker or for the QA script ends at its deadline, but none of
those for the `zellij` command itself: while one hangs, `host = "hung"`, there is no next
step, and `RoundEnds` says that nothing else holds a round up), of the QA
gate's two reader threads (they only block on an empty pipe), and of the clock. An
orchestrator that died is started again. Workers, scripts, bubblewrap, zellij, humans,
peers and GitHub are not fair: nothing depends on a worker finishing or a human
approving.

### What the code does not do

Two runs check a sentence of the repository's documentation and TLC finds a behaviour
of the code against it; `PROJECT.json` has the quotes.

| run | behaviour |
|---|---|
| `v_second_crash` | an Implementer workspace orphaned by one crash is landed, unreviewed, by the recovery from a second; the approval of inbound work is not looked at on that path either |
| `v_clobber` | `fast_forward_bookmark` checks and moves in two loads of the repository under a mutex of one process: what another jj process puts on main in between is dropped from main |

More disagreements came up while modelling and can be read off the modules; they
have no standing run. Landing and recovery:

* a crash after main was moved and before `bookmark_moved_complete` is written: the
  issue is quarantined or parked although main has its work (landing.rs:351; "Re-entry at
  any landing substate thus converges on the same terminal state", landing.rs:71);
* the empty-commit guard compares with main as it is now, so an empty commit lands when
  main moved during the round (pump.rs:1070; workspace.rs:447-449);
* work below an empty working-copy commit lands without having been in the reviewed
  diff (pump.rs:1184; the prompt allows `jj commit`/`jj new`, roles/implementer.rs:202);
* an event line refused at recovery, after the phase was written, quarantines the issue,
  and if that phase was terminal it is not any more: main has the work of an
  `orchestrator-error` (landing.rs:398-412, recovery.rs:493-501 and 884; "Terminal issues are
  done and skipped", recovery.rs:481); `RecordRefused`, why `ImplementsLifecycle` needs a log
  that takes every line;
* a landing resumed at `rebase_started` whose rebase conflicts strands the issue in
  `landing/merging` (recovery.rs:625; landing.rs:118-120);
* a `converged` issue is never landed again after a crash, always quarantined: its
  workspace was forgotten when the review began (recovery.rs:37);
* a crash after `push_started` and before the branch exists quarantines (README.md:55);
* the branch name is computed again from the title at recovery, so a retitled issue
  gets a second branch and pull request (recovery.rs:1033);
* Adversary rounds use up the QA retries: both are counted by `round` (pump.rs:276);
* a recovery plan that errs before `clean_crashed_worker` leaves its worker row behind
  (pump.rs:903), and recovery's reaper of extra rows has nothing to do, as an issue never
  has two;
* only a Merger's files are snapshotted before they are judged (pump.rs:1811); what an
  Implementer wrote after its last jj command is judged and never landed (workspace.rs:404);
* that snapshot tracks no new file: one that a Merger created after its last jj command is
  in the tree QA judges and not in the commit that lands (jj_api's snapshot.rs:54-60, and
  its doc at 28; "exactly as the `jj` CLI does", snapshot.rs:2); `MergeLandsAsJudged` is
  about the files jj tracks;
* a failed `create` removes the directory and leaves the registration; names are fresh,
  so no later prepare cleans it up;
* `parse_owner_repo` makes `tmp/origin` of `file:///tmp/origin.git` and drops any host,
  so push and pull request can go to different places (landing.rs:879); `slugify` drops
  a last word that fits exactly.

Answers:

* a crash between the terminal phase and the arming, or before a re-arm, and issues
  recovery itself ends: the peer is never answered (pump.rs:533; "exactly once", pump.rs:766);
* an error after a round trip is not counted against the per-tick cap, so `FanOut` needs
  a fault-free sweep (answer.rs:374);
* re-arming gives an exhausted answer one more attempt than the cap (answer.rs:108);
* if the blocker comment of the first failed delivery errs, none is ever posted
  (answer.rs:109);
* a tracker error while closing an answered issue at restart quarantines a terminal
  issue, so `KeepsLifecycle` needs a fault-free restart (state.rs:156);
* the client's read timeout is per read: a peer that dribbles stalls the thread
  (crates/crossbridge_api/src/answer.rs:150).

Artifacts:

* a blocker posted by a failed QA run carries the Implementer's tag, and only the
  Adversary's are rehydrated: the next Implementer is not told of it after a requeue
  (pump.rs:2044, pump.rs:2245; README.md:15);
* `exit_status` of a DONE only words the comment: a review that reports an error and has
  an empty `findings.jsonl` counts as clean (artifacts.rs:1099);
* an Adversary's row is removed before its findings are translated, so a crash in
  between loses them (pump.rs:1313); only Implementers are replayed;
* `replay_done` posts follow-ups and never adds `followup:proposed` (pump.rs:2376);
* malformed follow-ups of an Adversary with findings end the process each time;
* of two declared `findings.jsonl` only the first decides about convergence and is collected
  for the next worker (artifacts.rs:493-509), while the findings of every one are posted
  (artifacts.rs:1133; "the convergence decision and the posted comments come from identical
  bytes", artifacts.rs:506): what only the second has is a comment that no worker of the
  same drive is told of, so `FindingsReachWorkers` needs one file;
* a claim of several lines is cut to its first when read back; the ledger key has no role
  and no workspace, so equal artifacts of two workers are one comment.

Processes:

* `run_zellij` waits for the command without a limit (crates/zellij_host/src/zellij.rs:16),
  and `wait` and `close_and_wait` look at their deadlines between commands only
  (spawn.rs:1405, 1463): one that hangs stops the orchestrator ("until the worker exits or
  `timeout` elapses", spawn.rs:1387);
* a script that writes more than `MAX_CAPTURE_BYTES` pushes the sentinel out of the
  capture, and a passing run is reported as an unavailable sandbox (qa.rs:125);
* recovery takes it that a pane-hosted worker is gone after a process death
  (recovery.rs:740); panes outlive the orchestrator, so `QuietRemoval` excludes crashes;
* the default `WorkerKind` runs without a sandbox, and an Implementer's sandbox has `.git/`
  (spawn.rs:445-454; README.md:24);
* a configuration with `max_concurrent_agents = 0` is accepted and drives nothing.

Watching:

* `vetinari graph` reads state.db before the tracker and can leave out an issue that is
  ingested in between (bin/vetinari.rs:306-317);
* run from within a workspace whose revision has files in `.orchestrator/` (the
  templates this repository commits), `vetinari` takes that directory for the
  orchestrator's and finds no state.db
  (bin/vetinari.rs:709-717; "run from inside the repo", bin/vetinari.rs:725);
* `touch_heartbeat` has no caller, so every worker is shown stale after 120 s;
* a landing cut between its row and its label, and any landing recovery finishes, keeps
  the old phase label for ever; so does what recovery quarantines, and what it rolls back
  keeps it until the next transition of the pump (recovery.rs:775 and 890): only the pump's
  `transition` and `land` relabel;
* a line torn inside a character makes `read_all` fail altogether, as `read_to_string`
  refuses the text (events.rs:297-301; reasons have dashes, pump.rs:1189; "readers tolerate
  that torn *tail*", events.rs:30); the next start rebuilds the file;
* with a backlog that an earlier failure left, a line may not fit the buffer any more and is
  lost for the mirror until the next start, while the disk refuses (events.rs:218);
* that the crossbridge server thread has ended is never noticed;
* the comment on `cmd_crossbridge` says answer substates are shown as `-`; they are joined
  in (bin/vetinari.rs:576-596); state.rs says the pump's opener sets no `busy_timeout`, and it does.

## 4. Proofs

The proofs hold for every value of the constants that satisfies the named assumptions:
`ConfigAssumption` (`1 <= n_rounds <= MAX_ADVERSARY_ROUNDS`, which `config.rs` validates,
see `AcceptedConfigConverges`; positive limits), `EnvironmentAssumption`, `TickAssumption`,
`ObserverAssumption` (finitely many issues, numbered from 1, as crosslink does),
`OutputAssumption` (a DONE is of the types serde reads: lists of artifacts, of lines and of
evidence files, and a claim that has a first line, maybe an empty one), `JjBounds` (the
bounds are numbers), `LaunchBounds` (`MAX_ADVERSARY_ROUNDS` admits the default
`n_rounds = 2`, which nothing checks, config.rs; `TAIL_LINES` and `SLUG_MAX` are 50 and
40 in the code and assumed positive), `HostAssumption`, `IdAssumption` and `TextAssumption` (paths, ids and
texts are sequences) and `ScriptAssumption` (so are edit scripts, each line kept, taken out
or put in; the context is a number). So they are about any number of crashes,
foreign advances, failed cleanups, issues, hosts, names, texts and retries. Where a theorem needs
more, its ASSUME says so and the table does too. Each rests on an inductive invariant
that is a conjunction of named parts, and TLC has checked each of those on the run of
its module before it was proved.

| theorem | property | extra assumption | along |
|---|---|---|---|
| `TypeOKHolds` | `TypeOK` | | `TypeInv` |
| `OnlyTheRaceIsLost` | `OnlyRacedIsLost` | | `TypeInv`, `PlaceInv` |
| `LandedWorkIsVetted`, `PullRequestIsVetted` | `ChosenWorkIsVetted`, `PrIsVetted` | | `VettedInv` |
| `InboundGateHolds` | `PumpInboundGate` | | `GateInv` |
| `MergesAreResolved` | `NoUnresolvedMergeLands` | | `MergeInv` |
| `WorkLandsOnce` | `LandsOnce` | | `PlaceInv` (`OnceInv`, `PastTheGuard`) |
| `PullRequestIsUnique` | `OneOpenPr` | | itself |
| `NothingIsLeftBehind` | `Reclaimed` | | `ReclaimInv`, `OrphansAreCounted` |
| `OneCrashLandsVetted` | `OnlyVettedLands` | at most one crash | `ScanInv` |
| `PumpImplementsLifecycle` | `ImplementsLifecycle` | at most one crash, no failed cleanup, no refused event line | `StageInv` |
| `ClosedOnlyIfDelivered`, `AnsweredAtMostOnce` | `ClosedIsDelivered`, `DeliveredOnce` | | `TickInv` |
| `FanOutWithoutFaults` | `FanOut` | no fault | `TickInv` |
| `TickImplementsLifecycle` | `KeepsLifecycle` | no fault, at most one crash | `TickInv`, `OrphansFollowCrash` |
| `LedgerRowsHaveComments`, `CommentsRepeatPerCrash` | `LedgerIsHonest`, `CopiesAreCrashes` | | `LedgerInv` |
| `FindingsReachWorkers` | `PostedFindingsAreBriefed` | an Adversary's DONE declares one `findings.jsonl` | `OutputInv`, `BriefInv` |
| `CleanRoundsAreReal` | `CleanRoundsAreAttested` | | `OutputInv` |
| `VerdictsAreTheScripts`, `RemovalsAreQuiet`, `QaTreeIsQuiet` | `VerdictIsTheScripts`, `QuietRemoval`, `QaReadsQuietTree` | | `WorkerInv` |
| `MainIsKept` | `MainKeepsPublished` | | `RepoInv`, `MainInv` |
| `ForeignCommitsAreKept`, `OwnPushIsAccepted` | `ForeignPushKept`, `RejectedOnlyForOthers` | | `RepoInv`, `PushInv` |
| `ResolutionsLandAsJudged` | `MergeLandsAsJudged` | | `RepoInv`, `MainInv`, `PushInv`, `MergeInv` |
| `SandboxesHold` | `SandboxHolds` | no store is in a directory that every sandbox shows | `LaunchInv` |
| `ConfigsConverge` | `AcceptedConfigConverges` | | `ReviewInv` |
| `NamesRoundTrips` | `NamesRoundTrip` | | `NamesComeBack` along `NameInv`; `PanesAreFound`, `BranchesAreApart`, `PrsGoWherePushed`, `BooksAreFound` |
| `TextsSurvive` | `TextSurvives` | | `ArgumentsArrive` along `CommandInv`; `TailsAreTheLines`, `PatchesAreTheChange` |
| `ReaderSeesTheTable`, `ViewsTellTheTruth`, `LabelsAreTheirPhases` | `ReaderSeesPrefix`, `ViewsAreHonest`, `LabelsFollowPhase` | | `ObserverInv` |

### The extra assumptions

They are the limits of the code, not of the prover.

* *At most one crash* for `OnlyVettedLands`: `v_second_crash` is a behaviour with two.
  What the pump chose itself is vetted without this assumption (`LandedWorkIsVetted`).
* *No failed cleanup* for `ImplementsLifecycle`: a workspace that was not forgotten lets
  the scan after one crash land an inbound issue that nobody approved. *No refused event
  line* there either: recovery's quarantine of a terminal issue is no step of `Lifecycle`.
* *No fault* for `FanOut`: an error after a round trip is not counted. What holds with
  faults is proved beside it: `WireIsBounded` (the cap and one more per fault).
* *No fault and at most one crash* for `KeepsLifecycle`: a tracker error while closing an
  answered issue at restart quarantines a terminal issue, and a second crash, or one after a
  failed forget, has an orphan landed without the gate (`v_second_crash`). What holds with
  any number of both is proved beside it: `LifecycleUnlessRecoveryErrs` (every step but
  these two, `CloseErrs` and `LandsOrphan`).
* *One `findings.jsonl`*, or copies of it, for `PostedFindingsAreBriefed`: see Artifacts
  above. `MCArtifacts` assumes the same of its outputs.
* *Stores are apart* for `SandboxHolds`: every sandbox shows `/nix`, `/etc`, some of HOME's
  `.config` and claude's directories (`ShownDirs`), so a repository in one of them shows its
  stores to a reviewer; `CLAUDE_CONFIG_DIR` above the repository is excepted by the property
  itself. `MCLaunch` assumes the same of its hosts (`MCHostAssumption`).

### The inductive invariants

*The pump.* `TypeOK` alone is not inductive. The uniqueness of workspace names needs
that every uuid is at most `minted`, and the types of what the pump reads from the
workspace in hand need that it is registered (`InHand`). `TypeInv` is the three together.
`bookmark_move` replaces everything above the base of the change, so `OnlyTheRaceIsLost`
rests on the guard `CanFastForward`, asked one step before, and on `PastTheGuard`: from the
guard to the move main grows only by what is marked `raced`. That this is lost is the
finding of `v_clobber`, where the two loads of the repository are taken apart further.

`VettedInv` follows one piece of work from its workspace to main. New work is fresh:
nobody has judged its origin and the persisted streak is 0 (`WorkIsFresh`, the point of
the reset in `run_implementer_round`); what is reviewed passed QA (`QaBeforeReview`); the
persisted streak equals the number of clean rounds of this very work (`StreakIsEarned`);
so at convergence it is vetted, and it stays so in the pinned change, the stored
`landing_change`, the Merger's workspace, the branch and the push (`LandingIsVetted`,
`PushIsVetted`). A landing that recovery derives from a workspace scan is kept apart
(`ScanIsContained`): that one is not vetted, see `v_second_crash`.

`GateInv` says at which steps an inbound issue is approved already (`GateWasPassed`):
those after the one test in `land`, and those of a remote landing, resumed or not, whose
substates only an approved issue gets. `MergeInv` says that what is reviewed was never rebased
(`ReviewedIsOriginal`) and what a landing carries is resolved (`LandingIsResolved`).
`OnceInv` counts: every commit that may still land stands on main as it was
(`BasesOnMain`), the move comes after its record (`MoveIsRecorded`), and once main has
the work, whatever may still land stands below the end of main, so that the move is
refused (`LandingIsOver`).

`ReclaimInv` follows the worker row: wherever a crash can leave one, `plan_recovery` has
a plan for it that drops it (`WorkHasPlan`, `RowIsFollowed`, `HandIsEmpty`), and nothing is registered but
the workspace in hand while nothing crashed or leaked (`OnlyInHand`). `OrphansAreCounted`
counts the others: a crash leaves at most the one that was in hand, a failed forget one.
`ScanInv` adds that before the first crash a round has one Implementer workspace (`OneOfRound`), so what the
scan finds after it is the work that converged (`ScanIsVetted`).

*The refinement.* `StageInv` relates the step to the phase (`PhaseOfStep`,
`StageAtStep`) and says that a scan after one crash finds nothing (`NothingToScan`). Then
each action that writes the phase is a step of `Lifecycle` and each other one a stutter.
For `Tick` the same is proved for every issue at once, from `ApprovalIsHuman`, and that no
orphan is landed before a second failure from `OrphansFollowCrash`.

*The tick.* `TickInv` has one part for each thing the sweep relies on: the answer
substate rides a terminal phase, the lists read at its start are still true when an
issue's turn comes (`ListIsCurrent`, `HandIsCurrent`), what is recorded as sent was
delivered, one delivery was made for each issue, apart from crashes and faults
(`OneDeliveryEach`), and round trips are at most the counted ones and the faults
(`SweepIsCapped`).

*The ledger.* `LedgerInv` accounts for each copy of a comment: by its row, by the record
that is about to be written (`Unrecorded`), or by a crash (`Allowance`).

*A finding's way.* `BriefInv` follows a finding from its file to the next worker. Each
comment of an Adversary was made of a finding that survives it (`IsRecord`, `Sound`): the
last location line is the finding's own, whatever its claim looks like (lemmas
`BodyOfFinding`, `CommentParses`). A drive starts with all that the tracker has
(`RebuiltFromTracker`) and collects the findings of a review before the first of them is
posted (`PlanIsRecorded`), so wherever a worker may start, every posted finding is known
(`Known`), and what is known is in what a worker is handed (`HandedOver`). `OutputInv`
says that the DONE in hand is one its worker may leave; with it, only a review without
findings adds a clean round.

*A round.* `WorkerInv` relates the row to the pane (`RowAndPane`), the step of the host
to the life of the worker (`WorkerHasEnded`, `OneLiveWorker`), and the gate to its child:
nothing comes out of it before bubblewrap hands over (`SilentUntilHandoff`), and a
verdict is reached when the script ended and its readers are done (`VerdictIsFinal`).

*The repository.* The invariants of `JjRepo` build on one another. `RepoInv`: a ref that
no concurrent process touched has one target, an operation in flight changes main only
if it is a landing (`OnlyMainMoves`), and the worker in hand has a workspace
(`WorkInTree`). `MainInv`: the targets of main are published and not below one another,
and the move goes to a commit above what it was checked against, or the race is marked;
so a merge of views loses nothing. `PushInv`: the branch and what jj tracks end in a
worker's commit, and the remote ends in somebody else's as soon as somebody else pushed;
so a lease never matches a foreign push. `MergeInv`: before static QA has judged it, no
published commit has a label of the Merger, and then all have the judged one, of the files
jj tracks.

*What others see.* `ObserverInv` has three parts. The log: the file and the buffer behind
it are, piece by piece, a beginning of the rendered table, complete whenever no line is
due, and so is what a reader has (`LogIsPrefix`, `ReaderIsPrefix`); that such a beginning
parses, unless it ends inside a character, and, when complete, reads back as the table is a
fact about `read_all` (`BeginningsRead`, `WholeFileReads`). The labels: what the lists of ingest and
`set_phase_label` say of what is still on them (`ListIsCurrent`), and how far the
transition in hand has come; what recovery wrote is out of step with its label until the
pump's next transition (`torn`). The schema: `user_version` says what is in the database, and
what is left to apply is what is missing (`SchemaIsKnown`).

*The launch.* `LaunchInv` only says that what runs is in the sandbox put together for its
host and for who it is. The rest is about the mounts, for any path: nothing below a role's
own mounts can be written (`BottomIsLower`), those of its own that are over a path are of
one kind (`RoleAgrees`, since what is below a directory is below it in one place only,
`OneWayDown`), and so they decide (`TopDecides`, `BoxGrants`). `ReviewInv` bounds the reviews of an issue by the rounds of the
configuration, and those by the limit. `NameInv` says of what a name was made; no phase is
the beginning of another (`PhasesAreApart`: two begin with the same word and then differ),
so the shortest that `match_phase` finds is the name's own, whatever words the id has
(`PhaseIsFound`).

*Text.* `CommandInv` says of what a worker's arguments were put together and that the line
is made of them; the rest of `TextSurvives`, and all of `NamesRoundTrip` but the name in
hand, is about functions, and holds in every state. `ArgumentsAreRead` takes the shell
along the line: before each argument it has read the earlier ones and stands at the start of
a word, and within a quoted one a `'` of the argument takes it out of the quotes, over a
backslash and back in. `TailsAreWhole` reads two outputs at once: what `combine` puts
between them ends the last line of the first and starts none, after a `\r` too.
`PatchesGiveTheChange` goes hunk by hunk: a maximal stretch of lines near a change is a
hunk, what lies between two hunks is the same on both sides, and so after each hunk git
apply has read and written as many lines as the script has up to its end. Widths of slugs
and the first match of a remote are what their folds and choices say (`SlugFits`,
`BareIs`, `AfterIs`). `BranchesAreApart` is about ids of one word, as the tracker's numbers
are: the dash after it ends it.

What ranges over the constants is ids, titles, arguments, outputs and scripts. Pane banners,
the forms of a remote and the directories in which a command is run are enumerated in the
properties themselves, by the code's own distinctions.

*Sequences.* Most operators the proofs are about have no induction in them: a set is put in
order by rank (`Ascending`), a piece of the log is a function of its place (`Piece`). Others
have: what a sequence has at selected places (`At`), the community modules' `FlattenSeq`, of
which a plan is made, and their `FoldLeft`, of which the readers of text are made. What is
proved of the first two is which elements they have (`AtPlaces`, `FlattenedHasAll`); a fold
is a run of its step from the start to its value (`FoldRuns`), and what its step keeps holds at each
point of the run. The inductions are over sets of numbers (`SetInduction`,
`InductUpTo`: a least one that is missing would have a predecessor that is not), because the
library's induction theorems cannot be used; so each says what one given fold computes,
and none is a principle for all of them.

### Only model-checked

* Liveness: `OwnIssueEnds`, `ApprovedIsResumed`, `PeerIsAnswered`, `EveryIssueEnds`,
  `FinishedWorkIsPublished`, `RoundEnds`, `ExitEnds`. Fairness and ENABLED are beyond the
  prover.

Every invariant and every action property of the passing runs is proved.

## 5. Plan

What is left is the hazards without a property (`PROJECT.json`): give them one where the
code can be said to promise something there.

## 6. Not modelled

* Prompts, wording, log lines, error types: text without protocol.
* TOML, SQL and JSON parsing: serde's and SQLite's; what the code decides on the parsed
  values is modelled.
* bubblewrap, zellij, jj-lib, git, GitHub, the crossbridge protocol: external, modelled
  by what the code relies on and marked so in the map.
* `vetinari`'s other views (status, workers, crossbridge): one query and a table each.
* `jj_api`'s describe and status, which the orchestrator does not call, and log, which
  it renders as text; xtask, a build-time linter.
