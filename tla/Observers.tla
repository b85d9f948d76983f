------------------------------- MODULE Observers -------------------------------
(***************************************************************************)
(* What others see of the orchestrator: the phase labels it projects onto  *)
(* the tracker, events.jsonl (EventLog), the views of the vetinari command *)
(* line tool, and the embedded crossbridge server it runs on a thread.     *)
(* The pump is reduced to the writes it makes for them, in their order:    *)
(* state.db, labels one by one, the events table, the mirror.              *)
(***************************************************************************)
EXTENDS EventLog, Schema, FiniteSets, FiniteSetsExt

CONSTANTS
    Issues,       \* crosslink ids
    Limit,        \* vetinari events --tail
    MaxCrashes,   \* bound: kills of the process
    MaxFaults     \* bound: writes the disk refuses

ASSUME ObserverAssumption ==
    /\ Issues \subseteq Nat \ {0} /\ IsFiniteSet(Issues) /\ Wide \subseteq Issues
    /\ Limit \in Nat /\ MaxCrashes \in Nat /\ MaxFaults \in Nat

\* The lifecycle of one issue, cut down to what a label and a recovery can show.
NextPhase == [p \in {"graphed", "implementing", "adversary-review"} |->
                CASE p = "graphed" -> "implementing"
                  [] p = "implementing" -> "adversary-review"
                  [] OTHER -> "merged"]
PhaseNames == {"graphed", "implementing", "adversary-review", "merged", "orchestrator-error"}

VARIABLES
    phase,     \* state.db: the issue's phase, "none" without a row
    labels,    \* tracker: its phase labels
    blocked,   \* tracker: the issues with an open blocker
    step,      \* where the orchestrator is
    todo,      \* what is left of the migrations, the issues to recover, the
               \* ingest list or the labels to remove
    cur,       \* the issue of the transition under way
    server,    \* the server thread: "off", "up" or, as an exit finds it, "done"
               \* or "stuck"
    tries,     \* [crashes, faults] so far
    torn,      \* history: issues whose last transition a crash or error cut, or
               \* that recovery moved
    reader,    \* a read of events.jsonl under way: [on, got]
    cli        \* vetinari graph: [at, listed, missed]

pump == <<phase, labels, step, todo, cur, server, tries, torn>>
observers == <<reader, cli>>
vars == <<pump, blocked, observers, logvars, db>>

NoRead == [on |-> FALSE, got |-> <<>>]
NoCli == [at |-> "off", listed |-> {}, missed |-> {}]

Init ==
    /\ phase = [i \in Issues |-> "none"]
    /\ labels = [i \in Issues |-> {}]
    /\ blocked = {} /\ step = "down" /\ todo = <<>> /\ cur = 0
    /\ server = "off" /\ tries = [crashes |-> 0, faults |-> 0] /\ torn = {}
    /\ reader = NoRead /\ cli = NoCli
    /\ LogInit /\ SchemaInit

-----------------------------------------------------------------------------
(* crosslink_api. *)

\* list_by_label("open", "phase:graphed"), by id.
list_graphed == {i \in Issues : "graphed" \in labels[i]}
open_blockers(i) == IF i \in blocked THEN {0} ELSE {}

-----------------------------------------------------------------------------
(* main: state.db is migrated, the log rebuilt, the issues recovered, the   *)
(* server started, and the loop entered.                                    *)

\* StateDb::open: user_version is read, a newer database refused.
OpenState ==
    /\ step = "down" /\ ~ Refused
    /\ step' = "migrate" /\ todo' = Pending
    /\ UNCHANGED <<phase, labels, cur, server, tries, torn, logvars, db>>

Migrate ==
    /\ step = "migrate" /\ todo # <<>>
    /\ apply_migration(Head(todo)) /\ todo' = Tail(todo)
    /\ UNCHANGED <<phase, labels, step, cur, server, tries, torn, logvars>>

\* The disk refuses a migration: its transaction is rolled back, main ends.
MigrationFails ==
    /\ step = "migrate" /\ todo # <<>> /\ tries.faults < MaxFaults
    /\ tries' = [tries EXCEPT !.faults = @ + 1]
    /\ step' = "down" /\ todo' = <<>>
    /\ UNCHANGED <<phase, labels, cur, server, torn, logvars, db>>

StartLog ==
    /\ step = "migrate" /\ todo = <<>> /\ Truncate /\ step' = "rebuild"
    /\ UNCHANGED <<phase, labels, todo, cur, server, tries, torn>>

\* The issue that is driven next; landing takes over for its last phase.
Ready == {i \in Issues : phase[i] \in DOMAIN NextPhase}
Landed(i) == phase[i] = "merged"

\* The body is written, and recover lists the issues that have not ended; or the
\* disk refuses and main returns the error.
Rebuild ==
    /\ step = "rebuild"
    /\ \E w \in 0..(3 * Len(table)) :
         /\ WriteBody(w)
         /\ \/ /\ w = 3 * Len(table) /\ step' = "recover"
               /\ todo' = Ascending(Ready) /\ UNCHANGED tries
            \/ /\ w < 3 * Len(table) /\ tries.faults < MaxFaults
               /\ step' = "down" /\ tries' = [tries EXCEPT !.faults = @ + 1]
               /\ UNCHANGED todo
    /\ UNCHANGED <<phase, labels, cur, server, torn>>

\* Recovery's set_phase: the row only, whatever the labels say.
RecoveryWrites(p) ==
    LET i == Head(todo)
    IN /\ phase' = [phase EXCEPT ![i] = p]
       /\ torn' = IF phase[i] = p THEN torn ELSE torn \cup {i}

\* recover_issue: the issue is left as it is; rolled back to implementing
\* (clean_crashed_worker); or a landing that is resumed ends.
recover_issue ==
    /\ step = "recover" /\ todo # <<>>
    /\ \/ todo' = Tail(todo) /\ UNCHANGED <<phase, torn, step>>
       \/ /\ \/ phase[Head(todo)] # "graphed" /\ RecoveryWrites("implementing")
             \/ phase[Head(todo)] = "adversary-review" /\ RecoveryWrites("merged")
          /\ step' = "reemit" /\ UNCHANGED todo
    /\ UNCHANGED <<labels, cur, server, tries, logvars>>

\* quarantine: recover_issue failed (the workspace to land from is gone, say).
quarantine ==
    /\ step = "recover" /\ todo # <<>>
    /\ RecoveryWrites("orchestrator-error") /\ step' = "reemit"
    /\ UNCHANGED <<labels, todo, cur, server, tries, logvars>>

\* emit: the row, then the line.
RecoveryRow ==
    /\ step = "reemit" /\ append_event(Head(todo)) /\ step' = "remirror"
    /\ UNCHANGED <<phase, labels, todo, cur, server, tries, torn>>

RecoveryLine ==
    /\ step = "remirror" /\ append(Len(buf) + 3)
    /\ step' = "recover" /\ todo' = Tail(todo)
    /\ UNCHANGED <<phase, labels, cur, server, tries, torn>>

\* A refused line quarantines the issue; that of the quarantine ends main.
RecoveryLineFails ==
    /\ step = "remirror" /\ tries.faults < MaxFaults
    /\ \E w \in 0..(Len(buf) + 2) : append(w)
    /\ tries' = [tries EXCEPT !.faults = @ + 1]
    /\ RecoveryWrites("orchestrator-error")
    /\ IF phase[Head(todo)] = "orchestrator-error"
       THEN step' = "exit" /\ todo' = <<>> ELSE step' = "reemit" /\ UNCHANGED todo
    /\ UNCHANGED <<labels, cur, server>>

RecoverDone ==
    /\ step = "recover" /\ todo = <<>> /\ step' = "start"
    /\ UNCHANGED <<phase, labels, todo, cur, server, tries, torn, logvars>>

\* serve: the thread is there when main goes on, whatever run() does later.
start_crossbridge ==
    /\ step = "start"
    /\ server' \in {"off", "up"} /\ step' = "idle"
    /\ UNCHANGED <<phase, labels, todo, cur, tries, torn, logvars>>

\* run() has ended by itself (a socket in use), ends now, or hangs in a handler.
\* Nobody asks before the exit, so it is only there that it shows.
ServerSteps ==
    /\ step = "exit" /\ server = "up" /\ server' \in {"done", "stuck"}
    /\ UNCHANGED <<phase, labels, step, todo, cur, tries, torn, logvars>>

\* Mutant: the handle joins its thread without a deadline.
join_thread ==
    /\ server \in {"off", "done"}
    /\ server' = "off" /\ UNCHANGED <<table, file, buf>>

\* Drop for ServerHandle: cancel, wait for the thread or detach it.
join_thread_bounded ==
    /\ server' = "off" /\ UNCHANGED <<table, file, buf>>

\* The error reaches main: the server handle is dropped, then the log.
DropServer ==
    /\ step = "exit" /\ join_thread_bounded /\ step' = "dropped"
    /\ UNCHANGED <<phase, labels, todo, cur, tries, torn>>

DropLog ==
    /\ step = "dropped" /\ DropWriter /\ step' = "down"
    /\ UNCHANGED <<phase, labels, todo, cur, server, tries, torn>>

Kill ==
    /\ tries.crashes < MaxCrashes /\ step # "down"
    /\ tries' = [tries EXCEPT !.crashes = @ + 1]
    /\ step' = "down" /\ todo' = <<>> /\ cur' = 0 /\ server' = "off"
    /\ buf' = <<>>
    /\ torn' = IF cur = 0 THEN torn ELSE torn \cup {cur}
    /\ UNCHANGED <<phase, labels, table, file>>

-----------------------------------------------------------------------------
(* The tick: ingest, and a transition of one issue. *)

IngestList ==
    /\ step = "idle" /\ step' = "ingest"
    /\ todo' = Ascending(list_graphed)
    /\ UNCHANGED <<phase, labels, cur, server, tries, torn, logvars>>

\* StateDb::upsert_issue: the row, new or replaced.
upsert_issue(i, p) == phase' = [phase EXCEPT ![i] = p]

IngestOne ==
    /\ step = "ingest" /\ todo # <<>>
    /\ LET i == Head(todo)
       IN IF open_blockers(i) = {} /\ phase[i] = "none"
          THEN upsert_issue(i, "graphed") ELSE UNCHANGED phase
    /\ todo' = Tail(todo)
    /\ UNCHANGED <<labels, step, cur, server, tries, torn, logvars>>

IngestDone ==
    /\ step = "ingest" /\ todo = <<>> /\ step' = "drive"
    /\ UNCHANGED <<phase, labels, todo, cur, server, tries, torn, logvars>>

NothingToDrive ==
    /\ step = "drive" /\ \A i \in Issues : phase[i] \notin DOMAIN NextPhase
    /\ step' = "idle"
    /\ UNCHANGED <<phase, labels, todo, cur, server, tries, torn, logvars>>

\* Mutant: only the label of the phase that is left is removed.
StaleLabels(i, want) == IF phase[i] = "none" THEN {} ELSE {phase[i]} \ {want}

\* set_phase_label: every other phase label it reads goes.
LabelsToRemove(i, want) == labels[i] \ {want}

\* transition: the row first; set_phase_label then reads the labels.
Transition ==
    /\ step = "drive" /\ Ready # {}
    /\ LET i == Min(Ready)
           to == NextPhase[phase[i]]
       IN /\ to # "merged"
          /\ phase' = [phase EXCEPT ![i] = to]
          /\ todo' = SetToSeq(LabelsToRemove(i, to))
          /\ cur' = i
    /\ step' = "relabel"
    /\ UNCHANGED <<labels, server, tries, torn, logvars>>

\* landing's merged_step: the row, then the event,
set_phase ==
    /\ step = "drive" /\ Ready # {}
    /\ LET i == Min(Ready)
       IN /\ NextPhase[phase[i]] = "merged"
          /\ phase' = [phase EXCEPT ![i] = "merged"]
          /\ cur' = i
    /\ step' = "landed"
    /\ UNCHANGED <<labels, todo, server, tries, torn, logvars>>

emit_transition ==
    /\ step = "landed" /\ append_event(cur) /\ step' = "mirror"
    /\ UNCHANGED <<phase, labels, todo, cur, server, tries, torn>>

\* and back in the pump's land, when all of it went well, the label.
LabelLanded ==
    /\ step = "label"
    /\ todo' = SetToSeq(LabelsToRemove(cur, phase[cur])) /\ step' = "relabel"
    /\ UNCHANGED <<phase, labels, cur, server, tries, torn, logvars>>

label_remove ==
    /\ step = "relabel" /\ todo # <<>>
    /\ labels' = [labels EXCEPT ![cur] = @ \ {Head(todo)}]
    /\ todo' = Tail(todo)
    /\ UNCHANGED <<phase, step, cur, server, tries, torn, logvars>>

label_add ==
    /\ step = "relabel" /\ todo = <<>>
    /\ labels' = [labels EXCEPT ![cur] = @ \cup {phase[cur]}]
    /\ torn' = torn \ {cur}
    /\ IF Landed(cur) THEN step' = "drive" /\ cur' = 0
                      ELSE step' = "emit" /\ UNCHANGED cur
    /\ UNCHANGED <<phase, todo, server, tries, logvars>>

\* A label command fails: the error ends the process.
label_fails ==
    /\ step = "relabel" /\ tries.faults < MaxFaults
    /\ tries' = [tries EXCEPT !.faults = @ + 1]
    /\ torn' = torn \cup {cur} /\ todo' = <<>> /\ cur' = 0 /\ step' = "exit"
    /\ UNCHANGED <<phase, labels, server, logvars>>

\* emit: the row, then the line.
EmitRow ==
    /\ step = "emit" /\ append_event(cur) /\ step' = "mirror"
    /\ UNCHANGED <<phase, labels, todo, cur, server, tries, torn>>

EmitLine ==
    /\ step = "mirror" /\ append(Len(buf) + 3)
    /\ IF Landed(cur) THEN step' = "label" /\ UNCHANGED cur
                      ELSE step' = "drive" /\ cur' = 0
    /\ UNCHANGED <<phase, labels, todo, server, tries, torn>>

\* A refused line ends the process, a landing before its label, or, in the
\* answer sweep, is survived.
EmitFails ==
    /\ step = "mirror" /\ tries.faults < MaxFaults
    /\ \E w \in 0..(Len(buf) + 2) : append(w)
    /\ tries' = [tries EXCEPT !.faults = @ + 1]
    /\ step' \in (IF Landed(cur) THEN {"exit"} ELSE {"drive", "exit"})
    /\ torn' = IF Landed(cur) THEN torn \cup {cur} ELSE torn
    /\ cur' = 0
    /\ UNCHANGED <<phase, labels, todo, server>>

-----------------------------------------------------------------------------
(* Humans and readers. *)

\* An issue is graphed, once, possibly behind a blocker, which is closed later.
Graph(i) ==
    /\ labels[i] = {} /\ phase[i] = "none"
    /\ labels' = [labels EXCEPT ![i] = {"graphed"}]
    /\ blocked' \in {blocked, blocked \cup {i}}
    /\ UNCHANGED <<phase, step, todo, cur, server, tries, torn, observers, logvars, db>>

Unblock(i) ==
    /\ i \in blocked /\ blocked' = blocked \ {i}
    /\ UNCHANGED <<pump, observers, logvars, db>>

\* Someone opens events.jsonl and reads it, piece by piece.  (The file's reader
\* and the command are not run at once: neither sees the other.)
ReadFile ==
    /\ \/ ~ reader.on /\ cli = NoCli /\ reader' = [on |-> TRUE, got |-> <<>>]
       \/ /\ reader.on /\ Len(reader.got) < Len(file)
          /\ reader' = [reader EXCEPT !.got = Append(@, file[Len(@) + 1])]
       \/ reader.on /\ Len(reader.got) >= Len(file) /\ reader' = NoRead
    /\ UNCHANGED <<pump, blocked, cli, logvars, db>>

\* What the view leaves out of what the node knows by then.
Missed(ids) == {i \in Issues : phase[i] # "none" \/ i \in list_graphed} \ ids

\* The end of the command; listed is kept for what was left out.
ShowGraph(ids) ==
    cli' = [at |-> "off", missed |-> Missed(ids), listed |-> cli.listed \cap Missed(ids)]

\* cmd_graph: state.db is opened read-only and its version checked,
open_read_only ==
    /\ cli.at = "off" /\ ~ reader.on /\ verify_schema_version
    /\ cli' = [at |-> "opened", listed |-> {}, missed |-> {}]

\* then list_issues: the issues with a row, whatever their phases,
cmd_graph_begin ==
    /\ cli.at = "opened"
    /\ cli' = [at |-> "read", listed |-> {i \in Issues : phase[i] # "none"}, missed |-> {}]

\* then the graphed issues of the tracker, and the union of both.
cmd_graph ==
    cli.at = "read" /\ ShowGraph(cli.listed \cup list_graphed)

Cli ==
    /\ open_read_only \/ cmd_graph_begin \/ cmd_graph
    /\ UNCHANGED <<pump, blocked, reader, logvars, db>>

-----------------------------------------------------------------------------

Running ==
    \/ StartLog \/ Rebuild \/ recover_issue \/ quarantine \/ RecoveryRow \/ RecoveryLine
    \/ RecoverDone \/ start_crossbridge \/ DropServer \/ DropLog
    \/ IngestList \/ IngestOne \/ IngestDone \/ NothingToDrive
    \/ Transition \/ set_phase \/ emit_transition \/ LabelLanded
    \/ label_remove \/ label_add \/ EmitRow \/ EmitLine

Orchestrator == OpenState \/ Migrate \/ (Running /\ UNCHANGED db)

Next ==
    \/ /\ \/ Orchestrator
          \/ MigrationFails
          \/ (ServerSteps \/ RecoveryLineFails \/ label_fails \/ EmitFails \/ Kill)
               /\ UNCHANGED db
       /\ UNCHANGED <<blocked, observers>>
    \/ \E i \in Issues : Graph(i) \/ Unblock(i)
    \/ ReadFile \/ Cli

Spec == Init /\ [][Next]_vars

\* The orchestrator's own steps are taken while it runs, and it is restarted.
FairSpec == Spec /\ WF_vars(Orchestrator /\ UNCHANGED <<blocked, observers>>)

-----------------------------------------------------------------------------
(* What is claimed. *)

\* events.jsonl is the beginning of the table, piece by piece, whatever the disk
\* refused and wherever the process died: a reader that was at it all the while,
\* across a truncation too, never meets an event the table does not have, and
\* reads what it got without an error, a torn last line skipped, unless its text
\* ends in the middle of a character: then read_to_string refuses all of it.
ReaderSeesPrefix ==
    /\ IsPrefix(reader.got, Render(Len(table)))
    /\ ~ InsideCharacter(reader.got) => read_all(reader.got).ok

\* Between two events, with nothing held back in the buffer, the mirror is
\* exact: a failed append is made good by the next one, a crash by the rebuild,
\* and the last lines of the file are what the command line tool shows.
MirrorExact ==
    (step \in {"recover", "reemit", "start", "idle", "ingest", "drive", "relabel", "emit",
              "landed", "label"}
       /\ buf = <<>>) =>
        /\ tail(file, Limit) = cmd_events(Limit)
        /\ \A i \in Issues :
             cmd_events_of(i, Limit) =
                 LastOf(SelectSeq(read_all(file).rows, LAMBDA k : table[k] = i), Limit)

\* cmd_graph reads state.db and the tracker one after the other: what it leaves
\* out was not tracked at the first read and had been picked up at the second.
GraphMissesOnlyMoved ==
    \A i \in cli.missed : i \notin cli.listed /\ phase[i] \notin {"none", "graphed"}

\* Whatever migration a kill or the disk cut short, user_version says what is in
\* the database, and neither an orchestrator that is past its start nor a
\* command that has opened the database queries a column that is not there.
SchemaIsWhole ==
    /\ db.has = Columns(db.version)
    /\ (step \notin {"down", "migrate"} \/ cli.at # "off") => db.has = Queried

\* What a user of the vetinari command is shown: a whole schema or a refusal;
\* `events` agrees with the mirror whatever failed or died before; and `graph`,
\* run at any moment of a tick, leaves out no issue but one that moved under it.
ViewsAreHonest == SchemaIsWhole /\ MirrorExact /\ GraphMissesOnlyMoved

\* A tracked issue carries its phase as its only phase label, except inside a
\* transition, after one that a crash or an error cut short, and after recovery
\* gave it another phase, which it does without relabelling.  The next
\* transition of the pump that runs to its end repairs either (an issue that a
\* cut landing or the recovery ended has no next: it keeps the label it had).
LabelsFollowPhase ==
    \A i \in Issues :
        (phase[i] # "none" /\ i \notin torn /\ cur # i) => labels[i] = {phase[i]}

\* A process that is ending ends, even when the server thread hangs.
ExitEnds == (step = "exit") ~> (step = "down")

-----------------------------------------------------------------------------
(* Why the safety properties hold: the inductive invariant. *)

\* The steps with a transition under way.
Moving == {"relabel", "landed", "label", "emit", "mirror"}
Recovering == {"recover", "reemit", "remirror"}
Steps == Moving \cup Recovering
           \cup {"down", "migrate", "rebuild", "start", "idle", "ingest", "drive", "exit",
                 "dropped"}

TypeOK ==
    /\ phase \in [Issues -> PhaseNames \cup {"none"}]
    /\ labels \in [Issues -> SUBSET PhaseNames]
    /\ step \in Steps /\ cur \in Issues \cup {0} /\ (cur = 0 <=> step \notin Moving)
    /\ table \in Seq(Issues) /\ {file, buf, reader.got} \subseteq Seq(Nat \X (1..3))
    /\ reader \in [on : BOOLEAN, got : {reader.got}]
    /\ cli \in [at : {"off", "opened", "read"}, missed : SUBSET Issues, listed : SUBSET Issues]

\* What a list says of what is still on it.
ListIsCurrent ==
    /\ step = "migrate" => ~ Refused /\ todo = Pending
    /\ step \in Recovering => todo \in Seq(Issues) /\ (step # "recover" => todo # <<>>)
    /\ step = "ingest" =>
         /\ todo \in Seq(Issues)
         /\ \A n \in DOMAIN todo : phase[todo[n]] = "none" => labels[todo[n]] = {"graphed"}
    /\ step = "relabel" =>
         /\ todo \in Seq(PhaseNames)
         /\ \A p \in labels[cur] \ {phase[cur]} : \E n \in DOMAIN todo : todo[n] = p

\* A label comes before its phase only when humans graph the issue, and stays
\* until the first transition.
GraphedIsLabelled ==
    \A i \in Issues : /\ phase[i] = "none" => labels[i] \in {{}, {"graphed"}}
                      /\ phase[i] = "graphed" => labels[i] = {"graphed"}

\* How far the transition in hand has come.
TransitionIsFollowed ==
    /\ step \in Moving => phase[cur] \in {"implementing", "adversary-review", "merged"}
    /\ step \in {"landed", "label"} => Landed(cur)
    /\ step = "emit" => ~ Landed(cur)
    /\ step \in {"emit", "mirror"} /\ ~ Landed(cur) => labels[cur] = {phase[cur]}

\* The version says what is there, and it is this build's past the start.
SchemaIsKnown ==
    /\ db = [version |-> db.version, has |-> Columns(db.version)]
    /\ db.version \in 0 .. (SCHEMA_VERSION + 1)
    /\ step \notin {"down", "migrate"} \/ cli.at # "off" => db.version = SCHEMA_VERSION

\* File and buffer, one after the other, are a beginning of the rendered table:
\* all of it whenever no line is due.
LogIsPrefix ==
    /\ \A p \in DOMAIN file : file[p] = Piece(p)
    /\ \A p \in DOMAIN buf : buf[p] = Piece(Len(file) + p)
    /\ Len(file) + Len(buf) <= 3 * Len(table)
    /\ step \in {"mirror", "remirror"} => Len(file) + Len(buf) = 3 * (Len(table) - 1)
    /\ step \notin {"mirror", "remirror", "down", "migrate", "rebuild"} =>
         Len(file) + Len(buf) = 3 * Len(table)
    /\ step \in {"down", "migrate", "rebuild"} => buf = <<>>
    /\ step = "rebuild" => file = <<>>

\* A reader has a beginning of the rendered table, too.
ReaderIsPrefix ==
    /\ \A p \in DOMAIN reader.got : reader.got[p] = Piece(p)
    /\ Len(reader.got) <= 3 * Len(table)

ObserverInv ==
    /\ TypeOK /\ ListIsCurrent /\ GraphedIsLabelled /\ TransitionIsFollowed
    /\ SchemaIsKnown /\ LogIsPrefix /\ ReaderIsPrefix
    /\ GraphMissesOnlyMoved /\ LabelsFollowPhase
=============================================================================
