------------------------------- MODULE EventLog -------------------------------
(***************************************************************************)
(* events.rs: every event goes to the SQLite events table first and is     *)
(* then mirrored as a line of events.jsonl through a BufWriter.  The disk  *)
(* may fill up in the middle of a line, the process may die between the    *)
(* two, and a start rewrites the mirror from the table.                    *)
(*                                                                         *)
(* Event k is the k-th row of the table; its line is written in three      *)
(* pieces, two of JSON and the newline.  A line and what an earlier failure *)
(* left unwritten are assumed to fit into the BufWriter (8 KiB) together:  *)
(* past that it has to write before it takes the line, and a disk that     *)
(* still refuses loses the line for the mirror.                            *)
(***************************************************************************)
EXTENDS Ordered, SequencesExt

\* The issues whose events hold a character of several bytes, such as the dash
\* in a reason; it lies across the first two pieces of the line.
CONSTANT Wide

VARIABLES
    table,    \* the events table: the issue of each event
    file,     \* events.jsonl, in pieces
    buf       \* the BufWriter: pieces not yet written to the file

logvars == <<table, file, buf>>

LogInit == table = <<>> /\ file = <<>> /\ buf = <<>>

\* EventLine::from_row and the newline.
Line(k) == <<<<k, 1>>, <<k, 2>>, <<k, 3>>>>

\* The line and the place in it of the p-th piece of the table's rendering.
Piece(p) == Line(1 + ((p - 1) \div 3))[1 + ((p - 1) % 3)]

\* all_events, rendered in id order.
Render(n) == [p \in 1..(3 * n) |-> Piece(p)]

\* The disk takes the first w pieces, the BufWriter keeps the others.
FlushSome(pieces, w) ==
    /\ file' = file \o SubSeq(pieces, 1, w)
    /\ buf' = SubSeq(pieces, w + 1, Len(pieces))

\* append_event: the row.
append_event(issue) == table' = Append(table, issue) /\ UNCHANGED <<file, buf>>

\* Mutant: a write that fails drops what it could not write.
append_unbuffered(w) ==
    /\ file' = file \o SubSeq(Line(Len(table)), 1, w)
    /\ buf' = buf
    /\ UNCHANGED table

\* EventLog::append: the line joins what an earlier failure left in the buffer,
\* and the flush writes all of it or fails after w pieces.
append(w) ==
    /\ w \in 0..(Len(buf) + 3)
    /\ FlushSome(buf \o Line(Len(table)), w)
    /\ UNCHANGED table

\* The BufWriter is dropped: a last flush, whose failure nobody sees.
DropWriter ==
    /\ \E w \in 0..Len(buf) : file' = file \o SubSeq(buf, 1, w)
    /\ buf' = <<>>
    /\ UNCHANGED table

\* Mutant: the start appends to the mirror that is there.
KeepMirror == buf' = <<>> /\ UNCHANGED <<table, file>>

\* rebuild_from: fs::write truncates,
Truncate == file' = <<>> /\ buf' = <<>> /\ UNCHANGED table

\* and writes the body, or fails on the way.
WriteBody(w) ==
    /\ w \in 0..(3 * Len(table))
    /\ file' = file \o SubSeq(Render(Len(table)), 1, w)
    /\ UNCHANGED <<table, buf>>

-----------------------------------------------------------------------------
(* The readers. *)

\* content.lines(): cut after every newline piece and at the end.
Cuts(content) == {0, Len(content)} \cup {p \in DOMAIN content : content[p][2] = 3}
LinesOf(content) ==
    LET c == Ascending(Cuts(content))
    IN [j \in 1..(Len(c) - 1) |-> SubSeq(content, c[j] + 1, c[j + 1])]

\* serde_json::from_str accepts the line, with or without its newline.
Parses(line) == \E k \in 1..(line[1][1]) : line \in {Line(k), <<<<k, 1>>, <<k, 2>>>>}

\* The text ends in the middle of a character.
InsideCharacter(content) ==
    content # <<>> /\ Last(content)[2] = 1 /\ table[Last(content)[1]] \in Wide

\* read_all: read_to_string refuses a text that is not UTF-8; then an unparsable
\* last line is skipped, an interior one is an error.
read_all(content) ==
    LET lines == LinesOf(content)
        whole == Ascending({j \in DOMAIN lines : Parses(lines[j])})
    IN [ok   |-> /\ ~ InsideCharacter(content)
                 /\ \A j \in 1..(Len(lines) - 1) : Parses(lines[j]),
        rows |-> [n \in DOMAIN whole |-> lines[whole[n]][1][1]]]

\* The trailing limit of a sequence: tail, recent_events reversed, split_off.
LastOf(s, limit) == IF Len(s) > limit THEN SubSeq(s, Len(s) - limit + 1, Len(s)) ELSE s

tail(content, limit) == LastOf(read_all(content).rows, limit)

\* vetinari events --tail K, and with --issue N.
cmd_events(limit) == LastOf([k \in DOMAIN table |-> k], limit)
cmd_events_of(issue, limit) ==
    LastOf(SelectSeq([k \in DOMAIN table |-> k], LAMBDA k : table[k] = issue), limit)
=============================================================================
