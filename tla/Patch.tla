-------------------------------- MODULE Patch --------------------------------
(***************************************************************************)
(* The patch a reviewer is briefed with (jj_api/diff.rs): jj-lib compares  *)
(* two trees and cuts the difference of a file into hunks, the code writes *)
(* them down in git's format.                                              *)
(*                                                                         *)
(* A line is [text, nl]: only the last of a file may lack its newline.  A  *)
(* file is [mode, lines, binary], its mode NoMode when it is not there.    *)
(***************************************************************************)
EXTENDS Ordered, SequencesExt

NoMode == "none"

\* External (jj-lib): an edit script is a sequence of [sigil, line]; the two
\* files it leads from and to, and its hunks: the stretches within context
\* lines of a change, each with the number of lines before it.
Side(script, sigils) ==
    LET kept == At(script, {k \in DOMAIN script : script[k].sigil \in sigils})
    IN  [k \in DOMAIN kept |-> kept[k].line]
LeftOf(script) == Side(script, {" ", "-"})
RightOf(script) == Side(script, {" ", "+"})

unified_diff_hunks(script, context) ==
    LET near == {p \in DOMAIN script : \E q \in DOMAIN script :
                    script[q].sigil # " " /\ p - q \in -context..context}
        first == {p \in near : p - 1 \notin near}
        upto(p) == CHOOSE q \in near : /\ p <= q /\ q + 1 \notin near
                                       /\ p..q \subseteq near
        starts == Ascending(first)
    IN  [k \in DOMAIN starts |->
           LET before == SubSeq(script, 1, starts[k] - 1) IN
             [left  |-> Len(LeftOf(before)), right |-> Len(RightOf(before)),
              lines |-> SubSeq(script, starts[k], upto(starts[k]))]]

\* hunk_start: an empty range reports the line before it.
hunk_start(start, len) == IF len = 0 THEN start ELSE start + 1

\* write_hunks: the header's numbers, then each line with its sigil; one that
\* does not end in a newline is followed by a remark.
write_hunks(hunks) ==
    [k \in DOMAIN hunks |->
       LET lines == hunks[k].lines
           lens == [left |-> Len(LeftOf(lines)), right |-> Len(RightOf(lines))]
       IN [from |-> hunk_start(hunks[k].left, lens.left), from_len |-> lens.left,
           to |-> hunk_start(hunks[k].right, lens.right), to_len |-> lens.right,
           body |-> [j \in DOMAIN lines |->
                       [sigil |-> lines[j].sigil, text |-> lines[j].line.text,
                        remark |-> ~lines[j].line.nl]]]]

\* write_file_diff: what the stanza says of the mode; nothing more when the
\* contents are equal, no hunks when one of them is binary.
write_file_diff(left, right, script, context) ==
    [mode |-> IF left.mode = NoMode THEN <<"new file mode", right.mode>>
              ELSE IF right.mode = NoMode THEN <<"deleted file mode", left.mode>>
              ELSE IF left.mode # right.mode THEN <<"new mode", right.mode>>
              ELSE <<"index", left.mode>>,
     content |-> IF left.lines = right.lines THEN "same"
                 ELSE IF left.binary \/ right.binary THEN "binary" ELSE "hunks",
     hunks |-> IF left.lines = right.lines \/ left.binary \/ right.binary THEN <<>>
               ELSE write_hunks(unified_diff_hunks(script, context))]

\* render_git_diff: a stanza for every path at which the trees differ, the
\* file on either side materialized; no copies or renames are looked for.
render_git_diff(before, after, edits, context) ==
    [p \in {q \in DOMAIN before : before[q] # after[q]} |->
        write_file_diff(before[p], after[p], edits[p], context)]

----------------------------------------------------------------------------
(* External (git apply, or a reader): what a patch makes of a file.         *)

\* The lines before the hunk are copied, its own replace those it names.
ApplyHunk(done, hunk, lines) ==
    LET start == IF hunk.from_len = 0 THEN hunk.from ELSE hunk.from - 1
        new == At(hunk.body, {k \in DOMAIN hunk.body : hunk.body[k].sigil # "-"})
    IN  [out |-> done.out \o SubSeq(lines, done.read + 1, start)
                 \o [k \in DOMAIN new |-> [text |-> new[k].text, nl |-> ~new[k].remark]],
         read |-> start + hunk.from_len]

ApplyStanza(patch, left) ==
    LET all == FoldLeft(LAMBDA done, h : ApplyHunk(done, h, left.lines),
                        [out |-> <<>>, read |-> 0], patch.hunks)
    IN  [mode |-> IF patch.mode[1] = "deleted file mode" THEN NoMode ELSE patch.mode[2],
         lines |-> all.out \o SubSeq(left.lines, all.read + 1, Len(left.lines)),
         binary |-> FALSE]
Apply(patch, tree) ==
    [p \in DOMAIN tree |-> IF p \in DOMAIN patch THEN ApplyStanza(patch[p], tree[p])
                           ELSE tree[p]]

\* The hunks name the lines they take from the left and give to the right.
NamesItsLines(hunk, left, right) ==
    LET took == At(hunk.body, {k \in DOMAIN hunk.body : hunk.body[k].sigil # "+"})
        gave == At(hunk.body, {k \in DOMAIN hunk.body : hunk.body[k].sigil # "-"})
    IN  /\ \A k \in DOMAIN took : left[hunk.from + k - 1].text = took[k].text
        /\ \A k \in DOMAIN gave : right[hunk.to + k - 1].text = gave[k].text
        /\ hunk.to_len = Len(gave)
==============================================================================
