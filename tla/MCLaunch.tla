------------------------------ MODULE MCLaunch ------------------------------
(* Small inputs for Launch. *)
EXTENDS Launch

Texts(chars, n) == UNION {[1..k -> chars] : k \in 0..n}

\* The repository under HOME, under /tmp or elsewhere; the configuration in
\* its default place, above the repository, within it, or named but absent.
MCHosts ==
    {[root |-> r, config |-> c, has |-> h, dirs |-> d \cup {x \in {c} : x # <<"lost">>}] :
        r \in {<<"home", "repo">>, <<"tmp", "repo">>, <<"srv", "repo">>},
        c \in {<<>>, <<"home">>, <<"srv">>, <<"home", ".claude">>,
               <<"srv", "repo", "conf">>, <<"lost">>},
        d \in { {}, { <<"home", ".claude">>, <<"home", ".config", "claude">>,
                      <<"home", ".config", "jj">> } },
        h \in { {"shell.nix"} }}
    \cup {[root |-> <<"srv", "repo">>, config |-> <<>>, dirs |-> {}, has |-> {}]}

\* What the theorem about sandboxes assumes of hosts.
ASSUME MCHostAssumption == \A h \in MCHosts : StoresAreApart(h)

\* Words that look like rounds, uuids and parts of phases among them.
MCRawIds == UNION {[1..k -> {"7", "r1", "deadbeef", "gate", "#"}] : k \in 0..2}

MCArguments == Texts({" ", "'", "\\"}, 2) \cup {<<"a">>}
MCOutputs == Texts({"a", "\n", "\r"}, 4)

\* Edits of up to five lines, whose last line on either side may lack its
\* newline.
Sigils == {" ", "-", "+"}
Edit(sigil, text) == [sigil |-> sigil, line |-> [text |-> text, nl |-> TRUE]]
Ends(script, p) ==
    \A side \in {{" ", "-"}, {" ", "+"}} : script[p].sigil \in side =>
        \A q \in p + 1..Len(script) : script[q].sigil \notin side
Unterminated(script) ==
    {[p \in DOMAIN script |-> [script[p] EXCEPT !.line.nl = p \notin cut]] :
        cut \in SUBSET {p \in DOMAIN script : Ends(script, p)}}
ShortScripts == UNION {[1..k -> {Edit(s, t) : s \in Sigils, t \in {"x", "y"}}] : k \in 0..4}
LongScripts ==
    {[p \in 1..5 |-> Edit(f[p], IF p % 2 = 0 THEN "x" ELSE "y")] : f \in [1..5 -> Sigils]}
MCScripts == UNION {Unterminated(s) : s \in ShortScripts \cup LongScripts}

MCCalls == { <<"jj", "commit">>, <<"jj", "git", "push">>, <<"jj", "bookmark", "set">>,
             <<"cargo", "test">>, <<"curl">> }
=============================================================================
