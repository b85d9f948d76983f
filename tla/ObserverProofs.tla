--------------------------- MODULE ObserverProofs ---------------------------
(***************************************************************************)
(* What the readers of events.jsonl, of the phase labels and of the        *)
(* vetinari command see, for any number of issues, kills and refused       *)
(* writes.  First the data: the pieces of a line, reading back; then the   *)
(* inductive invariant, component by component.                            *)
(***************************************************************************)
EXTENDS Observers, OrderedProofs

-----------------------------------------------------------------------------
(* The lines of events.jsonl. *)

Pieces == Nat \X (1..3)

\* A beginning of the rendered table: its pieces are in place.
InPlace(content) == \A p \in DOMAIN content : content[p] = Piece(p)

\* The j-th piece of the (k + 1)-st line, and every place has one.
LEMMA PieceOfLine ==
  /\ \A k \in Nat : \A j \in 1..3 : Piece(3 * k + j) = <<k + 1, j>>
  /\ \A p \in Nat \ {0} : Piece(p) \in Pieces
  /\ \A p \in Nat \ {0} : Piece(p)[2] = 3 <=> p % 3 = 0
  <1>1. ASSUME NEW k \in Nat, NEW j \in 1..3 PROVE Piece(3 * k + j) = <<k + 1, j>>
    <2>1. (3 * k + j - 1) \div 3 = k /\ (3 * k + j - 1) % 3 = j - 1
      OBVIOUS
    <2>2. Piece(3 * k + j) = Line(1 + k)[1 + (j - 1)]
      BY <2>1 DEF Piece
    <2>3. j = 1 \/ j = 2 \/ j = 3
      OBVIOUS
    <2> QED BY <2>2, <2>3 DEF Line
  <1>2. ASSUME NEW p \in Nat \ {0}
        PROVE  \E k \in Nat : \E j \in 1..3 : p = 3 * k + j
    <2>1. (p - 1) \div 3 \in Nat /\ 1 + ((p - 1) % 3) \in 1..3
          /\ p = 3 * ((p - 1) \div 3) + (1 + ((p - 1) % 3))
      OBVIOUS
    <2> QED BY <2>1
  <1>3. ASSUME NEW p \in Nat \ {0}
        PROVE  Piece(p) \in Pieces /\ (Piece(p)[2] = 3 <=> p % 3 = 0)
    <2>1. PICK k \in Nat, j \in 1..3 : p = 3 * k + j
      BY <1>2
    <2>2. Piece(p) = <<k + 1, j>>
      BY <1>1, <2>1
    <2>3. p % 3 = 0 <=> j = 3
      BY <2>1
    <2> QED BY <2>2, <2>3 DEF Pieces
  <1> QED BY <1>1, <1>3

\* The cuts of a beginning of the table are its ends and every third place.
LEMMA CutsInPlace ==
  ASSUME NEW content \in Seq(Pieces), InPlace(content)
  PROVE  /\ Cuts(content) = {0, Len(content)} \cup {p \in 1..Len(content) : p % 3 = 0}
         /\ Cuts(content) \in SUBSET Nat /\ IsFiniteSet(Cuts(content))
  <1>1. DOMAIN content = 1..Len(content) /\ Len(content) \in Nat
    OBVIOUS
  <1>2. \A p \in 1..Len(content) : content[p][2] = 3 <=> p % 3 = 0
    <2>1. \A p \in 1..Len(content) : p \in Nat \ {0} /\ content[p] = Piece(p)
      BY <1>1 DEF InPlace
    <2>2. \A p \in Nat \ {0} : Piece(p)[2] = 3 <=> p % 3 = 0
      BY PieceOfLine
    <2> QED BY <2>1, <2>2
  <1>3. Cuts(content) = {0, Len(content)} \cup {p \in 1..Len(content) : p % 3 = 0}
    BY <1>1, <1>2 DEF Cuts
  <1>4. Cuts(content) \in SUBSET Nat /\ \A p \in Cuts(content) : p <= Len(content)
    BY <1>1, <1>3
  <1>5. IsFiniteSet(Cuts(content))
    BY <1>1, <1>4, FS_BoundedSetOfNaturals
  <1> QED BY <1>3, <1>4, <1>5

\* Three pieces that end a line are that line, and the line parses.
LEMMA WholeLineParses ==
  ASSUME NEW content \in Seq(Pieces), InPlace(content),
         NEW k \in Nat, 3 * k + 3 <= Len(content)
  PROVE  /\ SubSeq(content, 3 * k + 1, 3 * k + 3) = Line(k + 1)
         /\ Parses(Line(k + 1))
  <1>1. /\ content[3 * k + 1] = <<k + 1, 1>> /\ content[3 * k + 2] = <<k + 1, 2>>
        /\ content[3 * k + 3] = <<k + 1, 3>>
    <2>1. \A j \in 1..3 : 3 * k + j \in DOMAIN content
      OBVIOUS
    <2>2. \A j \in 1..3 : content[3 * k + j] = <<k + 1, j>>
      BY <2>1, PieceOfLine DEF InPlace
    <2> QED BY <2>2
  <1>2. SubSeq(content, 3 * k + 1, 3 * k + 3)
          = <<content[3 * k + 1], content[3 * k + 2], content[3 * k + 3]>>
    <2>1. ASSUME NEW s \in Seq(Pieces), Len(s) = 3 PROVE s = <<s[1], s[2], s[3]>>
      BY <2>1
    <2> DEFINE t == SubSeq(content, 3 * k + 1, 3 * k + 3)
    <2>2. /\ t \in Seq(Pieces) /\ Len(t) = 3
          /\ \A j \in 1..3 : t[j] = content[3 * k + j]
      OBVIOUS
    <2> HIDE DEF t
    <2>3. t = <<t[1], t[2], t[3]>>
      BY <2>1, <2>2
    <2>4. t = <<content[3 * k + 1], content[3 * k + 2], content[3 * k + 3]>>
      BY <2>2, <2>3
    <2> QED BY <2>4 DEF t
  <1>3. SubSeq(content, 3 * k + 1, 3 * k + 3) = Line(k + 1)
    BY <1>1, <1>2 DEF Line
  <1>4. Line(k + 1)[1][1] = k + 1 /\ k + 1 \in 1..(k + 1)
    BY DEF Line
  <1>5. Parses(Line(k + 1))
    BY <1>4 DEF Parses
  <1> QED BY <1>3, <1>5

\* Whoever reads a beginning of the table, not cut inside a character, meets no
\* corrupt line but the last.
LEMMA BeginningsRead ==
  ASSUME NEW content \in Seq(Pieces), InPlace(content), ~ InsideCharacter(content)
  PROVE  read_all(content).ok
  <1> DEFINE S == Cuts(content)
             c == Ascending(S)
             m == Len(content)
  <1>1. m \in Nat
    OBVIOUS
  <1>2. S \in SUBSET Nat /\ IsFiniteSet(S) /\ S = {0, m} \cup {p \in 1..m : p % 3 = 0}
    BY CutsInPlace
  <1> HIDE DEF S, m
  <1>3. Cardinality(S) \in Nat /\ c \in [1..Cardinality(S) -> S]
        /\ \A x \in S : \E n \in 1..Cardinality(S) : c[n] = x
    BY <1>2, AscendingByRank, RanksAscend
  <1>4. Len(c) = Cardinality(S)
    BY <1>3
  <1>5. ASSUME NEW j \in 1..(Len(c) - 2)
        PROVE  Parses(SubSeq(content, c[j] + 1, c[j + 1]))
    <2>1. /\ j \in 1..Cardinality(S) /\ j + 1 \in 1..Cardinality(S)
          /\ j + 2 \in 1..Cardinality(S) /\ j < j + 1 /\ j + 1 < j + 2
      BY <1>3, <1>4
    <2>2. c[j] < c[j + 1] /\ c[j + 1] < c[j + 2]
      BY <1>2, <2>1, AscendingIsSorted
    <2>3. c[j] \in S /\ c[j + 1] \in S /\ c[j + 2] \in S
      BY <1>3, <2>1
    <2> DEFINE a == c[j]
               b == c[j + 1]
               d == c[j + 2]
    <2>4. a \in S /\ b \in S /\ d \in S /\ a < b /\ b < d
      BY <2>2, <2>3
    <2> HIDE DEF a, b, d
    <2>5. /\ a \in Nat /\ b \in 1..m /\ b % 3 = 0 /\ (a = 0 \/ a % 3 = 0)
      BY <1>1, <1>2, <2>4
    <2>6. a <= b - 3 /\ b - 3 \in S
      <3>1. a <= b - 3 /\ b - 3 \in Nat /\ (b - 3) % 3 = 0 /\ b - 3 <= m
        BY <1>1, <2>4, <2>5
      <3>2. b - 3 = 0 \/ b - 3 \in 1..m
        BY <1>1, <2>5, <3>1
      <3> QED BY <1>2, <3>1, <3>2
    <2>7. /\ Ascending(S)[j] <= b - 3
          /\ j < Cardinality(S) => b - 3 < Ascending(S)[j + 1]
      BY <2>5, <2>6 DEF a, b
    <2>s. S \in SUBSET Nat /\ IsFiniteSet(S) /\ j \in 1..Cardinality(S) /\ b - 3 \in S
      BY <1>2, <2>1, <2>6
    <2>8. Ascending(S)[j] = b - 3
      <3> DEFINE x == b - 3
      <3>1. /\ x \in S /\ Ascending(S)[j] <= x
            /\ j < Cardinality(S) => x < Ascending(S)[j + 1]
        BY <2>7, <2>s
      <3> HIDE DEF x
      <3>2. Ascending(S)[j] = x
        BY <2>s, <3>1, AscendingHasNoGaps
      <3> QED BY <3>2 DEF x
    <2>9. PICK k \in Nat : b = 3 * k + 3
      <3>1. (b - 3) \div 3 \in Nat /\ b = 3 * ((b - 3) \div 3) + 3
        BY <1>1, <2>5, <2>6
      <3> QED BY <3>1
    <2>10. c[j] + 1 = 3 * k + 1 /\ c[j + 1] = 3 * k + 3 /\ 3 * k + 3 <= Len(content)
      BY <1>1, <2>5, <2>8, <2>9 DEF b, m
    <2> HIDE DEF c
    <2> QED BY <2>10, WholeLineParses
  <1>6. Len(LinesOf(content)) = Len(c) - 1 /\ \A j \in 1..(Len(c) - 1) :
          LinesOf(content)[j] = SubSeq(content, c[j] + 1, c[j + 1])
    <2>1. LinesOf(content) = [j \in 1..(Len(c) - 1) |-> SubSeq(content, c[j] + 1, c[j + 1])]
      BY DEF LinesOf, S
    <2>s. S # {}
      BY <1>2
    <2>2. Cardinality(S) # 0
      BY <1>2, <2>s, FS_EmptySet
    <2> HIDE DEF c
    <2>3. Len(c) - 1 \in Nat
      BY <1>3, <1>4, <2>2
    <2> DEFINE k == Len(c) - 1
               Text(j) == SubSeq(content, c[j] + 1, c[j + 1])
    <2>4. k \in Nat /\ LinesOf(content) = [j \in 1..k |-> Text(j)]
      BY <2>1, <2>3
    <2> HIDE DEF k, Text
    <2>5. Len(LinesOf(content)) = k /\ \A j \in 1..k : LinesOf(content)[j] = Text(j)
      BY <2>4
    <2> QED BY <2>5 DEF k, Text
  <1>7. \A j \in 1..(Len(LinesOf(content)) - 1) : Parses(LinesOf(content)[j])
    <2> SUFFICES ASSUME NEW j \in 1..(Len(LinesOf(content)) - 1)
                 PROVE  Parses(LinesOf(content)[j])
      OBVIOUS
    <2> HIDE DEF c
    <2>1. Len(c) \in Nat /\ j \in 1..(Len(c) - 1) /\ j \in 1..(Len(c) - 2)
      BY <1>3, <1>4, <1>6
    <2> QED BY <1>5, <1>6, <2>1
  <1> QED BY <1>7 DEF read_all

\* Whoever reads all of it finds every event, in order.
LEMMA WholeFileReads ==
  ASSUME NEW content \in Seq(Pieces), InPlace(content), NEW n \in Nat, Len(content) = 3 * n
  PROVE  read_all(content).rows = [k \in 1..n |-> k]
  <1> DEFINE S == Cuts(content)
             c == Ascending(S)
             lines == LinesOf(content)
             whole == {j \in DOMAIN lines : Parses(lines[j])}
  <1>1. S = {3 * i : i \in 0..n}
    <2>1. S = {0, 3 * n} \cup {p \in 1..(3 * n) : p % 3 = 0}
      BY CutsInPlace
    <2>2. \A p \in 1..(3 * n) : p % 3 = 0 => p = 3 * (p \div 3) /\ p \div 3 \in 0..n
      OBVIOUS
    <2>3. \A i \in 0..n : 3 * i = 0 \/ (3 * i \in 1..(3 * n) /\ (3 * i) % 3 = 0)
      OBVIOUS
    <2> HIDE DEF S
    <2> QED BY <2>1, <2>2, <2>3
  <1>2. c = [k \in 1..(n + 1) |-> 3 * (k - 1)]
    BY <1>1, AscendingTriples
  <1>3. lines = [j \in 1..n |-> SubSeq(content, 3 * (j - 1) + 1, 3 * (j - 1) + 3)]
    <2>1. lines = [j \in 1..(Len(c) - 1) |-> SubSeq(content, c[j] + 1, c[j + 1])]
      BY DEF LinesOf
    <2> HIDE DEF lines, c
    <2>2. Len(c) - 1 = n /\ \A j \in 1..n : c[j] = 3 * (j - 1) /\ c[j + 1] = 3 * (j - 1) + 3
      BY <1>2
    <2> QED BY <2>1, <2>2
  <1>4. \A j \in 1..n : lines[j] = Line(j) /\ Parses(lines[j])
    <2> HIDE DEF lines
    <2> SUFFICES ASSUME NEW j \in 1..n PROVE lines[j] = Line(j) /\ Parses(lines[j])
      OBVIOUS
    <2>1. j - 1 \in Nat /\ 3 * (j - 1) + 3 <= Len(content) /\ (j - 1) + 1 = j
      OBVIOUS
    <2>2. SubSeq(content, 3 * (j - 1) + 1, 3 * (j - 1) + 3) = Line(j) /\ Parses(Line(j))
      BY <2>1, WholeLineParses
    <2> QED BY <1>3, <2>2
  <1>5. whole = 1..n
    <2> HIDE DEF lines
    <2> QED BY <1>3, <1>4
  <1>6. read_all(content).rows = [k \in DOMAIN Ascending(whole) |-> lines[Ascending(whole)[k]][1][1]]
    BY DEF read_all
  <1> HIDE DEF whole, lines
  <1>7. Ascending(whole) = [k \in 1..n |-> k]
    BY <1>5, AscendingInterval
  <1>8. \A k \in 1..n : lines[k][1][1] = k
    BY <1>4 DEF Line
  <1> QED BY <1>6, <1>7, <1>8

-----------------------------------------------------------------------------
(* The mirror and its reader. *)

LogTypes ==
    table \in Seq(Issues) /\ file \in Seq(Pieces) /\ buf \in Seq(Pieces)
      /\ reader.got \in Seq(Pieces) /\ reader \in [on : BOOLEAN, got : {reader.got}]

LogInv == LogTypes /\ LogIsPrefix /\ ReaderIsPrefix

\* What the disk takes of pieces that go on where the file ends goes on there,
\* and so does what the buffer keeps.
LEMMA FlushKeepsPlace ==
  ASSUME file \in Seq(Pieces), InPlace(file),
         NEW pieces \in Seq(Pieces), \A p \in DOMAIN pieces : pieces[p] = Piece(Len(file) + p),
         NEW w \in 0..Len(pieces), file' = file \o SubSeq(pieces, 1, w)
  PROVE  /\ file' \in Seq(Pieces) /\ InPlace(file)' /\ Len(file') = Len(file) + w
         /\ LET rest == SubSeq(pieces, w + 1, Len(pieces))
            IN  /\ rest \in Seq(Pieces) /\ Len(rest) = Len(pieces) - w
                /\ \A p \in DOMAIN rest : rest[p] = Piece(Len(file') + p)
  <1> DEFINE head == SubSeq(pieces, 1, w)
             rest == SubSeq(pieces, w + 1, Len(pieces))
  <1>1. head \in Seq(Pieces) /\ Len(head) = w /\ \A p \in 1..w : head[p] = pieces[p]
    OBVIOUS
  <1>2. /\ rest \in Seq(Pieces) /\ Len(rest) = Len(pieces) - w
        /\ \A p \in 1..(Len(pieces) - w) : rest[p] = pieces[w + p]
    OBVIOUS
  <1>3. Len(file) \in Nat /\ w \in Nat /\ Len(pieces) \in Nat
    OBVIOUS
  <1> HIDE DEF head, rest
  <1>4. file' = file \o head
    BY DEF head
  <1>5. /\ file' \in Seq(Pieces) /\ Len(file') = Len(file) + w
        /\ \A p \in 1..Len(file) : file'[p] = file[p]
        /\ \A p \in 1..w : file'[Len(file) + p] = head[p]
    BY <1>1, <1>3, <1>4
  <1>6. ASSUME NEW p \in DOMAIN file' PROVE file'[p] = Piece(p)
    <2>1. p \in 1..(Len(file) + w)
      BY <1>5
    <2>2. CASE p <= Len(file)
      BY <1>3, <1>5, <2>1, <2>2 DEF InPlace
    <2>3. CASE p > Len(file)
      <3> DEFINE q == p - Len(file)
      <3>1. q \in 1..w /\ p = Len(file) + q
        BY <1>3, <2>1, <2>3
      <3> HIDE DEF q
      <3>2. q \in DOMAIN pieces /\ file'[p] = pieces[q]
        BY <1>1, <1>3, <1>5, <3>1
      <3> QED BY <3>1, <3>2
    <2> QED BY <1>3, <2>1, <2>2, <2>3
  <1>7. ASSUME NEW p \in DOMAIN rest PROVE rest[p] = Piece(Len(file') + p)
    <2>1. p \in 1..(Len(pieces) - w)
      BY <1>2
    <2>a. w + p \in 1..Len(pieces)
      BY <1>3, <2>1
    <2>b. DOMAIN pieces = 1..Len(pieces)
      OBVIOUS
    <2>2. w + p \in DOMAIN pieces /\ rest[p] = pieces[w + p]
      BY <1>2, <2>a, <2>b, <2>1
    <2>3. pieces[w + p] = Piece(Len(file) + (w + p)) /\ Len(file) + (w + p) = Len(file') + p
      BY <1>3, <1>5, <2>1, <2>2
    <2> QED BY <2>2, <2>3
  <1> QED BY <1>2, <1>5, <1>6, <1>7 DEF rest, InPlace

\* The buffer and the line of the last event go on where the file ends.
LEMMA LineGoesOn ==
  ASSUME LogInv, step \in {"mirror", "remirror"}
  PROVE  /\ buf \o Line(Len(table)) \in Seq(Pieces)
         /\ Len(buf \o Line(Len(table))) = Len(buf) + 3
         /\ Len(file) + (Len(buf) + 3) = 3 * Len(table)
         /\ \A p \in DOMAIN (buf \o Line(Len(table))) :
              (buf \o Line(Len(table)))[p] = Piece(Len(file) + p)
  <1> DEFINE n == Len(table)
             k == Len(table) - 1
             line == Line(n)
             pieces == buf \o line
  <1>1. /\ n \in Nat /\ Len(file) \in Nat /\ Len(buf) \in Nat
        /\ Len(file) + Len(buf) = 3 * (n - 1)
    BY DEF LogInv, LogTypes, LogIsPrefix
  <1>2. k \in Nat /\ n = k + 1
    BY <1>1
  <1>3. line \in Seq(Pieces) /\ Len(line) = 3 /\ \A j \in 1..3 : line[j] = <<k + 1, j>>
    <2>1. line = <<<<n, 1>>, <<n, 2>>, <<n, 3>>>>
      BY DEF Line
    <2>2. <<n, 1>> \in Pieces /\ <<n, 2>> \in Pieces /\ <<n, 3>> \in Pieces
      BY <1>1 DEF Pieces
    <2> HIDE DEF line, n
    <2> QED BY <1>2, <2>1, <2>2
  <1>4. buf \in Seq(Pieces) /\ \A p \in DOMAIN buf : buf[p] = Piece(Len(file) + p)
    BY DEF LogInv, LogTypes, LogIsPrefix
  <1> HIDE DEF line, n, k
  <1>5. /\ pieces \in Seq(Pieces) /\ Len(pieces) = Len(buf) + 3
        /\ \A p \in 1..Len(buf) : pieces[p] = buf[p]
        /\ \A j \in 1..3 : pieces[Len(buf) + j] = line[j]
    <2>2. buf \in Seq(Pieces) /\ line \in Seq(Pieces) /\ Len(line) = 3
      BY <1>3, <1>4
    <2>1. pieces \in Seq(Pieces) /\ Len(pieces) = Len(buf) + 3
      <3>1. ASSUME NEW a \in Seq(Pieces), NEW b \in Seq(Pieces)
            PROVE  a \o b \in Seq(Pieces) /\ Len(a \o b) = Len(a) + Len(b)
        OBVIOUS
      <3>2. buf \o line \in Seq(Pieces) /\ Len(buf \o line) = Len(buf) + Len(line)
        BY <2>2, <3>1, Zenon
      <3> QED BY <2>2, <3>2
    <2>3. \A p \in 1..Len(buf) : pieces[p] = buf[p]
      BY <2>2
    <2>4. \A j \in 1..3 : pieces[Len(buf) + j] = line[j]
      BY <1>1, <2>1, <2>2
    <2> QED BY <2>1, <2>3, <2>4
  <1> HIDE DEF pieces
  <1>6. ASSUME NEW p \in DOMAIN pieces PROVE pieces[p] = Piece(Len(file) + p)
    <2>1. p \in 1..(Len(buf) + 3)
      BY <1>5
    <2>2. CASE p <= Len(buf)
      BY <1>1, <1>4, <1>5, <2>1, <2>2
    <2>3. CASE p > Len(buf)
      <3> DEFINE j == p - Len(buf)
      <3>1. j \in 1..3 /\ p = Len(buf) + j
        BY <1>1, <2>1, <2>3
      <3> HIDE DEF j
      <3>2. Len(file) + p = 3 * k + j
        BY <1>1, <1>2, <3>1
      <3>3. pieces[p] = <<k + 1, j>>
        BY <1>3, <1>5, <3>1
      <3> QED BY <1>2, <3>1, <3>2, <3>3, PieceOfLine
    <2> QED BY <1>1, <2>1, <2>2, <2>3
  <1>7. Len(file) + (Len(buf) + 3) = 3 * n
    BY <1>1
  <1> QED BY <1>5, <1>6, <1>7 DEF pieces, line, n

\* The rendered table is in place.
LEMMA RenderInPlace ==
  ASSUME NEW n \in Nat
  PROVE  /\ Render(n) \in Seq(Pieces) /\ Len(Render(n)) = 3 * n
         /\ \A p \in DOMAIN Render(n) : Render(n)[p] = Piece(p)
  <1>1. 3 * n \in Nat /\ \A p \in 1..(3 * n) : Piece(p) \in Pieces
    BY PieceOfLine
  <1> DEFINE m == 3 * n
  <1>2. Render(n) = [p \in 1..m |-> Piece(p)] /\ m \in Nat
    BY <1>1 DEF Render
  <1> HIDE DEF m
  <1>3. /\ Render(n) \in Seq(Pieces) /\ Len(Render(n)) = m
        /\ \A p \in 1..m : Render(n)[p] = Piece(p)
    BY <1>1, <1>2 DEF m
  <1> QED BY <1>2, <1>3 DEF m

\* The steps that write neither the table nor the file nor the buffer.
LEMMA LogQuiet ==
  ASSUME LogInv, UNCHANGED <<logvars, reader>>,
         \/ step' = step
         \/ step' = "down" /\ buf = <<>>
         \/ step' = "migrate" /\ step = "down"
         \/ step \notin {"mirror", "remirror", "down", "migrate", "rebuild"}
              /\ step' \notin {"mirror", "remirror", "down", "migrate", "rebuild"}
  PROVE  LogInv'
  <1>1. LogTypes' /\ ReaderIsPrefix'
    BY DEF LogInv, LogTypes, ReaderIsPrefix, logvars
  <1>2. LogIsPrefix'
    BY DEF LogInv, LogIsPrefix, logvars
  <1> QED BY <1>1, <1>2 DEF LogInv

\* The steps that write them.
LEMMA LogWritten ==
  ASSUME TypeOK, ListIsCurrent, LogInv, UNCHANGED reader,
         StartLog \/ Rebuild \/ DropLog \/ emit_transition \/ EmitRow \/ EmitLine
           \/ EmitFails \/ Kill \/ RecoveryRow \/ RecoveryLine \/ RecoveryLineFails
  PROVE  LogInv'
  <1>1. /\ table \in Seq(Issues) /\ file \in Seq(Pieces) /\ buf \in Seq(Pieces)
        /\ Len(table) \in Nat /\ Len(file) \in Nat /\ Len(buf) \in Nat
        /\ InPlace(file) /\ \A p \in DOMAIN buf : buf[p] = Piece(Len(file) + p)
    BY DEF LogInv, LogTypes, LogIsPrefix, InPlace
  <1>e. /\ <<>> \in Seq(Pieces) /\ Len(<<>>) = 0 /\ DOMAIN <<>> = {}
    BY EmptySeq
  \* The reader has what it had, and the table does not shrink.
  <1>r. ASSUME table' \in Seq(Issues), Len(table') >= Len(table),
               file' \in Seq(Pieces), buf' \in Seq(Pieces), LogIsPrefix'
        PROVE  LogInv'
    <2>1. reader' = reader /\ Len(reader.got) \in Nat /\ Len(table') \in Nat
      BY <1>r DEF LogInv, LogTypes
    <2>2. ReaderIsPrefix'
      BY <1>1, <1>r, <2>1 DEF LogInv, ReaderIsPrefix
    <2> QED BY <1>r, <2>1, <2>2 DEF LogInv, LogTypes
  <1>2. CASE StartLog
    <2>1. file' = <<>> /\ buf' = <<>> /\ table' = table /\ step' = "rebuild"
      BY <1>2 DEF StartLog, Truncate
    <2>2. LogIsPrefix'
      BY <1>1, <1>e, <2>1 DEF LogIsPrefix
    <2> QED BY <1>1, <1>e, <1>r, <2>1, <2>2
  <1>3. CASE Rebuild
    <2> DEFINE n == Len(table)
    <2>1. PICK w \in 0..(3 * n) :
            /\ file' = file \o SubSeq(Render(n), 1, w)
            /\ \/ w = 3 * n /\ step' = "recover"
               \/ step' = "down"
      BY <1>3 DEF Rebuild, WriteBody
    <2>2. UNCHANGED <<table, buf>> /\ step = "rebuild" /\ file = <<>> /\ buf = <<>>
      BY <1>3 DEF Rebuild, WriteBody, LogInv, LogIsPrefix
    <2>3. /\ Render(n) \in Seq(Pieces) /\ Len(Render(n)) = 3 * n
          /\ \A p \in DOMAIN Render(n) : Render(n)[p] = Piece(Len(file) + p)
      <3>1. Len(file) = 0
        BY <1>e, <2>2
      <3>2. \A p \in DOMAIN Render(n) : p \in Nat
        <4>1. Render(n) \in Seq(Pieces)
          BY <1>1, RenderInPlace
        <4> QED BY <4>1
      <3>3. Render(n) \in Seq(Pieces) /\ Len(Render(n)) = 3 * n
            /\ \A p \in DOMAIN Render(n) : Render(n)[p] = Piece(p)
        BY <1>1, RenderInPlace
      <3>4. \A p \in DOMAIN Render(n) : Len(file) + p = p
        BY <3>1, <3>2
      <3> QED BY <3>3, <3>4
    <2>4. file' \in Seq(Pieces) /\ InPlace(file)' /\ Len(file') = Len(file) + w
      BY <1>1, <2>1, <2>3, FlushKeepsPlace
    <2>5. Len(file') = w /\ w <= 3 * n
      BY <1>1, <1>e, <2>1, <2>2, <2>4
    <2>6. LogIsPrefix'
      BY <1>1, <1>e, <2>1, <2>2, <2>4, <2>5 DEF LogIsPrefix, InPlace
    <2> QED BY <1>1, <1>r, <2>2, <2>4, <2>6
  <1>4. CASE DropLog
    <2>1. PICK w \in 0..Len(buf) : file' = file \o SubSeq(buf, 1, w)
      BY <1>4 DEF DropLog, DropWriter
    <2>2. buf' = <<>> /\ table' = table /\ step = "dropped" /\ step' = "down"
      BY <1>4 DEF DropLog, DropWriter
    <2>3. file' \in Seq(Pieces) /\ InPlace(file)' /\ Len(file') = Len(file) + w
      BY <1>1, <2>1, FlushKeepsPlace
    <2>4. Len(file') <= 3 * Len(table)
      BY <1>1, <2>1, <2>3 DEF LogInv, LogIsPrefix
    <2>5. LogIsPrefix'
      BY <1>1, <1>e, <2>2, <2>3, <2>4 DEF LogIsPrefix, InPlace
    <2> QED BY <1>1, <1>e, <1>r, <2>2, <2>3, <2>5
  <1>5. CASE emit_transition \/ EmitRow \/ RecoveryRow
    <2>1. PICK i \in Issues : table' = Append(table, i)
      <3>1. CASE emit_transition \/ EmitRow
        BY <3>1 DEF emit_transition, EmitRow, append_event, TypeOK, Moving
      <3>2. CASE RecoveryRow
        <4>1. table' = Append(table, Head(todo)) /\ todo \in Seq(Issues) /\ todo # <<>>
          BY <3>2 DEF RecoveryRow, append_event, ListIsCurrent, Recovering
        <4>2. Head(todo) \in Issues
          BY <4>1
        <4> QED BY <4>1, <4>2
      <3> QED BY <1>5, <3>1, <3>2
    <2>2. /\ UNCHANGED <<file, buf>> /\ step' \in {"mirror", "remirror"}
          /\ step \in {"landed", "emit", "reemit"}
      BY <1>5 DEF emit_transition, EmitRow, RecoveryRow, append_event
    <2>3. table' \in Seq(Issues) /\ Len(table') = Len(table) + 1
      BY <1>1, <2>1
    <2>4. Len(file) + Len(buf) = 3 * Len(table)
      BY <2>2 DEF LogInv, LogIsPrefix
    <2>5. LogIsPrefix'
      BY <1>1, <2>2, <2>3, <2>4 DEF LogIsPrefix, InPlace
    <2> QED BY <1>1, <1>r, <2>2, <2>3, <2>5
  <1>6. ASSUME NEW w \in 0..(Len(buf) + 3), append(w), step \in {"mirror", "remirror"},
               step' \notin {"mirror", "remirror", "down", "migrate", "rebuild"}
        PROVE  LogInv'
    <2> DEFINE pieces == buf \o Line(Len(table))
    <2>1. /\ pieces \in Seq(Pieces) /\ Len(pieces) = Len(buf) + 3
          /\ Len(file) + (Len(buf) + 3) = 3 * Len(table)
          /\ \A p \in DOMAIN pieces : pieces[p] = Piece(Len(file) + p)
      BY <1>6, LineGoesOn
    <2>2. /\ file' = file \o SubSeq(pieces, 1, w) /\ table' = table
          /\ buf' = SubSeq(pieces, w + 1, Len(pieces))
      BY <1>6 DEF append, FlushSome
    <2> HIDE DEF pieces
    <2>3. w \in 0..Len(pieces)
      BY <1>6, <2>1
    <2>4. /\ file' \in Seq(Pieces) /\ InPlace(file)' /\ Len(file') = Len(file) + w
          /\ buf' \in Seq(Pieces) /\ Len(buf') = Len(pieces) - w
          /\ \A p \in DOMAIN buf' : buf'[p] = Piece(Len(file') + p)
      BY <1>1, <2>1, <2>2, <2>3, FlushKeepsPlace
    <2>a. Len(file') + Len(buf') = 3 * Len(table)
      <3>1. w \in Nat /\ Len(pieces) = Len(buf) + 3 /\ Len(buf) \in Nat /\ Len(file) \in Nat
        BY <1>1, <1>6, <2>1
      <3>2. Len(file') + Len(buf') = Len(file) + (Len(buf) + 3)
        BY <2>4, <3>1
      <3> QED BY <2>1, <3>2
    <2>5. Len(file') + Len(buf') = 3 * Len(table')
      BY <2>2, <2>a
    <2>6. LogIsPrefix'
      BY <1>6, <2>4, <2>5 DEF LogIsPrefix, InPlace
    <2> QED BY <1>1, <1>r, <2>2, <2>4, <2>6
  <1>7. CASE EmitLine \/ RecoveryLine
    <2>1. Len(buf) + 3 \in 0..(Len(buf) + 3)
      BY <1>1
    <2>2. /\ append(Len(buf) + 3) /\ step \in {"mirror", "remirror"}
          /\ step' \in {"label", "drive", "recover"}
      BY <1>7 DEF EmitLine, RecoveryLine
    <2> QED BY <1>6, <2>1, <2>2
  <1>8. CASE EmitFails \/ RecoveryLineFails
    <2>1. step \in {"mirror", "remirror"} /\ step' \in {"drive", "exit", "reemit"}
      BY <1>8 DEF EmitFails, RecoveryLineFails
    <2>2. PICK w \in 0..(Len(buf) + 2) : append(w)
      BY <1>8 DEF EmitFails, RecoveryLineFails
    <2>3. w \in 0..(Len(buf) + 3)
      BY <1>1
    <2> QED BY <1>6, <2>1, <2>2, <2>3
  <1>9. CASE Kill
    <2>1. buf' = <<>> /\ UNCHANGED <<table, file>> /\ step' = "down"
      BY <1>9 DEF Kill
    <2>2. Len(file) <= 3 * Len(table)
      BY <1>1 DEF LogInv, LogIsPrefix
    <2>3. LogIsPrefix'
      BY <1>1, <1>e, <2>1, <2>2 DEF LogIsPrefix, InPlace
    <2> QED BY <1>1, <1>e, <1>r, <2>1, <2>3
  <1> QED BY <1>2, <1>3, <1>4, <1>5, <1>7, <1>8, <1>9

\* Somebody reads on.
LEMMA LogRead == LogInv /\ ReadFile => LogInv'
  <1> SUFFICES ASSUME LogInv, ReadFile PROVE LogInv'
    OBVIOUS
  <1>1. UNCHANGED <<step, logvars>>
    BY DEF ReadFile, pump
  <1>2. LogIsPrefix'
    BY <1>1 DEF LogInv, LogIsPrefix, logvars
  <1>3. /\ reader.got \in Seq(Pieces) /\ file \in Seq(Pieces) /\ Len(file) <= 3 * Len(table)
        /\ Len(table) \in Nat /\ InPlace(file) /\ InPlace(reader.got)
        /\ Len(reader.got) <= 3 * Len(table)
        /\ reader = [on |-> reader.on, got |-> reader.got] /\ reader.on \in BOOLEAN
    BY DEF LogInv, LogTypes, LogIsPrefix, ReaderIsPrefix, InPlace
  <1>4. CASE reader.on /\ Len(reader.got) < Len(file)
               /\ reader' = [reader EXCEPT !.got = Append(@, file[Len(@) + 1])]
    <2> DEFINE got == reader.got
               next == Append(got, file[Len(got) + 1])
    <2>1. reader' = [on |-> TRUE, got |-> next]
      BY <1>3, <1>4
    <2>2. Len(got) + 1 \in DOMAIN file /\ Len(got) \in Nat
      BY <1>3, <1>4
    <2>3. file[Len(got) + 1] = Piece(Len(got) + 1) /\ file[Len(got) + 1] \in Pieces
      BY <1>3, <2>2 DEF InPlace
    <2>4. /\ next \in Seq(Pieces) /\ Len(next) = Len(got) + 1
          /\ \A p \in 1..Len(got) : next[p] = got[p]
          /\ next[Len(got) + 1] = Piece(Len(got) + 1)
      BY <1>3, <2>3
    <2>5. Len(next) <= 3 * Len(table)
      BY <1>3, <1>4, <2>2, <2>4
    <2> HIDE DEF next
    <2>6. InPlace(next)
      <3>1. DOMAIN next = 1..(Len(got) + 1)
        BY <2>4
      <3>2. ASSUME NEW p \in DOMAIN next PROVE next[p] = Piece(p)
        <4>1. p \in 1..Len(got) \/ p = Len(got) + 1
          BY <2>2, <3>1
        <4> QED BY <1>3, <2>4, <4>1 DEF InPlace
      <3> QED BY <3>2 DEF InPlace
    <2>7. reader'.got = next /\ table' = table
      BY <1>1, <2>1 DEF logvars
    <2>8. ReaderIsPrefix'
      BY <2>5, <2>6, <2>7 DEF ReaderIsPrefix, InPlace
    <2>9. LogTypes'
      BY <1>1, <2>1, <2>4, <2>7 DEF LogInv, LogTypes, logvars
    <2> QED BY <1>2, <2>8, <2>9 DEF LogInv
  <1>5. CASE reader'.got = <<>> /\ reader' \in [on : BOOLEAN, got : {<<>>}]
    <2>1. <<>> \in Seq(Pieces) /\ Len(<<>>) = 0 /\ DOMAIN <<>> = {}
      BY EmptySeq
    <2>2. ReaderIsPrefix' /\ LogTypes'
      BY <1>1, <1>3, <1>5, <2>1 DEF LogInv, LogTypes, ReaderIsPrefix, logvars
    <2> QED BY <1>2, <2>2 DEF LogInv
  <1>6. CASE reader' = [on |-> TRUE, got |-> <<>>] \/ reader' = [on |-> FALSE, got |-> <<>>]
    <2>1. /\ [on |-> TRUE, got |-> <<>>].got = <<>> /\ [on |-> FALSE, got |-> <<>>].got = <<>>
          /\ [on |-> TRUE, got |-> <<>>] \in [on : BOOLEAN, got : {<<>>}]
          /\ [on |-> FALSE, got |-> <<>>] \in [on : BOOLEAN, got : {<<>>}]
      OBVIOUS
    <2>2. reader'.got = <<>> /\ reader' \in [on : BOOLEAN, got : {<<>>}]
      BY <1>6, <2>1, Zenon
    <2> QED BY <1>5, <2>2
  <1> QED BY <1>4, <1>6 DEF ReadFile, NoRead

-----------------------------------------------------------------------------
(* Labels. *)

LabelTypes ==
    /\ phase \in [Issues -> PhaseNames \cup {"none"}]
    /\ labels \in [Issues -> SUBSET PhaseNames]
    /\ step \in Steps /\ cur \in Issues \cup {0} /\ (cur = 0 <=> step \notin Moving)

LabelLists ==
    /\ step \in Recovering => todo \in Seq(Issues) /\ (step # "recover" => todo # <<>>)
    /\ step = "ingest" =>
         /\ todo \in Seq(Issues)
         /\ \A n \in DOMAIN todo : phase[todo[n]] = "none" => labels[todo[n]] = {"graphed"}
    /\ step = "relabel" =>
         /\ todo \in Seq(PhaseNames)
         /\ \A p \in labels[cur] \ {phase[cur]} : \E n \in DOMAIN todo : todo[n] = p

LabelInv ==
    /\ LabelTypes /\ LabelLists /\ GraphedIsLabelled /\ TransitionIsFollowed
    /\ LabelsFollowPhase

\* The tracker's list of graphed issues is one of tracked or graphed issues.
LEMMA GraphedAreListed ==
  /\ Ascending(list_graphed) \in Seq(Issues)
  /\ \A n \in DOMAIN Ascending(list_graphed) : "graphed" \in labels[Ascending(list_graphed)[n]]
  <1>1. list_graphed \in SUBSET Issues
    BY DEF list_graphed
  <1>2. list_graphed \in SUBSET Nat /\ IsFiniteSet(list_graphed)
    BY <1>1, ObserverAssumption, FS_Subset
  <1>3. /\ Ascending(list_graphed) \in [1..Cardinality(list_graphed) -> list_graphed]
        /\ Cardinality(list_graphed) \in Nat
    BY <1>2, AscendingByRank, FS_CardinalityType
  <1> DEFINE a == Ascending(list_graphed)
             k == Cardinality(list_graphed)
  <1>4. a \in [1..k -> list_graphed] /\ k \in Nat
    BY <1>3
  <1> HIDE DEF a, k
  <1>5. a \in Seq(Issues)
    BY <1>1, <1>4
  <1>6. \A n \in DOMAIN a : "graphed" \in labels[a[n]]
    BY <1>4 DEF list_graphed
  <1> QED BY <1>5, <1>6 DEF a

\* Every label that is to go is on the list.
LEMMA LabelsAreListed ==
  ASSUME NEW S \in SUBSET PhaseNames
  PROVE  /\ SetToSeq(S) \in Seq(PhaseNames)
         /\ \A p \in S : \E n \in DOMAIN SetToSeq(S) : SetToSeq(S)[n] = p
  <1> DEFINE k == Cardinality(S)
  <1>1. IsFiniteSet(PhaseNames)
    <2>1. ASSUME NEW a, NEW b PROVE IsFiniteSet({a, b})
      <3>1. IsFiniteSet({a}) /\ IsFiniteSet({b}) /\ {a, b} = {a} \cup {b}
        BY FS_Singleton
      <3> QED BY <3>1, FS_Union
    <2>2. /\ IsFiniteSet({"graphed", "implementing"}) /\ IsFiniteSet({"orchestrator-error"})
          /\ IsFiniteSet({"adversary-review", "merged"})
      BY <2>1, FS_Singleton
    <2>3. IsFiniteSet({"graphed", "implementing"} \cup {"adversary-review", "merged"})
      BY <2>2, FS_Union
    <2>4. IsFiniteSet(({"graphed", "implementing"} \cup {"adversary-review", "merged"})
                        \cup {"orchestrator-error"})
      BY <2>2, <2>3, FS_Union
    <2>5. PhaseNames = ({"graphed", "implementing"} \cup {"adversary-review", "merged"})
                         \cup {"orchestrator-error"}
      BY DEF PhaseNames
    <2> QED BY <2>4, <2>5
  <1>2. IsFiniteSet(S) /\ k \in Nat /\ ExistsBijection(1..k, S)
    BY <1>1, FS_Subset, FS_CardinalityType
  <1> HIDE DEF k
  <1>3. \E f \in [1..k -> S] : IsInjective(f)
    BY <1>2 DEF ExistsBijection, Bijection, Injection
  <1>4. SetToSeq(S) \in [1..k -> S] /\ IsInjective(SetToSeq(S))
    <2>1. SetToSeq(S) = CHOOSE f \in [1..k -> S] : IsInjective(f)
      BY DEF SetToSeq, k
    <2> QED BY <1>3, <2>1, Zenon
  <1> DEFINE s == SetToSeq(S)
  <1>5. s \in Injection(1..k, S)
    BY <1>4 DEF Injection
  <1> HIDE DEF s
  <1>6. IsFiniteSet(1..k) /\ Cardinality(1..k) = Cardinality(S)
    BY <1>2, FS_Interval DEF k
  <1>7. s \in Surjection(1..k, S)
    BY <1>2, <1>5, <1>6, FS_Injection
  <1>8. s \in [1..k -> S] /\ \A p \in S : \E n \in 1..k : s[n] = p
    BY <1>7 DEF Surjection
  <1>9. s \in Seq(PhaseNames)
    BY <1>2, <1>8
  <1> QED BY <1>8, <1>9 DEF s

\* The issue to drive is one that is ready.
LEMMA ReadyIn == Ready # {} => Min(Ready) \in Ready
  <1> SUFFICES ASSUME Ready # {} PROVE Min(Ready) \in Ready
    OBVIOUS
  <1> DEFINE S == Ready
  <1>1. S \subseteq Nat /\ S # {}
    BY ObserverAssumption DEF Ready
  <1> HIDE DEF S
  <1>2. PICK x \in S : \A y \in S : <<y, x>> \notin OpToRel(<, Nat)
    BY <1>1, NatLessThanWellFounded, WFMin, Zenon
  <1>3. \A y \in S : y \in Nat /\ x \in Nat /\ ~ (y < x)
    BY <1>1, <1>2, Zenon DEF OpToRel
  <1>4. \A y \in S : x <= y
    BY <1>3
  <1>5. Min(S) \in S
    BY <1>4 DEF Min
  <1> QED BY <1>5 DEF S

\* The steps that leave phases and labels alone.
LEMMA LabelQuiet ==
  ASSUME LabelInv, UNCHANGED <<phase, labels, cur, torn>>,
         \/ step \notin Moving /\ step' \in Steps \ (Moving \cup Recovering \cup {"ingest"})
         \/ UNCHANGED <<step, todo>>
  PROVE  LabelInv'
  <1> USE DEF LabelInv, LabelTypes, LabelLists, GraphedIsLabelled, TransitionIsFollowed,
              LabelsFollowPhase, Landed, Moving, Recovering, Steps
  <1>1. CASE step \notin Moving /\ step' \in Steps \ (Moving \cup Recovering \cup {"ingest"})
    BY <1>1
  <1>2. CASE UNCHANGED <<step, todo>>
    BY <1>2
  <1> QED BY <1>1, <1>2

\* Recovery lists the issues that have not ended.
LEMMA ReadyAreListed == Ascending(Ready) \in Seq(Issues)
  <1>1. Ready \in SUBSET Issues
    BY DEF Ready
  <1>2. Ready \in SUBSET Nat /\ IsFiniteSet(Ready)
    BY <1>1, ObserverAssumption, FS_Subset
  <1> DEFINE a == Ascending(Ready)
             k == Cardinality(Ready)
  <1>3. a \in [1..k -> Ready] /\ k \in Nat
    BY <1>2, AscendingByRank, FS_CardinalityType
  <1> HIDE DEF a, k
  <1>4. a \in Seq(Issues)
    BY <1>1, <1>3
  <1> QED BY <1>4 DEF a

\* Recovery begins, goes over its list, and writes phases no label follows.
LEMMA LabelRecover ==
  LabelInv /\ (Rebuild \/ recover_issue \/ quarantine \/ RecoveryRow \/ RecoveryLine
                 \/ RecoveryLineFails) => LabelInv'
  <1> SUFFICES ASSUME LabelInv,
                      Rebuild \/ recover_issue \/ quarantine \/ RecoveryRow \/ RecoveryLine
                        \/ RecoveryLineFails
               PROVE  LabelInv'
    OBVIOUS
  <1>t. /\ UNCHANGED <<labels, cur>> /\ step \in Recovering \cup {"rebuild"}
        /\ step' \in Recovering \cup {"down", "exit"} /\ cur = 0
    BY DEF Rebuild, recover_issue, quarantine, RecoveryRow, RecoveryLine, RecoveryLineFails,
       LabelInv, LabelTypes, Moving, Recovering
  <1>l. step \in Recovering => todo \in Seq(Issues) /\ (step # "recover" => todo # <<>>)
    BY DEF LabelInv, LabelLists
  <1>1. step' \in Recovering => todo' \in Seq(Issues) /\ (step' # "recover" => todo' # <<>>)
    <2>1. CASE Rebuild
      <3>1. step' \in Recovering => step' = "recover" /\ todo' = Ascending(Ready)
        BY <2>1 DEF Rebuild, Recovering
      <3> QED BY <3>1, ReadyAreListed
    <2>2. CASE ~ Rebuild
      <3>1. /\ step \in Recovering
            /\ \/ todo' = todo /\ (step = "recover" => todo # <<>>)
               \/ todo' = Tail(todo) /\ step' = "recover" /\ todo # <<>>
               \/ step' = "exit"
        BY <1>l, <2>2 DEF recover_issue, quarantine, RecoveryRow, RecoveryLine,
           RecoveryLineFails, Recovering
      <3>2. todo \in Seq(Issues) /\ todo # <<>> => Tail(todo) \in Seq(Issues)
        OBVIOUS
      <3> QED BY <1>l, <3>1, <3>2 DEF Recovering
    <2> QED BY <2>1, <2>2
  <1>2. LabelLists'
    BY <1>t, <1>1 DEF LabelLists, Recovering
  \* What is written: nothing, or the phase of the first issue of the list.
  <1>3. \/ UNCHANGED <<phase, torn>>
        \/ \E i \in Issues, p \in PhaseNames \ {"graphed"} :
             /\ phase' = [phase EXCEPT ![i] = p]
             /\ torn' = IF phase[i] = p THEN torn ELSE torn \cup {i}
    <2>1. CASE Rebuild \/ RecoveryRow \/ RecoveryLine
      BY <2>1 DEF Rebuild, RecoveryRow, RecoveryLine
    <2>2. CASE recover_issue \/ quarantine \/ RecoveryLineFails
      <3>1. /\ step \in Recovering /\ (step = "recover" => todo # <<>>)
            /\ \/ UNCHANGED <<phase, torn>>
               \/ \E p \in {"implementing", "merged", "orchestrator-error"} : RecoveryWrites(p)
        BY <2>2 DEF recover_issue, quarantine, RecoveryLineFails, Recovering
      <3>2. Head(todo) \in Issues
        <4>1. todo \in Seq(Issues) /\ todo # <<>>
          BY <1>l, <3>1
        <4> QED BY <4>1
      <3> QED BY <3>1, <3>2 DEF RecoveryWrites, PhaseNames
    <2> QED BY <2>1, <2>2
  <1> DEFINE Followed(i) == \/ phase'[i] = phase[i] /\ (i \in torn => i \in torn')
                            \/ phase'[i] \notin {"none", "graphed"} /\ i \in torn'
  <1>4. phase' \in [Issues -> PhaseNames \cup {"none"}] /\ \A i \in Issues : Followed(i)
    <2>1. phase \in [Issues -> PhaseNames \cup {"none"}]
      BY DEF LabelInv, LabelTypes
    <2>2. CASE UNCHANGED <<phase, torn>>
      BY <2>1, <2>2
    <2>3. ASSUME NEW i \in Issues, NEW p \in PhaseNames \ {"graphed"},
                 phase' = [phase EXCEPT ![i] = p],
                 torn' = IF phase[i] = p THEN torn ELSE torn \cup {i}
          PROVE  /\ phase' \in [Issues -> PhaseNames \cup {"none"}]
                 /\ \A j \in Issues : Followed(j)
      <3>1. /\ phase' \in [Issues -> PhaseNames \cup {"none"}] /\ phase'[i] = p
            /\ \A j \in Issues : j # i => phase'[j] = phase[j]
        BY <2>1, <2>3
      <3>2. p \notin {"none", "graphed"}
        BY DEF PhaseNames
      <3> QED BY <2>3, <3>1, <3>2
    <2> QED BY <1>3, <2>2, <2>3
  <1>5. LabelTypes' /\ GraphedIsLabelled' /\ TransitionIsFollowed' /\ LabelsFollowPhase'
    BY <1>t, <1>4 DEF LabelInv, LabelTypes, GraphedIsLabelled, TransitionIsFollowed,
       LabelsFollowPhase, Moving, Recovering, Steps
  <1> QED BY <1>2, <1>5 DEF LabelInv

\* Ingest.
LEMMA LabelIngest == LabelInv /\ (IngestList \/ IngestOne) => LabelInv'
  <1> SUFFICES ASSUME LabelInv, IngestList \/ IngestOne PROVE LabelInv'
    OBVIOUS
  <1>t. UNCHANGED <<labels, cur, torn>> /\ step' = "ingest" /\ step \notin Moving
        /\ cur = 0
    BY DEF IngestList, IngestOne, LabelInv, LabelTypes, Moving
  <1>1. CASE IngestList
    <2>1. UNCHANGED phase /\ todo' = Ascending(list_graphed)
      BY <1>1 DEF IngestList
    <2>2. todo' \in Seq(Issues) /\ \A n \in DOMAIN todo' : "graphed" \in labels[todo'[n]]
                                                        /\ todo'[n] \in Issues
      BY <2>1, GraphedAreListed
    <2>3. \A n \in DOMAIN todo' : phase[todo'[n]] = "none" => labels[todo'[n]] = {"graphed"}
      BY <2>2 DEF LabelInv, GraphedIsLabelled
    <2>4. LabelLists'
      BY <1>t, <2>1, <2>2, <2>3 DEF LabelLists, Recovering
    <2>5. LabelTypes' /\ GraphedIsLabelled' /\ TransitionIsFollowed' /\ LabelsFollowPhase'
      BY <1>t, <2>1 DEF LabelInv, LabelTypes, GraphedIsLabelled, TransitionIsFollowed,
                        LabelsFollowPhase, Moving, Recovering, Steps
    <2> QED BY <2>4, <2>5 DEF LabelInv
  <1>2. CASE IngestOne
    <2> DEFINE i == Head(todo)
    <2>1. /\ todo \in Seq(Issues) /\ todo # <<>> /\ todo' = Tail(todo)
          /\ \A n \in DOMAIN todo : phase[todo[n]] = "none" => labels[todo[n]] = {"graphed"}
          /\ UNCHANGED phase \/ (phase[i] = "none" /\ phase' = [phase EXCEPT ![i] = "graphed"])
      BY <1>2 DEF IngestOne, upsert_issue, LabelInv, LabelLists
    <2>2. /\ i \in Issues /\ (phase[i] = "none" => labels[i] = {"graphed"})
          /\ todo' \in Seq(Issues)
          /\ \A n \in DOMAIN todo' : todo'[n] = todo[n + 1] /\ n + 1 \in DOMAIN todo
                                     /\ todo'[n] \in Issues
      <3>1. i = todo[1] /\ 1 \in DOMAIN todo
        BY <2>1
      <3> HIDE DEF i
      <3> QED BY <2>1, <3>1
    <2> HIDE DEF i
    <2>3. \A j \in Issues : phase'[j] = "none" => phase[j] = "none"
      BY <2>1, <2>2 DEF LabelInv, LabelTypes
    <2>4. LabelLists'
      BY <1>t, <2>1, <2>2, <2>3 DEF LabelLists, Recovering
    <2>5. LabelTypes' /\ GraphedIsLabelled' /\ TransitionIsFollowed' /\ LabelsFollowPhase'
      BY <1>t, <2>1, <2>2 DEF LabelInv, LabelTypes, GraphedIsLabelled, TransitionIsFollowed,
                        LabelsFollowPhase, Moving, Recovering, Steps, PhaseNames
    <2> QED BY <2>4, <2>5 DEF LabelInv
  <1> QED BY <1>1, <1>2

\* A transition begins, or the landing of the last phase.
LEMMA LabelBegin == LabelInv /\ (Transition \/ set_phase \/ LabelLanded) => LabelInv'
  <1> SUFFICES ASSUME LabelInv, Transition \/ set_phase \/ LabelLanded PROVE LabelInv'
    OBVIOUS
  <1>n. /\ DOMAIN NextPhase = {"graphed", "implementing", "adversary-review"}
        /\ \A p \in DOMAIN NextPhase :
             NextPhase[p] \in {"implementing", "adversary-review", "merged"}
    BY DEF NextPhase
  <1>t. UNCHANGED <<labels, torn>>
    BY DEF Transition, set_phase, LabelLanded
  <1>1. CASE Transition \/ set_phase
    <2> DEFINE i == Min(Ready)
    <2>1. i \in Issues /\ phase[i] \in DOMAIN NextPhase /\ step = "drive" /\ cur = 0
      BY <1>1, <1>n, ReadyIn DEF Transition, set_phase, Ready, LabelInv, LabelTypes, Moving
    <2> HIDE DEF i
    <2>2. \A j \in Issues : j # 0
      BY ObserverAssumption
    <2>3. CASE Transition
      <3> DEFINE to == NextPhase[phase[i]]
      <3>1. /\ to \in {"implementing", "adversary-review"} /\ cur' = i /\ step' = "relabel"
            /\ phase' = [phase EXCEPT ![i] = to]
            /\ todo' = SetToSeq(labels[i] \ {to})
        BY <1>n, <2>1, <2>3 DEF Transition, LabelsToRemove, i
      <3> HIDE DEF to
      <3>3. /\ phase'[i] = to /\ \A j \in Issues : j # i => phase'[j] = phase[j]
            /\ phase' \in [Issues -> PhaseNames \cup {"none"}]
        BY <2>1, <3>1 DEF LabelInv, LabelTypes, PhaseNames
      <3>4. labels[i] \ {to} \in SUBSET PhaseNames
        BY <2>1 DEF LabelInv, LabelTypes
      <3>5. LabelLists'
        <4>1. /\ todo' \in Seq(PhaseNames)
              /\ \A p \in labels[i] \ {to} : \E n \in DOMAIN todo' : todo'[n] = p
          BY <3>1, <3>4, LabelsAreListed
        <4> QED BY <1>t, <3>1, <3>3, <4>1 DEF LabelLists, Recovering
      <3>6. LabelTypes' /\ GraphedIsLabelled' /\ TransitionIsFollowed' /\ LabelsFollowPhase'
        BY <1>t, <2>1, <2>2, <3>1, <3>3
           DEF LabelInv, LabelTypes, GraphedIsLabelled, TransitionIsFollowed,
               LabelsFollowPhase, Moving, Recovering, Steps
      <3> QED BY <3>5, <3>6 DEF LabelInv
    <2>4. CASE set_phase
      <3>1. cur' = i /\ step' = "landed" /\ phase' = [phase EXCEPT ![i] = "merged"]
        BY <2>4 DEF set_phase, i
      <3>3. /\ phase'[i] = "merged" /\ \A j \in Issues : j # i => phase'[j] = phase[j]
            /\ phase' \in [Issues -> PhaseNames \cup {"none"}]
        BY <2>1, <3>1 DEF LabelInv, LabelTypes, PhaseNames
      <3> QED BY <1>t, <2>1, <2>2, <3>1, <3>3
           DEF LabelInv, LabelTypes, LabelLists, GraphedIsLabelled, TransitionIsFollowed,
               LabelsFollowPhase, Landed, Moving, Recovering, Steps
    <2> QED BY <1>1, <2>3, <2>4
  <1>2. CASE LabelLanded
    <2>1. /\ UNCHANGED <<phase, cur>> /\ step = "label" /\ step' = "relabel"
          /\ todo' = SetToSeq(labels[cur] \ {phase[cur]})
      BY <1>2 DEF LabelLanded, LabelsToRemove
    <2>2. cur \in Issues /\ labels[cur] \ {phase[cur]} \in SUBSET PhaseNames
      BY <2>1 DEF LabelInv, LabelTypes, Moving
    <2>3. /\ todo' \in Seq(PhaseNames)
          /\ \A p \in labels[cur] \ {phase[cur]} : \E n \in DOMAIN todo' : todo'[n] = p
      BY <2>1, <2>2, LabelsAreListed
    <2>4. LabelLists'
      BY <1>t, <2>1, <2>3 DEF LabelLists, Recovering
    <2> QED BY <1>t, <2>1, <2>4
         DEF LabelInv, LabelTypes, GraphedIsLabelled, TransitionIsFollowed,
             LabelsFollowPhase, Landed, Moving, Recovering, Steps
  <1> QED BY <1>1, <1>2

\* Labels are removed and added, one by one, or a command fails.
LEMMA LabelMove == LabelInv /\ (label_remove \/ label_add \/ label_fails) => LabelInv'
  <1> SUFFICES ASSUME LabelInv, label_remove \/ label_add \/ label_fails PROVE LabelInv'
    OBVIOUS
  <1>1. /\ step = "relabel" /\ UNCHANGED phase
        /\ cur \in Issues /\ phase[cur] \in {"implementing", "adversary-review", "merged"}
        /\ labels \in [Issues -> SUBSET PhaseNames] /\ phase[cur] \in PhaseNames
        /\ todo \in Seq(PhaseNames)
        /\ \A p \in labels[cur] \ {phase[cur]} : \E n \in DOMAIN todo : todo[n] = p
    BY DEF label_remove, label_add, label_fails, LabelInv, LabelTypes, LabelLists,
           TransitionIsFollowed, Moving, PhaseNames
  <1>z. \A j \in Issues : j # 0
    BY ObserverAssumption
  <1>2. CASE label_remove
    <2> DEFINE h == Head(todo)
    <2>1. /\ labels' = [labels EXCEPT ![cur] = @ \ {h}] /\ todo' = Tail(todo) /\ todo # <<>>
          /\ UNCHANGED <<step, cur, torn>>
      BY <1>2 DEF label_remove
    <2>2. /\ todo' \in Seq(PhaseNames) /\ h = todo[1]
          /\ \A n \in DOMAIN todo : n # 1 => n - 1 \in DOMAIN todo' /\ todo'[n - 1] = todo[n]
      BY <1>1, <2>1
    <2> HIDE DEF h
    <2>3. /\ labels' \in [Issues -> SUBSET PhaseNames] /\ labels'[cur] = labels[cur] \ {h}
          /\ \A j \in Issues : j # cur => labels'[j] = labels[j]
      BY <1>1, <2>1
    <2>4. \A p \in labels'[cur] \ {phase[cur]} : \E n \in DOMAIN todo' : todo'[n] = p
      <3> SUFFICES ASSUME NEW p \in labels'[cur] \ {phase[cur]}
                   PROVE  \E n \in DOMAIN todo' : todo'[n] = p
        OBVIOUS
      <3>1. PICK n \in DOMAIN todo : todo[n] = p
        BY <1>1, <2>3
      <3>2. n # 1
        BY <2>2, <2>3, <3>1
      <3> QED BY <2>2, <3>1, <3>2
    <2>5. LabelLists'
      BY <1>1, <2>1, <2>2, <2>4 DEF LabelLists, Recovering
    <2>6. LabelTypes' /\ GraphedIsLabelled' /\ TransitionIsFollowed' /\ LabelsFollowPhase'
      BY <1>1, <2>1, <2>3 DEF LabelInv, LabelTypes, GraphedIsLabelled, TransitionIsFollowed,
             LabelsFollowPhase, Landed, Moving, Recovering, Steps
    <2> QED BY <2>5, <2>6 DEF LabelInv
  <1>3. CASE label_add
    <2>1. /\ labels' = [labels EXCEPT ![cur] = @ \cup {phase[cur]}] /\ todo = <<>>
          /\ UNCHANGED todo /\ torn' = torn \ {cur}
          /\ \/ Landed(cur) /\ step' = "drive" /\ cur' = 0
             \/ ~ Landed(cur) /\ step' = "emit" /\ cur' = cur
      BY <1>3 DEF label_add
    <2>2. labels[cur] \ {phase[cur]} = {}
      BY <1>1, <2>1, EmptySeq
    <2>3. /\ labels' \in [Issues -> SUBSET PhaseNames] /\ labels'[cur] = {phase[cur]}
          /\ \A j \in Issues : j # cur => labels'[j] = labels[j]
      BY <1>1, <2>1, <2>2
    <2>4. LabelLists'
      BY <2>1 DEF LabelLists, Recovering
    <2>5. LabelTypes' /\ GraphedIsLabelled'
      BY <1>1, <1>z, <2>1, <2>3 DEF LabelInv, LabelTypes, GraphedIsLabelled, Moving, Recovering, Steps
    <2>6. TransitionIsFollowed' /\ LabelsFollowPhase'
      BY <1>1, <1>z, <2>1, <2>3 DEF LabelInv, TransitionIsFollowed, LabelsFollowPhase,
             Landed, Moving
    <2> QED BY <2>4, <2>5, <2>6 DEF LabelInv
  <1>4. CASE label_fails
    <2>1. UNCHANGED labels /\ torn' = torn \cup {cur} /\ cur' = 0 /\ step' = "exit"
      BY <1>4 DEF label_fails
    <2> QED BY <1>1, <1>z, <2>1
         DEF LabelInv, LabelTypes, LabelLists, GraphedIsLabelled, TransitionIsFollowed,
             LabelsFollowPhase, Landed, Moving, Recovering, Steps
  <1> QED BY <1>2, <1>3, <1>4

\* The event of a transition, and a kill.
LEMMA LabelEvent ==
  LabelInv /\ (emit_transition \/ EmitRow \/ EmitLine \/ EmitFails \/ Kill) => LabelInv'
  <1> SUFFICES ASSUME LabelInv, emit_transition \/ EmitRow \/ EmitLine \/ EmitFails \/ Kill
               PROVE  LabelInv'
    OBVIOUS
  <1>1. UNCHANGED <<phase, labels>> /\ \A j \in Issues : j # 0
    BY ObserverAssumption DEF emit_transition, EmitRow, EmitLine, EmitFails, Kill
  <1> USE DEF LabelInv, LabelTypes, LabelLists, GraphedIsLabelled, TransitionIsFollowed,
             LabelsFollowPhase, Landed, Moving, Recovering, Steps
  <1>2. CASE emit_transition
    BY <1>1, <1>2 DEF emit_transition
  <1>3. CASE EmitRow
    BY <1>1, <1>3 DEF EmitRow
  <1>4. CASE EmitLine
    BY <1>1, <1>4 DEF EmitLine
  <1>5. CASE EmitFails
    BY <1>1, <1>5 DEF EmitFails
  <1>6. CASE Kill
    <2>1. /\ torn' = IF cur = 0 THEN torn ELSE torn \cup {cur}
          /\ cur' = 0 /\ step' = "down"
      BY <1>6 DEF Kill
    <2> QED BY <1>1, <2>1
  <1> QED BY <1>2, <1>3, <1>4, <1>5, <1>6

\* Somebody graphs an issue.
LEMMA LabelGraph == LabelInv /\ (\E i \in Issues : Graph(i)) => LabelInv'
  <1> SUFFICES ASSUME LabelInv, NEW i \in Issues, Graph(i) PROVE LabelInv'
    OBVIOUS
  <1>1. /\ labels[i] = {} /\ phase[i] = "none" /\ labels' = [labels EXCEPT ![i] = {"graphed"}]
        /\ UNCHANGED <<phase, step, todo, cur, torn>>
    BY DEF Graph
  <1>2. /\ labels' \in [Issues -> SUBSET PhaseNames] /\ labels'[i] = {"graphed"}
        /\ \A j \in Issues : j # i => labels'[j] = labels[j]
    BY <1>1 DEF LabelInv, LabelTypes, PhaseNames
  <1>3. step \in Moving => cur # i
    BY <1>1 DEF LabelInv, TransitionIsFollowed
  <1>4. LabelLists'
    <2>1. CASE step = "ingest"
      BY <1>1, <1>2, <2>1 DEF LabelInv, LabelLists, Recovering
    <2>2. CASE step = "relabel"
      <3>1. cur \in Issues /\ labels'[cur] = labels[cur]
        BY <1>2, <1>3, <2>2 DEF LabelInv, LabelTypes, Moving
      <3> QED BY <1>1, <2>2, <3>1 DEF LabelInv, LabelLists, Recovering
    <2>3. CASE step \notin {"ingest", "relabel"}
      BY <1>1, <2>3 DEF LabelInv, LabelLists, Recovering
    <2> QED BY <2>1, <2>2, <2>3
  <1>5. LabelTypes' /\ GraphedIsLabelled' /\ TransitionIsFollowed' /\ LabelsFollowPhase'
    BY <1>1, <1>2, <1>3 DEF LabelInv, LabelTypes, GraphedIsLabelled, TransitionIsFollowed,
             LabelsFollowPhase, Landed, Moving, Recovering, Steps
  <1> QED BY <1>4, <1>5 DEF LabelInv

-----------------------------------------------------------------------------
(* The schema, and what vetinari graph shows. *)

MigrationIsCurrent == step = "migrate" => ~ Refused /\ todo = Pending
CliTypes ==
    cli \in [at : {"off", "opened", "read"}, missed : SUBSET Issues, listed : SUBSET Issues]
ViewInv == SchemaIsKnown /\ MigrationIsCurrent /\ CliTypes /\ GraphMissesOnlyMoved

\* There are three migrations, and each adds what it adds.
LEMMA Versions ==
  /\ SCHEMA_VERSION = 3
  /\ Columns(1) = Columns(0) \cup Migrations[1]
  /\ Columns(2) = Columns(1) \cup Migrations[2]
  /\ Columns(3) = Columns(2) \cup Migrations[3]
  <1>1. SCHEMA_VERSION = 3
    BY DEF SCHEMA_VERSION, Migrations
  <1>2. \A v \in 0..3 : Columns(v) = UNION {Migrations[k] : k \in 1..v}
    BY <1>1 DEF Columns
  <1>3. /\ 1..0 = {} /\ 1..1 = {1} /\ 1..2 = {1, 2} /\ 1..3 = {1, 2, 3}
    OBVIOUS
  <1>4. /\ Columns(0) = {} /\ Columns(1) = Migrations[1]
        /\ Columns(2) = Migrations[1] \cup Migrations[2]
        /\ Columns(3) = Migrations[1] \cup Migrations[2] \cup Migrations[3]
    BY <1>2, <1>3
  <1> QED BY <1>1, <1>4

\* A migration takes the database one version further.
LEMMA ViewMigrates == ViewInv /\ UNCHANGED cli /\ phase' = phase
                        /\ (OpenState \/ Migrate \/ MigrationFails) => ViewInv'
  <1> SUFFICES ASSUME ViewInv, UNCHANGED cli, phase' = phase,
                      OpenState \/ Migrate \/ MigrationFails
               PROVE  ViewInv'
    OBVIOUS
  <1>0. CliTypes' /\ GraphMissesOnlyMoved'
    BY DEF ViewInv, CliTypes, GraphMissesOnlyMoved
  <1>1. CASE OpenState
    BY <1>0, <1>1 DEF OpenState, ViewInv, SchemaIsKnown, MigrationIsCurrent, Refused, Pending
  <1>2. CASE MigrationFails
    BY <1>0, <1>2 DEF MigrationFails, ViewInv, SchemaIsKnown, MigrationIsCurrent
  <1>3. CASE Migrate
    <2> DEFINE v == db.version
    <2>1. /\ step = "migrate" /\ step' = step /\ todo # <<>> /\ todo = Pending /\ todo' = Tail(todo)
          /\ db' = [version |-> Head(todo), has |-> db.has \cup Migrations[Head(todo)]]
          /\ v \in 0..4 /\ ~ (v > 3) /\ db.has = Columns(v)
          /\ cli.at # "off" => v = 3
      BY <1>3, Versions DEF Migrate, apply_migration, ViewInv, MigrationIsCurrent, SchemaIsKnown,
         Refused
    <2>2. todo = [k \in 1..(3 - v) |-> v + k]
      BY <2>1, Versions DEF Pending
    <2> HIDE DEF v
    <2>3. v \in {0, 1, 2}
      <3>1. v = 3 => todo = <<>>
        <4>1. v = 3 => 1..(3 - v) = {}
          OBVIOUS
        <4> QED BY <2>2, <4>1
      <3> QED BY <2>1, <3>1
    <2>4. Len(todo) = 3 - v /\ Head(todo) = v + 1
          /\ Tail(todo) = [k \in 1..(3 - (v + 1)) |-> (v + 1) + k]
      BY <2>2, <2>3
    <2>5. db' = [version |-> v + 1, has |-> Columns(v + 1)]
      <3>1. Columns(v + 1) = Columns(v) \cup Migrations[v + 1]
        BY <2>3, Versions
      <3> QED BY <2>1, <2>4, <3>1
    <2>6. db'.version = v + 1 /\ db'.has = Columns(v + 1)
      BY <2>5
    <2>7. SchemaIsKnown'
      <3>1. db' = [version |-> db'.version, has |-> Columns(db'.version)]
        BY <2>5, <2>6
      <3>2. db'.version \in 0..4 /\ SCHEMA_VERSION + 1 = 4
        BY <2>3, <2>6, Versions
      <3>3. step' = "migrate" /\ cli'.at = "off"
        BY <2>1, <2>3
      <3> QED BY <3>1, <3>2, <3>3 DEF SchemaIsKnown
    <2>8. MigrationIsCurrent'
      <3>1. ~ Refused'
        BY <2>3, <2>6, Versions DEF Refused
      <3>2. Pending' = [k \in 1..(3 - (v + 1)) |-> (v + 1) + k]
        BY <2>6, Versions DEF Pending
      <3> QED BY <2>1, <2>4, <3>1, <3>2 DEF MigrationIsCurrent
    <2> QED BY <1>0, <2>7, <2>8 DEF ViewInv
  <1> QED BY <1>1, <1>2, <1>3

\* The start goes on with a database of this build's version.
LEMMA ViewStarts == ViewInv /\ StartLog /\ UNCHANGED <<cli, db>> => ViewInv'
  <1> SUFFICES ASSUME ViewInv, StartLog, UNCHANGED <<cli, db>> PROVE ViewInv'
    OBVIOUS
  <1>1. step = "migrate" /\ todo = <<>> /\ step' = "rebuild" /\ phase' = phase
    BY DEF StartLog
  <1>2. db.version \in 0..4 /\ ~ (db.version > 3)
        /\ <<>> = [k \in 1..(3 - db.version) |-> db.version + k]
    BY <1>1, Versions DEF ViewInv, SchemaIsKnown, MigrationIsCurrent, Refused, Pending
  <1>3. db.version = 3
    <2> DEFINE due == 3 - db.version
    <2>1. due \in 0..3
      BY <1>2
    <2>2. <<>> = [k \in 1..due |-> db.version + k]
      BY <1>2
    <2> HIDE DEF due
    <2>3. DOMAIN <<>> = 1..due
      BY <2>2, Zenon
    <2>4. DOMAIN <<>> = {}
      OBVIOUS
    <2>5. due = 0
      BY <2>1, <2>3, <2>4
    <2> QED BY <1>2, <2>5 DEF due
  <1> QED BY <1>1, <1>3, Versions DEF ViewInv, CliTypes, GraphMissesOnlyMoved, SchemaIsKnown,
                                      MigrationIsCurrent

\* Every other step of the orchestrator leaves the database as it is, and phases
\* only go forward.
LEMMA ViewQuiet ==
  ASSUME ViewInv, UNCHANGED <<cli, db>>, step' # "migrate" \/ UNCHANGED <<step, todo>>,
         step \notin {"down", "migrate"} \/ step' \in {step, "down"},
         \A i \in Issues : phase[i] \notin {"none", "graphed"}
                             => phase'[i] \notin {"none", "graphed"}
  PROVE  ViewInv'
  <1>1. SchemaIsKnown' /\ CliTypes' /\ MigrationIsCurrent'
    BY DEF ViewInv, SchemaIsKnown, CliTypes, MigrationIsCurrent, Refused, Pending
  <1>2. GraphMissesOnlyMoved'
    BY DEF ViewInv, CliTypes, GraphMissesOnlyMoved
  <1> QED BY <1>1, <1>2 DEF ViewInv

\* The command runs.
LEMMA ViewCli == ViewInv /\ LabelInv /\ Cli => ViewInv'
  <1> SUFFICES ASSUME ViewInv, LabelInv, Cli PROVE ViewInv'
    OBVIOUS
  <1>1. UNCHANGED <<step, todo, phase, labels, db>>
    BY DEF Cli, pump
  <1>2. MigrationIsCurrent'
    BY <1>1 DEF ViewInv, MigrationIsCurrent, Refused, Pending
  <1>3. phase \in [Issues -> PhaseNames \cup {"none"}]
    BY DEF LabelInv, LabelTypes
  <1>4. CASE open_read_only
    BY <1>1, <1>2, <1>4 DEF open_read_only, verify_schema_version, ViewInv, SchemaIsKnown,
       CliTypes, GraphMissesOnlyMoved, NoCli
  <1>5. CASE cmd_graph_begin
    BY <1>1, <1>2, <1>3, <1>5 DEF cmd_graph_begin, ViewInv, SchemaIsKnown, CliTypes,
       GraphMissesOnlyMoved
  <1>6. CASE cmd_graph
    <2> DEFINE ids == cli.listed \cup list_graphed
               missed == Missed(ids)
               shown == cli.listed \cap missed
    <2>1. cli' = [at |-> "off", missed |-> missed, listed |-> shown]
      BY <1>6 DEF cmd_graph, ShowGraph
    <2>2. missed \subseteq Issues /\ \A i \in missed :
            i \notin cli.listed /\ phase[i] \notin {"none", "graphed"}
      <3> SUFFICES ASSUME NEW i \in missed
                   PROVE  i \in Issues /\ i \notin cli.listed
                            /\ phase[i] \notin {"none", "graphed"}
        OBVIOUS
      <3>1. i \in Issues /\ i \notin ids /\ (phase[i] # "none" \/ i \in list_graphed)
        BY DEF Missed
      <3>2. i \notin cli.listed /\ i \notin list_graphed
        BY <3>1
      <3>3. "graphed" \notin labels[i] /\ phase[i] # "none"
        BY <3>1, <3>2 DEF list_graphed
      <3> QED BY <3>1, <3>2, <3>3 DEF LabelInv, GraphedIsLabelled
    <2>3. shown \in SUBSET Issues /\ \A i \in missed : i \notin shown
      BY <2>2 DEF ViewInv, CliTypes
    <2> HIDE DEF missed, shown
    <2>4. cli'.at = "off" /\ cli'.missed = missed /\ cli'.listed = shown
      BY <2>1
    <2>5. CliTypes' /\ GraphMissesOnlyMoved'
      BY <1>1, <2>1, <2>2, <2>3, <2>4 DEF CliTypes, GraphMissesOnlyMoved
    <2>6. SchemaIsKnown'
      BY <1>1, <2>4 DEF ViewInv, SchemaIsKnown
    <2> QED BY <1>2, <2>5, <2>6 DEF ViewInv
  <1> QED BY <1>4, <1>5, <1>6 DEF Cli


-----------------------------------------------------------------------------
(* The inductive invariant. *)

AllInv == LogInv /\ LabelInv /\ ViewInv

\* The three parts are the invariant.
LEMMA PartsAreWhole == AllInv <=> ObserverInv
  <1>1. {file, buf, reader.got} \subseteq Seq(Nat \X (1..3))
          <=> file \in Seq(Pieces) /\ buf \in Seq(Pieces) /\ reader.got \in Seq(Pieces)
    BY DEF Pieces
  <1>2. LogTypes /\ LabelTypes /\ CliTypes <=> TypeOK
    BY <1>1 DEF LogTypes, LabelTypes, CliTypes, TypeOK
  <1>3. LabelLists /\ MigrationIsCurrent <=> ListIsCurrent
    BY DEF LabelLists, MigrationIsCurrent, ListIsCurrent
  <1> QED BY <1>2, <1>3 DEF AllInv, LogInv, LabelInv, ViewInv, ObserverInv

LEMMA StartsWhole == Init => AllInv
  <1> SUFFICES ASSUME Init PROVE AllInv
    OBVIOUS
  <1>1. /\ phase = [i \in Issues |-> "none"] /\ labels = [i \in Issues |-> {}]
        /\ step = "down" /\ cur = 0 /\ todo = <<>> /\ table = <<>> /\ file = <<>> /\ buf = <<>>
        /\ reader = [on |-> FALSE, got |-> <<>>] /\ torn = {}
        /\ cli = [at |-> "off", listed |-> {}, missed |-> {}]
        /\ db \in {[version |-> v, has |-> Columns(v)] : v \in 0..(SCHEMA_VERSION + 1)}
    BY DEF Init, LogInit, SchemaInit, NoRead, NoCli
  <1>2. LogInv
    <2>1. <<>> \in Seq(Pieces) /\ <<>> \in Seq(Issues) /\ Len(<<>>) = 0 /\ DOMAIN <<>> = {}
      BY EmptySeq
    <2>2. reader.got = <<>> /\ reader \in [on : BOOLEAN, got : {<<>>}]
      BY <1>1
    <2>3. LogTypes
      BY <1>1, <2>1, <2>2 DEF LogTypes
    <2> QED BY <1>1, <2>1, <2>2, <2>3 DEF LogInv, LogIsPrefix, ReaderIsPrefix
  <1>3. LabelInv
    BY <1>1 DEF LabelInv, LabelTypes, LabelLists, GraphedIsLabelled, TransitionIsFollowed,
       LabelsFollowPhase, Landed, Moving, Recovering, Steps, PhaseNames
  <1>4. ViewInv
    <2>1. PICK v \in 0..(SCHEMA_VERSION + 1) : db = [version |-> v, has |-> Columns(v)]
      BY <1>1
    <2>2. db.version = v /\ db.has = Columns(v)
      BY <2>1
    <2>3. cli.at = "off" /\ cli.missed = {}
      BY <1>1
    <2>4. SchemaIsKnown
      BY <1>1, <2>1, <2>2, <2>3 DEF SchemaIsKnown
    <2>5. CliTypes
      BY <1>1 DEF CliTypes, PhaseNames
    <2> QED BY <1>1, <2>3, <2>4, <2>5 DEF ViewInv, MigrationIsCurrent, GraphMissesOnlyMoved
  <1> QED BY <1>2, <1>3, <1>4 DEF AllInv

\* The log, step by step.
LEMMA LogStep == AllInv /\ [Next]_vars => LogInv'
  <1> SUFFICES ASSUME AllInv, [Next]_vars PROVE LogInv'
    OBVIOUS
  <1>0. LogInv /\ TypeOK /\ ListIsCurrent
    BY PartsAreWhole DEF AllInv, ObserverInv
  <1>1. CASE UNCHANGED reader /\ (StartLog \/ Rebuild \/ DropLog \/ emit_transition \/ EmitRow
                                    \/ EmitLine \/ EmitFails \/ Kill \/ RecoveryRow
                                    \/ RecoveryLine \/ RecoveryLineFails)
    BY <1>0, <1>1, LogWritten
  <1>2. CASE ReadFile
    BY <1>0, <1>2, LogRead
  <1>3. CASE UNCHANGED <<logvars, reader, step>>
    BY <1>0, <1>3, LogQuiet
  <1>4. CASE UNCHANGED reader /\ (OpenState \/ MigrationFails)
    <2>1. OpenState => step = "down" /\ step' = "migrate" /\ UNCHANGED logvars
      BY DEF OpenState
    <2>2. MigrationFails => step = "migrate" /\ step' = "down" /\ UNCHANGED logvars
      BY DEF MigrationFails
    <2>3. step = "migrate" => buf = <<>>
      BY <1>0 DEF LogInv, LogIsPrefix
    <2> QED BY <1>0, <1>4, <2>1, <2>2, <2>3, LogQuiet
  <1>5. CASE UNCHANGED reader /\ (start_crossbridge \/ DropServer \/ IngestList \/ IngestDone
               \/ NothingToDrive \/ Transition \/ set_phase \/ LabelLanded \/ label_add
               \/ label_fails \/ recover_issue \/ quarantine \/ RecoverDone)
    <2>1. /\ step \in {"start", "exit", "idle", "ingest", "drive", "label", "relabel", "recover"}
          /\ step' \in {"idle", "dropped", "ingest", "drive", "relabel", "landed", "emit", "exit",
                        "recover", "reemit", "start"}
          /\ UNCHANGED logvars
      BY <1>5 DEF start_crossbridge, DropServer, join_thread_bounded, logvars, IngestList,
         IngestDone, NothingToDrive, Transition, set_phase, LabelLanded, label_add, label_fails,
         recover_issue, quarantine, RecoverDone
    <2> QED BY <1>0, <1>5, <2>1, LogQuiet
  <1>6. ASSUME Migrate \/ IngestOne \/ label_remove \/ ServerSteps
        PROVE  UNCHANGED <<logvars, step>>
    BY <1>6 DEF Migrate, IngestOne, label_remove, ServerSteps
  <1>7. ASSUME NEW i \in Issues, Graph(i) \/ Unblock(i) PROVE UNCHANGED <<logvars, reader, step>>
    BY <1>7 DEF Graph, Unblock, pump, observers
  <1>8. ASSUME Cli PROVE UNCHANGED <<logvars, reader, step>>
    BY <1>8 DEF Cli, pump
  <1>9. ASSUME UNCHANGED vars PROVE UNCHANGED <<logvars, reader, step>>
    BY <1>9 DEF vars, pump, observers
  <1> QED BY <1>1, <1>2, <1>3, <1>4, <1>5, <1>6, <1>7, <1>8, <1>9
             DEF Next, Orchestrator, Running, observers

\* The labels, step by step.
LEMMA LabelStep == AllInv /\ [Next]_vars => LabelInv'
  <1> SUFFICES ASSUME AllInv, [Next]_vars PROVE LabelInv'
    OBVIOUS
  <1>0. LabelInv
    BY DEF AllInv
  <1>1. CASE IngestList \/ IngestOne
    BY <1>0, <1>1, LabelIngest
  <1>2. CASE Transition \/ set_phase \/ LabelLanded
    BY <1>0, <1>2, LabelBegin
  <1>3. CASE label_remove \/ label_add \/ label_fails
    BY <1>0, <1>3, LabelMove
  <1>4. CASE emit_transition \/ EmitRow \/ EmitLine \/ EmitFails \/ Kill
    BY <1>0, <1>4, LabelEvent
  <1>5. CASE \E i \in Issues : Graph(i)
    BY <1>0, <1>5, LabelGraph
  <1>6. CASE UNCHANGED <<phase, labels, cur, torn, step, todo>>
    BY <1>0, <1>6, LabelQuiet
  <1>7. CASE OpenState \/ Migrate \/ MigrationFails \/ StartLog \/ RecoverDone
               \/ start_crossbridge \/ DropServer \/ DropLog \/ IngestDone \/ NothingToDrive
    <2>1. /\ UNCHANGED <<phase, labels, cur, torn>>
          /\ step \in {"down", "migrate", "recover", "start", "exit", "dropped", "ingest", "drive"}
          /\ step' \in {"migrate", "down", "rebuild", "start", "idle", "dropped", "drive"}
      BY <1>7 DEF OpenState, Migrate, MigrationFails, StartLog, RecoverDone, start_crossbridge,
         DropServer, DropLog, IngestDone, NothingToDrive
    <2>2. step \notin Moving /\ step' \in Steps \ (Moving \cup Recovering \cup {"ingest"})
      BY <2>1 DEF Moving, Recovering, Steps
    <2> QED BY <1>0, <2>1, <2>2, LabelQuiet
  <1>r. CASE Rebuild \/ recover_issue \/ quarantine \/ RecoveryRow \/ RecoveryLine
               \/ RecoveryLineFails
    BY <1>0, <1>r, LabelRecover
  <1>8. ASSUME NEW i \in Issues, Unblock(i)
        PROVE  UNCHANGED <<phase, labels, cur, torn, step, todo>>
    BY <1>8 DEF Unblock, pump
  <1>9. ASSUME ServerSteps \/ ReadFile \/ Cli \/ UNCHANGED vars
        PROVE  UNCHANGED <<phase, labels, cur, torn, step, todo>>
    BY <1>9 DEF ServerSteps, ReadFile, Cli, vars, pump
  <1> QED BY <1>1, <1>2, <1>3, <1>4, <1>5, <1>6, <1>7, <1>8, <1>9, <1>r
             DEF Next, Orchestrator, Running

\* No phase is given up.
LEMMA PhasesAdvance ==
  ASSUME LabelInv, NEW i \in Issues, phase[i] \notin {"none", "graphed"},
         IngestOne \/ Transition \/ set_phase \/ recover_issue \/ quarantine
           \/ RecoveryLineFails
  PROVE  phase'[i] \notin {"none", "graphed"}
  <1>1. phase \in [Issues -> PhaseNames \cup {"none"}]
    BY DEF LabelInv, LabelTypes
  <1>2. CASE IngestOne
    <2>1. UNCHANGED phase
            \/ (phase[Head(todo)] = "none" /\ phase' = [phase EXCEPT ![Head(todo)] = "graphed"])
      BY <1>2 DEF IngestOne, upsert_issue
    <2> QED BY <1>1, <2>1
  <1>3. CASE Transition \/ set_phase
    <2> DEFINE j == Min(Ready)
    <2>1. j \in Ready /\ (phase' = [phase EXCEPT ![j] = NextPhase[phase[j]]]
                           \/ phase' = [phase EXCEPT ![j] = "merged"])
      BY <1>3, ReadyIn DEF Transition, set_phase
    <2> HIDE DEF j
    <2>2. j \in Issues /\ NextPhase[phase[j]] \in {"implementing", "adversary-review", "merged"}
      BY <2>1 DEF Ready, NextPhase
    <2> QED BY <1>1, <2>1, <2>2
  <1>4. CASE recover_issue \/ quarantine \/ RecoveryLineFails
    <2>1. \/ UNCHANGED phase
          \/ \E p \in {"implementing", "merged", "orchestrator-error"} :
               phase' = [phase EXCEPT ![Head(todo)] = p]
      BY <1>4 DEF recover_issue, quarantine, RecoveryLineFails, RecoveryWrites
    <2> QED BY <1>1, <2>1
  <1> QED BY <1>2, <1>3, <1>4

\* The schema and the views, step by step.
LEMMA ViewStep == AllInv /\ [Next]_vars => ViewInv'
  <1> SUFFICES ASSUME AllInv, [Next]_vars PROVE ViewInv'
    OBVIOUS
  <1>0. ViewInv /\ LabelInv
    BY DEF AllInv
  <1>1. CASE UNCHANGED cli /\ (OpenState \/ Migrate \/ MigrationFails)
    <2>1. UNCHANGED phase
      BY <1>1 DEF OpenState, Migrate, MigrationFails
    <2> QED BY <1>0, <1>1, <2>1, ViewMigrates
  <1>2. CASE StartLog /\ UNCHANGED <<cli, db>>
    BY <1>0, <1>2, ViewStarts
  <1>3. CASE Cli
    BY <1>0, <1>3, ViewCli
  <1>4. CASE UNCHANGED <<cli, db, phase, step, todo>>
    BY <1>0, <1>4, ViewQuiet
  <1>5. CASE UNCHANGED <<cli, db>> /\ (IngestOne \/ Transition \/ set_phase \/ recover_issue
                                         \/ quarantine \/ RecoveryLineFails)
    <2>1. /\ step \in {"ingest", "drive", "recover", "remirror"}
          /\ step' \in {"ingest", "relabel", "landed", "recover", "reemit", "exit"}
      BY <1>5 DEF IngestOne, Transition, set_phase, recover_issue, quarantine, RecoveryLineFails
    <2> QED BY <1>0, <1>5, <2>1, PhasesAdvance, ViewQuiet
  <1>6. CASE UNCHANGED <<cli, db>> /\ (Rebuild \/ start_crossbridge \/ DropServer \/ DropLog
               \/ IngestList \/ IngestDone \/ NothingToDrive \/ emit_transition \/ LabelLanded
               \/ label_remove \/ label_add \/ EmitRow \/ EmitLine \/ EmitFails \/ label_fails
               \/ RecoveryRow \/ RecoveryLine \/ RecoverDone)
    <2>1. step \notin {"down", "migrate"} /\ step' # "migrate" /\ UNCHANGED phase
      BY <1>6 DEF Rebuild, start_crossbridge, DropServer, DropLog, IngestList, IngestDone,
         NothingToDrive, emit_transition, LabelLanded, label_remove, label_add, EmitRow,
         EmitLine, EmitFails, label_fails, RecoveryRow, RecoveryLine, RecoverDone
    <2> QED BY <1>0, <1>6, <2>1, ViewQuiet
  <1>7. CASE UNCHANGED <<cli, db>> /\ Kill
    <2>1. step' = "down" /\ UNCHANGED phase
      BY <1>7 DEF Kill
    <2> QED BY <1>0, <1>7, <2>1, ViewQuiet
  <1>8. CASE \E i \in Issues : Graph(i)
    <2>1. UNCHANGED <<cli, db, phase, step, todo>>
      BY <1>8 DEF Graph, observers
    <2> QED BY <1>4, <2>1
  <1>9. CASE UNCHANGED <<cli, db>> /\ ServerSteps
    BY <1>4, <1>9 DEF ServerSteps
  <1>10. ASSUME NEW i \in Issues, Unblock(i) PROVE UNCHANGED <<cli, db, phase, step, todo>>
    BY <1>10 DEF Unblock, pump, observers
  <1>11. ASSUME ReadFile \/ UNCHANGED vars PROVE UNCHANGED <<cli, db, phase, step, todo>>
    BY <1>11 DEF ReadFile, vars, pump, observers
  <1> QED BY <1>1, <1>2, <1>3, <1>4, <1>5, <1>6, <1>7, <1>8, <1>9, <1>10, <1>11
             DEF Next, Orchestrator, Running, observers

\* The observers' inductive invariant: types; what a list of issues or labels
\* says of what is still on it; the schema behind user_version; file, buffer and
\* reader as beginnings of the rendered table; labels that follow phases.
THEOREM ObserverInvariant == Spec => []ObserverInv
  <1>1. Init => AllInv
    BY StartsWhole
  <1>2. AllInv /\ [Next]_vars => AllInv'
    BY LogStep, LabelStep, ViewStep DEF AllInv
  <1>3. AllInv => ObserverInv
    BY PartsAreWhole
  <1> QED BY <1>1, <1>2, <1>3, PTL DEF Spec

\* A tracked issue carries its phase as its only phase label, except inside a
\* transition, after one that a crash or an error cut short, and after recovery
\* moved it without relabelling, until its next transition.
THEOREM LabelsAreTheirPhases == Spec => []LabelsFollowPhase
  <1>1. ObserverInv => LabelsFollowPhase
    BY DEF ObserverInv
  <1> QED BY <1>1, ObserverInvariant, PTL

\* Whoever reads events.jsonl, through failed writes, deaths and the truncation
\* of a start, has a beginning of the events table, and reads it without an
\* error unless it ends in the middle of a character.
THEOREM ReaderSeesTheTable == Spec => []ReaderSeesPrefix
  <1>1. ObserverInv => ReaderSeesPrefix
    <2> SUFFICES ASSUME ObserverInv PROVE ReaderSeesPrefix
      OBVIOUS
    <2> DEFINE got == reader.got
               whole == Render(Len(table))
    <2>1. got \in Seq(Pieces) /\ InPlace(got) /\ Len(got) <= 3 * Len(table)
          /\ Len(table) \in Nat
      BY PartsAreWhole DEF AllInv, LogInv, LogTypes, ReaderIsPrefix, InPlace
    <2>2. whole \in Seq(Pieces) /\ Len(whole) = 3 * Len(table)
          /\ \A p \in DOMAIN whole : whole[p] = Piece(p)
      BY <2>1, RenderInPlace
    <2> HIDE DEF got, whole
    <2>3. ~ InsideCharacter(got) => read_all(got).ok
      BY <2>1, BeginningsRead
    <2>4. Len(got) <= Len(whole)
      BY <2>1, <2>2
    <2>5. got = SubSeq(whole, 1, Len(got))
      <3>1. \A p \in 1..Len(got) : got[p] = whole[p]
        BY <2>1, <2>2, <2>4 DEF InPlace
      <3> QED BY <2>1, <2>2, <2>4, <3>1
    <2>6. IsPrefix(got, whole)
      BY <2>4, <2>5 DEF IsPrefix
    <2> QED BY <2>3, <2>6 DEF ReaderSeesPrefix, got, whole
  <1> QED BY <1>1, ObserverInvariant, PTL

\* What the command line tool shows: a whole schema or a refusal; the events of
\* the table whenever none is on its way to the mirror; and, as the graph, every
\* issue but those that moved while it was read.
THEOREM ViewsTellTheTruth == Spec => []ViewsAreHonest
  <1>1. ObserverInv => SchemaIsWhole
    <2>1. ObserverInv => db.has = Columns(db.version)
      BY DEF ObserverInv, SchemaIsKnown
    <2> QED BY <2>1 DEF ObserverInv, SchemaIsKnown, SchemaIsWhole, Queried
  <1>2. ObserverInv => MirrorExact
    <2> SUFFICES ASSUME ObserverInv, buf = <<>>,
                        step \in {"recover", "reemit", "start", "idle", "ingest", "drive",
                                  "relabel", "emit", "landed", "label"}
                 PROVE  /\ tail(file, Limit) = cmd_events(Limit)
                        /\ \A i \in Issues :
                             cmd_events_of(i, Limit) =
                               LastOf(SelectSeq(read_all(file).rows, LAMBDA k : table[k] = i),
                                      Limit)
      BY DEF MirrorExact
    <2>1. file \in Seq(Pieces) /\ InPlace(file) /\ Len(table) \in Nat /\ table \in Seq(Issues)
          /\ Len(file) + Len(buf) = 3 * Len(table) /\ Len(file) \in Nat
      BY PartsAreWhole DEF AllInv, LogInv, LogTypes, LogIsPrefix, InPlace
    <2>2. Len(file) = 3 * Len(table)
      BY <2>1
    <2>3. read_all(file).rows = [k \in 1..Len(table) |-> k]
      BY <2>1, <2>2, WholeFileReads
    <2>4. [k \in DOMAIN table |-> k] = read_all(file).rows
      BY <2>1, <2>3
    <2>5. tail(file, Limit) = cmd_events(Limit)
      BY <2>4 DEF tail, cmd_events
    <2>6. ASSUME NEW i \in Issues
          PROVE  cmd_events_of(i, Limit) =
                   LastOf(SelectSeq(read_all(file).rows, LAMBDA k : table[k] = i), Limit)
      <3> DEFINE shown(s) == LastOf(SelectSeq(s, LAMBDA k : table[k] = i), Limit)
      <3>1. cmd_events_of(i, Limit) = shown([k \in DOMAIN table |-> k])
        BY DEF cmd_events_of
      <3>2. shown([k \in DOMAIN table |-> k]) = shown(read_all(file).rows)
        <4> HIDE DEF shown
        <4> QED BY <2>4
      <3> QED BY <3>1, <3>2
    <2> QED BY <2>5, <2>6
  <1>3. ObserverInv => GraphMissesOnlyMoved
    BY DEF ObserverInv
  <1>4. ObserverInv => ViewsAreHonest
    BY <1>1, <1>2, <1>3 DEF ViewsAreHonest
  <1> QED BY <1>4, ObserverInvariant, PTL
=============================================================================
