----------------------------- MODULE LaunchProofs -----------------------------
(***************************************************************************)
(* For every host, wherever its repository lies and whatever its           *)
(* configuration is: a sandbox grants what its role is to have and nothing *)
(* else, and every configuration that is accepted can converge. For every  *)
(* issue id and title: names are read back and told apart. And for every   *)
(* argument, output and edit script: the shell, the tail of a report and   *)
(* git apply get the text that was meant for them.                         *)
(***************************************************************************)
EXTENDS Launch, OrderedProofs

-----------------------------------------------------------------------------
(* Paths. *)

\* The names of files and directories: those the code has, and those of a host.
Named ==
    {"home", "nix", "etc", "proc", "dev", "run", "tmp", ".crosslink", ".jj", ".git",
     ".workspace", "mine", ".nix-profile", ".local", "state", ".config", "git", "jj",
     "claude", ".claude", "repo", "refs", "db", ".orchestrator", "state.db", "other",
     "src", "x"}
Component == Named \cup UNION {Range(h.root) \cup Range(h.config) : h \in Hosts}
Path == Seq(Component)

\* The first among them.
LEMMA NamedIsIn == \A d \in Named : d \in Component
  BY DEF Component

\* IsPrefix, component by component.
Below(a, p) == Len(a) <= Len(p) /\ \A k \in 1 .. Len(a) : a[k] = p[k]

\* It is the same.
LEMMA PrefixIsBelow ==
  ASSUME NEW T, NEW a \in Seq(T), NEW p \in Seq(T)
  PROVE  IsPrefix(a, p) <=> Below(a, p)
  <1>1. Len(a) \in Nat /\ Len(p) \in Nat
    OBVIOUS
  <1>2. SubSeq(a, 1, Len(a)) = [k \in 1 .. Len(a) |-> a[k]]
    OBVIOUS
  <1>3. Len(a) <= Len(p) => SubSeq(p, 1, Len(a)) = [k \in 1 .. Len(a) |-> p[k]]
    OBVIOUS
  <1>4. [k \in 1 .. Len(a) |-> a[k]] = [k \in 1 .. Len(a) |-> p[k]]
          <=> \A k \in 1 .. Len(a) : a[k] = p[k]
    OBVIOUS
  <1> QED BY <1>2, <1>3, <1>4 DEF IsPrefix, Below

\* A path and what is in it.
LEMMA Into ==
  ASSUME NEW T, NEW root \in Seq(T), NEW d \in T
  PROVE  /\ Append(root, d) \in Seq(T) /\ Append(root, d) = root \o <<d>>
         /\ Len(root) \in Nat /\ Len(Append(root, d)) = Len(root) + 1
         /\ \A k \in 1 .. Len(root) : Append(root, d)[k] = root[k]
         /\ Append(root, d)[Len(root) + 1] = d
  BY AppendProperties, AppendIsConcat, LenProperties

\* And what is in that.
LEMMA IntoTwice ==
  ASSUME NEW T, NEW root \in Seq(T), NEW d \in T, NEW e \in T
  PROVE  /\ root \o <<d, e>> \in Seq(T) /\ Len(root \o <<d, e>>) = Len(root) + 2
         /\ \A k \in 1 .. Len(root) : (root \o <<d, e>>)[k] = root[k]
         /\ (root \o <<d, e>>)[Len(root) + 1] = d
  <1> DEFINE two == <<d, e>>
  <1>1. two \in Seq(T) /\ Len(two) = 2 /\ two[1] = d
    OBVIOUS
  <1> HIDE DEF two
  <1>2. Len(root) \in Nat
    OBVIOUS
  <1>3. /\ root \o two \in Seq(T) /\ Len(root \o two) = Len(root) + 2
        /\ \A k \in 1 .. Len(root) : (root \o two)[k] = root[k]
        /\ (root \o two)[Len(root) + 1] = two[1]
    <2>1. /\ root \o two \in Seq(T) /\ Len(root \o two) = Len(root) + 2
          /\ \A k \in 1 .. Len(root) + 2 :
                (root \o two)[k] = IF k <= Len(root) THEN root[k] ELSE two[k - Len(root)]
      <3>1. /\ root \o two \in Seq(T) /\ Len(root \o two) = Len(root) + Len(two)
            /\ \A k \in 1 .. Len(root) + Len(two) :
                 (root \o two)[k] = IF k <= Len(root) THEN root[k] ELSE two[k - Len(root)]
        BY <1>1, ConcatProperties, Zenon
      <3> QED BY <1>1, <3>1
    <2>2. Len(root) + 1 \in 1 .. Len(root) + 2 /\ (Len(root) + 1) - Len(root) = 1
          /\ ~ (Len(root) + 1 <= Len(root))
      BY <1>2
    <2>3. \A k \in 1 .. Len(root) : k \in 1 .. Len(root) + 2 /\ k <= Len(root)
      BY <1>2
    <2> QED BY <2>1, <2>2, <2>3
  <1> QED BY <1>1, <1>3 DEF two

\* What is below a directory is below it in one place only.
LEMMA OneWayDown ==
  ASSUME NEW root \in Path, NEW p \in Path, NEW d \in Component, NEW e \in Component,
         IsPrefix(Append(root, d), p), IsPrefix(Append(root, e), p)
  PROVE  d = e
  <1> DEFINE n == Len(root) + 1
             a == Append(root, d)
             b == Append(root, e)
  <1>1. /\ a \in Path /\ Len(a) = n /\ a[n] = d
        /\ b \in Path /\ Len(b) = n /\ b[n] = e
        /\ n \in 1 .. n
    <2>1. /\ a \in Path /\ Len(a) = n /\ a[n] = d /\ Len(root) \in Nat
          /\ b \in Path /\ Len(b) = n /\ b[n] = e
      BY Into, Zenon DEF Path
    <2>2. n \in Nat /\ n >= 1
      BY <2>1
    <2> QED BY <2>1, <2>2
  <1>2. Below(a, p) /\ Below(b, p)
    BY <1>1, PrefixIsBelow DEF Path
  <1> HIDE DEF n, a, b
  <1> QED BY <1>1, <1>2 DEF Below

\* A directory in a directory is below it.
LEMMA TwiceIsBelow ==
  ASSUME NEW T, NEW root \in Seq(T), NEW p \in Seq(T), NEW d \in T, NEW e \in T,
         IsPrefix(root \o <<d, e>>, p)
  PROVE  IsPrefix(Append(root, d), p)
  <1> DEFINE far == root \o <<d, e>>
             near == Append(root, d)
  <1>1. /\ far \in Seq(T) /\ Len(far) = Len(root) + 2
        /\ \A k \in 1 .. Len(root) : far[k] = root[k]
        /\ far[Len(root) + 1] = d
    BY IntoTwice
  <1>2. /\ near \in Seq(T) /\ Len(near) = Len(root) + 1 /\ Len(root) \in Nat
        /\ \A k \in 1 .. Len(root) : near[k] = root[k]
        /\ near[Len(root) + 1] = d
    BY Into
  <1> HIDE DEF far
  <1>3. Below(far, p)
    BY <1>1, PrefixIsBelow DEF far
  <1> HIDE DEF near
  <1>4. Below(near, p)
    <2>1. Len(p) \in Nat
      OBVIOUS
    <2> QED BY <1>1, <1>2, <1>3, <2>1 DEF Below
  <1>5. IsPrefix(near, p)
    BY <1>2, <1>4, PrefixIsBelow
  <1> QED BY <1>5 DEF near

\* A workspace is below the directory of workspaces.
LEMMA WorkspaceIsBelow ==
  ASSUME NEW root \in Path, NEW p \in Path, IsPrefix(Workspace(root), p)
  PROVE  IsPrefix(Append(root, ".workspace"), p)
  <1>1. ".workspace" \in Component /\ "mine" \in Component
    BY NamedIsIn DEF Named
  <1>2. root \in Seq(Component) /\ p \in Seq(Component)
    BY DEF Path
  <1>3. ASSUME NEW d \in Component, NEW e \in Component, IsPrefix(root \o <<d, e>>, p)
        PROVE  IsPrefix(Append(root, d), p)
    BY <1>2, <1>3, TwiceIsBelow
  <1>4. IsPrefix(root \o <<".workspace", "mine">>, p)
    BY DEF Workspace
  <1> QED BY <1>1, <1>3, <1>4

-----------------------------------------------------------------------------
(* What the last mount over a path makes of it. *)

MountSet == [kind : {"ro", "rw", "overlay", "tmpfs", "proc", "dev"}, at : Path]

\* A set of numbers up to n that is not empty has a greatest one.
LEMMA LastExists ==
  ASSUME NEW n \in Nat, NEW S \in SUBSET (1 .. n), S # {}
  PROVE  \E i \in S : \A j \in S : j <= i
  <1> DEFINE Bounded(m) == \A R \in SUBSET (1 .. m) :
                             R # {} => \E i \in R : \A j \in R : j <= i
             T == {m \in Nat : Bounded(m)}
  <1>1. 0 \in T
    <2>1. 1 .. 0 = {}
      OBVIOUS
    <2> QED BY <2>1
  <1>2. ASSUME NEW m \in Nat, m \in T PROVE m + 1 \in T
    <2>1. Bounded(m)
      BY <1>2
    <2>2. ASSUME NEW R \in SUBSET (1 .. m + 1), R # {}
          PROVE  \E i \in R : \A j \in R : j <= i
      <3>1. CASE m + 1 \in R
        BY <3>1
      <3>2. CASE m + 1 \notin R
        <4>1. R \in SUBSET (1 .. m)
          BY <3>2
        <4> QED BY <2>1, <2>2, <4>1
      <3> QED BY <3>1, <3>2
    <2>3. Bounded(m + 1)
      BY <2>2
    <2> QED BY <2>3
  <1> HIDE DEF T
  <1>3. n \in T
    BY <1>1, <1>2, SetInduction
  <1>4. Bounded(n)
    BY <1>3 DEF T
  <1> QED BY <1>4

\* The mounts over a path.
Over(mts, p) == {i \in DOMAIN mts : IsPrefix(mts[i].at, p)}

\* The last of them counts.
LEMMA LastCounts ==
  ASSUME NEW mts \in Seq(MountSet), NEW p, Over(mts, p) # {}
  PROVE  \E i \in Over(mts, p) : /\ \A j \in Over(mts, p) : j <= i
                                 /\ MountOf(mts, p) = mts[i].kind
  <1> DEFINE S == Over(mts, p)
             i == CHOOSE k \in S : \A j \in S : j <= k
  <1>1. S \in SUBSET (1 .. Len(mts)) /\ Len(mts) \in Nat
    BY DEF Over
  <1>2. \E k \in S : \A j \in S : j <= k
    BY <1>1, LastExists
  <1>3. i \in S /\ \A j \in S : j <= i
    BY <1>2
  <1>4. MountOf(mts, p) = mts[i].kind
    BY DEF MountOf, Over
  <1> HIDE DEF i
  <1> QED BY <1>3, <1>4

\* Where mounts are that were put together.
LEMMA MountsJoined ==
  ASSUME NEW a \in Seq(MountSet), NEW b \in Seq(MountSet)
  PROVE  /\ a \o b \in Seq(MountSet)
         /\ Len(a) \in Nat /\ DOMAIN a = 1 .. Len(a)
         /\ Len(b) \in Nat /\ DOMAIN b = 1 .. Len(b)
         /\ DOMAIN (a \o b) = 1 .. Len(a) + Len(b)
         /\ \A i \in 1 .. Len(a) : (a \o b)[i] = a[i]
         /\ \A i \in 1 .. Len(b) : (a \o b)[Len(a) + i] = b[i]
         /\ \A i \in DOMAIN (a \o b) : i > Len(a) =>
               i - Len(a) \in DOMAIN b /\ (a \o b)[i] = b[i - Len(a)]
  OBVIOUS

\* If nothing below can be written, what is mounted on top decides; all mounts on
\* top that are over the path are of one kind.
LEMMA TopDecides ==
  ASSUME NEW a \in Seq(MountSet), NEW b \in Seq(MountSet), NEW p,
         \A i \in DOMAIN a : a[i].kind # "rw",
         \A i, j \in Over(b, p) : b[i].kind = b[j].kind
  PROVE  Persists(a \o b, p) <=> \E i \in Over(b, p) : b[i].kind = "rw"
  <1> DEFINE all == a \o b
  <1>1. /\ all \in Seq(MountSet)
        /\ Len(a) \in Nat /\ DOMAIN a = 1 .. Len(a)
        /\ Len(b) \in Nat /\ DOMAIN b = 1 .. Len(b)
        /\ DOMAIN all = 1 .. Len(a) + Len(b)
        /\ \A i \in 1 .. Len(a) : all[i] = a[i]
        /\ \A i \in 1 .. Len(b) : all[Len(a) + i] = b[i]
        /\ \A i \in DOMAIN all : i > Len(a) =>
              i - Len(a) \in DOMAIN b /\ all[i] = b[i - Len(a)]
    BY MountsJoined
  <1> HIDE DEF all
  <1>2. CASE Over(all, p) = {}
    <2>1. MountOf(all, p) = "none"
      BY <1>2 DEF MountOf, Over
    <2>2. \A i \in Over(b, p) : Len(a) + i \in Over(all, p)
      BY <1>1 DEF Over
    <2> QED BY <1>2, <2>1, <2>2 DEF Persists, all
  <1>3. CASE Over(all, p) # {}
    <2>1. PICK i \in Over(all, p) : /\ \A j \in Over(all, p) : j <= i
                                    /\ MountOf(all, p) = all[i].kind
      BY <1>1, <1>3, LastCounts
    <2>2. i \in 1 .. Len(a) + Len(b)
      BY <1>1 DEF Over
    <2>3. CASE i > Len(a)
      <3>1. i - Len(a) \in Over(b, p) /\ all[i] = b[i - Len(a)]
        BY <1>1, <2>3 DEF Over
      <3>2. Persists(all, p) <=> b[i - Len(a)].kind = "rw"
        BY <2>1, <3>1 DEF Persists
      <3> QED BY <3>1, <3>2 DEF all
    <2>4. CASE i <= Len(a)
      <3>1. Over(b, p) = {}
        <4> SUFFICES ASSUME NEW j \in Over(b, p) PROVE FALSE
          OBVIOUS
        <4>1. Len(a) + j \in Over(all, p) /\ j \in 1 .. Len(b)
          BY <1>1 DEF Over
        <4> QED BY <1>1, <2>1, <2>2, <2>4, <4>1
      <3>2. all[i] = a[i] /\ i \in DOMAIN a
        BY <1>1, <2>2, <2>4
      <3> QED BY <2>1, <3>1, <3>2 DEF Persists, all
    <2> QED BY <1>1, <2>2, <2>3, <2>4
  <1> QED BY <1>2, <1>3

\* What shows on top is shown.
Visible == {"ro", "rw", "overlay"}
LEMMA TopShows ==
  ASSUME NEW a \in Seq(MountSet), NEW b \in Seq(MountSet), NEW p,
         \A i \in DOMAIN b : b[i].kind \in Visible, Over(b, p) # {}
  PROVE  Shows(a \o b, p)
  <1> DEFINE all == a \o b
  <1>1. /\ all \in Seq(MountSet)
        /\ Len(a) \in Nat /\ DOMAIN a = 1 .. Len(a)
        /\ Len(b) \in Nat /\ DOMAIN b = 1 .. Len(b)
        /\ DOMAIN all = 1 .. Len(a) + Len(b)
        /\ \A i \in 1 .. Len(b) : all[Len(a) + i] = b[i]
        /\ \A i \in DOMAIN all : i > Len(a) =>
              i - Len(a) \in DOMAIN b /\ all[i] = b[i - Len(a)]
    BY MountsJoined
  <1> HIDE DEF all
  <1>2. PICK j \in Over(b, p) : TRUE
    OBVIOUS
  <1>3. Len(a) + j \in Over(all, p) /\ j \in 1 .. Len(b)
    BY <1>1 DEF Over
  <1>4. PICK i \in Over(all, p) : /\ \A k \in Over(all, p) : k <= i
                                  /\ MountOf(all, p) = all[i].kind
    BY <1>1, <1>3, LastCounts
  <1>5. i \in DOMAIN all /\ i > Len(a)
    <2>1. i \in 1 .. Len(a) + Len(b)
      BY <1>1 DEF Over
    <2> QED BY <1>1, <1>3, <1>4, <2>1
  <1> QED BY <1>1, <1>4, <1>5 DEF Shows, Visible, all

\* And what no visible mount is over is not.
LEMMA OnlyMountsShow ==
  ASSUME NEW mts \in Seq(MountSet), NEW p,
         \A i \in Over(mts, p) : mts[i].kind \notin Visible
  PROVE  ~ Shows(mts, p)
  <1>1. CASE Over(mts, p) = {}
    BY <1>1 DEF Shows, MountOf, Over
  <1>2. CASE Over(mts, p) # {}
    BY <1>2, LastCounts DEF Shows, Visible
  <1> QED BY <1>1, <1>2

-----------------------------------------------------------------------------
(* The mounts of a host. *)

\* The places of a host are paths.
LEMMA HostPaths == \A h \in Hosts : h.root \in Path /\ h.config \in Path
  <1> SUFFICES ASSUME NEW h \in Hosts PROVE h.root \in Path /\ h.config \in Path
    OBVIOUS
  <1>1. Range(h.root) \subseteq Component /\ Range(h.config) \subseteq Component
    BY DEF Component
  <1>2. h.root \in Seq(Range(h.root)) /\ h.config \in Seq(Range(h.config))
    BY HostAssumption
  <1> QED BY <1>1, <1>2, SeqMonotonic DEF Path

\* So are these.
LEMMA ShortPaths ==
  /\ \A d \in Component : <<d>> \in Path
  /\ \A d, e \in Component : <<d, e>> \in Path
  /\ \A d, e, f \in Component : <<d, e, f>> \in Path
  BY DEF Path

\* A path that goes on.
LEMMA LongerPath ==
  ASSUME NEW p \in Path, NEW q \in Path
  PROVE  p \o q \in Path
  BY ConcatProperties DEF Path

\* Where the candidates are.
LEMMA HomePaths ==
  /\ RoCandidates \in Seq(Path)
  /\ \A c \in Path : InHome(c) \in Path
  /\ InHome(<<".config", "claude">>) \in Path /\ InHome(<<".claude">>) \in Path
  <1>1. \A d \in {"home", ".nix-profile", ".local", "state", "nix", ".config", "git", "jj",
                  "claude", ".claude"} : d \in Component
    BY NamedIsIn DEF Named
  <1>2. /\ <<".nix-profile">> \in Path /\ <<".local", "state", "nix">> \in Path
        /\ <<".config", "git">> \in Path /\ <<".config", "jj">> \in Path
        /\ <<".config", "claude">> \in Path /\ <<".claude">> \in Path /\ <<"home">> \in Path
    BY <1>1, ShortPaths
  <1>3. RoCandidates \in Seq(Path)
    BY <1>2 DEF RoCandidates
  <1>4. \A c \in Path : InHome(c) \in Path
    BY <1>2, LongerPath DEF InHome, Home
  <1> QED BY <1>2, <1>3, <1>4

\* A list of paths as mounts.
LEMMA MountsOf ==
  ASSUME NEW paths \in Seq(Path), NEW kind \in {"ro", "rw", "overlay", "tmpfs", "proc", "dev"}
  PROVE  /\ Mounts(kind, paths) \in Seq(MountSet)
         /\ DOMAIN Mounts(kind, paths) = DOMAIN paths
         /\ \A i \in DOMAIN paths : Mounts(kind, paths)[i] = [kind |-> kind, at |-> paths[i]]
  <1>1. DOMAIN paths = 1 .. Len(paths) /\ Len(paths) \in Nat
        /\ \A i \in DOMAIN paths : paths[i] \in Path
    OBVIOUS
  <1>2. \A i \in DOMAIN paths : [kind |-> kind, at |-> paths[i]] \in MountSet
    BY <1>1 DEF MountSet
  <1>3. Mounts(kind, paths) = [i \in 1 .. Len(paths) |-> [kind |-> kind, at |-> paths[i]]]
    BY <1>1 DEF Mounts, Mount
  <1> QED BY <1>1, <1>2, <1>3

\* Nothing of a host can be written, and what is visible is known.
Lower(mts, h) ==
    /\ mts \in Seq(MountSet)
    /\ \A i \in DOMAIN mts : mts[i].kind # "rw"
    /\ \A i \in DOMAIN mts : mts[i].kind \in Visible => mts[i].at \in ShownDirs(h)

\* As of directories that are shown read-only or under an overlay.
LEMMA ShownIsLower ==
  ASSUME NEW h, NEW paths \in Seq(Path), NEW kind \in {"ro", "overlay"},
         \A i \in DOMAIN paths : paths[i] \in ShownDirs(h)
  PROVE  Lower(Mounts(kind, paths), h)
  <1> DEFINE mts == Mounts(kind, paths)
  <1>1. kind \in {"ro", "rw", "overlay", "tmpfs", "proc", "dev"} /\ kind # "rw"
    OBVIOUS
  <1>2. /\ mts \in Seq(MountSet) /\ DOMAIN mts = DOMAIN paths
        /\ \A i \in DOMAIN paths : mts[i] = [kind |-> kind, at |-> paths[i]]
    BY <1>1, MountsOf
  <1>3. \A i \in DOMAIN mts : mts[i].kind = kind /\ mts[i].at = paths[i]
    BY <1>2
  <1> HIDE DEF mts
  <1>4. Lower(mts, h)
    BY <1>1, <1>2, <1>3 DEF Lower
  <1> QED BY <1>4 DEF mts

\* Of two such lists together too.
LEMMA LowerJoined ==
  ASSUME NEW h, NEW a, NEW b, Lower(a, h), Lower(b, h)
  PROVE  Lower(a \o b, h)
  <1>1. a \in Seq(MountSet) /\ b \in Seq(MountSet)
    BY DEF Lower
  <1>2. /\ a \o b \in Seq(MountSet)
        /\ Len(a) \in Nat /\ DOMAIN a = 1 .. Len(a)
        /\ Len(b) \in Nat /\ DOMAIN b = 1 .. Len(b)
        /\ DOMAIN (a \o b) = 1 .. Len(a) + Len(b)
        /\ \A i \in 1 .. Len(a) : (a \o b)[i] = a[i]
        /\ \A i \in DOMAIN (a \o b) : i > Len(a) =>
              i - Len(a) \in DOMAIN b /\ (a \o b)[i] = b[i - Len(a)]
    BY <1>1, MountsJoined
  <1>3. \A i \in DOMAIN (a \o b) : \/ i \in DOMAIN a /\ (a \o b)[i] = a[i]
                                  \/ \E j \in DOMAIN b : (a \o b)[i] = b[j]
    BY <1>2
  <1> QED BY <1>2, <1>3 DEF Lower

\* What every sandbox starts from.
LEMMA CommonIsLower == \A h : Lower(Common, h)
  <1>1. \A d \in {"home", "nix", "etc", "proc", "dev", "run", "tmp"} : d \in Component
    BY NamedIsIn DEF Named
  <1>2. \A d \in {"home", "nix", "etc", "proc", "dev", "run", "tmp"} : <<d>> \in Path
    BY <1>1, ShortPaths
  <1>3. Common \in Seq(MountSet)
    BY <1>2 DEF Common, Mount, MountSet, Home
  <1>4. Len(Common) = 7 /\ DOMAIN Common = 1 .. 7
    BY DEF Common
  <1>5. \A h : <<"nix">> \in ShownDirs(h) /\ <<"etc">> \in ShownDirs(h)
    BY DEF ShownDirs
  <1>6. /\ Common[1].kind = "tmpfs" /\ Common[4].kind = "proc" /\ Common[5].kind = "dev"
        /\ Common[6].kind = "tmpfs" /\ Common[7].kind = "tmpfs"
        /\ Common[2] = [kind |-> "ro", at |-> <<"nix">>]
        /\ Common[3] = [kind |-> "ro", at |-> <<"etc">>]
    BY DEF Common, Mount
  <1>7. \A i \in DOMAIN Common : i \in {1, 2, 3, 4, 5, 6, 7}
    BY <1>4
  <1>8. \A i \in DOMAIN Common :
           /\ Common[i].kind # "rw"
           /\ Common[i].kind \in Visible => Common[i].at \in { <<"nix">>, <<"etc">> }
    <2> SUFFICES ASSUME NEW i \in DOMAIN Common
                 PROVE  /\ Common[i].kind # "rw"
                        /\ Common[i].kind \in Visible => Common[i].at \in { <<"nix">>, <<"etc">> }
      OBVIOUS
    <2>1. CASE i \in {1, 4, 5, 6, 7}
      BY <1>6, <2>1 DEF Visible
    <2>2. CASE i \in {2, 3}
      <3>1. Common[i].kind = "ro" /\ Common[i].at \in { <<"nix">>, <<"etc">> }
        BY <1>6, <2>2
      <3> QED BY <3>1
    <2> QED BY <1>7, <2>1, <2>2
  <1> QED BY <1>3, <1>5, <1>8 DEF Lower

\* The read-only directories under HOME.
LEMMA RoIsLower == \A h : Lower(Mounts("ro", ro_binds(h)), h)
  <1> SUFFICES ASSUME NEW h PROVE Lower(Mounts("ro", ro_binds(h)), h)
    OBVIOUS
  <1> DEFINE places == {k \in DOMAIN RoCandidates : InHome(RoCandidates[k]) \in h.dirs}
             those == At(RoCandidates, places)
             binds == [i \in DOMAIN those |-> InHome(those[i])]
  <1>1. RoCandidates \in Seq(Path) /\ places \in SUBSET DOMAIN RoCandidates
    BY HomePaths
  <1>2. those \in Seq(Path) /\ \A x : Has(those, x) <=> \E k \in places : RoCandidates[k] = x
    BY <1>1, AtPlaces
  <1>3. binds = ro_binds(h)
    BY DEF ro_binds
  <1> HIDE DEF places, those
  <1>4. \A i \in DOMAIN those : those[i] \in Path /\ those[i] \in Range(RoCandidates)
    BY <1>1, <1>2 DEF Has, Range, places
  <1>5. Len(those) \in Nat /\ DOMAIN those = 1 .. Len(those)
    BY <1>2
  <1>6. binds \in Seq(Path) /\ DOMAIN binds = DOMAIN those
    BY <1>4, <1>5, HomePaths
  <1>7. \A i \in DOMAIN binds : binds[i] \in ShownDirs(h)
    BY <1>4 DEF ShownDirs
  <1> HIDE DEF binds
  <1> QED BY <1>3, <1>6, <1>7, ShownIsLower

\* The directories of claude, the one that is configured among them.
LEMMA OverlaysAreLower ==
  ASSUME NEW h \in Hosts
  PROVE  /\ config_overlays(h) \in Seq(Path)
         /\ Lower(Mounts("overlay", config_overlays(h)), h)
         /\ h.config # Unset => \E i \in DOMAIN config_overlays(h) : config_overlays(h)[i] = h.config
  <1> DEFINE default == InHome(<<".config", "claude">>)
             legacy == InHome(<<".claude">>)
             first == IF h.config # Unset THEN <<h.config>>
                      ELSE IF default \in h.dirs THEN <<default>> ELSE <<>>
             second == IF legacy \in h.dirs /\ ~Contains(first, legacy) THEN <<legacy>> ELSE <<>>
  <1>1. default \in Path /\ legacy \in Path /\ h.config \in Path
    BY HomePaths, HostPaths
  <1>2. config_overlays(h) = first \o second
    BY DEF config_overlays
  <1> HIDE DEF default, legacy
  <1>3. first \in Seq(Path) /\ second \in Seq(Path)
    BY <1>1
  <1>4. h.config # Unset => Len(first) = 1 /\ first[1] = h.config
    OBVIOUS
  <1> HIDE DEF first, second
  <1>5. first \o second \in Seq(Path) /\ DOMAIN (first \o second) = 1 .. Len(first \o second)
        /\ (Len(first) = 1 => 1 \in DOMAIN (first \o second) /\ (first \o second)[1] = first[1])
    BY <1>3
  <1>6. \A i \in DOMAIN config_overlays(h) : config_overlays(h)[i] \in ShownDirs(h)
    BY DEF ShownDirs, Range
  <1>7. Lower(Mounts("overlay", config_overlays(h)), h)
    BY <1>2, <1>5, <1>6, ShownIsLower
  <1> QED BY <1>2, <1>4, <1>5, <1>7

\* A worker's sandbox and that of static QA begin with such mounts.
Bottom(who, h) ==
    IF who = "qa" THEN Common \o Mounts("ro", ro_binds(h)) ELSE base_mounts(h)

LEMMA BottomIsLower == \A h \in Hosts : \A who : Lower(Bottom(who, h), h)
  BY CommonIsLower, RoIsLower, OverlaysAreLower, LowerJoined DEF Bottom, base_mounts

-----------------------------------------------------------------------------
(* The mounts of a role. *)

Top(who, root) ==
    IF who = "qa" THEN <<Mount("rw", Workspace(root))>> ELSE for_role(who, root, Workspace(root))

\* A sandbox is what its host shows and, over it, what the role is granted.
Boxed(who, h) == Bottom(who, h) \o Top(who, h.root)

LEMMA BoxOfRole ==
  ASSUME NEW h \in Hosts, NEW role \in Roles
  PROVE  to_argv(role, h, argv).sandbox = Boxed(role, h)
  BY DEF to_argv, bwrap_prefix, Boxed, Bottom, Top, Roles

LEMMA BoxOfQa ==
  ASSUME NEW h \in Hosts
  PROVE  qa_mounts(h, Workspace(h.root)) = Boxed("qa", h)
  BY DEF qa_mounts, Boxed, Bottom, Top

\* A mount has its kind and its place.
LEMMA MountIs == \A kind, at : Mount(kind, at).kind = kind /\ Mount(kind, at).at = at
  BY DEF Mount

\* The places of a role's mounts.
LEMMA PlacesOfRole ==
  ASSUME NEW root \in Path
  PROVE  /\ Workspace(root) \in Path
         /\ \A d \in {".crosslink", ".jj", ".git"} :
               /\ d \in Component /\ root \o <<d>> = Append(root, d)
               /\ Append(root, d) \in Path
  <1>1. \A d \in {".crosslink", ".jj", ".git", ".workspace", "mine"} : d \in Component
    BY NamedIsIn DEF Named
  <1>2. root \o <<".workspace", "mine">> \in Path
    BY <1>1, IntoTwice, Zenon DEF Path
  <1>3. ASSUME NEW d \in {".crosslink", ".jj", ".git"}
        PROVE  /\ d \in Component /\ root \o <<d>> = Append(root, d)
               /\ Append(root, d) \in Path
    <2>1. d \in Component
      BY <1>1
    <2> QED BY <2>1, Into, Zenon DEF Path
  <1> QED BY <1>2, <1>3 DEF Workspace

\* What is mounted for a role, and where.
LEMMA MountsOfRole ==
  ASSUME NEW root \in Path, NEW who \in Roles \cup {"qa"}
  PROVE  /\ Top(who, root) \in Seq(MountSet)
         /\ \A i \in DOMAIN Top(who, root) :
               Top(who, root)[i] \in
                 {Mount("rw", Workspace(root)), Mount("ro", Append(root, ".crosslink"))}
                 \cup (IF role_gets_jj(who) THEN {Mount("rw", Append(root, ".jj")),
                                                 Mount("rw", Append(root, ".git"))} ELSE {})
         /\ \E i \in DOMAIN Top(who, root) : Top(who, root)[i] = Mount("rw", Workspace(root))
         /\ role_gets_jj(who) => \A d \in {".jj", ".git"} : \E i \in DOMAIN Top(who, root) :
               Top(who, root)[i] = Mount("rw", Append(root, d))
  <1> DEFINE m1 == Mount("rw", Workspace(root))
             m2 == Mount("ro", Append(root, ".crosslink"))
             m3 == Mount("rw", Append(root, ".jj"))
             m4 == Mount("rw", Append(root, ".git"))
  <1>1. m1 \in MountSet /\ m2 \in MountSet /\ m3 \in MountSet /\ m4 \in MountSet
    BY PlacesOfRole DEF Mount, MountSet
  <1>2. who = "qa" => Top(who, root) = <<m1>> /\ ~ role_gets_jj(who)
    BY DEF Top, role_gets_jj
  <1>3. who # "qa" /\ role_gets_jj(who) => Top(who, root) = <<m1, m2>> \o <<m3, m4>>
    BY PlacesOfRole DEF Top, for_role
  <1>4. who # "qa" /\ ~ role_gets_jj(who) => Top(who, root) = <<m1, m2>> \o <<>>
    BY PlacesOfRole DEF Top, for_role
  <1> HIDE DEF m1, m2, m3, m4
  <1> DEFINE low == <<m1, m2>>
             high == <<m3, m4>>
  <1>5. /\ low \in Seq(MountSet) /\ Len(low) = 2 /\ low[1] = m1 /\ low[2] = m2
        /\ high \in Seq(MountSet) /\ Len(high) = 2 /\ high[1] = m3 /\ high[2] = m4
    BY <1>1
  <1> HIDE DEF low, high
  <1>6. /\ low \o high \in Seq(MountSet) /\ DOMAIN (low \o high) = 1 .. 4
        /\ (low \o high)[1] = m1 /\ (low \o high)[2] = m2
        /\ (low \o high)[3] = m3 /\ (low \o high)[4] = m4
    <2>1. /\ low \o high \in Seq(MountSet) /\ DOMAIN (low \o high) = 1 .. 2 + 2
          /\ \A i \in 1 .. 2 : (low \o high)[i] = low[i]
          /\ \A i \in 1 .. 2 : (low \o high)[2 + i] = high[i]
      <3>1. /\ low \o high \in Seq(MountSet)
            /\ DOMAIN (low \o high) = 1 .. Len(low) + Len(high)
            /\ \A i \in 1 .. Len(low) : (low \o high)[i] = low[i]
            /\ \A i \in 1 .. Len(high) : (low \o high)[Len(low) + i] = high[i]
        BY <1>5, MountsJoined
      <3> QED BY <1>5, <3>1, Zenon
    <2>2. 1 \in 1 .. 2 /\ 2 \in 1 .. 2 /\ 2 + 1 = 3 /\ 2 + 2 = 4
      OBVIOUS
    <2> QED BY <1>5, <2>1, <2>2
  <1>7. low \o <<>> = low
    BY <1>5
  <1>8. CASE who = "qa"
    <2> DEFINE one == <<m1>>
    <2>1. one \in Seq(MountSet) /\ DOMAIN one = {1} /\ one[1] = m1
      BY <1>1
    <2>2. Top(who, root) = one /\ ~ role_gets_jj(who)
      BY <1>2, <1>8
    <2> HIDE DEF one
    <2> QED BY <2>1, <2>2 DEF m1, m2
  <1>9. CASE who # "qa" /\ ~ role_gets_jj(who)
    <2>1. Top(who, root) = low
      BY <1>4, <1>7, <1>9 DEF low
    <2>2. DOMAIN low = {1, 2}
      BY <1>5
    <2> QED BY <1>5, <1>9, <2>1, <2>2 DEF m1, m2
  <1>10. CASE who # "qa" /\ role_gets_jj(who)
    <2>1. Top(who, root) = low \o high
      BY <1>3, <1>10 DEF low, high
    <2>2. DOMAIN (low \o high) = {1, 2, 3, 4}
      BY <1>6
    <2> DEFINE all == low \o high
    <2> HIDE DEF all
    <2>3. /\ all \in Seq(MountSet) /\ DOMAIN all = {1, 2, 3, 4} /\ Top(who, root) = all
          /\ all[1] = m1 /\ all[2] = m2 /\ all[3] = m3 /\ all[4] = m4
      BY <1>6, <2>1, <2>2 DEF all
    <2> QED BY <1>10, <2>3 DEF m1, m2, m3, m4
  <1> QED BY <1>8, <1>9, <1>10

\* A path is below itself.
LEMMA BelowItself ==
  ASSUME NEW p \in Path
  PROVE  IsPrefix(p, p)
  BY PrefixIsBelow DEF Path, Below

\* No two of a role's mounts of different kinds are over one path.
LEMMA RoleAgrees ==
  ASSUME NEW root \in Path, NEW who \in Roles \cup {"qa"}, NEW p \in Path,
         NEW i \in Over(Top(who, root), p), NEW j \in Over(Top(who, root), p)
  PROVE  Top(who, root)[i].kind = Top(who, root)[j].kind
  <1> DEFINE mts == Top(who, root)
             Writable(k) == mts[k].kind = "rw"
                            /\ \E d \in {".workspace", ".jj", ".git"} : IsPrefix(Append(root, d), p)
             Readable(k) == mts[k].kind = "ro" /\ IsPrefix(Append(root, ".crosslink"), p)
  <1>1. ASSUME NEW k \in Over(mts, p) PROVE Writable(k) \/ Readable(k)
    <2>1. /\ IsPrefix(mts[k].at, p)
          /\ mts[k] \in {Mount("rw", Workspace(root)), Mount("ro", Append(root, ".crosslink")),
                         Mount("rw", Append(root, ".jj")), Mount("rw", Append(root, ".git"))}
      BY MountsOfRole DEF Over
    <2>2. CASE mts[k] = Mount("rw", Workspace(root))
      BY <2>1, <2>2, WorkspaceIsBelow, MountIs
    <2>3. CASE mts[k] = Mount("ro", Append(root, ".crosslink"))
      BY <2>1, <2>3, MountIs, Zenon
    <2>4. ASSUME NEW d \in {".jj", ".git"}, mts[k] = Mount("rw", Append(root, d)) PROVE Writable(k)
      <3>1. mts[k].kind = "rw" /\ mts[k].at = Append(root, d)
        BY <2>4, MountIs
      <3> HIDE DEF mts
      <3> QED BY <2>1, <3>1
    <2> QED BY <2>1, <2>2, <2>3, <2>4
  <1>2. \A d \in {".workspace", ".jj", ".git"} :
           ~ (IsPrefix(Append(root, d), p) /\ IsPrefix(Append(root, ".crosslink"), p))
    <2>1. \A d \in {".workspace", ".jj", ".git", ".crosslink"} : d \in Component
      BY NamedIsIn DEF Named
    <2> QED BY <2>1, OneWayDown
  <1>3. (Writable(i) \/ Readable(i)) /\ (Writable(j) \/ Readable(j))
    BY <1>1
  <1> HIDE DEF mts
  <1>4. mts[i].kind = mts[j].kind
    BY <1>2, <1>3
  <1> QED BY <1>4 DEF mts

\* What a role, or static QA, is granted.
GrantedTo(who, root, p) ==
    \/ IsPrefix(Workspace(root), p)
    \/ role_gets_jj(who) /\ \E d \in {".jj", ".git"} : IsPrefix(Append(root, d), p)

\* What its mounts make writable is what it is granted.
LEMMA RoleWrites ==
  ASSUME NEW root \in Path, NEW who \in Roles \cup {"qa"}, NEW p \in Path
  PROVE  (\E i \in Over(Top(who, root), p) : Top(who, root)[i].kind = "rw")
            <=> GrantedTo(who, root, p)
  <1> DEFINE mts == Top(who, root)
  <1>1. ASSUME NEW i \in Over(mts, p), mts[i].kind = "rw" PROVE GrantedTo(who, root, p)
    <2>1. /\ IsPrefix(mts[i].at, p)
          /\ mts[i] \in
               {Mount("rw", Workspace(root)), Mount("ro", Append(root, ".crosslink"))}
               \cup (IF role_gets_jj(who) THEN {Mount("rw", Append(root, ".jj")),
                                               Mount("rw", Append(root, ".git"))} ELSE {})
      BY MountsOfRole DEF Over
    <2> HIDE DEF mts
    <2> QED BY <1>1, <2>1, MountIs DEF GrantedTo
  <1>2. ASSUME GrantedTo(who, root, p) PROVE \E i \in Over(mts, p) : mts[i].kind = "rw"
    <2>1. CASE IsPrefix(Workspace(root), p)
      <3>1. PICK i \in DOMAIN mts : mts[i] = Mount("rw", Workspace(root))
        BY MountsOfRole
      <3> QED BY <2>1, <3>1, MountIs DEF Over
    <2>2. CASE role_gets_jj(who) /\ \E d \in {".jj", ".git"} : IsPrefix(Append(root, d), p)
      <3>1. PICK d \in {".jj", ".git"} : IsPrefix(Append(root, d), p)
        BY <2>2
      <3>2. PICK i \in DOMAIN mts : mts[i] = Mount("rw", Append(root, d))
        BY <2>2, MountsOfRole
      <3> QED BY <3>1, <3>2, MountIs DEF Over
    <2> QED BY <1>2, <2>1, <2>2 DEF GrantedTo
  <1> QED BY <1>1, <1>2

\* In a sandbox a write persists exactly where it was granted, at any path.
LEMMA BoxGrants ==
  ASSUME NEW h \in Hosts, NEW who \in Roles \cup {"qa"}, NEW p \in Path
  PROVE  Persists(Boxed(who, h), p) <=> GrantedTo(who, h.root, p)
  <1>1. h.root \in Path
    BY HostPaths
  <1>2. /\ Bottom(who, h) \in Seq(MountSet)
        /\ \A i \in DOMAIN Bottom(who, h) : Bottom(who, h)[i].kind # "rw"
    BY BottomIsLower DEF Lower
  <1>3. Top(who, h.root) \in Seq(MountSet)
    BY <1>1, MountsOfRole
  <1>4. \A i, j \in Over(Top(who, h.root), p) : Top(who, h.root)[i].kind = Top(who, h.root)[j].kind
    BY <1>1, RoleAgrees
  <1>5. Persists(Bottom(who, h) \o Top(who, h.root), p)
          <=> \E i \in Over(Top(who, h.root), p) : Top(who, h.root)[i].kind = "rw"
    BY <1>2, <1>3, <1>4, TopDecides
  <1> QED BY <1>1, <1>5, RoleWrites DEF Boxed

\* Who is not granted the stores does not see them.
LEMMA BoxHides ==
  ASSUME NEW h \in Hosts, StoresAreApart(h), NEW who \in Roles \cup {"qa"}, ~ role_gets_jj(who),
         h.config = Unset \/ ~ IsPrefix(h.config, h.root), NEW d \in {".jj", ".git"}
  PROVE  ~ Shows(Boxed(who, h), Append(h.root, d))
  <1> DEFINE store == Append(h.root, d)
             low == Bottom(who, h)
             high == Top(who, h.root)
  <1>1. h.root \in Path /\ store \in Path
    BY HostPaths, PlacesOfRole
  <1>2. Lower(low, h) /\ low \in Seq(MountSet) /\ high \in Seq(MountSet)
    BY <1>1, BottomIsLower, MountsOfRole DEF Lower
  <1>3. ASSUME NEW i \in DOMAIN low, IsPrefix(low[i].at, store) PROVE low[i].kind \notin Visible
    BY <1>2, <1>3 DEF Lower, StoresAreApart
  <1>4. ASSUME NEW i \in DOMAIN high PROVE ~ IsPrefix(high[i].at, store)
    <2>1. high[i] \in {Mount("rw", Workspace(h.root)), Mount("ro", Append(h.root, ".crosslink"))}
      BY <1>1, MountsOfRole
    <2>2. \A e \in {".workspace", ".crosslink"} : ~ IsPrefix(Append(h.root, e), store)
      <3>1. \A e \in {".workspace", ".crosslink", ".jj", ".git"} : e \in Component
        BY NamedIsIn DEF Named
      <3>2. IsPrefix(Append(h.root, d), store)
        BY <1>1, BelowItself
      <3> QED BY <1>1, <3>1, <3>2, OneWayDown
    <2>3. ~ IsPrefix(Workspace(h.root), store)
      BY <1>1, <2>2, WorkspaceIsBelow
    <2>4. \/ high[i].at = Workspace(h.root)
          \/ high[i].at = Append(h.root, ".crosslink")
      <3> DEFINE m == high[i]
      <3>1. m = Mount("rw", Workspace(h.root)) \/ m = Mount("ro", Append(h.root, ".crosslink"))
        BY <2>1
      <3> HIDE DEF m
      <3>2. /\ Mount("rw", Workspace(h.root)).at = Workspace(h.root)
            /\ Mount("ro", Append(h.root, ".crosslink")).at = Append(h.root, ".crosslink")
        BY MountIs
      <3>3. m.at = Workspace(h.root) \/ m.at = Append(h.root, ".crosslink")
        BY <3>1, <3>2
      <3> QED BY <3>3 DEF m
    <2> HIDE DEF high
    <2> QED BY <2>2, <2>3, <2>4
  <1> HIDE DEF low, high, store
  <1>5. /\ low \o high \in Seq(MountSet)
        /\ Len(low) \in Nat /\ DOMAIN low = 1 .. Len(low)
        /\ DOMAIN (low \o high) = 1 .. Len(low) + Len(high) /\ Len(high) \in Nat
        /\ \A i \in 1 .. Len(low) : (low \o high)[i] = low[i]
        /\ \A i \in DOMAIN (low \o high) : i > Len(low) =>
              i - Len(low) \in DOMAIN high /\ (low \o high)[i] = high[i - Len(low)]
    BY <1>2, MountsJoined
  <1>6. \A i \in Over(low \o high, store) : (low \o high)[i].kind \notin Visible
    <2> SUFFICES ASSUME NEW i \in DOMAIN (low \o high), IsPrefix((low \o high)[i].at, store)
                 PROVE  (low \o high)[i].kind \notin Visible
      BY DEF Over
    <2>1. CASE i <= Len(low)
      <3>1. i \in DOMAIN low /\ (low \o high)[i] = low[i]
        BY <1>5, <2>1
      <3> QED BY <1>3, <3>1
    <2>2. CASE i > Len(low)
      BY <1>4, <1>5, <2>2
    <2> QED BY <1>5, <2>1, <2>2
  <1>7. ~ Shows(low \o high, store)
    BY <1>5, <1>6, OnlyMountsShow
  <1> QED BY <1>7 DEF low, high, store, Boxed

\* The configuration that is named is seen.
LEMMA ConfigShows ==
  ASSUME NEW h \in Hosts, NEW who \in Roles, h.config # Unset
  PROVE  Shows(Boxed(who, h), h.config)
  <1> DEFINE low == Common \o Mounts("ro", ro_binds(h))
             over == Mounts("overlay", config_overlays(h))
             top == Top(who, h.root)
             high == over \o top
  <1>1. h.root \in Path /\ h.config \in Path
    BY HostPaths
  <1>2. low \in Seq(MountSet) /\ over \in Seq(MountSet) /\ top \in Seq(MountSet)
    BY <1>1, CommonIsLower, RoIsLower, LowerJoined, OverlaysAreLower, MountsOfRole DEF Lower
  <1>3. Boxed(who, h) = (low \o over) \o top
    BY DEF Boxed, Bottom, base_mounts, Roles
  <1>4. /\ DOMAIN over = DOMAIN config_overlays(h)
        /\ \A i \in DOMAIN over : over[i] = [kind |-> "overlay", at |-> config_overlays(h)[i]]
    <2>1. config_overlays(h) \in Seq(Path)
      BY OverlaysAreLower
    <2> QED BY <2>1, MountsOf
  <1>5. PICK k \in DOMAIN over : over[k].at = h.config
    BY <1>4, OverlaysAreLower
  <1>6. \A i \in DOMAIN over : over[i].kind \in Visible
    BY <1>4 DEF Visible
  <1>7. \A i \in DOMAIN top : top[i].kind \in Visible
    BY <1>1, MountsOfRole DEF Mount, Visible
  <1> HIDE DEF low, over, top
  <1>8. /\ high \in Seq(MountSet)
        /\ Len(over) \in Nat /\ DOMAIN over = 1 .. Len(over)
        /\ DOMAIN high = 1 .. Len(over) + Len(top) /\ Len(top) \in Nat
        /\ \A i \in 1 .. Len(over) : high[i] = over[i]
        /\ \A i \in DOMAIN high : i > Len(over) =>
              i - Len(over) \in DOMAIN top /\ high[i] = top[i - Len(over)]
    BY <1>2, MountsJoined
  <1>9. (low \o over) \o top = low \o high
    BY <1>2, ConcatAssociative
  <1> HIDE DEF high
  <1>10. \A i \in DOMAIN high : high[i].kind \in Visible
    <2> SUFFICES ASSUME NEW i \in DOMAIN high PROVE high[i].kind \in Visible
      OBVIOUS
    <2>1. CASE i <= Len(over)
      BY <1>6, <1>8, <2>1
    <2>2. CASE i > Len(over)
      BY <1>7, <1>8, <2>2
    <2> QED BY <1>8, <2>1, <2>2
  <1>11. k \in Over(high, h.config)
    <2>1. k \in DOMAIN high /\ high[k] = over[k]
      BY <1>5, <1>8
    <2> QED BY <1>1, <1>5, <2>1, BelowItself DEF Over
  <1>12. Shows(low \o high, h.config)
    BY <1>2, <1>8, <1>10, <1>11, TopShows
  <1> QED BY <1>3, <1>9, <1>12

\* What is asked about are paths.
LEMMA ProbesArePaths == host \in Hosts => Probes \subseteq Path
  <1> SUFFICES ASSUME host \in Hosts PROVE Probes \subseteq Path
    OBVIOUS
  <1>1. host.root \in Path /\ host.config \in Path
    BY HostPaths
  <1>2. \A d \in Named : d \in Component
    BY NamedIsIn
  <1> DEFINE below == { <<>>, <<"src">>, <<".jj", "repo">>, <<".git", "refs">>,
                        <<".crosslink", "db">>, <<".orchestrator", "state.db">>,
                        <<".workspace", "mine", "src">>, <<".workspace", "other", "src">> }
             homes == { <<"x">>, <<".claude", "x">>, <<".config", "jj", "x">> }
             far == { <<"nix", "x">>, <<"tmp", "x">> }
  <1>3. \A d \in {"src", ".jj", "repo", ".git", "refs", ".crosslink", "db", ".orchestrator",
                  "state.db", ".workspace", "mine", "other", "x", ".claude", ".config", "jj",
                  "nix", "tmp"} : d \in Component
    BY <1>2 DEF Named
  <1>4. below \subseteq Path /\ homes \subseteq Path /\ far \subseteq Path
    <2>1. <<>> \in Path
      BY DEF Path
    <2> QED BY <1>3, <2>1, ShortPaths
  <1> HIDE DEF below, homes, far
  <1>5. {host.root \o q : q \in below} \subseteq Path
    BY <1>1, <1>4, LongerPath
  <1>6. {InHome(q) : q \in homes} \subseteq Path
    BY <1>4, HomePaths
  <1>7. Append(host.config, "x") \in Path
    BY <1>1, <1>3, Into, Zenon DEF Path
  <1>8. Front(host.root) \in Path
    <2>1. Len(host.root) \in Nat /\ \A i \in 1 .. Len(host.root) - 1 : host.root[i] \in Component
      BY <1>1 DEF Path
    <2>2. Len(host.root) - 1 \in Int
      BY <2>1
    <2> QED BY <2>1, <2>2, SubSeqProperties DEF Front, Path
  <1>9. Probes = {host.root \o q : q \in below}
                 \cup {Front(host.root), host.config, Append(host.config, "x")} \cup far
                 \cup {InHome(q) : q \in homes}
    BY DEF Probes, below, homes, far
  <1> QED BY <1>1, <1>4, <1>5, <1>6, <1>7, <1>8, <1>9

-----------------------------------------------------------------------------
(* The launch. *)

\* Who runs is in the sandbox put together for it.
LEMMA LaunchKept == LaunchInv /\ [Next]_vars => LaunchInv'
  <1> SUFFICES ASSUME LaunchInv, [Next]_vars PROVE LaunchInv'
    OBVIOUS
  <1> USE DEF LaunchInv
  <1>1. CASE Load \/ Generate \/ Restart \/ VerifyPin \/ CallTool \/ Review
    BY <1>1 DEF Load, Generate, Restart, VerifyPin, CallTool, Review
  <1>2. ASSUME NEW role \in Roles, CommandFor(role) PROVE LaunchInv'
    <2>1. scrub_env_prefix(Ambient, {}) \cap Secrets = {}
      BY DEF scrub_env_prefix, WORKER_ENV_ALLOWLIST, Secrets
    <2> QED BY <1>2, <2>1 DEF CommandFor
  <1>3. CASE Resolve
    <2>1. ASSUME NEW extra \in {{}, {"CLAUDE_CONFIG_DIR"}}
          PROVE  scrub_env_prefix(Ambient, extra) \cap Secrets = {}
      BY DEF scrub_env_prefix, WORKER_ENV_ALLOWLIST, Secrets
    <2>2. "CLAUDE_CONFIG_DIR" \notin scrub_env_prefix(Ambient, {})
      BY DEF scrub_env_prefix, WORKER_ENV_ALLOWLIST
    <2>3. "qa" \notin Roles
      BY DEF Roles
    <2> QED BY <1>3, <2>1, <2>2, <2>3 DEF Resolve, to_argv
  <1>4. CASE RunQa
    <2>1. /\ scrub_env_prefix(Ambient, {}) \cap Secrets = {}
          /\ "CLAUDE_CONFIG_DIR" \notin scrub_env_prefix(Ambient, {})
      BY DEF scrub_env_prefix, WORKER_ENV_ALLOWLIST, Secrets
    <2> QED BY <1>4, <2>1 DEF RunQa
  <1>5. CASE UNCHANGED vars
    BY <1>5 DEF vars
  <1> QED BY <1>1, <1>2, <1>3, <1>4, <1>5
          DEF Next, worker_command, adversary_worker_command, merger_worker_command, Roles

\* Such a sandbox grants, hides and shows what it is to.
LEMMA SandboxOfLaunch ==
  ASSUME \A h \in Hosts : StoresAreApart(h), LaunchInv
  PROVE  SandboxHolds
  <1>1. ASSUME stage = "running"
        PROVE  host \in Hosts /\ user \in Roles \cup {"qa"} /\ mounts = Boxed(user, host)
    BY <1>1, BoxOfQa, BoxOfRole DEF LaunchInv, to_argv
  <1>2. stage = "running" => WritesPersist
    <2> SUFFICES ASSUME stage = "running", NEW p \in Probes PROVE Persists(mounts, p) <=> Granted(p)
      BY DEF WritesPersist
    <2>1. p \in Path
      BY <1>1, ProbesArePaths
    <2>2. Granted(p) <=> GrantedTo(user, host.root, p)
      BY DEF Granted, GrantedTo
    <2> QED BY <1>1, <2>1, <2>2, BoxGrants
  <1>3. stage = "running" => ReviewerSeesNoStore
    BY <1>1, BoxHides DEF ReviewerSeesNoStore
  <1>4. EnvironmentIsClean
    <2>1. ASSUME stage = "running", "CLAUDE_CONFIG_DIR" \in env PROVE Shows(mounts, host.config)
      <3>1. user \in Roles /\ host.config # Unset
        BY <1>1, <2>1 DEF LaunchInv
      <3> QED BY <1>1, <2>1, <3>1, ConfigShows
    <2> QED BY <2>1 DEF EnvironmentIsClean, LaunchInv
  <1> QED BY <1>2, <1>3, <1>4 DEF SandboxHolds

\* On every host whose stores are not in a directory that sandboxes show: a write
\* persists where it was granted and nowhere else, reviewers and the QA script see
\* no store, no process gets a secret, and claude sees the configuration it is told
\* of (base_mounts, for_role, qa_mounts, scrub_env_prefix).
THEOREM SandboxesHold ==
  ASSUME \A h \in Hosts : StoresAreApart(h)
  PROVE  Spec => []SandboxHolds
  <1>1. Init => LaunchInv
    BY DEF Init, LaunchInv
  <1> QED BY <1>1, LaunchKept, SandboxOfLaunch, PTL DEF Spec

\* With any limit that admits the default, every configuration that is accepted
\* converges on clean reviews (ensure_rounds_reachable, run_adversary_review).
THEOREM ConfigsConverge == Spec => []AcceptedConfigConverges
  <1> USE DEF ReviewInv, AcceptedConfigConverges
  <1>1. Init => ReviewInv
    BY LaunchBounds DEF Init, Default
  <1>2. ReviewInv /\ [Next]_vars => ReviewInv'
    <2> SUFFICES ASSUME ReviewInv, [Next]_vars PROVE ReviewInv'
      OBVIOUS
    <2>1. CASE Load
      <3>1. Default.n_rounds \in 1 .. MAX_ADVERSARY_ROUNDS
        BY LaunchBounds DEF Default
      <3>2. CASE conf' = Default /\ stage' = "loaded"
        BY <2>1, <3>1, <3>2 DEF Load
      <3>3. CASE stage' = "refused"
        BY <3>3
      <3>4. ASSUME NEW c \in ConfigFiles, conf' = Kept(c), ensure_rounds_reachable(c),
                   stage' = "loaded"
            PROVE  ReviewInv'
        <4>1. c.n_rounds \in 1 .. MAX_ADVERSARY_ROUNDS
          BY <3>4, LaunchBounds DEF ConfigFiles, ensure_rounds_reachable
        <4>2. Kept(c).n_rounds = c.n_rounds
          BY DEF Kept
        <4> QED BY <2>1, <3>4, <4>1, <4>2 DEF Load
      <3> QED BY <2>1, <3>2, <3>3, <3>4 DEF Load
    <2>2. CASE Generate \/ Restart \/ VerifyPin \/ Resolve \/ CallTool \/ RunQa
      BY <2>2 DEF Generate, Restart, VerifyPin, Resolve, CallTool, RunQa
    <2>3. ASSUME NEW role, CommandFor(role) PROVE ReviewInv'
      BY <2>3 DEF CommandFor
    <2>4. CASE Review
      <3>1. /\ conf.n_rounds \in 1 .. MAX_ADVERSARY_ROUNDS /\ conf' = conf
            /\ reviews \in 0 .. conf.n_rounds - 1 /\ reviews' = reviews + 1
        BY <2>4 DEF Review
      <3>2. CASE reviews' >= conf.n_rounds
        BY <2>4, <3>1, <3>2, LaunchBounds DEF Review
      <3>3. CASE ~ (reviews' >= conf.n_rounds)
        <4>1. reviews' # MAX_ADVERSARY_ROUNDS
          BY <3>1, <3>3, LaunchBounds
        <4> QED BY <2>4, <3>1, <3>3, <4>1, LaunchBounds DEF Review
      <3> QED BY <3>2, <3>3
    <2>5. CASE UNCHANGED vars
      BY <2>5 DEF vars
    <2> QED BY <2>1, <2>2, <2>3, <2>4, <2>5
            DEF Next, worker_command, adversary_worker_command, merger_worker_command
  <1>3. ReviewInv => AcceptedConfigConverges
    OBVIOUS
  <1> QED BY <1>1, <1>2, <1>3, PTL DEF Spec

-----------------------------------------------------------------------------
(* Names. *)

\* What is in a concatenation, from its first part and from its second.
LEMMA Parts ==
  ASSUME NEW T, NEW a \in Seq(T), NEW b \in Seq(T)
  PROVE  /\ a \o b \in Seq(T) /\ Len(a) \in Nat /\ Len(b) \in Nat
         /\ Len(a \o b) = Len(a) + Len(b)
         /\ SubSeq(a \o b, 1, Len(a)) = a
         /\ SubSeq(a \o b, Len(a) + 1, Len(a \o b)) = b
         /\ \A i \in 1 .. Len(a) : (a \o b)[i] = a[i]
         /\ \A i \in 1 .. Len(b) : (a \o b)[Len(a) + i] = b[i]
  <1> DEFINE all == a \o b
  <1>1. /\ all \in Seq(T) /\ Len(a) \in Nat /\ Len(b) \in Nat /\ Len(all) = Len(a) + Len(b)
        /\ \A i \in 1 .. Len(a) : all[i] = a[i]
        /\ \A i \in 1 .. Len(b) : all[Len(a) + i] = b[i]
    OBVIOUS
  <1> HIDE DEF all
  <1>2. SubSeq(all, 1, Len(a)) = [i \in 1 .. Len(a) |-> all[i]]
    BY <1>1
  <1>3. SubSeq(all, Len(a) + 1, Len(all)) = [i \in 1 .. Len(b) |-> all[Len(a) + i]]
    BY <1>1
  <1>4. a = [i \in 1 .. Len(a) |-> a[i]] /\ b = [i \in 1 .. Len(b) |-> b[i]]
    OBVIOUS
  <1>5. SubSeq(all, 1, Len(a)) = a /\ SubSeq(all, Len(a) + 1, Len(all)) = b
    BY <1>1, <1>2, <1>3, <1>4
  <1> QED BY <1>1, <1>5 DEF all

\* Of two concatenations that agree in the length of a part, the parts agree.
LEMMA PartsAreTold ==
  ASSUME NEW T, NEW a \in Seq(T), NEW b \in Seq(T), NEW c \in Seq(T), NEW d \in Seq(T),
         a \o b = c \o d, Len(a) = Len(c) \/ Len(b) = Len(d)
  PROVE  a = c /\ b = d
  <1> DEFINE all == a \o b
             both == c \o d
  <1>1. /\ Len(a) \in Nat /\ Len(b) \in Nat /\ Len(all) = Len(a) + Len(b)
        /\ SubSeq(all, 1, Len(a)) = a /\ SubSeq(all, Len(a) + 1, Len(all)) = b
    <2>1. /\ Len(a) \in Nat /\ Len(b) \in Nat /\ Len(all) = Len(a) + Len(b)
      OBVIOUS
    <2>2. SubSeq(all, 1, Len(a)) = a
      BY Parts
    <2>3. SubSeq(all, Len(a) + 1, Len(all)) = b
      BY Parts
    <2> QED BY <2>1, <2>2, <2>3
  <1>2. /\ Len(c) \in Nat /\ Len(d) \in Nat /\ Len(both) = Len(c) + Len(d)
        /\ SubSeq(both, 1, Len(c)) = c /\ SubSeq(both, Len(c) + 1, Len(both)) = d
    <2>1. /\ Len(c) \in Nat /\ Len(d) \in Nat /\ Len(both) = Len(c) + Len(d)
      OBVIOUS
    <2>2. SubSeq(both, 1, Len(c)) = c
      BY Parts
    <2>3. SubSeq(both, Len(c) + 1, Len(both)) = d
      BY Parts
    <2> QED BY <2>1, <2>2, <2>3
  <1>3. all = both
    OBVIOUS
  <1> HIDE DEF all, both
  <1>l. /\ Len(a) \in Nat /\ Len(b) \in Nat /\ Len(c) \in Nat /\ Len(d) \in Nat
        /\ Len(a) + Len(b) = Len(c) + Len(d) /\ (Len(a) = Len(c) \/ Len(b) = Len(d))
    BY <1>1, <1>2, <1>3, Zenon
  <1>4. Len(a) = Len(c)
    <2> DEFINE i == Len(a)
               j == Len(b)
               k == Len(c)
               l == Len(d)
    <2> HIDE DEF i, j, k, l
    <2>1. /\ i \in Nat /\ j \in Nat /\ k \in Nat /\ l \in Nat
          /\ i + j = k + l /\ (i = k \/ j = l)
      BY <1>l, Zenon DEF i, j, k, l
    <2>2. i = k
      BY ONLY <2>1, SMT
    <2> QED BY <2>2 DEF i, k
  <1> QED BY <1>1, <1>2, <1>3, <1>4

\* And at an end of two words.
LEMMA TwoMore ==
  ASSUME NEW T, NEW a \in Seq(T), NEW x \in T, NEW y \in T,
         NEW two \in Seq(T), two = <<x, y>>
  PROVE  /\ Len(a \o two) = Len(a) + 2
         /\ (a \o two)[Len(a) + 1] = x /\ (a \o two)[Len(a) + 2] = y
         /\ SubSeq(a \o two, 1, Len(a)) = a
         /\ a \o two \in Seq(T) /\ \A i \in 1 .. Len(a) : (a \o two)[i] = a[i]
  <1>l. Len(two) = 2 /\ two[1] = x /\ two[2] = y
    OBVIOUS
  <1> DEFINE all == a \o two
  <1>p. /\ a \o two \in Seq(T) /\ Len(a) \in Nat /\ Len(two) \in Nat
        /\ Len(a \o two) = Len(a) + Len(two)
        /\ SubSeq(a \o two, 1, Len(a)) = a
        /\ \A i \in 1 .. Len(a) : (a \o two)[i] = a[i]
        /\ \A i \in 1 .. Len(two) : (a \o two)[Len(a) + i] = two[i]
    <2>1. /\ a \o two \in Seq(T) /\ Len(a) \in Nat /\ Len(two) \in Nat
          /\ Len(a \o two) = Len(a) + Len(two)
          /\ SubSeq(a \o two, 1, Len(a)) = a
      BY Parts
    <2>2. /\ \A i \in 1 .. Len(a) : (a \o two)[i] = a[i]
          /\ \A i \in 1 .. Len(two) : (a \o two)[Len(a) + i] = two[i]
      BY Parts
    <2> QED BY <2>1, <2>2
  <1> HIDE DEF all
  <1>2. /\ all \in Seq(T) /\ Len(a) \in Nat /\ Len(all) = Len(a) + Len(two)
        /\ SubSeq(all, 1, Len(a)) = a
        /\ \A i \in 1 .. Len(a) : all[i] = a[i]
        /\ \A i \in 1 .. Len(two) : all[Len(a) + i] = two[i]
    BY <1>p, Zenon DEF all
  <1>3. /\ \A i \in 1 .. Len(a) : all[i] = a[i]
        /\ all[Len(a) + 1] = x /\ all[Len(a) + 2] = y
    <2>2. 1 \in 1 .. Len(two) /\ 2 \in 1 .. Len(two)
      BY <1>l
    <2> QED BY <1>l, <1>2, <2>2
  <1> QED BY <1>l, <1>2, <1>3 DEF all

\* All of it but the last word.
LEMMA FrontIs ==
  ASSUME NEW T, NEW a \in Seq(T), NEW x \in T, NEW all \in Seq(T), Len(all) = Len(a) + 2,
         \A i \in 1 .. Len(a) : all[i] = a[i], all[Len(a) + 1] = x
  PROVE  Front(all) = Append(a, x)
  <1>1. Front(all) = [i \in 1 .. Len(a) + 1 |-> all[i]]
    BY DEF Front
  <1> DEFINE more == Append(a, x)
  <1>a. /\ more \in Seq(T) /\ Len(more) = Len(a) + 1
        /\ \A i \in 1 .. Len(a) : more[i] = a[i]
        /\ more[Len(a) + 1] = x
    OBVIOUS
  <1> HIDE DEF more
  <1>2. more = [i \in 1 .. Len(a) + 1 |-> more[i]]
    BY <1>a
  <1>3. \A i \in 1 .. Len(a) + 1 : all[i] = more[i]
    <2>1. \A i \in 1 .. Len(a) + 1 : i \in 1 .. Len(a) \/ i = Len(a) + 1
      OBVIOUS
    <2> QED BY <1>a, <2>1
  <1>4. Front(all) = more
    BY <1>1, <1>2, <1>3
  <1> QED BY <1>4 DEF more

\* The words of a name.
Fixed == {"graphed", "implementing", "qa", "gate", "adversary", "review", "converged",
          "landing", "merged", "pr", "open", "awaiting", "human", "merge", "inbound",
          "approval", "orchestrator", "error", "r0", "r1", "0a1b2c3d", "deadbeef", "issue"}
Word == Fixed \cup UNION {Range(id) : id \in RawIds}

LEMMA FixedIsWord == \A w \in Fixed : w \in Word
  BY DEF Word

\* The phases.
LEMMA PhaseTable ==
  /\ Phases = {"graphed", "implementing", "qa_gate", "adversary_review", "converged", "landing",
               "merged", "pr_open", "awaiting_human_merge", "awaiting_inbound_approval",
               "orchestrator_error"}
  /\ PhaseWords["graphed"] = <<"graphed">> /\ PhaseWords["implementing"] = <<"implementing">>
  /\ PhaseWords["qa_gate"] = <<"qa", "gate">>
  /\ PhaseWords["adversary_review"] = <<"adversary", "review">>
  /\ PhaseWords["converged"] = <<"converged">> /\ PhaseWords["landing"] = <<"landing">>
  /\ PhaseWords["merged"] = <<"merged">> /\ PhaseWords["pr_open"] = <<"pr", "open">>
  /\ PhaseWords["awaiting_human_merge"] = <<"awaiting", "human", "merge">>
  /\ PhaseWords["awaiting_inbound_approval"] = <<"awaiting", "inbound", "approval">>
  /\ PhaseWords["orchestrator_error"] = <<"orchestrator", "error">>
  BY DEF PhaseWords, Phases

LEMMA PhasesAreWords ==
  \A p \in Phases : PhaseWords[p] \in Seq(Word) /\ Len(PhaseWords[p]) \in 1 .. 3
  <1>1. /\ \A v \in Fixed : <<v>> \in Seq(Word) /\ Len(<<v>>) = 1
        /\ \A v, w \in Fixed : <<v, w>> \in Seq(Word) /\ Len(<<v, w>>) = 2
        /\ \A u, v, w \in Fixed : <<u, v, w>> \in Seq(Word) /\ Len(<<u, v, w>>) = 3
    BY FixedIsWord
  <1>2. \A v \in {"graphed", "implementing", "qa", "gate", "adversary", "review", "converged",
          "landing", "merged", "pr", "open", "awaiting", "human", "merge", "inbound",
          "approval", "orchestrator", "error"} : v \in Fixed
    BY DEF Fixed
  <1>3. ASSUME NEW v \in Fixed PROVE <<v>> \in Seq(Word) /\ Len(<<v>>) \in 1 .. 3
    BY <1>1
  <1>4. ASSUME NEW v \in Fixed, NEW w \in Fixed
        PROVE  <<v, w>> \in Seq(Word) /\ Len(<<v, w>>) \in 1 .. 3
    BY <1>1
  <1>5. ASSUME NEW u \in Fixed, NEW v \in Fixed, NEW w \in Fixed
        PROVE  <<u, v, w>> \in Seq(Word) /\ Len(<<u, v, w>>) \in 1 .. 3
    BY <1>1
  <1> DEFINE Good(words) == words \in Seq(Word) /\ Len(words) \in 1 .. 3
  <1>6. /\ Good(PhaseWords["graphed"]) /\ Good(PhaseWords["implementing"])
        /\ Good(PhaseWords["converged"]) /\ Good(PhaseWords["landing"])
        /\ Good(PhaseWords["merged"])
    BY <1>2, <1>3, PhaseTable, Zenon
  <1>7. /\ Good(PhaseWords["qa_gate"]) /\ Good(PhaseWords["adversary_review"])
        /\ Good(PhaseWords["pr_open"]) /\ Good(PhaseWords["orchestrator_error"])
    BY <1>2, <1>4, PhaseTable, Zenon
  <1>8. /\ Good(PhaseWords["awaiting_human_merge"])
        /\ Good(PhaseWords["awaiting_inbound_approval"])
    <2>1. /\ "awaiting" \in Fixed /\ "human" \in Fixed /\ "merge" \in Fixed
          /\ "inbound" \in Fixed /\ "approval" \in Fixed
      BY <1>2
    <2>2. Good(<<"awaiting", "human", "merge">>) /\ Good(<<"awaiting", "inbound", "approval">>)
      BY <1>5, <2>1, Zenon
    <2> QED BY <2>2, PhaseTable, Zenon
  <1> HIDE DEF Good
  <1>9. \A p \in Phases : Good(PhaseWords[p])
    BY <1>6, <1>7, <1>8, PhaseTable
  <1> QED BY <1>9 DEF Good

\* No phase is the beginning of another: the first words differ, and of two that
\* begin with the same word the second ones do.
LEMMA PhasesAreApart ==
  ASSUME NEW p \in Phases, NEW q \in Phases, PhaseWords[p][1] = PhaseWords[q][1], p # q
  PROVE  /\ Len(PhaseWords[p]) = 3 /\ Len(PhaseWords[q]) = 3
         /\ PhaseWords[p][2] # PhaseWords[q][2]
  <1>1. /\ PhaseWords["graphed"][1] = "graphed" /\ PhaseWords["implementing"][1] = "implementing"
        /\ PhaseWords["qa_gate"][1] = "qa" /\ PhaseWords["adversary_review"][1] = "adversary"
        /\ PhaseWords["converged"][1] = "converged" /\ PhaseWords["landing"][1] = "landing"
        /\ PhaseWords["merged"][1] = "merged" /\ PhaseWords["pr_open"][1] = "pr"
        /\ PhaseWords["awaiting_human_merge"][1] = "awaiting"
        /\ PhaseWords["awaiting_inbound_approval"][1] = "awaiting"
        /\ PhaseWords["orchestrator_error"][1] = "orchestrator"
    BY PhaseTable
  <1>2. /\ PhaseWords["awaiting_human_merge"][2] = "human"
        /\ PhaseWords["awaiting_inbound_approval"][2] = "inbound"
        /\ Len(PhaseWords["awaiting_human_merge"]) = 3
        /\ Len(PhaseWords["awaiting_inbound_approval"]) = 3
    BY PhaseTable
  <1>3. {p, q} = {"awaiting_human_merge", "awaiting_inbound_approval"}
    BY <1>1, PhaseTable
  <1> QED BY <1>2, <1>3

\* What follows the phase in a name is its issue.
LEMMA PhaseIsFound ==
  ASSUME NEW p \in Phases, NEW issue \in Seq(Word), issue # <<>>
  PROVE  match_phase(PhaseWords[p] \o issue) = {<<p, issue>>}
  <1> DEFINE first == PhaseWords[p]
             head == first \o issue
             n == Len(first)
             Ends == {i \in 1 .. Len(head) - 1 :
                        \E q \in Phases : PhaseWords[q] = SubSeq(head, 1, i)}
  <1>1. first \in Seq(Word) /\ n \in 1 .. 3
    BY PhasesAreWords
  <1>2. Len(issue) \in Nat /\ Len(issue) # 0
    OBVIOUS
  <1> HIDE DEF first
  <1>3. /\ head \in Seq(Word) /\ Len(head) = n + Len(issue)
        /\ SubSeq(head, 1, n) = first /\ SubSeq(head, n + 1, Len(head)) = issue
    BY <1>1, Parts
  <1>4. \A i \in 1 .. n : head[i] = first[i]
    BY <1>1, Parts
  <1> HIDE DEF head
  <1>5. n \in Ends
    <2>1. n \in 1 .. Len(head) - 1
      BY <1>1, <1>2, <1>3
    <2>2. PhaseWords[p] = SubSeq(head, 1, n)
      BY <1>3 DEF first
    <2> QED BY <2>1, <2>2
  <1>6. ASSUME NEW i \in Ends PROVE i = n
    <2>1. PICK q \in Phases : PhaseWords[q] = SubSeq(head, 1, i)
      OBVIOUS
    <2>2. i \in 1 .. Len(head) - 1 /\ Len(head) \in Nat
      BY <1>3
    <2>3. Len(SubSeq(head, 1, i)) = i /\ SubSeq(head, 1, i)[1] = head[1]
      BY <1>3, <2>2
    <2>4. PhaseWords[q][1] = PhaseWords[p][1]
      BY <1>1, <1>4, <2>1, <2>3 DEF first
    <2>5. CASE p = q
      BY <2>1, <2>3, <2>5 DEF first
    <2>6. CASE p # q
      BY <2>1, <2>3, <2>4, <2>6, PhasesAreApart DEF first
    <2> QED BY <2>5, <2>6
  <1>7. Ends = {n}
    BY <1>5, <1>6
  <1>8. ASSUME NEW q \in Phases, PhaseWords[q] = first PROVE q = p
    BY <1>8, PhasesAreApart DEF first
  <1> HIDE DEF n
  <1>9. (CHOOSE k \in {n} : \A j \in {n} : k <= j) = n
    BY <1>1
  <1>a. {q \in Phases : PhaseWords[q] = SubSeq(head, 1, n)} = {p}
    BY <1>3, <1>8 DEF first
  <1>b. match_phase(head) = {<<q, SubSeq(head, n + 1, Len(head))>> :
                               q \in {q \in Phases : PhaseWords[q] = SubSeq(head, 1, n)}}
    BY <1>7, <1>9 DEF match_phase
  <1> QED BY <1>3, <1>a, <1>b DEF head, first

\* What the issue of an id is called.
Issue(raw) == IF sanitize(raw) = <<>> THEN <<"issue">> ELSE sanitize(raw)

LEMMA IssueIsWords ==
  ASSUME NEW id \in RawIds
  PROVE  Issue(id) \in Seq(Word) /\ Issue(id) # <<>>
  <1>1. id \in Seq(Range(id))
    BY IdAssumption
  <1>2. sanitize(id) \in Seq(Range(id))
    BY <1>1, AtPlaces DEF sanitize
  <1>3. Range(id) \subseteq Word
    BY DEF Word
  <1> HIDE DEF Word
  <1>4. sanitize(id) \in Seq(Word)
    BY <1>2, <1>3
  <1>5. "issue" \in Word
    BY FixedIsWord DEF Fixed
  <1>6. <<"issue">> \in Seq(Word) /\ <<"issue">> # <<>>
    BY <1>5
  <1> QED BY <1>4, <1>6 DEF Issue

LEMMA RoundTable ==
  /\ DOMAIN RoundWord = {1, 2} /\ Len(RoundWord) = 2
  /\ RoundWord[1] = "r0" /\ RoundWord[2] = "r1"
  /\ \A r \in {0, 1} : r + 1 \in {1, 2} /\ RoundWord[r + 1] \in Word
  <1>1. "r0" \in Word /\ "r1" \in Word
    BY FixedIsWord DEF Fixed
  <1>2. /\ DOMAIN RoundWord = {1, 2} /\ Len(RoundWord) = 2
        /\ RoundWord[1] = "r0" /\ RoundWord[2] = "r1"
    BY DEF RoundWord
  <1> QED BY <1>1, <1>2

\* The directory of a name: its phase and issue, its round and its uuid.
Begun(p, issue) == PhaseWords[p] \o issue
Called(p, issue, r, u) == [phase |-> p, round |-> r, uuid |-> u, issue |-> issue]

LEMMA NameIsSpelled ==
  ASSUME NEW p \in Phases, NEW issue \in Seq(Word), issue # <<>>,
         NEW r \in {0, 1}, NEW u \in UuidWords
  PROVE  LET begun == Begun(p, issue)
             words == as_str(Called(p, issue, r, u))
         IN  /\ begun \in Seq(Word) /\ Len(begun) \in Nat /\ Len(begun) >= 2
             /\ Len(words) = Len(begun) + 2
             /\ words[Len(begun) + 1] = RoundWord[r + 1] /\ words[Len(begun) + 2] = u
             /\ SubSeq(words, 1, Len(begun)) = begun
             /\ Front(words) = Append(begun, RoundWord[r + 1])
  <1> DEFINE first == PhaseWords[p]
             begun == first \o issue
             w == RoundWord[r + 1]
  <1>1. first \in Seq(Word) /\ Len(first) \in 1 .. 3
    BY PhasesAreWords
  <1>2. Len(issue) \in Nat /\ Len(issue) # 0
    OBVIOUS
  <1>3. w \in Word /\ u \in Word
    BY RoundTable, FixedIsWord DEF UuidWords, Fixed
  <1>4. as_str(Called(p, issue, r, u)) = begun \o <<w, u>>
    BY DEF as_str, Called
  <1> HIDE DEF first, w
  <1>5. begun \in Seq(Word) /\ Len(begun) = Len(first) + Len(issue)
    BY <1>1, Parts
  <1>t. <<w, u>> \in Seq(Word)
    BY <1>3
  <1>u. PICK two \in Seq(Word) : two = <<w, u>>
    BY <1>t, Zenon
  <1> HIDE DEF begun
  <1>6. /\ Len(begun \o two) = Len(begun) + 2
        /\ (begun \o two)[Len(begun) + 1] = w /\ (begun \o two)[Len(begun) + 2] = u
        /\ SubSeq(begun \o two, 1, Len(begun)) = begun
        /\ Front(begun \o two) = Append(begun, w)
    <2>a. Len(begun \o two) = Len(begun) + 2
      BY <1>3, <1>5, <1>u, TwoMore
    <2>b. (begun \o two)[Len(begun) + 1] = w
      BY <1>3, <1>5, <1>u, TwoMore
    <2>c. (begun \o two)[Len(begun) + 2] = u
      BY <1>3, <1>5, <1>u, TwoMore
    <2>1. /\ Len(begun \o two) = Len(begun) + 2
          /\ (begun \o two)[Len(begun) + 1] = w /\ (begun \o two)[Len(begun) + 2] = u
      BY <2>a, <2>b, <2>c
    <2>2. SubSeq(begun \o two, 1, Len(begun)) = begun
      BY <1>3, <1>5, <1>u, TwoMore
    <2>3. begun \o two \in Seq(Word) /\ \A i \in 1 .. Len(begun) : (begun \o two)[i] = begun[i]
      BY <1>3, <1>5, <1>u, TwoMore
    <2>4. Front(begun \o two) = Append(begun, w)
      BY <1>3, <1>5, <2>1, <2>3, FrontIs
    <2> QED BY <2>1, <2>2, <2>4
  <1>7. Len(begun) \in Nat /\ Len(begun) >= 2
    BY <1>1, <1>2, <1>5
  <1>8. as_str(Called(p, issue, r, u)) = begun \o two
    BY <1>4, <1>u, Zenon
  <1>9. Begun(p, issue) = begun
    BY DEF Begun, begun, first
  <1> HIDE DEF Begun, Called
  <1> QED BY <1>5, <1>6, <1>7, <1>8, <1>9 DEF w

\* A name is read back from the directory it is the name of, and as no other.
LEMMA NameIsRead ==
  ASSUME NEW p \in Phases, NEW issue \in Seq(Word), issue # <<>>,
         NEW r \in {0, 1}, NEW u \in UuidWords
  PROVE  parse(as_str(Called(p, issue, r, u))) = {Called(p, issue, r, u)}
  <1> DEFINE words == as_str(Called(p, issue, r, u))
             begun == Begun(p, issue)
             n == Len(words)
  <1>1. /\ begun \in Seq(Word) /\ Len(begun) \in Nat /\ Len(begun) >= 2
        /\ Len(words) = Len(begun) + 2
        /\ words[Len(begun) + 1] = RoundWord[r + 1] /\ words[Len(begun) + 2] = u
        /\ SubSeq(words, 1, Len(begun)) = begun
    BY NameIsSpelled
  <1>2. match_phase(begun) = {<<p, issue>>}
    BY PhaseIsFound DEF Begun
  <1> HIDE DEF words, begun
  <1>3. ~ (n < 3) /\ n - 2 = Len(begun) /\ words[n] = u /\ words[n - 1] = RoundWord[r + 1]
    <2>1. n \in Nat /\ n = Len(begun) + 2 /\ n - 1 = Len(begun) + 1 /\ n - 2 = Len(begun)
      BY <1>1
    <2> QED BY <1>1, <2>1
  <1>4. Contains(RoundWord, RoundWord[r + 1])
    BY RoundTable DEF Contains
  <1>5. (CHOOSE i \in DOMAIN RoundWord : RoundWord[i] = RoundWord[r + 1]) = r + 1
    BY RoundTable
  <1>6. [phase |-> p, issue |-> issue, uuid |-> u, round |-> (r + 1) - 1]
          = Called(p, issue, r, u)
    BY DEF Called
  <1> DEFINE from(m) == [phase |-> m[1], issue |-> m[2], uuid |-> words[n],
                         round |-> (CHOOSE i \in DOMAIN RoundWord :
                                      RoundWord[i] = words[n - 1]) - 1]
  <1>7. parse(words) = {from(m) : m \in match_phase(SubSeq(words, 1, n - 2))}
    BY <1>3, <1>4 DEF parse
  <1>8. match_phase(SubSeq(words, 1, n - 2)) = {<<p, issue>>}
    BY <1>1, <1>2, <1>3
  <1>9. from(<<p, issue>>) = Called(p, issue, r, u)
    BY <1>3, <1>5, <1>6
  <1> HIDE DEF from
  <1>a. parse(words) = {Called(p, issue, r, u)}
    BY <1>7, <1>8, <1>9
  <1> QED BY <1>a DEF words

\* Only one issue's words end an issue's name but for the uuid.
LEMMA IssueIsMatched ==
  ASSUME NEW p \in Phases, NEW issue \in Seq(Word), issue # <<>>, NEW r \in {0, 1},
         NEW u \in UuidWords, NEW other \in Seq(Word), other # <<>>, NEW v \in UuidWords
  PROVE  Front(as_str(Called(p, other, r, v))) = Front(as_str(Called(p, issue, r, u)))
           <=> other = issue
  <1> DEFINE w == RoundWord[r + 1]
             a == Begun(p, issue)
             b == Begun(p, other)
  <1>1. a \in Seq(Word) /\ b \in Seq(Word) /\ w \in Word
    BY NameIsSpelled, RoundTable
  <1>2. /\ Front(as_str(Called(p, issue, r, u))) = Append(a, w)
        /\ Front(as_str(Called(p, other, r, v))) = Append(b, w)
    BY NameIsSpelled
  <1>3. a = b => other = issue
    <2>1. PhaseWords[p] \in Seq(Word)
      BY PhasesAreWords
    <2>2. Len(PhaseWords[p]) = Len(PhaseWords[p])
      OBVIOUS
    <2> QED BY <2>1, <2>2, PartsAreTold DEF Begun
  <1>4. other = issue => a = b
    OBVIOUS
  <1> HIDE DEF a, b, w
  <1>5. Append(a, w) = Append(b, w) => a = b
    <2> SUFFICES ASSUME Append(a, w) = Append(b, w) PROVE a = b
      OBVIOUS
    <2>1. /\ Len(a) \in Nat /\ Len(Append(a, w)) = Len(a) + 1
          /\ \A k \in 1 .. Len(a) : Append(a, w)[k] = a[k]
      BY <1>1, Into
    <2>2. /\ Len(b) \in Nat /\ Len(Append(b, w)) = Len(b) + 1
          /\ \A k \in 1 .. Len(b) : Append(b, w)[k] = b[k]
      BY <1>1, Into
    <2>3. Len(a) = Len(b) /\ \A k \in 1 .. Len(a) : a[k] = b[k]
      BY <2>1, <2>2
    <2> QED BY <1>1, <2>3
  <1> QED BY <1>2, <1>3, <1>4, <1>5

\* A pane's name tells its role, its issue and its round.
Pane(x, issue, w) == <<x>> \o issue \o <<w>>

LEMMA PaneIsTold ==
  ASSUME NEW T, NEW x \in T, NEW y \in T, NEW a \in Seq(T), NEW b \in Seq(T),
         NEW v \in T, NEW w \in T, Pane(x, a, v) = Pane(y, b, w)
  PROVE  x = y /\ a = b /\ v = w
  <1>1. <<x>> \in Seq(T) /\ <<y>> \in Seq(T) /\ <<v>> \in Seq(T) /\ <<w>> \in Seq(T)
    OBVIOUS
  <1>2. PICK xs \in Seq(T), ys \in Seq(T), vs \in Seq(T), ws \in Seq(T) :
          xs = <<x>> /\ ys = <<y>> /\ vs = <<v>> /\ ws = <<w>>
    BY <1>1, Zenon
  <1>3. /\ Len(xs) = 1 /\ xs[1] = x /\ Len(ys) = 1 /\ ys[1] = y
        /\ Len(vs) = 1 /\ vs[1] = v /\ Len(ws) = 1 /\ ws[1] = w
    BY <1>2
  <1> DEFINE xa == xs \o a
             yb == ys \o b
  <1>4. xa \in Seq(T) /\ yb \in Seq(T) /\ xa \o vs = yb \o ws
    <2>1. xa \in Seq(T) /\ yb \in Seq(T)
      OBVIOUS
    <2> QED BY <1>2, <2>1, Zenon DEF Pane
  <1> HIDE DEF xa, yb
  <1>5. xa = yb /\ vs = ws
    <2>1. Len(vs) = Len(ws)
      BY <1>3
    <2>2. \A i, j \in Seq(T) : i \o vs = j \o ws => i = j /\ vs = ws
      BY <2>1, PartsAreTold
    <2> QED BY <1>4, <2>2
  <1>6. xs = ys /\ a = b
    <2>1. Len(xs) = Len(ys) /\ xs \o a = ys \o b
      BY <1>3, <1>5 DEF xa, yb
    <2>2. \A i, j \in Seq(T) : xs \o i = ys \o j => xs = ys /\ i = j
      BY <2>1, PartsAreTold
    <2> QED BY <2>1, <2>2
  <1> QED BY <1>3, <1>5, <1>6

\* What a name made of an id is.
LEMMA NameHasParts ==
  ASSUME NEW p, NEW id, NEW r, NEW u
  PROVE  from_parts(p, id, r, u) = Called(p, Issue(id), r, u)
  BY Zenon DEF from_parts, Called, Issue

\* A name that is read from its own directory is read back.
LEMMA FoundIsIt ==
  ASSUME NEW p \in Phases, NEW own \in RawIds, NEW r \in {0, 1}, NEW u \in UuidWords,
         name = from_parts(p, own, r, u), found = parse(as_str(name))
  PROVE  NamesAreReadBack
  <1> DEFINE issue == Issue(own)
  <1>1. issue \in Seq(Word) /\ issue # <<>>
    BY IssueIsWords
  <1>2. name = Called(p, issue, r, u)
    BY NameHasParts
  <1> HIDE DEF issue
  <1>3. /\ name.phase = p /\ name.round = r /\ name.issue = issue
    BY <1>2 DEF Called
  <1>4. found = {name}
    BY <1>1, <1>2, NameIsRead
  <1>5. ASSUME NEW id \in RawIds
        PROVE  /\ from_parts(name.phase, id, 0, "deadbeef").issue = Issue(id)
               /\ workspace_issue_matches(name, id) <=> Issue(id) = name.issue
    <2>1. from_parts(name.phase, id, 0, "deadbeef").issue = Issue(id)
      BY NameHasParts DEF Called
    <2>2. Issue(id) \in Seq(Word) /\ Issue(id) # <<>>
      BY IssueIsWords
    <2>3. from_parts(name.phase, id, name.round, "deadbeef") = Called(p, Issue(id), r, "deadbeef")
      BY <1>3, NameHasParts
    <2>4. "deadbeef" \in UuidWords
      BY DEF UuidWords
    <2>5. Front(as_str(Called(p, Issue(id), r, "deadbeef"))) = Front(as_str(Called(p, issue, r, u)))
            <=> Issue(id) = issue
      BY <1>1, <2>2, <2>4, IssueIsMatched
    <2> QED BY <1>2, <1>3, <2>1, <2>3, <2>5 DEF workspace_issue_matches
  <1>6. ASSUME NEW role \in Roles, NEW id \in RawIds, NEW round \in {0, 1},
               pane_name(role, Issue(id), round) = pane_name("merger", name.issue, name.round)
        PROVE  role = "merger" /\ Issue(id) = name.issue /\ round = name.round
    <2> DEFINE T == Word \cup Roles
               v == RoundWord[round + 1]
               w == RoundWord[r + 1]
    <2>1. Issue(id) \in Seq(Word) /\ issue \in Seq(Word)
      BY <1>1, IssueIsWords
    <2>2. Word \subseteq T /\ role \in T /\ "merger" \in T
      BY DEF Roles
    <2>3. v \in T /\ w \in T
      BY RoundTable
    <2> HIDE DEF T
    <2>4. Issue(id) \in Seq(T) /\ issue \in Seq(T)
      BY <2>1, <2>2
    <2>5. Pane(role, Issue(id), v) = Pane("merger", issue, w)
      BY <1>3, <1>6 DEF pane_name, Pane
    <2> HIDE DEF v, w
    <2>6. role = "merger" /\ Issue(id) = issue /\ v = w
      BY <2>2, <2>3, <2>4, <2>5, PaneIsTold
    <2>7. round = r
      BY <2>6, RoundTable DEF v, w
    <2> QED BY <1>3, <2>6, <2>7
  <1> QED BY <1>4, <1>5, <1>6 DEF NamesAreReadBack

\* Whatever its issue's id, a workspace's name is read back from its directory
\* after a restart (WorkspaceName::parse), matches the ids that are called the same
\* and no others (workspace_issue_matches), and names a pane that no other worker's
\* is named like (PaneName).
THEOREM NamesComeBack == Spec => [](stage = "recovered" => NamesAreReadBack)
  <1>1. Init => NameInv
    BY DEF Init, NameInv
  <1>2. ASSUME NameInv, [Next]_vars PROVE NameInv'
    <2>1. CASE Load
      BY <2>1 DEF Load, NameInv
    <2>2. CASE Generate
      BY <2>2 DEF Generate, NameInv
    <2>3. CASE Restart
      BY <1>2, <2>3 DEF Restart, NameInv
    <2>4. ASSUME NEW role, CommandFor(role) PROVE NameInv'
      BY <2>4 DEF CommandFor, NameInv
    <2>5. CASE VerifyPin \/ Resolve \/ CallTool \/ RunQa
      BY <2>5 DEF VerifyPin, Resolve, CallTool, RunQa, NameInv
    <2>6. CASE Review
      BY <2>6 DEF Review, NameInv
    <2>7. CASE UNCHANGED vars
      BY <1>2, <2>7 DEF vars, NameInv
    <2> QED BY <1>2, <2>1, <2>2, <2>3, <2>4, <2>5, <2>6, <2>7
            DEF Next, worker_command, adversary_worker_command, merger_worker_command
  <1>3. NameInv => (stage = "recovered" => NamesAreReadBack)
    BY FoundIsIt DEF NameInv
  <1> QED BY <1>1, <1>2, <1>3, PTL DEF Spec

-----------------------------------------------------------------------------
(* Panes. *)

\* The number that digits spell grows digit by digit.
Spelled(digits) == FoldLeft(LAMBDA n, d : 10 * n + Digit(d), 0, digits)

LEMMA DigitIs == \A d : Digit(d) \in Int
  BY DEF Digit

LEMMA NumberRuns ==
  ASSUME NEW T, NEW digits \in Seq(T)
  PROVE  \E at \in [0 .. Len(digits) -> Int] :
           /\ at[0] = 0 /\ at[Len(digits)] = Spelled(digits)
           /\ \A k \in 1 .. Len(digits) : at[k] = 10 * at[k - 1] + Digit(digits[k])
  <1> DEFINE n == Len(digits)
             Is(g) == g = [d \in SUBSET (1 .. n) |-> IF d = {} THEN 0
                                                      ELSE 10 * g[d \ {Max(d)}] + Digit(digits[Max(d)])]
             f == CHOOSE g : Is(g)
             step == [p \in Int \X (1 .. n) |-> 10 * p[1] + Digit(digits[p[2]])]
  <1>1. n \in Nat /\ DOMAIN digits = 1 .. n
    OBVIOUS
  <1>2. Spelled(digits) = f[1 .. n]
    BY <1>1, Zenon DEF Spelled, FoldLeft, MapThenFoldSet
  <1> HIDE DEF n
  <1>3. step \in [Int \X (1 .. n) -> Int]
    BY <1>1, DigitIs
  <1>4. \A x \in Int, k \in 1 .. n : step[<<x, k>>] = 10 * x + Digit(digits[k])
    OBVIOUS
  <1> HIDE DEF step
  <1>5. PICK g \in [SUBSET (1 .. n) -> Int] : Folds(g, 0, step, n)
    <2>1. 0 \in Int
      OBVIOUS
    <2>2. \A State : 0 \in State /\ step \in [State \X (1 .. n) -> State]
             => \E g \in [SUBSET (1 .. n) -> State] : Folds(g, 0, step, n)
      BY <1>1, FoldExists, Zenon
    <2> QED BY <1>3, <2>1, <2>2, Zenon
  <1>6. \A d \in SUBSET (1 .. n) : d # {} => Max(d) \in 1 .. n /\ d \ {Max(d)} \in SUBSET (1 .. n)
    BY <1>1, MaxIsIn
  <1>7. Is(g)
    BY <1>4, <1>5, <1>6 DEF Folds
  <1>8. Is(f)
    BY <1>7, Zenon
  <1> HIDE DEF f
  <1>9. Runs(Int, 0, step, n, f[1 .. n])
    <2>1. Stepwise(f, Int, 0, step, n)
      BY <1>4, <1>6, <1>8 DEF Stepwise
    <2> HIDE DEF Is
    <2>2. 0 \in Int
      OBVIOUS
    <2>3. \A State : 0 \in State /\ step \in [State \X (1 .. n) -> State] /\ Stepwise(f, State, 0, step, n)
             => Runs(State, 0, step, n, f[1 .. n])
      BY <1>1, FoldRuns, Zenon
    <2> QED BY <1>3, <2>1, <2>2, <2>3, Zenon
  <1>a. PICK at \in [0 .. n -> Int] :
          at[0] = 0 /\ at[n] = f[1 .. n] /\ \A k \in 1 .. n : at[k] = step[<<at[k - 1], k>>]
    BY <1>9 DEF Runs
  <1>b. \A k \in 1 .. n : at[k] = 10 * at[k - 1] + Digit(digits[k])
    <2>1. \A k \in 1 .. n : k - 1 \in 0 .. n
      BY <1>1
    <2> QED BY <1>4, <1>a, <2>1
  <1> QED BY <1>2, <1>a, <1>b DEF n

\* What is asked about: the number of a pane, in one digit or in two.
LEMMA SevenIs ==
  ASSUME NEW digits \in Seq(Digits), digits \in {<<"7">>, <<"7", "0">>}
  PROVE  Spelled(digits) = IF Len(digits) = 1 THEN 7 ELSE 70
  <1>1. PICK at \in [0 .. Len(digits) -> Int] :
           /\ at[0] = 0 /\ at[Len(digits)] = Spelled(digits)
           /\ \A k \in 1 .. Len(digits) : at[k] = 10 * at[k - 1] + Digit(digits[k])
    BY NumberRuns
  <1>2. Digit("7") = 7 /\ Digit("0") = 0
    BY DEF Digit
  <1>3. CASE digits = <<"7">>
    <2>1. Len(digits) = 1 /\ digits[1] = "7" /\ 1 \in 1 .. 1
      BY <1>3
    <2>2. at[1] = 10 * at[1 - 1] + Digit("7")
      BY <1>1, <2>1
    <2> QED BY <1>1, <1>2, <2>1, <2>2
  <1>4. CASE digits = <<"7", "0">>
    <2>1. Len(digits) = 2 /\ digits[1] = "7" /\ digits[2] = "0" /\ 1 \in 1 .. 2 /\ 2 \in 1 .. 2
      BY <1>4
    <2>2. at[1] = 10 * at[1 - 1] + Digit("7") /\ at[2] = 10 * at[2 - 1] + Digit("0")
      BY <1>1, <2>1
    <2> QED BY <1>1, <1>2, <2>1, <2>2
  <1> QED BY <1>3, <1>4

\* A word of zellij's, and a line of them.
Printed == PanePrefixes \cup Digits \cup {"note"}
PaneLine(kind, digits) == <<kind>> \o digits
Banners == { <<>>, <<"note">>, <<"terminal_">>, <<"terminal_", "0">>, <<"terminal_", "7", "note">> }

LEMMA BannersAreLines == Banners \subseteq Seq(Printed)
  <1>1. "note" \in Printed /\ "terminal_" \in Printed /\ "0" \in Printed /\ "7" \in Printed
    BY DEF Printed, PanePrefixes, Digits
  <1> QED BY <1>1 DEF Banners

\* A kind and digits are the id of a pane.
LEMMA PaneLineIs ==
  ASSUME NEW kind \in PanePrefixes, NEW digits \in Seq(Digits), digits # <<>>
  PROVE  /\ PaneLine(kind, digits) \in Seq(Printed)
         /\ PaneLine(kind, digits)[1] = kind
         /\ Tail(PaneLine(kind, digits)) = digits
         /\ is_pane_id(PaneLine(kind, digits))
  <1>1. kind \in Printed /\ Digits \subseteq Printed
    BY DEF Printed
  <1>2. PICK k \in Seq(Printed) : k = <<kind>>
    <2> HIDE DEF Printed
    <2>1. <<kind>> \in Seq(Printed)
      BY <1>1
    <2> QED BY <2>1, Zenon
  <1>3. digits \in Seq(Printed) /\ Len(digits) \in Nat /\ Len(digits) > 0
    <2>1. Len(digits) \in Nat /\ digits \in [1 .. Len(digits) -> Digits]
      OBVIOUS
    <2>2. Len(digits) > 0
      BY <2>1
    <2> HIDE DEF Printed
    <2>3. digits \in [1 .. Len(digits) -> Printed]
      BY <1>1, <2>1
    <2> QED BY <2>1, <2>2, <2>3
  <1> DEFINE t == k \o digits
  <1>4. t \in Seq(Printed) /\ Len(t) = 1 + Len(digits) /\ t[1] = kind
        /\ \A i \in 1 .. Len(digits) : t[i + 1] = digits[i]
    BY <1>2, <1>3
  <1>5. t = PaneLine(kind, digits)
    BY <1>2 DEF PaneLine
  <1> HIDE DEF t
  <1>6. Tail(t) = digits
    <2>1. Tail(t) = [i \in 1 .. Len(digits) |-> t[i + 1]]
      <3>1. t # <<>> /\ Len(t) - 1 = Len(digits)
        BY <1>3, <1>4
      <3>2. Tail(t) \in Seq(Printed) /\ Len(Tail(t)) = Len(digits)
            /\ \A i \in 1 .. Len(Tail(t)) : Tail(t)[i] = t[i + 1]
        BY <1>4, <3>1, HeadTailProperties
      <3> DEFINE u == Tail(t)
      <3>3. u \in Seq(Printed)
        BY <3>2
      <3> HIDE DEF u
      <3>4. u = [i \in 1 .. Len(u) |-> u[i]]
        BY <3>3
      <3>5. \A i \in 1 .. Len(u) : u[i] = t[i + 1]
        BY <3>2, Zenon DEF u
      <3>6. Len(u) = Len(digits)
        BY <3>2, Zenon DEF u
      <3>7. u = [i \in 1 .. Len(digits) |-> t[i + 1]]
        BY <3>4, <3>5, <3>6
      <3> QED BY <3>7, Zenon DEF u
    <2>2. digits = [i \in 1 .. Len(digits) |-> digits[i]]
      OBVIOUS
    <2> QED BY <1>4, <2>1, <2>2
  <1>7. Range(digits) \subseteq Digits
    BY DEF Range
  <1> HIDE DEF Printed
  <1>8. is_pane_id(t)
    <2>1. Len(t) > 1
      BY <1>3, <1>4
    <2>2. t[1] \in PanePrefixes
      BY <1>4
    <2>3. Range(Tail(t)) \subseteq Digits
      BY <1>6, <1>7
    <2> QED BY <2>1, <2>2, <2>3, Zenon DEF is_pane_id
  <1> QED BY <1>4, <1>5, <1>6, <1>8

\* Whatever is printed before it, the last line is the pane's.
LEMMA LastLineIsFound ==
  ASSUME NEW banner \in Seq(Seq(Printed)), NEW id \in Seq(Printed), is_pane_id(id)
  PROVE  extract_pane_id(banner \o <<id>>) = {id}
  <1> DEFINE T == Seq(Printed)
             output == Append(banner, id)
             places == {k \in DOMAIN output : is_pane_id(output[k])}
  <1> HIDE DEF T
  <1>1. banner \in Seq(T) /\ id \in T
    BY DEF T
  <1>2. /\ banner \o <<id>> = output /\ Len(banner) + 1 \in DOMAIN output
        /\ output[Len(banner) + 1] = id
    BY <1>1
  <1>3. Len(banner) + 1 \in places
    BY <1>2
  <1>4. extract_pane_id(output) = IF At(output, places) = <<>> THEN {} ELSE {Last(At(output, places))}
    BY Zenon DEF extract_pane_id
  <1>5. At(banner, places) \in Seq(T)
    BY <1>1, AtPicked
  <1>6. At(output, places) = Append(At(banner, places), id)
    BY <1>1, <1>3, AtAppended
  <1> HIDE DEF output, places
  <1>7. Append(At(banner, places), id) # <<>> /\ Last(Append(At(banner, places), id)) = id
    <2>1. \A a \in Seq(T) : Append(a, id) # <<>> /\ Append(a, id)[Len(Append(a, id))] = id
      BY <1>1
    <2> QED BY <1>5, <2>1 DEF Last
  <1> QED BY <1>2, <1>4, <1>6, <1>7

\* Whatever zellij prints before it, the id of the new pane is found (extract_pane_id),
\* and is read back as the pane's kind and number (split_pane_id).
THEOREM PanesAreFound == PaneIsFound
  <1> SUFFICES ASSUME NEW kind \in PanePrefixes, NEW digits \in {<<"7">>, <<"7", "0">>},
                      NEW banner \in UNION {[1 .. k -> Banners] : k \in 0 .. 2}
               PROVE  LET ids == extract_pane_id(banner \o << <<kind>> \o digits >>)
                      IN  /\ ids = {<<kind>> \o digits}
                          /\ \A id \in ids : split_pane_id(id) =
                               {[is_plugin |-> kind = "plugin_",
                                 id |-> IF Len(digits) = 1 THEN 7 ELSE 70]}
    BY Zenon DEF PaneIsFound, Banners
  <1>1. digits \in Seq(Digits) /\ digits # <<>>
    <2>1. "7" \in Digits /\ "0" \in Digits
      BY DEF Digits
    <2>2. \A x, y \in Digits : <<x>> \in Seq(Digits) /\ <<x, y>> \in Seq(Digits)
      OBVIOUS
    <2>3. \A x, y \in Digits : <<x>> # <<>> /\ <<x, y>> # <<>>
      OBVIOUS
    <2> QED BY <2>1, <2>2, <2>3, Zenon
  <1>2. banner \in Seq(Seq(Printed))
    <2>1. PICK k \in 0 .. 2 : banner \in [1 .. k -> Banners]
      OBVIOUS
    <2>2. k \in Nat /\ banner \in [1 .. k -> Seq(Printed)]
      BY <2>1, BannersAreLines
    <2> QED BY <2>2
  <1> DEFINE id == PaneLine(kind, digits)
  <1>3. /\ id \in Seq(Printed) /\ id[1] = kind /\ Tail(id) = digits /\ is_pane_id(id)
    BY <1>1, PaneLineIs
  <1>4. Spelled(digits) = IF Len(digits) = 1 THEN 7 ELSE 70
    BY <1>1, SevenIs
  <1> HIDE DEF id
  <1>5. extract_pane_id(banner \o <<id>>) = {id}
    BY <1>2, <1>3, LastLineIsFound
  <1>6. split_pane_id(id) = {[is_plugin |-> kind = "plugin_", id |-> Spelled(digits)]}
    BY <1>3, Zenon DEF split_pane_id, Spelled
  <1> QED BY <1>4, <1>5, <1>6, Zenon DEF id, PaneLine

-----------------------------------------------------------------------------
(* Branches. *)

LEMMA WordLenIs == \A w : WordLen(w) \in Nat
  BY DEF WordLen

\* The width of words is that of one after the other.
LEMMA WidthRuns ==
  ASSUME NEW T, NEW words \in Seq(T)
  PROVE  \E at \in [0 .. Len(words) -> Int] :
           /\ at[0] = Len(words) - 1 /\ at[Len(words)] = Width(words)
           /\ \A k \in 1 .. Len(words) : at[k] = at[k - 1] + WordLen(words[k])
  <1> DEFINE n == Len(words)
             Is(g) == g = [d \in SUBSET (1 .. n) |-> IF d = {} THEN n - 1
                                                      ELSE g[d \ {Max(d)}] + WordLen(words[Max(d)])]
             f == CHOOSE g : Is(g)
             step == [p \in Int \X (1 .. n) |-> p[1] + WordLen(words[p[2]])]
             start == n - 1
  <1>1. n \in Nat /\ DOMAIN words = 1 .. n
    OBVIOUS
  <1>2. Width(words) = f[1 .. n]
    BY <1>1, Zenon DEF Width, FoldLeft, MapThenFoldSet
  <1>s. start \in Int
    BY <1>1
  <1> HIDE DEF n
  <1>3. step \in [Int \X (1 .. n) -> Int]
    BY <1>1, WordLenIs
  <1>4. \A x \in Int, k \in 1 .. n : step[<<x, k>>] = x + WordLen(words[k])
    OBVIOUS
  <1> HIDE DEF step
  <1>5. PICK g \in [SUBSET (1 .. n) -> Int] : Folds(g, start, step, n)
    <2> HIDE DEF start
    <2>2. \A State : start \in State /\ step \in [State \X (1 .. n) -> State]
             => \E g \in [SUBSET (1 .. n) -> State] : Folds(g, start, step, n)
      BY <1>1, FoldExists, Zenon
    <2> QED BY <1>3, <1>s, <2>2, Zenon
  <1>6. \A d \in SUBSET (1 .. n) : d # {} => Max(d) \in 1 .. n /\ d \ {Max(d)} \in SUBSET (1 .. n)
    BY <1>1, MaxIsIn
  <1>7. Is(g)
    BY <1>4, <1>5, <1>6 DEF Folds
  <1>8. Is(f)
    BY <1>7, Zenon
  <1> HIDE DEF f
  <1>9. Runs(Int, start, step, n, f[1 .. n])
    <2>1. Stepwise(f, Int, start, step, n)
      BY <1>4, <1>6, <1>8 DEF Stepwise
    <2> HIDE DEF Is, start
    <2>3. \A State : start \in State /\ step \in [State \X (1 .. n) -> State] /\ Stepwise(f, State, start, step, n)
             => Runs(State, start, step, n, f[1 .. n])
      BY <1>1, FoldRuns, Zenon
    <2> QED BY <1>3, <1>s, <2>1, <2>3, Zenon
  <1>a. PICK at \in [0 .. n -> Int] :
          at[0] = start /\ at[n] = f[1 .. n] /\ \A k \in 1 .. n : at[k] = step[<<at[k - 1], k>>]
    BY <1>9 DEF Runs
  <1>b. \A k \in 1 .. n : at[k] = at[k - 1] + WordLen(words[k])
    <2>1. \A k \in 1 .. n : k - 1 \in 0 .. n
      BY <1>1
    <2> QED BY <1>4, <1>a, <2>1
  <1> QED BY <1>2, <1>a, <1>b DEF n

LEMMA WidthIs ==
  ASSUME NEW T
  PROVE  /\ \A words \in Seq(T) : Width(words) \in Int
         /\ \A w \in T : Width(<<w>>) = WordLen(w)
  <1>1. ASSUME NEW words \in Seq(T) PROVE Width(words) \in Int
    <2>1. Len(words) \in Nat /\ Len(words) \in 0 .. Len(words)
      OBVIOUS
    <2> QED BY <2>1, WidthRuns
  <1>2. ASSUME NEW w \in T PROVE Width(<<w>>) = WordLen(w)
    <2> DEFINE one == <<w>>
    <2>1. one \in Seq(T) /\ Len(one) = 1 /\ one[1] = w
      OBVIOUS
    <2> HIDE DEF one
    <2>2. PICK at \in [0 .. Len(one) -> Int] :
           /\ at[0] = Len(one) - 1 /\ at[Len(one)] = Width(one)
           /\ \A k \in 1 .. Len(one) : at[k] = at[k - 1] + WordLen(one[k])
      BY <2>1, WidthRuns
    <2>3. at[1] = at[1 - 1] + WordLen(one[1])
      BY <2>1, <2>2
    <2>4. Width(one) = WordLen(w)
      BY <2>1, <2>2, <2>3, WordLenIs
    <2> QED BY <2>4 DEF one
  <1> QED BY <1>1, <1>2

\* A slug is made of words, or of the beginning of one, and is no wider than the cap.
SlugWord == Word \cup {"cut", "vdd"}

LEMMA SanitizedIsWords ==
  ASSUME NEW id \in RawIds
  PROVE  sanitize(id) \in Seq(SlugWord)
  <1>1. id \in Seq(Range(id))
    BY IdAssumption
  <1>2. sanitize(id) \in Seq(Range(id))
    BY <1>1, AtPlaces DEF sanitize
  <1>3. Range(id) \subseteq SlugWord
    BY DEF Word, SlugWord
  <1> HIDE DEF SlugWord
  <1> QED BY <1>2, <1>3

LEMMA SlugFits ==
  ASSUME NEW title \in RawIds
  PROVE  /\ slugify(title, SLUG_MAX) \in Seq(SlugWord)
         /\ Width(slugify(title, SLUG_MAX)) <= SLUG_MAX
  <1> DEFINE words == sanitize(title)
             slug == slugify(title, SLUG_MAX)
             cuts == {k \in 1 .. Len(words) - 1 : Width(SubSeq(words, 1, k)) < SLUG_MAX}
             k == CHOOSE x \in cuts : \A j \in cuts : j <= x
  <1>1. words \in Seq(SlugWord)
    BY SanitizedIsWords
  <1>2. slug = IF Width(words) <= SLUG_MAX THEN words
               ELSE IF cuts = {} THEN <<IF WordLen(words[1]) = SLUG_MAX THEN words[1] ELSE "cut">>
               ELSE SubSeq(words, 1, k)
    BY Zenon DEF slugify
  <1> HIDE DEF slug, words
  <1>3. SLUG_MAX \in Nat /\ SLUG_MAX >= 1
    BY LaunchBounds
  <1>4. CASE Width(words) <= SLUG_MAX
    BY <1>1, <1>2, <1>4 DEF slug
  <1>5. CASE ~ (Width(words) <= SLUG_MAX) /\ cuts = {}
    <2> DEFINE w == IF WordLen(words[1]) = SLUG_MAX THEN words[1] ELSE "cut"
    <2>1. slug = <<w>>
      BY <1>2, <1>5
    <2>2. WordLen("cut") = 1
      BY DEF WordLen
    <2>3. words # <<>>
      <3> SUFFICES ASSUME words = <<>> PROVE FALSE
        OBVIOUS
      <3>1. Len(words) = 0
        OBVIOUS
      <3>2. Width(words) = 0 - 1
        BY <1>1, <3>1, WidthRuns
      <3> QED BY <1>3, <1>5, <3>2
    <2>4. words[1] \in SlugWord
      BY <1>1, <2>3
    <2>5. "cut" \in SlugWord
      BY DEF SlugWord
    <2>6. w \in SlugWord /\ WordLen(w) <= SLUG_MAX
      BY <1>3, <2>2, <2>4, <2>5
    <2> HIDE DEF w
    <2>7. Width(<<w>>) = WordLen(w)
      BY <2>6, WidthIs
    <2>8. <<w>> \in Seq(SlugWord)
      BY <2>6
    <2> QED BY <2>1, <2>6, <2>7, <2>8 DEF slug
  <1>6. CASE ~ (Width(words) <= SLUG_MAX) /\ cuts # {}
    <2>1. Len(words) \in Nat /\ cuts \in SUBSET (1 .. Len(words))
      BY <1>1
    <2>2. Max(cuts) \in cuts /\ \A x \in cuts : Max(cuts) >= x
      BY <1>6, <2>1, MaxIsIn
    <2>3. \E x \in cuts : \A j \in cuts : j <= x
      <3>1. \A j \in cuts : j <= Max(cuts)
        BY <2>1, <2>2
      <3> QED BY <2>2, <3>1
    <2>4. k \in cuts
      BY <2>3, Zenon
    <2> HIDE DEF k
    <2>5. k \in 1 .. Len(words) - 1 /\ Width(SubSeq(words, 1, k)) < SLUG_MAX
      BY <2>4
    <2>6. SubSeq(words, 1, k) \in Seq(SlugWord)
      BY <1>1, <2>1, <2>5
    <2>7. Width(SubSeq(words, 1, k)) \in Int
      BY <2>6, WidthIs
    <2>8. Width(SubSeq(words, 1, k)) <= SLUG_MAX
      BY <1>3, <2>5, <2>7
    <2>9. slug = SubSeq(words, 1, k)
      BY <1>2, <1>6
    <2> QED BY <2>6, <2>8, <2>9 DEF slug
  <1> QED BY <1>4, <1>5, <1>6

\* No branch's slug is wider than the cap allows, and issues whose ids are different words,
\* as the tracker's numbers are, have different branches, whatever their titles and
\* wherever the cap cuts them (branch_name, slugify).
THEOREM BranchesAreApart == BranchesDiffer
  <1>1. \A title \in RawIds : Width(slugify(title, SLUG_MAX)) <= SLUG_MAX
    BY SlugFits
  <1>2. ASSUME NEW id \in RawIds, NEW other \in RawIds, NEW title \in RawIds, NEW its \in RawIds,
               Len(sanitize(id)) = 1, Len(sanitize(other)) = 1,
               branch_name(id, title, SLUG_MAX) = branch_name(other, its, SLUG_MAX)
        PROVE  sanitize(id) = sanitize(other)
    <2> DEFINE a == sanitize(id)
               b == sanitize(other)
               s == slugify(title, SLUG_MAX)
               t == slugify(its, SLUG_MAX)
    <2>1. /\ a \in Seq(SlugWord) /\ b \in Seq(SlugWord) /\ s \in Seq(SlugWord) /\ t \in Seq(SlugWord)
          /\ Len(a) = 1 /\ Len(b) = 1
      BY <1>2, SanitizedIsWords, SlugFits
    <2>2. PICK v \in Seq(SlugWord) : v = <<"vdd">>
      <3>1. "vdd" \in SlugWord
        BY DEF SlugWord
      <3>2. <<"vdd">> \in Seq(SlugWord)
        BY <3>1
      <3> QED BY <3>2, Zenon
    <2> HIDE DEF a, b, s, t
    <2>3. a # <<>> /\ b # <<>>
      <3>1. \A x \in Seq(SlugWord) : Len(x) = 1 => x # <<>>
        OBVIOUS
      <3> QED BY <2>1, <3>1
    <2>4. /\ branch_name(id, title, SLUG_MAX) = (v \o a) \o s
          /\ branch_name(other, its, SLUG_MAX) = (v \o b) \o t
      BY <2>2, <2>3, Zenon DEF branch_name, a, b, s, t
    <2>5. /\ v \o a \in Seq(SlugWord) /\ v \o b \in Seq(SlugWord) /\ Len(v \o a) = Len(v \o b)
      <3>1. \A x \in Seq(SlugWord) : v \o x \in Seq(SlugWord) /\ Len(v \o x) = Len(v) + Len(x)
        OBVIOUS
      <3>2. v \o a \in Seq(SlugWord) /\ Len(v \o a) = Len(v) + Len(a)
        BY <2>1, <3>1
      <3>3. v \o b \in Seq(SlugWord) /\ Len(v \o b) = Len(v) + Len(b)
        BY <2>1, <3>1
      <3> QED BY <2>1, <3>2, <3>3, Zenon
    <2>6. v \o a = v \o b
      <3> DEFINE va == v \o a
                 vb == v \o b
      <3>1. va \in Seq(SlugWord) /\ vb \in Seq(SlugWord) /\ Len(va) = Len(vb) /\ va \o s = vb \o t
        BY <1>2, <2>1, <2>4, <2>5
      <3> HIDE DEF va, vb
      <3>2. va = vb
        BY <2>1, <3>1, PartsAreTold
      <3> QED BY <3>2 DEF va, vb
    <2>7. a = b
      BY <2>1, <2>6, PartsAreTold
    <2> QED BY <2>7 DEF a, b
  <1> QED BY <1>1, <1>2, Zenon DEF BranchesDiffer

-----------------------------------------------------------------------------
(* Remotes. *)

\* The words and marks of a URL.
Mark == {"https", "://", "github", "/", "o", "r", ".git", "git@github", ":"}

\* Where a mark is for the first time.
FirstAt(s, mark, i) == i \in 1 .. Len(s) /\ s[i] = mark /\ \A j \in 1 .. i - 1 : s[j] # mark

LEMMA FirstIs ==
  ASSUME NEW T, NEW s \in Seq(T), NEW mark, NEW i, FirstAt(s, mark, i)
  PROVE  /\ Contains(s, mark)
         /\ Before(s, mark) = SubSeq(s, 1, i - 1) /\ After(s, mark) = SubSeq(s, i + 1, Len(s))
  <1> DEFINE at == {k \in 1 .. Len(s) : s[k] = mark}
             least == CHOOSE x \in at : \A y \in at : x =< y
  <1>1. /\ SelectInSeq(s, LAMBDA t : t = mark) = IF at # {} THEN least ELSE 0
        /\ Before(s, mark) = SubSeq(s, 1, SelectInSeq(s, LAMBDA t : t = mark) - 1)
        /\ After(s, mark) = SubSeq(s, SelectInSeq(s, LAMBDA t : t = mark) + 1, Len(s))
    BY Zenon DEF SelectInSeq, Min, Before, After
  <1>2. i \in at /\ \A y \in at : i =< y
    BY DEF FirstAt
  <1>3. \A x \in at : (\A y \in at : x =< y) => x = i
    BY <1>2
  <1> HIDE DEF at
  <1>4. least = i
    BY <1>2, <1>3
  <1> HIDE DEF least
  <1>5. SelectInSeq(s, LAMBDA t : t = mark) = i
    BY <1>1, <1>2, <1>4
  <1>6. Contains(s, mark)
    BY DEF Contains, FirstAt
  <1> QED BY <1>1, <1>5, <1>6

\* What follows a mark in the first of two parts: the rest of it, and the second.
LEMMA AfterIs ==
  ASSUME NEW T, NEW a \in Seq(T), NEW b \in Seq(T), NEW rest \in Seq(T), NEW mark,
         NEW i, FirstAt(a, mark, i), Len(a) = i + Len(rest),
         \A j \in 1 .. Len(rest) : rest[j] = a[i + j]
  PROVE  Contains(a \o b, mark) /\ After(a \o b, mark) = rest \o b
  <1> DEFINE all == a \o b
             out == rest \o b
  <1>j. Joint(T, a, b, all) /\ Joint(T, rest, b, out)
    BY JointIs, Zenon
  <1> HIDE DEF all
  <1>1. /\ all \in Seq(T) /\ Len(a) \in Nat /\ Len(b) \in Nat /\ Len(all) = Len(a) + Len(b)
        /\ \A k \in 1 .. Len(a) : all[k] = a[k]
        /\ \A k \in 1 .. Len(b) : all[Len(a) + k] = b[k]
    BY <1>j, Zenon DEF Joint
  <1>2. /\ out \in Seq(T) /\ Len(rest) \in Nat /\ Len(out) = Len(rest) + Len(b)
        /\ \A k \in 1 .. Len(rest) : out[k] = rest[k]
        /\ \A k \in 1 .. Len(b) : out[Len(rest) + k] = b[k]
    BY <1>j, Zenon DEF Joint
  <1>3. i \in 1 .. Len(a) /\ i \in Nat
    BY <1>1 DEF FirstAt
  <1>4. FirstAt(all, mark, i)
    BY <1>1, <1>3 DEF FirstAt
  <1>5. Contains(all, mark) /\ After(all, mark) = SubSeq(all, i + 1, Len(all))
    BY <1>1, <1>4, FirstIs
  <1>e. out = [k \in 1 .. Len(out) |-> out[k]]
    <2>1. \A x \in Seq(T) : x = [k \in 1 .. Len(x) |-> x[k]]
      OBVIOUS
    <2> HIDE DEF out
    <2> QED BY <1>2, <2>1
  <1> HIDE DEF out
  <1>6. SubSeq(all, i + 1, Len(all)) = [k \in 1 .. Len(out) |-> all[i + k]]
    BY <1>1, <1>2, <1>3
  <1>7. \A k \in 1 .. Len(out) : all[i + k] = out[k]
    <2> SUFFICES ASSUME NEW k \in 1 .. Len(out) PROVE all[i + k] = out[k]
      OBVIOUS
    <2>1. CASE k <= Len(rest)
      <3>1. k \in 1 .. Len(rest) /\ i + k \in 1 .. Len(a)
        BY <1>2, <1>3, <2>1
      <3> QED BY <1>1, <1>2, <3>1
    <2>2. CASE ~ (k <= Len(rest))
      <3>1. k - Len(rest) \in 1 .. Len(b) /\ i + k = Len(a) + (k - Len(rest))
            /\ k = Len(rest) + (k - Len(rest))
        BY <1>2, <1>3, <2>2
      <3>2. all[Len(a) + (k - Len(rest))] = b[k - Len(rest)]
            /\ out[Len(rest) + (k - Len(rest))] = b[k - Len(rest)]
        BY <1>1, <1>2, <3>1
      <3> QED BY <3>1, <3>2
    <2> QED BY <2>1, <2>2
  <1>8. After(all, mark) = out
    BY <1>5, <1>6, <1>7, <1>e
  <1> QED BY <1>5, <1>8 DEF all, out

\* What begins with something else than a slash keeps what is before the last ones.
LEMMA TrimIs ==
  ASSUME NEW T, NEW s \in Seq(T), NEW k \in 1 .. Len(s), s[1] # "/", s[k] # "/",
         \A j \in 1 .. Len(s) : j > k => s[j] = "/"
  PROVE  TrimSlashes(s) = SubSeq(s, 1, k)
  <1> DEFINE kept == {i \in DOMAIN s : s[i] # "/"}
             first == CHOOSE i \in kept : \A j \in kept : i <= j
             last == CHOOSE i \in kept : \A j \in kept : j <= i
  <1>1. Len(s) \in Nat /\ DOMAIN s = 1 .. Len(s) /\ 1 \in 1 .. Len(s)
    OBVIOUS
  <1>2. 1 \in kept /\ k \in kept /\ kept \subseteq 1 .. Len(s)
    BY <1>1
  <1>3. \A j \in kept : j <= k /\ 1 <= j
    BY <1>1
  <1>4. TrimSlashes(s) = IF kept = {} THEN <<>> ELSE SubSeq(s, first, last)
    BY Zenon DEF TrimSlashes
  <1> HIDE DEF kept
  <1>5. \A i \in kept : (\A j \in kept : i <= j) => i = 1
    BY <1>1, <1>2, <1>3
  <1>6. first = 1
    BY <1>2, <1>3, <1>5
  <1>7. \A i \in kept : (\A j \in kept : j <= i) => i = k
    BY <1>1, <1>2, <1>3
  <1>8. last = k
    BY <1>2, <1>3, <1>7
  <1> HIDE DEF first, last
  <1> QED BY <1>2, <1>4, <1>6, <1>8

\* The path of a repository, and what may follow it.
Repository == <<"o", "/", "r">>
RemoteEnds == { <<>>, <<"/">>, <<".git">>, <<".git", "/">> }

LEMMA MarkIs ==
  /\ "https" \in Mark /\ "://" \in Mark /\ "github" \in Mark /\ "/" \in Mark /\ "o" \in Mark
  /\ "r" \in Mark /\ ".git" \in Mark /\ "git@github" \in Mark /\ ":" \in Mark
  BY DEF Mark

LEMMA RepositoryIs ==
  /\ Repository \in Seq(Mark) /\ Len(Repository) = 3
  /\ Repository[1] = "o" /\ Repository[2] = "/" /\ Repository[3] = "r"
  BY MarkIs DEF Repository

\* A path without its last slash and without .git.
Bare(path) ==
  IF TrimSlashes(path) # <<>> /\ Last(TrimSlashes(path)) = ".git"
    THEN Front(TrimSlashes(path)) ELSE TrimSlashes(path)

LEMMA NotGit ==
  ASSUME NEW tail \in Seq(Mark), TrimSlashes(tail) = Repository
  PROVE  Bare(tail) = Repository
  <1>1. Last(Repository) = "r"
    BY RepositoryIs DEF Last
  <1> QED BY <1>1 DEF Bare

LEMMA Git ==
  ASSUME NEW tail \in Seq(Mark), NEW git \in Seq(Mark), Len(git) = 1, git[1] = ".git",
         TrimSlashes(tail) = Repository \o git
  PROVE  Bare(tail) = Repository
  <1> DEFINE path == Repository \o git
  <1>1. Joint(Mark, Repository, git, path) /\ SubSeq(path, 1, Len(Repository)) = Repository
    BY RepositoryIs, JointIs, Parts
  <1> HIDE DEF path
  <1>2. /\ path \in Seq(Mark) /\ Len(path) = 4 /\ path[4] = ".git"
    <2>1. Len(path) = Len(Repository) + Len(git) /\ path[Len(Repository) + 1] = git[1] /\ path \in Seq(Mark)
      BY <1>1 DEF Joint
    <2> QED BY <2>1, RepositoryIs
  <1>3. Last(path) = ".git" /\ Front(path) = Repository /\ path # <<>>
    <2>1. Last(path) = ".git" /\ path # <<>>
      <3>1. Last(path) = path[4]
        BY <1>2 DEF Last
      <3>2. path # <<>>
        <4>1. Len(<<>>) = 0
          OBVIOUS
        <4>2. path = <<>> => Len(path) = 0
          BY <4>1, Zenon
        <4>3. Len(path) = 4
          BY <1>2
        <4> QED BY <4>2, <4>3
      <3> QED BY <1>2, <3>1, <3>2
    <2>2. Front(path) = SubSeq(path, 1, 3)
      BY <1>2 DEF Front
    <2> QED BY <1>1, <2>1, <2>2, RepositoryIs
  <1> QED BY <1>3 DEF Bare, path

LEMMA SuffixesAreMarks ==
  \A t \in RemoteEnds : t \in Seq(Mark) /\ \A k \in 1 .. Len(t) : t[k] # "://"
  <1>1. \A x, y \in Mark : <<x>> \in Seq(Mark) /\ <<x, y>> \in Seq(Mark) /\ <<>> \in Seq(Mark)
    OBVIOUS
  <1>2. RemoteEnds \subseteq Seq(Mark)
    BY <1>1, MarkIs, Zenon DEF RemoteEnds
  <1>3. ASSUME NEW t \in RemoteEnds PROVE \A k \in 1 .. Len(t) : t[k] # "://"
    BY DEF RemoteEnds
  <1> QED BY <1>2, <1>3

LEMMA BareIs ==
  ASSUME NEW t \in RemoteEnds
  PROVE  Repository \o t \in Seq(Mark) /\ Bare(Repository \o t) = Repository
  <1> DEFINE tail == Repository \o t
  <1>t. t \in Seq(Mark)
    BY SuffixesAreMarks
  <1>j. Joint(Mark, Repository, t, tail) /\ SubSeq(tail, 1, Len(Repository)) = Repository
    BY <1>t, RepositoryIs, JointIs, Parts
  <1> HIDE DEF tail
  <1>1. /\ tail \in Seq(Mark) /\ Len(tail) = 3 + Len(t) /\ Len(t) \in Nat
        /\ tail[1] = "o" /\ tail[3] = "r"
        /\ \A k \in 1 .. Len(t) : tail[3 + k] = t[k]
    BY <1>j, RepositoryIs DEF Joint
  <1>2. SubSeq(tail, 1, 3) = Repository
    BY <1>j, RepositoryIs
  <1>3. CASE t = <<>>
    <2>1. Len(t) = 0
      BY <1>3
    <2>2. TrimSlashes(tail) = SubSeq(tail, 1, 3)
      BY <1>1, <2>1, TrimIs
    <2> QED BY <1>1, <1>2, <2>2, NotGit DEF tail
  <1>4. CASE t = <<"/">>
    <2>1. Len(t) = 1 /\ t[1] = "/"
      BY <1>4
    <2>2. \A j \in 1 .. Len(tail) : j > 3 => tail[j] = "/"
      <3>1. tail[3 + 1] = "/"
        BY <1>1, <2>1
      <3> QED BY <1>1, <2>1, <3>1
    <2>3. TrimSlashes(tail) = SubSeq(tail, 1, 3)
      <3>1. 3 \in 1 .. Len(tail) /\ tail[1] # "/" /\ tail[3] # "/"
        BY <1>1
      <3> QED BY <1>1, <2>2, <3>1, TrimIs
    <2> QED BY <1>1, <1>2, <2>3, NotGit DEF tail
  <1>5. CASE t = <<".git">>
    <2>1. Len(t) = 1 /\ t[1] = ".git"
      BY <1>5
    <2>2. tail[3 + 1] = ".git"
      BY <1>1, <2>1
    <2>3. TrimSlashes(tail) = SubSeq(tail, 1, 4)
      <3>1. 4 \in 1 .. Len(tail) /\ tail[1] # "/" /\ tail[4] # "/" /\ \A j \in 1 .. Len(tail) : ~ (j > 4)
        BY <1>1, <2>1, <2>2
      <3> QED BY <1>1, <3>1, TrimIs
    <2>4. SubSeq(tail, 1, 4) = tail
      <3>1. \A x \in Seq(Mark) : SubSeq(x, 1, Len(x)) = x
        OBVIOUS
      <3> QED BY <1>1, <2>1, <3>1
    <2>5. TrimSlashes(tail) = Repository \o t
      BY <2>3, <2>4 DEF tail
    <2> QED BY <1>1, <1>t, <2>1, <2>5, Git DEF tail
  <1>6. CASE t = <<".git", "/">>
    <2>1. Len(t) = 2 /\ t[1] = ".git" /\ t[2] = "/"
      BY <1>6
    <2>2. tail[3 + 1] = ".git" /\ tail[3 + 2] = "/"
      BY <1>1, <2>1
    <2>3. TrimSlashes(tail) = SubSeq(tail, 1, 4)
      <3>1. \A j \in 1 .. Len(tail) : j > 4 => tail[j] = "/"
        BY <1>1, <2>1, <2>2
      <3>2. 4 \in 1 .. Len(tail) /\ tail[1] # "/" /\ tail[4] # "/"
        BY <1>1, <2>1, <2>2
      <3> QED BY <1>1, <3>1, <3>2, TrimIs
    <2>4. PICK git \in Seq(Mark) : git = <<".git">> /\ Len(git) = 1 /\ git[1] = ".git"
      <3>1. <<".git">> \in Seq(Mark) /\ Len(<<".git">>) = 1 /\ <<".git">>[1] = ".git"
        BY MarkIs
      <3> QED BY <3>1
    <2>5. SubSeq(tail, 1, 4) = Repository \o git
      <3> DEFINE path == Repository \o git
      <3>1. Joint(Mark, Repository, git, path)
        BY RepositoryIs, JointIs, Zenon
      <3> HIDE DEF path
      <3>2. /\ path \in Seq(Mark) /\ Len(path) = 4 /\ path[4] = ".git"
            /\ \A k \in 1 .. 3 : path[k] = Repository[k]
        <4>1. path[Len(Repository) + 1] = git[1]
          BY <2>4, <3>1 DEF Joint
        <4> QED BY <2>4, <3>1, <4>1, RepositoryIs DEF Joint
      <3>3. \A k \in 1 .. 3 : tail[k] = Repository[k]
        BY <1>j, RepositoryIs DEF Joint
      <3>4. \A k \in 1 .. 4 : tail[k] = path[k]
        <4>1. \A k \in 1 .. 4 : k \in 1 .. 3 \/ k = 4
          OBVIOUS
        <4> QED BY <2>2, <3>2, <3>3, <4>1
      <3>5. SubSeq(tail, 1, 4) = [k \in 1 .. 4 |-> tail[k]] /\ path = [k \in 1 .. 4 |-> path[k]]
        BY <1>1, <2>1, <3>2
      <3> QED BY <3>4, <3>5 DEF path
    <2>6. TrimSlashes(tail) = Repository \o git
      BY <2>3, <2>5, Zenon
    <2> QED BY <1>1, <2>4, <2>6, Git DEF tail
  <1> QED BY <1>3, <1>4, <1>5, <1>6 DEF RemoteEnds

\* What follows the host.
UrlTail(url) ==
  IF Contains(url, "://")
    THEN IF Contains(After(url, "://"), "/") THEN After(After(url, "://"), "/") ELSE <<>>
    ELSE IF Contains(url, ":") THEN After(url, ":") ELSE <<>>

LEMMA ParsedIs ==
  ASSUME NEW url
  PROVE  parse_owner_repo(url)
           = LET bare == Bare(UrlTail(url))
             IN  IF /\ Contains(bare, "/") /\ Before(bare, "/") # <<>> /\ After(bare, "/") # <<>>
                    /\ ~ Contains(After(bare, "/"), "/")
                   THEN {<<Before(bare, "/"), After(bare, "/")>>} ELSE {}
  BY Zenon DEF parse_owner_repo, Bare, UrlTail

LEMMA RepositoryIsRead ==
  ASSUME NEW url, Bare(UrlTail(url)) = Repository
  PROVE  parse_owner_repo(url) = {<< <<"o">>, <<"r">> >>}
  <1>1. FirstAt(Repository, "/", 2)
    BY RepositoryIs DEF FirstAt
  <1>2. /\ Contains(Repository, "/")
        /\ Before(Repository, "/") = SubSeq(Repository, 1, 1)
        /\ After(Repository, "/") = SubSeq(Repository, 3, 3)
    <2>1. /\ Contains(Repository, "/")
          /\ Before(Repository, "/") = SubSeq(Repository, 1, 2 - 1)
          /\ After(Repository, "/") = SubSeq(Repository, 2 + 1, Len(Repository))
      BY <1>1, RepositoryIs, FirstIs
    <2> QED BY <2>1, RepositoryIs
  <1>3. SubSeq(Repository, 1, 1) = <<"o">> /\ SubSeq(Repository, 3, 3) = <<"r">>
    <2>1. ASSUME NEW s \in Seq(Mark), NEW i \in 1 .. Len(s) PROVE SubSeq(s, i, i) = <<s[i]>>
      <3>1. SubSeq(s, i, i) = [k \in 1 .. 1 |-> s[i + k - 1]]
        OBVIOUS
      <3>2. \A k \in 1 .. 1 : k = 1 /\ i + k - 1 = i
        OBVIOUS
      <3>3. <<s[i]>> = [k \in 1 .. 1 |-> s[i]]
        OBVIOUS
      <3> QED BY <3>1, <3>2, <3>3
    <2>2. 1 \in 1 .. Len(Repository) /\ 3 \in 1 .. Len(Repository)
      BY RepositoryIs
    <2> QED BY <2>1, <2>2, RepositoryIs
  <1>4. ~ Contains(<<"r">>, "/") /\ <<"o">> # <<>> /\ <<"r">> # <<>>
    BY DEF Contains
  <1> QED BY <1>2, <1>3, <1>4, ParsedIs, Zenon

\* Both forms of a remote.
LEMMA HttpsTail ==
  ASSUME NEW tail \in Seq(Mark)
  PROVE  UrlTail(<<"https", "://", "github", "/">> \o tail) = tail
  <1> DEFINE url == <<"https", "://", "github", "/">> \o tail
  <1>1. PICK a \in Seq(Mark) : /\ a = <<"https", "://", "github", "/">> /\ Len(a) = 4
                              /\ a[1] = "https" /\ a[2] = "://" /\ a[3] = "github" /\ a[4] = "/"
    <2> DEFINE a == <<"https", "://", "github", "/">>
    <2>1. /\ a \in Seq(Mark) /\ Len(a) = 4
          /\ a[1] = "https" /\ a[2] = "://" /\ a[3] = "github" /\ a[4] = "/"
      BY MarkIs
    <2> QED BY <2>1
  <1>2. PICK b \in Seq(Mark) : b = <<"github", "/">> /\ Len(b) = 2 /\ b[1] = "github" /\ b[2] = "/"
    <2> DEFINE b == <<"github", "/">>
    <2>1. b \in Seq(Mark) /\ Len(b) = 2 /\ b[1] = "github" /\ b[2] = "/"
      BY MarkIs
    <2> QED BY <2>1
  <1>3. PICK none \in Seq(Mark) : none = <<>> /\ Len(none) = 0 /\ none \o tail = tail
    <2>1. <<>> \in Seq(Mark) /\ Len(<<>>) = 0 /\ <<>> \o tail = tail
      OBVIOUS
    <2> QED BY <2>1, Zenon
  <1>4. Contains(a \o tail, "://") /\ After(a \o tail, "://") = b \o tail
    <2>1. FirstAt(a, "://", 2)
      BY <1>1 DEF FirstAt
    <2>2. Len(a) = 2 + Len(b) /\ \A j \in 1 .. Len(b) : b[j] = a[2 + j]
      BY <1>1, <1>2
    <2> QED BY <2>1, <2>2, AfterIs
  <1>5. Contains(b \o tail, "/") /\ After(b \o tail, "/") = none \o tail
    <2>1. FirstAt(b, "/", 2)
      BY <1>2 DEF FirstAt
    <2>2. Len(b) = 2 + Len(none) /\ \A j \in 1 .. Len(none) : none[j] = b[2 + j]
      BY <1>2, <1>3
    <2> QED BY <2>1, <2>2, AfterIs
  <1>6. UrlTail(a \o tail) = tail
    BY <1>3, <1>4, <1>5, Zenon DEF UrlTail
  <1> QED BY <1>1, <1>6, Zenon

LEMMA ScpTail ==
  ASSUME NEW tail \in Seq(Mark), \A k \in 1 .. Len(tail) : tail[k] # "://"
  PROVE  UrlTail(<<"git@github", ":">> \o tail) = tail
  <1>1. PICK a \in Seq(Mark) : a = <<"git@github", ":">> /\ Len(a) = 2 /\ a[1] = "git@github" /\ a[2] = ":"
    <2> DEFINE a == <<"git@github", ":">>
    <2>1. a \in Seq(Mark) /\ Len(a) = 2 /\ a[1] = "git@github" /\ a[2] = ":"
      BY MarkIs
    <2> QED BY <2>1
  <1>2. PICK none \in Seq(Mark) : none = <<>> /\ Len(none) = 0 /\ none \o tail = tail
    <2>1. <<>> \in Seq(Mark) /\ Len(<<>>) = 0 /\ <<>> \o tail = tail
      OBVIOUS
    <2> QED BY <2>1, Zenon
  <1>3. Contains(a \o tail, ":") /\ After(a \o tail, ":") = none \o tail
    <2>1. FirstAt(a, ":", 2)
      BY <1>1 DEF FirstAt
    <2>2. Len(a) = 2 + Len(none) /\ \A j \in 1 .. Len(none) : none[j] = a[2 + j]
      BY <1>1, <1>2
    <2> QED BY <2>1, <2>2, AfterIs
  <1>4. ~ Contains(a \o tail, "://")
    <2> DEFINE all == a \o tail
    <2>1. Joint(Mark, a, tail, all)
      BY JointIs, Zenon
    <2> HIDE DEF all
    <2>2. ASSUME NEW i \in 1 .. Len(all) PROVE all[i] # "://"
      <3>1. CASE i = 1
        BY <1>1, <2>1, <3>1 DEF Joint
      <3>2. CASE i = 2
        BY <1>1, <2>1, <3>2 DEF Joint
      <3>3. CASE i > 2
        <4>1. i - 2 \in 1 .. Len(tail) /\ i = Len(a) + (i - 2)
          BY <1>1, <2>1, <3>3 DEF Joint
        <4>2. all[Len(a) + (i - 2)] = tail[i - 2]
          BY <2>1, <4>1 DEF Joint
        <4> QED BY <4>1, <4>2
      <3> QED BY <2>1, <3>1, <3>2, <3>3 DEF Joint
    <2> QED BY <2>2 DEF Contains, all
  <1>5. UrlTail(a \o tail) = tail
    BY <1>2, <1>3, <1>4, Zenon DEF UrlTail
  <1> QED BY <1>1, <1>5, Zenon

\* A pull request goes to the GitHub repository that was pushed to, whichever form its
\* remote has, with .git and a last slash or without; a bare path names none
\* (parse_owner_repo, for_remote).
THEOREM PrsGoWherePushed == PrGoesWherePushed
  <1> DEFINE tails == {Repository \o t : t \in RemoteEnds}
             remotes == {<<"https", "://", "github", "/">> \o t : t \in tails}
                        \cup {<<"git@github", ":">> \o t : t \in tails}
  <1>1. ASSUME NEW tail \in tails
        PROVE  tail \in Seq(Mark) /\ Bare(tail) = Repository
    BY BareIs
  <1>2. ASSUME NEW tail \in tails PROVE \A k \in 1 .. Len(tail) : tail[k] # "://"
    <2>1. PICK t \in RemoteEnds : tail = Repository \o t
      OBVIOUS
    <2>2. t \in Seq(Mark) /\ \A k \in 1 .. Len(t) : t[k] # "://"
      BY SuffixesAreMarks
    <2>3. Joint(Mark, Repository, t, tail)
      BY <2>1, <2>2, RepositoryIs, JointIs
    <2>4. \A k \in 1 .. 3 : Repository[k] # "://"
      BY RepositoryIs
    <2> SUFFICES ASSUME NEW k \in 1 .. Len(tail) PROVE tail[k] # "://"
      OBVIOUS
    <2> HIDE DEF tails
    <2>5. CASE k <= 3
      <3>1. k \in 1 .. Len(Repository) /\ k \in 1 .. 3
        BY <2>5, RepositoryIs
      <3> QED BY <2>3, <2>4, <3>1 DEF Joint
    <2>6. CASE k > 3
      <3>1. k - 3 \in 1 .. Len(t) /\ k = Len(Repository) + (k - 3)
        BY <2>3, <2>6, RepositoryIs DEF Joint
      <3>2. tail[Len(Repository) + (k - 3)] = t[k - 3]
        BY <2>3, <3>1 DEF Joint
      <3> QED BY <2>2, <3>1, <3>2
    <2> QED BY <2>5, <2>6
  <1> HIDE DEF tails
  <1>3. \A url \in remotes : for_remote(url, {}) = {<< <<"o">>, <<"r">> >>}
    <2>1. ASSUME NEW url, parse_owner_repo(url) = {<< <<"o">>, <<"r">> >>}
          PROVE  for_remote(url, {}) = {<< <<"o">>, <<"r">> >>}
      BY <2>1 DEF for_remote
    <2>2. ASSUME NEW tail \in tails
          PROVE  for_remote(<<"https", "://", "github", "/">> \o tail, {}) = {<< <<"o">>, <<"r">> >>}
      BY <1>1, <2>1, HttpsTail, RepositoryIsRead, Zenon
    <2>3. ASSUME NEW tail \in tails
          PROVE  for_remote(<<"git@github", ":">> \o tail, {}) = {<< <<"o">>, <<"r">> >>}
      BY <1>1, <1>2, <2>1, ScpTail, RepositoryIsRead, Zenon
    <2> QED BY <2>2, <2>3
  <1>4. parse_owner_repo(<<"/", "o", "/", "r", ".git">>) = {}
    <2> DEFINE url == <<"/", "o", "/", "r", ".git">>
    <2>1. ~ Contains(url, "://") /\ ~ Contains(url, ":")
      BY DEF Contains
    <2>2. UrlTail(url) = <<>>
      BY <2>1, Zenon DEF UrlTail
    <2> HIDE DEF url
    <2>3. TrimSlashes(<<>>) = <<>>
      BY DEF TrimSlashes
    <2>4. Bare(UrlTail(url)) = <<>>
      BY <2>2, <2>3, Zenon DEF Bare
    <2>5. ~ Contains(<<>>, "/")
      BY DEF Contains
    <2>6. parse_owner_repo(url) = {}
      BY <2>4, <2>5, ParsedIs, Zenon
    <2> QED BY <2>6 DEF url
  <1> QED BY <1>3, <1>4, Zenon DEF PrGoesWherePushed, remotes, tails, Repository, RemoteEnds

-----------------------------------------------------------------------------
(* Where the orchestrator keeps its books. *)

\* The names on the way to them.
Directory == {"srv", "repo", ".workspace", "mine", ".orchestrator", ".crosslink", "src",
              "state.db", "lost"}

LEMMA AppendTells ==
  ASSUME NEW T, NEW p \in Seq(T), NEW q \in Seq(T), NEW d \in T, NEW e \in T
  PROVE  /\ Append(p, d) = Append(q, e) => p = q /\ d = e
         /\ Append(p, d) \in Seq(T) /\ Len(Append(p, d)) = Len(p) + 1
         /\ Front(Append(p, d)) = p
  <1> DEFINE a == Append(p, d)
             b == Append(q, e)
  <1>1. /\ a \in Seq(T) /\ Len(p) \in Nat /\ Len(a) = Len(p) + 1 /\ a[Len(p) + 1] = d
        /\ \A k \in 1 .. Len(p) : a[k] = p[k]
    OBVIOUS
  <1>2. /\ b \in Seq(T) /\ Len(q) \in Nat /\ Len(b) = Len(q) + 1 /\ b[Len(q) + 1] = e
        /\ \A k \in 1 .. Len(q) : b[k] = q[k]
    OBVIOUS
  <1>p. p = [k \in 1 .. Len(p) |-> p[k]] /\ q = [k \in 1 .. Len(q) |-> q[k]]
    OBVIOUS
  <1> HIDE DEF a, b
  <1>3. ASSUME a = b PROVE p = q /\ d = e
    <2>1. Len(p) = Len(q)
      BY <1>1, <1>2, <1>3
    <2>2. d = e
      BY <1>1, <1>2, <1>3, <2>1
    <2>3. \A k \in 1 .. Len(p) : p[k] = q[k]
      BY <1>1, <1>2, <1>3, <2>1
    <2>4. p = q
      BY <1>p, <2>1, <2>3
    <2> QED BY <2>2, <2>4
  <1>4. Front(a) = p
    <2>1. Front(a) = [k \in 1 .. Len(p) |-> a[k]]
      BY <1>1 DEF Front
    <2> QED BY <1>1, <1>p, <2>1
  <1> QED BY <1>1, <1>3, <1>4 DEF a, b

\* The directories above one are its prefixes.
LEMMA AncestorsArePrefixes ==
  ASSUME NEW T, NEW p \in Seq(T), NEW cwd \in Seq(T)
  PROVE  p \in ancestors(cwd) <=> IsPrefix(p, cwd)
  <1>1. /\ Len(p) \in Nat /\ Len(cwd) \in Nat
        /\ SubSeq(p, 1, Len(p)) = p
    OBVIOUS
  <1>2. ASSUME NEW n \in 0 .. Len(cwd), p = SubSeq(cwd, 1, n) PROVE IsPrefix(p, cwd)
    <2>1. Len(SubSeq(cwd, 1, n)) = n
      OBVIOUS
    <2>2. Len(p) = n
      BY <1>2, <2>1
    <2> QED BY <1>1, <1>2, <2>2 DEF IsPrefix
  <1>3. ASSUME IsPrefix(p, cwd) PROVE \E n \in 0 .. Len(cwd) : p = SubSeq(cwd, 1, n)
    <2>1. Len(p) <= Len(cwd) /\ SubSeq(p, 1, Len(p)) = SubSeq(cwd, 1, Len(p))
      BY <1>3 DEF IsPrefix
    <2>2. Len(p) \in 0 .. Len(cwd) /\ p = SubSeq(cwd, 1, Len(p))
      BY <1>1, <2>1
    <2> QED BY <2>2
  <1> QED BY <1>2, <1>3 DEF ancestors

\* What a command started in cwd may take for the orchestrator's directory: the
\* one of the repository, and the one a workspace holds a copy of.
LEMMA CandidatesAre ==
  ASSUME NEW T, ".orchestrator" \in T, ".crosslink" \in T,
         NEW repo \in Seq(T), NEW mine \in Seq(T), NEW cwd \in Seq(T),
         NEW copies \in SUBSET {orchestrator_dir(mine), Append(mine, ".crosslink")},
         NEW p \in Seq(T)
  PROVE  orchestrator_dir(p) \in {orchestrator_dir(repo), Append(repo, ".crosslink")} \cup copies
           <=> p = repo \/ (p = mine /\ orchestrator_dir(mine) \in copies)
  <1>1. ASSUME NEW q \in Seq(T)
        PROVE  /\ Append(p, ".orchestrator") = Append(q, ".orchestrator") => p = q
               /\ Append(p, ".orchestrator") # Append(q, ".crosslink")
    <2>1. ".orchestrator" # ".crosslink"
      OBVIOUS
    <2>2. /\ Append(p, ".orchestrator") = Append(q, ".orchestrator") => p = q
          /\ Append(p, ".orchestrator") = Append(q, ".crosslink") => ".orchestrator" = ".crosslink"
      <3>1. \A d, e \in T : Append(p, d) = Append(q, e) => p = q /\ d = e
        BY AppendTells
      <3> QED BY <3>1
    <2> QED BY <2>1, <2>2
  <1>2. \A q \in {repo, mine} : orchestrator_dir(p) = orchestrator_dir(q) <=> p = q
    BY <1>1 DEF orchestrator_dir
  <1>3. \A q \in {repo, mine} : orchestrator_dir(p) # Append(q, ".crosslink")
    BY <1>1 DEF orchestrator_dir
  <1> QED BY <1>2, <1>3, Zenon

\* The nearest one is the repository's unless one is in a workspace that has a copy.
LEMMA NearestIs ==
  ASSUME NEW T, ".orchestrator" \in T, ".crosslink" \in T,
         NEW repo \in Seq(T), NEW mine \in Seq(T), NEW cwd \in Seq(T), Len(repo) < Len(mine),
         NEW copies \in SUBSET {orchestrator_dir(mine), Append(mine, ".crosslink")},
         NEW dirs, dirs = {orchestrator_dir(repo), Append(repo, ".crosslink")} \cup copies
  PROVE  resolve_orchestrator_dir(Unset, cwd, dirs)
           = IF IsPrefix(mine, cwd) /\ orchestrator_dir(mine) \in copies
               THEN {orchestrator_dir(mine)}
             ELSE IF IsPrefix(repo, cwd) THEN {orchestrator_dir(repo)} ELSE {}
  <1> DEFINE candidates == {orchestrator_dir(p) : p \in ancestors(cwd)} \cap dirs
             copied == IsPrefix(mine, cwd) /\ orchestrator_dir(mine) \in copies
  <1>1. resolve_orchestrator_dir(Unset, cwd, dirs)
          = {c \in candidates : \A other \in candidates : Len(other) <= Len(c)}
    BY Zenon DEF resolve_orchestrator_dir
  <1>2. ancestors(cwd) \subseteq Seq(T)
    <2>1. \A n \in 0 .. Len(cwd) : SubSeq(cwd, 1, n) \in Seq(T)
      OBVIOUS
    <2> QED BY <2>1 DEF ancestors
  <1>3. \A p \in ancestors(cwd) : IsPrefix(p, cwd)
    BY <1>2, AncestorsArePrefixes
  <1>4. \A p \in ancestors(cwd) :
           orchestrator_dir(p) \in dirs => p = repo \/ (p = mine /\ orchestrator_dir(mine) \in copies)
    BY <1>2, CandidatesAre, Zenon
  <1>5. \A c \in candidates : \/ c = orchestrator_dir(repo) /\ IsPrefix(repo, cwd)
                              \/ c = orchestrator_dir(mine) /\ copied
    BY <1>3, <1>4
  <1>6. IsPrefix(repo, cwd) => orchestrator_dir(repo) \in candidates
    BY AncestorsArePrefixes
  <1>7. copied => orchestrator_dir(mine) \in candidates
    BY AncestorsArePrefixes
  <1>8. /\ Len(orchestrator_dir(repo)) = Len(repo) + 1 /\ Len(orchestrator_dir(mine)) = Len(mine) + 1
        /\ Len(repo) \in Nat /\ Len(mine) \in Nat
    BY AppendTells DEF orchestrator_dir
  <1> HIDE DEF candidates
  <1>9. CASE copied
    <2>1. orchestrator_dir(mine) \in candidates
      BY <1>7, <1>9
    <2>2. \A c \in candidates : Len(c) <= Len(orchestrator_dir(mine))
      BY <1>5, <1>8
    <2>3. ~ (Len(orchestrator_dir(mine)) <= Len(orchestrator_dir(repo)))
      BY <1>8
    <2>4. {c \in candidates : \A other \in candidates : Len(other) <= Len(c)} = {orchestrator_dir(mine)}
      BY <1>5, <2>1, <2>2, <2>3
    <2> QED BY <1>1, <1>9, <2>4
  <1>a. CASE ~ copied
    <2>1. \A c \in candidates : c = orchestrator_dir(repo) /\ IsPrefix(repo, cwd)
      BY <1>5, <1>a
    <2>2. Len(orchestrator_dir(repo)) <= Len(orchestrator_dir(repo))
      BY <1>8
    <2>3. {c \in candidates : \A other \in candidates : Len(other) <= Len(c)}
            = IF IsPrefix(repo, cwd) THEN {orchestrator_dir(repo)} ELSE {}
      BY <1>6, <2>1, <2>2
    <2> QED BY <1>1, <1>a, <2>3
  <1> QED BY <1>9, <1>a

\* Only the running orchestrator's own directory has its state.db, and the
\* tracker is next to it.
Resolved(resolved, repo, at) ==
    resolved \in {{}, {orchestrator_dir(repo)}, {orchestrator_dir(at)}}
BooksIn(resolved, repo) ==
    UNION {open_state(dir, {Append(orchestrator_dir(repo), "state.db")}) : dir \in resolved}
TrackersIn(resolved, repo, dirs) ==
    \A dir \in resolved : open_crosslink(dir, dirs) = {Append(repo, ".crosslink")}

LEMMA ReadFrom ==
  ASSUME NEW repo \in Seq(Directory), NEW at \in Seq(Directory),
         NEW dirs, NEW resolved,
         Resolved(resolved, repo, at),
         Append(repo, ".crosslink") \in dirs, at # repo
  PROVE  /\ BooksIn(resolved, repo) # {} <=> resolved = {orchestrator_dir(repo)}
         /\ BooksIn(resolved, repo) # {} => TrackersIn(resolved, repo, dirs)
  <1> DEFINE read == BooksIn(resolved, repo)
             books == orchestrator_dir(repo)
             other == orchestrator_dir(at)
  <1>1. /\ books \in Seq(Directory) /\ other \in Seq(Directory) /\ books # other /\ Front(books) = repo
        /\ Append(books, "state.db") # Append(other, "state.db")
    <2>1. /\ \A p \in Seq(Directory), q \in Seq(Directory), d \in Directory, e \in Directory : Append(p, d) = Append(q, e) => p = q
          /\ \A p \in Seq(Directory), d \in Directory : Append(p, d) \in Seq(Directory) /\ Front(Append(p, d)) = p
      BY AppendTells
    <2>2. ".orchestrator" \in Directory /\ "state.db" \in Directory
      BY DEF Directory
    <2> QED BY <2>1, <2>2 DEF orchestrator_dir
  <1> HIDE DEF other
  <1>2. /\ open_state(books, {Append(books, "state.db")}) = {Append(books, "state.db")}
        /\ open_state(other, {Append(books, "state.db")}) = {}
    BY <1>1 DEF open_state
  <1>3. \A x : x \in read <=> \E dir \in resolved : x \in open_state(dir, {Append(books, "state.db")})
    BY DEF BooksIn
  <1> HIDE DEF books, read
  <1>4. resolved \in {{}, {books}, {other}}
    BY DEF books, other, Resolved
  <1>5. read # {} <=> resolved = {books}
    BY <1>1, <1>2, <1>3, <1>4
  <1>6. open_crosslink(books, dirs) = {Append(repo, ".crosslink")}
    BY <1>1 DEF open_crosslink
  <1>7. read # {} => TrackersIn(resolved, repo, dirs)
    BY <1>5, <1>6 DEF TrackersIn
  <1> QED BY <1>5, <1>7, Zenon DEF books, read

\* From anywhere in the repository a query command reads the running orchestrator's
\* state.db and its tracker, but from a workspace that holds a copy of the
\* directory it finds none (resolve_orchestrator_dir, open_state, open_crosslink).
THEOREM BooksAreFound == CommandsFindTheBooks
  <1> DEFINE repo == <<"srv", "repo">>
             mine == Workspace(repo)
             books == orchestrator_dir(repo)
             lost == Append(repo, "lost")
             cwds == {repo, Append(repo, "src"), mine, Append(mine, "src"), Front(repo)}
  <1>1. \A d \in {"srv", "repo", ".workspace", "mine", ".orchestrator", ".crosslink", "src",
                  "state.db", "lost"} : d \in Directory
    BY DEF Directory
  <1>2. repo \in Seq(Directory) /\ mine \in Seq(Directory) /\ Len(repo) = 2 /\ Len(mine) = 4
    <2>1. repo \in Seq(Directory) /\ Len(repo) = 2
      BY <1>1
    <2> HIDE DEF repo
    <2>2. mine \in Seq(Directory) /\ Len(mine) = Len(repo) + 2
      <3>1. ".workspace" \in Directory /\ "mine" \in Directory
        BY <1>1
      <3>2. mine \in Seq(Directory)
        BY <2>1, <3>1, IntoTwice, Zenon DEF Workspace
      <3>3. \A root \in Seq(Directory), d, e \in Directory : Len(root \o <<d, e>>) = Len(root) + 2
        <4> SUFFICES ASSUME NEW root \in Seq(Directory), NEW d \in Directory, NEW e \in Directory
                     PROVE  Len(root \o <<d, e>>) = Len(root) + 2
          OBVIOUS
        <4> QED BY IntoTwice
      <3>4. mine = repo \o <<".workspace", "mine">>
        BY Zenon DEF Workspace
      <3> QED BY <2>1, <3>1, <3>2, <3>3, <3>4
    <2> QED BY <2>1, <2>2
  <1>3. Front(repo) \in Seq(Directory)
    <2> HIDE DEF repo
    <2>1. Front(repo) = SubSeq(repo, 1, 1)
      BY <1>2 DEF Front
    <2>2. \A s \in Seq(Directory) : \A n \in 0 .. Len(s) : SubSeq(s, 1, n) \in Seq(Directory)
      OBVIOUS
    <2>3. 1 \in 0 .. Len(repo)
      BY <1>2
    <2> QED BY <1>2, <2>1, <2>2, <2>3
  <1> HIDE DEF repo, mine
  <1>4. \A cwd \in cwds : cwd \in Seq(Directory)
    <2>1. Append(repo, "src") \in Seq(Directory) /\ Append(mine, "src") \in Seq(Directory)
      BY <1>1, <1>2
    <2> QED BY <1>2, <1>3, <2>1, Zenon
  <1>5. books # Unset /\ lost # Unset /\ lost # books /\ repo # mine
    <2>1. Append(repo, ".orchestrator") # <<>> /\ Append(repo, "lost") # <<>>
      BY <1>1, <1>2
    <2>2. \A d, e \in Directory : Append(repo, d) = Append(repo, e) => d = e
      BY <1>2, AppendTells
    <2>3. Append(repo, ".orchestrator") # Append(repo, "lost")
      BY <1>1, <2>2
    <2>4. repo # mine
      <3>1. repo = mine => Len(repo) = Len(mine)
        BY Zenon
      <3> QED BY <1>2, <3>1
    <2> QED BY <2>1, <2>3, <2>4, Zenon DEF orchestrator_dir, Unset
  <1> HIDE DEF cwds
  <1>6. ASSUME NEW copies \in SUBSET {orchestrator_dir(mine), Append(mine, ".crosslink")},
               NEW cwd \in cwds, NEW override \in {Unset, books, lost},
               NEW dirs, dirs = {books, Append(repo, ".crosslink")} \cup copies
        PROVE  /\ BooksIn(resolve_orchestrator_dir(override, cwd, dirs), repo) # {}
                    <=> \/ override = books
                        \/ /\ override = Unset /\ IsPrefix(repo, cwd)
                           /\ ~ (orchestrator_dir(mine) \in copies /\ IsPrefix(mine, cwd))
               /\ BooksIn(resolve_orchestrator_dir(override, cwd, dirs), repo) # {}
                    => TrackersIn(resolve_orchestrator_dir(override, cwd, dirs), repo, dirs)
    <2> DEFINE copied == orchestrator_dir(mine) \in copies /\ IsPrefix(mine, cwd)
               resolved == resolve_orchestrator_dir(override, cwd, dirs)
    <2>1. /\ override = books => resolved = {books}
          /\ override = lost => resolved = {}
          /\ override = Unset => resolved = IF copied THEN {orchestrator_dir(mine)}
                                           ELSE IF IsPrefix(repo, cwd) THEN {books} ELSE {}
      <3>1. override = books => resolved = {books}
        BY <1>5, <1>6 DEF resolve_orchestrator_dir
      <3>2. override = lost => resolved = {}
        <4>1. lost \notin dirs
          <5>1. \A p \in Seq(Directory), q \in Seq(Directory), d \in Directory, e \in Directory : Append(p, d) = Append(q, e) => d = e
            BY AppendTells
          <5>2. lost # Append(repo, ".crosslink") /\ lost # orchestrator_dir(mine)
                /\ lost # Append(mine, ".crosslink")
            BY <1>1, <1>2, <5>1 DEF orchestrator_dir
          <5> HIDE DEF lost, books
          <5> QED BY <1>5, <1>6, <5>2
        <4> QED BY <1>5, <4>1 DEF resolve_orchestrator_dir
      <3>3. override = Unset => resolved = IF copied THEN {orchestrator_dir(mine)}
                                           ELSE IF IsPrefix(repo, cwd) THEN {books} ELSE {}
        <4>1. /\ ".orchestrator" \in Directory /\ ".crosslink" \in Directory /\ cwd \in Seq(Directory)
              /\ Len(repo) < Len(mine) /\ repo \in Seq(Directory) /\ mine \in Seq(Directory)
          BY <1>1, <1>2, <1>4
        <4>2. resolve_orchestrator_dir(Unset, cwd, dirs)
                = IF IsPrefix(mine, cwd) /\ orchestrator_dir(mine) \in copies
                    THEN {orchestrator_dir(mine)}
                  ELSE IF IsPrefix(repo, cwd) THEN {orchestrator_dir(repo)} ELSE {}
          BY <1>6, <4>1, NearestIs, Zenon
        <4> QED BY <1>6, <4>2, Zenon
      <3> QED BY <3>1, <3>2, <3>3
    <2>2. orchestrator_dir(mine) # books
      <3>1. \A p \in Seq(Directory), q \in Seq(Directory), d \in Directory, e \in Directory : Append(p, d) = Append(q, e) => p = q
        BY AppendTells
      <3> QED BY <1>1, <1>2, <1>5, <3>1 DEF orchestrator_dir
    <2> HIDE DEF resolved, lost
    <2>3. resolved \in {{}, {books}, {orchestrator_dir(mine)}}
      BY <2>1, <1>6
    <2>4. /\ BooksIn(resolved, repo) # {} <=> resolved = {books}
          /\ BooksIn(resolved, repo) # {} => TrackersIn(resolved, repo, dirs)
      <3>1. Append(repo, ".crosslink") \in dirs
        BY <1>6
      <3>3. mine # repo
        BY <1>5
      <3>2. Resolved(resolved, repo, mine)
        BY <2>3, Zenon DEF Resolved
      <3> HIDE DEF copied
      <3> QED BY <3>2, <1>2, <2>3, <3>1, <3>3, ReadFrom
    <2>5. resolved = {books} <=> \/ override = books
                                 \/ override = Unset /\ IsPrefix(repo, cwd) /\ ~ copied
      <3> HIDE DEF books, copied
      <3>1. {orchestrator_dir(mine)} # {books} /\ {} # {books}
        BY <2>2
      <3>2. CASE override = books
        BY <2>1, <3>2
      <3>3. CASE override = lost
        BY <1>5, <2>1, <3>1, <3>3
      <3>4. CASE override = Unset
        BY <1>5, <2>1, <3>1, <3>4
      <3> QED BY <1>6, <3>2, <3>3, <3>4
    <2> QED BY <2>4, <2>5, Zenon DEF resolved
  <1> HIDE DEF lost, books
  <1> SUFFICES ASSUME NEW copies \in SUBSET {orchestrator_dir(mine), Append(mine, ".crosslink")},
                      NEW cwd \in cwds, NEW override \in {Unset, books, lost}
               PROVE  LET dirs == {books, Append(repo, ".crosslink")} \cup copies
                          read == UNION {open_state(dir, {Append(books, "state.db")}) :
                                           dir \in resolve_orchestrator_dir(override, cwd, dirs)}
                          copied == orchestrator_dir(mine) \in copies /\ IsPrefix(mine, cwd)
                      IN  /\ read # {} <=> \/ override = books
                                           \/ override = Unset /\ IsPrefix(repo, cwd) /\ ~copied
                          /\ read # {} => \A dir \in resolve_orchestrator_dir(override, cwd, dirs) :
                                open_crosslink(dir, dirs) = {Append(repo, ".crosslink")}
    BY Zenon DEF CommandsFindTheBooks, cwds, books, lost, repo, mine
  <1> DEFINE dirs == {books, Append(repo, ".crosslink")} \cup copies
             resolved == resolve_orchestrator_dir(override, cwd, dirs)
  <1>7. /\ BooksIn(resolved, repo) # {}
              <=> \/ override = books
                  \/ /\ override = Unset /\ IsPrefix(repo, cwd)
                     /\ ~ (orchestrator_dir(mine) \in copies /\ IsPrefix(mine, cwd))
        /\ BooksIn(resolved, repo) # {} => TrackersIn(resolved, repo, dirs)
    BY <1>6, Zenon
  <1> QED BY <1>7, Zenon DEF BooksIn, TrackersIn, books

\* For every raw id, title and cap: a workspace's name is read back from its directory
\* (WorkspaceName::parse) and matches its issue alone, panes are found and told apart
\* (extract_pane_id, PaneName), branches differ (branch_name), pull requests go where
\* was pushed (parse_owner_repo), and query commands find the orchestrator's books
\* (resolve_orchestrator_dir).
THEOREM NamesRoundTrips == Spec => []NamesRoundTrip
  <1>1. (stage = "recovered" => NamesAreReadBack) => NamesRoundTrip
    BY PanesAreFound, BooksAreFound, BranchesAreApart, PrsGoWherePushed DEF NamesRoundTrip
  <1> QED BY <1>1, NamesComeBack, PTL

-----------------------------------------------------------------------------
(* What a shell reads. *)

\* The characters that quoting adds, or that end a word.
Quot == "'"
Back == "\\"
Gap == " "
Special == {Quot, Back, Gap}

\* The shell's state: between words or within one, in quotes, or after a backslash.
Sh(mode, word, open, words) == [mode |-> mode, word |-> word, open |-> open, words |-> words]
ShState(C) ==
  [mode : {"plain", "quote", "escape"}, word : Seq(C), open : BOOLEAN, words : Seq(Seq(C))]

LEMMA ShReadIs ==
  ASSUME NEW w, NEW o, NEW ws, NEW c
  PROVE  /\ ShRead(Sh("escape", w, o, ws), c) = Sh("plain", Append(w, c), o, ws)
         /\ ShRead(Sh("quote", w, o, ws), Quot) = Sh("plain", w, o, ws)
         /\ c # Quot => ShRead(Sh("quote", w, o, ws), c) = Sh("quote", Append(w, c), o, ws)
         /\ ShRead(Sh("plain", w, o, ws), Quot) = Sh("quote", w, TRUE, ws)
         /\ ShRead(Sh("plain", w, o, ws), Back) = Sh("escape", w, TRUE, ws)
         /\ ShRead(Sh("plain", w, TRUE, ws), Gap) = Sh("plain", <<>>, FALSE, Append(ws, w))
         /\ ShRead(Sh("plain", w, FALSE, ws), Gap) = Sh("plain", w, FALSE, ws)
         /\ c \notin Special => ShRead(Sh("plain", w, o, ws), c) = Sh("plain", Append(w, c), TRUE, ws)
  <1>1. ShRead(Sh("escape", w, o, ws), c) = Sh("plain", Append(w, c), o, ws)
    BY DEF ShRead, Sh, ShStart, Special, Quot, Back, Gap
  <1>2. ShRead(Sh("quote", w, o, ws), Quot) = Sh("plain", w, o, ws)
    BY DEF ShRead, Sh, ShStart, Special, Quot, Back, Gap
  <1>3. c # Quot => ShRead(Sh("quote", w, o, ws), c) = Sh("quote", Append(w, c), o, ws)
    BY DEF ShRead, Sh, ShStart, Special, Quot, Back, Gap
  <1>4. ShRead(Sh("plain", w, o, ws), Quot) = Sh("quote", w, TRUE, ws)
    BY DEF ShRead, Sh, ShStart, Special, Quot, Back, Gap
  <1>5. ShRead(Sh("plain", w, o, ws), Back) = Sh("escape", w, TRUE, ws)
    BY DEF ShRead, Sh, ShStart, Special, Quot, Back, Gap
  <1>6. ShRead(Sh("plain", w, TRUE, ws), Gap) = Sh("plain", <<>>, FALSE, Append(ws, w))
    BY DEF ShRead, Sh, ShStart, Special, Quot, Back, Gap
  <1>7. ShRead(Sh("plain", w, FALSE, ws), Gap) = Sh("plain", w, FALSE, ws)
    BY DEF ShRead, Sh, ShStart, Special, Quot, Back, Gap
  <1>8. c \notin Special =>
          ShRead(Sh("plain", w, o, ws), c) = Sh("plain", Append(w, c), TRUE, ws)
    BY DEF ShRead, Sh, ShStart, Special, Quot, Back, Gap
  <1> QED BY <1>1, <1>2, <1>3, <1>4, <1>5, <1>6, <1>7, <1>8

LEMMA ShTyped ==
  ASSUME NEW C, NEW m \in {"plain", "quote", "escape"}, NEW w \in Seq(C), NEW o \in BOOLEAN,
         NEW ws \in Seq(Seq(C))
  PROVE  Sh(m, w, o, ws) \in ShState(C)
  BY DEF ShState, Sh

LEMMA ShStarts ==
  ASSUME NEW C
  PROVE  ShStart = Sh("plain", <<>>, FALSE, <<>>) /\ ShStart \in ShState(C)
  BY DEF ShState, Sh, ShStart

LEMMA ShReadState ==
  ASSUME NEW C, NEW s \in ShState(C), NEW c \in C
  PROVE  ShRead(s, c) \in ShState(C)
  <1> DEFINE m == s.mode
             w == s.word
             o == s.open
             ws == s.words
  <1>1. /\ m \in {"plain", "quote", "escape"} /\ w \in Seq(C) /\ o \in BOOLEAN /\ ws \in Seq(Seq(C))
        /\ s = Sh(m, w, o, ws)
    BY DEF ShState, Sh
  <1> HIDE DEF m, w, o, ws
  <1>2. Append(w, c) \in Seq(C) /\ Append(ws, w) \in Seq(Seq(C)) /\ <<>> \in Seq(C)
    BY <1>1
  <1>3. CASE m = "escape"
    <2>1. ShRead(s, c) = Sh("plain", Append(w, c), o, ws)
      BY <1>1, <1>3 DEF ShRead, Sh, ShStart, Special, Quot, Back, Gap
    <2> QED BY <1>1, <1>2, <2>1, ShTyped
  <1>4. CASE m = "quote"
    <2>1. ShRead(s, c) = Sh("plain", w, o, ws) \/ ShRead(s, c) = Sh("quote", Append(w, c), o, ws)
      BY <1>1, <1>4 DEF ShRead, Sh, ShStart, Special, Quot, Back, Gap
    <2> QED BY <1>1, <1>2, <2>1, ShTyped
  <1>5. CASE m = "plain"
    <2>1. CASE c = Quot
      <3>1. ShRead(s, c) = Sh("quote", w, TRUE, ws)
        BY <1>1, <1>5, <2>1 DEF ShRead, Sh, ShStart, Special, Quot, Back, Gap
      <3> QED BY <1>1, <1>2, <3>1, ShTyped
    <2>2. CASE c = Back
      <3>1. ShRead(s, c) = Sh("escape", w, TRUE, ws)
        BY <1>1, <1>5, <2>2 DEF ShRead, Sh, ShStart, Special, Quot, Back, Gap
      <3> QED BY <1>1, <1>2, <3>1, ShTyped
    <2>3. CASE c = Gap /\ o = TRUE
      <3>1. ShRead(s, c) = Sh("plain", <<>>, FALSE, Append(ws, w))
        BY <1>1, <1>5, <2>3 DEF ShRead, Sh, ShStart, Special, Quot, Back, Gap
      <3> QED BY <1>1, <1>2, <3>1, ShTyped
    <2>4. CASE c = Gap /\ o = FALSE
      <3>1. ShRead(s, c) = Sh("plain", w, FALSE, ws)
        BY <1>1, <1>5, <2>4 DEF ShRead, Sh, ShStart, Special, Quot, Back, Gap
      <3> QED BY <1>1, <1>2, <3>1, ShTyped
    <2>5. CASE c \notin Special
      <3>1. ShRead(s, c) = Sh("plain", Append(w, c), TRUE, ws)
        BY <1>1, <1>5, <2>5 DEF ShRead, Sh, ShStart, Special, Quot, Back, Gap
      <3> QED BY <1>1, <1>2, <3>1, ShTyped
    <2> QED BY <1>1, <2>1, <2>2, <2>3, <2>4, <2>5 DEF Special
  <1> QED BY <1>1, <1>3, <1>4, <1>5

\* Reading a text leads from one state to another.
Reads(C, s, text, end) ==
  \E at \in [0 .. Len(text) -> ShState(C)] :
    at[0] = s /\ at[Len(text)] = end /\ \A k \in 1 .. Len(text) : at[k] = ShRead(at[k - 1], text[k])

LEMMA ReadsNothing ==
  ASSUME NEW C, NEW s \in ShState(C)
  PROVE  Reads(C, s, <<>>, s)
  <1> DEFINE at == [k \in 0 .. 0 |-> s]
  <1>1. at \in [0 .. Len(<<>>) -> ShState(C)] /\ at[0] = s /\ 1 .. Len(<<>>) = {}
    OBVIOUS
  <1> HIDE DEF at
  <1> QED BY <1>1 DEF Reads

LEMMA ReadsMore ==
  ASSUME NEW C, NEW s, NEW text \in Seq(C), NEW end, NEW c \in C, Reads(C, s, text, end)
  PROVE  Reads(C, s, Append(text, c), ShRead(end, c))
  <1> DEFINE n == Len(text)
             more == Append(text, c)
  <1>1. PICK at \in [0 .. n -> ShState(C)] :
          at[0] = s /\ at[n] = end /\ \A k \in 1 .. n : at[k] = ShRead(at[k - 1], text[k])
    BY DEF Reads
  <1>2. n \in Nat /\ Len(more) = n + 1 /\ more[n + 1] = c /\ \A k \in 1 .. n : more[k] = text[k]
    OBVIOUS
  <1> HIDE DEF more, n
  <1> DEFINE next == [k \in 0 .. n + 1 |-> IF k = n + 1 THEN ShRead(end, c) ELSE at[k]]
  <1>3. end \in ShState(C)
    BY <1>1, <1>2
  <1>4. ShRead(end, c) \in ShState(C)
    BY <1>3, ShReadState
  <1>5. /\ next \in [0 .. n + 1 -> ShState(C)] /\ next[n + 1] = ShRead(end, c)
        /\ \A k \in 0 .. n : next[k] = at[k]
    BY <1>1, <1>2, <1>4
  <1> HIDE DEF next
  <1>6. ASSUME NEW k \in 1 .. n + 1 PROVE next[k] = ShRead(next[k - 1], more[k])
    <2>1. CASE k = n + 1
      <3>1. next[n] = end /\ (n + 1) - 1 = n
        BY <1>1, <1>2, <1>5
      <3> QED BY <1>2, <1>5, <2>1, <3>1
    <2>2. CASE k # n + 1
      <3>1. k \in 1 .. n /\ k \in 0 .. n /\ k - 1 \in 0 .. n
        BY <1>2, <2>2
      <3> QED BY <1>1, <1>2, <1>5, <3>1
    <2> QED BY <2>1, <2>2
  <1>7. next[0] = s
    BY <1>1, <1>2, <1>5
  <1> QED BY <1>2, <1>5, <1>6, <1>7 DEF Reads, more

LEMMA ReadsOne ==
  ASSUME NEW C, NEW s \in ShState(C), NEW c \in C
  PROVE  Reads(C, s, <<c>>, ShRead(s, c))
  <1>1. Append(<<>>, c) = <<c>> /\ <<>> \in Seq(C)
    OBVIOUS
  <1>2. Reads(C, s, <<>>, s)
    BY ReadsNothing
  <1>3. Reads(C, s, Append(<<>>, c), ShRead(s, c))
    BY <1>1, <1>2, ReadsMore
  <1> QED BY <1>1, <1>3

\* A text is read after another.
LEMMA ReadsOn ==
  ASSUME NEW C, NEW s, NEW text \in Seq(C), NEW between, NEW more \in Seq(C), NEW end,
         Reads(C, s, text, between), Reads(C, between, more, end)
  PROVE  Reads(C, s, text \o more, end)
  <1> DEFINE n == Len(text)
             m == Len(more)
             both == text \o more
  <1>1. PICK at \in [0 .. n -> ShState(C)] :
          at[0] = s /\ at[n] = between /\ \A k \in 1 .. n : at[k] = ShRead(at[k - 1], text[k])
    BY DEF Reads
  <1>2. PICK on \in [0 .. m -> ShState(C)] :
          on[0] = between /\ on[m] = end /\ \A k \in 1 .. m : on[k] = ShRead(on[k - 1], more[k])
    BY DEF Reads
  <1>3. /\ n \in Nat /\ m \in Nat /\ Len(both) = n + m
        /\ \A k \in 1 .. n : both[k] = text[k]
        /\ \A k \in n + 1 .. n + m : both[k] = more[k - n]
    OBVIOUS
  <1> HIDE DEF n, m, both
  <1> DEFINE next == [k \in 0 .. n + m |-> IF k <= n THEN at[k] ELSE on[k - n]]
  <1>4. \A k \in 0 .. n + m : next[k] \in ShState(C)
    BY <1>1, <1>2, <1>3
  <1>5. /\ next \in [0 .. n + m -> ShState(C)]
        /\ \A k \in 0 .. n : next[k] = at[k]
        /\ \A k \in n .. n + m : next[k] = on[k - n]
    BY <1>1, <1>2, <1>3, <1>4
  <1> HIDE DEF next
  <1>6. ASSUME NEW k \in 1 .. n + m PROVE next[k] = ShRead(next[k - 1], both[k])
    <2>1. CASE k <= n
      <3>1. k \in 1 .. n /\ k \in 0 .. n /\ k - 1 \in 0 .. n
        BY <1>3, <2>1
      <3> QED BY <1>1, <1>3, <1>5, <3>1
    <2>2. CASE k > n
      <3>1. /\ k \in n + 1 .. n + m /\ k \in n .. n + m /\ k - 1 \in n .. n + m
            /\ k - n \in 1 .. m /\ (k - 1) - n = (k - n) - 1
        BY <1>3, <2>2
      <3> QED BY <1>2, <1>3, <1>5, <3>1
    <2> QED BY <1>3, <2>1, <2>2
  <1>7. next[0] = s /\ next[n + m] = end
    BY <1>1, <1>2, <1>3, <1>5
  <1> QED BY <1>3, <1>5, <1>6, <1>7 DEF Reads, both

\* What is read from a whole line is what the shell makes of it.
LEMMA ShWordsAre ==
  ASSUME NEW C, NEW text \in Seq(C), NEW end, Reads(C, ShStart, text, end)
  PROVE  ShWords(text) = IF end.open THEN Append(end.words, end.word) ELSE end.words
  <1> DEFINE n == Len(text)
             Is(g) == g = [d \in SUBSET (1 .. n) |-> IF d = {} THEN ShStart
                                                      ELSE ShRead(g[d \ {Max(d)}], text[Max(d)])]
             f == CHOOSE g : Is(g)
             step == [p \in ShState(C) \X (1 .. n) |-> ShRead(p[1], text[p[2]])]
  <1>1. n \in Nat /\ DOMAIN text = 1 .. n /\ \A k \in 1 .. n : text[k] \in C
    OBVIOUS
  <1>2. FoldLeft(ShRead, ShStart, text) = f[1 .. n]
    BY <1>1, Zenon DEF FoldLeft, MapThenFoldSet
  <1>s. ShStart \in ShState(C)
    BY ShStarts
  <1> HIDE DEF n
  <1>3. step \in [ShState(C) \X (1 .. n) -> ShState(C)]
    BY <1>1, ShReadState
  <1>4. \A x \in ShState(C), k \in 1 .. n : step[<<x, k>>] = ShRead(x, text[k])
    OBVIOUS
  <1> HIDE DEF step
  <1>5. PICK g \in [SUBSET (1 .. n) -> ShState(C)] : Folds(g, ShStart, step, n)
    BY <1>1, <1>3, <1>s, FoldExists
  <1>6. \A d \in SUBSET (1 .. n) : d # {} => Max(d) \in 1 .. n /\ d \ {Max(d)} \in SUBSET (1 .. n)
    BY <1>1, MaxIsIn
  <1>7. Is(g)
    BY <1>4, <1>5, <1>6 DEF Folds
  <1>8. Is(f)
    BY <1>7, Zenon
  <1> HIDE DEF f
  <1>9. PICK run \in [0 .. n -> ShState(C)] :
          run[0] = ShStart /\ run[n] = f[1 .. n] /\ \A k \in 1 .. n : run[k] = step[<<run[k - 1], k>>]
    <2>1. Stepwise(f, ShState(C), ShStart, step, n)
      BY <1>4, <1>6, <1>8 DEF Stepwise
    <2>2. Runs(ShState(C), ShStart, step, n, f[1 .. n])
      <3> HIDE DEF Is
      <3> QED BY <1>1, <1>3, <1>s, <2>1, FoldRuns
    <2> QED BY <2>2 DEF Runs
  <1>a. PICK at \in [0 .. n -> ShState(C)] :
          at[0] = ShStart /\ at[n] = end /\ \A k \in 1 .. n : at[k] = ShRead(at[k - 1], text[k])
    BY DEF Reads, n
  <1>b. run[n] = at[n]
    <2>1. \A k \in 1 .. n : k - 1 \in 0 .. n
      BY <1>1
    <2>2. ASSUME NEW k \in 1 .. n, run[k - 1] = at[k - 1] PROVE run[k] = at[k]
      <3>1. run[k] = ShRead(run[k - 1], text[k])
        BY <1>4, <1>9, <2>1
      <3> QED BY <1>a, <2>2, <3>1
    <2>3. run[0] = at[0]
      BY <1>9, <1>a
    <2> QED BY <1>1, <2>2, <2>3, RunsAgree
  <1> QED BY <1>2, <1>9, <1>a, <1>b DEF ShWords

\* What quoting makes of one character.
Esc(c) == IF c = Quot THEN <<Quot, Back, Quot, Quot>> ELSE <<c>>

LEMMA EscIs ==
  ASSUME NEW C, Special \subseteq C, NEW c \in C
  PROVE  Esc(c) \in Seq(C)
  <1>1. Quot \in C /\ Back \in C
    BY DEF Special
  <1>2. \A q \in C, b \in C : <<q, b, q, q>> \in Seq(C)
    OBVIOUS
  <1>3. <<Quot, Back, Quot, Quot>> \in Seq(C)
    BY <1>1, <1>2
  <1>4. <<c>> \in Seq(C)
    OBVIOUS
  <1> QED BY <1>3, <1>4 DEF Esc

LEMMA EscapedRuns ==
  ASSUME NEW C, Special \subseteq C, NEW s \in Seq(C)
  PROVE  \E at \in [0 .. Len(s) -> Seq(C)] :
           /\ at[0] = <<>> /\ at[Len(s)] = escaped(s)
           /\ \A k \in 1 .. Len(s) : at[k] = at[k - 1] \o Esc(s[k])
  <1> DEFINE n == Len(s)
             Is(g) == g = [d \in SUBSET (1 .. n) |-> IF d = {} THEN <<>>
                                                      ELSE g[d \ {Max(d)}] \o Esc(s[Max(d)])]
             f == CHOOSE g : Is(g)
             step == [p \in Seq(C) \X (1 .. n) |-> p[1] \o Esc(s[p[2]])]
  <1>1. n \in Nat /\ DOMAIN s = 1 .. n /\ (\A k \in 1 .. n : s[k] \in C) /\ <<>> \in Seq(C)
    OBVIOUS
  <1>2. escaped(s) = f[1 .. n]
    BY <1>1, Zenon DEF escaped, Esc, Quot, Back, FoldLeft, MapThenFoldSet
  <1> HIDE DEF n
  <1>3. step \in [Seq(C) \X (1 .. n) -> Seq(C)]
    <2>1. \A k \in 1 .. n : Esc(s[k]) \in Seq(C)
      BY <1>1, EscIs
    <2> QED BY <2>1
  <1>4. \A x \in Seq(C), k \in 1 .. n : step[<<x, k>>] = x \o Esc(s[k])
    OBVIOUS
  <1> HIDE DEF step
  <1>5. PICK g \in [SUBSET (1 .. n) -> Seq(C)] : Folds(g, <<>>, step, n)
    BY <1>1, <1>3, FoldExists
  <1>6. \A d \in SUBSET (1 .. n) : d # {} => Max(d) \in 1 .. n /\ d \ {Max(d)} \in SUBSET (1 .. n)
    BY <1>1, MaxIsIn
  <1>7. Is(g)
    BY <1>4, <1>5, <1>6 DEF Folds
  <1>8. Is(f)
    BY <1>7, Zenon
  <1> HIDE DEF f
  <1>9. PICK at \in [0 .. n -> Seq(C)] :
          at[0] = <<>> /\ at[n] = f[1 .. n] /\ \A k \in 1 .. n : at[k] = step[<<at[k - 1], k>>]
    <2>1. Stepwise(f, Seq(C), <<>>, step, n)
      BY <1>4, <1>6, <1>8 DEF Stepwise
    <2>2. Runs(Seq(C), <<>>, step, n, f[1 .. n])
      <3> HIDE DEF Is
      <3> QED BY <1>1, <1>3, <2>1, FoldRuns
    <2> QED BY <2>2 DEF Runs
  <1>a. \A k \in 1 .. n : at[k] = at[k - 1] \o Esc(s[k])
    <2>1. \A k \in 1 .. n : k - 1 \in 0 .. n
      BY <1>1
    <2> QED BY <1>4, <1>9, <2>1
  <1> QED BY <1>2, <1>9, <1>a DEF n

\* Within quotes, a character that was quoted is read back,
LEMMA EscIsRead ==
  ASSUME NEW C, Special \subseteq C, NEW c \in C, NEW w \in Seq(C), NEW ws \in Seq(Seq(C))
  PROVE  Reads(C, Sh("quote", w, TRUE, ws), Esc(c), Sh("quote", Append(w, c), TRUE, ws))
  <1> DEFINE s == Sh("quote", w, TRUE, ws)
  <1>1. s \in ShState(C)
    BY ShTyped
  <1>2. CASE c # Quot
    <2>1. ShRead(s, c) = Sh("quote", Append(w, c), TRUE, ws)
      BY <1>2 DEF ShRead, Sh, Quot
    <2>2. Esc(c) = <<c>>
      BY <1>2 DEF Esc
    <2> QED BY <1>1, <2>1, <2>2, ReadsOne
  <1>3. CASE c = Quot
    <2> DEFINE s1 == Sh("plain", w, TRUE, ws)
               s2 == Sh("escape", w, TRUE, ws)
               s3 == Sh("plain", Append(w, Quot), TRUE, ws)
               s4 == Sh("quote", Append(w, Quot), TRUE, ws)
    <2>1. ShRead(s, Quot) = s1 /\ ShRead(s1, Back) = s2 /\ ShRead(s2, Quot) = s3 /\ ShRead(s3, Quot) = s4
      BY DEF ShRead, Sh, Quot, Back
    <2>2. Quot \in C /\ Back \in C
      BY DEF Special
    <2> HIDE DEF s, s1, s2, s3, s4
    <2>3. PICK four \in Seq(C) : four = <<Quot, Back, Quot, Quot>>
      <3>1. \A q \in C, b \in C : <<q, b, q, q>> \in Seq(C)
        OBVIOUS
      <3> QED BY <2>2, <3>1
    <2>4. Len(four) = 4 /\ four[1] = Quot /\ four[2] = Back /\ four[3] = Quot /\ four[4] = Quot
      BY <2>3
    <2>5. SubSeq(four, 1, 0) = <<>> /\ SubSeq(four, 1, 4) = four
      BY <2>4
    <2>6. \A k \in 1 .. Len(four) : /\ SubSeq(four, 1, k - 1) \in Seq(C) /\ four[k] \in C
                                    /\ Append(SubSeq(four, 1, k - 1), four[k]) = SubSeq(four, 1, k)
      BY GrowsByOne
    <2>7. ASSUME NEW k \in 1 .. 4, NEW x, Reads(C, s, SubSeq(four, 1, k - 1), x)
          PROVE  Reads(C, s, SubSeq(four, 1, k), ShRead(x, four[k]))
      <3>1. k \in 1 .. Len(four)
        BY <2>4
      <3> QED BY <2>6, <2>7, <3>1, ReadsMore
    <2>8. Reads(C, s, SubSeq(four, 1, 0), s)
      BY <1>1, <2>5, ReadsNothing
    <2>9. Reads(C, s, SubSeq(four, 1, 1), s1)
      BY <2>1, <2>4, <2>7, <2>8
    <2>a. Reads(C, s, SubSeq(four, 1, 2), s2)
      BY <2>1, <2>4, <2>7, <2>9
    <2>b. Reads(C, s, SubSeq(four, 1, 3), s3)
      BY <2>1, <2>4, <2>7, <2>a
    <2>c. Reads(C, s, SubSeq(four, 1, 4), s4)
      BY <2>1, <2>4, <2>7, <2>b
    <2>d. Esc(c) = four
      BY <1>3, <2>3 DEF Esc
    <2> QED BY <1>3, <2>5, <2>c, <2>d DEF s, s4
  <1> QED BY <1>2, <1>3

\* and so is a text.
LEMMA EscapedIsRead ==
  ASSUME NEW C, Special \subseteq C, NEW s \in Seq(C), NEW ws \in Seq(Seq(C))
  PROVE  /\ escaped(s) \in Seq(C)
         /\ Reads(C, Sh("quote", <<>>, TRUE, ws), escaped(s), Sh("quote", s, TRUE, ws))
  <1> DEFINE n == Len(s)
             from == Sh("quote", <<>>, TRUE, ws)
  <1>1. PICK at \in [0 .. n -> Seq(C)] :
          /\ at[0] = <<>> /\ at[n] = escaped(s)
          /\ \A k \in 1 .. n : at[k] = at[k - 1] \o Esc(s[k])
    BY EscapedRuns
  <1>2. n \in Nat /\ SubSeq(s, 1, n) = s /\ SubSeq(s, 1, 0) = <<>> /\ \A k \in 1 .. n : s[k] \in C
    OBVIOUS
  <1>3. \A k \in 1 .. n : /\ SubSeq(s, 1, k - 1) \in Seq(C)
                          /\ Append(SubSeq(s, 1, k - 1), s[k]) = SubSeq(s, 1, k)
    OBVIOUS
  <1> HIDE DEF n
  <1>s. from \in ShState(C)
    <2>1. <<>> \in Seq(C)
      OBVIOUS
    <2> QED BY <2>1, ShTyped
  <1> DEFINE P(k) == Reads(C, from, at[k], Sh("quote", SubSeq(s, 1, k), TRUE, ws))
             S == {k \in 0 .. n : P(k)}
  <1>4. P(0)
    BY <1>1, <1>2, <1>s, ReadsNothing
  <1>5. ASSUME NEW k \in 1 .. n, P(k - 1) PROVE P(k)
    <2> DEFINE w == SubSeq(s, 1, k - 1)
               c == s[k]
    <2>2. w \in Seq(C) /\ c \in C /\ Append(w, c) = SubSeq(s, 1, k)
      BY <1>2, <1>3
    <2>3. Reads(C, from, at[k - 1], Sh("quote", w, TRUE, ws))
      BY <1>5
    <2>4. at[k] = at[k - 1] \o Esc(c) /\ at[k - 1] \in Seq(C)
      <3>1. k - 1 \in 0 .. n
        BY <1>2
      <3> QED BY <1>1, <3>1
    <2> HIDE DEF w, c, from
    <2>5. Reads(C, Sh("quote", w, TRUE, ws), Esc(c), Sh("quote", Append(w, c), TRUE, ws))
      BY <2>2, EscIsRead
    <2>6. Esc(c) \in Seq(C)
      BY <2>2, EscIs
    <2>7. Reads(C, from, at[k - 1] \o Esc(c), Sh("quote", Append(w, c), TRUE, ws))
      BY <2>3, <2>4, <2>5, <2>6, ReadsOn
    <2> QED BY <2>2, <2>4, <2>7
  <1> HIDE DEF P
  <1>6. n \in S
    <2>1. 0 \in S
      BY <1>2, <1>4
    <2>2. \A k \in 1 .. n : k - 1 \in S => k \in S
      BY <1>5
    <2> HIDE DEF S
    <2>3. n \in 0 .. n
      BY <1>2
    <2> QED BY <1>2, <2>1, <2>2, <2>3, InductUpTo
  <1>7. n \in 0 .. n
    BY <1>2
  <1> QED BY <1>1, <1>2, <1>6, <1>7 DEF P

\* From between two words, a quoted text is read as a word.
LEMMA QuotedIsRead ==
  ASSUME NEW C, Special \subseteq C, NEW s \in Seq(C), NEW ws \in Seq(Seq(C))
  PROVE  /\ shell_quote(s) \in Seq(C) /\ shell_quote(s) # <<>>
         /\ Reads(C, Sh("plain", <<>>, FALSE, ws), shell_quote(s), Sh("plain", s, TRUE, ws))
  <1> DEFINE from == Sh("plain", <<>>, FALSE, ws)
             n == Len(s)
  <1>s. from \in ShState(C)
    <2>1. <<>> \in Seq(C)
      OBVIOUS
    <2> QED BY <2>1, ShTyped
  <1>1. CASE s # <<>> /\ \A i \in DOMAIN s : IsSafe(s[i])
    <2>1. shell_quote(s) = s
      BY <1>1 DEF shell_quote
    <2>2. \A k \in 1 .. n : s[k] \notin Special
      <3>1. \A k \in 1 .. n : s[k] = "a"
        BY <1>1 DEF IsSafe
      <3>2. "a" \notin Special
        BY DEF Special, Quot, Back, Gap
      <3> QED BY <3>1, <3>2
    <2>3. n \in Nat /\ n > 0
      BY <1>1
    <2> DEFINE P(k) == \E o \in BOOLEAN : /\ k > 0 => o = TRUE
                                          /\ Reads(C, from, SubSeq(s, 1, k), Sh("plain", SubSeq(s, 1, k), o, ws))
               S == {k \in 0 .. n : P(k)}
    <2>4. P(0)
      <3>1. Reads(C, from, SubSeq(s, 1, 0), Sh("plain", SubSeq(s, 1, 0), FALSE, ws))
        BY <1>s, GrowsByOne, ReadsNothing
      <3>2. 0 > 0 => FALSE = TRUE
        OBVIOUS
      <3> QED BY <3>1, <3>2, Zenon
    <2>5. ASSUME NEW k \in 1 .. n, P(k - 1) PROVE P(k)
      <3>1. PICK o \in BOOLEAN : Reads(C, from, SubSeq(s, 1, k - 1), Sh("plain", SubSeq(s, 1, k - 1), o, ws))
        BY <2>5
      <3> HIDE DEF from
      <3>2. /\ s[k] \in C /\ SubSeq(s, 1, k - 1) \in Seq(C) /\ s[k] \notin Special
            /\ Append(SubSeq(s, 1, k - 1), s[k]) = SubSeq(s, 1, k)
        BY <2>2, GrowsByOne
      <3>3. Reads(C, from, SubSeq(s, 1, k), ShRead(Sh("plain", SubSeq(s, 1, k - 1), o, ws), s[k]))
        BY <3>1, <3>2, ReadsMore
      <3>4. ShRead(Sh("plain", SubSeq(s, 1, k - 1), o, ws), s[k]) = Sh("plain", SubSeq(s, 1, k), TRUE, ws)
        BY <3>2 DEF ShRead, Sh, Special, Quot, Back, Gap
      <3>5. Reads(C, from, SubSeq(s, 1, k), Sh("plain", SubSeq(s, 1, k), TRUE, ws))
        BY <3>3, <3>4
      <3> QED BY <3>5
    <2> HIDE DEF P
    <2>6. P(n)
      <3>1. 0 \in S
        BY <2>3, <2>4
      <3>2. \A k \in 1 .. n : k - 1 \in S => k \in S
        BY <2>5
      <3> HIDE DEF S
      <3>3. n \in 0 .. n
        BY <2>3
      <3>4. n \in S
        BY <2>3, <3>1, <3>2, <3>3, InductUpTo
      <3> QED BY <3>4 DEF S
    <2>7. Reads(C, from, SubSeq(s, 1, n), Sh("plain", SubSeq(s, 1, n), TRUE, ws))
      BY <2>3, <2>6 DEF P
    <2>8. SubSeq(s, 1, n) = s
      BY GrowsByOne
    <2> QED BY <1>1, <2>1, <2>7, <2>8
  <1>2. CASE ~(s # <<>> /\ \A i \in DOMAIN s : IsSafe(s[i]))
    <2> DEFINE open == Sh("quote", <<>>, TRUE, ws)
               in == Sh("quote", s, TRUE, ws)
               one == <<Quot>>
    <2>1. shell_quote(s) = one \o escaped(s) \o one
      BY <1>2 DEF shell_quote, Quot
    <2>2. Quot \in C
      BY DEF Special
    <2>3. one \in Seq(C) /\ one # <<>>
      BY <2>2
    <2>4. escaped(s) \in Seq(C) /\ Reads(C, open, escaped(s), in)
      BY EscapedIsRead
    <2>5. in \in ShState(C)
      BY ShTyped
    <2>6. Reads(C, from, one, open)
      <3>1. ShRead(from, Quot) = open
        BY DEF ShRead, Sh, Quot
      <3> HIDE DEF from, open
      <3> QED BY <1>s, <2>2, <3>1, ReadsOne
    <2>7. Reads(C, in, one, Sh("plain", s, TRUE, ws))
      <3>1. ShRead(in, Quot) = Sh("plain", s, TRUE, ws)
        BY DEF ShRead, Sh, Quot
      <3> HIDE DEF in
      <3> QED BY <2>2, <2>5, <3>1, ReadsOne
    <2> HIDE DEF from, open, in, one
    <2>8. one \o escaped(s) \in Seq(C) /\ Reads(C, from, one \o escaped(s), in)
      BY <2>3, <2>4, <2>6, ReadsOn
    <2>9. Reads(C, from, (one \o escaped(s)) \o one, Sh("plain", s, TRUE, ws))
      BY <2>3, <2>7, <2>8, ReadsOn
    <2>a. (one \o escaped(s)) \o one \in Seq(C) /\ (one \o escaped(s)) \o one # <<>>
      <3>1. \A x \in Seq(C) : x \o one \in Seq(C)
        BY <2>3
      <3>2. \A x \in Seq(C) : x \o one # <<>>
        BY <2>3, NotEmpty
      <3> QED BY <2>8, <3>1, <3>2
    <2> QED BY <2>1, <2>9, <2>a DEF from
  <1> QED BY <1>1, <1>2

LEMMA JoinedRuns ==
  ASSUME NEW C, Special \subseteq C, NEW args \in Seq(Seq(C))
  PROVE  \E at \in [0 .. Len(args) -> Seq(C)] :
           /\ at[0] = <<>> /\ at[Len(args)] = shell_join(args)
           /\ \A k \in 1 .. Len(args) :
                at[k] = IF at[k - 1] = <<>> THEN shell_quote(args[k])
                        ELSE at[k - 1] \o <<Gap>> \o shell_quote(args[k])
  <1> DEFINE n == Len(args)
             next(text, k) == IF text = <<>> THEN shell_quote(args[k])
                              ELSE text \o <<Gap>> \o shell_quote(args[k])
             Is(g) == g = [d \in SUBSET (1 .. n) |-> IF d = {} THEN <<>>
                                                      ELSE next(g[d \ {Max(d)}], Max(d))]
             f == CHOOSE g : Is(g)
             step == [p \in Seq(C) \X (1 .. n) |-> next(p[1], p[2])]
  <1>1. n \in Nat /\ DOMAIN args = 1 .. n /\ (\A k \in 1 .. n : args[k] \in Seq(C)) /\ <<>> \in Seq(C)
    OBVIOUS
  <1>2. shell_join(args) = f[1 .. n]
    BY <1>1, Zenon DEF shell_join, Gap, FoldLeft, MapThenFoldSet
  <1> HIDE DEF n
  <1>n. \A text \in Seq(C), k \in 1 .. n : next(text, k) \in Seq(C)
    <2>1. \A k \in 1 .. n : shell_quote(args[k]) \in Seq(C)
      BY <1>1, QuotedIsRead
    <2>2. <<Gap>> \in Seq(C)
      BY DEF Special
    <2> QED BY <2>1, <2>2
  <1> HIDE DEF next
  <1>3. step \in [Seq(C) \X (1 .. n) -> Seq(C)]
    BY <1>n
  <1>4. \A x \in Seq(C), k \in 1 .. n : step[<<x, k>>] = next(x, k)
    OBVIOUS
  <1> HIDE DEF step
  <1>5. PICK g \in [SUBSET (1 .. n) -> Seq(C)] : Folds(g, <<>>, step, n)
    BY <1>1, <1>3, FoldExists
  <1>6. \A d \in SUBSET (1 .. n) : d # {} => Max(d) \in 1 .. n /\ d \ {Max(d)} \in SUBSET (1 .. n)
    BY <1>1, MaxIsIn
  <1>7. Is(g)
    BY <1>4, <1>5, <1>6 DEF Folds
  <1>8. Is(f)
    BY <1>7, Zenon
  <1> HIDE DEF f
  <1>9. PICK at \in [0 .. n -> Seq(C)] :
          at[0] = <<>> /\ at[n] = f[1 .. n] /\ \A k \in 1 .. n : at[k] = step[<<at[k - 1], k>>]
    <2>1. Stepwise(f, Seq(C), <<>>, step, n)
      BY <1>4, <1>6, <1>8 DEF Stepwise
    <2>2. Runs(Seq(C), <<>>, step, n, f[1 .. n])
      <3> HIDE DEF Is
      <3> QED BY <1>1, <1>3, <2>1, FoldRuns
    <2> QED BY <2>2 DEF Runs
  <1>a. \A k \in 1 .. n : at[k] = next(at[k - 1], k)
    <2>1. \A k \in 1 .. n : k - 1 \in 0 .. n
      BY <1>1
    <2> QED BY <1>4, <1>9, <2>1
  <1> QED BY <1>2, <1>9, <1>a DEF n, next

\* The shell reads from a line the arguments that shell_join made it of, whatever
\* characters they have.
LEMMA ArgumentsAreRead ==
  ASSUME NEW C, Special \subseteq C, NEW args \in Seq(Seq(C))
  PROVE  ShWords(shell_join(args)) = args
  <1> DEFINE n == Len(args)
  <1>1. PICK at \in [0 .. n -> Seq(C)] :
           /\ at[0] = <<>> /\ at[n] = shell_join(args)
           /\ \A k \in 1 .. n :
                at[k] = IF at[k - 1] = <<>> THEN shell_quote(args[k])
                        ELSE at[k - 1] \o <<Gap>> \o shell_quote(args[k])
    BY JoinedRuns
  <1>2. n \in Nat /\ \A k \in 1 .. n : args[k] \in Seq(C)
    OBVIOUS
  <1>3. /\ SubSeq(args, 1, 0) = <<>> /\ SubSeq(args, 1, n) = args
        /\ \A k \in 1 .. n : /\ SubSeq(args, 1, k - 1) \in Seq(Seq(C))
                             /\ Append(SubSeq(args, 1, k - 1), args[k]) = SubSeq(args, 1, k)
    BY GrowsByOne
  <1>s. ShStart = Sh("plain", <<>>, FALSE, <<>>) /\ ShStart \in ShState(C)
    BY ShStarts
  <1>g. Gap \in C /\ <<Gap>> \in Seq(C) /\ <<>> \in Seq(C) /\ <<>> \in Seq(Seq(C))
    BY DEF Special
  <1>q. ASSUME NEW k \in 1 .. n
        PROVE  /\ shell_quote(args[k]) \in Seq(C) /\ shell_quote(args[k]) # <<>>
               /\ Reads(C, Sh("plain", <<>>, FALSE, SubSeq(args, 1, k - 1)), shell_quote(args[k]),
                        Sh("plain", args[k], TRUE, SubSeq(args, 1, k - 1)))
    BY <1>2, <1>3, QuotedIsRead
  <1> HIDE DEF n
  <1> DEFINE P(k) == k = 0 \/ /\ at[k] # <<>>
                              /\ Reads(C, ShStart, at[k], Sh("plain", args[k], TRUE, SubSeq(args, 1, k - 1)))
             S == {k \in 0 .. n : P(k)}
  <1>4. ASSUME NEW k \in 1 .. n, P(k - 1) PROVE P(k)
    <2>1. CASE k = 1
      <3>1. at[k - 1] = <<>> /\ SubSeq(args, 1, k - 1) = <<>>
        BY <1>1, <1>3, <2>1
      <3>2. at[k] = shell_quote(args[k])
        BY <1>1, <3>1
      <3> QED BY <1>q, <1>s, <3>1, <3>2
    <2>2. CASE k # 1
      <3> DEFINE j == k - 1
                 quoted == shell_quote(args[k])
                 within == Sh("plain", args[j], TRUE, SubSeq(args, 1, j - 1))
                 after == Sh("plain", <<>>, FALSE, SubSeq(args, 1, j))
      <3>1. j \in 1 .. n /\ j \in 0 .. n /\ j # 0
        BY <1>2, <2>2
      <3>2. at[j] # <<>> /\ at[j] \in Seq(C) /\ Reads(C, ShStart, at[j], within)
        BY <1>1, <1>4, <3>1
      <3>3. at[k] = at[j] \o <<Gap>> \o quoted
        BY <1>1, <3>2
      <3>4. within \in ShState(C)
        BY <1>2, <1>3, <3>1, ShTyped
      <3>5. ShRead(within, Gap) = after
        <4>1. ShRead(within, Gap) = Sh("plain", <<>>, FALSE, Append(SubSeq(args, 1, j - 1), args[j]))
          BY ShReadIs
        <4> QED BY <1>3, <3>1, <4>1
      <3>6. quoted \in Seq(C) /\ quoted # <<>> /\ Reads(C, after, quoted, Sh("plain", args[k], TRUE, SubSeq(args, 1, k - 1)))
        BY <1>q
      <3> HIDE DEF j, quoted, within, after
      <3>7. Reads(C, within, <<Gap>>, after)
        BY <1>g, <3>4, <3>5, ReadsOne
      <3> DEFINE gap == <<Gap>>
                 text == at[j]
                 in == Sh("plain", args[k], TRUE, SubSeq(args, 1, k - 1))
      <3>8. gap \in Seq(C) /\ text \in Seq(C) /\ Reads(C, ShStart, text, within) /\ Reads(C, within, gap, after)
        BY <1>g, <3>2, <3>7
      <3>9. at[k] = (text \o gap) \o quoted /\ Reads(C, after, quoted, in)
        BY <3>3, <3>6
      <3> HIDE DEF gap, text, in
      <3>a. text \o gap \in Seq(C) /\ (text \o gap) \o quoted # <<>>
        BY <3>6, <3>8
      <3>b. Reads(C, ShStart, text \o gap, after)
        BY <3>8, ReadsOn
      <3>c. Reads(C, ShStart, (text \o gap) \o quoted, in)
        BY <3>6, <3>9, <3>a, <3>b, ReadsOn
      <3> QED BY <3>9, <3>a, <3>c DEF in
    <2> QED BY <2>1, <2>2
  <1>5. P(n)
    <2>1. P(0)
      OBVIOUS
    <2> HIDE DEF P
    <2>2. 0 \in S
      BY <1>2, <2>1
    <2>3. \A k \in 1 .. n : k - 1 \in S => k \in S
      BY <1>4
    <2> HIDE DEF S
    <2>4. n \in 0 .. n
      BY <1>2
    <2>5. n \in S
      BY <1>2, <2>2, <2>3, <2>4, InductUpTo
    <2> QED BY <2>5 DEF S
  <1>6. CASE n = 0
    <2>1. at[n] = <<>> /\ Reads(C, ShStart, <<>>, ShStart)
      BY <1>1, <1>6, <1>s, ReadsNothing
    <2>2. ShWords(<<>>) = IF ShStart.open THEN Append(ShStart.words, ShStart.word) ELSE ShStart.words
      BY <1>g, <2>1, ShWordsAre
    <2>3. ShStart.open = FALSE /\ ShStart.words = <<>>
      BY DEF ShStart
    <2>4. args = <<>>
      BY <1>6 DEF n
    <2> QED BY <1>1, <2>1, <2>2, <2>3, <2>4
  <1>7. CASE n # 0
    <2> DEFINE end == Sh("plain", args[n], TRUE, SubSeq(args, 1, n - 1))
    <2>1. Reads(C, ShStart, at[n], end) /\ n \in 1 .. n /\ at[n] \in Seq(C)
      <3>1. n \in 0 .. n /\ n \in 1 .. n
        BY <1>2, <1>7
      <3> QED BY <1>1, <1>5, <1>7, <3>1
    <2>2. end.open = TRUE /\ end.words = SubSeq(args, 1, n - 1) /\ end.word = args[n]
      BY DEF Sh
    <2> HIDE DEF end
    <2>3. ShWords(at[n]) = IF end.open THEN Append(end.words, end.word) ELSE end.words
      BY <2>1, ShWordsAre
    <2>4. Append(SubSeq(args, 1, n - 1), args[n]) = args
      BY <1>3, <2>1
    <2> QED BY <1>1, <2>2, <2>3, <2>4
  <1> QED BY <1>6, <1>7

-----------------------------------------------------------------------------
(* The lines of an output. *)

LineFeed == "\n"
Return == "\r"

\* A line that was just ended by a carriage return is empty.
LineState(C) ==
  {s \in [lines : Seq(Seq(C)), line : Seq(C), cr : BOOLEAN] : s.cr => s.line = <<>>}
Lines(s) == IF s.line = <<>> THEN s.lines ELSE Append(s.lines, s.line)

\* Within a line, and after a carriage return.
Amid(lines, last) == [lines |-> lines, line |-> last, cr |-> FALSE]
Returned(lines) == [lines |-> lines, line |-> <<>>, cr |-> TRUE]

\* One character more.
LEMMA LineFeedIs ==
  /\ \A ls : LineRead(Returned(ls), LineFeed) = Amid(ls, <<>>)
  /\ \A ls, l : LineRead(Amid(ls, l), LineFeed) = Amid(Append(ls, l), <<>>)
  <1>1. \A ls : LineRead(Returned(ls), LineFeed) = Amid(ls, <<>>)
    BY DEF LineRead, LineFeed, Return, Amid, Returned
  <1>2. \A ls, l : LineRead(Amid(ls, l), LineFeed) = Amid(Append(ls, l), <<>>)
    BY DEF LineRead, LineFeed, Return, Amid
  <1> QED BY <1>1, <1>2

LEMMA ReturnIs ==
  /\ \A ls : LineRead(Returned(ls), Return) = Returned(Append(ls, <<>>))
  /\ \A ls, l : LineRead(Amid(ls, l), Return) = Returned(Append(ls, l))
  <1>1. \A ls : LineRead(Returned(ls), Return) = Returned(Append(ls, <<>>))
    BY DEF LineRead, LineFeed, Return, Returned
  <1>2. \A ls, l : LineRead(Amid(ls, l), Return) = Returned(Append(ls, l))
    BY DEF LineRead, LineFeed, Return, Amid, Returned
  <1> QED BY <1>1, <1>2

LEMMA OtherIs ==
  ASSUME NEW c, c # LineFeed, c # Return
  PROVE  /\ \A ls : LineRead(Returned(ls), c) = Amid(ls, Append(<<>>, c))
         /\ \A ls, l : LineRead(Amid(ls, l), c) = Amid(ls, Append(l, c))
  <1>1. \A ls : LineRead(Returned(ls), c) = Amid(ls, Append(<<>>, c))
    BY DEF LineRead, LineFeed, Return, Amid, Returned
  <1>2. \A ls, l : LineRead(Amid(ls, l), c) = Amid(ls, Append(l, c))
    BY DEF LineRead, LineFeed, Return, Amid
  <1> QED BY <1>1, <1>2

LEMMA LineStates ==
  ASSUME NEW C, NEW s \in LineState(C)
  PROVE  /\ s.lines \in Seq(Seq(C)) /\ s.line \in Seq(C)
         /\ s = Amid(s.lines, s.line) \/ s = Returned(s.lines)
  BY DEF LineState, Amid, Returned

LEMMA LineTyped ==
  ASSUME NEW C, NEW ls \in Seq(Seq(C)), NEW l \in Seq(C)
  PROVE  Amid(ls, l) \in LineState(C) /\ Returned(ls) \in LineState(C)
  BY DEF LineState, Amid, Returned

LEMMA LineReadState ==
  ASSUME NEW C, NEW s \in LineState(C), NEW c \in C
  PROVE  LineRead(s, c) \in LineState(C)
  <1> DEFINE ls == s.lines
             l == s.line
  <1>1. ls \in Seq(Seq(C)) /\ l \in Seq(C) /\ (s = Amid(ls, l) \/ s = Returned(ls))
    BY LineStates
  <1> HIDE DEF ls, l
  <1>2. /\ Append(ls, l) \in Seq(Seq(C)) /\ Append(l, c) \in Seq(C) /\ <<>> \in Seq(C)
        /\ Append(ls, <<>>) \in Seq(Seq(C)) /\ Append(<<>>, c) \in Seq(C)
    BY <1>1
  <1>3. \/ LineRead(s, c) = Amid(ls, <<>>) \/ LineRead(s, c) = Amid(Append(ls, l), <<>>)
        \/ LineRead(s, c) = Returned(Append(ls, <<>>)) \/ LineRead(s, c) = Returned(Append(ls, l))
        \/ LineRead(s, c) = Amid(ls, Append(<<>>, c)) \/ LineRead(s, c) = Amid(ls, Append(l, c))
    BY <1>1, LineFeedIs, ReturnIs, OtherIs
  <1> QED BY <1>1, <1>2, <1>3, LineTyped

\* Lines that were read before go before those that follow.
Behind(ls, s) == [lines |-> ls \o s.lines, line |-> s.line, cr |-> s.cr]

LEMMA LinesGoBefore ==
  ASSUME NEW C, NEW s \in LineState(C), NEW c \in C, NEW ls \in Seq(Seq(C))
  PROVE  LineRead(Behind(ls, s), c) = Behind(ls, LineRead(s, c)) /\ Lines(Behind(ls, s)) = ls \o Lines(s)
  <1> DEFINE m == s.lines
             l == s.line
  <1>1. m \in Seq(Seq(C)) /\ l \in Seq(C) /\ (s = Amid(m, l) \/ s = Returned(m))
    BY LineStates
  <1> HIDE DEF m, l
  <1>2. ls \o Append(m, l) = Append(ls \o m, l) /\ ls \o Append(m, <<>>) = Append(ls \o m, <<>>)
    BY <1>1
  <1>b. (\A x : Behind(ls, Returned(x)) = Returned(ls \o x))
        /\ \A x, y : Behind(ls, Amid(x, y)) = Amid(ls \o x, y)
    <2>1. \A x : Behind(ls, Returned(x)) = Returned(ls \o x)
      BY DEF Behind, Returned
    <2>2. \A x, y : Behind(ls, Amid(x, y)) = Amid(ls \o x, y)
      BY DEF Behind, Amid
    <2> QED BY <2>1, <2>2
  <1>l. (\A x, y : Lines(Amid(x, y)) = IF y = <<>> THEN x ELSE Append(x, y))
        /\ \A x : Lines(Returned(x)) = x
    BY DEF Lines, Amid, Returned
  <1>4. CASE s = Amid(m, l)
    <2>1. Behind(ls, s) = Amid(ls \o m, l)
      BY <1>4, <1>b
    <2>l. Lines(Behind(ls, s)) = ls \o Lines(s)
      <3>1. Lines(s) = IF l = <<>> THEN m ELSE Append(m, l)
        BY <1>4, <1>l
      <3>2. Lines(Behind(ls, s)) = IF l = <<>> THEN ls \o m ELSE Append(ls \o m, l)
        BY <1>l, <2>1
      <3> QED BY <1>2, <3>1, <3>2
    <2>2. CASE c = LineFeed
      <3>1. LineRead(s, c) = Amid(Append(m, l), <<>>)
            /\ LineRead(Behind(ls, s), c) = Amid(Append(ls \o m, l), <<>>)
        BY <1>4, <2>1, <2>2, LineFeedIs, ReturnIs, OtherIs
      <3> QED BY <1>2, <1>b, <2>l, <3>1
    <2>3. CASE c = Return
      <3>1. LineRead(s, c) = Returned(Append(m, l))
            /\ LineRead(Behind(ls, s), c) = Returned(Append(ls \o m, l))
        BY <1>4, <2>1, <2>3, LineFeedIs, ReturnIs, OtherIs
      <3> QED BY <1>2, <1>b, <2>l, <3>1
    <2>4. CASE c # LineFeed /\ c # Return
      <3>1. LineRead(s, c) = Amid(m, Append(l, c))
        BY <1>4, <2>4, OtherIs
      <3>2. LineRead(Behind(ls, s), c) = Amid(ls \o m, Append(l, c))
        BY <2>1, <2>4, OtherIs
      <3> QED BY <1>b, <2>l, <3>1, <3>2
    <2> QED BY <2>2, <2>3, <2>4
  <1>5. CASE s = Returned(m)
    <2>1. Behind(ls, s) = Returned(ls \o m)
      BY <1>5, <1>b
    <2>l. Lines(Behind(ls, s)) = ls \o Lines(s)
      BY <1>5, <1>l, <2>1
    <2>2. CASE c = LineFeed
      <3>1. LineRead(s, c) = Amid(m, <<>>) /\ LineRead(Behind(ls, s), c) = Amid(ls \o m, <<>>)
        BY <1>5, <2>1, <2>2, LineFeedIs, ReturnIs, OtherIs
      <3> QED BY <1>2, <1>b, <2>l, <3>1
    <2>3. CASE c = Return
      <3>1. LineRead(s, c) = Returned(Append(m, <<>>))
            /\ LineRead(Behind(ls, s), c) = Returned(Append(ls \o m, <<>>))
        BY <1>5, <2>1, <2>3, LineFeedIs, ReturnIs, OtherIs
      <3> QED BY <1>2, <1>b, <2>l, <3>1
    <2>4. CASE c # LineFeed /\ c # Return
      <3>1. LineRead(s, c) = Amid(m, Append(<<>>, c))
            /\ LineRead(Behind(ls, s), c) = Amid(ls \o m, Append(<<>>, c))
        BY <1>5, <2>1, <2>4, LineFeedIs, ReturnIs, OtherIs
      <3> QED BY <1>2, <1>b, <2>l, <3>1
    <2> QED BY <2>2, <2>3, <2>4
  <1> QED BY <1>1, <1>4, <1>5

\* An output is read a character at a time.
LEMMA LinesRun ==
  ASSUME NEW C, NEW raw \in Seq(C)
  PROVE  \E at \in [0 .. Len(raw) -> LineState(C)] :
           /\ at[0] = LinesStart /\ split_lines(raw) = Lines(at[Len(raw)])
           /\ \A k \in 1 .. Len(raw) : at[k] = LineRead(at[k - 1], raw[k])
  <1> DEFINE n == Len(raw)
             Is(g) == g = [d \in SUBSET (1 .. n) |-> IF d = {} THEN LinesStart
                                                      ELSE LineRead(g[d \ {Max(d)}], raw[Max(d)])]
             f == CHOOSE g : Is(g)
             step == [p \in LineState(C) \X (1 .. n) |-> LineRead(p[1], raw[p[2]])]
  <1>1. n \in Nat /\ DOMAIN raw = 1 .. n /\ (\A k \in 1 .. n : raw[k] \in C)
    OBVIOUS
  <1>2. FoldLeft(LineRead, LinesStart, raw) = f[1 .. n]
    BY <1>1, Zenon DEF FoldLeft, MapThenFoldSet
  <1> HIDE DEF n
  <1>s. LinesStart \in LineState(C)
    BY DEF LinesStart, LineState
  <1>3. step \in [LineState(C) \X (1 .. n) -> LineState(C)]
    BY <1>1, LineReadState
  <1>4. \A x \in LineState(C), k \in 1 .. n : step[<<x, k>>] = LineRead(x, raw[k])
    OBVIOUS
  <1> HIDE DEF step
  <1>5. PICK g \in [SUBSET (1 .. n) -> LineState(C)] : Folds(g, LinesStart, step, n)
    BY <1>1, <1>3, <1>s, FoldExists
  <1>6. \A d \in SUBSET (1 .. n) : d # {} => Max(d) \in 1 .. n /\ d \ {Max(d)} \in SUBSET (1 .. n)
    BY <1>1, MaxIsIn
  <1>7. Is(g)
    BY <1>4, <1>5, <1>6 DEF Folds
  <1>8. Is(f)
    BY <1>7, Zenon
  <1> HIDE DEF f
  <1>9. PICK at \in [0 .. n -> LineState(C)] :
          at[0] = LinesStart /\ at[n] = f[1 .. n] /\ \A k \in 1 .. n : at[k] = step[<<at[k - 1], k>>]
    <2>1. Stepwise(f, LineState(C), LinesStart, step, n)
      BY <1>4, <1>6, <1>8 DEF Stepwise
    <2>2. Runs(LineState(C), LinesStart, step, n, f[1 .. n])
      <3> HIDE DEF Is
      <3> QED BY <1>1, <1>3, <1>s, <2>1, FoldRuns
    <2> QED BY <2>2 DEF Runs
  <1>a. \A k \in 1 .. n : at[k] = LineRead(at[k - 1], raw[k])
    <2>1. \A k \in 1 .. n : k - 1 \in 0 .. n
      BY <1>1
    <2> QED BY <1>4, <1>9, <2>1
  <1>b. split_lines(raw) = Lines(at[n])
    BY <1>2, <1>9, Zenon DEF split_lines, Lines
  <1> QED BY <1>9, <1>a, <1>b DEF n

\* split_lines of what combine made of both outputs: the lines of the one, then those
\* of the other.
LEMMA TailsAreWhole ==
  ASSUME NEW C, LineFeed \in C, NEW out \in Seq(C), NEW err \in Seq(C)
  PROVE  split_lines(combine(out, err)) = split_lines(out) \o split_lines(err)
  <1> DEFINE n == Len(out)
             m == Len(err)
  <1>1. PICK a \in [0 .. n -> LineState(C)] :
           /\ a[0] = LinesStart /\ split_lines(out) = Lines(a[n])
           /\ \A k \in 1 .. n : a[k] = LineRead(a[k - 1], out[k])
    BY LinesRun
  <1>2. PICK e \in [0 .. m -> LineState(C)] :
           /\ e[0] = LinesStart /\ split_lines(err) = Lines(e[m])
           /\ \A k \in 1 .. m : e[k] = LineRead(e[k - 1], err[k])
    BY LinesRun
  <1>3. /\ n \in Nat /\ m \in Nat /\ (\A k \in 1 .. n : out[k] \in C) /\ (\A k \in 1 .. m : err[k] \in C)
        /\ (n # 0 => Last(out) = out[n]) /\ (n = 0 <=> out = <<>>) /\ (m = 0 <=> err = <<>>)
    BY DEF Last
  <1> HIDE DEF n, m
  <1> DEFINE ls == split_lines(out)
  <1>4. ls \in Seq(Seq(C)) /\ LinesStart = Amid(<<>>, <<>>)
    <2>1. a[n] \in LineState(C)
      BY <1>1, <1>3
    <2>2. Lines(a[n]) \in Seq(Seq(C))
      BY <2>1 DEF LineState, Lines
    <2> QED BY <1>1, <2>2 DEF LinesStart, Amid
  <1>e. Lines(LinesStart) = <<>>
    BY DEF Lines, LinesStart
  \* Once stdout has been read to the start of a line, stderr adds its own.
  <1>5. ASSUME NEW raw \in Seq(C), NEW o \in Nat, Len(raw) = o + m, \A j \in 1 .. m : raw[o + j] = err[j],
               NEW r \in [0 .. o + m -> LineState(C)], r[o] = Amid(ls, <<>>),
               \A k \in 1 .. o + m : r[k] = LineRead(r[k - 1], raw[k])
        PROVE  Lines(r[o + m]) = ls \o split_lines(err)
    <2> HIDE DEF ls
    <2> DEFINE S == {j \in 0 .. m : r[o + j] = Behind(ls, e[j])}
    <2>1. 0 \in S
      <3>1. Behind(ls, e[0]) = Amid(ls \o <<>>, <<>>)
        BY <1>2, <1>4 DEF Behind, Amid
      <3>2. ls \o <<>> = ls
        BY <1>4
      <3>3. o + 0 = o /\ 0 \in 0 .. m
        BY <1>3, <1>5
      <3>4. r[o + 0] = Behind(ls, e[0])
        BY <1>5, <3>1, <3>2, <3>3
      <3> QED BY <3>3, <3>4
    <2>2. ASSUME NEW j \in 1 .. m, j - 1 \in S PROVE j \in S
      <3>1. o + j \in 1 .. o + m /\ (o + j) - 1 = o + (j - 1) /\ j - 1 \in 0 .. m /\ j \in 0 .. m
        BY <1>3, <1>5
      <3>2. r[o + (j - 1)] = Behind(ls, e[j - 1])
        BY <2>2
      <3> HIDE DEF S
      <3>3. r[o + j] = LineRead(Behind(ls, e[j - 1]), err[j])
        BY <1>5, <3>1, <3>2
      <3>4. e[j - 1] \in LineState(C) /\ err[j] \in C
        BY <1>2, <1>3, <3>1
      <3>5. LineRead(Behind(ls, e[j - 1]), err[j]) = Behind(ls, LineRead(e[j - 1], err[j]))
        BY <1>4, <3>4, LinesGoBefore
      <3>6. e[j] = LineRead(e[j - 1], err[j])
        BY <1>2
      <3>7. r[o + j] = Behind(ls, e[j])
        BY <3>3, <3>5, <3>6
      <3> QED BY <3>1, <3>7 DEF S
    <2> HIDE DEF S
    <2>3. m \in 0 .. m
      BY <1>3
    <2>4. m \in S
      BY <1>3, <2>1, <2>2, <2>3, InductUpTo
    <2>5. r[o + m] = Behind(ls, e[m]) /\ e[m] \in LineState(C)
      BY <1>2, <2>3, <2>4 DEF S
    <2>6. Lines(Behind(ls, e[m])) = ls \o Lines(e[m])
      BY <1>4, <2>5, LinesGoBefore
    <2> QED BY <1>2, <2>5, <2>6
  <1>6. CASE err = <<>>
    <2>1. split_lines(err) = <<>>
      BY <1>2, <1>3, <1>6, <1>e
    <2>2. combine(out, err) = out /\ ls \o <<>> = ls
      BY <1>4, <1>6 DEF combine
    <2> QED BY <2>1, <2>2
  <1>7. CASE err # <<>> /\ out = <<>>
    <2>1. ls = <<>>
      BY <1>1, <1>3, <1>7, <1>e
    <2>2. combine(out, err) = err
      <3>1. <<>> \o err = err
        OBVIOUS
      <3> QED BY <1>7, <3>1 DEF combine
    <2>3. Lines(e[m]) \in Seq(Seq(C))
      <3>1. e[m] \in LineState(C)
        BY <1>2, <1>3
      <3> QED BY <3>1 DEF LineState, Lines
    <2>4. <<>> \o split_lines(err) = split_lines(err)
      BY <1>2, <2>3
    <2> QED BY <2>1, <2>2, <2>4
  <1>8. CASE err # <<>> /\ out # <<>>
    <2> DEFINE raw == combine(out, err)
               s == a[n - 1]
    <2>1. n \in 1 .. n /\ n - 1 \in 0 .. n /\ out[n] \in C
      BY <1>3, <1>8
    <2>2. s \in LineState(C) /\ a[n] \in LineState(C) /\ a[n] = LineRead(s, out[n])
      BY <1>1, <1>3, <2>1
    <2>3. s = Amid(s.lines, s.line) \/ s = Returned(s.lines)
      BY <2>2, LineStates
    <2> HIDE DEF s
    <2>4. CASE out[n] = LineFeed
      <3>1. raw = out \o err
        BY <1>3, <1>8, <2>4 DEF combine, LineFeed
      <3>2. raw \in Seq(C) /\ Len(raw) = n + m /\ (\A j \in 1 .. m : raw[n + j] = err[j])
            /\ \A k \in 1 .. n : raw[k] = out[k]
        BY <3>1 DEF n, m
      <3> HIDE DEF raw
      <3>r. PICK r \in [0 .. Len(raw) -> LineState(C)] :
              /\ r[0] = LinesStart /\ split_lines(raw) = Lines(r[Len(raw)])
              /\ \A k \in 1 .. Len(raw) : r[k] = LineRead(r[k - 1], raw[k])
        BY <3>2, LinesRun
      <3>3. /\ r \in [0 .. n + m -> LineState(C)]
            /\ r[0] = LinesStart /\ split_lines(raw) = Lines(r[n + m])
            /\ \A k \in 1 .. n + m : r[k] = LineRead(r[k - 1], raw[k])
        BY <3>2, <3>r
      <3>4. r[n] = a[n]
        <4>1. ASSUME NEW k \in 1 .. n, r[k - 1] = a[k - 1] PROVE r[k] = a[k]
          <5>1. k \in 1 .. n + m
            BY <1>3
          <5> QED BY <1>1, <3>2, <3>3, <4>1, <5>1
        <4>2. r[0] = a[0]
          BY <1>1, <3>3
        <4> QED BY <1>3, <4>1, <4>2, RunsAgree
      <3>5. a[n] = Amid(ls, <<>>)
        <4>1. a[n] = Amid(s.lines, <<>>) \/ a[n] = Amid(Append(s.lines, s.line), <<>>)
          BY <2>2, <2>3, <2>4, LineFeedIs, ReturnIs, OtherIs
        <4>2. \A x : Lines(Amid(x, <<>>)) = x
          BY DEF Lines, Amid
        <4> QED BY <1>1, <4>1, <4>2
      <3> HIDE DEF ls
      <3>6. Lines(r[n + m]) = ls \o split_lines(err)
        BY <1>3, <1>5, <3>2, <3>3, <3>4, <3>5
      <3> QED BY <3>3, <3>6 DEF ls, raw
    <2>5. CASE out[n] # LineFeed
      <3> DEFINE o == n + 1
                 nl == <<LineFeed>>
      <3>1. raw = (out \o nl) \o err
        BY <1>3, <1>8, <2>5 DEF combine, LineFeed
      <3>n. nl \in Seq(C) /\ Len(nl) = 1 /\ nl[1] = LineFeed /\ o \in Nat
        BY <1>3
      <3> HIDE DEF nl
      <3>2. raw \in Seq(C) /\ Len(raw) = o + m /\ (\A j \in 1 .. m : raw[o + j] = err[j])
            /\ (\A k \in 1 .. n : raw[k] = out[k]) /\ raw[o] = LineFeed
        <4> DEFINE head == out \o nl
        <4>j. Joint(C, out, nl, head) /\ Joint(C, head, err, head \o err)
          <5>1. Joint(C, out, nl, head)
            BY <3>n, JointIs, Zenon
          <5> HIDE DEF head
          <5>2. head \in Seq(C)
            BY <5>1 DEF Joint
          <5> QED BY <5>1, <5>2, JointIs, Zenon
        <4>2. raw = head \o err
          BY <3>1 DEF head
        <4> HIDE DEF head
        <4>1. head \in Seq(C) /\ Len(head) = o /\ (\A k \in 1 .. n : head[k] = out[k]) /\ head[o] = nl[1]
          BY <3>n, <4>j DEF n, Joint
        <4>3. /\ raw \in Seq(C) /\ Len(raw) = o + m /\ (\A j \in 1 .. m : raw[o + j] = err[j])
              /\ \A k \in 1 .. o : raw[k] = head[k]
          <5>1. Joint(C, head, err, raw)
            BY <4>2, <4>j, Zenon
          <5> QED BY <4>1, <5>1 DEF m, Joint
        <4>4. \A k \in 1 .. n : k \in 1 .. o
          BY <1>3
        <4>5. o \in 1 .. o
          BY <1>3
        <4> QED BY <3>n, <4>1, <4>3, <4>4, <4>5
      <3> HIDE DEF raw
      <3>r. PICK r \in [0 .. Len(raw) -> LineState(C)] :
              /\ r[0] = LinesStart /\ split_lines(raw) = Lines(r[Len(raw)])
              /\ \A k \in 1 .. Len(raw) : r[k] = LineRead(r[k - 1], raw[k])
        BY <3>2, LinesRun
      <3>3. /\ r \in [0 .. o + m -> LineState(C)]
            /\ r[0] = LinesStart /\ split_lines(raw) = Lines(r[o + m])
            /\ \A k \in 1 .. o + m : r[k] = LineRead(r[k - 1], raw[k])
        BY <3>2, <3>r
      <3>4. r[n] = a[n]
        <4>1. ASSUME NEW k \in 1 .. n, r[k - 1] = a[k - 1] PROVE r[k] = a[k]
          <5>1. k \in 1 .. o + m
            BY <1>3
          <5> QED BY <1>1, <3>2, <3>3, <4>1, <5>1
        <4>2. r[0] = a[0]
          BY <1>1, <3>3
        <4> QED BY <1>3, <4>1, <4>2, RunsAgree
      <3>5. r[o] = Amid(ls, <<>>)
        <4>1. o \in 1 .. o + m /\ o - 1 = n
          BY <1>3
        <4>2. r[o] = LineRead(a[n], LineFeed)
          BY <3>2, <3>3, <3>4, <4>1
        <4>3. CASE out[n] = Return
          <5>1. PICK x : a[n] = Returned(x)
            <6>1. CASE s = Amid(s.lines, s.line)
              BY <2>2, <4>3, <6>1, ReturnIs
            <6>2. CASE s = Returned(s.lines)
              BY <2>2, <4>3, <6>2, ReturnIs
            <6> QED BY <2>3, <6>1, <6>2
          <5>2. ls = x
            BY <1>1, <5>1 DEF Lines, Returned
          <5> QED BY <4>2, <5>1, <5>2, LineFeedIs, ReturnIs, OtherIs
        <4>4. CASE out[n] # Return
          <5>1. PICK x, y : a[n] = Amid(x, y) /\ y # <<>>
            <6>1. a[n] = Amid(s.lines, Append(s.line, out[n])) \/ a[n] = Amid(s.lines, Append(<<>>, out[n]))
              BY <2>2, <2>3, <2>5, <4>4, LineFeedIs, ReturnIs, OtherIs
            <6>2. s.line \in Seq(C)
              BY <2>2, LineStates
            <6>3. \A z \in Seq(C), c \in C : Append(z, c) # <<>>
              BY AppendedNotEmpty
            <6>4. Append(s.line, out[n]) # <<>> /\ Append(<<>>, out[n]) # <<>>
              <7>1. <<>> \in Seq(C)
                OBVIOUS
              <7> QED BY <2>1, <6>2, <6>3, <7>1
            <6> QED BY <6>1, <6>4
          <5>2. ls = Append(x, y)
            BY <1>1, <5>1 DEF Lines, Amid
          <5>3. LineRead(Amid(x, y), LineFeed) = Amid(Append(x, y), <<>>)
            BY LineFeedIs, ReturnIs, OtherIs
          <5> QED BY <4>2, <5>1, <5>2, <5>3
        <4> QED BY <4>3, <4>4
      <3> HIDE DEF ls
      <3>6. Lines(r[o + m]) = ls \o split_lines(err)
        <4> HIDE DEF o
        <4> QED BY <1>5, <3>n, <3>2, <3>3, <3>5
      <3> QED BY <3>3, <3>6 DEF ls, raw
    <2> QED BY <2>4, <2>5
  <1> QED BY <1>6, <1>7, <1>8

-----------------------------------------------------------------------------
(* The two sides of an edit script. *)

LineOn(T) == [text : T, nl : BOOLEAN]
EditOn(T) == [sigil : {" ", "-", "+"}, line : LineOn(T)]

LEMMA Associates ==
  ASSUME NEW T, NEW a \in Seq(T), NEW b \in Seq(T), NEW c \in Seq(T)
  PROVE  (a \o b) \o c = a \o (b \o c) /\ a \o b \in Seq(T)
  OBVIOUS

LEMMA OneMore ==
  ASSUME NEW T, NEW a \in Seq(T), NEW e \in T
  PROVE  Append(a, e) = a \o <<e>> /\ <<e>> \in Seq(T)
  OBVIOUS

LEMMA SideType ==
  ASSUME NEW T, NEW s \in Seq(EditOn(T)), NEW sigils
  PROVE  Side(s, sigils) \in Seq(LineOn(T))
  <1> DEFINE kept == At(s, {k \in DOMAIN s : s[k].sigil \in sigils})
  <1>1. kept \in Seq(EditOn(T))
    BY AtPicked
  <1>2. Side(s, sigils) = [k \in DOMAIN kept |-> kept[k].line]
    BY DEF Side
  <1> HIDE DEF kept
  <1>3. Len(kept) \in Nat /\ DOMAIN kept = 1..Len(kept) /\ \A k \in 1..Len(kept) : kept[k] \in EditOn(T)
    BY <1>1
  <1>4. \A k \in 1..Len(kept) : kept[k].line \in LineOn(T)
    BY <1>3 DEF EditOn
  <1> QED BY <1>2, <1>3, <1>4

LEMMA SideNothing ==
  ASSUME NEW sigils
  PROVE  Side(<<>>, sigils) = <<>>
  BY AtNothing DEF Side

LEMMA SideAppended ==
  ASSUME NEW T, NEW s \in Seq(EditOn(T)), NEW e \in EditOn(T), NEW sigils
  PROVE  Side(Append(s, e), sigils) = IF e.sigil \in sigils THEN Append(Side(s, sigils), e.line)
                                      ELSE Side(s, sigils)
  <1> DEFINE more == Append(s, e)
             n == Len(s)
             places == {k \in DOMAIN s : s[k].sigil \in sigils}
             others == {k \in DOMAIN more : more[k].sigil \in sigils}
             kept == At(s, places)
  <1>1. /\ n \in Nat /\ DOMAIN s = 1..n /\ DOMAIN more = 1..(n + 1)
        /\ more[n + 1] = e /\ \A k \in 1..n : more[k] = s[k]
    OBVIOUS
  <1> HIDE DEF more, n
  <1>2. \A k \in 1..n : k \in others <=> k \in places
    BY <1>1
  <1>3. n + 1 \in others <=> e.sigil \in sigils
    BY <1>1
  <1> HIDE DEF others
  <1>4. At(s, others) = kept
    BY <1>2, AtSame DEF n
  <1>5. At(more, others) = IF n + 1 \in others THEN Append(At(s, others), e) ELSE At(s, others)
    BY AtAppended DEF more, n
  <1>6. kept \in Seq(EditOn(T))
    BY AtPicked
  <1>7. Side(s, sigils) = [k \in DOMAIN kept |-> kept[k].line]
    BY DEF Side
  <1>8. Side(more, sigils) = [k \in DOMAIN At(more, others) |-> At(more, others)[k].line]
    BY DEF Side, others
  <1> HIDE DEF kept
  <1>9. CASE e.sigil \in sigils
    <2> DEFINE long == Append(kept, e)
    <2>1. At(more, others) = long
      BY <1>3, <1>4, <1>5, <1>9
    <2>2. /\ DOMAIN kept = 1..Len(kept) /\ Len(kept) \in Nat /\ DOMAIN long = 1..(Len(kept) + 1)
          /\ long[Len(kept) + 1] = e /\ \A k \in 1..Len(kept) : long[k] = kept[k]
      BY <1>6
    <2>3. Append([k \in 1..Len(kept) |-> kept[k].line], e.line) = [k \in 1..(Len(kept) + 1) |-> long[k].line]
      <3> DEFINE a == [k \in 1..Len(kept) |-> kept[k].line]
                 L == {kept[k].line : k \in 1..Len(kept)} \cup {e.line}
      <3>1. a \in Seq(L) /\ Len(a) = Len(kept) /\ e.line \in L
        BY <2>2
      <3>2. \A k \in 1..Len(kept) : a[k] = kept[k].line
        OBVIOUS
      <3> HIDE DEF a, L
      <3>3. /\ Append(a, e.line) = [k \in 1..(Len(kept) + 1) |-> Append(a, e.line)[k]]
            /\ Append(a, e.line)[Len(kept) + 1] = e.line
            /\ \A k \in 1..Len(kept) : Append(a, e.line)[k] = a[k]
        BY <2>2, <3>1
      <3>4. \A k \in 1..(Len(kept) + 1) : Append(a, e.line)[k] = long[k].line
        <4> SUFFICES ASSUME NEW k \in 1..(Len(kept) + 1) PROVE Append(a, e.line)[k] = long[k].line
          OBVIOUS
        <4>1. k \in 1..Len(kept) \/ k = Len(kept) + 1
          BY <2>2
        <4> HIDE DEF long
        <4> QED BY <2>2, <3>2, <3>3, <4>1
      <3> HIDE DEF long
      <3>5. Append(a, e.line) = [k \in 1..(Len(kept) + 1) |-> long[k].line]
        BY <3>3, <3>4
      <3> QED BY <3>5 DEF a
    <2> HIDE DEF long
    <2> QED BY <1>7, <1>8, <1>9, <2>1, <2>2, <2>3 DEF more
  <1>10. CASE e.sigil \notin sigils
    <2>1. At(more, others) = kept
      BY <1>3, <1>4, <1>5, <1>10
    <2> QED BY <1>7, <1>8, <1>10, <2>1 DEF more
  <1> QED BY <1>9, <1>10

\* A side of two scripts, one after the other, is that of one, then of the other.
LEMMA SideJoined ==
  ASSUME NEW T, NEW a \in Seq(EditOn(T)), NEW b \in Seq(EditOn(T)), NEW sigils
  PROVE  Side(a \o b, sigils) = Side(a, sigils) \o Side(b, sigils)
  <1> DEFINE n == Len(b)
             Upto(k) == SubSeq(b, 1, k)
             P(k) == Side(a \o Upto(k), sigils) = Side(a, sigils) \o Side(Upto(k), sigils)
             S == {k \in 0..n : P(k)}
  <1>1. /\ n \in Nat /\ Upto(0) = <<>> /\ Upto(n) = b
        /\ \A k \in 1..n : /\ b[k] \in EditOn(T) /\ Upto(k - 1) \in Seq(EditOn(T))
                           /\ Append(Upto(k - 1), b[k]) = Upto(k)
    BY GrowsByOne
  <1> HIDE DEF n, Upto
  <1>2. P(0)
    <2>1. Side(a, sigils) \in Seq(LineOn(T)) /\ Side(<<>>, sigils) = <<>>
      BY SideType, SideNothing
    <2>2. a \o <<>> = a /\ Side(a, sigils) \o <<>> = Side(a, sigils)
      BY <2>1
    <2> QED BY <1>1, <2>1, <2>2
  <1>3. ASSUME NEW k \in 1..n, P(k - 1) PROVE P(k)
    <2> DEFINE c == Upto(k - 1)
               e == b[k]
    <2>1. c \in Seq(EditOn(T)) /\ e \in EditOn(T) /\ Upto(k) = Append(c, e)
      BY <1>1
    <2>2. Side(a \o c, sigils) = Side(a, sigils) \o Side(c, sigils)
      BY <1>3
    <2> HIDE DEF c, e
    <2>3. a \o Append(c, e) = Append(a \o c, e) /\ a \o c \in Seq(EditOn(T))
      BY <2>1
    <2>4. Side(Append(a \o c, e), sigils) = IF e.sigil \in sigils THEN Append(Side(a \o c, sigils), e.line)
                                            ELSE Side(a \o c, sigils)
      <3> DEFINE ac == a \o c
      <3>1. ac \in Seq(EditOn(T))
        BY <2>3
      <3> HIDE DEF ac
      <3>2. Side(Append(ac, e), sigils) = IF e.sigil \in sigils THEN Append(Side(ac, sigils), e.line)
                                          ELSE Side(ac, sigils)
        BY <2>1, <3>1, SideAppended
      <3> QED BY <3>2 DEF ac
    <2>5. Side(Append(c, e), sigils) = IF e.sigil \in sigils THEN Append(Side(c, sigils), e.line)
                                       ELSE Side(c, sigils)
      BY <2>1, SideAppended
    <2>6. Side(a, sigils) \in Seq(LineOn(T)) /\ Side(c, sigils) \in Seq(LineOn(T)) /\ e.line \in LineOn(T)
      <3>1. e.line \in LineOn(T)
        BY <2>1 DEF EditOn
      <3> QED BY <2>1, <3>1, SideType
    <2>7. Append(Side(a, sigils) \o Side(c, sigils), e.line) = Side(a, sigils) \o Append(Side(c, sigils), e.line)
      <3> DEFINE x == Side(a, sigils)
                 y == Side(c, sigils)
                 l == e.line
      <3>1. x \in Seq(LineOn(T)) /\ y \in Seq(LineOn(T)) /\ l \in LineOn(T)
        BY <2>6
      <3> HIDE DEF x, y, l
      <3>a. x \o y \in Seq(LineOn(T)) /\ <<l>> \in Seq(LineOn(T))
        BY <3>1
      <3>b. Append(x \o y, l) = (x \o y) \o <<l>>
        BY <3>1, <3>a, OneMore
      <3>c. Append(y, l) = y \o <<l>>
        BY <3>1, OneMore
      <3>d. (x \o y) \o <<l>> = x \o (y \o <<l>>)
        BY <3>1, <3>a, Associates
      <3>2. Append(x \o y, l) = x \o Append(y, l)
        BY <3>b, <3>c, <3>d, Zenon
      <3> QED BY <3>2 DEF x, y, l
    <2> QED BY <2>1, <2>2, <2>3, <2>4, <2>5, <2>7
  <1> HIDE DEF P
  <1>4. P(n)
    <2>1. 0 \in S /\ n \in 0..n
      BY <1>1, <1>2
    <2>2. \A k \in 1..n : k - 1 \in S => k \in S
      BY <1>3
    <2> HIDE DEF S
    <2>3. n \in S
      BY <1>1, <2>1, <2>2, InductUpTo
    <2> QED BY <2>3 DEF S
  <1> QED BY <1>1, <1>4 DEF P

\* A sequence up to a place, and on to another.
LEMMA Pieces ==
  ASSUME NEW T, NEW s \in Seq(T), NEW j \in 0..Len(s), NEW i \in 0..j
  PROVE  /\ SubSeq(s, 1, i) \in Seq(T) /\ SubSeq(s, i + 1, j) \in Seq(T) /\ SubSeq(s, 1, j) \in Seq(T)
         /\ SubSeq(s, 1, j) = SubSeq(s, 1, i) \o SubSeq(s, i + 1, j)
  <1>1. SubSeq(s, 1, i) \in Seq(T) /\ SubSeq(s, i + 1, j) \in Seq(T) /\ SubSeq(s, 1, j) \in Seq(T)
    OBVIOUS
  <1>2. SubSeq(s, 1, j) = SubSeq(s, 1, i) \o SubSeq(s, i + 1, j)
    OBVIOUS
  <1> QED BY <1>1, <1>2

\* What is in the middle of a sequence.
Amidst(whole, a, b, T) ==
    /\ SubSeq(whole, Len(a) + 1, Len(a) + Len(b)) = b
    /\ \A j \in 1..Len(b) : whole[Len(a) + j] = b[j]
    /\ Len(a) + Len(b) \in 0..Len(whole) /\ whole \in Seq(T)

LEMMA Middle ==
  ASSUME NEW T, NEW a \in Seq(T), NEW b \in Seq(T), NEW c \in Seq(T), NEW whole,
         whole = (a \o b) \o c
  PROVE  Amidst(whole, a, b, T)
  <1>1. whole \in Seq(T) /\ Len(whole) = Len(a) + Len(b) + Len(c)
    OBVIOUS
  <1>2. \A j \in 1..Len(b) : whole[Len(a) + j] = b[j]
    OBVIOUS
  <1>3. SubSeq(whole, Len(a) + 1, Len(a) + Len(b)) = b
    OBVIOUS
  <1> QED BY <1>1, <1>2, <1>3 DEF Amidst

\* A side of a script up to a place is that up to an earlier one and that of what is between.
LEMMA SideGoesOn ==
  ASSUME NEW T, NEW s \in Seq(EditOn(T)), NEW sigils, NEW j \in 0..Len(s), NEW i \in 0..j
  PROVE  /\ Side(SubSeq(s, 1, j), sigils) = Side(SubSeq(s, 1, i), sigils) \o Side(SubSeq(s, i + 1, j), sigils)
         /\ Side(SubSeq(s, 1, j), sigils) \in Seq(LineOn(T))
         /\ Side(SubSeq(s, 1, i), sigils) \in Seq(LineOn(T))
         /\ Side(SubSeq(s, i + 1, j), sigils) \in Seq(LineOn(T))
  <1>1. /\ SubSeq(s, 1, i) \in Seq(EditOn(T)) /\ SubSeq(s, i + 1, j) \in Seq(EditOn(T))
        /\ SubSeq(s, 1, j) \in Seq(EditOn(T))
        /\ SubSeq(s, 1, j) = SubSeq(s, 1, i) \o SubSeq(s, i + 1, j)
    BY Pieces
  <1> DEFINE a == SubSeq(s, 1, i)
             b == SubSeq(s, i + 1, j)
             c == SubSeq(s, 1, j)
  <1>2. a \in Seq(EditOn(T)) /\ b \in Seq(EditOn(T)) /\ c \in Seq(EditOn(T)) /\ c = a \o b
    BY <1>1
  <1> HIDE DEF a, b, c
  <1>3. Side(a \o b, sigils) = Side(a, sigils) \o Side(b, sigils)
    BY <1>2, SideJoined
  <1>4. Side(a, sigils) \in Seq(LineOn(T)) /\ Side(b, sigils) \in Seq(LineOn(T)) /\ Side(c, sigils) \in Seq(LineOn(T))
    BY <1>2, SideType
  <1> QED BY <1>2, <1>3, <1>4 DEF a, b, c

\* Where every line is kept, the sides are the same.
LEMMA SidesAgree ==
  ASSUME NEW T, NEW s \in Seq(EditOn(T)), \A k \in 1..Len(s) : s[k].sigil = " "
  PROVE  LeftOf(s) = RightOf(s)
  <1> DEFINE left == {k \in DOMAIN s : s[k].sigil \in {" ", "-"}}
             right == {k \in DOMAIN s : s[k].sigil \in {" ", "+"}}
  <1>1. \A k \in 1..Len(s) : k \in left <=> k \in right
    OBVIOUS
  <1>2. At(s, left) = At(s, right)
    <2> HIDE DEF left, right
    <2> QED BY <1>1, AtSame
  <1> QED BY <1>2 DEF LeftOf, RightOf, Side

-----------------------------------------------------------------------------
(* Hunks. *)

\* Where the stretches of a set of places begin, and where each ends.
Firsts(near) == {p \in near : p - 1 \notin near}
EndOf(near, p) == CHOOSE q \in near : /\ p <= q /\ q + 1 \notin near
                                       /\ p..q \subseteq near

\* Each has an end.
LEMMA EndExists ==
  ASSUME NEW n \in Nat, NEW near \in SUBSET (1..n), NEW p \in near
  PROVE  LET q == EndOf(near, p)
         IN  q \in near /\ p <= q /\ q + 1 \notin near /\ p..q \subseteq near
  <1> DEFINE d == {q \in near : p <= q /\ p..q \subseteq near}
  <1>1. d \in SUBSET (1..n) /\ p \in d
    <2>1. p \in 1..n /\ p..p \subseteq near /\ p <= p
      OBVIOUS
    <2> QED BY <2>1
  <1>2. Max(d) \in d /\ \A x \in d : Max(d) >= x
    BY <1>1, MaxIsIn
  <1> DEFINE q == Max(d)
  <1>3. q \in near /\ p <= q /\ p..q \subseteq near /\ \A x \in d : q >= x
    BY <1>2
  <1>4. q + 1 \notin near
    <2> HIDE DEF q
    <2> SUFFICES ASSUME q + 1 \in near PROVE FALSE
      OBVIOUS
    <2>1. p \in Nat /\ q \in Nat
      BY <1>3
    <2>2. \A x \in p..(q + 1) : x \in p..q \/ x = q + 1
      BY <2>1
    <2>3. q + 1 \in d
      BY <1>3, <2>1, <2>2
    <2> QED BY <1>3, <2>1, <2>3
  <1> HIDE DEF q
  <1> QED BY <1>3, <1>4 DEF EndOf

\* What is in a stretch has the beginning of it before.
LEMMA BeginExists ==
  ASSUME NEW n \in Nat, NEW near \in SUBSET (1..n), NEW x \in near
  PROVE  \E p \in Firsts(near) : p <= x /\ p..x \subseteq near
  <1> DEFINE S == {m \in Nat : \A y \in near : y <= m => \E p \in Firsts(near) : p <= y /\ p..y \subseteq near}
  <1>1. 0 \in S
    OBVIOUS
  <1>2. ASSUME NEW m \in Nat, m \in S PROVE m + 1 \in S
    <2> SUFFICES ASSUME NEW y \in near, y <= m + 1 PROVE \E p \in Firsts(near) : p <= y /\ p..y \subseteq near
      OBVIOUS
    <2>0. y \in 1..n
      OBVIOUS
    <2>1. CASE y <= m
      BY <1>2, <2>1
    <2>2. CASE y - 1 \notin near
      <3>1. y \in Firsts(near) /\ y <= y /\ y..y \subseteq near
        BY <2>0, <2>2 DEF Firsts
      <3> QED BY <3>1
    <2>3. CASE y - 1 \in near /\ y = m + 1
      <3>1. y - 1 <= m
        BY <2>3
      <3>2. PICK p \in Firsts(near) : p <= y - 1 /\ p..(y - 1) \subseteq near
        BY <1>2, <2>3, <3>1
      <3>3. p \in near /\ p \in 1..n
        BY DEF Firsts
      <3>4. \A z \in p..y : z \in p..(y - 1) \/ z = y
        BY <2>0, <3>3
      <3>5. p <= y
        BY <2>0, <3>2, <3>3
      <3> QED BY <3>2, <3>4, <3>5
    <2> QED BY <2>0, <2>1, <2>2, <2>3
  <1> HIDE DEF S
  <1>3. n \in S
    BY <1>1, <1>2, SetInduction
  <1>4. x <= n
    OBVIOUS
  <1> QED BY <1>3, <1>4 DEF S

\* Up to where the first k stretches go.
Done(near, k) == IF k = 0 THEN 0 ELSE EndOf(near, Ascending(Firsts(near))[k])

\* They are apart, and there is nothing between them.
LEMMA Stretches ==
  ASSUME NEW n \in Nat, NEW near \in SUBSET (1..n)
  PROVE  LET starts == Ascending(Firsts(near))
             m == Cardinality(Firsts(near))
         IN  /\ m \in Nat /\ DOMAIN starts = 1..m /\ starts \in Seq(Nat) /\ Len(starts) = m
             /\ Done(near, 0) = 0
             /\ \A k \in 0..m : Done(near, k) \in 0..n
             /\ \A k \in 1..m : /\ starts[k] \in 1..n /\ Done(near, k) = EndOf(near, starts[k])
                                /\ Done(near, k - 1) < starts[k] /\ starts[k] <= Done(near, k)
             /\ \A k \in 1..m : \A x \in (Done(near, k - 1) + 1)..(starts[k] - 1) : x \notin near
             /\ \A x \in (Done(near, m) + 1)..n : x \notin near
  <1> DEFINE F == Firsts(near)
             starts == Ascending(F)
             m == Cardinality(F)
  <1>1. F \in SUBSET Nat /\ IsFiniteSet(F) /\ F \subseteq near
    <2>1. F \subseteq 1..n /\ F \subseteq near
      BY DEF Firsts
    <2> HIDE DEF F
    <2>2. IsFiniteSet(1..n) /\ (1..n) \subseteq Nat
      BY FS_Interval
    <2>3. IsFiniteSet(F)
      BY <2>1, <2>2, FS_Subset
    <2> QED BY <2>1, <2>2, <2>3
  <1>f. \A p \in F : p \in near /\ p - 1 \notin near
    BY DEF Firsts
  <1> HIDE DEF F
  <1>2. m \in Nat
    BY <1>1, FS_CardinalityType
  <1>3. /\ starts \in [1..m -> F]
        /\ \A x \in F : Rank(F, x) \in 1..m /\ starts[Rank(F, x)] = x
        /\ \A k \in 1..m : Rank(F, starts[k]) = k
    BY <1>1, AscendingByRank, RanksAscend
  <1>4. \A x, y \in F : x < y => Rank(F, x) < Rank(F, y)
    BY <1>1, RanksAscend
  <1>5. \A i, j \in 1..m : i < j => starts[i] < starts[j]
    BY <1>1, AscendingIsSorted
  <1> HIDE DEF m, starts
  <1>6. starts \in Seq(Nat) /\ Len(starts) = m /\ DOMAIN starts = 1..m
    <2>1. starts \in [1..m -> Nat]
      BY <1>1, <1>3
    <2> QED BY <1>2, <2>1
  <1> DEFINE E(k) == IF k = 0 THEN 0 ELSE EndOf(near, starts[k])
  <1>7. \A k \in 1..m : /\ starts[k] \in F /\ starts[k] \in near /\ starts[k] \in 1..n /\ starts[k] - 1 \notin near
    BY <1>1, <1>3, <1>f
  <1>8. \A k \in 1..m : /\ E(k) = EndOf(near, starts[k]) /\ E(k) \in near /\ E(k) \in 1..n /\ starts[k] <= E(k)
                        /\ E(k) + 1 \notin near /\ starts[k]..E(k) \subseteq near
    <2> SUFFICES ASSUME NEW k \in 1..m
                 PROVE  /\ E(k) = EndOf(near, starts[k]) /\ E(k) \in near /\ E(k) \in 1..n /\ starts[k] <= E(k)
                        /\ E(k) + 1 \notin near /\ starts[k]..E(k) \subseteq near
      OBVIOUS
    <2>1. E(k) = EndOf(near, starts[k])
      OBVIOUS
    <2>2. starts[k] \in near
      BY <1>7
    <2> HIDE DEF E
    <2>3. E(k) \in near /\ starts[k] <= E(k) /\ E(k) + 1 \notin near /\ starts[k]..E(k) \subseteq near
      BY <2>1, <2>2, EndExists
    <2> QED BY <2>1, <2>3
  <1>9. E(0) = 0
    OBVIOUS
  <1> HIDE DEF E
  <1>10. ASSUME NEW k \in 0..m, NEW x \in near, E(k) < x PROVE k < m /\ starts[k + 1] <= x
    <2>0. x \in 1..n
      OBVIOUS
    <2>1. PICK p \in F : p <= x /\ p..x \subseteq near
      BY BeginExists DEF F
    <2>2. p \in near /\ p \in 1..n
      BY <1>f, <2>1
    <2>3. Rank(F, p) \in 1..m /\ starts[Rank(F, p)] = p
      BY <1>3
    <2> DEFINE r == Rank(F, p)
    <2>4. k < r
      <3>1. CASE k = 0
        BY <2>3, <3>1
      <3>2. CASE k # 0
        <4>1. k \in 1..m
          BY <3>2, <1>2
        <4>2. E(k) + 1 \notin near /\ E(k) \in 1..n /\ starts[k] <= E(k) /\ starts[k] \in F /\ starts[k] \in 1..n
          BY <1>7, <1>8, <4>1
        <4>3. E(k) < p
          <5> SUFFICES ASSUME ~ (E(k) < p) PROVE FALSE
            OBVIOUS
          <5>1. E(k) + 1 \in p..x
            BY <1>10, <2>0, <2>2, <4>2
          <5> QED BY <2>1, <4>2, <5>1
        <4>4. starts[k] < p
          BY <2>2, <4>2, <4>3
        <4>5. Rank(F, starts[k]) < Rank(F, p)
          BY <1>4, <4>2, <4>4
        <4> QED BY <1>3, <4>1, <4>5
      <3> QED BY <3>1, <3>2
    <2>5. r \in 1..m /\ starts[r] = p
      BY <2>3
    <2> HIDE DEF r
    <2>6. k < m /\ k + 1 \in 1..m /\ (k + 1 = r \/ k + 1 < r)
      BY <1>2, <2>4, <2>5
    <2>7. starts[k + 1] <= p
      <3>1. CASE k + 1 = r
        BY <2>2, <2>5, <3>1
      <3>2. CASE k + 1 < r
        <4>1. starts[k + 1] < starts[r]
          BY <1>5, <2>5, <2>6, <3>2
        <4> QED BY <1>7, <2>2, <2>5, <2>6, <4>1
      <3> QED BY <2>6, <3>1, <3>2
    <2> QED BY <1>7, <2>0, <2>1, <2>2, <2>6, <2>7
  <1>11. ASSUME NEW k \in 1..m PROVE E(k - 1) < starts[k]
    <2>1. starts[k] \in 1..n
      BY <1>7
    <2>2. CASE k = 1
      BY <1>9, <2>1, <2>2
    <2>3. CASE k # 1
      <3>1. k - 1 \in 1..m
        BY <1>2, <2>3
      <3>2. starts[k - 1] < starts[k] /\ starts[k - 1] \in 1..n
        BY <1>5, <1>7, <3>1
      <3>3. E(k - 1) \in 1..n /\ starts[k - 1]..E(k - 1) \subseteq near
        BY <1>8, <3>1
      <3>4. starts[k] - 1 \notin starts[k - 1]..E(k - 1)
        BY <1>7, <3>3
      <3> QED BY <2>1, <3>2, <3>3, <3>4
    <2> QED BY <2>2, <2>3
  <1>12. \A k \in 0..m : E(k) \in 0..n
    <2> SUFFICES ASSUME NEW k \in 0..m PROVE E(k) \in 0..n
      OBVIOUS
    <2>1. k = 0 \/ k \in 1..m
      OBVIOUS
    <2> QED BY <1>8, <1>9, <2>1
  <1>13. ASSUME NEW k \in 1..m, NEW x \in (E(k - 1) + 1)..(starts[k] - 1) PROVE x \notin near
    <2>1. k - 1 \in 0..m /\ (k - 1) + 1 = k
      BY <1>2
    <2>2. E(k - 1) \in 0..n /\ starts[k] \in 1..n
      BY <1>7, <1>12, <2>1
    <2>3. E(k - 1) < x /\ ~ (starts[k] <= x)
      BY <2>2
    <2> QED BY <1>10, <2>1, <2>3
  <1>14. ASSUME NEW x \in (E(m) + 1)..n PROVE x \notin near
    <2>1. m \in 0..m /\ ~ (m < m)
      BY <1>2
    <2>2. E(m) \in 0..n
      BY <1>12, <2>1
    <2>3. E(m) < x
      BY <2>2
    <2> QED BY <1>10, <2>1, <2>3
  <1>15. \A k : Done(near, k) = E(k)
    BY DEF Done, E, starts, F
  <1> QED BY <1>2, <1>6, <1>7, <1>8, <1>9, <1>11, <1>12, <1>13, <1>14, <1>15 DEF m, starts, F

-----------------------------------------------------------------------------
(* The body of a hunk, and applying one. *)

\* The lines of a hunk as they are written down.
Body(lines) ==
    [j \in DOMAIN lines |-> [sigil |-> lines[j].sigil, text |-> lines[j].line.text,
                             remark |-> ~lines[j].line.nl]]
BodyOn(T) == [sigil : {" ", "-", "+"}, text : T, remark : BOOLEAN]
Without(body, sigil) == At(body, {k \in DOMAIN body : body[k].sigil # sigil})

\* The elements of a sequence, and of one given by its elements.
LEMMA Elements ==
  ASSUME NEW T, NEW s \in Seq(T)
  PROVE  Len(s) \in Nat /\ DOMAIN s = 1..Len(s) /\ \A k \in 1..Len(s) : s[k] \in T
  OBVIOUS

LEMMA FromElements ==
  ASSUME NEW T, NEW n \in Nat, NEW s \in [1..n -> T]
  PROVE  s \in Seq(T) /\ Len(s) = n /\ DOMAIN s = 1..n
  OBVIOUS

\* What two sequences have at the same places.
Paired(s, a, T, t, b, U) ==
    /\ a \in Seq(T) /\ b \in Seq(U) /\ Len(b) = Len(a)
    /\ \E idx : \A j \in 1..Len(a) : idx[j] \in 1..Len(s) /\ a[j] = s[idx[j]] /\ b[j] = t[idx[j]]

LEMMA PickedAlike ==
  ASSUME NEW T, NEW s \in Seq(T), NEW U, NEW t \in Seq(U), Len(t) = Len(s), NEW places, NEW others,
         \A k \in 1..Len(s) : k \in places <=> k \in others
  PROVE  Paired(s, At(s, places), T, t, At(t, others), U)
  <1> DEFINE idx == Picked(Len(s), places)
  <1>1. /\ At(s, places) \in Seq(T) /\ Len(At(s, places)) = Len(idx)
        /\ \A j \in 1..Len(idx) : idx[j] \in 1..Len(s) /\ At(s, places)[j] = s[idx[j]]
    BY AtPicked
  <1>2. At(t, others) = At(t, places)
    BY AtSame
  <1>3. /\ At(t, places) \in Seq(U) /\ Len(At(t, places)) = Len(Picked(Len(t), places))
        /\ \A j \in 1..Len(Picked(Len(t), places)) : At(t, places)[j] = t[Picked(Len(t), places)[j]]
    BY AtPicked
  <1>4. Picked(Len(t), places) = idx
    OBVIOUS
  <1> HIDE DEF idx
  <1> DEFINE a == At(s, places)
             b == At(t, others)
  <1>5. /\ a \in Seq(T) /\ b \in Seq(U) /\ Len(a) = Len(idx) /\ Len(b) = Len(idx)
        /\ \A j \in 1..Len(idx) : idx[j] \in 1..Len(s) /\ a[j] = s[idx[j]] /\ b[j] = t[idx[j]]
    BY <1>1, <1>2, <1>3, <1>4
  <1> HIDE DEF a, b
  <1>6. \A j \in 1..Len(a) : idx[j] \in 1..Len(s) /\ a[j] = s[idx[j]] /\ b[j] = t[idx[j]]
    BY <1>5
  <1>7. Paired(s, a, T, t, b, U)
    BY <1>5, <1>6 DEF Paired
  <1> QED BY <1>7 DEF a, b

Written(kept, side, T) ==
    /\ side \in Seq(LineOn(T)) /\ Len(kept) = Len(side) /\ DOMAIN kept = 1..Len(side)
    /\ \A j \in 1..Len(side) : kept[j].text = side[j].text /\ kept[j].remark = ~ side[j].nl

\* Without the lines of one side, they are those of the other.
LEMMA BodyIsSide ==
  ASSUME NEW T, NEW s \in Seq(EditOn(T)), NEW x, NEW sigils,
         \A g \in {" ", "-", "+"} : g \in sigils <=> g # x
  PROVE  Written(Without(Body(s), x), Side(s, sigils), T)
  <1> DEFINE body == Body(s)
             n == Len(s)
             places == {k \in DOMAIN s : s[k].sigil \in sigils}
             others == {k \in DOMAIN body : body[k].sigil # x}
             kept == At(body, others)
             side == At(s, places)
  <1>1. /\ n \in Nat /\ DOMAIN s = 1..n /\ \A k \in 1..n : s[k] \in EditOn(T)
    BY Elements, Zenon
  <1>2. \A k \in 1..n : /\ s[k].sigil \in {" ", "-", "+"} /\ s[k].line \in LineOn(T)
                        /\ s[k].line.text \in T /\ s[k].line.nl \in BOOLEAN
    BY <1>1 DEF EditOn, LineOn
  <1>3. body = [k \in 1..n |-> [sigil |-> s[k].sigil, text |-> s[k].line.text, remark |-> ~s[k].line.nl]]
    BY <1>1 DEF Body
  <1> HIDE DEF n, body
  <1>4. \A k \in 1..n : /\ body[k].sigil = s[k].sigil /\ body[k].text = s[k].line.text
                        /\ body[k].remark = ~s[k].line.nl
    BY <1>3
  <1>5. body \in Seq(BodyOn(T)) /\ Len(body) = n /\ DOMAIN body = 1..n
    <2>1. \A k \in 1..n : [sigil |-> s[k].sigil, text |-> s[k].line.text, remark |-> ~s[k].line.nl] \in BodyOn(T)
      BY <1>2 DEF BodyOn
    <2>2. body \in [1..n -> BodyOn(T)]
      BY <1>3, <2>1
    <2> QED BY <1>1, <2>2, FromElements, Zenon
  <1>6. ASSUME NEW k \in 1..n PROVE k \in others <=> k \in places
    <2>1. k \in others <=> s[k].sigil # x
      BY <1>4, <1>5
    <2>2. k \in places <=> s[k].sigil \in sigils
      BY <1>1
    <2> HIDE DEF others, places
    <2> QED BY <1>2, <2>1, <2>2
  <1>7. Paired(s, side, EditOn(T), body, kept, BodyOn(T))
    <2> HIDE DEF places, others
    <2>1. Len(body) = Len(s) /\ \A k \in 1..Len(s) : k \in places <=> k \in others
      BY <1>5, <1>6 DEF n
    <2> QED BY <1>5, <2>1, PickedAlike
  <1>8. PICK idx : /\ side \in Seq(EditOn(T)) /\ kept \in Seq(BodyOn(T)) /\ Len(kept) = Len(side)
                   /\ \A j \in 1..Len(side) : idx[j] \in 1..n /\ side[j] = s[idx[j]] /\ kept[j] = body[idx[j]]
    <2> HIDE DEF kept, side
    <2> QED BY <1>7 DEF Paired, n
  <1>10. Side(s, sigils) \in Seq(LineOn(T)) /\ Side(s, sigils) = [k \in DOMAIN side |-> side[k].line]
    BY SideType DEF Side
  <1>11. Without(Body(s), x) = kept
    BY DEF Without, body
  <1> HIDE DEF kept, side
  <1>12. DOMAIN side = 1..Len(side) /\ Len(side) \in Nat /\ DOMAIN kept = 1..Len(kept)
    BY <1>8, Elements
  <1>13. Len(Side(s, sigils)) = Len(side)
    <2> DEFINE texts == [k \in 1..Len(side) |-> side[k].line]
    <2>1. Side(s, sigils) = texts /\ texts \in Seq(LineOn(T))
      BY <1>10, <1>12
    <2>2. texts \in [1..Len(side) -> LineOn(T)]
      <3>1. \A k \in 1..Len(side) : side[k] \in EditOn(T)
        BY <1>8, Elements
      <3>2. \A k \in 1..Len(side) : side[k].line \in LineOn(T)
        BY <3>1 DEF EditOn
      <3> QED BY <3>2
    <2> HIDE DEF texts
    <2>3. Len(texts) = Len(side)
      BY <1>12, <2>2, FromElements
    <2> QED BY <2>1, <2>3
  <1>14. \A j \in 1..Len(side) : /\ kept[j].text = Side(s, sigils)[j].text
                                 /\ kept[j].remark = ~ Side(s, sigils)[j].nl
    <2> SUFFICES ASSUME NEW j \in 1..Len(side) PROVE /\ kept[j].text = Side(s, sigils)[j].text
                                                     /\ kept[j].remark = ~ Side(s, sigils)[j].nl
      OBVIOUS
    <2>1. Side(s, sigils)[j] = side[j].line
      BY <1>10, <1>12
    <2>2. idx[j] \in 1..n /\ side[j] = s[idx[j]] /\ kept[j] = body[idx[j]]
      BY <1>8
    <2> QED BY <1>4, <2>1, <2>2
  <1> QED BY <1>8, <1>10, <1>11, <1>12, <1>13, <1>14 DEF Written

\* A hunk, from how many lines are before it and the edits it has.
HunkOf(left, right, edits) ==
    [from |-> hunk_start(left, Len(LeftOf(edits))), from_len |-> Len(LeftOf(edits)),
     to |-> hunk_start(right, Len(RightOf(edits))), to_len |-> Len(RightOf(edits)),
     body |-> Body(edits)]

\* What it gives.
LEMMA HunkGives ==
  ASSUME NEW T, NEW edits \in Seq(EditOn(T)), NEW left, NEW right
  PROVE  LET new == Without(HunkOf(left, right, edits).body, "-")
         IN  [k \in DOMAIN new |-> [text |-> new[k].text, nl |-> ~new[k].remark]] = RightOf(edits)
  <1> DEFINE new == Without(Body(edits), "-")
             side == Side(edits, {" ", "+"})
  <1>1. /\ side \in Seq(LineOn(T)) /\ DOMAIN new = 1..Len(side)
        /\ \A j \in 1..Len(side) : new[j].text = side[j].text /\ new[j].remark = ~ side[j].nl
    <2> DEFINE sigils == {" ", "+"}
               x == "-"
    <2>1. \A g \in {" ", "-", "+"} : g \in sigils <=> g # x
      OBVIOUS
    <2> HIDE DEF sigils, x
    <2>2. Written(Without(Body(edits), x), Side(edits, sigils), T)
      BY <2>1, BodyIsSide
    <2> QED BY <2>2 DEF sigils, x, Written
  <1> HIDE DEF new, side
  <1>2. \A j \in 1..Len(side) : side[j] = [text |-> new[j].text, nl |-> ~new[j].remark]
    <2> SUFFICES ASSUME NEW j \in 1..Len(side) PROVE side[j] = [text |-> new[j].text, nl |-> ~new[j].remark]
      OBVIOUS
    <2>1. side[j] \in LineOn(T)
      BY <1>1, Elements
    <2>2. side[j].nl \in BOOLEAN /\ side[j] = [text |-> side[j].text, nl |-> side[j].nl]
      BY <2>1 DEF LineOn
    <2>3. new[j].text = side[j].text /\ new[j].remark = ~ side[j].nl
      BY <1>1
    <2>4. (~ new[j].remark) = side[j].nl
      BY <2>2, <2>3
    <2> QED BY <2>2, <2>3, <2>4
  <1>3. side = [k \in 1..Len(side) |-> side[k]]
    BY <1>1
  <1>4. [k \in DOMAIN new |-> [text |-> new[k].text, nl |-> ~new[k].remark]] = side
    BY <1>1, <1>2, <1>3
  <1>5. HunkOf(left, right, edits).body = Body(edits)
    BY DEF HunkOf
  <1> QED BY <1>4, <1>5 DEF new, side, RightOf

\* How far a patch is applied.
Progress(out, read) == [out |-> out, read |-> read]

\* Applied, it copies the lines before it, and puts its own.
LEMMA ApplyIs ==
  ASSUME NEW T, NEW lines, NEW out, NEW read, NEW edits \in Seq(EditOn(T)), NEW left \in Nat, NEW right
  PROVE  ApplyHunk(Progress(out, read), HunkOf(left, right, edits), lines) =
           Progress(out \o SubSeq(lines, read + 1, left) \o RightOf(edits), left + Len(LeftOf(edits)))
  <1> DEFINE h == HunkOf(left, right, edits)
             done == Progress(out, read)
             start == IF h.from_len = 0 THEN h.from ELSE h.from - 1
             new == Without(h.body, "-")
             gives == [k \in DOMAIN new |-> [text |-> new[k].text, nl |-> ~new[k].remark]]
  <1>1. ApplyHunk(done, h, lines) =
          [out |-> done.out \o SubSeq(lines, done.read + 1, start) \o gives, read |-> start + h.from_len]
    BY Zenon DEF ApplyHunk, Without
  <1>2. gives = RightOf(edits)
    BY HunkGives
  <1>3. h.from_len = Len(LeftOf(edits)) /\ h.from = hunk_start(left, Len(LeftOf(edits)))
    BY DEF HunkOf
  <1>4. start = left
    BY <1>3 DEF hunk_start
  <1>5. done.out = out /\ done.read = read
    BY DEF Progress
  <1> HIDE DEF h, done, start, gives
  <1> QED BY <1>1, <1>2, <1>3, <1>4, <1>5 DEF h, done, Progress

\* All hunks, one after another.
Fresh == Progress(<<>>, 0)
Patched(hunks, lines) == FoldLeft(LAMBDA done, h : ApplyHunk(done, h, lines), Fresh, hunks)

IsHunk(h, lines, T) ==
    \E left \in 0..Len(lines), right \in Nat, edits \in Seq(EditOn(T)) : h = HunkOf(left, right, edits)
Applies(at, hunks, lines, n) ==
    at[0] = Fresh /\ \A k \in 1..n : at[k] = ApplyHunk(at[k - 1], hunks[k], lines)

LEMMA PatchedRuns ==
  ASSUME NEW T, NEW lines \in Seq(LineOn(T)), NEW n \in Nat, NEW hunks, DOMAIN hunks = 1..n,
         \A k \in 1..n : IsHunk(hunks[k], lines, T), NEW at, Applies(at, hunks, lines, n)
  PROVE  Patched(hunks, lines) = at[n]
  <1> DEFINE State == [out : Seq(LineOn(T)), read : Nat]
             next(x, k) == ApplyHunk(x, hunks[k], lines)
             Is(g) == g = [d \in SUBSET (1..n) |-> IF d = {} THEN Fresh
                                                   ELSE next(g[d \ {Max(d)}], Max(d))]
             f == CHOOSE g : Is(g)
             step == [p \in State \X (1..n) |-> next(p[1], p[2])]
  <1>2. Patched(hunks, lines) = f[1..n]
    BY Zenon DEF Patched, FoldLeft, MapThenFoldSet
  <1>n. ASSUME NEW x \in State, NEW k \in 1..n PROVE next(x, k) \in State
    <2>1. PICK left \in 0..Len(lines), right \in Nat, edits \in Seq(EditOn(T)) :
            hunks[k] = HunkOf(left, right, edits)
      BY DEF IsHunk
    <2>2. x = Progress(x.out, x.read) /\ x.out \in Seq(LineOn(T)) /\ x.read \in Nat
      BY DEF Progress
    <2>3. left \in Nat
      OBVIOUS
    <2> HIDE DEF State
    <2>4. next(x, k) = Progress(x.out \o SubSeq(lines, x.read + 1, left) \o RightOf(edits),
                                left + Len(LeftOf(edits)))
      <3> DEFINE o == x.out
                 r == x.read
      <3>1. next(x, k) = ApplyHunk(Progress(o, r), HunkOf(left, right, edits), lines)
        BY <2>1, <2>2
      <3> HIDE DEF o, r, next
      <3>2. ApplyHunk(Progress(o, r), HunkOf(left, right, edits), lines) =
              Progress(o \o SubSeq(lines, r + 1, left) \o RightOf(edits), left + Len(LeftOf(edits)))
        BY <2>3, ApplyIs
      <3>3. next(x, k) = Progress(o \o SubSeq(lines, r + 1, left) \o RightOf(edits),
                                  left + Len(LeftOf(edits)))
        BY <3>1, <3>2, Zenon
      <3> QED BY <3>3, Zenon DEF o, r
    <2>5. RightOf(edits) \in Seq(LineOn(T)) /\ LeftOf(edits) \in Seq(LineOn(T))
      BY SideType DEF LeftOf, RightOf
    <2>6. SubSeq(lines, x.read + 1, left) \in Seq(LineOn(T))
      BY <2>2
    <2> DEFINE a == x.out
               b == SubSeq(lines, x.read + 1, left)
               c == RightOf(edits)
    <2>7. (a \o b) \o c \in Seq(LineOn(T))
      <3>1. a \in Seq(LineOn(T)) /\ b \in Seq(LineOn(T)) /\ c \in Seq(LineOn(T))
        BY <2>2, <2>5, <2>6
      <3> HIDE DEF a, b, c
      <3> QED BY <3>1
    <2>8. left + Len(LeftOf(edits)) \in Nat
      BY <2>3, <2>5
    <2> HIDE DEF a, b, c
    <2> HIDE DEF next
    <2>9. next(x, k) = Progress((a \o b) \o c, left + Len(LeftOf(edits)))
      BY <2>4 DEF a, b, c
    <2> QED BY <2>7, <2>8, <2>9 DEF State, Progress
  <1>s. Fresh \in State
    BY DEF Fresh, Progress
  <1> HIDE DEF next, State
  <1>3. step \in [State \X (1..n) -> State]
    BY <1>n
  <1>4. \A x \in State, k \in 1..n : step[<<x, k>>] = next(x, k)
    OBVIOUS
  <1> HIDE DEF step
  <1>5. PICK g \in [SUBSET (1..n) -> State] : Folds(g, Fresh, step, n)
    BY <1>3, <1>s, FoldExists
  <1>6. \A d \in SUBSET (1..n) : d # {} => Max(d) \in 1..n /\ d \ {Max(d)} \in SUBSET (1..n)
    BY MaxIsIn
  <1>7. Is(g)
    BY <1>4, <1>5, <1>6 DEF Folds
  <1>8. Is(f)
    BY <1>7, Zenon
  <1> HIDE DEF f
  <1>9. PICK run \in [0..n -> State] :
          run[0] = Fresh /\ run[n] = f[1..n] /\ \A k \in 1..n : run[k] = step[<<run[k - 1], k>>]
    <2>1. Stepwise(f, State, Fresh, step, n)
      BY <1>4, <1>6, <1>8 DEF Stepwise
    <2>2. Runs(State, Fresh, step, n, f[1..n])
      <3> HIDE DEF Is
      <3> QED BY <1>3, <1>s, <2>1, FoldRuns
    <2> QED BY <2>2 DEF Runs
  <1>a. \A k \in 1..n : run[k - 1] = at[k - 1] => run[k] = at[k]
    <2> SUFFICES ASSUME NEW k \in 1..n, run[k - 1] = at[k - 1] PROVE run[k] = at[k]
      OBVIOUS
    <2>1. k - 1 \in 0..n
      OBVIOUS
    <2>2. run[k] = next(run[k - 1], k)
      BY <1>4, <1>9, <2>1
    <2>3. at[k] = next(at[k - 1], k)
      BY DEF next, Applies
    <2> QED BY <2>2, <2>3
  <1>b. run[n] = at[n]
    <2>1. run[0] = at[0]
      BY <1>9 DEF Applies
    <2> QED BY <1>a, <2>1, RunsAgree
  <1> QED BY <1>2, <1>9, <1>b

-----------------------------------------------------------------------------
(* One hunk after another. *)

\* How far it is once the first k edits are done.
Reached(s, k) == Progress(RightOf(SubSeq(s, 1, k)), Len(LeftOf(SubSeq(s, 1, k))))

\* The hunk of the edits from p to q.
HunkIn(s, p, q) ==
    HunkOf(Len(LeftOf(SubSeq(s, 1, p - 1))), Len(RightOf(SubSeq(s, 1, p - 1))), SubSeq(s, p, q))

\* What a side has of a stretch of the script is what it has before it, and then.
Goes(x, y, z, T) == x = y \o z /\ x \in Seq(LineOn(T)) /\ y \in Seq(LineOn(T)) /\ z \in Seq(LineOn(T))

LEMMA SideGoes ==
  ASSUME NEW T, NEW s \in Seq(EditOn(T)), NEW j \in 0..Len(s), NEW i \in 0..j
  PROVE  /\ Goes(LeftOf(SubSeq(s, 1, j)), LeftOf(SubSeq(s, 1, i)), LeftOf(SubSeq(s, i + 1, j)), T)
         /\ Goes(RightOf(SubSeq(s, 1, j)), RightOf(SubSeq(s, 1, i)), RightOf(SubSeq(s, i + 1, j)), T)
  BY SideGoesOn DEF Goes, LeftOf, RightOf

Taken(whole, e, l, c, u, E, d, U) ==
    /\ E \o SubSeq(whole, Len(e) + 1, Len(l)) \o d = U
    /\ Len(l) + Len(c) = Len(u) /\ Len(l) \in 0..Len(whole)

\* Lines that are copied, and then lines that are put.
LEMMA CopiedThenPut ==
  ASSUME NEW T, NEW e, NEW g, NEW l, NEW c, NEW u, NEW rest, NEW whole, NEW E, NEW R, NEW d, NEW U,
         Goes(l, e, g, T), Goes(u, l, c, T), Goes(whole, u, rest, T),
         Goes(R, E, g, T), Goes(U, R, d, T)
  PROVE  Taken(whole, e, l, c, u, E, d, U)
  <1> DEFINE S == LineOn(T)
  <1>1. /\ l = e \o g /\ u = l \o c /\ whole = u \o rest /\ R = E \o g /\ U = R \o d
        /\ e \in Seq(S) /\ g \in Seq(S) /\ l \in Seq(S) /\ c \in Seq(S) /\ u \in Seq(S)
        /\ rest \in Seq(S) /\ E \in Seq(S) /\ R \in Seq(S) /\ d \in Seq(S)
    BY DEF Goes
  <1> HIDE DEF S
  <1> DEFINE more == c \o rest
  <1>2. more \in Seq(S) /\ whole = l \o more
    <2>1. (l \o c) \o rest = l \o (c \o rest)
      <3>1. l \in Seq(S) /\ c \in Seq(S) /\ rest \in Seq(S)
        BY <1>1
      <3> QED BY <3>1, Associates
    <2>2. c \o rest \in Seq(S)
      BY <1>1
    <2>3. whole = (l \o c) \o rest
      BY <1>1, Zenon
    <2> QED BY <2>1, <2>2, <2>3, Zenon
  <1> HIDE DEF more
  <1>3. Amidst(whole, e, g, S)
    BY <1>1, <1>2, Middle
  <1>4. Len(l) = Len(e) + Len(g) /\ Len(u) = Len(l) + Len(c)
    BY <1>1
  <1>5. SubSeq(whole, Len(e) + 1, Len(l)) = g /\ Len(l) \in 0..Len(whole)
    BY <1>3, <1>4 DEF Amidst
  <1> QED BY <1>1, <1>4, <1>5 DEF Taken

\* A hunk takes a patch from the edits before it, kept since the one before, to its last.
AllKept(s, i, j) == \A x \in i..j : s[x].sigil = " "

LEMMA KeptInCut ==
  ASSUME NEW T, NEW s \in Seq(EditOn(T)), NEW j \in 0..Len(s), NEW i \in 0..j, AllKept(s, i + 1, j)
  PROVE  LeftOf(SubSeq(s, i + 1, j)) = RightOf(SubSeq(s, i + 1, j))
  <1> DEFINE gap == SubSeq(s, i + 1, j)
  <1>1. gap \in Seq(EditOn(T)) /\ Len(gap) = j - i /\ \A k \in 1..Len(gap) : gap[k] = s[i + k]
    OBVIOUS
  <1>2. \A k \in 1..Len(gap) : i + k \in (i + 1)..j
    <2> HIDE DEF gap
    <2> QED BY <1>1
  <1> HIDE DEF gap
  <1>3. \A k \in 1..Len(gap) : gap[k].sigil = " "
    BY <1>1, <1>2 DEF AllKept
  <1> QED BY <1>1, <1>3, SidesAgree DEF gap

LEMMA HunkStep ==
  ASSUME NEW T, NEW s \in Seq(EditOn(T)), NEW e \in Nat, NEW p \in 1..Len(s), NEW q \in p..Len(s),
         e < p, AllKept(s, e + 1, p - 1)
  PROVE  /\ ApplyHunk(Reached(s, e), HunkIn(s, p, q), LeftOf(s)) = Reached(s, q)
         /\ Len(LeftOf(SubSeq(s, 1, p - 1))) \in 0..Len(LeftOf(s))
         /\ Len(RightOf(SubSeq(s, 1, p - 1))) \in Nat /\ SubSeq(s, p, q) \in Seq(EditOn(T))
  <1> DEFINE n == Len(s)
             gap == SubSeq(s, e + 1, p - 1)
             edits == SubSeq(s, p, q)
             rest == SubSeq(s, q + 1, n)
  <1>1. /\ n \in Nat /\ p - 1 \in 0..n /\ e \in 0..(p - 1) /\ q \in 0..n /\ p - 1 \in 0..q /\ n \in 0..n
        /\ q \in 0..n /\ (p - 1) + 1 = p /\ p - 1 \in Nat
    OBVIOUS
  <1>2. SubSeq(s, 1, n) = s
    OBVIOUS
  <1>3. gap \in Seq(EditOn(T)) /\ edits \in Seq(EditOn(T))
    OBVIOUS
  <1>4. LeftOf(gap) = RightOf(gap)
    BY <1>1, KeptInCut
  <1> DEFINE l0 == LeftOf(SubSeq(s, 1, e))
             l1 == LeftOf(SubSeq(s, 1, p - 1))
             l2 == LeftOf(SubSeq(s, 1, q))
             r0 == RightOf(SubSeq(s, 1, e))
             r1 == RightOf(SubSeq(s, 1, p - 1))
             r2 == RightOf(SubSeq(s, 1, q))
             whole == LeftOf(s)
  <1>5. Goes(l1, l0, LeftOf(gap), T) /\ Goes(r1, r0, RightOf(gap), T)
    BY <1>1, SideGoes
  <1>6. Goes(l2, l1, LeftOf(edits), T) /\ Goes(r2, r1, RightOf(edits), T)
    <2>1. edits = SubSeq(s, (p - 1) + 1, q)
      BY <1>1
    <2> HIDE DEF edits, n
    <2> QED BY <1>1, <2>1, SideGoes DEF n
  <1>7. Goes(whole, l2, LeftOf(rest), T)
    <2>1. Goes(LeftOf(SubSeq(s, 1, n)), l2, LeftOf(rest), T)
      BY <1>1, SideGoes
    <2> QED BY <1>2, <2>1
  <1>8. ApplyHunk(Reached(s, e), HunkIn(s, p, q), LeftOf(s)) =
          Progress(r0 \o SubSeq(whole, Len(l0) + 1, Len(l1)) \o RightOf(edits), Len(l1) + Len(LeftOf(edits)))
    <2>1. Len(l1) \in Nat
      BY <1>5 DEF Goes
    <2>2. Reached(s, e) = Progress(r0, Len(l0))
      BY DEF Reached
    <2>3. HunkIn(s, p, q) = HunkOf(Len(l1), Len(r1), edits)
      BY DEF HunkIn
    <2> HIDE DEF l0, l1, l2, r0, r1, r2, whole, edits
    <2>4. ApplyHunk(Progress(r0, Len(l0)), HunkOf(Len(l1), Len(r1), edits), whole) =
            Progress(r0 \o SubSeq(whole, Len(l0) + 1, Len(l1)) \o RightOf(edits), Len(l1) + Len(LeftOf(edits)))
      BY <1>3, <2>1, ApplyIs
    <2> QED BY <2>2, <2>3, <2>4 DEF whole
  <1>9. Len(r1) \in Nat
    BY <1>5 DEF Goes
  <1> DEFINE g == LeftOf(gap)
             c == LeftOf(edits)
             d == RightOf(edits)
             o == LeftOf(rest)
  <1>10. /\ Goes(l1, l0, g, T) /\ Goes(l2, l1, c, T) /\ Goes(whole, l2, o, T)
         /\ Goes(r1, r0, g, T) /\ Goes(r2, r1, d, T)
    BY <1>4, <1>5, <1>6, <1>7
  <1>11. Reached(s, q) = Progress(r2, Len(l2))
    BY DEF Reached
  <1> HIDE DEF l0, l1, l2, r0, r1, r2, whole, g, c, d, o
  <1>12. Taken(whole, l0, l1, c, l2, r0, d, r2)
    BY <1>10, CopiedThenPut
  <1> QED BY <1>3, <1>8, <1>9, <1>11, <1>12 DEF Taken, l1, r1, c, d, whole

-----------------------------------------------------------------------------
(* What the hunks of a patch are. *)

\* The places of the changes, and those close to them.
NearOf(s, context) ==
    {p \in DOMAIN s : \E q \in DOMAIN s : s[q].sigil # " " /\ p - q \in -context..context}

LEMMA WriteIs ==
  ASSUME NEW hunks
  PROVE  write_hunks(hunks) = [k \in DOMAIN hunks |-> HunkOf(hunks[k].left, hunks[k].right, hunks[k].lines)]
  BY Zenon DEF write_hunks, HunkOf, Body

\* A hunk is written for each stretch of these places.
LEMMA HunksAre ==
  ASSUME NEW s, NEW context
  PROVE  LET near == NearOf(s, context)
             starts == Ascending(Firsts(near))
         IN  write_hunks(unified_diff_hunks(s, context)) =
               [k \in DOMAIN starts |-> HunkIn(s, starts[k], EndOf(near, starts[k]))]
  <1> DEFINE near == NearOf(s, context)
             starts == Ascending(Firsts(near))
             cut(k) == [left |-> Len(LeftOf(SubSeq(s, 1, starts[k] - 1))),
                        right |-> Len(RightOf(SubSeq(s, 1, starts[k] - 1))),
                        lines |-> SubSeq(s, starts[k], EndOf(near, starts[k]))]
             hunks == unified_diff_hunks(s, context)
  <1>1. hunks = [k \in DOMAIN starts |-> cut(k)]
    BY Zenon DEF unified_diff_hunks, NearOf, Firsts, EndOf
  <1>2. \A k : HunkOf(cut(k).left, cut(k).right, cut(k).lines) = HunkIn(s, starts[k], EndOf(near, starts[k]))
    BY Zenon DEF HunkIn
  <1>3. write_hunks(hunks) = [k \in DOMAIN hunks |-> HunkOf(hunks[k].left, hunks[k].right, hunks[k].lines)]
    BY WriteIs
  <1> HIDE DEF hunks, cut, starts
  <1>4. DOMAIN hunks = DOMAIN starts /\ \A k \in DOMAIN starts : hunks[k] = cut(k)
    BY <1>1
  <1>5. write_hunks(hunks) = [k \in DOMAIN starts |-> HunkIn(s, starts[k], EndOf(near, starts[k]))]
    <2> HIDE DEF near
    <2> QED BY <1>2, <1>3, <1>4
  <1> QED BY <1>5, Zenon DEF hunks, starts

\* Its numbers are those of the lines it takes and gives.
LEMMA SideIsNamed ==
  ASSUME NEW T, NEW whole, NEW before \in Seq(LineOn(T)), NEW side, NEW kept,
         Amidst(whole, before, side, LineOn(T)), Written(kept, side, T)
  PROVE  \A k \in DOMAIN kept : whole[hunk_start(Len(before), Len(side)) + k - 1].text = kept[k].text
  <1> SUFFICES ASSUME NEW k \in DOMAIN kept
               PROVE  whole[hunk_start(Len(before), Len(side)) + k - 1].text = kept[k].text
    OBVIOUS
  <1>1. k \in 1..Len(side) /\ kept[k].text = side[k].text /\ Len(side) \in Nat /\ Len(before) \in Nat
    BY DEF Written
  <1>2. whole[Len(before) + k] = side[k]
    BY <1>1 DEF Amidst
  <1>3. hunk_start(Len(before), Len(side)) + k - 1 = Len(before) + k
    BY <1>1 DEF hunk_start
  <1> QED BY <1>1, <1>2, <1>3

LEMMA HunkNames ==
  ASSUME NEW T, NEW s \in Seq(EditOn(T)), NEW p \in 1..Len(s), NEW q \in p..Len(s)
  PROVE  NamesItsLines(HunkIn(s, p, q), LeftOf(s), RightOf(s))
  <1> DEFINE n == Len(s)
             edits == SubSeq(s, p, q)
             rest == SubSeq(s, q + 1, n)
             h == HunkIn(s, p, q)
             l == LeftOf(SubSeq(s, 1, p - 1))
             r == RightOf(SubSeq(s, 1, p - 1))
  <1>1. /\ n \in Nat /\ q \in 0..n /\ p - 1 \in 0..q /\ n \in 0..n /\ (p - 1) + 1 = p
        /\ edits \in Seq(EditOn(T))
    OBVIOUS
  <1>2. SubSeq(s, 1, n) = s
    OBVIOUS
  <1>3. /\ Goes(LeftOf(SubSeq(s, 1, q)), l, LeftOf(edits), T)
        /\ Goes(RightOf(SubSeq(s, 1, q)), r, RightOf(edits), T)
    <2>1. edits = SubSeq(s, (p - 1) + 1, q)
      BY <1>1
    <2> HIDE DEF edits, n
    <2> QED BY <1>1, <2>1, SideGoes DEF n
  <1>4. /\ Goes(LeftOf(s), LeftOf(SubSeq(s, 1, q)), LeftOf(rest), T)
        /\ Goes(RightOf(s), RightOf(SubSeq(s, 1, q)), RightOf(rest), T)
    <2>1. /\ Goes(LeftOf(SubSeq(s, 1, n)), LeftOf(SubSeq(s, 1, q)), LeftOf(rest), T)
          /\ Goes(RightOf(SubSeq(s, 1, n)), RightOf(SubSeq(s, 1, q)), RightOf(rest), T)
      BY <1>1, SideGoes
    <2> QED BY <1>2, <2>1
  <1>5. ASSUME NEW a, NEW b, NEW c, NEW d, NEW e, Goes(b, a, c, T), Goes(d, b, e, T)
        PROVE  a \in Seq(LineOn(T)) /\ Amidst(d, a, c, LineOn(T))
    <2>1. /\ a \in Seq(LineOn(T)) /\ c \in Seq(LineOn(T)) /\ e \in Seq(LineOn(T)) /\ d = (a \o c) \o e
      BY <1>5 DEF Goes
    <2> QED BY <2>1, Middle
  <1>6. /\ l \in Seq(LineOn(T)) /\ Amidst(LeftOf(s), l, LeftOf(edits), LineOn(T))
        /\ r \in Seq(LineOn(T)) /\ Amidst(RightOf(s), r, RightOf(edits), LineOn(T))
    <2> HIDE DEF l, r, edits, rest
    <2> QED BY <1>3, <1>4, <1>5
  <1>7. Written(Without(Body(edits), "+"), LeftOf(edits), T)
    <2> DEFINE sigils == {" ", "-"}
               x == "+"
    <2>1. \A g \in {" ", "-", "+"} : g \in sigils <=> g # x
      OBVIOUS
    <2> HIDE DEF sigils, x, edits
    <2>2. Written(Without(Body(edits), x), Side(edits, sigils), T)
      BY <1>1, <2>1, BodyIsSide
    <2> QED BY <2>2 DEF sigils, x, LeftOf
  <1>8. Written(Without(Body(edits), "-"), RightOf(edits), T)
    <2> DEFINE sigils == {" ", "+"}
               x == "-"
    <2>1. \A g \in {" ", "-", "+"} : g \in sigils <=> g # x
      OBVIOUS
    <2> HIDE DEF sigils, x, edits
    <2>2. Written(Without(Body(edits), x), Side(edits, sigils), T)
      BY <1>1, <2>1, BodyIsSide
    <2> QED BY <2>2 DEF sigils, x, RightOf
  <1>9. /\ h.body = Body(edits) /\ h.from = hunk_start(Len(l), Len(LeftOf(edits)))
        /\ h.to = hunk_start(Len(r), Len(RightOf(edits))) /\ h.to_len = Len(RightOf(edits))
    BY DEF HunkIn, HunkOf
  <1>10. Len(Without(Body(edits), "-")) = Len(RightOf(edits))
    BY <1>8 DEF Written
  <1> HIDE DEF h, l, r, edits
  <1>11. \A k \in DOMAIN Without(h.body, "+") : LeftOf(s)[h.from + k - 1].text = Without(h.body, "+")[k].text
    BY <1>6, <1>7, <1>9, SideIsNamed
  <1>12. \A k \in DOMAIN Without(h.body, "-") : RightOf(s)[h.to + k - 1].text = Without(h.body, "-")[k].text
    BY <1>6, <1>8, <1>9, SideIsNamed
  <1>13. h.to_len = Len(Without(h.body, "-"))
    BY <1>9, <1>10
  <1>14. NamesItsLines(h, LeftOf(s), RightOf(s))
    BY <1>11, <1>12, <1>13, Zenon DEF NamesItsLines, Without
  <1> QED BY <1>14 DEF h

\* Applied to the one side of a script, the hunks that write_hunks makes of it give the
\* other, and they name the lines of both.
LEMMA PatchesGiveTheChange ==
  ASSUME NEW T, NEW s \in Seq(EditOn(T)), NEW context \in Nat
  PROVE  LET hunks == write_hunks(unified_diff_hunks(s, context))
             all == Patched(hunks, LeftOf(s))
         IN  /\ all.out \o SubSeq(LeftOf(s), all.read + 1, Len(LeftOf(s))) = RightOf(s)
             /\ \A k \in DOMAIN hunks : NamesItsLines(hunks[k], LeftOf(s), RightOf(s))
  <1> DEFINE n == Len(s)
             near == NearOf(s, context)
             starts == Ascending(Firsts(near))
             m == Cardinality(Firsts(near))
             e(k) == Done(near, k)
             hunks == write_hunks(unified_diff_hunks(s, context))
             lines == LeftOf(s)
             all == Patched(hunks, lines)
  <1>1. n \in Nat /\ DOMAIN s = 1..n /\ near \in SUBSET (1..n)
    <2>1. n \in Nat /\ DOMAIN s = 1..n
      BY Elements
    <2>2. near \subseteq DOMAIN s
      BY DEF NearOf
    <2> HIDE DEF near
    <2> QED BY <2>1, <2>2
  <1>2. ASSUME NEW x \in 1..n, x \notin near PROVE s[x].sigil = " "
    <2>1. x - x \in -context..context
      OBVIOUS
    <2> QED BY <1>1, <1>2, <2>1 DEF NearOf
  <1>h. hunks = [k \in DOMAIN starts |-> HunkIn(s, starts[k], EndOf(near, starts[k]))]
    BY HunksAre, Zenon
  <1> HIDE DEF near, hunks
  <1>3. /\ m \in Nat /\ DOMAIN starts = 1..m
        /\ e(0) = 0
        /\ \A k \in 0..m : e(k) \in 0..n
        /\ \A k \in 1..m : /\ starts[k] \in 1..n /\ e(k) = EndOf(near, starts[k])
                           /\ e(k - 1) < starts[k] /\ starts[k] <= e(k)
        /\ \A k \in 1..m : \A x \in (e(k - 1) + 1)..(starts[k] - 1) : x \notin near
        /\ \A x \in (e(m) + 1)..n : x \notin near
    BY <1>1, Stretches
  <1> HIDE DEF starts, m, e
  <1>4. DOMAIN hunks = 1..m /\ \A k \in 1..m : hunks[k] = HunkIn(s, starts[k], e(k))
    BY <1>3, <1>h
  <1>5. ASSUME NEW k \in 1..m
        PROVE  /\ starts[k] \in 1..Len(s) /\ e(k) \in starts[k]..Len(s) /\ e(k - 1) \in Nat /\ e(k - 1) < starts[k]
               /\ AllKept(s, e(k - 1) + 1, starts[k] - 1)
    <2>1. k \in 0..m /\ k - 1 \in 0..m
      BY <1>3
    <2>2. /\ e(k - 1) \in 0..n /\ e(k) \in 0..n /\ starts[k] \in 1..n /\ e(k - 1) < starts[k] /\ starts[k] <= e(k)
      BY <1>3, <2>1
    <2>3. ASSUME NEW x \in (e(k - 1) + 1)..(starts[k] - 1) PROVE s[x].sigil = " "
      <3>1. x \in 1..n /\ x \notin near
        BY <1>1, <1>3, <2>2
      <3> QED BY <1>2, <3>1
    <2>4. AllKept(s, e(k - 1) + 1, starts[k] - 1)
      BY <2>3 DEF AllKept
    <2> QED BY <1>1, <2>2, <2>4
  <1> DEFINE at == [k \in 0..m |-> Reached(s, e(k))]
  <1>6. at[0] = Fresh
    <2>1. at[0] = Reached(s, 0)
      BY <1>3
    <2>2. SubSeq(s, 1, 0) = <<>> /\ Len(<<>>) = 0
      OBVIOUS
    <2>3. LeftOf(<<>>) = <<>> /\ RightOf(<<>>) = <<>>
      BY SideNothing DEF LeftOf, RightOf
    <2> QED BY <2>1, <2>2, <2>3 DEF Reached, Fresh
  <1>7. ASSUME NEW k \in 1..m
        PROVE  /\ at[k] = ApplyHunk(at[k - 1], hunks[k], lines)
               /\ IsHunk(hunks[k], lines, T)
               /\ NamesItsLines(hunks[k], lines, RightOf(s))
    <2>1. k \in 0..m /\ k - 1 \in 0..m
      BY <1>3
    <2>2. at[k] = Reached(s, e(k)) /\ at[k - 1] = Reached(s, e(k - 1))
      BY <2>1
    <2> HIDE DEF at
    <2> DEFINE p == starts[k]
               q == e(k)
               o == e(k - 1)
    <2>3. p \in 1..Len(s) /\ q \in p..Len(s) /\ o \in Nat /\ o < p /\ AllKept(s, o + 1, p - 1)
      BY <1>5
    <2>4. hunks[k] = HunkIn(s, p, q)
      BY <1>4
    <2> HIDE DEF p, q, o, lines
    <2>5. /\ ApplyHunk(Reached(s, o), HunkIn(s, p, q), LeftOf(s)) = Reached(s, q)
          /\ Len(LeftOf(SubSeq(s, 1, p - 1))) \in 0..Len(LeftOf(s))
          /\ Len(RightOf(SubSeq(s, 1, p - 1))) \in Nat /\ SubSeq(s, p, q) \in Seq(EditOn(T))
      BY <2>3, HunkStep
    <2>6. NamesItsLines(HunkIn(s, p, q), LeftOf(s), RightOf(s))
      BY <2>3, HunkNames
    <2>7. at[k] = ApplyHunk(at[k - 1], hunks[k], lines)
      BY <2>2, <2>4, <2>5 DEF lines, q, o
    <2>8. IsHunk(hunks[k], lines, T)
      BY <2>4, <2>5 DEF lines, HunkIn, IsHunk
    <2> QED BY <2>4, <2>6, <2>7, <2>8 DEF lines
  <1>8. lines \in Seq(LineOn(T))
    BY SideType DEF LeftOf
  <1>9. all = at[m]
    <2> HIDE DEF at, lines
    <2>1. Applies(at, hunks, lines, m)
      BY <1>6, <1>7 DEF Applies
    <2>2. \A k \in 1..m : IsHunk(hunks[k], lines, T)
      BY <1>7
    <2>3. DOMAIN hunks = 1..m /\ m \in Nat
      BY <1>3, <1>4
    <2>4. Patched(hunks, lines) = at[m]
      BY <1>8, <2>1, <2>2, <2>3, PatchedRuns
    <2> QED BY <2>4
  <1> DEFINE o == e(m)
             g == LeftOf(SubSeq(s, o + 1, n))
             l == LeftOf(SubSeq(s, 1, o))
             r == RightOf(SubSeq(s, 1, o))
  <1>10. o \in 0..n /\ n \in 0..n /\ at[m] = Reached(s, o)
    BY <1>1, <1>3
  <1>11. all.out = r /\ all.read = Len(l)
    BY <1>9, <1>10 DEF Reached, Progress
  <1> HIDE DEF all, at
  <1>12. AllKept(s, o + 1, n)
    <2>1. \A x \in (o + 1)..n : x \in 1..n
      BY <1>10
    <2> QED BY <1>2, <1>3, <2>1 DEF AllKept
  <1>13. g = RightOf(SubSeq(s, o + 1, n))
    <2> HIDE DEF o
    <2> QED BY <1>10, <1>12, KeptInCut
  <1>14. Goes(lines, l, g, T) /\ Goes(RightOf(s), r, g, T)
    <2>1. SubSeq(s, 1, n) = s
      OBVIOUS
    <2> HIDE DEF o
    <2>2. /\ Goes(LeftOf(SubSeq(s, 1, n)), l, g, T)
          /\ Goes(RightOf(SubSeq(s, 1, n)), r, RightOf(SubSeq(s, o + 1, n)), T)
      BY <1>10, SideGoes
    <2> QED BY <1>13, <2>1, <2>2
  <1> HIDE DEF g, l, r, lines
  <1>15. /\ lines = l \o g /\ l \in Seq(LineOn(T)) /\ g \in Seq(LineOn(T)) /\ RightOf(s) = r \o g
    BY <1>14 DEF Goes
  <1>16. SubSeq(lines, Len(l) + 1, Len(lines)) = g
    <2>1. SubSeq(l \o g, Len(l) + 1, Len(l \o g)) = g
      <3>1. l \in Seq(LineOn(T)) /\ g \in Seq(LineOn(T))
        BY <1>15
      <3>2. (l \o g) \o <<>> = l \o g /\ <<>> \in Seq(LineOn(T)) /\ Len(l \o g) = Len(l) + Len(g)
        BY <3>1
      <3>3. Amidst(l \o g, l, g, LineOn(T))
        BY <3>1, <3>2, Middle
      <3> QED BY <3>2, <3>3 DEF Amidst
    <2> QED BY <1>15, <2>1, Zenon
  <1>17. all.out \o SubSeq(lines, all.read + 1, Len(lines)) = RightOf(s)
    BY <1>11, <1>15, <1>16
  <1>18. \A k \in DOMAIN hunks : NamesItsLines(hunks[k], lines, RightOf(s))
    BY <1>4, <1>7
  <1> QED BY <1>17, <1>18, Zenon DEF lines, all, hunks

-----------------------------------------------------------------------------
(* Patches. *)

\* What a patch is to be for one file, and for a tree.
GivesFile(diff, left, right) ==
    /\ ApplyStanza(diff, left) = right
    /\ \A k \in DOMAIN diff.hunks : NamesItsLines(diff.hunks[k], left.lines, right.lines)
GivesTree(patch, before, after) ==
    /\ Apply(patch, before) = after
    /\ \A p \in DOMAIN patch : \A k \in DOMAIN patch[p].hunks :
         NamesItsLines(patch[p].hunks[k], before[p].lines, after[p].lines)

\* Without a hunk, nothing is read.
LEMMA PatchedNot ==
  ASSUME NEW T, NEW lines \in Seq(LineOn(T))
  PROVE  Patched(<<>>, lines) = Fresh
  <1> DEFINE at == [k \in 0..0 |-> Fresh]
             none == <<>>
  <1>1. DOMAIN none = 1..0 /\ 1..0 = {} /\ at[0] = Fresh
    OBVIOUS
  <1> HIDE DEF none, at
  <1>2. Applies(at, none, lines, 0) /\ \A k \in 1..0 : IsHunk(none[k], lines, T)
    BY <1>1 DEF Applies
  <1>3. Patched(none, lines) = at[0]
    BY <1>1, <1>2, PatchedRuns
  <1> QED BY <1>1, <1>3 DEF none

File(mode, lines) == [mode |-> mode, lines |-> lines, binary |-> FALSE]

\* The stanza of a file turns it into the other.
LEMMA StanzaGives ==
  ASSUME NEW T, NEW s \in Seq(EditOn(T)), NEW context \in Nat,
         NEW from \in {NoMode, "644", "755"}, NEW to \in {NoMode, "644", "755"},
         ~ (from = NoMode /\ to = NoMode)
  PROVE  LET left == File(from, LeftOf(s))
             right == File(to, RightOf(s))
         IN  GivesFile(write_file_diff(left, right, s, context), left, right)
  <1> DEFINE L == LeftOf(s)
             R == RightOf(s)
             left == File(from, L)
             right == File(to, R)
             diff == write_file_diff(left, right, s, context)
             hunks == IF L = R THEN <<>> ELSE write_hunks(unified_diff_hunks(s, context))
             all == Patched(hunks, L)
             mode == IF diff.mode[1] = "deleted file mode" THEN NoMode ELSE diff.mode[2]
  <1>1. left.mode = from /\ left.lines = L /\ left.binary = FALSE
        /\ right.mode = to /\ right.lines = R /\ right.binary = FALSE
    BY DEF File
  <1>2. mode = to
    <2> HIDE DEF left, right
    <2>1. diff.mode = IF from = NoMode THEN <<"new file mode", to>>
                      ELSE IF to = NoMode THEN <<"deleted file mode", from>>
                      ELSE IF from # to THEN <<"new mode", to>> ELSE <<"index", from>>
      BY <1>1, Zenon DEF write_file_diff
    <2> DEFINE d == diff.mode
    <2>m. mode = IF d[1] = "deleted file mode" THEN NoMode ELSE d[2]
      BY Zenon
    <2> HIDE DEF d, mode
    <2>2. CASE from = NoMode
      <3>1. d = <<"new file mode", to>>
        BY <2>1, <2>2 DEF d
      <3>2. d[1] = "new file mode" /\ d[2] = to
        BY <3>1
      <3> QED BY <2>m, <3>2
    <2>3. CASE from # NoMode /\ to = NoMode
      <3>1. d = <<"deleted file mode", from>>
        BY <2>1, <2>3 DEF d
      <3>2. d[1] = "deleted file mode"
        BY <3>1
      <3> QED BY <2>m, <2>3, <3>2
    <2>4. CASE from # NoMode /\ to # NoMode /\ from # to
      <3>1. d = <<"new mode", to>>
        BY <2>1, <2>4 DEF d
      <3>2. d[1] = "new mode" /\ d[2] = to
        BY <3>1
      <3> QED BY <2>m, <3>2
    <2>5. CASE from # NoMode /\ to # NoMode /\ from = to
      <3>1. d = <<"index", from>>
        BY <2>1, <2>5 DEF d
      <3>2. d[1] = "index" /\ d[2] = from
        BY <3>1
      <3> QED BY <2>m, <2>5, <3>2
    <2> QED BY <2>2, <2>3, <2>4, <2>5
  <1>3. diff.hunks = hunks
    <2> HIDE DEF left, right, L, R
    <2>1. diff.hunks = IF L = R \/ FALSE \/ FALSE THEN <<>> ELSE write_hunks(unified_diff_hunks(s, context))
      BY <1>1, Zenon DEF write_file_diff
    <2> HIDE DEF diff
    <2>2. (L = R \/ FALSE \/ FALSE) <=> L = R
      OBVIOUS
    <2>3. CASE L = R
      BY <2>1, <2>3, Zenon
    <2>4. CASE L # R
      BY <2>1, <2>4, Zenon
    <2> QED BY <2>3, <2>4
  <1>4. ApplyStanza(diff, left) =
          [mode |-> mode, lines |-> all.out \o SubSeq(L, all.read + 1, Len(L)), binary |-> FALSE]
    <2> HIDE DEF diff, left, hunks, L
    <2>1. ApplyStanza(diff, left) =
            LET a == Patched(diff.hunks, left.lines)
            IN  [mode |-> mode, lines |-> a.out \o SubSeq(left.lines, a.read + 1, Len(left.lines)), binary |-> FALSE]
      BY Zenon DEF ApplyStanza, Patched, Fresh, Progress
    <2> QED BY <1>1, <1>3, <2>1, Zenon
  <1>5. /\ all.out \o SubSeq(L, all.read + 1, Len(L)) = R
        /\ \A k \in DOMAIN hunks : NamesItsLines(hunks[k], L, R)
    <2>1. CASE L # R
      <3>1. hunks = write_hunks(unified_diff_hunks(s, context))
        BY <2>1
      <3> HIDE DEF hunks
      <3> QED BY <3>1, PatchesGiveTheChange, Zenon
    <2>2. CASE L = R
      <3>1. hunks = <<>> /\ DOMAIN hunks = {}
        BY <2>2
      <3>2. L \in Seq(LineOn(T))
        BY SideType DEF LeftOf
      <3> HIDE DEF L, R, hunks
      <3>3. all = Fresh
        BY <3>1, <3>2, PatchedNot
      <3> HIDE DEF all
      <3>4. all.out = <<>> /\ all.read = 0
        BY <3>3 DEF Fresh, Progress
      <3>5. <<>> \o SubSeq(L, 0 + 1, Len(L)) = L
        BY <3>2
      <3> QED BY <2>2, <3>1, <3>4, <3>5
    <2> QED BY <2>1, <2>2
  <1>6. ApplyStanza(diff, left) = right
    <2> HIDE DEF mode, all, L, R, diff, left
    <2> QED BY <1>2, <1>4, <1>5 DEF File
  <1> HIDE DEF diff, left, right, hunks, L, R
  <1>7. GivesFile(diff, left, right)
    BY <1>1, <1>3, <1>5, <1>6 DEF GivesFile
  <1> QED BY <1>7, Zenon DEF diff, left, right, L, R

\* The stanzas of the files that differ turn the one tree into the other.
LEMMA TreeGives ==
  ASSUME NEW D, NEW before, NEW after, NEW edits, NEW context, DOMAIN before = D,
         after = [p \in D |-> after[p]],
         \A p \in D : before[p] # after[p]
            => GivesFile(write_file_diff(before[p], after[p], edits[p], context), before[p], after[p])
  PROVE  GivesTree(render_git_diff(before, after, edits, context), before, after)
  <1> DEFINE patch == render_git_diff(before, after, edits, context)
             diff(p) == write_file_diff(before[p], after[p], edits[p], context)
  <1>1. patch = [p \in {q \in D : before[q] # after[q]} |-> diff(p)]
    BY Zenon DEF render_git_diff
  <1> HIDE DEF patch, diff
  <1>2. DOMAIN patch = {q \in D : before[q] # after[q]} /\ \A p \in DOMAIN patch : patch[p] = diff(p)
    BY <1>1
  <1>3. \A p \in DOMAIN patch : GivesFile(patch[p], before[p], after[p])
    BY <1>2 DEF diff
  <1>4. Apply(patch, before) = [p \in D |-> IF p \in DOMAIN patch THEN ApplyStanza(patch[p], before[p]) ELSE before[p]]
    BY Zenon DEF Apply
  <1>5. ASSUME NEW p \in D
        PROVE  (IF p \in DOMAIN patch THEN ApplyStanza(patch[p], before[p]) ELSE before[p]) = after[p]
    BY <1>2, <1>3 DEF GivesFile
  <1>6. Apply(patch, before) = after
    BY <1>4, <1>5
  <1>7. \A p \in DOMAIN patch : \A k \in DOMAIN patch[p].hunks :
          NamesItsLines(patch[p].hunks[k], before[p].lines, after[p].lines)
    BY <1>3, Zenon DEF GivesFile
  <1> QED BY <1>6, <1>7, Zenon DEF GivesTree, patch

\* For every edit script, of however many lines, and any number of lines of
\* context: the patch that render_git_diff writes for the files on its two sides,
\* new, deleted and unterminated ones among them, turns the one into the other, and
\* every hunk of it (unified_diff_hunks, write_hunks) names the lines it takes and gives.
THEOREM PatchesAreTheChange == PatchIsTheChange
  <1> SUFFICES ASSUME NEW s \in Scripts, NEW m \in {"644", "755"}
               PROVE  LET file(lines, mode) == [mode |-> IF lines = <<>> THEN NoMode ELSE mode,
                                                lines |-> lines, binary |-> FALSE]
                          edits  == [path |-> s, other |-> <<>>]
                          before == [path |-> file(LeftOf(s), "644"), other |-> file(<<>>, "644")]
                          after  == [before EXCEPT !.path = file(RightOf(s), m)]
                          patch  == render_git_diff(before, after, edits, DIFF_CONTEXT_LINES)
                      IN  /\ Apply(patch, before) = after
                          /\ \A p \in DOMAIN patch : \A k \in DOMAIN patch[p].hunks :
                               NamesItsLines(patch[p].hunks[k], before[p].lines, after[p].lines)
    BY Zenon DEF PatchIsTheChange
  <1> DEFINE file(lines, mode) == [mode |-> IF lines = <<>> THEN NoMode ELSE mode,
                                   lines |-> lines, binary |-> FALSE]
             edits  == [path |-> s, other |-> <<>>]
             before == [path |-> file(LeftOf(s), "644"), other |-> file(<<>>, "644")]
             after  == [before EXCEPT !.path = file(RightOf(s), m)]
             patch  == render_git_diff(before, after, edits, DIFF_CONTEXT_LINES)
             T == {s[k].line.text : k \in DOMAIN s}
             from == IF LeftOf(s) = <<>> THEN NoMode ELSE "644"
             to == IF RightOf(s) = <<>> THEN NoMode ELSE m
  <1>1. s \in Seq(EditOn(T)) /\ DIFF_CONTEXT_LINES \in Nat
    BY ScriptAssumption DEF EditOn, LineOn
  <1>2. /\ before.path = File(from, LeftOf(s)) /\ after.path = File(to, RightOf(s))
        /\ before.other = after.other /\ edits.path = s
    BY DEF File
  <1>3. DOMAIN before = {"path", "other"} /\ after = [p \in {"path", "other"} |-> after[p]]
    OBVIOUS
  <1> HIDE DEF T, before, after, edits
  <1>4. before.path # after.path
          => GivesFile(write_file_diff(before.path, after.path, edits.path, DIFF_CONTEXT_LINES), before.path, after.path)
    <2> SUFFICES ASSUME before.path # after.path
                 PROVE  GivesFile(write_file_diff(before.path, after.path, edits.path, DIFF_CONTEXT_LINES),
                                  before.path, after.path)
      OBVIOUS
    <2>1. from \in {NoMode, "644", "755"} /\ to \in {NoMode, "644", "755"}
      OBVIOUS
    <2>2. ~ (from = NoMode /\ to = NoMode)
      <3> SUFFICES ASSUME from = NoMode /\ to = NoMode PROVE FALSE
        OBVIOUS
      <3>1. m # NoMode /\ "644" # NoMode
        BY DEF NoMode
      <3>2. LeftOf(s) = <<>> /\ RightOf(s) = <<>>
        BY <3>1
      <3> QED BY <1>2, <3>2
    <2> HIDE DEF from, to
    <2>3. GivesFile(write_file_diff(File(from, LeftOf(s)), File(to, RightOf(s)), s, DIFF_CONTEXT_LINES),
                    File(from, LeftOf(s)), File(to, RightOf(s)))
      BY <1>1, <2>1, <2>2, StanzaGives
    <2> QED BY <1>2, <2>3, Zenon
  <1>5. ASSUME NEW p \in {"path", "other"}, before[p] # after[p]
        PROVE  GivesFile(write_file_diff(before[p], after[p], edits[p], DIFF_CONTEXT_LINES), before[p], after[p])
    <2>1. p = "path"
      BY <1>2, <1>5
    <2> QED BY <1>4, <1>5, <2>1
  <1>6. GivesTree(patch, before, after)
    BY <1>3, <1>5, TreeGives
  <1>7. /\ Apply(patch, before) = after
        /\ \A p \in DOMAIN patch : \A k \in DOMAIN patch[p].hunks :
             NamesItsLines(patch[p].hunks[k], before[p].lines, after[p].lines)
    <2> HIDE DEF patch
    <2> QED BY <1>6, Zenon DEF GivesTree
  <1> QED BY <1>7, Zenon DEF patch, before, after, edits

-----------------------------------------------------------------------------
(* Texts. *)

\* The characters of what a process writes, and of an argument.
CharsOf(texts) == UNION {Range(t) : t \in texts}
OutputChars == CharsOf(Outputs) \cup {LineFeed}
ArgumentChars == CharsOf(Arguments) \cup Special \cup {"a"}

LEMMA TextsAreTexts ==
  /\ \A o \in Outputs : o \in Seq(OutputChars)
  /\ \A a \in Arguments : a \in Seq(ArgumentChars)
  <1>1. ASSUME NEW t, NEW C, t \in Seq(Range(t)), Range(t) \subseteq C PROVE t \in Seq(C)
    BY <1>1
  <1>2. ASSUME NEW o \in Outputs PROVE o \in Seq(OutputChars)
    <2>1. Range(o) \subseteq OutputChars /\ o \in Seq(Range(o))
      BY TextAssumption, Zenon DEF OutputChars, CharsOf
    <2> QED BY <1>1, <2>1
  <1>3. ASSUME NEW a \in Arguments PROVE a \in Seq(ArgumentChars)
    <2>1. Range(a) \subseteq ArgumentChars /\ a \in Seq(Range(a))
      BY TextAssumption, Zenon DEF ArgumentChars, CharsOf
    <2> QED BY <1>1, <2>1
  <1> QED BY <1>2, <1>3

\* Whatever a QA script writes, the tail of its output that is reported
\* (OutputTail::from_output, combine) is that of the lines of stdout and then
\* of stderr, none cut or glued to another.
THEOREM TailsAreTheLines == TailIsWhole
  <1> SUFFICES ASSUME NEW out \in Outputs, NEW err \in Outputs
               PROVE  LET both == split_lines(out) \o split_lines(err)
                      IN  from_output(combine(out, err), TAIL_LINES)
                            = SubSeq(both, IF Len(both) > TAIL_LINES
                                             THEN Len(both) - TAIL_LINES + 1 ELSE 1, Len(both))
    BY Zenon DEF TailIsWhole
  <1>1. out \in Seq(OutputChars) /\ err \in Seq(OutputChars)
    BY TextsAreTexts
  <1>2. LineFeed \in OutputChars
    BY DEF OutputChars
  <1>3. split_lines(combine(out, err)) = split_lines(out) \o split_lines(err)
    BY <1>1, <1>2, TailsAreWhole
  <1> QED BY <1>3, Zenon DEF from_output

\* Every argument of a claude worker is a text.
LEMMA ArgumentsAreTexts ==
  ASSUME NEW allow \in Arguments, NEW prompt \in Arguments
  PROVE  claude_argv(allow, allow, prompt) \in Seq(Seq(ArgumentChars))
  <1> DEFINE S == Seq(ArgumentChars)
  <1>1. allow \in S /\ prompt \in S
    BY TextsAreTexts
  <1>2. Plain \in S /\ HEADLESS_BOOTSTRAP \in S
    <2> DEFINE one == "a"
    <2>1. one \in ArgumentChars /\ Gap \in ArgumentChars
      BY DEF ArgumentChars, Special
    <2>2. Plain = <<one>> /\ HEADLESS_BOOTSTRAP = <<one, Gap, one>>
      BY Zenon DEF Plain, HEADLESS_BOOTSTRAP, Gap
    <2> HIDE DEF one
    <2> QED BY <2>1, <2>2
  <1> HIDE DEF S
  <1> DEFINE a == <<Plain, Plain, HEADLESS_BOOTSTRAP, Plain, Plain, Plain, allow>>
             b == IF allow = <<>> THEN <<>> ELSE <<Plain, allow>>
             c == <<Plain, prompt, Plain, Plain>>
  <1>3. a \in Seq(S) /\ b \in Seq(S) /\ c \in Seq(S)
    BY <1>1, <1>2
  <1>4. claude_argv(allow, allow, prompt) = (a \o b) \o c
    BY Zenon DEF claude_argv
  <1> HIDE DEF a, b, c
  <1>5. (a \o b) \o c \in Seq(S)
    BY <1>3
  <1> QED BY <1>4, <1>5 DEF S

\* Whatever a claude worker's allowlist and prompt are, quotes, backslashes, spaces
\* and empty texts included, the shell that nix-shell --run starts in its sandbox
\* reads the arguments it was to be given from the line they were joined to
\* (ClaudeSpawn::claude_argv, to_argv, shell_join).
THEOREM ArgumentsArrive == Spec => []ArgumentsSurvive
  <1>1. Init => CommandInv
    BY DEF Init, CommandInv
  <1>2. ASSUME CommandInv, [Next]_vars PROVE CommandInv'
    <2>1. CASE Load
      BY <2>1 DEF Load, CommandInv
    <2>2. CASE Generate
      BY <2>2 DEF Generate, CommandInv
    <2>3. CASE Restart
      BY <2>3 DEF Restart, CommandInv
    <2>4. ASSUME NEW role, CommandFor(role) PROVE CommandInv'
      BY <2>4 DEF CommandFor, CommandInv
    <2>5. CASE VerifyPin
      BY <1>2, <2>5 DEF VerifyPin, CommandInv
    <2>6. CASE Resolve
      <3>1. CASE stage' = "refused"
        BY <3>1 DEF CommandInv
      <3>2. CASE stage' = "running"
        <4>1. stage = "pinned" /\ argv' = argv /\ line' = to_argv(user, host', argv).run
          BY <2>6, <3>2 DEF Resolve
        <4>2. line' = shell_join(argv')
          BY <4>1, Zenon DEF to_argv
        <4> QED BY <1>2, <3>2, <4>1, <4>2 DEF CommandInv
      <3> QED BY <2>6, <3>1, <3>2 DEF Resolve
    <2>7. CASE CallTool
      BY <2>7 DEF CallTool, CommandInv
    <2>8. CASE RunQa
      BY <1>2, <2>8 DEF RunQa, CommandInv
    <2>9. CASE Review
      BY <2>9 DEF Review, CommandInv
    <2>10. CASE UNCHANGED vars
      BY <1>2, <2>10 DEF vars, CommandInv
    <2> QED BY <1>2, <2>1, <2>2, <2>3, <2>4, <2>5, <2>6, <2>7, <2>8, <2>9, <2>10
            DEF Next, worker_command, adversary_worker_command, merger_worker_command
  <1>3. CommandInv => ArgumentsSurvive
    <2> SUFFICES ASSUME CommandInv, stage = "running" PROVE ShWords(line) = argv
      BY DEF ArgumentsSurvive
    <2>1. PICK allow \in Arguments, prompt \in Arguments : argv = claude_argv(allow, allow, prompt)
      BY DEF CommandInv
    <2>2. line = shell_join(argv)
      BY DEF CommandInv
    <2>3. argv \in Seq(Seq(ArgumentChars))
      BY <2>1, ArgumentsAreTexts, Zenon
    <2>4. Special \subseteq ArgumentChars
      BY DEF ArgumentChars
    <2>5. ShWords(shell_join(argv)) = argv
      BY <2>3, <2>4, ArgumentsAreRead, Zenon
    <2> QED BY <2>2, <2>5, Zenon
  <1> QED BY <1>1, <1>2, <1>3, PTL DEF Spec

\* Text crosses process boundaries whole: for every allowlist and prompt (shell_join),
\* every output of a QA script (OutputTail::from_output) and every change to a file
\* (render_git_diff).
THEOREM TextsSurvive == Spec => []TextSurvives
  <1>1. ArgumentsSurvive => TextSurvives
    BY TailsAreTheLines, PatchesAreTheChange DEF TextSurvives
  <1> QED BY <1>1, ArgumentsArrive, PTL
=============================================================================
