------------------------------- MODULE JjProofs -------------------------------
(***************************************************************************)
(* The shared jj repository: what a landing, a push and a Merger may do to *)
(* the commits of others, for any number of workers, of other writers, of  *)
(* failing calls and of crashes.                                           *)
(***************************************************************************)
EXTENDS JjRepo, SequenceTheorems, FiniteSetTheorems, TLAPS

-----------------------------------------------------------------------------
(* Commits and their ancestors. *)

\* Histories made of anybody's labels.
AllCommits == Seq(Nat \X Nat)

\* A commit of k workers is one of k + 1, and a commit at all.
LEMMA MoreCommits ==
  ASSUME NEW k \in Nat
  PROVE  Commits(k) \subseteq Commits(k + 1) /\ Commits(k) \subseteq AllCommits
  <1>1. \A S, T : S \subseteq T => Seq(S) \subseteq Seq(T)
    BY SeqMonotonic
  <1>2. /\ (0..k) \X Nat \subseteq (0..(k + 1)) \X Nat
        /\ (0..k) \X Nat \subseteq Nat \X Nat
    OBVIOUS
  <1> QED BY <1>1, <1>2 DEF Commits, AllCommits

\* One more label.
LEMMA NewLabel ==
  ASSUME NEW S, NEW c \in Seq(S), NEW e \in S
  PROVE  /\ Append(c, e) \in Seq(S) /\ Append(c, e) # Root
         /\ Len(Append(c, e)) = Len(c) + 1
         /\ \A i \in 1..Len(c) : Append(c, e)[i] = c[i]
         /\ Last(Append(c, e)) = e /\ Front(Append(c, e)) = c
  <1>1. /\ Append(c, e) \in Seq(S) /\ Append(c, e) # Root
        /\ Len(Append(c, e)) = Len(c) + 1 /\ Len(c) \in Nat
        /\ \A i \in 1..Len(c) : Append(c, e)[i] = c[i]
        /\ Last(Append(c, e)) = e
    BY AppendProperties DEF Last, Root
  <1>2. Front(Append(c, e)) = c
    BY <1>1 DEF Front
  <1> QED BY <1>1, <1>2

\* The last label and what is before it.
LEMMA LastLabel ==
  ASSUME NEW S, NEW c \in Seq(S), c # Root
  PROVE  /\ Last(c) \in S /\ Front(c) \in Seq(S) /\ Len(c) \in Nat \ {0}
         /\ Len(Front(c)) = Len(c) - 1
         /\ \A i \in 1..(Len(c) - 1) : Front(c)[i] = c[i]
  <1>1. Len(c) \in Nat \ {0}
    BY EmptySeq DEF Root
  <1>2. Last(c) \in S
    BY <1>1 DEF Last
  <1>3. /\ Front(c) \in Seq(S) /\ Len(Front(c)) = Len(c) - 1
        /\ \A i \in 1..(Len(c) - 1) : Front(c)[i] = c[i]
    <2>1. \A i \in 1..(Len(c) - 1) : c[i] \in S
      BY <1>1
    <2>2. 1 \in Int /\ Len(c) - 1 \in Int
      BY <1>1
    <2> DEFINE f == SubSeq(c, 1, Len(c) - 1)
    <2>3. /\ f \in Seq(S)
          /\ Len(f) = IF 1 <= Len(c) - 1 THEN Len(c) - 1 - 1 + 1 ELSE 0
          /\ \A i \in 1..(Len(c) - 1 - 1 + 1) : f[i] = c[1 + i - 1]
      BY <2>1, <2>2, SubSeqProperties
    <2>4. Front(c) = f
      BY DEF Front
    <2> HIDE DEF f
    <2>5. Len(f) = Len(c) - 1
      <3>1. \A n \in Nat \ {0} : (IF 1 <= n - 1 THEN n - 1 - 1 + 1 ELSE 0) = n - 1
        OBVIOUS
      <3> QED BY <1>1, <2>3, <3>1
    <2>6. ASSUME NEW i \in 1..(Len(c) - 1) PROVE f[i] = c[i]
      <3>1. i \in 1..(Len(c) - 1 - 1 + 1) /\ 1 + i - 1 = i
        BY <1>1
      <3> QED BY <2>3, <3>1
    <2> QED BY <2>3, <2>4, <2>5, <2>6
  <1> QED BY <1>1, <1>2, <1>3

\* Ancestry, label by label.
LEMMA Ancestor ==
  ASSUME NEW c \in AllCommits, NEW d \in AllCommits
  PROVE  is_ancestor(c, d) <=> Len(c) <= Len(d) /\ \A i \in 1..Len(c) : c[i] = d[i]
  <1>1. CASE Len(c) <= Len(d)
    <2>1. /\ SubSeq(d, 1, Len(c)) \in AllCommits
          /\ Len(SubSeq(d, 1, Len(c))) = Len(c)
          /\ \A i \in 1..Len(c) : SubSeq(d, 1, Len(c))[i] = d[i]
      BY <1>1 DEF AllCommits
    <2>2. c = SubSeq(d, 1, Len(c)) <=> \A i \in 1..Len(c) : c[i] = d[i]
      <3>1. (\A i \in 1..Len(c) : c[i] = d[i]) => c = SubSeq(d, 1, Len(c))
        BY <2>1, SeqEqual DEF AllCommits
      <3> QED BY <2>1, <3>1
    <2>3. SubSeq(c, 1, Len(c)) = c
      BY SubSeqFull DEF AllCommits
    <2> QED BY <1>1, <2>2, <2>3 DEF is_ancestor, IsPrefix
  <1> QED BY <1>1 DEF is_ancestor, IsPrefix

\* Ancestry is a partial order.
LEMMA AncestorOrder ==
  ASSUME NEW c \in AllCommits, NEW d \in AllCommits, NEW e \in AllCommits
  PROVE  /\ is_ancestor(c, c)
         /\ is_ancestor(c, d) /\ is_ancestor(d, e) => is_ancestor(c, e)
         /\ is_ancestor(c, d) /\ is_ancestor(d, c) => c = d
  <1>1. Len(c) \in Nat /\ Len(d) \in Nat /\ Len(e) \in Nat
    BY DEF AllCommits
  <1>2. is_ancestor(c, d) /\ is_ancestor(d, c) => c = d
    BY <1>1, Ancestor, SeqEqual DEF AllCommits
  <1>3. is_ancestor(c, c) /\ (is_ancestor(c, d) /\ is_ancestor(d, e) => is_ancestor(c, e))
    BY <1>1, Ancestor
  <1> QED BY <1>2, <1>3

\* A commit is below what is put on top of it.
LEMMA AncestorAppend ==
  ASSUME NEW c \in AllCommits, NEW d \in AllCommits, NEW e \in Nat \X Nat,
         is_ancestor(c, d)
  PROVE  is_ancestor(c, Append(d, e))
  <1>1. /\ Append(d, e) \in AllCommits /\ Len(Append(d, e)) = Len(d) + 1
        /\ \A i \in 1..Len(d) : Append(d, e)[i] = d[i]
    BY NewLabel DEF AllCommits
  <1>2. /\ Len(c) \in Nat /\ Len(d) \in Nat
        /\ Len(c) <= Len(d) /\ \A i \in 1..Len(c) : c[i] = d[i]
    BY Ancestor DEF AllCommits
  <1>3. \A i \in 1..Len(c) : i \in 1..Len(d) /\ c[i] = Append(d, e)[i]
    BY <1>1, <1>2
  <1>4. is_ancestor(c, Append(d, e)) <=>
          /\ Len(c) <= Len(Append(d, e))
          /\ \A i \in 1..Len(c) : c[i] = Append(d, e)[i]
    BY <1>1, Ancestor
  <1> QED BY <1>1, <1>2, <1>3, <1>4

-----------------------------------------------------------------------------
(* Targets of refs. *)

\* A target of one commit is what as_normal takes out of it.
LEMMA NormalTarget ==
  /\ \A t : AtMostOne(t) => IsFiniteSet(t)
  /\ \A t : IsFiniteSet(t) /\ IsNormal(t) => as_normal(t) \in t /\ t = {as_normal(t)}
  /\ \A c : IsNormal({c}) /\ as_normal({c}) = c /\ IsFiniteSet({c}) /\ AtMostOne({c})
  /\ ~ IsNormal({}) /\ IsFiniteSet({}) /\ AtMostOne({})
  /\ \A t : AtMostOne(t) /\ t # {} => IsNormal(t)
  <1>1. \A t : IsFiniteSet(t) => (IsNormal(t) <=> \E c : t = {c})
    BY FS_Singleton DEF IsNormal
  <1>2. \A c : as_normal({c}) = c
    BY DEF as_normal
  <1>3. \A t : AtMostOne(t) => t = {} \/ \E c : t = {c}
    BY DEF AtMostOne
  <1>4. \A c : IsNormal({c}) /\ IsFiniteSet({c})
    BY FS_Singleton DEF IsNormal
  <1>5. ~ IsNormal({}) /\ IsFiniteSet({})
    BY FS_EmptySet DEF IsNormal
  <1>6. AtMostOne({}) /\ \A c : AtMostOne({c})
    BY DEF AtMostOne
  <1>7. \A t : IsFiniteSet(t) /\ IsNormal(t) => as_normal(t) \in t /\ t = {as_normal(t)}
    <2> SUFFICES ASSUME NEW t, IsFiniteSet(t), IsNormal(t)
                 PROVE  as_normal(t) \in t /\ t = {as_normal(t)}
      OBVIOUS
    <2>1. PICK c : t = {c}
      BY <1>1
    <2> QED BY <1>2, <2>1
  <1>8. \A t : AtMostOne(t) => IsFiniteSet(t) /\ (t # {} => IsNormal(t))
    <2> SUFFICES ASSUME NEW t, AtMostOne(t)
                 PROVE  IsFiniteSet(t) /\ (t # {} => IsNormal(t))
      OBVIOUS
    <2>1. CASE t = {}
      BY <1>5, <2>1
    <2>2. CASE \E c : t = {c}
      BY <1>4, <2>2
    <2> QED BY <1>3, <2>1, <2>2
  <1> QED BY <1>2, <1>4, <1>5, <1>6, <1>7, <1>8

\* A merge with an unchanged side takes the other; two changes leave the
\* commits that are not below another one.
LEMMA MergedTargets ==
  ASSUME NEW base, NEW ours, NEW theirs, IsFiniteSet(ours), IsFiniteSet(theirs)
  PROVE  /\ IsFiniteSet(MergeTargets(base, ours, theirs))
         /\ MergeTargets(base, ours, theirs) \subseteq ours \cup theirs
         /\ ours = base => MergeTargets(base, ours, theirs) = theirs
         /\ theirs = base => MergeTargets(base, ours, theirs) = ours
  <1> DEFINE both == ours \cup theirs
             top  == {c \in both : \A d \in both \ {c} : ~is_ancestor(c, d)}
  <1>1. IsFiniteSet(both)
    BY FS_Union
  <1>2. IsFiniteSet(top)
    BY <1>1, FS_Subset
  <1>3. MergeTargets(base, ours, theirs) \in {ours, theirs, top}
    BY DEF MergeTargets
  <1>4. /\ ours = base => MergeTargets(base, ours, theirs) = theirs
        /\ theirs = base => MergeTargets(base, ours, theirs) = ours
    BY DEF MergeTargets
  <1> QED BY <1>2, <1>3, <1>4

-----------------------------------------------------------------------------
(* Views. *)

\* A view of commits of k workers is one of k + 1.
LEMMA MoreViews ==
  ASSUME NEW k \in Nat
  PROVE  Views(k) \subseteq Views(k + 1)
  <1>1. Commits(k) \subseteq Commits(k + 1)
    BY MoreCommits
  <1>2. SUBSET Commits(k) \subseteq SUBSET Commits(k + 1)
    BY <1>1
  <1>3. [Names -> SUBSET Commits(k)] \subseteq [Names -> SUBSET Commits(k + 1)]
    BY <1>2
  <1> QED BY <1>2, <1>3 DEF Views

\* The repository before anybody wrote to it.
LEMMA EmptyViewOK ==
  ASSUME NEW k \in Nat
  PROVE  /\ Root \in Commits(k) /\ EmptyView \in Views(k) /\ OneEach(EmptyView)
         /\ EmptyView.main = {Root} /\ EmptyView.branch = {} /\ EmptyView.tracked = {}
  <1>1. Root \in Commits(k)
    BY EmptySeq DEF Root, Commits
  <1>2. EmptyView \in Views(k)
    BY <1>1 DEF EmptyView, Views, Normal, Absent
  <1>3. OneEach(EmptyView)
    BY NormalTarget DEF EmptyView, OneEach, Normal, Absent
  <1> QED BY <1>1, <1>2, <1>3 DEF EmptyView, Normal, Absent

\* A call that leaves the other refs where they were when it began is
\* published as it is, but for main.
LEMMA MergedViews ==
  ASSUME NEW k \in Nat, NEW base \in Views(k), NEW ours \in Views(k),
         NEW theirs \in Views(k), SameRefs(theirs, base),
         OneEach(ours), OneEach(theirs)
  PROVE  /\ MergeViews(base, ours, theirs) \in Views(k)
         /\ OneEach(MergeViews(base, ours, theirs))
         /\ SameRefs(MergeViews(base, ours, theirs), ours)
         /\ MergeViews(base, ours, theirs).main
              = MergeTargets(base.main, ours.main, theirs.main)
  <1> DEFINE main == MergeTargets(base.main, ours.main, theirs.main)
             merged == MergeViews(base, ours, theirs)
  <1>1. IsFiniteSet(main) /\ main \subseteq ours.main \cup theirs.main
    BY MergedTargets DEF OneEach
  <1>2. /\ DOMAIN base.wc = Names
        /\ ours.wc = [n \in Names |-> ours.wc[n]] /\ theirs.wc = base.wc
    BY DEF Views, SameRefs
  <1>3. merged.branch = ours.branch /\ merged.tracked = ours.tracked
    BY DEF MergeViews, MergeTargets, SameRefs
  <1>4. merged.wc = ours.wc
    <2>1. \A n \in Names : MergeTargets(base.wc[n], ours.wc[n], theirs.wc[n]) = ours.wc[n]
      BY <1>2 DEF MergeTargets
    <2>2. merged.wc = [n \in Names |->
                         MergeTargets(base.wc[n], ours.wc[n], theirs.wc[n])]
      BY <1>2 DEF MergeViews
    <2> QED BY <1>2, <2>1, <2>2
  <1>5. merged.main = main
    BY DEF MergeViews
  <1>6. merged = [main |-> main, branch |-> ours.branch, tracked |-> ours.tracked,
                  wc |-> ours.wc]
    BY <1>3, <1>4, <1>5 DEF MergeViews
  <1> HIDE DEF main, merged
  <1>7. merged \in Views(k)
    BY <1>1, <1>6 DEF Views
  <1>8. OneEach(merged)
    BY <1>1, <1>3, <1>4, <1>5 DEF OneEach
  <1> QED BY <1>3, <1>4, <1>5, <1>7, <1>8 DEF SameRefs, main, merged

\* A call may move a workspace,
LEMMA WorkspaceWritten ==
  ASSUME NEW k \in Nat, NEW v \in Views(k), OneEach(v), NEW n,
         NEW t \in SUBSET Commits(k), AtMostOne(t),
         NEW w, w = [v EXCEPT !.wc[n] = t]
  PROVE  w \in Views(k) /\ OneEach(w)
  BY DEF OneEach, Views

\* and then nothing else,
LEMMA OnlyWorkspace ==
  ASSUME NEW k \in Nat, NEW v \in Views(k), NEW n, NEW t, NEW w,
         w = [v EXCEPT !.wc[n] = t]
  PROVE  /\ w.main = v.main /\ w.branch = v.branch /\ w.tracked = v.tracked
         /\ n \in Names => w.wc[n] = t
  BY DEF Views

\* main, the branch or the position that is tracked,
LEMMA RefWritten ==
  ASSUME NEW k \in Nat, NEW v \in Views(k), OneEach(v),
         NEW t \in SUBSET Commits(k), AtMostOne(t)
  PROVE  /\ [v EXCEPT !.main = t] \in Views(k) /\ OneEach([v EXCEPT !.main = t])
         /\ [v EXCEPT !.branch = t] \in Views(k) /\ OneEach([v EXCEPT !.branch = t])
         /\ [v EXCEPT !.tracked = t] \in Views(k) /\ OneEach([v EXCEPT !.tracked = t])
  <1>1. IsFiniteSet(t)
    BY NormalTarget
  <1> QED BY <1>1 DEF OneEach, Views

\* or, in a rebase, the workspaces of a commit.
LEMMA RebaseWritten ==
  ASSUME NEW k \in Nat, NEW v \in Views(k), OneEach(v),
         NEW c \in Commits(k), c # Root, NEW dest \in Commits(k)
  PROVE  /\ rebased(c, dest) \in Commits(k)
         /\ rebase(v, c, dest) \in Views(k) /\ OneEach(rebase(v, c, dest))
         /\ rebase(v, c, dest).main = v.main
         /\ rebase(v, c, dest).branch = v.branch
         /\ rebase(v, c, dest).tracked = v.tracked
  <1>1. rebased(c, dest) \in Commits(k)
    BY LastLabel, NewLabel DEF rebased, Commits
  <1> DEFINE moved == [n \in Names |-> IF v.wc[n] = Normal(c)
                                         THEN Normal(rebased(c, dest)) ELSE v.wc[n]]
  <1>2. /\ moved \in [Names -> SUBSET Commits(k)]
        /\ \A n \in Names : AtMostOne(moved[n])
    BY <1>1, NormalTarget DEF Normal, OneEach, Views
  <1>3. rebase(v, c, dest) = [v EXCEPT !.wc = moved]
    BY DEF rebase, Views
  <1> HIDE DEF moved
  <1> QED BY <1>1, <1>2, <1>3 DEF Views, OneEach

\* A worker's commit is begun on top of another one,
LEMMA WorkBegun ==
  ASSUME NEW k \in Nat, NEW n \in 1..k, NEW e \in Nat, NEW c \in Commits(k)
  PROVE  /\ {Append(c, <<n, e>>)} \in SUBSET Commits(k)
         /\ AtMostOne({Append(c, <<n, e>>)})
         /\ Append(c, <<n, e>>) # Root /\ Front(Append(c, <<n, e>>)) = c
         /\ Last(Append(c, <<n, e>>)) = <<n, e>>
  <1>1. <<n, e>> \in (0..k) \X Nat
    OBVIOUS
  <1>2. /\ Append(c, <<n, e>>) \in Commits(k) /\ Append(c, <<n, e>>) # Root
        /\ Last(Append(c, <<n, e>>)) = <<n, e>> /\ Front(Append(c, <<n, e>>)) = c
    BY <1>1, NewLabel DEF Commits
  <1>3. {Append(c, <<n, e>>)} \in SUBSET Commits(k) /\ AtMostOne({Append(c, <<n, e>>)})
    BY <1>2, NormalTarget
  <1> QED BY <1>2, <1>3

\* and rewritten in place.
LEMMA WorkRewritten ==
  ASSUME NEW k \in Nat, NEW v \in Views(k), OneEach(v), NEW n \in Names,
         NEW e \in Nat, NEW c \in v.wc[n], c # Root
  PROVE  /\ v.wc[n] = {c} /\ c \in Commits(k) /\ Front(c) \in Commits(k)
         /\ Normal(Rewritten(as_normal(v.wc[n]), n, e)) = {Append(Front(c), <<n, e>>)}
  <1>1. v.wc[n] = {c} /\ c \in Commits(k)
    BY DEF OneEach, AtMostOne, Views
  <1>2. as_normal(v.wc[n]) = c
    BY <1>1, NormalTarget
  <1>3. Front(c) \in Commits(k)
    BY <1>1, LastLabel DEF Commits
  <1> QED BY <1>1, <1>2, <1>3 DEF Normal, Rewritten

-----------------------------------------------------------------------------
(* The repository as the orchestrator finds it. *)

\* What the type invariant says of the values in hand.
LEMMA InHand ==
  ASSUME RepoInv
  PROVE  /\ used \in Nat /\ view \in Views(used) /\ OneEach(view)
         /\ op = [pc |-> op.pc, role |-> op.role, name |-> op.name, change |-> op.change,
                  base |-> op.base, next |-> op.next, then |-> op.then, after |-> op.after]
         /\ op.pc \in Steps /\ op.then \in Steps
         /\ op.after \in {"idle", "ended", "add", "rebase", "point"}
         /\ op.role \in {"implementer", "merger"} /\ op.name \in 0..used
         /\ op.change \in Commits(used) /\ op.base \in Views(used)
         /\ op.next \in Views(used) /\ OneEach(op.base) /\ OneEach(op.next)
         /\ Root \in Commits(used) /\ EmptyView \in Views(used) /\ OneEach(EmptyView)
  <1>1. used \in Nat
    BY JjBounds DEF RepoInv, TypeInv, Ops
  <1> QED BY <1>1, EmptyViewOK DEF RepoInv, TypeInv, Ops, OneTarget

\* The orchestrator is between two rounds, or begins where a push left off.
LEMMA IdleInHand ==
  ASSUME NEW k \in Nat, NEW pc \in Steps, NEW c \in Commits(k)
  PROVE  [Idle EXCEPT !.pc = pc, !.change = c] \in Ops(k) /\ Idle \in Ops(k)
         /\ Ended \in Ops(k)
  <1>1. Root \in Commits(k) /\ EmptyView \in Views(k) /\ 0 \in 0..k
    BY EmptyViewOK
  <1> QED BY <1>1 DEF Idle, Ended, Ops, Steps

\* A landing is over.
LEMMA LeaveInHand == RepoInv => Leave \in Ops(used)
  <1> SUFFICES ASSUME RepoInv PROVE Leave \in Ops(used)
    OBVIOUS
  <1>1. Ended \in Ops(used)
    BY InHand, IdleInHand DEF Steps
  <1>2. [op EXCEPT !.pc = "cleanup", !.after = "ended"] \in Ops(used)
    BY InHand DEF Ops, Steps
  <1> QED BY <1>1, <1>2 DEF Leave

\* A fresh repository.
LEMMA RepoInit == Init => RepoInv
  <1> SUFFICES ASSUME Init PROVE RepoInv
    OBVIOUS
  <1> USE DEF Init
  <1>1. /\ Root \in Commits(0) /\ EmptyView \in Views(0) /\ OneEach(EmptyView)
        /\ EmptyView.main = {Root}
    BY EmptyViewOK
  <1>2. TypeInv
    <2>1. op \in Ops(0)
      BY <1>1, IdleInHand DEF Steps
    <2>2. IsFiniteSet({Root}) /\ IsFiniteSet({})
      BY NormalTarget
    <2> QED BY <1>1, <2>1, <2>2, JjBounds DEF TypeInv, Absent
  <1>3. OneTarget
    BY <1>1 DEF OneTarget, AtMostOne, Absent, Idle
  <1>4. OnlyMainMoves /\ WorkInTree
    BY DEF Idle, OnlyMainMoves, WorkInTree, At, Unjudged, InCreate, Cleaning, Publishing
  <1> QED BY <1>2, <1>3, <1>4 DEF RepoInv

\* Publishing leaves the refs as the call meant them.
LEMMA RepoPublish == RepoInv /\ Publish => RepoInv'
  <1> SUFFICES ASSUME RepoInv, Publish PROVE RepoInv'
    OBVIOUS
  <1> USE DEF Publish, Goto, At, OnDisk, Quiet
  <1>1. SameRefs(view, op.base)
    BY DEF RepoInv, OnlyMainMoves
  <1>2. /\ view' \in Views(used) /\ OneEach(view') /\ SameRefs(view', op.next)
        /\ view'.main \subseteq Commits(used)
    <2>1. /\ view' \in Views(used) /\ OneEach(view') /\ SameRefs(view', op.next)
      BY <1>1, InHand, MergedViews
    <2> QED BY <2>1 DEF Views
  <1>3. /\ op'.pc = op.then /\ op'.role = op.role /\ op'.name = op.name
        /\ op'.change = op.change /\ op'.base = op.base /\ op'.next = op.next
        /\ op'.then = op.then /\ op'.after = op.after
    BY InHand
  <1>4. TypeInv'
    <2>1. op' \in Ops(used)
      BY InHand DEF Ops, Steps
    <2>2. published' \subseteq Commits(used) /\ IsFiniteSet(published')
      BY <1>2, FS_Union DEF RepoInv, TypeInv, OneEach
    <2> QED BY <1>2, <2>1, <2>2 DEF RepoInv, TypeInv
  <1>5. OneTarget'
    BY <1>2, <1>3 DEF RepoInv, OneTarget
  <1>6. op.then # "publish"
    BY DEF RepoInv, OnlyMainMoves
  <1>7. OnlyMainMoves' /\ WorkInTree'
    BY <1>2, <1>3, <1>6 DEF RepoInv, OnlyMainMoves, WorkInTree, SameRefs, HasWork,
       Unjudged, InCreate, Cleaning, Publishing
  <1> QED BY <1>4, <1>5, <1>7 DEF RepoInv

\* A workspace is prepared, and cleaned up.
LEMMA FilesRemoved ==
  ASSUME TypeInv, NEW n, RemoveFiles(n)
  PROVE  files' \in [Names -> Nat] /\ untracked' \in [Names -> Nat]
  BY DEF TypeInv, RemoveFiles

LEMMA RepoPrepare ==
  RepoInv /\ (PrepareImplementer \/ PrepareMerger \/ Cleanup \/ RemoveDir) => RepoInv'
  <1> SUFFICES ASSUME RepoInv,
                      PrepareImplementer \/ PrepareMerger \/ Cleanup \/ RemoveDir
               PROVE  RepoInv'
    OBVIOUS
  <1> USE DEF RepoInv, At, Goto, OnDisk, Quiet, repoVars, history, Transact
  <1>1. ASSUME NEW role \in {"implementer", "merger"}, Prepare(role) PROVE RepoInv'
    <2>1. /\ used' = used + 1 /\ used' \in 0..MaxNames /\ used' \in Names
          /\ op'.pc = "cleanup" /\ op'.role = role /\ op'.name = used'
          /\ op'.after = "add" /\ op'.change = op.change /\ op'.base = op.base
          /\ op'.next = op.next /\ op'.then = op.then
      BY <1>1, InHand, JjBounds DEF Prepare, TypeInv, Ops, Names
    <2>2. TypeInv'
      <3>1. /\ Commits(used) \subseteq Commits(used')
            /\ Views(used) \subseteq Views(used')
        BY <2>1, InHand, MoreCommits, MoreViews
      <3>2. /\ view' = view /\ view' \in Views(used') /\ origin' = origin
            /\ files' = files /\ untracked' = untracked /\ judged' = judged /\ foreign' = foreign /\ marks' = marks
            /\ published' = published /\ published' \subseteq Commits(used')
        BY <1>1, <3>1 DEF Prepare, TypeInv, Ops
      <3>3. /\ op' = [op EXCEPT !.pc = "cleanup", !.role = role, !.name = used + 1,
                              !.after = "add"]
            /\ op.change \in Commits(used') /\ op.base \in Views(used')
            /\ op.next \in Views(used') /\ used' \in 0..used'
        BY <1>1, <2>1, <3>1, InHand DEF Prepare
      <3> QED BY <2>1, <3>2, <3>3, InHand DEF TypeInv, Ops, Steps
    <2>3. OneTarget'
      BY <1>1, <2>1 DEF Prepare, OneTarget
    <2>4. OnlyMainMoves' /\ WorkInTree'
      BY <1>1, <2>1 DEF Prepare, OnlyMainMoves, WorkInTree, Unjudged, InCreate,
         Cleaning, Publishing
    <2> QED BY <2>2, <2>3, <2>4
  <1>2. CASE Cleanup
    <2>1. CASE op.name \in workspace_list(view)
      <3> DEFINE gone == workspace_forget(view, op.name)
      <3>1. gone \in Views(used) /\ OneEach(gone)
        <4>1. gone = [view EXCEPT !.wc[op.name] = {}]
          BY DEF workspace_forget, Absent
        <4> HIDE DEF gone
        <4>2. used \in Nat /\ view \in Views(used) /\ OneEach(view) /\ AtMostOne({})
          BY InHand, NormalTarget
        <4> QED BY <4>1, <4>2, WorkspaceWritten
      <3> HIDE DEF gone
      <3>2. op' = [op EXCEPT !.pc = "publish", !.base = view, !.next = gone, !.then = "rmdir"]
        BY <1>2, <2>1 DEF Cleanup, gone
      <3>3. TypeInv'
        BY <1>2, <3>1, <3>2, InHand DEF Cleanup, TypeInv, Ops, Steps
      <3>4. OneTarget' /\ OnlyMainMoves' /\ WorkInTree'
        BY <1>2, <3>1, <3>2, InHand DEF Cleanup, OneTarget, OnlyMainMoves, WorkInTree,
           SameRefs, Unjudged, InCreate, Cleaning, Publishing
      <3> QED BY <3>3, <3>4
    <2>2. CASE op.name \notin workspace_list(view)
      <3>1. op' = [op EXCEPT !.pc = "rmdir"]
        BY <1>2, <2>2 DEF Cleanup
      <3>2. TypeInv'
        BY <1>2, <3>1, InHand DEF Cleanup, TypeInv, Ops, Steps
      <3>3. OneTarget' /\ OnlyMainMoves' /\ WorkInTree'
        BY <1>2, <3>1, InHand DEF Cleanup, OneTarget, OnlyMainMoves, WorkInTree,
           Unjudged, InCreate, Cleaning, Publishing
      <3> QED BY <3>2, <3>3
    <2> QED BY <2>1, <2>2
  <1>3. CASE RemoveDir
    <2>1. op' = [op EXCEPT !.pc = op.after]
      BY <1>3 DEF RemoveDir
    <2>2. TypeInv'
      <3>1. files' \in [Names -> Nat] /\ untracked' \in [Names -> Nat]
        BY <1>3, FilesRemoved DEF RemoveDir
      <3>2. op' \in Ops(used)
        BY <2>1, InHand DEF Ops, Steps
      <3> QED BY <1>3, <3>1, <3>2 DEF RemoveDir, TypeInv
    <2>3. OneTarget' /\ OnlyMainMoves' /\ WorkInTree'
      BY <1>3, <2>1, InHand DEF RemoveDir, OneTarget, OnlyMainMoves, WorkInTree,
         Unjudged, InCreate, Cleaning, Publishing
    <2> QED BY <2>2, <2>3
  <1> QED BY <1>1, <1>2, <1>3 DEF PrepareImplementer, PrepareMerger

\* A workspace is registered on the root, gets its commit and its files.
LEMMA RepoAdd ==
  RepoInv /\ (WorkspaceAdd \/ AddCommit \/ CheckOut \/ AddFails \/ UndoAdd) => RepoInv'
  <1> SUFFICES ASSUME RepoInv,
                      WorkspaceAdd \/ AddCommit \/ CheckOut \/ AddFails \/ UndoAdd
               PROVE  RepoInv'
    OBVIOUS
  <1> USE DEF RepoInv, At, Goto, OnDisk, Quiet, repoVars, history, Transact
  <1>1. CASE WorkspaceAdd
    <2>0. op.name \in Names
      BY <1>1 DEF WorkspaceAdd, WorkInTree, Unjudged, InCreate
    <2>1. CASE op' = [op EXCEPT !.pc = "add_failed"] /\ UNCHANGED dirs
      <3>1. TypeInv'
        BY <1>1, <2>1, InHand DEF WorkspaceAdd, TypeInv, Ops, Steps
      <3>2. OneTarget' /\ OnlyMainMoves' /\ WorkInTree'
        BY <1>1, <2>1, InHand DEF WorkspaceAdd, OneTarget, OnlyMainMoves, WorkInTree,
           Unjudged, InCreate, Cleaning, Publishing
      <3> QED BY <3>1, <3>2
    <2> DEFINE new == init_workspace(view, op.name)
               c == IF op.role = "implementer" THEN as_normal(view.main) ELSE op.change
    <2>2. CASE /\ op' = [op EXCEPT !.pc = "publish", !.then = "add_commit",
                                  !.base = view, !.next = new, !.change = c]
               /\ op.role = "implementer" => IsNormal(view.main)
      <3>1. /\ new \in Views(used) /\ OneEach(new)
            /\ new.branch = view.branch /\ new.tracked = view.tracked
        <4>1. {Root} \in SUBSET Commits(used) /\ AtMostOne({Root})
          BY InHand, NormalTarget
        <4>2. new = [view EXCEPT !.wc[op.name] = {Root}]
          BY DEF init_workspace, Normal
        <4> HIDE DEF new
        <4>3. used \in Nat /\ view \in Views(used) /\ OneEach(view)
          BY InHand
        <4>4. new \in Views(used) /\ OneEach(new)
          BY <4>1, <4>2, <4>3, WorkspaceWritten
        <4>5. new.branch = view.branch /\ new.tracked = view.tracked
          BY <4>2, <4>3, OnlyWorkspace
        <4> QED BY <4>4, <4>5
      <3>2. c \in Commits(used)
        <4>1. view.main \subseteq Commits(used) /\ IsFiniteSet(view.main)
          BY InHand DEF Views, OneEach
        <4> QED BY <2>2, <4>1, NormalTarget, InHand
      <3> HIDE DEF new, c
      <3>3. TypeInv'
        BY <1>1, <2>2, <3>1, <3>2, InHand DEF WorkspaceAdd, TypeInv, Ops, Steps
      <3>4. OneTarget' /\ OnlyMainMoves' /\ WorkInTree'
        BY <1>1, <2>0, <2>2, <3>1, <3>2, InHand DEF WorkspaceAdd, OneTarget,
           OnlyMainMoves, WorkInTree, SameRefs, Unjudged, InCreate, Cleaning, Publishing
      <3> QED BY <3>3, <3>4
    <2> QED BY <1>1, <2>1, <2>2, InHand DEF WorkspaceAdd, resolve_single, evaluate_revset
  <1>2. CASE AddCommit
    <2>0. op.name \in Names /\ op.name \in 1..used
      BY <1>2, InHand DEF AddCommit, WorkInTree, Unjudged, InCreate, Names
    <2> DEFINE d == Append(op.change, <<op.name, 0>>)
               new == add_initial_commit(op.next, op.name, op.change)
    <2>1. /\ {d} \in SUBSET Commits(used) /\ AtMostOne({d})
          /\ d # Root /\ Last(d)[1] = op.name
      <3>1. used \in Nat /\ op.change \in Commits(used)
        BY InHand
      <3>2. /\ {d} \in SUBSET Commits(used) /\ AtMostOne({d})
            /\ d # Root /\ Last(d) = <<op.name, 0>>
        BY <2>0, <3>1, WorkBegun
      <3> QED BY <3>2
    <2>2. new = [op.next EXCEPT !.wc[op.name] = {d}]
      BY DEF add_initial_commit, Normal
    <2> HIDE DEF d, new
    <2>3. /\ new \in Views(used) /\ OneEach(new) /\ new.wc[op.name] = {d}
          /\ new.branch = op.next.branch /\ new.tracked = op.next.tracked
      <3>1. used \in Nat /\ op.next \in Views(used) /\ OneEach(op.next)
        BY InHand
      <3>2. new \in Views(used) /\ OneEach(new)
        BY <2>1, <2>2, <3>1, WorkspaceWritten
      <3>3. new.wc[op.name] = {d}
        BY <2>0, <2>2, <3>1 DEF Views
      <3>4. new.branch = op.next.branch /\ new.tracked = op.next.tracked
        BY <2>2, <3>1, OnlyWorkspace
      <3> QED BY <3>2, <3>3, <3>4
    <2>4. op' = [op EXCEPT !.pc = "publish", !.base = op.next, !.next = new,
                           !.then = "check_out"]
      BY <1>2 DEF AddCommit, new
    <2>5. TypeInv'
      BY <1>2, <2>3, <2>4, InHand DEF AddCommit, TypeInv, Ops, Steps
    <2>8. /\ op'.pc = "publish" /\ op'.then = "check_out" /\ op'.base = op.next
          /\ op'.next = new /\ op'.name = op.name
      BY <2>4, InHand
    <2>6. OneTarget' /\ OnlyMainMoves'
      BY <1>2, <2>3, <2>8 DEF AddCommit, OneTarget, OnlyMainMoves, SameRefs
    <2>7. WorkInTree'
      BY <1>2, <2>0, <2>1, <2>3, <2>8 DEF AddCommit, WorkInTree, HasWork,
         Unjudged, InCreate, Cleaning, Publishing
    <2> QED BY <2>5, <2>6, <2>7
  <1>3. CASE CheckOut
    <2>1. op' = [op EXCEPT !.pc = "work"]
      BY <1>3 DEF CheckOut
    <2>2. TypeInv'
      BY <1>3, <2>1, InHand DEF CheckOut, TypeInv, Ops, Steps
    <2>3. OneTarget' /\ OnlyMainMoves' /\ WorkInTree'
      BY <1>3, <2>1, InHand DEF CheckOut, OneTarget, OnlyMainMoves, WorkInTree,
         HasWork, Unjudged, InCreate, Cleaning, Publishing
    <2> QED BY <2>2, <2>3
  <1>4. CASE AddFails
    <2>1. op' = [op EXCEPT !.pc = "add_failed"]
      BY <1>4 DEF AddFails
    <2>2. TypeInv'
      BY <1>4, <2>1, InHand DEF AddFails, TypeInv, Ops, Steps
    <2>3. OneTarget' /\ OnlyMainMoves' /\ WorkInTree'
      BY <1>4, <2>1, InHand DEF AddFails, OneTarget, OnlyMainMoves, WorkInTree,
         Unjudged, InCreate, Cleaning, Publishing
    <2> QED BY <2>2, <2>3
  <1>5. CASE UndoAdd
    <2>2. TypeInv'
      <3>1. files' \in [Names -> Nat] /\ untracked' \in [Names -> Nat]
        BY <1>5, FilesRemoved DEF UndoAdd
      <3>2. op' \in Ops(used)
        BY <1>5, InHand DEF UndoAdd, Ops, Steps, Ended, Idle
      <3> QED BY <1>5, <3>1, <3>2 DEF UndoAdd, TypeInv
    <2>3. OneTarget' /\ OnlyMainMoves' /\ WorkInTree'
      BY <1>5, InHand DEF UndoAdd, OneTarget, OnlyMainMoves, WorkInTree, Ended, Idle,
         Unjudged, InCreate, Cleaning, Publishing
    <2> QED BY <2>2, <2>3
  <1> QED BY <1>1, <1>2, <1>3, <1>4, <1>5

\* A worker edits and snapshots its own workspace, whose commit is read back.
LEMMA RepoWork ==
  RepoInv /\ (WorkerEdits \/ WorkerJj \/ WorkerEnds \/ SnapshotWorkspace \/ ReadBack \/ Qa)
    => RepoInv'
  <1> SUFFICES ASSUME RepoInv,
                      WorkerEdits \/ WorkerJj \/ WorkerEnds \/ SnapshotWorkspace
                        \/ ReadBack \/ Qa
               PROVE  RepoInv'
    OBVIOUS
  <1> USE DEF RepoInv, At, Goto, OnDisk, Quiet, repoVars, history, Transact
  <1>0. op.pc \in {"work", "snapshot", "read_back", "qa"} =>
          op.name \in Names /\ op.name \in 1..used
    BY InHand DEF WorkInTree, Unjudged, Names
  <1>f. op.name \in Names => files[op.name] \in Nat /\ untracked[op.name] \in Nat
    BY DEF TypeInv
  <1> DEFINE t(edits) == Normal(Rewritten(as_normal(view.wc[op.name]), op.name, edits))
             new(edits) == snapshot_working_copy(view, op.name, edits)
  <1>s. ASSUME op.pc \in {"work", "snapshot"}, NEW edits \in Nat
        PROVE  /\ new(edits) \in Views(used) /\ OneEach(new(edits))
               /\ new(edits).wc[op.name] = t(edits) /\ t(edits) # {}
               /\ \A d \in t(edits) : d # Root /\ Last(d)[1] = op.name
    <2>2. PICK c \in view.wc[op.name] : c # Root
      BY <1>s DEF WorkInTree, HasWork
    <2> DEFINE d == Append(Front(c), <<op.name, edits>>)
    <2>5. Front(c) \in Commits(used) /\ t(edits) = {d}
      <3>1. used \in Nat /\ op.name \in Names /\ view \in Views(used) /\ OneEach(view)
        BY <1>0, <1>s, InHand
      <3> QED BY <1>s, <2>2, <3>1, WorkRewritten
    <2>6. /\ {d} \in SUBSET Commits(used) /\ AtMostOne({d})
          /\ d # Root /\ Last(d)[1] = op.name
      <3>1. used \in Nat /\ op.name \in 1..used
        BY <1>0, <1>s, InHand
      <3>2. ASSUME NEW e \in Nat, NEW f \in Commits(used)
            PROVE  LET a == Append(f, <<op.name, e>>)
                   IN  /\ {a} \in SUBSET Commits(used) /\ AtMostOne({a})
                       /\ a # Root /\ Last(a) = <<op.name, e>>
        BY <3>1, WorkBegun
      <3>3. /\ {d} \in SUBSET Commits(used) /\ AtMostOne({d})
            /\ d # Root /\ Last(d) = <<op.name, edits>>
        BY <1>s, <2>5, <3>2
      <3> QED BY <3>3
    <2> HIDE DEF d
    <2>3. /\ t(edits) \in SUBSET Commits(used) /\ AtMostOne(t(edits)) /\ t(edits) # {}
          /\ \A e \in t(edits) : e # Root /\ Last(e)[1] = op.name
      BY <2>5, <2>6
    <2>4. new(edits) = [view EXCEPT !.wc[op.name] = t(edits)]
      BY DEF snapshot_working_copy
    <2> DEFINE made == new(edits)
               tip  == t(edits)
    <2>7. used \in Nat /\ view \in Views(used) /\ OneEach(view) /\ op.name \in Names
      BY <1>0, <1>s, InHand
    <2>10. made = [view EXCEPT !.wc[op.name] = tip] /\ tip \in SUBSET Commits(used)
           /\ AtMostOne(tip)
      BY <2>3, <2>4
    <2> HIDE DEF made, tip
    <2>8. made \in Views(used) /\ OneEach(made)
      BY <2>7, <2>10, WorkspaceWritten
    <2>9. made.wc[op.name] = tip
      BY <2>7, <2>10 DEF Views
    <2> QED BY <2>3, <2>8, <2>9 DEF made, tip
  <1> HIDE DEF new, t
  <1>1. CASE WorkerEdits
    <2>1. TypeInv'
      <3>1. files' \in [Names -> Nat] /\ untracked' \in [Names -> Nat]
        <4>1. CASE files' = [files EXCEPT ![op.name] = @ + 1] /\ untracked' = untracked
          BY <1>0, <1>1, <1>f, <4>1 DEF WorkerEdits, TypeInv
        <4>2. CASE untracked' = [untracked EXCEPT ![op.name] = @ + 1] /\ files' = files
          BY <1>0, <1>1, <1>f, <4>2 DEF WorkerEdits, TypeInv
        <4> QED BY <1>1, <4>1, <4>2 DEF WorkerEdits
      <3> QED BY <1>1, <3>1 DEF WorkerEdits, TypeInv
    <2>2. OneTarget' /\ OnlyMainMoves' /\ WorkInTree'
      BY <1>1 DEF WorkerEdits, OneTarget, OnlyMainMoves, WorkInTree, HasWork, Unjudged,
         InCreate, Cleaning, Publishing
    <2> QED BY <2>1, <2>2
  <1>2. CASE WorkerJj
    <2> DEFINE edits == files'[op.name]
    <2>1. view' = new(edits) /\ UNCHANGED op /\ op.pc = "work"
      BY <1>2 DEF WorkerJj, new
    <2>4. edits \in Nat /\ files' \in [Names -> Nat] /\ untracked' \in [Names -> Nat]
      BY <1>0, <1>2, <1>f, <2>1 DEF WorkerJj, TypeInv
    <2> HIDE DEF edits
    <2>5. /\ new(edits) \in Views(used) /\ OneEach(new(edits)) /\ new(edits).wc[op.name] = t(edits)
          /\ t(edits) # {} /\ \A d \in t(edits) : d # Root /\ Last(d)[1] = op.name
      BY <1>s, <2>1, <2>4
    <2>2. TypeInv'
      BY <1>2, <2>1, <2>4, <2>5 DEF WorkerJj, TypeInv, Ops
    <2>3. OneTarget' /\ OnlyMainMoves' /\ WorkInTree'
      BY <1>2, <2>1, <2>5 DEF WorkerJj, OneTarget, OnlyMainMoves, WorkInTree, HasWork,
         Unjudged, InCreate, Cleaning, Publishing
    <2> QED BY <2>2, <2>3
  <1>3. CASE WorkerEnds
    <2>1. op' = [op EXCEPT !.pc = IF op.role = "merger" THEN "snapshot" ELSE "read_back"]
      BY <1>3 DEF WorkerEnds
    <2>2. TypeInv'
      BY <1>3, <2>1, InHand DEF WorkerEnds, TypeInv, Ops, Steps
    <2>3. OneTarget' /\ OnlyMainMoves' /\ WorkInTree'
      BY <1>3, <2>1, InHand DEF WorkerEnds, OneTarget, OnlyMainMoves, WorkInTree,
         HasWork, Unjudged, InCreate, Cleaning, Publishing
    <2> QED BY <2>2, <2>3
  <1>4. CASE SnapshotWorkspace
    <2> DEFINE made == new(files[op.name])
    <2>0. /\ made \in Views(used) /\ OneEach(made) /\ made.wc[op.name] # {}
          /\ \A d \in made.wc[op.name] : d # Root /\ Last(d)[1] = op.name
      <3>1. op.pc = "snapshot" /\ files[op.name] \in Nat
        BY <1>0, <1>4, <1>f DEF SnapshotWorkspace
      <3>2. /\ made \in Views(used) /\ OneEach(made) /\ made.wc[op.name] = t(files[op.name])
            /\ t(files[op.name]) # {}
            /\ \A d \in t(files[op.name]) : d # Root /\ Last(d)[1] = op.name
        BY <1>s, <3>1
      <3> QED BY <3>2
    <2>4. /\ made.branch = view.branch /\ made.tracked = view.tracked
      BY InHand DEF new, snapshot_working_copy, Views
    <2>5. \/ op' = [op EXCEPT !.pc = "publish", !.base = view, !.next = made,
                              !.then = "read_back"]
          \/ op' = [op EXCEPT !.pc = "read_back"]
      BY <1>4 DEF SnapshotWorkspace, new
    <2> HIDE DEF made
    <2>1. CASE op' = [op EXCEPT !.pc = "publish", !.base = view, !.next = made,
                                !.then = "read_back"]
      <3>2. TypeInv'
        BY <1>4, <2>0, <2>1, InHand DEF SnapshotWorkspace, TypeInv, Ops, Steps
      <3>3. OneTarget' /\ OnlyMainMoves' /\ WorkInTree'
        BY <1>4, <1>0, <2>0, <2>1, <2>4, InHand DEF SnapshotWorkspace, OneTarget,
           OnlyMainMoves, WorkInTree, HasWork, SameRefs, Unjudged, InCreate, Cleaning,
           Publishing
      <3> QED BY <3>2, <3>3
    <2>2. CASE op' = [op EXCEPT !.pc = "read_back"]
      <3>2. TypeInv'
        BY <1>4, <2>2, InHand DEF SnapshotWorkspace, TypeInv, Ops, Steps
      <3>3. OneTarget' /\ OnlyMainMoves' /\ WorkInTree'
        BY <1>4, <2>2, InHand DEF SnapshotWorkspace, OneTarget, OnlyMainMoves,
           WorkInTree, HasWork, Unjudged, InCreate, Cleaning, Publishing
      <3> QED BY <3>2, <3>3
    <2> QED BY <2>1, <2>2, <2>5
  <1>5. CASE ReadBack
    <2> DEFINE c == as_normal(resolve_single(view, <<"workspace", op.name>>))
    <2>1. c \in Commits(used) /\ Own(c)
      <3>1. PICK d \in view.wc[op.name] : d # Root /\ Last(d)[1] = op.name
        BY <1>5 DEF ReadBack, WorkInTree, HasWork
      <3>2. view.wc[op.name] = {d} /\ d \in Commits(used)
        BY <1>0, <1>5, <3>1, InHand DEF ReadBack, OneEach, AtMostOne, Views
      <3>3. c = d
        BY <3>2, NormalTarget DEF resolve_single, evaluate_revset
      <3> QED BY <1>0, <1>5, <3>1, <3>2, <3>3 DEF ReadBack, Own, People
    <2>2. \/ op' = [op EXCEPT !.pc = "qa", !.change = c]
          \/ op' = [op EXCEPT !.pc = "cleanup", !.after = "ended"]
      BY <1>5 DEF ReadBack
    <2> HIDE DEF c
    <2>3. TypeInv'
      <3>1. [op EXCEPT !.pc = "qa", !.change = c] \in Ops(used)
        BY <2>1, InHand DEF Ops, Steps
      <3>2. [op EXCEPT !.pc = "cleanup", !.after = "ended"] \in Ops(used)
        BY InHand DEF Ops, Steps
      <3> QED BY <1>5, <2>2, <3>1, <3>2 DEF ReadBack, TypeInv
    <2>4. OneTarget' /\ OnlyMainMoves' /\ WorkInTree'
      BY <1>0, <1>5, <2>1, <2>2, InHand DEF ReadBack, OneTarget, OnlyMainMoves,
         WorkInTree, Unjudged, InCreate, Cleaning, Publishing, Own
    <2> QED BY <2>3, <2>4
  <1>6. CASE Qa
    <2>1. \/ op' = [op EXCEPT !.pc = "cleanup",
                              !.after = IF op.role = "merger" THEN "ended" ELSE "idle"]
          \/ op' = IF op.role = "merger" THEN [op EXCEPT !.pc = "move"]
                   ELSE [op EXCEPT !.pc = "cleanup",
                                   !.after = IF remote THEN "point" ELSE "rebase"]
      BY <1>6 DEF Qa
    <2>2. judged' \in [Names -> [tracked : Nat, new : Nat]]
      <3>1. op.name \in Names
        BY <1>0, <1>6 DEF Qa
      <3>2. [tracked |-> files[op.name], new |-> untracked[op.name]]
              \in [tracked : Nat, new : Nat]
        BY <1>f, <3>1
      <3>3. \/ judged' = judged
            \/ judged' = [judged EXCEPT ![op.name] =
                            [tracked |-> files[op.name], new |-> untracked[op.name]]]
        BY <1>6 DEF Qa
      <3> QED BY <3>2, <3>3 DEF TypeInv
    <2>3. TypeInv'
      <3>1. PICK p \in {"cleanup", "move"}, a \in {"idle", "ended", "add", "rebase", "point"} :
              op' = [op EXCEPT !.pc = p, !.after = a]
        BY <2>1, InHand
      <3>2. op' \in Ops(used)
        BY <3>1, InHand DEF Ops, Steps
      <3> QED BY <1>6, <2>2, <3>2 DEF Qa, TypeInv, Ops
    <2>4. OneTarget' /\ OnlyMainMoves' /\ WorkInTree'
      BY <1>6, <2>1, InHand DEF Qa, OneTarget, OnlyMainMoves, WorkInTree, Unjudged, InCreate,
         Cleaning, Publishing, Own
    <2> QED BY <2>3, <2>4
  <1> QED BY <1>1, <1>2, <1>3, <1>4, <1>5, <1>6

\* The landing on main, with the rebase of the change.
LEMMA RepoLand ==
  RepoInv /\ (RebaseStep \/ FastForwardCheck \/ BookmarkMove \/ Landed) => RepoInv'
  <1> SUFFICES ASSUME RepoInv, RebaseStep \/ FastForwardCheck \/ BookmarkMove \/ Landed
               PROVE  RepoInv'
    OBVIOUS
  <1> USE DEF RepoInv, At, Goto, OnDisk, Quiet, repoVars, history, Transact
  <1>0. ASSUME op' = Leave, UNCHANGED <<view, origin, used, files, untracked, judged, published, foreign,
                                        marks>>
        PROVE  RepoInv'
    <2>1. TypeInv'
      <3>1. op' \in Ops(used)
        BY <1>0, LeaveInHand
      <3> QED BY <1>0, <3>1 DEF TypeInv
    <2>2. OneTarget' /\ OnlyMainMoves' /\ WorkInTree'
      BY <1>0, InHand DEF Leave, Ended, Idle, OneTarget, OnlyMainMoves, WorkInTree, Unjudged,
         InCreate, Cleaning, Publishing
    <2> QED BY <2>1, <2>2
  <1>1. CASE RebaseStep
    <2>1. CASE op' = Leave
      BY <1>0, <1>1, <2>1 DEF RebaseStep
    <2>2. CASE op' = [op EXCEPT !.pc = "move"]
      <3>1. TypeInv'
        BY <1>1, <2>2, InHand DEF RebaseStep, TypeInv, Ops, Steps
      <3>2. OneTarget' /\ OnlyMainMoves' /\ WorkInTree'
        BY <1>1, <2>2, InHand DEF RebaseStep, OneTarget, OnlyMainMoves, WorkInTree, Unjudged,
           InCreate, Cleaning, Publishing
      <3> QED BY <3>1, <3>2
    <2> DEFINE main == as_normal(view.main)
               new == rebase(view, op.change, main)
               c == rebased(op.change, main)
    <2>3. ASSUME NEW next \in {"move", "conflict"}, IsNormal(view.main),
                 op' = [op EXCEPT !.pc = "publish", !.then = next, !.base = view,
                                  !.next = new, !.change = c]
          PROVE  RepoInv'
      <3>1. main \in Commits(used)
        BY <2>3, InHand, NormalTarget DEF Views, OneEach
      <3>2. op.change \in Commits(used) /\ op.change # Root
        BY <1>1, InHand DEF RebaseStep, WorkInTree, Own
      <3>3. used \in Nat /\ view \in Views(used) /\ OneEach(view)
        BY InHand
      <3> HIDE DEF main
      <3>4. c \in Commits(used) /\ new \in Views(used) /\ OneEach(new)
        BY <3>1, <3>2, <3>3, RebaseWritten
      <3> HIDE DEF new, c
      <3>5. TypeInv'
        BY <1>1, <2>3, <3>4, InHand DEF RebaseStep, TypeInv, Ops, Steps
      <3>6. /\ op'.pc = "publish" /\ op'.then = next /\ op'.base = view /\ op'.next = new
        BY <2>3, InHand
      <3>7. OneTarget' /\ OnlyMainMoves' /\ WorkInTree'
        BY <1>1, <3>3, <3>4, <3>6 DEF RebaseStep, OneTarget, OnlyMainMoves, WorkInTree,
           Unjudged, SameRefs, InCreate, Cleaning, Publishing
      <3> QED BY <3>5, <3>7
    <2>4. resolve_single(view, <<"bookmark", "main">>) # {} => IsNormal(view.main)
      BY DEF resolve_single, evaluate_revset
    <2> QED BY <1>1, <2>1, <2>2, <2>3, <2>4 DEF RebaseStep
  <1>2. CASE FastForwardCheck
    <2>1. CASE op' = Leave
      BY <1>0, <1>2, <2>1 DEF FastForwardCheck
    <2>2. CASE op' = [op EXCEPT !.pc = "move_load"]
      <3>1. TypeInv'
        BY <1>2, <2>2, InHand DEF FastForwardCheck, TypeInv, Ops, Steps
      <3>2. OneTarget' /\ OnlyMainMoves' /\ WorkInTree'
        BY <1>2, <2>2, InHand DEF FastForwardCheck, OneTarget, OnlyMainMoves, WorkInTree,
           Unjudged, InCreate, Cleaning, Publishing
      <3> QED BY <3>1, <3>2
    <2> QED BY <1>2, <2>1, <2>2 DEF FastForwardCheck
  <1>3. CASE BookmarkMove
    <2> DEFINE new == bookmark_set(view, "main", op.change)
    <2>1. /\ new = [view EXCEPT !.main = {op.change}]
          /\ {op.change} \in SUBSET Commits(used) /\ AtMostOne({op.change})
      BY InHand, NormalTarget DEF bookmark_set, Normal
    <2>2. op' = [op EXCEPT !.pc = "publish", !.base = view, !.next = new, !.then = "landed"]
      BY <1>3 DEF BookmarkMove
    <2> HIDE DEF new
    <2>3. used \in Nat /\ view \in Views(used) /\ OneEach(view)
      BY InHand
    <2>4. new \in Views(used) /\ OneEach(new)
      BY <2>1, <2>3, RefWritten
    <2>5. new.branch = view.branch /\ new.tracked = view.tracked /\ new.wc = view.wc
      BY <2>1, <2>3 DEF Views
    <2>6. TypeInv'
      BY <1>3, <2>2, <2>4, InHand DEF BookmarkMove, TypeInv, Ops, Steps
    <2>7. op'.pc = "publish" /\ op'.then = "landed" /\ op'.base = view /\ op'.next = new
      BY <2>2, InHand
    <2>8. OneTarget' /\ OnlyMainMoves' /\ WorkInTree'
      BY <1>3, <2>3, <2>4, <2>7 DEF BookmarkMove, OneTarget, OnlyMainMoves, WorkInTree,
         Unjudged, SameRefs, InCreate, Cleaning, Publishing
    <2> QED BY <2>6, <2>8
  <1>4. CASE Landed
    BY <1>0, <1>4 DEF Landed
  <1> QED BY <1>1, <1>2, <1>3, <1>4

\* A branch is pointed at the change, pushed, and forgotten.
LEMMA RepoPush ==
  RepoInv /\ (PointBookmark \/ GitPush \/ ForgetBookmark) => RepoInv'
  <1> SUFFICES ASSUME RepoInv, PointBookmark \/ GitPush \/ ForgetBookmark
               PROVE  RepoInv'
    OBVIOUS
  <1> USE DEF RepoInv, At, Goto, OnDisk, Quiet, repoVars, history, Transact
  <1>0. used \in Nat /\ view \in Views(used) /\ OneEach(view)
    BY InHand
  <1>c. ASSUME NEW new \in Views(used), OneEach(new), NEW next \in {"push", "pr", "landed"},
               op' = [op EXCEPT !.pc = "publish", !.base = view, !.next = new, !.then = next],
               UNCHANGED <<view, used, files, untracked, judged, published, foreign>>,
               origin' \subseteq AllCommits, AtMostOne(origin'),
               marks' \subseteq {"raced", "rejected", "unsnapped", "partial"}
        PROVE  RepoInv'
    <2>1. TypeInv'
      BY <1>c, InHand DEF TypeInv, Ops, Steps, AllCommits
    <2>2. op'.pc = "publish" /\ op'.then = next /\ op'.base = view /\ op'.next = new
      BY <1>c, InHand
    <2>3. OneTarget' /\ OnlyMainMoves' /\ WorkInTree'
      BY <1>0, <1>c, <2>2 DEF OneTarget, OnlyMainMoves, WorkInTree, Unjudged, SameRefs,
         InCreate, Cleaning, Publishing
    <2> QED BY <2>1, <2>3
  <1>o. /\ origin \subseteq AllCommits /\ AtMostOne(origin)
        /\ marks \subseteq {"raced", "rejected", "unsnapped", "partial"}
    BY DEF TypeInv, Ops, OneTarget, AllCommits
  <1>1. CASE PointBookmark
    <2> DEFINE new == bookmark_set(view, "branch", op.change)
    <2>1. /\ new = [view EXCEPT !.branch = {op.change}]
          /\ {op.change} \in SUBSET Commits(used) /\ AtMostOne({op.change})
      BY InHand, NormalTarget DEF bookmark_set, Normal
    <2>2. op' = [op EXCEPT !.pc = "publish", !.base = view, !.next = new, !.then = "push"]
      BY <1>1 DEF PointBookmark
    <2> HIDE DEF new
    <2>3. new \in Views(used) /\ OneEach(new)
      BY <1>0, <2>1, RefWritten
    <2> QED BY <1>1, <1>c, <1>o, <2>2, <2>3 DEF PointBookmark
  <1>2. CASE GitPush
    <2> DEFINE target == as_normal(view.branch)
               new == [view EXCEPT !.tracked = Normal(target)]
    <2>1. target \in Commits(used) /\ Commits(used) \subseteq AllCommits
      BY <1>0, <1>2, NormalTarget, MoreCommits DEF GitPush, OneEach, Views
    <2>2. CASE /\ origin' = Normal(target)
               /\ op' = [op EXCEPT !.pc = "publish", !.base = view, !.next = new,
                                   !.then = "pr"]
               /\ UNCHANGED marks
      <3> HIDE DEF target
      <3>1. new = [view EXCEPT !.tracked = {target}] /\ origin' = {target}
        BY <2>2 DEF Normal
      <3> HIDE DEF new
      <3>2. {target} \in SUBSET Commits(used) /\ AtMostOne({target})
        BY <2>1, NormalTarget
      <3>3. new \in Views(used) /\ OneEach(new)
        BY <1>0, <3>1, <3>2, RefWritten
      <3> QED BY <1>2, <1>c, <1>o, <2>1, <2>2, <3>1, <3>2, <3>3 DEF GitPush
    <2>3. CASE op' = Leave /\ marks' = marks \cup {"rejected"} /\ UNCHANGED origin
      <3>1. TypeInv'
        <4>1. op' \in Ops(used)
          BY <2>3, LeaveInHand
        <4> QED BY <1>2, <2>3, <4>1 DEF GitPush, TypeInv
      <3>2. OneTarget' /\ OnlyMainMoves' /\ WorkInTree'
        BY <1>2, <2>3, InHand DEF GitPush, Leave, Ended, Idle, OneTarget, OnlyMainMoves,
           WorkInTree, Unjudged, InCreate, Cleaning, Publishing
      <3> QED BY <3>1, <3>2
    <2> QED BY <1>2, <2>2, <2>3 DEF GitPush
  <1>3. CASE ForgetBookmark
    <2> DEFINE new == bookmark_forget(view, "branch")
    <2>1. /\ new = [view EXCEPT !.branch = {}]
          /\ {} \in SUBSET Commits(used) /\ AtMostOne({})
      BY InHand, NormalTarget DEF bookmark_forget, Absent
    <2>2. op' = [op EXCEPT !.pc = "publish", !.base = view, !.next = new, !.then = "landed"]
      BY <1>3 DEF ForgetBookmark
    <2> HIDE DEF new
    <2>3. new \in Views(used) /\ OneEach(new)
      BY <1>0, <2>1, RefWritten
    <2> QED BY <1>3, <1>c, <1>o, <2>2, <2>3 DEF ForgetBookmark
  <1> QED BY <1>1, <1>2, <1>3

\* A crash, what recovery makes of it, and everybody else.
LEMMA RepoOthers ==
  RepoInv /\ (Crash \/ ResumePush \/ GiveUp \/ OthersMoveMain \/ OthersPush) => RepoInv'
  <1> SUFFICES ASSUME RepoInv,
                      Crash \/ ResumePush \/ GiveUp \/ OthersMoveMain \/ OthersPush
               PROVE  RepoInv'
    OBVIOUS
  <1> USE DEF RepoInv, At, Goto, OnDisk, Quiet, repoVars, history
  <1>0. used \in Nat /\ view \in Views(used) /\ OneEach(view)
    BY InHand
  <1>1. CASE Crash
    <2>1. PICK next \in Steps : op' = [op EXCEPT !.pc = "restart", !.then = next]
      BY <1>1, InHand DEF Crash
    <2>2. TypeInv'
      <3>1. /\ op' = [pc |-> "restart", role |-> op.role, name |-> op.name,
                     change |-> op.change, base |-> op.base, next |-> op.next,
                     then |-> next, after |-> op.after]
            /\ "restart" \in Steps
        BY <2>1, InHand DEF Steps
      <3>2. op' \in Ops(used)
        BY <3>1, InHand DEF Ops
      <3> QED BY <1>1, <3>2 DEF Crash, TypeInv
    <2>3. OneTarget' /\ OnlyMainMoves' /\ WorkInTree'
      BY <1>1, <2>1, InHand DEF Crash, OneTarget, OnlyMainMoves, WorkInTree, Unjudged,
         InCreate, Cleaning, Publishing
    <2> QED BY <2>2, <2>3
  <1>2. CASE ResumePush
    <2> DEFINE c == as_normal(view.branch)
    <2>1. c \in view.branch /\ c \in Commits(used)
      BY <1>0, <1>2, NormalTarget DEF ResumePush, OneEach, Views
    <2>2. op' = [Idle EXCEPT !.pc = "point", !.change = c]
      BY <1>2 DEF ResumePush
    <2> HIDE DEF c
    <2>3. TypeInv'
      <3>1. op' \in Ops(used)
        BY <1>0, <2>1, <2>2, IdleInHand DEF Steps
      <3> QED BY <1>2, <3>1 DEF ResumePush, TypeInv
    <2>4. OneTarget' /\ OnlyMainMoves'
      BY <1>2, <2>1, <2>2, InHand DEF ResumePush, Idle, OneTarget, OnlyMainMoves
    <2>5. WorkInTree'
      BY <1>2, <2>1, <2>2, InHand DEF ResumePush, Idle, WorkInTree, Unjudged,
         InCreate, Cleaning, Publishing
    <2> QED BY <2>3, <2>4, <2>5
  <1>3. CASE GiveUp
    <2>1. \/ op' = Ended \/ op' = Idle
          \/ op' = [op EXCEPT !.pc = "cleanup", !.after = "idle"]
      <3>1. CASE op.role = "merger"
        BY <1>3, <3>1 DEF GiveUp
      <3>2. CASE op.role # "merger"
        BY <1>3, <3>2 DEF GiveUp
      <3> QED BY <3>1, <3>2
    <2>2. TypeInv'
      <3>1. op' \in Ops(used)
        <4>1. Ended \in Ops(used) /\ Idle \in Ops(used)
          BY <1>0, InHand, IdleInHand
        <4>2. [op EXCEPT !.pc = "cleanup", !.after = "idle"] \in Ops(used)
          BY InHand DEF Ops, Steps
        <4> QED BY <2>1, <4>1, <4>2
      <3> QED BY <1>3, <3>1 DEF GiveUp, TypeInv
    <2>3. OneTarget' /\ OnlyMainMoves' /\ WorkInTree'
      BY <1>3, <2>1, InHand DEF GiveUp, Ended, Idle, OneTarget, OnlyMainMoves, WorkInTree,
         Unjudged, InCreate, Cleaning, Publishing
    <2> QED BY <2>2, <2>3
  <1>4. CASE OthersMoveMain
    <2> DEFINE c == Append(as_normal(view.main), <<People, Moved + 1>>)
    <2>1. c \in Commits(used)
      <3>1. as_normal(view.main) \in Commits(used)
        BY <1>0, <1>4, NormalTarget DEF OthersMoveMain, OneEach, Views
      <3>2. Moved \in Nat
        BY FS_Subset, FS_CardinalityType DEF Moved, TypeInv
      <3>3. <<People, Moved + 1>> \in (0..used) \X Nat
        BY <1>0, <3>2 DEF People
      <3> QED BY <3>1, <3>3, NewLabel DEF Commits
    <2>2. view' = [view EXCEPT !.main = {c}]
      BY <1>4 DEF OthersMoveMain, bookmark_set, Normal
    <2> HIDE DEF c
    <2>3. {c} \in SUBSET Commits(used) /\ AtMostOne({c})
      BY <2>1, NormalTarget
    <2>4. view' \in Views(used) /\ OneEach(view')
      BY <1>0, <2>2, <2>3, RefWritten
    <2>5. /\ view'.main = {c} /\ view'.branch = view.branch
          /\ view'.tracked = view.tracked /\ view'.wc = view.wc
      BY <1>0, <2>2 DEF Views
    <2>6. TypeInv'
      <3>1. published' \subseteq Commits(used) /\ IsFiniteSet(published')
        BY <1>4, <2>1, <2>5, FS_AddElement DEF OthersMoveMain, TypeInv
      <3> QED BY <1>4, <2>4, <3>1 DEF OthersMoveMain, TypeInv
    <2>7. OneTarget' /\ OnlyMainMoves' /\ WorkInTree'
      BY <1>4, <2>4, <2>5 DEF OthersMoveMain, OneTarget, OnlyMainMoves, WorkInTree, HasWork,
         Unjudged, SameRefs, InCreate, Cleaning, Publishing
    <2> QED BY <2>6, <2>7
  <1>5. CASE OthersPush
    <2>1. PICK c \in AllCommits : origin' = {c} /\ foreign' = foreign \cup {c}
      <3> DEFINE o == IF origin = Absent THEN Root ELSE as_normal(origin)
      <3>1. o \in AllCommits
        BY NormalTarget, EmptySeq DEF OneTarget, TypeInv, AllCommits, Absent, Root
      <3>2. Cardinality(foreign) + 1 \in Nat
        BY FS_CardinalityType DEF TypeInv
      <3>3. <<People, Cardinality(foreign) + 1>> \in Nat \X Nat
        BY <3>2 DEF People
      <3>4. Append(o, <<People, Cardinality(foreign) + 1>>) \in AllCommits
        BY <3>1, <3>3, NewLabel DEF AllCommits
      <3> QED BY <1>5, <3>4 DEF OthersPush, Normal
    <2>2. TypeInv'
      <3>1. IsFiniteSet(foreign')
        BY <2>1, FS_AddElement DEF TypeInv
      <3>2. origin' \subseteq AllCommits /\ foreign' \subseteq AllCommits
        BY <2>1 DEF TypeInv, AllCommits
      <3> QED BY <1>5, <3>1, <3>2 DEF OthersPush, TypeInv, AllCommits
    <2>3. OneTarget' /\ OnlyMainMoves' /\ WorkInTree'
      BY <1>5, <2>1, NormalTarget DEF OthersPush, OneTarget, OnlyMainMoves, WorkInTree,
         HasWork, Unjudged, SameRefs, InCreate, Cleaning, Publishing
    <2> QED BY <2>2, <2>3
  <1> QED BY <1>1, <1>2, <1>3, <1>4, <1>5

\* A step that changes nothing.
LEMMA RepoStutter == RepoInv /\ UNCHANGED vars => RepoInv'
  BY DEF vars, RepoInv, TypeInv, OneTarget, OnlyMainMoves, WorkInTree, HasWork, Unjudged,
         At, InCreate, Cleaning, Publishing

\* The orchestrator always knows which workspace it is in, and finds in it the
\* commit of its worker; nothing but main is ever merged under a call.
THEOREM RepositoryIsFollowed == Spec => []RepoInv
  <1>1. RepoInv /\ [Next]_vars => RepoInv'
    BY RepoPublish, RepoPrepare, RepoAdd, RepoWork, RepoLand, RepoPush, RepoOthers,
       RepoStutter DEF Next, Orchestrator, Others
  <1> QED BY RepoInit, <1>1, PTL DEF Spec

-----------------------------------------------------------------------------
(* main. *)

\* A step that leaves main alone and opens no transaction that moves it.
LEMMA MainKept ==
  ASSUME MainInv, view'.main = view.main, published' = published, marks \subseteq marks',
         op'.pc # "move_load", op'.pc = "publish" => op'.next.main = op'.base.main
  PROVE  MainInv'
  BY DEF MainInv, MainKeepsPublished, OnMain, Above, At

\* Each of these commits is below one of those.
Below(P, M) == \A p \in P : \E t \in M : is_ancestor(p, t)

\* Main, merged from one that has not moved and a change above it.
LEMMA MainForwarded ==
  ASSUME NEW M \in SUBSET AllCommits, NEW c \in AllCommits, NEW P \in SUBSET AllCommits,
         NEW b \in M, M = {b}, is_ancestor(b, c),
         Below(P, M)
  PROVE  Below(P \cup {c}, {c})
  BY AncestorOrder DEF Below

\* Main, merged from two that have: what is not below another one.
LEMMA MainMerged ==
  ASSUME NEW M \in SUBSET AllCommits, NEW c \in AllCommits, NEW P \in SUBSET AllCommits,
         \A d, e \in M : is_ancestor(d, e) => d = e,
         NEW N, N = {d \in M \cup {c} : \A e \in (M \cup {c}) \ {d} : ~ is_ancestor(d, e)}
  PROVE  /\ \A d, e \in N : is_ancestor(d, e) => d = e
         /\ Below(P, M) => Below(P \cup N, N)
  <1>1. \A d, e \in N : is_ancestor(d, e) => d = e
    OBVIOUS
  <1>2. ASSUME Below(P, M), NEW p \in P
        PROVE  \E t \in N : is_ancestor(p, t)
    <2>1. PICK t \in M : is_ancestor(p, t)
      BY <1>2 DEF Below
    <2>2. CASE t = c \/ ~ is_ancestor(t, c)
      <3>1. t \in N
        BY <2>2
      <3> QED BY <2>1, <3>1
    <2>3. CASE t # c /\ is_ancestor(t, c)
      <3>1. ASSUME NEW e \in M, e # c PROVE ~ is_ancestor(c, e)
        <4>1. SUFFICES ASSUME is_ancestor(c, e) PROVE FALSE
          OBVIOUS
        <4>2. t \in AllCommits /\ e \in AllCommits
          OBVIOUS
        <4>3. is_ancestor(t, e)
          BY <2>3, <4>1, <4>2, AncestorOrder
        <4>4. t = e
          BY <4>3
        <4> QED BY <2>3, <4>1, <4>2, <4>4, AncestorOrder
      <3>2. c \in N
        BY <3>1
      <3>3. is_ancestor(p, c)
        BY <2>1, <2>3, AncestorOrder
      <3> QED BY <3>2, <3>3
    <2> QED BY <2>2, <2>3
  <1>3. \A p \in N : is_ancestor(p, p)
    BY AncestorOrder
  <1> QED BY <1>1, <1>2, <1>3 DEF Below

\* Publishing a landing keeps what others put on main meanwhile.
LEMMA MainPublish == RepoInv /\ MainInv /\ Publish => MainInv'
  <1> SUFFICES ASSUME RepoInv, MainInv, Publish PROVE MainInv'
    OBVIOUS
  <1>1. SameRefs(view, op.base) /\ op.then # "move_load" /\ op.then # "publish"
    BY DEF RepoInv, OnlyMainMoves, Publish, At
  <1>2. /\ used \in Nat /\ op.base \in Views(used) /\ op.next \in Views(used)
        /\ view \in Views(used) /\ OneEach(view) /\ OneEach(op.next)
        /\ op.change \in Commits(used)
    BY InHand
  <1>3. view'.main = MergeTargets(op.base.main, op.next.main, view.main)
    BY <1>1, <1>2, MergedViews DEF Publish
  <1>4. /\ op'.pc = op.then /\ op'.change = op.change /\ marks' = marks
        /\ published' = published \cup view'.main
    BY InHand DEF Publish, Goto
  <1>5. CASE op.next.main = op.base.main
    <2>1. view'.main = view.main
      BY <1>2, <1>3, <1>5, MergedTargets DEF OneEach
    <2>2. published' = published
      BY <1>4, <2>1 DEF MainInv
    <2> QED BY <1>1, <1>4, <2>1, <2>2, MainKept
  <1>6. CASE op.next.main # op.base.main
    <2>1. /\ op.then = "landed" /\ op.next.main = {op.change}
          /\ "raced" \in marks \/ Above(op.base.main)
      BY <1>6 DEF MainInv, Publish, At
    <2>2. /\ op.change \in AllCommits /\ published \subseteq AllCommits
          /\ view.main \subseteq AllCommits /\ view.main \subseteq published
      BY <1>2, MoreCommits DEF RepoInv, TypeInv, Views, MainInv
    <2>3. SUFFICES /\ \A d, e \in view'.main : is_ancestor(d, e) => d = e
                   /\ "raced" \notin marks => Below(published \cup view'.main, view'.main)
      BY <1>1, <1>4, <2>1 DEF MainInv, MainKeepsPublished, OnMain, At, Below
    <2>4. /\ \A d, e \in view.main : is_ancestor(d, e) => d = e
          /\ "raced" \notin marks => Below(published, view.main)
          /\ view.main \in SUBSET AllCommits /\ published \in SUBSET AllCommits
      BY <2>2 DEF MainInv, MainKeepsPublished, OnMain, Below
    <2>5. CASE view.main = op.base.main
      <3>1. view'.main = {op.change}
        BY <1>2, <1>3, <2>1, <2>5, MergedTargets DEF OneEach
      <3>2. ASSUME "raced" \notin marks
            PROVE  Below(published \cup {op.change}, {op.change})
        <4>1. PICK b \in view.main : view.main = {b} /\ is_ancestor(b, op.change)
          BY <2>1, <2>5, <3>2 DEF Above
        <4> QED BY <2>2, <2>4, <3>2, <4>1, MainForwarded
      <3> QED BY <3>1, <3>2
    <2>6. CASE view.main # op.base.main
      <3>1. view'.main =
              {d \in view.main \cup {op.change} :
                 \A e \in (view.main \cup {op.change}) \ {d} : ~ is_ancestor(d, e)}
        BY <1>3, <1>6, <2>1, <2>6 DEF MergeTargets
      <3> QED BY <2>2, <2>4, <3>1, MainMerged
    <2> QED BY <2>5, <2>6
  <1> QED BY <1>5, <1>6

\* Others advance main at any time.
LEMMA MainOthers == RepoInv /\ MainInv /\ OthersMoveMain => MainInv'
  <1> SUFFICES ASSUME RepoInv, MainInv, OthersMoveMain PROVE MainInv'
    OBVIOUS
  <1> DEFINE m == as_normal(view.main)
             c == Append(m, <<People, Moved + 1>>)
  <1>1. used \in Nat /\ view \in Views(used) /\ OneEach(view)
    BY InHand
  <1>2. m \in view.main /\ view.main = {m}
    BY <1>1, NormalTarget DEF OthersMoveMain, OneEach
  <1>3. view.main \subseteq published /\ published \subseteq AllCommits
    BY <1>1, MoreCommits DEF RepoInv, TypeInv, MainInv
  <1>4. <<People, Moved + 1>> \in Nat \X Nat
    <2>1. Moved \in Nat
      BY FS_Subset, FS_CardinalityType DEF Moved, RepoInv, TypeInv
    <2> QED BY <2>1 DEF People
  <1>5. c \in AllCommits
    BY <1>2, <1>3, <1>4, NewLabel DEF AllCommits
  <1>6. \A p \in AllCommits : is_ancestor(p, m) => is_ancestor(p, c)
    BY <1>2, <1>3, <1>4, AncestorAppend
  <1>7. view' = [view EXCEPT !.main = {c}]
    BY DEF OthersMoveMain, bookmark_set, Normal
  <1> HIDE DEF c, m
  <1>8. view'.main = {c}
    BY <1>1, <1>7 DEF Views
  <1>9. /\ published' = published \cup {c} /\ UNCHANGED op
        /\ marks \subseteq marks' /\ (At("move_load") => "raced" \in marks')
    BY <1>8 DEF OthersMoveMain
  <1>10. is_ancestor(c, c)
    BY <1>5, AncestorOrder
  <1>11. MainKeepsPublished'
    <2>1. SUFFICES ASSUME "raced" \notin marks
                   PROVE  \A p \in published \cup {c} : is_ancestor(p, c)
      BY <1>8, <1>9 DEF MainKeepsPublished, OnMain
    <2>2. \A p \in published : is_ancestor(p, m)
      BY <1>2, <2>1 DEF MainInv, MainKeepsPublished, OnMain
    <2> QED BY <1>3, <1>6, <1>10, <2>2
  <1> QED BY <1>8, <1>9, <1>11 DEF MainInv, Above, At

\* A landing checks main, then moves it.
LEMMA MainLand == RepoInv /\ MainInv /\ (FastForwardCheck \/ BookmarkMove) => MainInv'
  <1> SUFFICES ASSUME RepoInv, MainInv, FastForwardCheck \/ BookmarkMove PROVE MainInv'
    OBVIOUS
  <1>0. used \in Nat /\ view \in Views(used) /\ OneEach(view)
    BY InHand
  <1>1. CASE FastForwardCheck
    <2>1. UNCHANGED <<view, published, marks>>
      BY <1>1 DEF FastForwardCheck, repoVars, history
    <2>2. CASE op' = Leave
      <3>1. op'.pc \in {"cleanup", "ended"}
        BY <2>2, InHand DEF Leave, Ended, Idle
      <3> QED BY <2>1, <3>1, MainKept
    <2>3. CASE /\ op' = [op EXCEPT !.pc = "move_load"] /\ IsNormal(view.main)
               /\ is_ancestor(as_normal(view.main), op.change)
      <3>1. op'.pc = "move_load" /\ op'.change = op.change
        BY <2>3, InHand
      <3>2. as_normal(view.main) \in view.main /\ view.main = {as_normal(view.main)}
        BY <1>0, <2>3, NormalTarget DEF OneEach
      <3> QED BY <2>1, <2>3, <3>1, <3>2 DEF MainInv, MainKeepsPublished, OnMain, Above, At
    <2> QED BY <1>1, <2>2, <2>3 DEF FastForwardCheck
  <1>2. CASE BookmarkMove
    <2> DEFINE new == bookmark_set(view, "main", op.change)
    <2>1. op' = [op EXCEPT !.pc = "publish", !.base = view, !.next = new, !.then = "landed"]
      BY <1>2 DEF BookmarkMove, Transact
    <2>2. new.main = {op.change}
      BY <1>0 DEF bookmark_set, Normal, Views
    <2> HIDE DEF new
    <2>3. /\ op'.pc = "publish" /\ op'.then = "landed" /\ op'.base = view
          /\ op'.next = new /\ op'.change = op.change
      BY <2>1, InHand
    <2>4. UNCHANGED <<view, published, marks>> /\ At("move_load")
      BY <1>2 DEF BookmarkMove, repoVars, history
    <2> QED BY <2>2, <2>3, <2>4 DEF MainInv, MainKeepsPublished, OnMain, Above, At
  <1> QED BY <1>1, <1>2

\* Which refs a call leaves alone.
LEMMA CallsAndRefs ==
  ASSUME NEW k \in Nat, NEW v \in Views(k), NEW n, NEW c, NEW e,
         NEW w \in {workspace_forget(v, n), init_workspace(v, n),
                    add_initial_commit(v, n, c), snapshot_working_copy(v, n, e),
                    rebase(v, c, e)}
  PROVE  w.main = v.main /\ w.branch = v.branch /\ w.tracked = v.tracked
  <1>1. PICK t : w = [v EXCEPT !.wc = t]
    BY DEF workspace_forget, init_workspace, add_initial_commit, snapshot_working_copy,
       rebase, Views
  <1> QED BY <1>1 DEF Views

\* Everything else the orchestrator and its workers do leaves main alone.
LEMMA MainElsewhere ==
  ASSUME RepoInv, MainInv,
         \/ PrepareImplementer \/ PrepareMerger \/ Cleanup \/ RemoveDir \/ WorkspaceAdd
         \/ AddCommit \/ CheckOut \/ AddFails \/ UndoAdd \/ SnapshotWorkspace \/ ReadBack
         \/ Qa \/ RebaseStep \/ Landed \/ PointBookmark \/ GitPush \/ ForgetBookmark
         \/ ResumePush \/ GiveUp \/ WorkerEdits \/ WorkerJj \/ WorkerEnds \/ OthersPush
         \/ Crash \/ UNCHANGED vars
  PROVE  MainInv'
  <1> USE DEF At, Goto, Transact, OnDisk, Quiet, repoVars, history, vars
  <1>0. /\ used \in Nat /\ view \in Views(used) /\ op.next \in Views(used)
        /\ op = [pc |-> op.pc, role |-> op.role, name |-> op.name, change |-> op.change,
                 base |-> op.base, next |-> op.next, then |-> op.then, after |-> op.after]
        /\ op.after \in {"idle", "ended", "add", "rebase", "point"}
    BY InHand
  <1>c. ASSUME UNCHANGED <<view, published>>, marks \subseteq marks',
               NEW base, NEW next, NEW then,
               op' = [op EXCEPT !.pc = "publish", !.base = base, !.next = next, !.then = then],
               next.main = base.main
        PROVE  MainInv'
    <2>1. op'.pc = "publish" /\ op'.next = next /\ op'.base = base
      BY <1>0, <1>c
    <2> QED BY <1>c, <2>1, MainKept
  <1>n. ASSUME UNCHANGED <<view, published>>, marks \subseteq marks',
               op'.pc \notin {"publish", "move_load"}
        PROVE  MainInv'
    BY <1>n, MainKept
  <1>l. Leave.pc \notin {"publish", "move_load"}
    BY <1>0 DEF Leave, Ended, Idle
  <1>1. CASE PrepareImplementer \/ PrepareMerger
    BY <1>0, <1>1, <1>n DEF PrepareImplementer, PrepareMerger, Prepare
  <1>2. CASE Cleanup
    <2>1. CASE op.name \in workspace_list(view)
      <3> DEFINE next == workspace_forget(view, op.name)
      <3>1. next.main = view.main
        BY <1>0, CallsAndRefs
      <3> HIDE DEF next
      <3> QED BY <1>2, <1>c, <2>1, <3>1 DEF Cleanup, next
    <2> QED BY <1>0, <1>2, <1>n, <2>1 DEF Cleanup
  <1>3. CASE RemoveDir
    BY <1>0, <1>3, <1>n DEF RemoveDir
  <1>4. CASE WorkspaceAdd
    <2>1. CASE op' = [op EXCEPT !.pc = "add_failed"]
      BY <1>0, <1>4, <1>n, <2>1 DEF WorkspaceAdd
    <2> DEFINE next == init_workspace(view, op.name)
    <2>2. next.main = view.main
      BY <1>0, CallsAndRefs
    <2> HIDE DEF next
    <2>3. ASSUME NEW c, op' = [op EXCEPT !.pc = "publish", !.then = "add_commit",
                                 !.base = view, !.next = next, !.change = c]
          PROVE  MainInv'
      <3>1. op'.pc = "publish" /\ op'.next = next /\ op'.base = view
        BY <1>0, <2>3
      <3> QED BY <1>4, <2>2, <3>1, MainKept DEF WorkspaceAdd
    <2> QED BY <1>4, <2>1, <2>3 DEF WorkspaceAdd, next
  <1>5. CASE AddCommit
    <2> DEFINE next == add_initial_commit(op.next, op.name, op.change)
    <2>1. next.main = op.next.main
      BY <1>0, CallsAndRefs
    <2> HIDE DEF next
    <2> QED BY <1>5, <1>c, <2>1 DEF AddCommit, next
  <1>6. CASE CheckOut \/ AddFails \/ WorkerEnds
    BY <1>0, <1>6, <1>n DEF CheckOut, AddFails, WorkerEnds
  <1>7. CASE UndoAdd \/ Landed
    BY <1>l, <1>7, <1>n DEF UndoAdd, Landed, Ended, Idle
  <1>8. CASE SnapshotWorkspace
    <2> DEFINE next == snapshot_working_copy(view, op.name, files[op.name])
    <2>1. next.main = view.main
      BY <1>0, CallsAndRefs
    <2> HIDE DEF next
    <2>2. CASE op' = [op EXCEPT !.pc = "publish", !.base = view, !.next = next,
                                !.then = "read_back"]
      BY <1>8, <1>c, <2>1, <2>2 DEF SnapshotWorkspace
    <2>3. CASE op' = [op EXCEPT !.pc = "read_back"]
      BY <1>0, <1>8, <1>n, <2>3 DEF SnapshotWorkspace
    <2> QED BY <1>8, <2>2, <2>3 DEF SnapshotWorkspace, next
  <1>9. CASE ReadBack
    <2>1. op'.pc \in {"qa", "cleanup"}
      BY <1>0, <1>9 DEF ReadBack
    <2> QED BY <1>9, <1>n, <2>1 DEF ReadBack
  <1>10. CASE Qa
    <2>1. op'.pc \in {"move", "cleanup"}
      BY <1>0, <1>10 DEF Qa
    <2> QED BY <1>10, <1>n, <2>1 DEF Qa
  <1>11. CASE RebaseStep
    <2>1. CASE op' = Leave \/ op' = [op EXCEPT !.pc = "move"]
      BY <1>0, <1>l, <1>11, <1>n, <2>1 DEF RebaseStep
    <2> DEFINE main == as_normal(view.main)
               next == rebase(view, op.change, main)
    <2>2. next.main = view.main
      BY <1>0, CallsAndRefs
    <2> HIDE DEF next
    <2>3. ASSUME NEW c, NEW then,
                 op' = [op EXCEPT !.pc = "publish", !.then = then,
                                  !.base = view, !.next = next, !.change = c]
          PROVE  MainInv'
      <3>1. op'.pc = "publish" /\ op'.next = next /\ op'.base = view
        BY <1>0, <2>3
      <3> QED BY <1>11, <2>2, <3>1, MainKept DEF RebaseStep
    <2> QED BY <1>11, <2>1, <2>3 DEF RebaseStep, next
  <1>12. CASE PointBookmark
    <2> DEFINE next == bookmark_set(view, "branch", op.change)
    <2>1. next.main = view.main
      BY <1>0 DEF bookmark_set, Views
    <2> HIDE DEF next
    <2> QED BY <1>12, <1>c, <2>1 DEF PointBookmark, next
  <1>13. CASE GitPush
    <2> DEFINE next == [view EXCEPT !.tracked = Normal(as_normal(view.branch))]
    <2>1. next.main = view.main
      BY <1>0 DEF Views
    <2> HIDE DEF next
    <2>2. CASE op' = [op EXCEPT !.pc = "publish", !.base = view, !.next = next, !.then = "pr"]
      BY <1>13, <1>c, <2>1, <2>2 DEF GitPush
    <2>3. CASE op' = Leave
      BY <1>l, <1>13, <1>n, <2>3 DEF GitPush
    <2> QED BY <1>13, <2>2, <2>3 DEF GitPush, next
  <1>14. CASE ForgetBookmark
    <2> DEFINE next == bookmark_forget(view, "branch")
    <2>1. next.main = view.main
      BY <1>0 DEF bookmark_forget, Views
    <2> HIDE DEF next
    <2> QED BY <1>14, <1>c, <2>1 DEF ForgetBookmark, next
  <1>15. CASE ResumePush
    BY <1>15, <1>n DEF ResumePush, Idle
  <1>16. CASE GiveUp
    <2>1. \/ op' = Ended \/ op' = Idle
          \/ op' = [op EXCEPT !.pc = "cleanup", !.after = "idle"]
      <3>1. CASE op.role = "merger"
        BY <1>16, <3>1 DEF GiveUp
      <3>2. CASE op.role # "merger"
        BY <1>16, <3>2 DEF GiveUp
      <3> QED BY <3>1, <3>2
    <2>2. op'.pc \in {"ended", "idle", "cleanup"}
      <3>1. Ended.pc = "ended" /\ Idle.pc = "idle"
        BY DEF Ended, Idle
      <3>2. [op EXCEPT !.pc = "cleanup", !.after = "idle"].pc = "cleanup"
        BY <1>0
      <3> QED BY <2>1, <3>1, <3>2
    <2> QED BY <1>16, <1>n, <2>2 DEF GiveUp
  <1>17. CASE WorkerJj
    <2>1. view'.main = view.main
      BY <1>0, <1>17, CallsAndRefs DEF WorkerJj
    <2> QED BY <1>17, <2>1 DEF WorkerJj, MainInv, MainKeepsPublished, OnMain, Above
  <1>18. CASE WorkerEdits \/ OthersPush \/ UNCHANGED vars
    BY <1>18 DEF WorkerEdits, OthersPush, MainInv, MainKeepsPublished, OnMain, Above
  <1>19. CASE Crash
    <2>1. op'.pc = "restart"
      BY <1>0, <1>19 DEF Crash
    <2> QED BY <1>19, <1>n, <2>1 DEF Crash
  <1> QED BY <1>1, <1>2, <1>3, <1>4, <1>5, <1>6, <1>7, <1>8, <1>9, <1>10, <1>11, <1>12,
             <1>13, <1>14, <1>15, <1>16, <1>17, <1>18, <1>19

\* What a landing knows of main when it moves it.
THEOREM MainIsFollowed == Spec => []MainInv
  <1>1. Init => MainInv
    <2> SUFFICES ASSUME Init PROVE MainInv
      OBVIOUS
    <2>1. Root \in AllCommits
      BY EmptySeq DEF Root, AllCommits
    <2>2. is_ancestor(Root, Root)
      BY <2>1, AncestorOrder
    <2> QED BY <2>2, EmptyViewOK DEF Init, MainInv, MainKeepsPublished, OnMain, Idle, At,
            EmptyView, Normal
  <1>2. RepoInv /\ MainInv /\ [Next]_vars => MainInv'
    BY MainElsewhere, MainPublish, MainOthers, MainLand DEF Next, Orchestrator, Others
  <1> QED BY RepositoryIsFollowed, <1>1, <1>2, PTL DEF Spec

\* Every commit main ever pointed at stays below it, whoever else commits,
\* pushes, fails and crashes, as long as nobody advances main between the
\* ancestry check of a landing and its move (fast_forward_bookmark).
THEOREM MainIsKept == Spec => []MainKeepsPublished
  <1>1. MainInv => MainKeepsPublished
    BY DEF MainInv
  <1> QED BY MainIsFollowed, <1>1, PTL

-----------------------------------------------------------------------------
(* The branch of a pull request. *)

\* A step that writes neither the branch nor the remote.
LEMMA PushKept ==
  ASSUME PushInv, UNCHANGED <<origin, foreign>>,
         "rejected" \in marks' => "rejected" \in marks,
         Ours(view'), Ours(op'.base), Ours(op'.next),
         op'.pc = "point" => Own(op'.change),
         PushedByImplementer', Pushed /\ origin # {} => Pushed'
  PROVE  PushInv'
  BY DEF PushInv, Ours, RejectedOnlyForOthers, At

\* Which views are ours: one whose branch and tracked position are those of
\* one that is, and the empty one.
LEMMA OursCarried ==
  /\ \A v, w : Ours(v) /\ w.branch = v.branch /\ w.tracked = v.tracked => Ours(w)
  /\ Ours(EmptyView)
  BY EmptyViewOK DEF Ours

\* What somebody else pushed is on the remote, and only then is a push refused.
LEMMA PushGit == RepoInv /\ PushInv /\ GitPush => PushInv'
  <1> SUFFICES ASSUME RepoInv, PushInv, GitPush PROVE PushInv'
    OBVIOUS
  <1>0. /\ used \in Nat /\ view \in Views(used) /\ OneEach(view)
        /\ op = [pc |-> op.pc, role |-> op.role, name |-> op.name, change |-> op.change,
                 base |-> op.base, next |-> op.next, then |-> op.then, after |-> op.after]
    BY InHand
  <1> DEFINE target == as_normal(view.branch)
             next == [view EXCEPT !.tracked = Normal(target)]
  <1>1. view.branch = {target} /\ At("push") /\ Own(target)
    BY <1>0, NormalTarget DEF GitPush, OneEach, PushInv, Ours
  <1>2. /\ next.branch = {target} /\ next.tracked = {target}
    BY <1>0, <1>1 DEF Normal, Views
  <1>3. op.role = "implementer"
    BY <1>1 DEF PushInv, PushedByImplementer, At
  <1>4. /\ UNCHANGED <<view, foreign>>
        /\ \/ /\ PushAccepted(origin, view.tracked, target)
              /\ origin' = {target} /\ UNCHANGED marks
              /\ op' = [op EXCEPT !.pc = "publish", !.base = view, !.next = next,
                                  !.then = "pr"]
           \/ /\ ~ PushAccepted(origin, view.tracked, target)
              /\ op' = Ended /\ UNCHANGED origin
              /\ marks' = marks \cup {"rejected"}
    BY <1>3 DEF GitPush, Transact, history, Leave, Normal
  <1> HIDE DEF next, target
  <1>5. CASE PushAccepted(origin, view.tracked, target)
    <2>1. origin = {target} \/ origin = view.tracked
      BY <1>5 DEF PushAccepted, Normal
    <2>2. \A o \in origin : Own(o)
      BY <1>1, <2>1 DEF PushInv, Ours
    <2>3. foreign = {}
      BY <2>2 DEF PushInv, Own
    <2>4. /\ op'.pc = "publish" /\ op'.base = view /\ op'.next = next /\ op'.then = "pr"
          /\ op'.role = op.role
      BY <1>0, <1>4, <1>5
    <2>5. Ours(view)' /\ Ours(op.base)' /\ Ours(op.next)'
      BY <1>1, <1>2, <1>4, <1>5, <2>4 DEF Ours, PushInv
    <2>6. Pushed'
      BY <1>1, <1>2, <1>4, <1>5, <2>4 DEF Pushed, Publishing, At
    <2>7. PushedByImplementer'
      BY <1>3, <2>4 DEF PushedByImplementer
    <2> QED BY <1>4, <1>5, <2>3, <2>4, <2>5, <2>6, <2>7
            DEF PushInv, At, RejectedOnlyForOthers
  <1>6. CASE ~ PushAccepted(origin, view.tracked, target)
    <2>1. foreign # {}
      <3>1. SUFFICES ASSUME foreign = {} PROVE FALSE
        OBVIOUS
      <3>2. origin # view.tracked /\ origin # {target}
        BY <1>6 DEF PushAccepted, Normal
      <3>3. origin # {}
        BY <3>1, <3>2 DEF PushInv, Ours
      <3>4. Pushed
        BY <3>1, <3>3 DEF PushInv
      <3> QED BY <1>1, <3>2, <3>4 DEF Pushed, At, Publishing
    <2>2. /\ op'.pc = "ended" /\ op'.base = EmptyView /\ op'.next = EmptyView
      BY <1>4, <1>6 DEF Ended, Idle
    <2>3. Ours(view)' /\ Ours(op.base)' /\ Ours(op.next)'
      BY <1>4, <1>6, <2>2, OursCarried DEF Ours, PushInv
    <2>4. PushedByImplementer'
      BY <2>2 DEF PushedByImplementer, Publishing, Cleaning, At
    <2> QED BY <1>4, <1>6, <2>1, <2>2, <2>3, <2>4 DEF PushInv, At, RejectedOnlyForOthers
  <1> QED BY <1>5, <1>6

\* Somebody else pushes on top of what is on the remote.
LEMMA PushOthers == RepoInv /\ PushInv /\ OthersPush => PushInv'
  <1> SUFFICES ASSUME RepoInv, PushInv, OthersPush PROVE PushInv'
    OBVIOUS
  <1> DEFINE o == IF origin = Absent THEN Root ELSE as_normal(origin)
             e == <<People, Cardinality(foreign) + 1>>
             c == Append(o, e)
  <1>1. /\ UNCHANGED <<view, op, marks>> /\ origin' = {c} /\ foreign' = foreign \cup {c}
    BY DEF OthersPush, Normal
  <1>2. /\ o \in AllCommits /\ foreign \subseteq AllCommits /\ e \in Nat \X Nat
        /\ origin # {} => origin = {o}
    <2>1. o \in AllCommits /\ (origin # {} => origin = {o})
      BY NormalTarget, EmptySeq DEF RepoInv, OneTarget, TypeInv, AllCommits, Absent, Root
    <2>2. Cardinality(foreign) + 1 \in Nat
      BY FS_CardinalityType DEF RepoInv, TypeInv
    <2> QED BY <2>1, <2>2 DEF RepoInv, TypeInv, AllCommits, People
  <1>3. c \in AllCommits /\ c # Root /\ Last(c) = e
    BY <1>2, NewLabel DEF AllCommits
  <1>4. \A d \in foreign : is_ancestor(d, c)
    <2>1. SUFFICES ASSUME NEW d \in foreign PROVE is_ancestor(d, c)
      OBVIOUS
    <2>2. origin # {} /\ is_ancestor(d, o)
      BY <1>2 DEF PushInv
    <2> HIDE DEF o, e
    <2> QED BY <1>2, <2>2, AncestorAppend
  <1>5. is_ancestor(c, c)
    BY <1>3, AncestorOrder
  <1>6. Last(c)[1] = People
    BY <1>3
  <1> HIDE DEF c
  <1> QED BY <1>1, <1>3, <1>4, <1>5, <1>6
          DEF PushInv, Ours, PushedByImplementer, RejectedOnlyForOthers, At, Publishing,
              Cleaning

\* Everything else leaves the remote alone, and the branch too but when it is
\* pointed at the change or forgotten.
LEMMA PushElsewhere ==
  ASSUME RepoInv, PushInv,
         \/ Publish \/ PrepareImplementer \/ PrepareMerger \/ Cleanup \/ RemoveDir
         \/ WorkspaceAdd \/ AddCommit \/ CheckOut \/ AddFails \/ UndoAdd
         \/ SnapshotWorkspace \/ ReadBack \/ Qa \/ RebaseStep \/ FastForwardCheck
         \/ BookmarkMove \/ Landed \/ PointBookmark \/ ForgetBookmark \/ ResumePush
         \/ GiveUp \/ WorkerEdits \/ WorkerJj \/ WorkerEnds \/ OthersMoveMain
         \/ Crash \/ UNCHANGED vars
  PROVE  PushInv'
  <1> USE DEF At, Goto, Transact, OnDisk, Quiet, repoVars, history, vars
  <1>0. /\ used \in Nat /\ view \in Views(used) /\ op.next \in Views(used)
        /\ op.base \in Views(used) /\ OneEach(view)
        /\ op = [pc |-> op.pc, role |-> op.role, name |-> op.name, change |-> op.change,
                 base |-> op.base, next |-> op.next, then |-> op.then, after |-> op.after]
        /\ op.after \in {"idle", "ended", "add", "rebase", "point"}
        /\ op.role \in {"implementer", "merger"}
    BY InHand
  <1>i. Ours(view) /\ Ours(op.base) /\ Ours(op.next) /\ Ours(EmptyView)
    BY OursCarried DEF PushInv
  <1>r. Idle.base = EmptyView /\ Idle.next = EmptyView /\ Idle.role = "implementer"
    BY DEF Idle
  <1> DEFINE apart == {"idle", "cleanup", "rmdir", "add", "add_commit", "check_out",
                       "add_failed", "work", "snapshot", "read_back", "qa", "rebase",
                       "conflict", "move", "move_load"}
  <1>p. op.pc \in apart => ~ Pushed
    BY DEF Pushed, Publishing
  \* A call that is no part of a push begins.
  <1>c. ASSUME UNCHANGED <<view, origin, foreign>>,
               "rejected" \in marks' => "rejected" \in marks,
               op.pc \in apart, Ours(op'.base), Ours(op'.next),
               op'.pc = "publish", op'.role = op.role, op'.after = op.after,
               \/ op'.then \in {"add_commit", "check_out", "read_back", "move", "conflict",
                                "landed"}
               \/ op.pc = "cleanup" /\ op'.then = "rmdir"
        PROVE  PushInv'
    <2>1. PushedByImplementer'
      BY <1>c DEF PushInv, PushedByImplementer, Publishing, Cleaning
    <2> QED BY <1>c, <1>i, <1>p, <2>1, PushKept
  \* The orchestrator goes on without one.
  <1>n. ASSUME UNCHANGED <<view, origin, foreign>>,
               "rejected" \in marks' => "rejected" \in marks,
               op.pc \in apart, op'.base = op.base, op'.next = op.next,
               op'.pc \in apart, op'.pc \in {"cleanup", "rmdir"} =>
                 op'.after # "point" \/ op'.role = "implementer"
        PROVE  PushInv'
    <2>1. PushedByImplementer'
      BY <1>n DEF PushedByImplementer, Publishing, Cleaning
    <2> QED BY <1>n, <1>i, <1>p, <2>1, PushKept
  \* The issue ends.
  <1>e. ASSUME UNCHANGED <<view, origin, foreign>>,
               "rejected" \in marks' => "rejected" \in marks,
               op' = Ended \/ (op' = Idle /\ ~ Pushed)
        PROVE  PushInv'
    <2>1. /\ op'.base = EmptyView /\ op'.next = EmptyView /\ op'.pc \in {"idle", "ended"}
          /\ ~ Pushed \/ op'.pc = "ended"
      BY <1>e DEF Ended, Idle
    <2>2. PushedByImplementer' /\ (~ Pushed \/ Pushed')
      BY <2>1 DEF PushedByImplementer, Publishing, Cleaning, Pushed
    <2> QED BY <1>e, <1>i, <2>1, <2>2, PushKept
  <1>l. ASSUME UNCHANGED <<view, origin, foreign>>,
               "rejected" \in marks' => "rejected" \in marks,
               op' = Leave, op.pc \in apart \/ op.pc = "landed"
        PROVE  PushInv'
    <2>1. CASE op.role = "merger"
      <3>1. op' = [op EXCEPT !.pc = "cleanup", !.after = "ended"]
        BY <1>l, <2>1 DEF Leave
      <3>2. /\ op'.base = op.base /\ op'.next = op.next /\ op'.pc = "cleanup"
            /\ op'.after = "ended"
        BY <1>0, <3>1
      <3>3. PushedByImplementer'
        BY <3>2 DEF PushedByImplementer, Publishing, Cleaning
      <3>4. ~ Pushed
        BY <1>l, <1>p, <2>1 DEF Pushed, Publishing
      <3> QED BY <1>i, <1>l, <3>2, <3>3, <3>4, PushKept
    <2>2. CASE op.role # "merger"
      BY <1>e, <1>l, <2>2 DEF Leave
    <2> QED BY <2>1, <2>2
  <1>1. CASE Publish
    <2>1. /\ op'.pc = op.then /\ op'.role = op.role /\ op'.change = op.change
          /\ op'.base = op.base /\ op'.next = op.next /\ op'.after = op.after
          /\ UNCHANGED <<origin, foreign, marks>> /\ op.pc = "publish"
      BY <1>0, <1>1 DEF Publish
    <2>2. view'.branch = op.next.branch /\ view'.tracked = op.next.tracked
      <3>1. SameRefs(view, op.base) /\ OneEach(op.next)
        BY <2>1, InHand DEF RepoInv, OnlyMainMoves
      <3>2. SameRefs(MergeViews(op.base, op.next, view), op.next)
        BY <1>0, <3>1, MergedViews
      <3> QED BY <1>1, <3>2 DEF Publish, SameRefs
    <2>3. op.then \in {"rmdir", "add_commit", "check_out", "read_back", "move", "conflict",
                       "landed", "push", "pr"}
      BY <2>1 DEF RepoInv, OnlyMainMoves
    <2>4. Ours(view')
      BY <1>i, <2>2, OursCarried
    <2>5. PushedByImplementer'
      BY <2>1, <2>3 DEF PushInv, PushedByImplementer, Publishing, Cleaning
    <2>6. ~ Pushed \/ Pushed'
      BY <2>1, <2>2, <2>3 DEF Pushed, Publishing
    <2> QED BY <1>i, <2>1, <2>3, <2>4, <2>5, <2>6, PushKept
  <1>2. CASE PrepareImplementer \/ PrepareMerger
    BY <1>0, <1>2, <1>n DEF PrepareImplementer, PrepareMerger, Prepare
  <1>3. CASE Cleanup
    <2>1. CASE op.name \in workspace_list(view)
      <3> DEFINE next == workspace_forget(view, op.name)
      <3>1. Ours(next)
        BY <1>0, <1>i, CallsAndRefs, OursCarried
      <3> HIDE DEF next
      <3>2. op' = [op EXCEPT !.pc = "publish", !.base = view, !.next = next, !.then = "rmdir"]
        BY <1>3, <2>1 DEF Cleanup, next
      <3>3. /\ op'.pc = "publish" /\ op'.base = view /\ op'.next = next
            /\ op'.then = "rmdir" /\ op'.role = op.role /\ op'.after = op.after
        BY <1>0, <3>2
      <3> QED BY <1>3, <1>c, <1>i, <3>1, <3>3 DEF Cleanup
    <2>2. CASE op' = [op EXCEPT !.pc = "rmdir"]
      <3>1. /\ op'.pc = "rmdir" /\ op'.base = op.base /\ op'.next = op.next
            /\ op'.role = op.role /\ op'.after = op.after
        BY <1>0, <2>2
      <3>2. op'.after # "point" \/ op'.role = "implementer"
        BY <1>3, <3>1 DEF Cleanup, PushInv, PushedByImplementer, Cleaning
      <3> QED BY <1>3, <1>n, <3>1, <3>2 DEF Cleanup
    <2> QED BY <1>3, <2>1, <2>2 DEF Cleanup
  <1>4. CASE RemoveDir
    <2>1. /\ op'.pc = op.after /\ op'.base = op.base /\ op'.next = op.next
          /\ op'.role = op.role /\ op'.change = op.change /\ op'.after = op.after
          /\ UNCHANGED <<view, origin, foreign, marks>> /\ op.pc = "rmdir"
      BY <1>0, <1>4 DEF RemoveDir
    <2>2. op.after = "point" => op.role = "implementer" /\ Own(op.change)
      BY <2>1 DEF PushInv, PushedByImplementer, RepoInv, WorkInTree, Cleaning
    <2>3. PushedByImplementer'
      BY <1>0, <2>1, <2>2 DEF PushedByImplementer, Publishing, Cleaning
    <2> QED BY <1>i, <1>p, <2>1, <2>2, <2>3, PushKept
  <1>5. CASE WorkspaceAdd
    <2>1. CASE op' = [op EXCEPT !.pc = "add_failed"]
      BY <1>0, <1>5, <1>n, <2>1 DEF WorkspaceAdd
    <2> DEFINE next == init_workspace(view, op.name)
    <2>2. Ours(next)
      BY <1>0, <1>i, CallsAndRefs, OursCarried
    <2> HIDE DEF next
    <2>3. ASSUME NEW c, op' = [op EXCEPT !.pc = "publish", !.then = "add_commit",
                                 !.base = view, !.next = next, !.change = c]
          PROVE  PushInv'
      <3>1. /\ op'.pc = "publish" /\ op'.next = next /\ op'.base = view
            /\ op'.then = "add_commit" /\ op'.role = op.role /\ op'.after = op.after
        BY <1>0, <2>3
      <3> QED BY <1>5, <1>c, <1>i, <2>2, <3>1 DEF WorkspaceAdd
    <2> QED BY <1>5, <2>1, <2>3 DEF WorkspaceAdd, next
  <1>6. CASE AddCommit
    <2> DEFINE next == add_initial_commit(op.next, op.name, op.change)
    <2>1. Ours(next)
      BY <1>0, <1>i, CallsAndRefs, OursCarried
    <2> HIDE DEF next
    <2>2. op' = [op EXCEPT !.pc = "publish", !.base = op.next, !.next = next,
                           !.then = "check_out"]
      BY <1>6 DEF AddCommit, next
    <2>3. /\ op'.pc = "publish" /\ op'.next = next /\ op'.base = op.next
          /\ op'.then = "check_out" /\ op'.role = op.role /\ op'.after = op.after
      BY <1>0, <2>2
    <2> QED BY <1>6, <1>c, <1>i, <2>1, <2>3 DEF AddCommit
  <1>7. CASE CheckOut \/ WorkerEnds
    BY <1>0, <1>7, <1>n DEF CheckOut, WorkerEnds
  <1>8. CASE AddFails
    <2>1. /\ op'.pc = "add_failed" /\ op'.base = op.base /\ op'.next = op.next
      BY <1>0, <1>8 DEF AddFails
    <2>2. ~ Pushed
      BY <1>8 DEF AddFails, InCreate, Pushed, Publishing
    <2>3. PushedByImplementer'
      BY <2>1 DEF PushedByImplementer, Publishing, Cleaning
    <2> QED BY <1>8, <1>i, <2>1, <2>2, <2>3, PushKept DEF AddFails
  <1>9. CASE UndoAdd
    BY <1>9, <1>e DEF UndoAdd
  <1>10. CASE SnapshotWorkspace
    <2> DEFINE next == snapshot_working_copy(view, op.name, files[op.name])
    <2>1. Ours(next)
      BY <1>0, <1>i, CallsAndRefs, OursCarried
    <2> HIDE DEF next
    <2>2. CASE op' = [op EXCEPT !.pc = "publish", !.base = view, !.next = next,
                                !.then = "read_back"]
      <3>1. /\ op'.pc = "publish" /\ op'.next = next /\ op'.base = view
            /\ op'.then = "read_back" /\ op'.role = op.role /\ op'.after = op.after
        BY <1>0, <2>2
      <3> QED BY <1>10, <1>c, <1>i, <2>1, <3>1 DEF SnapshotWorkspace
    <2>3. CASE op' = [op EXCEPT !.pc = "read_back"]
      BY <1>0, <1>10, <1>n, <2>3 DEF SnapshotWorkspace
    <2> QED BY <1>10, <2>2, <2>3 DEF SnapshotWorkspace, next
  <1>11. CASE ReadBack
    <2>1. /\ op'.base = op.base /\ op'.next = op.next
          /\ \/ op'.pc = "qa"
             \/ op'.pc = "cleanup" /\ op'.after = "ended"
      BY <1>0, <1>11 DEF ReadBack
    <2> QED BY <1>11, <1>n, <2>1 DEF ReadBack
  <1>12. CASE Qa
    <2>1. /\ op'.base = op.base /\ op'.next = op.next
          /\ \/ op'.pc = "move"
             \/ /\ op'.pc = "cleanup"
                /\ op'.after # "point" \/ op'.role = "implementer"
      BY <1>0, <1>12 DEF Qa
    <2> QED BY <1>12, <1>n, <2>1 DEF Qa
  <1>13. CASE RebaseStep
    <2>1. CASE op' = Leave
      BY <1>13, <1>l, <2>1 DEF RebaseStep
    <2>2. CASE op' = [op EXCEPT !.pc = "move"]
      BY <1>0, <1>13, <1>n, <2>2 DEF RebaseStep
    <2> DEFINE main == as_normal(view.main)
               next == rebase(view, op.change, main)
    <2>3. Ours(next)
      BY <1>0, <1>i, CallsAndRefs, OursCarried
    <2> HIDE DEF next
    <2>4. ASSUME NEW c, NEW then \in {"move", "conflict"},
                 op' = [op EXCEPT !.pc = "publish", !.then = then,
                                  !.base = view, !.next = next, !.change = c]
          PROVE  PushInv'
      <3>1. /\ op'.pc = "publish" /\ op'.next = next /\ op'.base = view
            /\ op'.then = then /\ op'.role = op.role /\ op'.after = op.after
        BY <1>0, <2>4
      <3> QED BY <1>13, <1>c, <1>i, <2>3, <3>1 DEF RebaseStep
    <2> QED BY <1>13, <2>1, <2>2, <2>4 DEF RebaseStep, next
  <1>14. CASE FastForwardCheck
    <2>1. CASE op' = Leave
      BY <1>14, <1>l, <2>1 DEF FastForwardCheck
    <2>2. CASE op' = [op EXCEPT !.pc = "move_load"]
      BY <1>0, <1>14, <1>n, <2>2 DEF FastForwardCheck
    <2> QED BY <1>14, <2>1, <2>2 DEF FastForwardCheck
  <1>15. CASE BookmarkMove
    <2> DEFINE next == bookmark_set(view, "main", op.change)
    <2>1. next.branch = view.branch /\ next.tracked = view.tracked
      BY <1>0 DEF bookmark_set, Views
    <2> HIDE DEF next
    <2>2. Ours(next)
      BY <1>i, <2>1, OursCarried
    <2>3. op' = [op EXCEPT !.pc = "publish", !.base = view, !.next = next,
                           !.then = "landed"]
      BY <1>15 DEF BookmarkMove, next
    <2>4. /\ op'.pc = "publish" /\ op'.next = next /\ op'.base = view
          /\ op'.then = "landed" /\ op'.role = op.role /\ op'.after = op.after
      BY <1>0, <2>3
    <2> QED BY <1>15, <1>c, <1>i, <2>2, <2>4 DEF BookmarkMove
  <1>16. CASE Landed
    BY <1>16, <1>l DEF Landed
  <1>17. CASE PointBookmark
    <2> DEFINE next == bookmark_set(view, "branch", op.change)
    <2>1. next.branch = {op.change} /\ next.tracked = view.tracked
      BY <1>0 DEF bookmark_set, Views, Normal
    <2> HIDE DEF next
    <2>2. Own(op.change) /\ op.role = "implementer" /\ op.pc = "point"
      BY <1>17 DEF PointBookmark, PushInv, PushedByImplementer
    <2>3. Ours(next)
      BY <1>i, <2>1, <2>2 DEF Ours
    <2>4. op' = [op EXCEPT !.pc = "publish", !.base = view, !.next = next, !.then = "push"]
      BY <1>17 DEF PointBookmark, next
    <2>5. /\ op'.pc = "publish" /\ op'.next = next /\ op'.base = view
          /\ op'.then = "push" /\ op'.role = op.role
          /\ UNCHANGED <<view, origin, foreign, marks>>
      BY <1>0, <1>17, <2>4 DEF PointBookmark
    <2>6. PushedByImplementer' /\ (~ Pushed \/ Pushed')
      BY <2>1, <2>2, <2>5 DEF PushedByImplementer, Pushed, Publishing
    <2> QED BY <1>i, <2>3, <2>5, <2>6, PushKept
  <1>18. CASE ForgetBookmark
    <2> DEFINE next == bookmark_forget(view, "branch")
    <2>1. next.branch = {} /\ next.tracked = view.tracked
      BY <1>0 DEF bookmark_forget, Views, Absent
    <2> HIDE DEF next
    <2>2. op.role = "implementer" /\ op.pc = "pr"
      BY <1>18 DEF ForgetBookmark, PushInv, PushedByImplementer
    <2>3. Ours(next)
      BY <1>i, <2>1 DEF Ours
    <2>4. op' = [op EXCEPT !.pc = "publish", !.base = view, !.next = next,
                           !.then = "landed"]
      BY <1>18 DEF ForgetBookmark, next
    <2>5. /\ op'.pc = "publish" /\ op'.next = next /\ op'.base = view
          /\ op'.then = "landed" /\ op'.role = op.role
          /\ UNCHANGED <<view, origin, foreign, marks>>
      BY <1>0, <1>18, <2>4 DEF ForgetBookmark
    <2>6. PushedByImplementer' /\ (~ Pushed \/ Pushed')
      BY <2>2, <2>5 DEF PushedByImplementer, Pushed, Publishing, Cleaning
    <2> QED BY <1>i, <2>3, <2>5, <2>6, PushKept
  <1>19. CASE ResumePush
    <2> DEFINE c == as_normal(view.branch)
    <2>1. view.branch = {c} /\ Own(c)
      BY <1>0, <1>19, NormalTarget DEF ResumePush, OneEach, PushInv, Ours
    <2>2. op' = [Idle EXCEPT !.pc = "point", !.change = c]
      BY <1>19 DEF ResumePush
    <2> HIDE DEF c
    <2>3. /\ op'.pc = "point" /\ op'.change = c /\ op'.base = EmptyView
          /\ op'.next = EmptyView /\ op'.role = "implementer"
          /\ UNCHANGED <<view, origin, foreign, marks>>
          /\ op.pc = "restart" /\ op.then \in {"point", "push", "pr"}
      BY <1>19, <2>2 DEF ResumePush, Idle
    <2>4. PushedByImplementer' /\ (~ Pushed \/ Pushed')
      BY <2>1, <2>3 DEF PushedByImplementer, Pushed, Publishing
    <2> QED BY <1>i, <2>1, <2>3, <2>4, PushKept
  <1>20. CASE GiveUp
    <2>1. UNCHANGED <<view, origin, foreign, marks>> /\ op.pc = "restart"
      BY <1>20 DEF GiveUp
    <2>2. CASE op.then \in {"point", "push", "pr"}
      <3>1. view.branch = {}
        BY <1>0, <1>20, <2>2, NormalTarget DEF GiveUp, OneEach
      <3>2. Pushed => origin = {}
        BY <2>1, <2>2, <3>1 DEF Pushed, Publishing
      <3>3. op' = Ended
        BY <1>20, <2>2 DEF GiveUp
      <3> QED BY <1>e, <2>1, <3>3
    <2>3. CASE op.then \notin {"point", "push", "pr"}
      <3>1. Pushed => op.then = "landed"
        BY <2>1, <2>3 DEF Pushed, Publishing
      <3>2. CASE op' = Ended \/ (op' = Idle /\ op.then # "landed")
        BY <1>e, <2>1, <3>1, <3>2
      <3>3. CASE op' = [op EXCEPT !.pc = "cleanup", !.after = "idle"] /\ op.then # "landed"
        <4>1. /\ op'.base = op.base /\ op'.next = op.next /\ op'.pc = "cleanup"
              /\ op'.after = "idle"
          BY <1>0, <3>3
        <4>2. PushedByImplementer'
          BY <4>1 DEF PushedByImplementer, Publishing, Cleaning
        <4> QED BY <1>i, <2>1, <3>1, <3>3, <4>1, <4>2, PushKept
      <3>4. CASE op.role = "merger"
        BY <1>20, <3>2, <3>4 DEF GiveUp
      <3>5. CASE op.role # "merger"
        BY <1>20, <3>2, <3>3, <3>5 DEF GiveUp
      <3> QED BY <3>4, <3>5
    <2> QED BY <2>2, <2>3
  <1>21. CASE Crash
    <2>1. op' = [op EXCEPT !.pc = "restart",
                           !.then = IF op.pc = "publish" THEN op.then ELSE op.pc]
      BY <1>21 DEF Crash
    <2>2. /\ op'.pc = "restart" /\ op'.base = op.base /\ op'.next = op.next
          /\ op'.then = IF op.pc = "publish" THEN op.then ELSE op.pc
      BY <1>0, <2>1
    <2>3. /\ UNCHANGED <<view, origin, foreign>> /\ op.pc \notin {"ended", "restart"}
          /\ "rejected" \in marks' => "rejected" \in marks
      BY <1>21 DEF Crash
    <2>4. PushedByImplementer' /\ (~ Pushed \/ Pushed')
      BY <2>2, <2>3 DEF PushedByImplementer, Pushed, Publishing, Cleaning
    <2> QED BY <1>i, <2>2, <2>3, <2>4, PushKept
  <1>22. CASE WorkerEdits \/ UNCHANGED vars
    BY <1>22 DEF WorkerEdits, PushInv, Ours, PushedByImplementer, Pushed, Publishing,
       Cleaning, RejectedOnlyForOthers
  <1>23. CASE WorkerJj \/ OthersMoveMain
    <2>1. view'.branch = view.branch /\ view'.tracked = view.tracked
      <3>1. CASE WorkerJj
        BY <1>0, <3>1, CallsAndRefs DEF WorkerJj
      <3>2. CASE OthersMoveMain
        BY <1>0, <3>2 DEF OthersMoveMain, bookmark_set, Views
      <3> QED BY <1>23, <3>1, <3>2
    <2>2. UNCHANGED <<op, origin, foreign>> /\ ("rejected" \in marks' => "rejected" \in marks)
      BY <1>23 DEF WorkerJj, OthersMoveMain
    <2>3. Ours(view')
      BY <1>i, <2>1, OursCarried
    <2>4. PushedByImplementer' /\ (~ Pushed \/ Pushed')
      BY <2>1, <2>2 DEF PushInv, PushedByImplementer, Pushed, Publishing, Cleaning
    <2>5. op'.pc = "point" => Own(op'.change)
      BY <2>2 DEF PushInv
    <2> QED BY <1>i, <2>2, <2>3, <2>4, <2>5, PushKept
  <1> QED BY <1>1, <1>2, <1>3, <1>4, <1>5, <1>6, <1>7, <1>8, <1>9, <1>10, <1>11, <1>12,
             <1>13, <1>14, <1>15, <1>16, <1>17, <1>18, <1>19, <1>20, <1>21, <1>22, <1>23

\* What a push knows of the remote and of the branch.
THEOREM PushIsFollowed == Spec => []PushInv
  <1>1. Init => PushInv
    BY EmptyViewOK DEF Init, Absent, Idle, PushInv, Ours, PushedByImplementer,
       RejectedOnlyForOthers, At, Publishing, Cleaning
  <1>2. RepoInv /\ PushInv /\ [Next]_vars => PushInv'
    BY PushGit, PushOthers, PushElsewhere DEF Next, Orchestrator, Others
  <1> QED BY RepositoryIsFollowed, <1>1, <1>2, PTL DEF Spec

\* What somebody else pushed to an issue's branch is never overwritten, crashes
\* between git's push and jj's record of it included.
THEOREM ForeignCommitsAreKept == Spec => []ForeignPushKept
  <1>1. PushInv => ForeignPushKept
    BY DEF PushInv, ForeignPushKept
  <1> QED BY PushIsFollowed, <1>1, PTL

\* A push is refused only because somebody else pushed: one redone after a
\* crash finds its own work on the remote.
THEOREM OwnPushIsAccepted == Spec => []RejectedOnlyForOthers
  <1>1. PushInv => RejectedOnlyForOthers
    BY DEF PushInv
  <1> QED BY PushIsFollowed, <1>1, PTL

-----------------------------------------------------------------------------
(* What a Merger lands. *)

\* Of a commit whose labels are those of others, or of the worker at its top,
LEMMA LabelsBelow ==
  ASSUME NEW n, NEW e, NEW c \in AllCommits
  PROVE  /\ Without(n, c) => AsJudged(n, c, e)
         /\ Without(n, Front(c)) /\ Topped(c, e) => AsJudged(n, c, e)
  <1>1. Without(n, c) => AsJudged(n, c, e)
    BY DEF Without, AsJudged
  <1>2. ASSUME Without(n, Front(c)), Topped(c, e) PROVE AsJudged(n, c, e)
    <2>1. /\ Len(c) \in Nat \ {0} /\ Len(Front(c)) = Len(c) - 1
          /\ \A i \in 1..(Len(c) - 1) : Front(c)[i] = c[i]
      BY <1>2, LastLabel DEF AllCommits, Topped
    <2>2. c[Len(c)][2] = e
      BY <1>2 DEF Topped, Last
    <2>3. ASSUME NEW i \in 1..Len(c), c[i][1] = n PROVE c[i][2] = e
      <3>1. i \notin 1..(Len(c) - 1)
        BY <1>2, <2>1, <2>3 DEF Without
      <3>2. i = Len(c)
        BY <2>1, <3>1
      <3> QED BY <2>2, <3>2
    <2> QED BY <2>3 DEF AsJudged
  <1> QED BY <1>1, <1>2

\* of one that somebody else put on top of another,
LEMMA LabelOnTop ==
  ASSUME NEW n, NEW e, NEW c \in AllCommits, NEW a \in Nat \X Nat, a[1] # n
  PROVE  /\ Without(n, c) => Without(n, Append(c, a))
         /\ AsJudged(n, c, e) => AsJudged(n, Append(c, a), e)
  <1>1. /\ Len(Append(c, a)) = Len(c) + 1 /\ Len(c) \in Nat
        /\ \A i \in 1..Len(c) : Append(c, a)[i] = c[i]
        /\ Append(c, a)[Len(c) + 1] = a
    BY NewLabel DEF AllCommits, Last
  <1>2. \A i \in 1..Len(Append(c, a)) : i \in 1..Len(c) \/ Append(c, a)[i] = a
    BY <1>1
  <1> QED BY <1>1, <1>2 DEF Without, AsJudged

\* and of one from before the worker.
LEMMA FreshName ==
  ASSUME NEW k \in Nat, NEW c \in Commits(k)
  PROVE  Without(k + 1, c)
  <1>1. SUFFICES ASSUME NEW i \in 1..Len(c) PROVE c[i][1] # k + 1
    BY DEF Without
  <1>2. c[i] \in (0..k) \X Nat
    BY DEF Commits
  <1> QED BY <1>2

\* The bookkeeping says what the property does.
LEMMA LandedAsJudged == MergeInv => MergeLandsAsJudged
  BY DEF MergeInv, MergeLandsAsJudged, AsJudged

\* A step that publishes nothing and judges nothing.
LEMMA MergeKept ==
  ASSUME MergeInv, op'.name = op.name, op'.role = op.role,
         published' = published, judged' = judged,
         "unsnapped" \in marks => "unsnapped" \in marks',
         MergerNamed', Unjudged' => Unjudged,
         InCreate' \/ Cleaning({"add"})' => Without(op.name, op'.change),
         op.role = "merger" => MergerWork'
  PROVE  MergeInv'
  BY DEF MergeInv

\* One after which no workspace is in use but the Merger's that is forgotten.
LEMMA MergeOver ==
  ASSUME RepoInv, MergeInv, UNCHANGED <<published, judged>>,
         "unsnapped" \in marks => "unsnapped" \in marks',
         op'.pc \in {"idle", "ended", "point", "restart", "add_failed"} \/
           (op'.pc = "cleanup" /\ op'.after \in {"idle", "ended"}),
         op'.role = "implementer" \/ (op'.role = op.role /\ op'.name = op.name)
  PROVE  MergeInv'
  <1>1. /\ ~ Unjudged' /\ ~ InCreate' /\ ~ Cleaning({"add"})' /\ MergerWork'
    BY DEF Unjudged, InCreate, Cleaning, Publishing, At, MergerWork
  <1>2. MergerNamed'
    BY DEF MergeInv, MergerNamed, Cleaning, Publishing, At
  <1> QED BY <1>1, <1>2 DEF MergeInv

\* Publishing a landing publishes the change in hand.
LEMMA MergePublish == RepoInv /\ MainInv /\ MergeInv /\ Publish => MergeInv'
  <1> SUFFICES ASSUME RepoInv, MainInv, MergeInv, Publish PROVE MergeInv'
    OBVIOUS
  <1>1. /\ op'.pc = op.then /\ op'.role = op.role /\ op'.name = op.name
        /\ op'.change = op.change /\ op'.after = op.after /\ op'.then = op.then
        /\ op.pc = "publish" /\ UNCHANGED <<judged, files, marks>>
    BY InHand DEF Publish, Goto, At, OnDisk
  <1>2. /\ used \in Nat /\ op.base \in Views(used) /\ op.next \in Views(used)
        /\ view \in Views(used) /\ OneEach(view) /\ OneEach(op.next)
        /\ op.change \in Commits(used) /\ op.change \in AllCommits
        /\ SameRefs(view, op.base)
        /\ op.then \in {"rmdir", "add_commit", "check_out", "read_back", "move",
                        "conflict", "landed", "push", "pr"}
    BY <1>1, InHand, MoreCommits DEF RepoInv, OnlyMainMoves, At
  <1>3. /\ SameRefs(MergeViews(op.base, op.next, view), op.next)
        /\ view'.main = MergeTargets(op.base.main, op.next.main, view.main)
    BY <1>2, MergedViews DEF Publish
  <1>4. view'.wc = op.next.wc
    BY <1>3 DEF Publish, SameRefs
  <1>5. \/ published' = published
        \/ op.then = "landed" /\ published' \subseteq published \cup {op.change}
    <2>1. CASE op.next.main = op.base.main
      <3>1. view'.main = view.main
        BY <1>2, <1>3, <2>1, MergedTargets DEF OneEach
      <3> QED BY <3>1 DEF Publish, MainInv
    <2>2. CASE op.next.main # op.base.main
      <3>1. op.then = "landed" /\ op.next.main = {op.change}
        BY <1>1, <2>2 DEF MainInv, At
      <3>2. view'.main \subseteq op.next.main \cup view.main
        BY <1>2, <1>3, MergedTargets DEF OneEach
      <3> QED BY <3>1, <3>2 DEF Publish, MainInv
    <2> QED BY <2>1, <2>2
  <1>6. MergerNamed'
    BY <1>1, <1>2 DEF MergeInv, MergerNamed, Publishing, Cleaning, At
  <1>7. op.role = "merger" => MergerWork'
    BY <1>1, <1>2, <1>4 DEF MergeInv, MergerNamed, MergerWork, Work, Publishing, At
  <1>8. Unjudged' => Unjudged /\ published' = published
    BY <1>1, <1>2, <1>5 DEF Unjudged, InCreate, Cleaning, Publishing, At
  <1>9. InCreate' \/ Cleaning({"add"})' => InCreate \/ Cleaning({"add"})
    BY <1>1, <1>2 DEF InCreate, Cleaning, Publishing, At
  <1>10. op.role = "merger" =>
           "unsnapped" \in marks \/ \A c \in published' : AsJudged(op.name, c, judged[op.name].tracked)
    <2>1. op.role = "merger" /\ op.then = "landed" => Work(op.change, judged[op.name].tracked)
      BY <1>1 DEF MergeInv, MergerWork, Publishing, At
    <2>2. op.role = "merger" /\ op.then = "landed" =>
            "unsnapped" \in marks \/ AsJudged(op.name, op.change, judged[op.name].tracked)
      BY <1>2, <2>1, LabelsBelow DEF Work
    <2> QED BY <1>5, <2>2 DEF MergeInv
  <1> QED BY <1>1, <1>6, <1>7, <1>8, <1>9, <1>10 DEF MergeInv

\* A worker is prepared under a name that no commit has a label of.
LEMMA MergePrepare ==
  RepoInv /\ MergeInv /\ (PrepareImplementer \/ PrepareMerger) => MergeInv'
  <1> SUFFICES ASSUME RepoInv, MergeInv,
                      NEW role \in {"implementer", "merger"}, Prepare(role)
               PROVE  MergeInv'
    BY DEF PrepareImplementer, PrepareMerger
  <1>1. /\ op'.pc = "cleanup" /\ op'.role = role /\ op'.name = used + 1
        /\ op'.after = "add" /\ op'.change = op.change
        /\ UNCHANGED <<published, judged, marks>>
    BY InHand DEF Prepare, history
  <1>2. /\ \A c \in published : Without(used + 1, c)
        /\ Without(used + 1, op.change) /\ used + 1 # People
    <2>1. used \in Nat /\ published \subseteq Commits(used) /\ op.change \in Commits(used)
      BY InHand DEF RepoInv, TypeInv
    <2> QED BY <2>1, FreshName DEF People
  <1>3. \A c \in published : AsJudged(used + 1, c, judged'[used + 1].tracked)
    BY <1>2 DEF Without, AsJudged
  <1>4. MergerNamed' /\ MergerWork'
    BY <1>1, <1>2 DEF MergerNamed, MergerWork, Cleaning, Publishing, At
  <1> QED BY <1>1, <1>2, <1>3, <1>4 DEF MergeInv

\* Its commit is begun on top of somebody else's.
LEMMA MergeBegin ==
  RepoInv /\ MainInv /\ MergeInv /\
    (Cleanup \/ RemoveDir \/ WorkspaceAdd \/ AddCommit \/ CheckOut \/ AddFails \/ UndoAdd)
  => MergeInv'
  <1> SUFFICES ASSUME RepoInv, MainInv, MergeInv,
                      Cleanup \/ RemoveDir \/ WorkspaceAdd \/ AddCommit \/ CheckOut
                        \/ AddFails \/ UndoAdd
               PROVE  MergeInv'
    OBVIOUS
  <1> USE DEF At, Goto, Transact, OnDisk, Quiet, repoVars, history
  <1>0. /\ used \in Nat /\ view \in Views(used) /\ OneEach(view)
        /\ op.next \in Views(used)
        /\ op = [pc |-> op.pc, role |-> op.role, name |-> op.name, change |-> op.change,
                 base |-> op.base, next |-> op.next, then |-> op.then, after |-> op.after]
        /\ op.after \in {"idle", "ended", "add", "rebase", "point"}
        /\ op.change \in Commits(used) /\ op.role \in {"implementer", "merger"}
    BY InHand
  <1>1. CASE Cleanup
    <2>1. /\ op'.pc \in {"publish", "rmdir"}
          /\ op'.pc = "publish" => op'.then = "rmdir"
          /\ op'.role = op.role /\ op'.name = op.name /\ op'.after = op.after
          /\ op'.change = op.change /\ op.pc = "cleanup"
          /\ UNCHANGED <<published, judged, marks>>
      BY <1>0, <1>1 DEF Cleanup
    <2>2. MergerNamed' /\ MergerWork'
      BY <2>1 DEF MergeInv, MergerNamed, MergerWork, Cleaning, Publishing
    <2>3. /\ Unjudged' => Unjudged
          /\ InCreate' \/ Cleaning({"add"})' => Without(op.name, op'.change)
      BY <2>1 DEF MergeInv, Unjudged, InCreate, Cleaning, Publishing
    <2> QED BY <2>1, <2>2, <2>3, MergeKept
  <1>2. CASE RemoveDir
    <2>1. /\ op'.pc = op.after /\ op.pc = "rmdir"
          /\ op'.role = op.role /\ op'.name = op.name /\ op'.after = op.after
          /\ op'.change = op.change /\ UNCHANGED <<published, judged, marks>>
      BY <1>0, <1>2 DEF RemoveDir
    <2>2. MergerNamed' /\ MergerWork'
      BY <1>0, <2>1 DEF MergeInv, MergerNamed, MergerWork, Cleaning, Publishing
    <2>3. /\ Unjudged' => Unjudged
          /\ InCreate' \/ Cleaning({"add"})' => Without(op.name, op'.change)
      BY <1>0, <2>1 DEF MergeInv, Unjudged, InCreate, Cleaning, Publishing
    <2> QED BY <2>1, <2>2, <2>3, MergeKept
  <1>3. CASE WorkspaceAdd
    <2>1. CASE op' = [op EXCEPT !.pc = "add_failed"]
      BY <1>0, <1>3, <2>1, MergeOver DEF WorkspaceAdd
    <2> DEFINE c == IF op.role = "implementer" THEN as_normal(view.main) ELSE op.change
    <2>2. CASE /\ op' = [op EXCEPT !.pc = "publish", !.then = "add_commit", !.base = view,
                            !.next = init_workspace(view, op.name), !.change = c]
               /\ op.role = "implementer" => IsNormal(view.main)
      <3>1. Without(op.name, c)
        <4>1. Unjudged /\ InCreate
          BY <1>3 DEF WorkspaceAdd, Unjudged, InCreate
        <4>2. op.role = "implementer" => as_normal(view.main) \in published
          BY <1>0, <2>2, NormalTarget DEF MainInv, OneEach
        <4> QED BY <4>1, <4>2 DEF MergeInv
      <3> HIDE DEF c
      <3>2. /\ op'.pc = "publish" /\ op'.then = "add_commit" /\ op'.role = op.role
            /\ op'.name = op.name /\ op'.change = c /\ op'.after = op.after
            /\ op.pc = "add" /\ UNCHANGED <<published, judged, marks>>
        BY <1>0, <1>3, <2>2 DEF WorkspaceAdd
      <3>3. MergerNamed' /\ MergerWork'
        BY <3>2 DEF MergeInv, MergerNamed, MergerWork, Cleaning, Publishing
      <3>4. /\ Unjudged' => Unjudged
            /\ InCreate' \/ Cleaning({"add"})' => Without(op.name, op'.change)
        BY <3>1, <3>2 DEF Unjudged, InCreate, Cleaning, Publishing
      <3> QED BY <3>2, <3>3, <3>4, MergeKept
    <2> QED BY <1>3, <2>1, <2>2 DEF WorkspaceAdd, resolve_single, evaluate_revset
  <1>4. CASE AddCommit
    <2> DEFINE c == op.change
               d == Append(c, <<op.name, 0>>)
               next == add_initial_commit(op.next, op.name, c)
    <2>1. Front(d) = c
      <3>1. op.name \in 1..used
        BY <1>4, InHand DEF AddCommit, RepoInv, WorkInTree, Unjudged, InCreate, Names
      <3> QED BY <1>0, <3>1, WorkBegun
    <2>2. op.name \in Names => next.wc[op.name] = {d}
      BY <1>0 DEF add_initial_commit, Normal, Views
    <2>3. op.name \in Names
      BY <1>4 DEF AddCommit, RepoInv, WorkInTree, Unjudged, InCreate
    <2> HIDE DEF d, next
    <2>4. op' = [op EXCEPT !.pc = "publish", !.base = op.next, !.next = next,
                           !.then = "check_out"]
      BY <1>4 DEF AddCommit, next
    <2>5. /\ op'.pc = "publish" /\ op'.then = "check_out" /\ op'.role = op.role
          /\ op'.name = op.name /\ op'.change = op.change /\ op'.after = op.after
          /\ op'.next = next
          /\ op.pc = "add_commit" /\ UNCHANGED <<published, judged, marks>>
      BY <1>0, <1>4, <2>4 DEF AddCommit
    <2>6. /\ Without(op.name, op.change) /\ MergerNamed'
          /\ Unjudged' => Unjudged
      BY <2>5 DEF MergeInv, MergerNamed, Unjudged, InCreate, Cleaning, Publishing
    <2>7. MergerWork'
      BY <2>1, <2>2, <2>3, <2>5, <2>6 DEF MergerWork, Publishing
    <2> QED BY <2>5, <2>6, <2>7, MergeKept
  <1>5. CASE CheckOut
    <2>1. /\ op'.pc = "work" /\ op'.role = op.role /\ op'.name = op.name
          /\ op.pc = "check_out" /\ UNCHANGED <<view, published, judged, marks>>
      BY <1>0, <1>5 DEF CheckOut
    <2>2. MergerNamed' /\ (op.role = "merger" => MergerWork')
      BY <2>1 DEF MergeInv, MergerNamed, MergerWork, Cleaning, Publishing
    <2>3. (Unjudged' => Unjudged) /\ ~ InCreate' /\ ~ Cleaning({"add"})'
      BY <2>1 DEF Unjudged, InCreate, Cleaning, Publishing
    <2> QED BY <2>1, <2>2, <2>3, MergeKept
  <1>6. CASE AddFails
    BY <1>0, <1>6, MergeOver DEF AddFails
  <1>7. CASE UndoAdd
    BY <1>7, MergeOver DEF UndoAdd, Ended, Idle
  <1> QED BY <1>1, <1>2, <1>3, <1>4, <1>5, <1>6, <1>7

\* It is rewritten in place, read back and judged.
LEMMA MergeWorked ==
  RepoInv /\ MergeInv /\
    (WorkerEdits \/ WorkerJj \/ WorkerEnds \/ SnapshotWorkspace \/ ReadBack \/ Qa)
  => MergeInv'
  <1> SUFFICES ASSUME RepoInv, MergeInv,
                      WorkerEdits \/ WorkerJj \/ WorkerEnds \/ SnapshotWorkspace
                        \/ ReadBack \/ Qa
               PROVE  MergeInv'
    OBVIOUS
  <1> USE DEF At, Goto, Transact, OnDisk, Quiet, repoVars, history
  <1>0. /\ used \in Nat /\ view \in Views(used) /\ OneEach(view)
        /\ op = [pc |-> op.pc, role |-> op.role, name |-> op.name, change |-> op.change,
                 base |-> op.base, next |-> op.next, then |-> op.then, after |-> op.after]
        /\ op.role \in {"implementer", "merger"}
        /\ op.pc \in {"work", "snapshot", "read_back", "qa"} /\ Unjudged
        /\ op.name \in Names /\ op.name \in 1..used /\ files \in [Names -> Nat]
    <2>1. op.pc \in {"work", "snapshot", "read_back", "qa"}
      BY DEF WorkerEdits, WorkerJj, WorkerEnds, SnapshotWorkspace, ReadBack, Qa
    <2>2. Unjudged /\ op.name \in Names
      BY <2>1 DEF Unjudged, RepoInv, WorkInTree
    <2> QED BY <2>1, <2>2, InHand DEF Names, RepoInv, TypeInv
  <1>m. MergerNamed
    BY DEF MergeInv
  \* What a snapshot writes: the worker's label, with the edits of its files.
  <1> DEFINE t(edits) == Normal(Rewritten(as_normal(view.wc[op.name]), op.name, edits))
             next(edits) == snapshot_working_copy(view, op.name, edits)
  <1>s. ASSUME op.pc \in {"work", "snapshot"}, NEW edits \in Nat
        PROVE  /\ next(edits).wc[op.name] = t(edits)
               /\ op.role = "merger" =>
                    \A d \in t(edits) : Without(op.name, Front(d)) /\ Topped(d, edits)
    <2>1. PICK c \in view.wc[op.name] : c # Root
      BY <1>s DEF RepoInv, WorkInTree, HasWork
    <2> DEFINE d == Append(Front(c), <<op.name, edits>>)
    <2>2. edits \in Nat
      BY <1>s
    <2>3. Front(c) \in Commits(used) /\ t(edits) = {d}
      BY <1>0, <2>1, <2>2, WorkRewritten
    <2>4. d # Root /\ Last(d) = <<op.name, edits>> /\ Front(d) = Front(c)
      <3> DEFINE f == Front(c)
                 e == edits
                 n == op.name
      <3>1. f \in Commits(used) /\ e \in Nat /\ used \in Nat /\ n \in 1..used
        BY <1>0, <2>2, <2>3
      <3> HIDE DEF f, e, n
      <3>2. /\ Append(f, <<n, e>>) # Root
            /\ Last(Append(f, <<n, e>>)) = <<n, e>>
            /\ Front(Append(f, <<n, e>>)) = f
        BY <3>1, WorkBegun
      <3> QED BY <3>2 DEF f, e, n
    <2>5. op.role = "merger" => Without(op.name, Front(c))
      BY <1>s, <2>1 DEF MergeInv, MergerWork
    <2> HIDE DEF d
    <2>6. op.role = "merger" => /\ Without(op.name, Front(d))
                               /\ Topped(d, edits)
      BY <2>4, <2>5 DEF Topped
    <2> HIDE DEF t
    <2>7. next(edits) = [view EXCEPT !.wc[op.name] = t(edits)]
      BY DEF snapshot_working_copy, t
    <2> HIDE DEF next
    <2>8. next(edits).wc[op.name] = t(edits)
      <3>1. used \in Nat /\ view \in Views(used) /\ op.name \in Names
        BY <1>0
      <3> QED BY <2>7, <3>1 DEF Views
    <2> QED BY <2>3, <2>6, <2>8
  <1> HIDE DEF next, t
  <1>1. CASE WorkerEdits
    <2>1. UNCHANGED <<op, view, published, judged, marks>> /\ op.pc = "work"
      BY <1>1 DEF WorkerEdits
    <2>2. MergerNamed' /\ ~ InCreate' /\ ~ Cleaning({"add"})'
      BY <1>m, <2>1 DEF MergerNamed, Cleaning, Publishing, InCreate
    <2>3. op.role = "merger" => MergerWork'
      BY <2>1 DEF MergeInv, MergerWork, Publishing
    <2> QED BY <1>0, <2>1, <2>2, <2>3, MergeKept
  <1>2. CASE WorkerJj
    <2> DEFINE edits == files'[op.name]
    <2>1. UNCHANGED <<op, published, judged, marks>> /\ view' = next(edits) /\ op.pc = "work"
      BY <1>2 DEF WorkerJj, next
    <2>4. edits \in Nat
      <3>1. files[op.name] \in Nat /\ untracked[op.name] \in Nat
        BY <1>0 DEF RepoInv, TypeInv
      <3> QED BY <1>0, <1>2, <3>1 DEF WorkerJj
    <2> HIDE DEF edits
    <2>5. /\ view'.wc[op.name] = t(edits)
          /\ op.role = "merger" => \A d \in t(edits) : Without(op.name, Front(d))
      BY <1>s, <2>1, <2>4
    <2>2. MergerNamed' /\ (Unjudged' => Unjudged) /\ ~ InCreate' /\ ~ Cleaning({"add"})'
      BY <1>0, <2>1 DEF MergeInv, MergerNamed, Cleaning, Publishing, InCreate
    <2>3. op.role = "merger" => MergerWork'
      BY <2>1, <2>5 DEF MergerWork, Publishing
    <2> QED BY <2>1, <2>2, <2>3, MergeKept
  <1>3. CASE WorkerEnds
    <2>1. /\ op'.pc = IF op.role = "merger" THEN "snapshot" ELSE "read_back"
          /\ op'.role = op.role /\ op'.name = op.name /\ op.pc = "work"
          /\ UNCHANGED <<view, published, judged, marks, files>>
      BY <1>0, <1>3 DEF WorkerEnds
    <2>2. MergerNamed' /\ (Unjudged' => Unjudged) /\ ~ InCreate' /\ ~ Cleaning({"add"})'
      BY <1>0, <2>1 DEF MergeInv, MergerNamed, Cleaning, Publishing, InCreate
    <2>3. op.role = "merger" => MergerWork'
      BY <2>1 DEF MergeInv, MergerWork, Publishing
    <2> QED BY <2>1, <2>2, <2>3, MergeKept
  <1>4. CASE SnapshotWorkspace
    <2> DEFINE edits == files[op.name]
    <2>4. \/ /\ op' = [op EXCEPT !.pc = "publish", !.base = view, !.next = next(edits),
                                 !.then = "read_back"]
             /\ UNCHANGED marks
          \/ op' = [op EXCEPT !.pc = "read_back"] /\ marks' = marks \cup {"unsnapped"}
      BY <1>4 DEF SnapshotWorkspace, next
    <2>5. /\ next(edits).wc[op.name] = t(edits)
          /\ op.role = "merger" =>
               \A d \in t(edits) : Without(op.name, Front(d)) /\ Topped(d, files[op.name])
      <3>1. edits \in Nat /\ op.pc = "snapshot"
        BY <1>0, <1>4 DEF SnapshotWorkspace
      <3> QED BY <1>s, <3>1
    <2>1. CASE /\ op' = [op EXCEPT !.pc = "publish", !.base = view, !.next = next(edits),
                                   !.then = "read_back"]
               /\ UNCHANGED marks
      <3>1. /\ op'.pc = "publish" /\ op'.then = "read_back" /\ op'.next = next(edits)
            /\ op'.role = op.role /\ op'.name = op.name /\ op'.after = op.after
            /\ op.pc = "snapshot" /\ UNCHANGED <<view, published, judged, marks, files>>
        BY <1>0, <1>4, <2>1 DEF SnapshotWorkspace
      <3>2. MergerNamed' /\ ~ InCreate' /\ ~ Cleaning({"add"})'
        BY <3>1, <1>m DEF MergerNamed, Cleaning, Publishing, InCreate
      <3>3. op.role = "merger" => MergerWork'
        BY <2>5, <3>1 DEF MergerWork, Work, Publishing
      <3> QED BY <1>0, <3>1, <3>2, <3>3, MergeKept
    <2>2. CASE op' = [op EXCEPT !.pc = "read_back"] /\ marks' = marks \cup {"unsnapped"}
      <3>1. /\ op'.pc = "read_back" /\ op'.role = op.role /\ op'.name = op.name
            /\ op.pc = "snapshot" /\ UNCHANGED <<view, published, judged, files>>
        BY <1>0, <1>4, <2>2 DEF SnapshotWorkspace
      <3>2. MergerNamed' /\ ~ InCreate' /\ ~ Cleaning({"add"})'
        BY <3>1, <1>m DEF MergerNamed, Cleaning, Publishing, InCreate
      <3>3. op.role = "merger" => MergerWork'
        BY <2>2, <3>1 DEF MergeInv, MergerWork, Work, Publishing
      <3> QED BY <1>0, <2>2, <3>1, <3>2, <3>3, MergeKept
    <2> QED BY <2>1, <2>2, <2>4
  <1>5. CASE ReadBack
    <2> DEFINE c == as_normal(resolve_single(view, <<"workspace", op.name>>))
    <2>1. view.wc[op.name] = {c}
      <3>1. PICK d : view.wc[op.name] = {d}
        <4>1. HasWork(view)
          BY <1>5 DEF ReadBack, RepoInv, WorkInTree
        <4>2. AtMostOne(view.wc[op.name])
          BY <1>0 DEF OneEach
        <4> QED BY <4>1, <4>2 DEF HasWork, AtMostOne
      <3> QED BY <3>1, NormalTarget DEF resolve_single, evaluate_revset
    <2>2. \/ op' = [op EXCEPT !.pc = "qa", !.change = c]
          \/ op' = [op EXCEPT !.pc = "cleanup", !.after = "ended"]
      BY <1>5 DEF ReadBack
    <2>3. UNCHANGED <<view, published, judged, marks, files>> /\ op.pc = "read_back"
      BY <1>5 DEF ReadBack
    <2> HIDE DEF c
    <2>4. CASE op' = [op EXCEPT !.pc = "qa", !.change = c]
      <3>1. /\ op'.pc = "qa" /\ op'.change = c /\ op'.role = op.role /\ op'.name = op.name
        BY <1>0, <2>4
      <3>2. MergerNamed' /\ ~ InCreate' /\ ~ Cleaning({"add"})'
        BY <3>1, <1>m DEF MergerNamed, Cleaning, Publishing, InCreate
      <3>3. op.role = "merger" => MergerWork'
        BY <2>1, <2>3, <3>1 DEF MergeInv, MergerWork, Work, Publishing
      <3> QED BY <1>0, <2>3, <3>1, <3>2, <3>3, MergeKept
    <2>5. CASE op' = [op EXCEPT !.pc = "cleanup", !.after = "ended"]
      BY <1>0, <2>3, <2>5, MergeOver
    <2> QED BY <2>2, <2>4, <2>5
  <1>6. CASE Qa
    <2>1. UNCHANGED <<view, published, marks, files>> /\ op.pc = "qa"
      BY <1>6 DEF Qa
    <2>2. CASE /\ op' = [op EXCEPT !.pc = "cleanup",
                              !.after = IF op.role = "merger" THEN "ended" ELSE "idle"]
               /\ UNCHANGED judged
      BY <1>0, <2>1, <2>2, MergeOver
    <2>3. CASE /\ judged' = [judged EXCEPT ![op.name] =
                                [tracked |-> files[op.name], new |-> untracked[op.name]]]
               /\ op' = IF op.role = "merger" THEN [op EXCEPT !.pc = "move"]
                        ELSE [op EXCEPT !.pc = "cleanup",
                                        !.after = IF remote THEN "point" ELSE "rebase"]
      <3>1. /\ op'.pc = IF op.role = "merger" THEN "move" ELSE "cleanup"
            /\ op'.pc = "cleanup" => op'.after \in {"point", "rebase"}
            /\ op'.role = op.role /\ op'.name = op.name /\ op'.change = op.change
        BY <1>0, <2>3
      <3>2. judged'[op.name].tracked = files[op.name]
        BY <1>0, <2>3 DEF RepoInv, TypeInv
      <3>3. MergerNamed' /\ ~ InCreate' /\ ~ Cleaning({"add"})' /\ ~ Unjudged'
        BY <1>m, <1>0, <3>1 DEF MergerNamed, Cleaning, Publishing, InCreate, Unjudged
      <3>4. op.role = "merger" => MergerWork'
        BY <2>1, <3>1, <3>2 DEF MergeInv, MergerWork, Work, Publishing
      <3>5. \A c \in published : AsJudged(op.name, c, judged'[op.name].tracked)
        BY <1>0 DEF MergeInv, Without, AsJudged
      <3> QED BY <2>1, <3>1, <3>3, <3>4, <3>5 DEF MergeInv
    <2> QED BY <1>6, <2>2, <2>3 DEF Qa
  <1> QED BY <1>1, <1>2, <1>3, <1>4, <1>5, <1>6

\* It is rebased or it is the Merger's, and then it lands as it is.
LEMMA MergeLand ==
  RepoInv /\ PushInv /\ MergeInv /\
    (RebaseStep \/ FastForwardCheck \/ BookmarkMove \/ Landed
      \/ PointBookmark \/ GitPush \/ ForgetBookmark)
  => MergeInv'
  <1> SUFFICES ASSUME RepoInv, PushInv, MergeInv,
                      RebaseStep \/ FastForwardCheck \/ BookmarkMove \/ Landed
                        \/ PointBookmark \/ GitPush \/ ForgetBookmark
               PROVE  MergeInv'
    OBVIOUS
  <1> USE DEF At, Goto, Transact, OnDisk, Quiet, repoVars, history
  <1>0. /\ op = [pc |-> op.pc, role |-> op.role, name |-> op.name, change |-> op.change,
                 base |-> op.base, next |-> op.next, then |-> op.then, after |-> op.after]
        /\ op.role \in {"implementer", "merger"}
    BY InHand
  <1>m. MergerNamed
    BY DEF MergeInv
  <1>u. /\ UNCHANGED <<published, judged>>
        /\ "unsnapped" \in marks => "unsnapped" \in marks'
    BY DEF RebaseStep, FastForwardCheck, BookmarkMove, Landed, PointBookmark, GitPush,
       ForgetBookmark
  <1>l. ASSUME op' = Leave PROVE MergeInv'
    <2>1. CASE op.role = "merger"
      BY <1>0, <1>l, <1>u, <2>1, MergeOver DEF Leave
    <2>2. CASE op.role # "merger"
      BY <1>l, <1>u, <2>2, MergeOver DEF Leave, Ended, Idle
    <2> QED BY <2>1, <2>2
  \* A call of an Implementer.
  <1>i. ASSUME op.role = "implementer", op'.role = op.role, op'.name = op.name,
               \/ /\ op'.pc = "publish"
                  /\ op'.then \in {"move", "conflict", "push", "pr", "landed"}
               \/ op'.pc = "move"
        PROVE  MergeInv'
    <2>1. MergerNamed' /\ ~ Unjudged' /\ ~ InCreate' /\ ~ Cleaning({"add"})'
      BY <1>i DEF MergerNamed, Unjudged, InCreate, Cleaning, Publishing
    <2> QED BY <1>i, <1>u, <2>1, MergeKept
  <1>1. CASE RebaseStep
    <2>1. op.role = "implementer"
      BY <1>1, <1>m DEF RebaseStep, MergerNamed
    <2> DEFINE next == rebase(view, op.change, as_normal(view.main))
    <2>2. \/ op' = Leave \/ op' = [op EXCEPT !.pc = "move"]
          \/ \E then \in {"move", "conflict"} : \E c :
               op' = [op EXCEPT !.pc = "publish", !.then = then, !.base = view,
                                !.next = next, !.change = c]
      BY <1>1 DEF RebaseStep
    <2> HIDE DEF next
    <2>3. CASE \E then \in {"move", "conflict"} : \E c :
                 op' = [op EXCEPT !.pc = "publish", !.then = then, !.base = view,
                                  !.next = next, !.change = c]
      BY <1>0, <1>i, <2>1, <2>3
    <2> QED BY <1>0, <1>i, <1>l, <2>1, <2>2, <2>3
  <1>2. CASE FastForwardCheck
    <2>1. CASE op' = [op EXCEPT !.pc = "move_load"]
      <3>1. /\ op'.pc = "move_load" /\ op'.role = op.role /\ op'.name = op.name
            /\ op'.change = op.change /\ op.pc = "move" /\ UNCHANGED marks
        BY <1>0, <1>2, <2>1 DEF FastForwardCheck
      <3>2. MergerNamed' /\ ~ Unjudged' /\ ~ InCreate' /\ ~ Cleaning({"add"})'
        BY <1>m, <3>1 DEF MergerNamed, Unjudged, InCreate, Cleaning, Publishing
      <3>3. op.role = "merger" => MergerWork'
        BY <1>u, <3>1 DEF MergeInv, MergerWork, Work, Publishing
      <3> QED BY <1>u, <3>1, <3>2, <3>3, MergeKept
    <2> QED BY <1>2, <1>l, <2>1 DEF FastForwardCheck
  <1>3. CASE BookmarkMove
    <2> DEFINE next == bookmark_set(view, "main", op.change)
    <2>1. op' = [op EXCEPT !.pc = "publish", !.base = view, !.next = next, !.then = "landed"]
      BY <1>3 DEF BookmarkMove
    <2> HIDE DEF next
    <2>2. /\ op'.pc = "publish" /\ op'.then = "landed" /\ op'.role = op.role
          /\ op'.name = op.name /\ op'.change = op.change /\ op.pc = "move_load"
          /\ UNCHANGED marks
      BY <1>0, <1>3, <2>1 DEF BookmarkMove
    <2>3. MergerNamed' /\ ~ Unjudged' /\ ~ InCreate' /\ ~ Cleaning({"add"})'
      BY <1>m, <2>2 DEF MergerNamed, Unjudged, InCreate, Cleaning, Publishing
    <2>4. op.role = "merger" => MergerWork'
      BY <1>u, <2>2 DEF MergeInv, MergerWork, Work, Publishing
    <2> QED BY <1>u, <2>2, <2>3, <2>4, MergeKept
  <1>4. CASE Landed
    BY <1>4, <1>l DEF Landed
  <1>5. CASE PointBookmark \/ GitPush \/ ForgetBookmark
    <2>1. op.role = "implementer"
      BY <1>5 DEF PointBookmark, GitPush, ForgetBookmark, PushInv, PushedByImplementer
    <2>2. \/ op' = Leave
          \/ \E then \in {"push", "pr", "landed"} : \E next :
               op' = [op EXCEPT !.pc = "publish", !.base = view, !.next = next, !.then = then]
      <3>1. CASE PointBookmark
        BY <3>1 DEF PointBookmark
      <3>2. CASE GitPush
        BY <3>2 DEF GitPush
      <3>3. CASE ForgetBookmark
        BY <3>3 DEF ForgetBookmark
      <3> QED BY <1>5, <3>1, <3>2, <3>3
    <2> QED BY <1>0, <1>i, <1>l, <2>1, <2>2
  <1> QED BY <1>1, <1>2, <1>3, <1>4, <1>5

\* Others put their own labels on top; a restart holds nothing to land.
LEMMA MergeOthers ==
  RepoInv /\ MainInv /\ MergeInv /\
    (Crash \/ ResumePush \/ GiveUp \/ OthersMoveMain \/ OthersPush \/ UNCHANGED vars)
  => MergeInv'
  <1> SUFFICES ASSUME RepoInv, MainInv, MergeInv,
                      Crash \/ ResumePush \/ GiveUp \/ OthersMoveMain \/ OthersPush
                        \/ UNCHANGED vars
               PROVE  MergeInv'
    OBVIOUS
  <1> USE DEF At, Goto, OnDisk, Quiet, repoVars, history
  <1>0. /\ used \in Nat /\ view \in Views(used) /\ OneEach(view)
        /\ op = [pc |-> op.pc, role |-> op.role, name |-> op.name, change |-> op.change,
                 base |-> op.base, next |-> op.next, then |-> op.then, after |-> op.after]
    BY InHand
  <1>1. CASE Crash
    <2>1. /\ op'.pc = "restart" /\ op'.role = op.role /\ op'.name = op.name
          /\ UNCHANGED <<published, judged>>
          /\ "unsnapped" \in marks => "unsnapped" \in marks'
      BY <1>0, <1>1 DEF Crash
    <2> QED BY <2>1, MergeOver
  <1>2. CASE ResumePush
    BY <1>2, MergeOver DEF ResumePush, Idle
  <1>3. CASE GiveUp
    <2>1. \/ op' = Ended \/ op' = Idle
          \/ op' = [op EXCEPT !.pc = "cleanup", !.after = "idle"]
      BY <1>3 DEF GiveUp
    <2>2. UNCHANGED <<published, judged, marks>>
      BY <1>3 DEF GiveUp
    <2>3. CASE op' = Ended \/ op' = Idle
      BY <2>2, <2>3, MergeOver DEF Ended, Idle
    <2>4. CASE op' = [op EXCEPT !.pc = "cleanup", !.after = "idle"]
      BY <1>0, <2>2, <2>4, MergeOver
    <2> QED BY <2>1, <2>3, <2>4
  <1>4. CASE OthersMoveMain
    <2> DEFINE m == as_normal(view.main)
               a == <<People, Moved + 1>>
               c == Append(m, a)
    <2>1. m \in published /\ m \in AllCommits
      <3>1. m \in view.main
        BY <1>0, <1>4, NormalTarget DEF OthersMoveMain, OneEach
      <3> QED BY <1>0, <3>1, MoreCommits DEF MainInv, RepoInv, TypeInv
    <2>2. a \in Nat \X Nat /\ a[1] = People
      <3>1. Moved \in Nat
        BY FS_Subset, FS_CardinalityType DEF Moved, RepoInv, TypeInv
      <3> QED BY <3>1 DEF People
    <2>3. view' = [view EXCEPT !.main = {c}]
      BY <1>4 DEF OthersMoveMain, bookmark_set, Normal
    <2> HIDE DEF m, a
    <2>4. /\ op.name # People /\ Without(op.name, m) => Without(op.name, c)
          /\ op.name # People /\ AsJudged(op.name, m, judged[op.name].tracked)
               => AsJudged(op.name, c, judged[op.name].tracked)
      BY <2>1, <2>2, LabelOnTop
    <2> HIDE DEF c
    <2>5. /\ UNCHANGED <<op, judged, files>> /\ published' = published \cup {c}
          /\ view'.wc = view.wc /\ ("unsnapped" \in marks <=> "unsnapped" \in marks')
      BY <1>0, <1>4, <2>3 DEF OthersMoveMain, Views
    <2>6. MergerNamed' /\ (Unjudged' => Unjudged)
          /\ (InCreate' => InCreate) /\ (Cleaning({"add"})' => Cleaning({"add"}))
      BY <2>5 DEF MergeInv, MergerNamed, Unjudged, InCreate, Cleaning, Publishing
    <2>7. op.role = "merger" => MergerWork'
      BY <2>5 DEF MergeInv, MergerWork, Work, Publishing
    <2>8. Unjudged => op.name # People
      BY DEF RepoInv, WorkInTree, Names, People
    <2>9. op.role = "merger" => op.name # People
      BY DEF MergeInv, MergerNamed
    <2> QED BY <2>1, <2>4, <2>5, <2>6, <2>7, <2>8, <2>9 DEF MergeInv
  <1>5. CASE OthersPush \/ UNCHANGED vars
    <2>1. UNCHANGED <<op, view, published, judged, marks, files>>
      BY <1>5 DEF OthersPush, vars
    <2>2. MergerNamed' /\ (Unjudged' => Unjudged)
          /\ (InCreate' => InCreate) /\ (Cleaning({"add"})' => Cleaning({"add"}))
      BY <2>1 DEF MergeInv, MergerNamed, Unjudged, InCreate, Cleaning, Publishing
    <2>3. op.role = "merger" => MergerWork'
      BY <2>1 DEF MergeInv, MergerWork, Work, Publishing
    <2> QED BY <2>1, <2>2, <2>3, MergeKept DEF MergeInv
  <1> QED BY <1>1, <1>2, <1>3, <1>4, <1>5

\* Where a worker's labels are until its work lands.
THEOREM ResolutionIsFollowed == Spec => []MergeInv
  <1>1. Init => MergeInv
    BY DEF Init, Idle, MergeInv, MergerNamed, Unjudged, InCreate, Cleaning, Publishing, At
  <1>2. RepoInv /\ MainInv /\ PushInv /\ MergeInv /\ [Next]_vars => MergeInv'
    BY MergePublish, MergePrepare, MergeBegin, MergeWorked, MergeLand, MergeOthers
       DEF Next, Orchestrator, Others
  <1> QED BY RepositoryIsFollowed, MainIsFollowed, PushIsFollowed, <1>1, <1>2, PTL DEF Spec

\* A Merger's resolution lands as static QA judged it, though the Merger may
\* edit files after its last jj verb, unless snapshot_workspace failed.
THEOREM ResolutionsLandAsJudged == Spec => []MergeLandsAsJudged
  BY ResolutionIsFollowed, LandedAsJudged, PTL
=============================================================================
