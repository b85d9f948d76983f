---------------------------- MODULE ArtifactProofs ----------------------------
(***************************************************************************)
(* For every set of worker outputs and every number of crashes: no ledger  *)
(* row is without its comment, and a comment repeats at most once per      *)
(* crash; a clean round rests on an explicit, empty findings.jsonl; a      *)
(* finding that was posted is in what every later worker is given.         *)
(***************************************************************************)
EXTENDS ArtifactProperties, OrderedProofs

-----------------------------------------------------------------------------
(* The ledger.  A comment and its row are two effects, and the process may   *)
(* die between them.                                                         *)

\* A ledger key names a file: it is never the empty key of a comment that has none.
LEMMA KeyIsNotEmpty ==
  ASSUME NEW item
  PROVE  LedgerKey(item) # <<>>
  BY DEF LedgerKey

\* The copies of a key are finitely many.
LEMMA CopiesAreFinite ==
  ASSUME comments \in Seq(Range(comments)), NEW k
  PROVE  /\ IsFiniteSet(Copies(k))
         /\ Cardinality(Copies(k)) \in Nat
         /\ Copies(k) = {} => Cardinality(Copies(k)) = 0
  <1>1. Len(comments) \in Nat /\ DOMAIN comments = 1 .. Len(comments)
    OBVIOUS
  <1>2. IsFiniteSet(1 .. Len(comments))
    BY <1>1, FS_Interval
  <1>3. Copies(k) \in SUBSET (1 .. Len(comments))
    BY <1>1 DEF Copies
  <1>4. IsFiniteSet(Copies(k))
    BY <1>2, <1>3, FS_Subset
  <1> QED BY <1>4, FS_CardinalityType, FS_EmptySet

\* comment_write adds one copy to its own key and none to any other.
LEMMA WriteAddsACopy ==
  ASSUME comments \in Seq(Range(comments)), NEW kind, NEW role, NEW body, NEW key,
         comment_write(kind, role, body, key)
  PROVE  /\ comments' \in Seq(Range(comments'))
         /\ \A k : Copies(k)' = IF k = key THEN Copies(k) \cup {Len(comments) + 1} ELSE Copies(k)
         /\ Copies(key)' # {} /\ Cardinality(Copies(key)') = Cardinality(Copies(key)) + 1
  <1> DEFINE c == [kind |-> kind, role |-> role, body |-> body, key |-> key]
  <1>1. comments' = Append(comments, c)
    BY DEF comment_write
  <1>2. c.key = key
    OBVIOUS
  <1> HIDE DEF c
  <1>3. /\ Len(comments) \in Nat /\ DOMAIN comments = 1 .. Len(comments)
        /\ DOMAIN comments' = 1 .. Len(comments) + 1
        /\ \A n \in DOMAIN comments : comments'[n] = comments[n]
        /\ comments'[Len(comments) + 1] = c
    <2>1. comments \in Seq(Range(comments) \cup {c})
      OBVIOUS
    <2> QED BY <1>1, <2>1
  <1>4. comments' \in Seq(Range(comments'))
    <2>1. comments' \in [1 .. Len(comments) + 1 -> Range(comments')]
      <3>1. comments' \in Seq(Range(comments) \cup {c})
        BY <1>1
      <3>2. \A n \in DOMAIN comments' : comments'[n] \in Range(comments')
        BY DEF Range
      <3> QED BY <3>1, <3>2, <1>3
    <2> QED BY <1>3, <2>1
  <1>5. ASSUME NEW k
        PROVE  Copies(k)' = IF k = key THEN Copies(k) \cup {Len(comments) + 1} ELSE Copies(k)
    BY <1>2, <1>3 DEF Copies
  <1>6. Len(comments) + 1 \notin Copies(key)
    BY <1>3 DEF Copies
  <1>7. IsFiniteSet(Copies(key))
    BY CopiesAreFinite
  <1>8. Cardinality(Copies(key) \cup {Len(comments) + 1}) = Cardinality(Copies(key)) + 1
    BY <1>6, <1>7, FS_AddElement
  <1> QED BY <1>4, <1>5, <1>8

\* The bound, for the keys with comments and without.
Bounded == \A k : k # <<>> => Cardinality(Copies(k)) <= Allowance(k)

\* The ledger's invariant gives it for both.
LEMMA EveryKeyIsBounded == LedgerInv => Bounded
  <1> SUFFICES ASSUME LedgerInv, NEW k, k # <<>> PROVE Cardinality(Copies(k)) <= Allowance(k)
    BY DEF Bounded
  <1>1. CASE Copies(k) = {}
    <2>1. Cardinality(Copies(k)) = 0
      BY <1>1, CopiesAreFinite DEF LedgerInv
    <2> QED BY <2>1 DEF LedgerInv, Allowance
  <1>2. CASE Copies(k) # {}
    BY <1>2 DEF LedgerInv, Copies
  <1> QED BY <1>1, <1>2

\* The tracker starts empty.
LEMMA LedgerInit == Init => LedgerInv
  BY DEF Init, LedgerInv, Unrecorded, Copies, Range

\* A step that posts nothing and leaves nothing unrecorded.
Quiet ==
    /\ pc \notin {"record", "replay_record"} /\ pc' \notin {"record", "replay_record"}
    /\ UNCHANGED <<comments, posted, crashes>>

\* What such a step keeps.
LEMMA QuietKeepsInv == LedgerInv /\ Quiet => LedgerInv'
  <1> SUFFICES ASSUME LedgerInv, Quiet PROVE LedgerInv'
    OBVIOUS
  <1>1. Unrecorded = {} /\ Unrecorded' = {}
    BY DEF Quiet, Unrecorded
  <1>2. \A k : Copies(k)' = Copies(k) /\ Allowance(k)' = Allowance(k)
    BY <1>1 DEF Quiet, Copies, Allowance
  <1>3. crashes' = crashes /\ comments' = comments /\ posted' = posted
    BY DEF Quiet
  <1> QED BY <1>1, <1>2, <1>3 DEF LedgerInv

\* The steps of the orchestrator that are quiet in this sense.
LEMMA QuietSteps ==
  ASSUME \/ DriveIssue \/ SpawnImplementer \/ WorkerFails \/ ImplementerDone \/ AdversaryDone
         \/ LabelFollowups \/ EmptyChange \/ EnterQaGate \/ QaPasses \/ QaBroken
         \/ SpawnAdversary \/ OnAdversaryFindings \/ Recover \/ ReplayEnds \/ WorkerFinishes
  PROVE  Quiet
  <1> USE DEF tracker, locals, Poison, RemoveWorker, CleanCrashedWorker, Quiet
  <1>1. CASE DriveIssue
    BY <1>1 DEF DriveIssue
  <1>2. CASE SpawnImplementer
    BY <1>2 DEF SpawnImplementer
  <1>3. CASE WorkerFails
    BY <1>3 DEF WorkerFails
  <1>4. CASE ImplementerDone
    BY <1>4 DEF ImplementerDone, Translate
  <1>5. CASE AdversaryDone
    BY <1>5 DEF AdversaryDone, Translate
  <1>6. CASE LabelFollowups
    BY <1>6 DEF LabelFollowups
  <1>7. CASE EmptyChange
    BY <1>7 DEF EmptyChange
  <1>8. CASE EnterQaGate
    BY <1>8 DEF EnterQaGate
  <1>9. CASE QaPasses
    BY <1>9 DEF QaPasses
  <1>10. CASE QaBroken
    BY <1>10 DEF QaBroken
  <1>11. CASE SpawnAdversary
    BY <1>11 DEF SpawnAdversary
  <1>12. CASE OnAdversaryFindings
    BY <1>12 DEF OnAdversaryFindings
  <1>13. CASE Recover
    BY <1>13 DEF Recover, Translate
  <1>14. CASE ReplayEnds
    BY <1>14 DEF ReplayEnds
  <1>15. CASE WorkerFinishes
    BY <1>15 DEF WorkerFinishes
  <1> QED BY <1>1, <1>2, <1>3, <1>4, <1>5, <1>6, <1>7, <1>8, <1>9, <1>10, <1>11, <1>12,
             <1>13, <1>14, <1>15

\* A posted item is unrecorded until the next step.
LEMMA PostKeepsInv == LedgerInv /\ PostItem => LedgerInv'
  <1> SUFFICES ASSUME LedgerInv, PostItem PROVE LedgerInv'
    OBVIOUS
  <1>1. CASE is_posted(Head(plan))
    <2>1. Quiet
      BY <1>1 DEF PostItem, Quiet
    <2> QED BY <2>1, QuietKeepsInv
  <1>2. CASE ~ is_posted(Head(plan))
    <2>0. PICK key : key = LedgerKey(Head(plan))
      OBVIOUS
    <2>1. /\ comment_write(Head(plan).kind, Role, Head(plan).body, key)
          /\ pc \in {"translate", "replay"} /\ pc' \in {"record", "replay_record"}
          /\ plan' = plan /\ posted' = posted /\ crashes' = crashes /\ key \notin posted
      BY <1>2, <2>0 DEF PostItem, is_posted
    <2>2. key # <<>>
      BY <2>0, KeyIsNotEmpty
    <2>3. Unrecorded = {} /\ Unrecorded' = {key}
      BY <2>0, <2>1 DEF Unrecorded
    <2>4. comments \in Seq(Range(comments)) /\ crashes \in Nat
      BY DEF LedgerInv
    <2>5. /\ comments' \in Seq(Range(comments'))
          /\ \A k : Copies(k)' = IF k = key THEN Copies(k) \cup {Len(comments) + 1} ELSE Copies(k)
          /\ Copies(key)' # {} /\ Cardinality(Copies(key)') = Cardinality(Copies(key)) + 1
      BY <2>1, <2>4, WriteAddsACopy
    <2>6. Bounded
      BY EveryKeyIsBounded
    <2>7. Cardinality(Copies(key)) \in Nat
      BY <2>4, CopiesAreFinite
    <2>8. ASSUME NEW k, k # <<>>
          PROVE  Cardinality(Copies(k)') <= Allowance(k)'
      <3>1. CASE k = key
        <4>1. Cardinality(Copies(key)) <= crashes
          BY <2>1, <2>2, <2>3, <2>4, <2>6 DEF Bounded, Allowance
        <4>2. Allowance(key)' = crashes + 1
          BY <2>1, <2>3 DEF Allowance
        <4> QED BY <3>1, <4>1, <4>2, <2>4, <2>5, <2>7
      <3>2. CASE k # key
        <4>1. Allowance(k)' = Allowance(k)
          BY <2>1, <2>3, <3>2 DEF Allowance
        <4> QED BY <3>2, <4>1, <2>5, <2>6, <2>8 DEF Bounded
      <3> QED BY <3>1, <3>2
    <2> QED BY <2>1, <2>3, <2>4, <2>5, <2>8 DEF LedgerInv
  <1> QED BY <1>1, <1>2

\* The row is written for the comment that was just posted.
LEMMA RecordKeepsInv == LedgerInv /\ record_posted => LedgerInv'
  <1> SUFFICES ASSUME LedgerInv, record_posted PROVE LedgerInv'
    OBVIOUS
  <1>0. PICK key : key = LedgerKey(Head(plan))
    OBVIOUS
  <1>1. /\ posted' = posted \cup {key} /\ comments' = comments /\ crashes' = crashes
        /\ pc \in {"record", "replay_record"} /\ pc' \in {"translate", "replay"}
    BY <1>0 DEF record_posted
  <1>2. key # <<>>
    BY <1>0, KeyIsNotEmpty
  <1>3. Unrecorded = {key} /\ Unrecorded' = {}
    BY <1>0, <1>1 DEF Unrecorded
  <1>4. \A k : Copies(k)' = Copies(k) /\ Allowance(k)' = Allowance(k)
    BY <1>1, <1>3 DEF Copies, Allowance
  <1> QED BY <1>1, <1>2, <1>3, <1>4 DEF LedgerInv

\* The output of a failed gate is a comment without a ledger key.
LEMMA QaFailsKeepsInv == LedgerInv /\ QaFails => LedgerInv'
  <1> SUFFICES ASSUME LedgerInv, QaFails PROVE LedgerInv'
    OBVIOUS
  <1>1. /\ comment_write("blocker", "implementer", <<<<"qa", round>>>>, <<>>)
        /\ posted' = posted /\ crashes' = crashes
        /\ pc \notin {"record", "replay_record"} /\ pc' \notin {"record", "replay_record"}
    BY DEF QaFails, locals
  <1>2. Unrecorded = {} /\ Unrecorded' = {}
    BY <1>1 DEF Unrecorded
  <1>3. /\ comments' \in Seq(Range(comments'))
        /\ \A k : k # <<>> => Copies(k)' = Copies(k)
    BY <1>1, WriteAddsACopy DEF LedgerInv
  <1>4. \A k : Allowance(k)' = Allowance(k)
    BY <1>1, <1>2 DEF Allowance
  <1>5. Bounded
    BY EveryKeyIsBounded
  <1> QED BY <1>1, <1>2, <1>3, <1>4, <1>5 DEF LedgerInv, Bounded

\* A crash forgets what was unrecorded, and pays for it.
LEMMA CrashKeepsInv == LedgerInv /\ Crash => LedgerInv'
  <1> SUFFICES ASSUME LedgerInv, Crash PROVE LedgerInv'
    OBVIOUS
  <1>1. /\ crashes' = crashes + 1 /\ pc' = "down" /\ comments' = comments /\ posted' = posted
    BY DEF Crash, tracker
  <1>2. Unrecorded' = {}
    BY <1>1 DEF Unrecorded
  <1>3. crashes \in Nat
    BY DEF LedgerInv
  <1>4. \A k : Copies(k)' = Copies(k)
    BY <1>1 DEF Copies
  <1>5. \A k : Allowance(k) <= Allowance(k)'
    BY <1>1, <1>2, <1>3 DEF Allowance
  <1>6. \A k : Cardinality(Copies(k)) \in Nat /\ Allowance(k) \in Nat /\ Allowance(k)' \in Nat
    BY <1>1, <1>2, <1>3, CopiesAreFinite DEF LedgerInv, Allowance
  <1>7. Bounded
    BY EveryKeyIsBounded
  <1>8. ASSUME NEW k, k # <<>>
        PROVE  Cardinality(Copies(k)') <= Allowance(k)'
    <2>1. Cardinality(Copies(k)) <= Allowance(k)
      BY <1>7, <1>8 DEF Bounded
    <2> QED BY <2>1, <1>4, <1>5, <1>6
  <1> QED BY <1>1, <1>2, <1>3, <1>4, <1>8 DEF LedgerInv

\* LedgerInv holds in every reachable state.
THEOREM LedgerInvariant == Spec => []LedgerInv
  <1>1. LedgerInv /\ [Next]_vars => LedgerInv'
    <2> SUFFICES ASSUME LedgerInv, [Next]_vars PROVE LedgerInv'
      OBVIOUS
    <2>1. CASE PostItem
      BY <2>1, PostKeepsInv
    <2>2. CASE record_posted
      BY <2>2, RecordKeepsInv
    <2>3. CASE QaFails
      BY <2>3, QaFailsKeepsInv
    <2>4. CASE Crash
      BY <2>4, CrashKeepsInv
    <2>5. CASE \/ DriveIssue \/ SpawnImplementer \/ WorkerFails \/ ImplementerDone
               \/ AdversaryDone \/ LabelFollowups \/ EmptyChange \/ EnterQaGate \/ QaPasses
               \/ QaBroken \/ SpawnAdversary \/ OnAdversaryFindings \/ Recover \/ ReplayEnds
               \/ WorkerFinishes
      BY <2>5, QuietSteps, QuietKeepsInv
    <2>6. CASE UNCHANGED vars
      <3>1. UNCHANGED <<pc, plan, comments, posted, crashes>>
        BY <2>6 DEF vars, tracker, locals
      <3> QED BY <3>1 DEF LedgerInv, Unrecorded, Copies, Allowance
    <2> QED BY <2>1, <2>2, <2>3, <2>4, <2>5, <2>6 DEF Next, Orchestrator
  <1> QED BY <1>1, LedgerInit, PTL DEF Spec

\* Whatever the workers leave and however often the process dies, a ledger row
\* stands for a comment that is in the tracker: no comment is ever suppressed
\* (translate_artifacts, replay_done).
THEOREM LedgerRowsHaveComments == Spec => []LedgerIsHonest
  <1>1. LedgerInv => LedgerIsHonest
    BY DEF LedgerInv, LedgerIsHonest
  <1> QED BY <1>1, LedgerInvariant, PTL

\* A recorded comment is in the tracker once, and once more at most for each
\* crash, over all rounds, replays and workers with the same artifact.
THEOREM CommentsRepeatPerCrash == Spec => []CopiesAreCrashes
  <1>1. LedgerInv => CopiesAreCrashes
    <2> SUFFICES ASSUME LedgerInv, NEW k \in posted PROVE Cardinality(Copies(k)) <= 1 + crashes
      BY DEF CopiesAreCrashes
    <2>1. k # <<>> /\ crashes \in Nat
      BY DEF LedgerInv
    <2>2. Cardinality(Copies(k)) <= Allowance(k)
      BY <2>1, EveryKeyIsBounded DEF Bounded
    <2> QED BY <2>1, <2>2 DEF Allowance
  <1> QED BY <1>1, LedgerInvariant, PTL

-----------------------------------------------------------------------------
(* The way of a finding: from its file to a comment, and from the comment    *)
(* back to the next worker.                                                  *)

\* A sequence of anything is a sequence over what it has.
LEMMA SeqOverItself ==
  ASSUME NEW s, IsSeq(s)
  PROVE  s \in Seq(Range(s)) /\ Len(s) \in Nat /\ DOMAIN s = 1 .. Len(s)
  <1>1. Len(s) \in Nat /\ s = [k \in 1 .. Len(s) |-> s[k]]
    BY DEF IsSeq
  <1>2. s \in [1 .. Len(s) -> Range(s)] /\ DOMAIN s = 1 .. Len(s)
    BY <1>1 DEF Range
  <1> QED BY <1>1, <1>2

\* What is in Seq is a sequence in the sense of IsSeq.
LEMMA SeqIsSeq ==
  ASSUME NEW T, NEW s \in Seq(T)
  PROVE  IsSeq(s)
  BY DEF IsSeq

\* Where the parts of a concatenation are.
LEMMA Joined ==
  ASSUME NEW a, NEW b, IsSeq(a), IsSeq(b)
  PROVE  /\ IsSeq(a \o b) /\ Len(a \o b) = Len(a) + Len(b)
         /\ \A i \in 1 .. Len(a) : (a \o b)[i] = a[i]
         /\ \A i \in 1 .. Len(b) : (a \o b)[Len(a) + i] = b[i]
  <1> DEFINE T == Range(a) \cup Range(b)
  <1>1. a \in Seq(Range(a)) /\ b \in Seq(Range(b))
    BY SeqOverItself
  <1>2. a \in Seq(T) /\ b \in Seq(T)
    BY <1>1
  <1> HIDE DEF T
  <1>3. a \o b \in Seq(T) /\ Len(a \o b) = Len(a) + Len(b)
    BY <1>2
  <1>4. /\ \A i \in 1 .. Len(a) : (a \o b)[i] = a[i]
        /\ \A i \in 1 .. Len(b) : (a \o b)[Len(a) + i] = b[i]
    BY <1>2
  <1> QED BY <1>3, <1>4, SeqIsSeq

\* And so is what is left of one without its head.
LEMMA TailIsSeq ==
  ASSUME NEW s, IsSeq(s), s # <<>>
  PROVE  IsSeq(Tail(s))
  <1> DEFINE T == Range(s)
  <1>1. s \in Seq(T)
    BY SeqOverItself
  <1> HIDE DEF T
  <1>2. Tail(s) \in Seq(T)
    BY <1>1
  <1> QED BY <1>2, SeqIsSeq

\* What lines carry is what is carried of them.
LEMMA CarriedByLines ==
  ASSUME NEW text, IsSeq(text), NEW lines \in SUBSET DOMAIN text
  PROVE  /\ IsSeq(Carried(text, lines))
         /\ \A x : (\E k \in DOMAIN Carried(text, lines) : Carried(text, lines)[k] = x)
                <=> \E k \in lines : text[k][2] = x
  <1> DEFINE those == At(text, lines)
             got == Carried(text, lines)
             T == Range(text)
  <1>1. text \in Seq(T)
    BY SeqOverItself
  <1>2. those \in Seq(T) /\ \A x : Has(those, x) <=> \E k \in lines : text[k] = x
    <2> HIDE DEF T
    <2> QED BY <1>1, AtPlaces
  <1>3. got = [k \in 1 .. Len(those) |-> those[k][2]]
    BY DEF Carried
  <1> HIDE DEF those, got, T
  <1>4. Len(those) \in Nat /\ DOMAIN those = 1 .. Len(those)
    BY <1>2
  <1>5. Len(got) = Len(those) /\ DOMAIN got = DOMAIN those /\ IsSeq(got)
        /\ \A k \in DOMAIN those : got[k] = those[k][2]
    BY <1>3, <1>4 DEF IsSeq
  <1>6. ASSUME NEW x
        PROVE  (\E k \in DOMAIN got : got[k] = x) <=> \E k \in lines : text[k][2] = x
    <2>1. ASSUME NEW k \in DOMAIN got, got[k] = x PROVE \E j \in lines : text[j][2] = x
      <3>1. Has(those, those[k]) /\ those[k][2] = x
        BY <1>5, <2>1 DEF Has
      <3> QED BY <1>2, <3>1
    <2>2. ASSUME NEW j \in lines, text[j][2] = x PROVE \E k \in DOMAIN got : got[k] = x
      <3>1. Has(those, text[j])
        BY <1>2
      <3> QED BY <1>5, <2>2, <3>1 DEF Has
    <2> QED BY <2>1, <2>2
  <1> QED BY <1>5, <1>6 DEF got

\* The text of a comment: its head, its location line, and nothing after that
\* line that looks like one.
LEMMA BodyOfFinding ==
  ASSUME NEW f, Sound(f)
  PROVE  /\ IsSeq(comment_body(f))
         /\ 1 \in DOMAIN comment_body(f)
         /\ comment_body(f)[1] = <<"head", f.severity, Head(f.claim)>>
         /\ \E p \in DOMAIN comment_body(f) :
              /\ p # 1 /\ comment_body(f)[p] = <<"location", f.location>>
              /\ \A j \in DOMAIN comment_body(f) :
                   j > p => comment_body(f)[j][1] \in {"evidence", "item"}
  <1> DEFINE head == <<<<"head", f.severity, Head(f.claim)>>>>
             more == Tail(f.claim)
             loc == <<<<"location", f.location>>>>
             ev == IF f.evidence_files = <<>> THEN <<>> ELSE <<<<"evidence">>>>
             items == [k \in 1 .. Len(f.evidence_files) |-> <<"item", f.evidence_files[k]>>]
             body == comment_body(f)
             a == head \o more
             b == a \o loc
             c == b \o ev
  <1>1. body = c \o items
    BY DEF comment_body
  <1>2. IsSeq(head) /\ Len(head) = 1 /\ head[1] = <<"head", f.severity, Head(f.claim)>>
    BY DEF IsSeq
  <1>3. IsSeq(more)
    <2>1. IsSeq(f.claim) /\ f.claim # <<>>
      BY DEF Sound, IsWhole
    <2> QED BY <2>1, TailIsSeq
  <1>4. IsSeq(loc) /\ Len(loc) = 1 /\ loc[1] = <<"location", f.location>>
    BY DEF IsSeq
  <1>5. IsSeq(ev) /\ \A k \in 1 .. Len(ev) : ev[k] = <<"evidence">>
    BY DEF IsSeq
  <1>6. IsSeq(items) /\ \A k \in 1 .. Len(items) : items[k][1] = "item"
    <2>1. Len(f.evidence_files) \in Nat
      BY DEF Sound, IsWhole, IsSeq
    <2>2. Len(items) = Len(f.evidence_files)
      BY <2>1
    <2> QED BY <2>1, <2>2 DEF IsSeq
  <1> HIDE DEF head, more, loc, ev, items, body
  <1>7. /\ IsSeq(a) /\ Len(a) = 1 + Len(more) /\ a[1] = <<"head", f.severity, Head(f.claim)>>
    <2>1. /\ IsSeq(a) /\ Len(a) = Len(head) + Len(more)
          /\ \A i \in 1 .. Len(head) : a[i] = head[i]
      BY <1>2, <1>3, Joined
    <2> HIDE DEF a
    <2> QED BY <1>2, <2>1
  <1>8. Len(more) \in Nat /\ Len(ev) \in Nat /\ Len(items) \in Nat
    BY <1>3, <1>5, <1>6 DEF IsSeq
  <1> HIDE DEF a
  <1> DEFINE p == Len(a) + 1
  <1>9. /\ IsSeq(b) /\ Len(b) = p /\ b[1] = <<"head", f.severity, Head(f.claim)>>
        /\ b[p] = <<"location", f.location>> /\ p \in Nat /\ p > 1
    <2>1. 1 \in 1 .. Len(a) /\ 1 \in 1 .. Len(loc) /\ Len(a) \in Nat
      BY <1>4, <1>7, <1>8
    <2>0. IsSeq(a) /\ IsSeq(loc)
      BY <1>4, <1>7
    <2>2. /\ IsSeq(b) /\ Len(b) = Len(a) + Len(loc)
          /\ \A i \in 1 .. Len(a) : b[i] = a[i]
          /\ \A i \in 1 .. Len(loc) : b[Len(a) + i] = loc[i]
      BY <2>0, Joined
    <2> HIDE DEF b
    <2>3. Len(b) = p /\ b[1] = a[1] /\ b[p] = loc[1]
      BY <1>4, <2>1, <2>2
    <2>4. p \in Nat /\ p > 1
      BY <1>7, <1>8
    <2> QED BY <1>4, <1>7, <2>2, <2>3, <2>4
  <1> HIDE DEF b, p
  <1>10. /\ IsSeq(c) /\ Len(c) = p + Len(ev)
         /\ c[1] = <<"head", f.severity, Head(f.claim)>> /\ c[p] = <<"location", f.location>>
         /\ \A i \in 1 .. Len(ev) : c[p + i] = <<"evidence">>
    <2>1. 1 \in 1 .. Len(b) /\ p \in 1 .. Len(b)
      BY <1>9
    <2>2. /\ IsSeq(c) /\ Len(c) = Len(b) + Len(ev)
          /\ \A i \in 1 .. Len(b) : c[i] = b[i]
          /\ \A i \in 1 .. Len(ev) : c[Len(b) + i] = ev[i]
      BY <1>5, <1>9, Joined
    <2> HIDE DEF c
    <2> QED BY <1>5, <1>9, <2>1, <2>2
  <1> HIDE DEF c
  <1>11. /\ IsSeq(body) /\ Len(body) = p + Len(ev) + Len(items)
         /\ \A i \in 1 .. Len(c) : body[i] = c[i]
         /\ \A i \in 1 .. Len(items) : body[Len(c) + i] = items[i]
    <2>0. IsSeq(c) /\ IsSeq(items)
      BY <1>6, <1>10
    <2>1. /\ IsSeq(body) /\ Len(body) = Len(c) + Len(items)
          /\ \A i \in 1 .. Len(c) : body[i] = c[i]
          /\ \A i \in 1 .. Len(items) : body[Len(c) + i] = items[i]
      BY <1>1, <2>0, Joined
    <2> QED BY <1>10, <2>1
  <1>12. /\ DOMAIN body = 1 .. Len(body) /\ 1 \in 1 .. Len(c) /\ p \in 1 .. Len(c)
         /\ 1 \in 1 .. Len(body) /\ p \in 1 .. Len(body)
    BY <1>8, <1>9, <1>10, <1>11, SeqOverItself
  <1>13. ASSUME NEW j \in DOMAIN body, j > p PROVE body[j][1] \in {"evidence", "item"}
    <2>1. j \in Nat /\ j \in 1 .. (p + Len(ev) + Len(items))
      BY <1>11, <1>12
    <2>2. CASE j - p \in 1 .. Len(ev)
      <3>1. c[p + (j - p)] = <<"evidence">> /\ p + (j - p) = j /\ j \in 1 .. Len(c)
        BY <1>8, <1>9, <1>10, <2>1, <2>2
      <3>2. body[j] = <<"evidence">>
        BY <1>11, <3>1
      <3> QED BY <3>2
    <2>3. CASE j - Len(c) \in 1 .. Len(items)
      <3>1. Len(c) + (j - Len(c)) = j
        BY <1>8, <1>9, <1>10, <2>1
      <3>2. body[j] = items[j - Len(c)]
        BY <1>11, <2>3, <3>1
      <3>3. body[j][1] = "item"
        BY <1>6, <2>3, <3>2
      <3> QED BY <3>3
    <2>4. j - p \in 1 .. Len(ev) \/ j - Len(c) \in 1 .. Len(items)
      BY <1>8, <1>9, <1>10, <1>13, <2>1
    <2> QED BY <2>2, <2>3, <2>4
  <1>14. body[1] = <<"head", f.severity, Head(f.claim)>> /\ body[p] = <<"location", f.location>>
    BY <1>10, <1>11, <1>12
  <1> QED BY <1>9, <1>11, <1>12, <1>13, <1>14 DEF body

\* What a comment is parsed to is the finding it was made of: severity, first
\* line of the claim, place.
LEMMA CommentParses ==
  ASSUME NEW f, Sound(f)
  PROVE  LET parsed == parse_finding_from_body(comment_body(f))
         IN  parsed.ok /\ SameFinding(parsed.val, f) /\ Sound(parsed.val)
  <1> DEFINE body == comment_body(f)
             locs == Tagged(body, "location") \cap Rest(body)
             last == CHOOSE k \in locs : \A j \in locs : j <= k
             items == {k \in Tagged(body, "item") :
                         \E e \in Tagged(body, "evidence") \cap Rest(body) : e < k}
             parsed == parse_finding_from_body(body)
  <1>1. /\ IsSeq(body) /\ 1 \in DOMAIN body
        /\ body[1] = <<"head", f.severity, Head(f.claim)>>
    BY BodyOfFinding
  <1>2. PICK p \in DOMAIN body :
              /\ p # 1 /\ body[p] = <<"location", f.location>>
              /\ \A j \in DOMAIN body : j > p => body[j][1] \in {"evidence", "item"}
    BY BodyOfFinding
  <1>3. f.severity \in Severity /\ Location_parse(f.location).ok
    BY DEF Sound
  <1>p. parsed = IF \/ body[1][1] # "head" \/ body[1][2] \notin Severity
                    \/ locs = {} \/ ~ Location_parse(body[last][2]).ok
                 THEN Err
                 ELSE Ok([severity |-> body[1][2], claim |-> <<body[1][3]>>,
                          location |-> body[last][2], evidence_files |-> Carried(body, items)])
    BY DEF parse_finding_from_body
  <1>i. items \in SUBSET DOMAIN body
    BY DEF Tagged
  <1> HIDE DEF body, items, parsed
  <1>4. DOMAIN body \subseteq Nat
    BY <1>1, SeqOverItself
  <1>5. p \in locs /\ \A j \in locs : j <= p
    <2>1. body[p][1] = "location" /\ p \in locs
      BY <1>2 DEF Tagged, Rest
    <2>2. ASSUME NEW j \in locs PROVE j <= p
      <3>1. j \in DOMAIN body /\ body[j][1] = "location" /\ j \in Nat /\ p \in Nat
        BY <1>4 DEF Tagged
      <3> QED BY <1>2, <3>1
    <2> QED BY <2>1, <2>2
  <1>6. last = p
    <2>1. locs \subseteq Nat
      BY <1>4 DEF Tagged
    <2> HIDE DEF locs
    <2>2. last \in locs /\ \A j \in locs : j <= last
      BY <1>5
    <2>3. last <= p /\ p <= last /\ last \in Nat /\ p \in Nat
      BY <1>5, <2>1, <2>2
    <2> HIDE DEF last
    <2> QED BY <2>3
  <1> HIDE DEF locs, last
  <1> DEFINE g == [severity |-> f.severity, claim |-> <<Head(f.claim)>>,
                   location |-> f.location, evidence_files |-> Carried(body, items)]
  <1>7. parsed = Ok(g)
    BY <1>1, <1>2, <1>3, <1>5, <1>6, <1>p
  <1>8. parsed.ok /\ parsed.val = g
    BY <1>7 DEF Ok
  <1>9. IsSeq(Carried(body, items))
    BY <1>1, <1>i, CarriedByLines
  <1>10. SameFinding(g, f)
    BY DEF SameFinding
  <1>11. IsSeq(g.claim) /\ g.claim # <<>>
    BY DEF IsSeq
  <1>12. Sound(g)
    BY <1>3, <1>9, <1>11 DEF Sound, IsWhole
  <1> QED BY <1>8, <1>10, <1>12 DEF parsed, body

\* A file that parses gives sound findings, and none only if it has none.
LEMMA FileParses ==
  ASSUME NEW file, IsSeq(file), Findings_parse(file).ok,
         \A n \in DOMAIN file : file[n][1] = "finding" => IsWhole(file[n][2])
  PROVE  /\ IsSeq(Findings_parse(file).val)
         /\ \A k \in DOMAIN Findings_parse(file).val : Sound(Findings_parse(file).val[k])
         /\ Findings_parse(file).val = <<>> => NotBlank(file) = {}
  <1> DEFINE lines == NotBlank(file)
             val == Findings_parse(file).val
  <1>1. val = Carried(file, lines) /\ \A k \in lines : IsFinding(file[k])
    BY DEF Findings_parse, Ok, Err
  <1>2. lines \in SUBSET DOMAIN file
    BY DEF NotBlank
  <1> HIDE DEF lines, val
  <1>3. IsSeq(val) /\ \A x : (\E k \in DOMAIN val : val[k] = x) <=> \E k \in lines : file[k][2] = x
    BY <1>1, <1>2, CarriedByLines
  <1>4. ASSUME NEW k \in lines PROVE Sound(file[k][2])
    <2>1. /\ file[k][1] = "finding" /\ file[k][2].severity \in Severity
          /\ Location_parse(file[k][2].location).ok
      BY <1>1 DEF IsFinding
    <2>2. IsWhole(file[k][2])
      BY <1>2, <2>1
    <2> QED BY <2>1, <2>2 DEF Sound
  <1>5. ASSUME NEW k \in DOMAIN val PROVE Sound(val[k])
    <2>1. PICK j \in lines : file[j][2] = val[k]
      BY <1>3
    <2> QED BY <1>4, <2>1
  <1>6. val = <<>> => lines = {}
    <2> SUFFICES ASSUME val = <<>>, NEW k \in lines PROVE FALSE
      OBVIOUS
    <2>1. \E j \in DOMAIN val : val[j] = file[k][2]
      BY <1>3
    <2> QED BY <2>1
  <1> QED BY <1>3, <1>5, <1>6 DEF lines, val

\* Findings::from_done reads a file that DONE declares, and all of it.
LEMMA ReadFromDone ==
  ASSUME NEW d, WellFormed(d), from_done(d).ok
  PROVE  /\ Named(d, "findings.jsonl") # <<>>
         /\ \E j \in DOMAIN d.artifacts :
              /\ artifact_file_name(d.artifacts[j].path) = "findings.jsonl"
              /\ Head(Named(d, "findings.jsonl")) = d.artifacts[j]
              /\ from_done(d) = Findings_parse(d.artifacts[j].disk)
  <1> DEFINE files == Named(d, "findings.jsonl")
             T == Range(d.artifacts)
             places == {k \in DOMAIN d.artifacts :
                          artifact_file_name(d.artifacts[k].path) = "findings.jsonl"}
  <1>1. d.artifacts \in Seq(T)
    BY SeqOverItself DEF WellFormed
  <1>2. files = At(d.artifacts, places)
    BY DEF Named
  <1>3. files # <<>> /\ from_done(d) = Findings_parse(Head(files).disk)
    BY DEF from_done, Err
  <1>4. places \in SUBSET DOMAIN d.artifacts
    OBVIOUS
  <1>5. files \in Seq(T) /\ \A x : Has(files, x) <=> \E k \in places : d.artifacts[k] = x
    <2> HIDE DEF T, places, files
    <2> QED BY <1>1, <1>2, <1>4, AtPlaces
  <1>6. Has(files, Head(files))
    <2> HIDE DEF files, T
    <2>1. 1 \in DOMAIN files /\ Head(files) = files[1]
      BY <1>3, <1>5
    <2> QED BY <2>1 DEF Has
  <1>7. PICK k \in places : d.artifacts[k] = Head(files)
    BY <1>5, <1>6
  <1> QED BY <1>3, <1>7

\* Every artifact of a verified DONE is the file that was hashed.
LEMMA AttestedIsRead ==
  ASSUME NEW d, verify(d).ok
  PROVE  \A k \in DOMAIN d.artifacts : d.artifacts[k].sha256 = d.artifacts[k].disk
  BY DEF verify, Err, Attested

\* A round without findings is one of an explicit, empty file.
LEMMA CleanIsAttested ==
  ASSUME NEW d, WellFormed(d), from_done(d).ok, from_done(d).val = <<>>
  PROVE  /\ Named(d, "findings.jsonl") # <<>>
         /\ NotBlank(Head(Named(d, "findings.jsonl")).disk) = {}
  <1>1. Named(d, "findings.jsonl") # <<>>
    BY ReadFromDone
  <1>2. PICK j \in DOMAIN d.artifacts :
              /\ Head(Named(d, "findings.jsonl")) = d.artifacts[j]
              /\ from_done(d) = Findings_parse(d.artifacts[j].disk)
    BY ReadFromDone
  <1>3. /\ IsSeq(d.artifacts[j].disk)
        /\ \A n \in DOMAIN d.artifacts[j].disk :
             d.artifacts[j].disk[n][1] = "finding" => IsWhole(d.artifacts[j].disk[n][2])
    BY DEF WellFormed
  <1>4. NotBlank(d.artifacts[j].disk) = {}
    BY <1>2, <1>3, FileParses
  <1> QED BY <1>1, <1>2, <1>4

\* The blockers an artifact turns into are its findings, in its words.
LEMMA ItemsAreRecords ==
  ASSUME NEW d, WellFormed(d), verify(d).ok, NEW j \in DOMAIN d.artifacts,
         ItemsOf(d, d.artifacts[j]).ok
  PROVE  LET items == ItemsOf(d, d.artifacts[j]).val
         IN  /\ IsSeq(items)
             /\ \A k \in DOMAIN items : items[k].kind = "blocker" =>
                  /\ artifact_file_name(d.artifacts[j].path) = "findings.jsonl"
                  /\ LedgerKey(items[k])[2] = d.artifacts[j].disk
                  /\ IsRecord(LedgerKey(items[k]), items[k].body)
  <1> DEFINE a == d.artifacts[j]
             file == a.disk
             items == ItemsOf(d, a).val
             found == Findings_parse(file)
             name == artifact_file_name(a.path)
             proposals == Followups_parse(file)
  <1>1. /\ IsSeq(file) /\ a.sha256 = file
        /\ \A n \in DOMAIN file : file[n][1] = "finding" => IsWhole(file[n][2])
    BY AttestedIsRead DEF WellFormed
  <1> HIDE DEF a
  <1>0. ItemsOf(d, a).ok
    BY DEF a
  <1>2. CASE name = "result.md"
    <2>1. items = IF d.exit_status = "success"
                  THEN <<Item(a, WHOLE_FILE_INDEX, "result", <<<<"result", file>>>>)>>
                  ELSE <<>>
      BY <1>2 DEF ItemsOf, Ok
    <2>2. \A k \in DOMAIN items : items[k].kind = "result"
      BY <2>1 DEF Item
    <2>3. IsSeq(items)
      BY <2>1 DEF IsSeq
    <2> HIDE DEF items
    <2> QED BY <2>2, <2>3 DEF a, items
  <1>3. CASE name = "findings.jsonl"
    <2>1. found.ok /\ items = [k \in 1 .. Len(found.val) |->
                                 Item(a, k - 1, "blocker", comment_body(found.val[k]))]
      BY <1>0, <1>3 DEF ItemsOf, Ok, Err
    <2> HIDE DEF items, file
    <2>2. IsSeq(found.val) /\ \A k \in DOMAIN found.val : Sound(found.val[k])
      BY <1>1, <2>1, FileParses
    <2> HIDE DEF found
    <2>3. Len(found.val) \in Nat /\ DOMAIN found.val = 1 .. Len(found.val)
      BY <2>2, SeqOverItself
    <2>4. IsSeq(items) /\ DOMAIN items = 1 .. Len(found.val)
      BY <2>1, <2>3 DEF IsSeq
    <2>5. ASSUME NEW k \in DOMAIN items
          PROVE  LedgerKey(items[k])[2] = file /\ IsRecord(LedgerKey(items[k]), items[k].body)
      <3>1. items[k] = Item(a, k - 1, "blocker", comment_body(found.val[k]))
        BY <2>1, <2>4
      <3>2. /\ LedgerKey(items[k]) = <<a.path, file, k - 1>>
            /\ items[k].body = comment_body(found.val[k])
        BY <1>1, <3>1 DEF LedgerKey, Item
      <3>3. k \in DOMAIN found.val /\ (k - 1) + 1 = k
        BY <2>3, <2>4
      <3>4. Recorded(LedgerKey(items[k])) = found.val[k]
        BY <3>2, <3>3 DEF Recorded, found
      <3> QED BY <2>1, <2>2, <3>2, <3>3, <3>4 DEF IsRecord, found
    <2> QED BY <1>3, <2>4, <2>5 DEF a, items, file
  <1>4. CASE name = "followups.jsonl"
    <2>1. proposals.ok /\ items = [k \in 1 .. Len(proposals.val) |->
                                 Item(a, k - 1, "note", followup_body(proposals.val[k]))]
      BY <1>0, <1>4 DEF ItemsOf, Ok, Err
    <2>2. IsSeq(proposals.val)
      <3>1. proposals.val = Carried(file, NotBlank(file))
        BY <2>1 DEF Followups_parse, Ok, Err
      <3>2. NotBlank(file) \in SUBSET DOMAIN file
        BY DEF NotBlank
      <3> QED BY <1>1, <3>1, <3>2, CarriedByLines
    <2> HIDE DEF items, proposals
    <2>3. IsSeq(items) /\ \A k \in DOMAIN items : items[k].kind = "note"
      BY <2>1, <2>2 DEF IsSeq, Item
    <2> QED BY <2>3 DEF a, items
  <1>5. CASE name \notin {"result.md", "findings.jsonl", "followups.jsonl"}
    <2>1. items = <<>>
      BY <1>5 DEF ItemsOf, Ok
    <2>2. IsSeq(items) /\ DOMAIN items = {}
      BY <2>1 DEF IsSeq
    <2> HIDE DEF items
    <2> QED BY <2>2 DEF a, items
  <1> QED BY <1>2, <1>3, <1>4, <1>5

\* And so are those of the whole plan: the convergence decision and the comments
\* are about the same findings.
LEMMA PlanIsRecorded ==
  ASSUME NEW d, WellFormed(d), verify(d).ok, translation_plan(d).ok
  PROVE  LET items == translation_plan(d).val
         IN  /\ IsSeq(items)
             /\ \A k \in DOMAIN items : items[k].kind = "blocker" =>
                  /\ IsRecord(LedgerKey(items[k]), items[k].body)
                  /\ from_done(d).ok /\ OneFindingsFile(d) =>
                       \E j \in DOMAIN from_done(d).val :
                          from_done(d).val[j] = Recorded(LedgerKey(items[k]))
  <1> DEFINE items == translation_plan(d).val
             n == Len(d.artifacts)
             of == [k \in DOMAIN d.artifacts |-> ItemsOf(d, d.artifacts[k]).val]
             T == UNION {Range(of[k]) : k \in DOMAIN d.artifacts}
             Good(item) == item.kind = "blocker" =>
                  /\ IsRecord(LedgerKey(item), item.body)
                  /\ from_done(d).ok /\ OneFindingsFile(d) =>
                       \E j \in DOMAIN from_done(d).val :
                          from_done(d).val[j] = Recorded(LedgerKey(item))
  <1>1. n \in Nat /\ DOMAIN d.artifacts = 1 .. n
    BY SeqOverItself DEF WellFormed
  <1>2. /\ \A k \in DOMAIN d.artifacts : ItemsOf(d, d.artifacts[k]).ok
        /\ items = FlattenSeq(of)
    <2> DEFINE parts == [k \in DOMAIN d.artifacts |-> ItemsOf(d, d.artifacts[k])]
    <2>1. /\ \A k \in DOMAIN parts : parts[k].ok
          /\ items = FlattenSeq([k \in DOMAIN parts |-> parts[k].val])
      BY DEF translation_plan, Ok, Err
    <2>2. [k \in DOMAIN parts |-> parts[k].val] = of
      OBVIOUS
    <2> QED BY <2>1, <2>2
  <1>3. \A k \in DOMAIN d.artifacts : IsSeq(of[k])
    BY <1>2, ItemsAreRecords
  <1>4. of \in Seq(Seq(T))
    <2>1. ASSUME NEW k \in DOMAIN d.artifacts PROVE of[k] \in Seq(T)
      <3>1. of[k] \in Seq(Range(of[k]))
        BY <1>3, SeqOverItself
      <3>2. Range(of[k]) \subseteq T
        OBVIOUS
      <3> HIDE DEF of, T
      <3> QED BY <3>1, <3>2
    <2>2. of \in [1 .. n -> Seq(T)]
      BY <1>1, <2>1
    <2> QED BY <1>1, <2>2
  <1>5. DOMAIN of = DOMAIN d.artifacts
    OBVIOUS
  <1>6. items \in Seq(T) /\ \A x : Has(items, x) <=> \E k \in DOMAIN of : Has(of[k], x)
    <2> HIDE DEF of, T, items
    <2> QED BY <1>2, <1>4, FlattenedHasAll
  <1>7. ASSUME NEW k \in DOMAIN d.artifacts, NEW m \in DOMAIN of[k]
        PROVE  Good(of[k][m])
    <2> DEFINE item == of[k][m]
    <2> SUFFICES ASSUME item.kind = "blocker" PROVE Good(item)
      OBVIOUS
    <2>1. /\ artifact_file_name(d.artifacts[k].path) = "findings.jsonl"
          /\ LedgerKey(item)[2] = d.artifacts[k].disk
          /\ IsRecord(LedgerKey(item), item.body)
      BY <1>2, ItemsAreRecords
    <2> HIDE DEF of, item
    <2>2. ASSUME from_done(d).ok, OneFindingsFile(d)
          PROVE  \E j \in DOMAIN from_done(d).val :
                    from_done(d).val[j] = Recorded(LedgerKey(item))
      <3>1. PICK j \in DOMAIN d.artifacts :
                  /\ artifact_file_name(d.artifacts[j].path) = "findings.jsonl"
                  /\ from_done(d) = Findings_parse(d.artifacts[j].disk)
        BY <2>2, ReadFromDone
      <3>2. d.artifacts[j].disk = d.artifacts[k].disk
        BY <2>1, <2>2, <3>1 DEF OneFindingsFile
      <3>3. from_done(d) = Findings_parse(LedgerKey(item)[2])
        BY <2>1, <3>1, <3>2
      <3> QED BY <2>1, <3>3 DEF IsRecord, Recorded
    <2> QED BY <2>1, <2>2 DEF item
  <1> HIDE DEF items, of, T
  <1>8. ASSUME NEW p \in DOMAIN items PROVE Good(items[p])
    <2>1. Has(items, items[p])
      BY DEF Has
    <2>2. PICK k \in DOMAIN of : Has(of[k], items[p])
      BY <1>6, <2>1
    <2>3. PICK m \in DOMAIN of[k] : of[k][m] = items[p]
      BY <2>2 DEF Has
    <2>4. Good(of[k][m])
      BY <1>5, <1>7
    <2> HIDE DEF Good
    <2> QED BY <2>3, <2>4
  <1>9. IsSeq(items)
    BY <1>6, SeqIsSeq
  <1> QED BY <1>8, <1>9 DEF items

\* What is rebuilt from the tracker has every finding of an Adversary's comment.
LEMMA RebuiltFromTracker ==
  ASSUME IsSeq(comments),
         \A n \in DOMAIN comments :
            FromAdversary(comments[n]) => IsRecord(comments[n].key, comments[n].body)
  PROVE  /\ IsSeq(rehydrate_prior_findings)
         /\ \A k \in DOMAIN rehydrate_prior_findings : Sound(rehydrate_prior_findings[k])
         /\ \A n \in DOMAIN comments : FromAdversary(comments[n]) =>
               \E k \in DOMAIN rehydrate_prior_findings :
                  SameFinding(rehydrate_prior_findings[k], Original(comments[n]))
  <1> DEFINE vals == [n \in DOMAIN comments |-> parse_finding_from_body(comments[n].body).val]
             those == {n \in DOMAIN comments :
                         /\ FromAdversary(comments[n])
                         /\ parse_finding_from_body(comments[n].body).ok}
             T == Range(vals)
             prior == rehydrate_prior_findings
  <1>1. prior = At(vals, those)
    <2>1. DOMAIN list_comments = DOMAIN comments
          /\ \A n \in DOMAIN comments : /\ list_comments[n].kind = comments[n].kind
                                        /\ list_comments[n].role = comments[n].role
                                        /\ list_comments[n].body = comments[n].body
      BY DEF list_comments
    <2> DEFINE parsed == [n \in DOMAIN list_comments |-> parse_finding_from_body(list_comments[n].body)]
               picked == {n \in DOMAIN list_comments :
                            /\ list_comments[n].kind = "blocker"
                            /\ list_comments[n].role = "adversary"
                            /\ parsed[n].ok}
    <2>2. prior = At([n \in DOMAIN parsed |-> parsed[n].val], picked)
      BY DEF rehydrate_prior_findings
    <2>3. parsed = [n \in DOMAIN comments |-> parse_finding_from_body(comments[n].body)]
      BY <2>1
    <2>4. picked = those
      BY <2>1, <2>3 DEF FromAdversary
    <2>5. [n \in DOMAIN parsed |-> parsed[n].val] = vals
      BY <2>3
    <2> QED BY <2>2, <2>4, <2>5
  <1>2. DOMAIN comments = 1 .. Len(comments) /\ Len(comments) \in Nat
    BY SeqOverItself
  <1>3. vals \in Seq(T) /\ those \in SUBSET DOMAIN vals
    <2>1. vals \in [1 .. Len(comments) -> T]
      BY <1>2 DEF Range
    <2>2. those \in SUBSET DOMAIN vals
      OBVIOUS
    <2> QED BY <1>2, <2>1, <2>2
  <1>4. ASSUME NEW n \in DOMAIN comments, FromAdversary(comments[n])
        PROVE  n \in those /\ Sound(vals[n]) /\ SameFinding(vals[n], Original(comments[n]))
    <2>1. /\ Sound(Original(comments[n]))
          /\ comments[n].body = comment_body(Original(comments[n]))
      BY <1>4 DEF IsRecord, Original
    <2>2. LET parsed == parse_finding_from_body(comments[n].body)
          IN  /\ parsed.ok /\ SameFinding(parsed.val, Original(comments[n])) /\ Sound(parsed.val)
      BY <2>1, CommentParses
    <2> QED BY <1>4, <2>2
  <1>5. \A n \in those : n \in DOMAIN comments /\ FromAdversary(comments[n])
    OBVIOUS
  <1> HIDE DEF vals, those, T, prior
  <1>6. prior \in Seq(T) /\ \A x : Has(prior, x) <=> \E n \in those : vals[n] = x
    BY <1>1, <1>3, AtPlaces
  <1>7. ASSUME NEW k \in DOMAIN prior PROVE Sound(prior[k])
    <2>1. Has(prior, prior[k])
      BY DEF Has
    <2> QED BY <1>4, <1>5, <1>6, <2>1
  <1>8. ASSUME NEW n \in DOMAIN comments, FromAdversary(comments[n])
        PROVE  \E k \in DOMAIN prior : SameFinding(prior[k], Original(comments[n]))
    <2>1. Has(prior, vals[n])
      BY <1>4, <1>6, <1>8
    <2> QED BY <1>4, <1>8, <2>1 DEF Has
  <1>9. IsSeq(prior)
    BY <1>6, SeqIsSeq
  <1> QED BY <1>7, <1>8, <1>9 DEF prior

\* What a worker is handed has every finding of the drive, and the task of an
\* Implementer its head and its place.
LEMMA HandedOver ==
  ASSUME IsSeq(prior_findings), \A k \in DOMAIN prior_findings : Sound(prior_findings[k]),
         NEW k \in DOMAIN prior_findings, NEW original, SameFinding(prior_findings[k], original)
  PROVE  /\ \E line \in Range(render_prior_findings(prior_findings)) :
               IsFinding(line) /\ SameFinding(line[2], original)
         /\ \E line \in Range(render_inputs(<<>>, prior_findings).file) :
               IsFinding(line) /\ SameFinding(line[2], original)
         /\ {<<"head", original.severity, Head(original.claim)>>,
             <<"location", original.location>>}
               \subseteq Range(append_prior_findings(<<>>, prior_findings))
  <1> DEFINE f == prior_findings[k]
             n == Len(prior_findings)
             line == to_jsonl_line(f)
  <1>1. n \in Nat /\ DOMAIN prior_findings = 1 .. n /\ Sound(f) /\ SameFinding(f, original)
    BY SeqOverItself
  <1> HIDE DEF f
  <1>2. IsFinding(line) /\ SameFinding(line[2], original)
    BY <1>1 DEF to_jsonl_line, IsFinding, SameFinding, Sound
  <1>3. line \in Range(render_prior_findings(prior_findings))
    <2>1. render_prior_findings(prior_findings)[k] = line
          /\ k \in DOMAIN render_prior_findings(prior_findings)
      BY <1>1 DEF render_prior_findings, f
    <2> QED BY <2>1 DEF Range
  <1>4. line \in Range(render_inputs(<<>>, prior_findings).file)
    <2>1. render_inputs(<<>>, prior_findings).file[k] = line
          /\ k \in DOMAIN render_inputs(<<>>, prior_findings).file
      BY <1>1 DEF render_inputs, PriorFinding, f
    <2> QED BY <2>1 DEF Range
  <1> DEFINE bodies == [j \in 1 .. n |-> comment_body(prior_findings[j])]
             T == UNION {Range(bodies[j]) : j \in 1 .. n}
             text == FlattenSeq(bodies)
  <1>5. ASSUME NEW j \in 1 .. n PROVE bodies[j] \in Seq(T)
    <2>1. bodies[j] = comment_body(prior_findings[j]) /\ Sound(prior_findings[j])
      BY <1>1
    <2>2. IsSeq(bodies[j])
      BY <2>1, BodyOfFinding
    <2>3. bodies[j] \in Seq(Range(bodies[j])) /\ Range(bodies[j]) \subseteq T
      BY <2>2, SeqOverItself
    <2> HIDE DEF bodies, T
    <2> QED BY <2>3
  <1>6. bodies \in Seq(Seq(T)) /\ DOMAIN bodies = 1 .. n
    <2>1. bodies \in [1 .. n -> Seq(T)]
      BY <1>5
    <2> QED BY <1>1, <2>1
  <1>7. bodies[k] = comment_body(f) /\ k \in DOMAIN bodies
    BY <1>1 DEF f
  <1>8. /\ Has(comment_body(f), <<"head", f.severity, Head(f.claim)>>)
        /\ Has(comment_body(f), <<"location", f.location>>)
    BY <1>1, BodyOfFinding DEF Has
  <1>9. append_prior_findings(<<>>, prior_findings) = <<>> \o text
    BY DEF append_prior_findings
  <1> HIDE DEF bodies, T, text, line
  <1>10. text \in Seq(T) /\ \A x : Has(text, x) <=> \E j \in DOMAIN bodies : Has(bodies[j], x)
    BY <1>6, FlattenedHasAll DEF text
  <1>11. <<>> \o text = text
    BY <1>10
  <1>12. Has(text, <<"head", f.severity, Head(f.claim)>>) /\ Has(text, <<"location", f.location>>)
    BY <1>7, <1>8, <1>10
  <1>13. /\ <<"head", original.severity, Head(original.claim)>> \in Range(text)
         /\ <<"location", original.location>> \in Range(text)
    BY <1>1, <1>12 DEF SameFinding, Has, Range
  <1> QED BY <1>2, <1>3, <1>4, <1>9, <1>11, <1>13

-----------------------------------------------------------------------------
(* Rounds. *)

\* NoDone does not verify.
LEMMA VerifiedIsDone == verify(done).ok => done # NoDone
  BY DEF verify, Err

\* A DONE comes from its worker and goes with it.
LEMMA OutputKept == OutputInv /\ [Next]_vars => OutputInv'
  <1> SUFFICES ASSUME OutputInv, [Next]_vars PROVE OutputInv'
    OBVIOUS
  <1> USE DEF RemoveWorker, Poison, CleanCrashedWorker, row
  <1> DEFINE Kept == done' = NoDone \/ (done' = done /\ worker' = worker)
  <1>k. Kept => OutputInv'
    BY DEF OutputInv
  <1>1. CASE WorkerFinishes
    BY <1>1 DEF WorkerFinishes, OutputInv
  <1>2. CASE DriveIssue \/ SpawnImplementer \/ WorkerFails \/ ImplementerDone
    BY <1>2, <1>k DEF DriveIssue, SpawnImplementer, WorkerFails, ImplementerDone
  <1>3. CASE AdversaryDone \/ PostItem \/ record_posted \/ LabelFollowups
    BY <1>3, <1>k DEF AdversaryDone, PostItem, record_posted, LabelFollowups
  <1>4. CASE EmptyChange \/ EnterQaGate \/ QaPasses \/ QaFails \/ QaBroken
    BY <1>4, <1>k DEF EmptyChange, EnterQaGate, QaPasses, QaFails, QaBroken
  <1>5. CASE SpawnAdversary \/ OnAdversaryFindings \/ Recover \/ ReplayEnds \/ Crash
    BY <1>5, <1>k DEF SpawnAdversary, OnAdversaryFindings, Recover, ReplayEnds, Crash
  <1>6. CASE UNCHANGED vars
    BY <1>6, <1>k DEF vars
  <1> QED BY <1>1, <1>2, <1>3, <1>4, <1>5, <1>6 DEF Next, Orchestrator

\* An Adversary's DONE that verifies is one of its outputs.
LEMMA AdversaryLeft ==
  ASSUME OutputInv, worker = "adversary", verify(done).ok
  PROVE  done \in AdversaryOutputs /\ WellFormed(done)
  <1>1. done \in AdversaryOutputs
    BY VerifiedIsDone DEF OutputInv
  <1> QED BY <1>1, OutputAssumption

\* Only a review without findings adds a clean round.
LEMMA CleanKept == OutputInv /\ CleanRoundsAreAttested /\ [Next]_vars => CleanRoundsAreAttested'
  <1> SUFFICES ASSUME OutputInv, CleanRoundsAreAttested, [Next]_vars
               PROVE  CleanRoundsAreAttested'
    OBVIOUS
  <1>1. CASE AdversaryDone
    <2>1. CASE clean' = clean
      BY <2>1 DEF CleanRoundsAreAttested
    <2>2. CASE clean' # clean
      <3>1. /\ worker = "adversary" /\ verify(done).ok
            /\ from_done(done).ok /\ from_done(done).val = <<>>
            /\ clean' = clean \cup {done}
        BY <1>1, <2>2 DEF AdversaryDone
      <3>2. WellFormed(done)
        BY <3>1, AdversaryLeft
      <3>3. /\ Named(done, "findings.jsonl") # <<>>
            /\ NotBlank(Head(Named(done, "findings.jsonl")).disk) = {}
        BY <3>1, <3>2, CleanIsAttested
      <3> QED BY <3>1, <3>3 DEF CleanRoundsAreAttested
    <2> QED BY <2>1, <2>2
  <1>2. CASE ~ AdversaryDone
    <2>1. clean' = clean
      BY <1>2 DEF Next, Orchestrator, vars, DriveIssue, SpawnImplementer, WorkerFails,
         ImplementerDone, PostItem, record_posted, LabelFollowups, EmptyChange, EnterQaGate,
         QaPasses, QaFails, QaBroken, SpawnAdversary, OnAdversaryFindings, Recover, ReplayEnds,
         WorkerFinishes, Crash
    <2> QED BY <2>1 DEF CleanRoundsAreAttested
  <1> QED BY <1>1, <1>2

\* A drive that goes on, or ends, with the findings it has.
CarriedOn ==
    /\ UNCHANGED <<comments, prior_findings>>
    /\ ~ Posting' /\ (Driven' => Driven)

\* A drive that ends and forgets them.
Forgotten ==
    /\ UNCHANGED comments /\ prior_findings' = <<>>
    /\ ~ Posting' /\ ~ Driven'

\* Only an issue that is being implemented is picked up.
Starts == pc \in {"drive", "implement"} \/ ImplementerRuns => phase = "implementing"

\* A drive that goes on has what it had.
LEMMA CarriedKeepsInv == BriefInv /\ CarriedOn /\ Starts' => BriefInv'
  BY DEF BriefInv, CarriedOn, Starts, Known

\* A drive that ends owes nothing.
LEMMA ForgottenKeepsInv == BriefInv /\ Forgotten /\ Starts' => BriefInv'
  <1> SUFFICES ASSUME BriefInv, Forgotten, Starts' PROVE BriefInv'
    OBVIOUS
  <1>1. IsSeq(prior_findings)' /\ DOMAIN prior_findings' = {}
    BY DEF Forgotten, IsSeq
  <1> QED BY <1>1 DEF BriefInv, Forgotten, Starts

\* The steps that only carry on.
LEMMA CarryingSteps ==
  ASSUME BriefInv,
         \/ SpawnImplementer \/ WorkerFails \/ LabelFollowups \/ EmptyChange \/ EnterQaGate
         \/ QaPasses \/ QaBroken \/ SpawnAdversary \/ OnAdversaryFindings \/ Recover
         \/ ReplayEnds \/ WorkerFinishes \/ UNCHANGED vars
  PROVE  BriefInv'
  <1> USE DEF tracker, locals, row, Poison, RemoveWorker, CleanCrashedWorker, CarriedOn, Starts,
              Posting, Driven, ImplementerRuns
  <1>0. Starts
    BY DEF BriefInv
  <1>c. CarriedOn /\ Starts' => BriefInv'
    BY CarriedKeepsInv
  <1>1. CASE SpawnImplementer
    BY <1>1, <1>0, <1>c DEF SpawnImplementer
  <1>2. CASE WorkerFails \/ EmptyChange \/ QaBroken
    BY <1>2, <1>c DEF WorkerFails, EmptyChange, QaBroken
  <1>3. CASE LabelFollowups
    BY <1>3, <1>c DEF LabelFollowups
  <1>4. CASE EnterQaGate
    BY <1>4, <1>c DEF EnterQaGate
  <1>5. CASE QaPasses
    BY <1>5, <1>c DEF QaPasses
  <1>6. CASE SpawnAdversary
    BY <1>6, <1>c DEF SpawnAdversary
  <1>7. CASE OnAdversaryFindings
    BY <1>7, <1>c DEF OnAdversaryFindings
  <1>8. CASE Recover
    BY <1>8, <1>c DEF Recover, Translate
  <1>9. CASE ReplayEnds
    BY <1>9, <1>c DEF ReplayEnds
  <1>10. CASE WorkerFinishes
    <2>1. UNCHANGED <<comments, prior_findings, pc, phase, worker>> /\ pc \in {"wait", "down"}
      BY <1>10 DEF WorkerFinishes
    <2> QED BY <2>1, <1>0, <1>c
  <1>11. CASE UNCHANGED vars
    <2>1. UNCHANGED <<comments, prior_findings, pc, phase, worker, plan>>
      BY <1>11 DEF vars
    <2> QED BY <2>1 DEF BriefInv, Known
  <1> QED BY <1>1, <1>2, <1>3, <1>4, <1>5, <1>6, <1>7, <1>8, <1>9, <1>10, <1>11

\* A drive starts with what the tracker has.
LEMMA DriveKeepsInv == BriefInv /\ DriveIssue => BriefInv'
  <1> SUFFICES ASSUME BriefInv, DriveIssue PROVE BriefInv'
    OBVIOUS
  <1>1. /\ prior_findings' = rehydrate_prior_findings /\ pc = "drive" /\ pc' = "implement"
        /\ UNCHANGED <<comments, phase, worker>>
    BY DEF DriveIssue, tracker, row
  <1>2. /\ IsSeq(rehydrate_prior_findings)
        /\ \A k \in DOMAIN rehydrate_prior_findings : Sound(rehydrate_prior_findings[k])
        /\ \A n \in DOMAIN comments : FromAdversary(comments[n]) =>
               \E k \in DOMAIN rehydrate_prior_findings :
                  SameFinding(rehydrate_prior_findings[k], Original(comments[n]))
    BY RebuiltFromTracker DEF BriefInv
  <1>3. phase = "implementing"
    BY <1>1 DEF BriefInv
  <1>4. ~ Posting'
    BY <1>1 DEF Posting
  <1> QED BY <1>1, <1>2, <1>3, <1>4 DEF BriefInv, Known, Original

\* A crash, and a plan that does not parse, end the drive.
LEMMA CrashForgets == BriefInv /\ Crash => BriefInv'
  BY ForgottenKeepsInv DEF Crash, Forgotten, tracker, row, Posting, Driven, Starts, ImplementerRuns

\* An Implementer's plan is posted under its own role.
LEMMA ImplementerKeepsInv == BriefInv /\ ImplementerDone => BriefInv'
  <1> SUFFICES ASSUME BriefInv, ImplementerDone PROVE BriefInv'
    OBVIOUS
  <1>1. pc = "wait" /\ worker = "implementer" /\ phase = "implementing"
    BY DEF ImplementerDone, BriefInv, ImplementerRuns
  <1>2. UNCHANGED <<comments, phase, worker>>
    BY DEF ImplementerDone, tracker, row
  <1>3. CASE translation_plan(done).ok
    <2>1. pc' = "translate" /\ prior_findings' = prior_findings
      BY <1>3 DEF ImplementerDone, Translate
    <2> QED BY <1>1, <1>2, <2>1, CarriedKeepsInv
            DEF CarriedOn, Starts, Posting, Driven, ImplementerRuns
  <1>4. CASE ~ translation_plan(done).ok
    <2>1. pc' = "down" /\ prior_findings' = <<>>
      BY <1>4 DEF ImplementerDone, Translate
    <2> QED BY <1>2, <2>1, ForgottenKeepsInv
            DEF Forgotten, Starts, Posting, Driven, ImplementerRuns
  <1> QED BY <1>3, <1>4

\* A finding is the same as itself.
LEMMA SameAsItself ==
  ASSUME NEW f
  PROVE  SameFinding(f, f)
  BY DEF SameFinding

\* An Adversary's findings are collected before any of them is posted.
LEMMA AdversaryKeepsInv ==
  ASSUME BriefInv, OutputInv, AdversaryDone, \A d \in AdversaryOutputs : OneFindingsFile(d)
  PROVE  BriefInv'
  <1> DEFINE f == from_done(done)
  <1>1. /\ pc = "wait" /\ worker = "adversary" /\ verify(done).ok /\ worker' = "none"
        /\ UNCHANGED comments
    BY DEF AdversaryDone, RemoveWorker, tracker
  <1>2. done \in AdversaryOutputs /\ WellFormed(done)
    BY <1>1, AdversaryLeft
  <1>3. CASE pc' \in {"idle", "review"} /\ prior_findings' = prior_findings
    BY <1>1, <1>3, CarriedKeepsInv DEF CarriedOn, Starts, Posting, Driven, ImplementerRuns
  <1>4. CASE f.ok /\ f.val # <<>> /\ ~ translation_plan(done).ok
              /\ pc' = "down" /\ prior_findings' = <<>>
    BY <1>1, <1>4, ForgottenKeepsInv DEF Forgotten, Starts, Posting, Driven, ImplementerRuns
  <1>5. CASE f.ok /\ f.val # <<>> /\ translation_plan(done).ok /\ pc' = "translate"
              /\ plan' = translation_plan(done).val /\ prior_findings' = prior_findings \o f.val
    <2>1. PICK j \in DOMAIN done.artifacts : f = Findings_parse(done.artifacts[j].disk)
      BY <1>2, <1>5, ReadFromDone
    <2>2. IsSeq(f.val) /\ \A k \in DOMAIN f.val : Sound(f.val[k])
      <3>1. /\ IsSeq(done.artifacts[j].disk)
            /\ \A n \in DOMAIN done.artifacts[j].disk :
                 done.artifacts[j].disk[n][1] = "finding" => IsWhole(done.artifacts[j].disk[n][2])
        BY <1>2 DEF WellFormed
      <3> QED BY <1>5, <2>1, <3>1, FileParses
    <2>3. /\ IsSeq(plan')
          /\ \A k \in DOMAIN plan' : plan'[k].kind = "blocker" =>
               /\ IsRecord(LedgerKey(plan'[k]), plan'[k].body)
               /\ \E m \in DOMAIN f.val : f.val[m] = Recorded(LedgerKey(plan'[k]))
      <3>1. OneFindingsFile(done)
        BY <1>2
      <3> QED BY <1>1, <1>2, <1>5, <3>1, PlanIsRecorded
    <2> DEFINE found == f.val
    <2> HIDE DEF f
    <2>4. /\ IsSeq(prior_findings) /\ \A k \in DOMAIN prior_findings : Sound(prior_findings[k])
          /\ IsSeq(found) /\ \A k \in DOMAIN found : Sound(found[k])
      BY <2>2 DEF BriefInv
    <2> HIDE DEF found
    <2>5. /\ prior_findings' = prior_findings \o found
          /\ IsSeq(prior_findings') /\ Len(prior_findings') = Len(prior_findings) + Len(found)
          /\ \A k \in 1 .. Len(prior_findings) : prior_findings'[k] = prior_findings[k]
          /\ \A k \in 1 .. Len(found) : prior_findings'[Len(prior_findings) + k] = found[k]
      <3>1. prior_findings' = prior_findings \o found
        BY <1>5 DEF found
      <3> QED BY <2>4, <3>1, Joined
    <2>6. /\ Len(prior_findings) \in Nat /\ Len(found) \in Nat
          /\ DOMAIN prior_findings = 1 .. Len(prior_findings)
          /\ DOMAIN found = 1 .. Len(found)
          /\ DOMAIN prior_findings' = 1 .. (Len(prior_findings) + Len(found))
      BY <2>4, <2>5, SeqOverItself
    <2>7. ASSUME NEW k \in DOMAIN prior_findings' PROVE Sound(prior_findings'[k])
      <3>1. CASE k \in DOMAIN prior_findings
        BY <2>4, <2>5, <2>6, <3>1
      <3>2. CASE k \notin DOMAIN prior_findings
        <4>1. /\ k - Len(prior_findings) \in 1 .. Len(found)
              /\ Len(prior_findings) + (k - Len(prior_findings)) = k
          BY <2>6, <3>2
        <4>2. prior_findings'[k] = found[k - Len(prior_findings)]
          BY <2>5, <4>1
        <4> QED BY <2>4, <2>6, <4>1, <4>2
      <3> QED BY <3>1, <3>2
    <2>8. ASSUME NEW key, Known(key)
          PROVE  \E m \in DOMAIN prior_findings' :
                    SameFinding(prior_findings'[m], Recorded(key))
      <3>1. PICK k \in DOMAIN prior_findings : SameFinding(prior_findings[k], Recorded(key))
        BY <2>8 DEF Known
      <3>2. k \in DOMAIN prior_findings' /\ prior_findings'[k] = prior_findings[k]
        BY <2>5, <2>6
      <3> QED BY <3>1, <3>2
    <2>9. ASSUME NEW k \in DOMAIN plan', plan'[k].kind = "blocker"
          PROVE  \E m \in DOMAIN prior_findings' :
                    SameFinding(prior_findings'[m], Recorded(LedgerKey(plan'[k])))
      <3>1. PICK m \in DOMAIN found : found[m] = Recorded(LedgerKey(plan'[k]))
        BY <2>3, <2>9 DEF found
      <3>2. Len(prior_findings) + m \in DOMAIN prior_findings'
            /\ prior_findings'[Len(prior_findings) + m] = found[m]
        BY <2>5, <2>6
      <3>3. SameFinding(found[m], Recorded(LedgerKey(plan'[k])))
        BY <3>1, SameAsItself
      <3> QED BY <3>2, <3>3
    <2>10. Driven /\ Starts'
      BY <1>1, <1>5 DEF Driven, Starts, ImplementerRuns
    <2>11. ASSUME NEW n \in DOMAIN comments, FromAdversary(comments[n])
           PROVE  \E m \in DOMAIN prior_findings' :
                     SameFinding(prior_findings'[m], Recorded(comments[n].key))
      <3>1. Known(comments[n].key)
        BY <2>10, <2>11 DEF BriefInv
      <3> QED BY <2>8, <3>1
    <2>12. /\ \A n \in DOMAIN comments :
                FromAdversary(comments[n]) => IsRecord(comments[n].key, comments[n].body)
           /\ IsSeq(comments)
      BY DEF BriefInv
    <2> HIDE DEF f, found
    <2>13. (/\ IsSeq(comments)
            /\ \A n \in DOMAIN comments :
                 FromAdversary(comments[n]) => IsRecord(comments[n].key, comments[n].body))'
      BY <1>1, <2>12
    <2>14. (IsSeq(prior_findings) /\ \A k \in DOMAIN prior_findings : Sound(prior_findings[k]))'
      BY <2>5, <2>7
    <2>15. (Posting => IsSeq(plan) /\ (pc = "record" => plan # <<>>))'
      BY <1>5, <2>3
    <2>16. (\A k \in DOMAIN plan : plan[k].kind = "blocker" =>
              IsRecord(LedgerKey(plan[k]), plan[k].body) /\ Known(LedgerKey(plan[k])))'
      BY <2>3, <2>9 DEF Known
    <2>17. (\A n \in DOMAIN comments : FromAdversary(comments[n]) => Known(comments[n].key))'
      BY <1>1, <2>11 DEF Known
    <2> QED BY <2>10, <2>13, <2>14, <2>15, <2>16, <2>17 DEF BriefInv, Starts
  <1> QED BY <1>3, <1>4, <1>5 DEF AdversaryDone, Translate, locals

\* What is left of a plan.
LEMMA RestOfPlan ==
  ASSUME BriefInv, Posting, plan # <<>>
  PROVE  /\ Head(plan).kind = "blocker" =>
               IsRecord(LedgerKey(Head(plan)), Head(plan).body) /\ Known(LedgerKey(Head(plan)))
         /\ IsSeq(Tail(plan))
         /\ \A k \in DOMAIN Tail(plan) : Tail(plan)[k].kind = "blocker" =>
               /\ IsRecord(LedgerKey(Tail(plan)[k]), Tail(plan)[k].body)
               /\ Known(LedgerKey(Tail(plan)[k]))
  <1> DEFINE T == Range(plan)
             Good(item) == item.kind = "blocker" =>
                IsRecord(LedgerKey(item), item.body) /\ Known(LedgerKey(item))
  <1>1. IsSeq(plan) /\ \A k \in DOMAIN plan : Good(plan[k])
    BY DEF BriefInv
  <1> HIDE DEF Good, T
  <1>2. plan \in Seq(T) /\ DOMAIN plan = 1 .. Len(plan) /\ Len(plan) \in Nat
    BY <1>1, SeqOverItself DEF T
  <1>3. Good(Head(plan))
    <2>1. Head(plan) = plan[1] /\ 1 \in DOMAIN plan
      BY <1>2
    <2> QED BY <1>1, <2>1
  <1>4. /\ Tail(plan) \in Seq(T) /\ Len(Tail(plan)) = Len(plan) - 1
        /\ DOMAIN Tail(plan) = 1 .. (Len(plan) - 1)
        /\ \A k \in 1 .. (Len(plan) - 1) : Tail(plan)[k] = plan[k + 1]
    BY <1>2
  <1>5. ASSUME NEW k \in DOMAIN Tail(plan) PROVE Good(Tail(plan)[k])
    <2>1. k + 1 \in DOMAIN plan /\ Tail(plan)[k] = plan[k + 1]
      BY <1>2, <1>4
    <2> QED BY <1>1, <2>1
  <1> QED BY <1>3, <1>4, <1>5, SeqIsSeq DEF Good

\* A step through the plan that writes no comment.
LEMMA PassedKeepsInv ==
  ASSUME BriefInv, UNCHANGED <<comments, prior_findings, phase, worker>>,
         Posting => plan # <<>>,
         plan' = Tail(plan),
         pc \in {"translate", "record", "replay", "replay_record"},
         pc' = IF pc \in {"translate", "record"} THEN "translate" ELSE "replay"
  PROVE  BriefInv'
  <1>1. Posting' = Posting /\ (Driven' => Driven)
    BY DEF Posting, Driven
  <1>2. Starts'
    BY DEF Starts, ImplementerRuns
  <1>3. \A key : Known(key)' = Known(key)
    BY DEF Known
  <1>4. CASE Posting
    BY <1>1, <1>2, <1>3, <1>4, RestOfPlan DEF BriefInv, Starts
  <1>5. CASE ~ Posting
    BY <1>1, <1>2, <1>3, <1>5 DEF BriefInv, Starts
  <1> QED BY <1>4, <1>5

\* A new comment is the last.
LEMMA WrittenLast ==
  ASSUME IsSeq(comments), NEW kind, NEW role, NEW body, NEW key,
         comment_write(kind, role, body, key)
  PROVE  /\ IsSeq(comments')
         /\ \A n \in DOMAIN comments' :
              \/ n \in DOMAIN comments /\ comments'[n] = comments[n]
              \/ comments'[n] = [kind |-> kind, role |-> role, body |-> body, key |-> key]
  <1> DEFINE c == [kind |-> kind, role |-> role, body |-> body, key |-> key]
             T == Range(comments) \cup {c}
  <1>1. comments \in Seq(T) /\ c \in T /\ comments' = Append(comments, c)
    <2>1. comments \in Seq(Range(comments))
      BY SeqOverItself
    <2> QED BY <2>1 DEF comment_write
  <1> HIDE DEF T, c
  <1>2. /\ comments' \in Seq(T) /\ DOMAIN comments' = 1 .. (Len(comments) + 1)
        /\ DOMAIN comments = 1 .. Len(comments) /\ Len(comments) \in Nat
        /\ \A n \in 1 .. Len(comments) : comments'[n] = comments[n]
        /\ comments'[Len(comments) + 1] = c
    BY <1>1
  <1>3. \A n \in 1 .. (Len(comments) + 1) : n \in 1 .. Len(comments) \/ n = Len(comments) + 1
    BY <1>2
  <1> QED BY <1>2, <1>3, SeqIsSeq DEF c

\* Only a finding that is known becomes an Adversary's comment.
LEMMA PostedIsKnown == BriefInv /\ PostItem => BriefInv'
  <1> SUFFICES ASSUME BriefInv, PostItem PROVE BriefInv'
    OBVIOUS
  <1>1. /\ pc \in {"translate", "replay"} /\ plan # <<>>
        /\ UNCHANGED <<prior_findings, phase, worker>>
    BY DEF PostItem, row
  <1>2. CASE is_posted(Head(plan))
    <2>1. plan' = Tail(plan) /\ pc' = pc /\ UNCHANGED comments
      BY <1>2 DEF PostItem
    <2> QED BY <1>1, <2>1, PassedKeepsInv
  <1>3. CASE ~ is_posted(Head(plan))
    <2> DEFINE item == Head(plan)
               key == LedgerKey(item)
    <2>1. /\ comment_write(item.kind, Role, item.body, key)
          /\ pc' = IF pc = "replay" THEN "replay_record" ELSE "record"
          /\ plan' = plan
      BY <1>3 DEF PostItem
    <2>2. Posting' = Posting /\ (Driven' => Driven) /\ (Driven => pc = "translate")
      BY <1>1, <2>1 DEF Posting, Driven
    <2>3. Starts'
      BY <1>1, <2>1 DEF Starts, ImplementerRuns
    <2>4. \A k : Known(k)' = Known(k)
      BY <1>1 DEF Known
    <2> DEFINE c == [kind |-> item.kind, role |-> Role, body |-> item.body, key |-> key]
    <2>5. FromAdversary(c) => Posting /\ item.kind = "blocker"
      BY <1>1 DEF FromAdversary, Role, Posting
    <2>6. FromAdversary(c) => IsRecord(c.key, c.body) /\ Known(c.key)
      <3>1. item.kind = "blocker" /\ Posting => IsRecord(key, item.body) /\ Known(key)
        BY <1>1, RestOfPlan
      <3> QED BY <2>5, <3>1
    <2>7. /\ IsSeq(comments')
          /\ \A n \in DOMAIN comments' :
               \/ n \in DOMAIN comments /\ comments'[n] = comments[n]
               \/ comments'[n] = c
      <3>1. IsSeq(comments)
        BY DEF BriefInv
      <3> HIDE DEF item, key
      <3> QED BY <2>1, <3>1, WrittenLast
    <2> HIDE DEF c, item, key
    <2>8. \A n \in DOMAIN comments' :
             FromAdversary(comments'[n]) => IsRecord(comments'[n].key, comments'[n].body)
      BY <2>6, <2>7 DEF BriefInv
    <2>9. Driven' => \A n \in DOMAIN comments' :
                        FromAdversary(comments'[n]) => Known(comments'[n].key)
      BY <2>2, <2>6, <2>7 DEF BriefInv
    <2> QED BY <1>1, <2>1, <2>2, <2>3, <2>4, <2>7, <2>8, <2>9 DEF BriefInv, Starts, Known
  <1> QED BY <1>2, <1>3

\* The output of a failed gate is no Adversary's.
LEMMA GateKeepsInv == BriefInv /\ QaFails => BriefInv'
  <1> SUFFICES ASSUME BriefInv, QaFails PROVE BriefInv'
    OBVIOUS
  <1>1. /\ comment_write("blocker", "implementer", <<<<"qa", round>>>>, <<>>)
        /\ prior_findings' = prior_findings
        /\ pc' \in {"idle", "drive"} /\ (pc' = "drive" => phase' = "implementing")
    BY DEF QaFails, locals
  <1>2. ~ Posting' /\ ~ Driven' /\ Starts'
    BY <1>1 DEF Posting, Driven, Starts, ImplementerRuns
  <1> DEFINE c == [kind |-> "blocker", role |-> "implementer", body |-> <<<<"qa", round>>>>,
                   key |-> <<>>]
  <1>3. ~ FromAdversary(c)
    BY DEF FromAdversary
  <1>4. /\ IsSeq(comments')
        /\ \A n \in DOMAIN comments' :
             \/ n \in DOMAIN comments /\ comments'[n] = comments[n]
             \/ comments'[n] = c
    BY <1>1, WrittenLast DEF BriefInv
  <1> HIDE DEF c
  <1>5. \A n \in DOMAIN comments' :
           FromAdversary(comments'[n]) => IsRecord(comments'[n].key, comments'[n].body)
    BY <1>3, <1>4 DEF BriefInv
  <1> QED BY <1>1, <1>2, <1>4, <1>5 DEF BriefInv, Starts

\* The row of a comment that is there.
LEMMA RowKeepsInv == BriefInv /\ record_posted => BriefInv'
  BY PassedKeepsInv DEF record_posted, row, BriefInv, Posting

\* BriefInv holds in every reachable state, of Adversaries that declare one
\* findings.jsonl.
THEOREM FindingsAreFollowed ==
  ASSUME \A d \in AdversaryOutputs : OneFindingsFile(d)
  PROVE  Spec => [](OutputInv /\ BriefInv)
  <1>1. Init => OutputInv /\ BriefInv
    <2> SUFFICES ASSUME Init PROVE OutputInv /\ BriefInv
      OBVIOUS
    <2>1. OutputInv
      BY DEF Init, OutputInv
    <2>2. IsSeq(comments) /\ IsSeq(prior_findings) /\ DOMAIN comments = {} /\ DOMAIN prior_findings = {}
      BY DEF Init, IsSeq
    <2>3. ~ Posting /\ ~ Driven /\ phase = "implementing"
      BY DEF Init, Posting, Driven
    <2> QED BY <2>1, <2>2, <2>3 DEF BriefInv
  <1>2. OutputInv /\ BriefInv /\ [Next]_vars => OutputInv' /\ BriefInv'
    <2> SUFFICES ASSUME OutputInv, BriefInv, [Next]_vars PROVE BriefInv'
      BY OutputKept
    <2>1. CASE DriveIssue
      BY <2>1, DriveKeepsInv
    <2>2. CASE ImplementerDone
      BY <2>2, ImplementerKeepsInv
    <2>3. CASE AdversaryDone
      BY <2>3, AdversaryKeepsInv
    <2>4. CASE PostItem
      BY <2>4, PostedIsKnown
    <2>5. CASE record_posted
      BY <2>5, RowKeepsInv
    <2>6. CASE QaFails
      BY <2>6, GateKeepsInv
    <2>7. CASE Crash
      BY <2>7, CrashForgets
    <2> QED BY <2>1, <2>2, <2>3, <2>4, <2>5, <2>6, <2>7, CarryingSteps DEF Next, Orchestrator
  <1> QED BY <1>1, <1>2, PTL DEF Spec

\* A worker is handed what its drive knows, and keeps it.
LEMMA BriefKept ==
  BriefInv /\ PostedFindingsAreBriefed /\ [Next]_vars => PostedFindingsAreBriefed'
  <1> SUFFICES ASSUME BriefInv, PostedFindingsAreBriefed, [Next]_vars
               PROVE  PostedFindingsAreBriefed'
    OBVIOUS
  <1> DEFINE Told(n) ==
        /\ \E line \in Range(brief.file) :
             IsFinding(line) /\ SameFinding(line[2], Original(comments[n]))
        /\ ImplementerRuns =>
             {<<"head", Original(comments[n]).severity, Head(Original(comments[n]).claim)>>,
              <<"location", Original(comments[n]).location>>} \subseteq Range(brief.task)
  <1>p. PostedFindingsAreBriefed <=>
          (WorkerRuns => \A n \in DOMAIN comments : FromAdversary(comments[n]) => Told(n))
    BY DEF PostedFindingsAreBriefed, FromAdversary
  <1>q. PostedFindingsAreBriefed' <=>
          (WorkerRuns' => \A n \in DOMAIN comments' : FromAdversary(comments'[n]) => Told(n)')
    BY DEF PostedFindingsAreBriefed, FromAdversary
  <1>k. ASSUME Driven, NEW n \in DOMAIN comments, FromAdversary(comments[n])
        PROVE  \E k \in DOMAIN prior_findings :
                  SameFinding(prior_findings[k], Original(comments[n]))
    BY <1>k DEF BriefInv, Known, Original
  <1>s. IsSeq(prior_findings) /\ \A k \in DOMAIN prior_findings : Sound(prior_findings[k])
    BY DEF BriefInv
  <1>1. CASE SpawnImplementer
    <2>1. /\ brief' = [file |-> render_prior_findings(prior_findings),
                       task |-> append_prior_findings(<<>>, prior_findings)]
          /\ comments' = comments /\ Driven
      BY <1>1 DEF SpawnImplementer, tracker, Driven
    <2>2. ASSUME NEW n \in DOMAIN comments', FromAdversary(comments'[n])
          PROVE  Told(n)'
      <3>1. PICK k \in DOMAIN prior_findings : SameFinding(prior_findings[k], Original(comments[n]))
        BY <1>k, <2>1, <2>2
      <3> QED BY <1>s, <2>1, <3>1, HandedOver
    <2> QED BY <1>q, <2>2
  <1>2. CASE SpawnAdversary
    <2>1. /\ brief' = render_inputs(<<>>, prior_findings)
          /\ comments' = comments /\ Driven /\ ~ ImplementerRuns'
      BY <1>2 DEF SpawnAdversary, tracker, Driven, ImplementerRuns
    <2>2. ASSUME NEW n \in DOMAIN comments', FromAdversary(comments'[n])
          PROVE  Told(n)'
      <3>1. PICK k \in DOMAIN prior_findings : SameFinding(prior_findings[k], Original(comments[n]))
        BY <1>k, <2>1, <2>2
      <3> QED BY <1>s, <2>1, <3>1, HandedOver
    <2> QED BY <1>q, <2>2
  <1>3. CASE WorkerFinishes \/ UNCHANGED vars
    <2>1. UNCHANGED <<comments, brief, pc, worker>>
      BY <1>3 DEF WorkerFinishes, tracker, locals, row, vars
    <2> QED BY <2>1 DEF PostedFindingsAreBriefed, WorkerRuns, ImplementerRuns
  <1>4. CASE ~ (SpawnImplementer \/ SpawnAdversary \/ WorkerFinishes \/ UNCHANGED vars)
    <2>1. pc' # "wait"
      BY <1>4 DEF Next, Orchestrator, Poison, CleanCrashedWorker, Translate, DriveIssue, WorkerFails,
         ImplementerDone, AdversaryDone, PostItem, record_posted, LabelFollowups, EmptyChange,
         EnterQaGate, QaPasses, QaFails, QaBroken, OnAdversaryFindings, Recover, ReplayEnds, Crash
    <2> QED BY <2>1 DEF PostedFindingsAreBriefed, WorkerRuns
  <1> QED BY <1>1, <1>2, <1>3, <1>4

\* Whatever Adversaries find and however often the process dies, each finding
\* that was posted is in what every later worker is given
\* (rehydrate_prior_findings, render_prior_findings, render_inputs).
THEOREM FindingsReachWorkers ==
  ASSUME \A d \in AdversaryOutputs : OneFindingsFile(d)
  PROVE  Spec => []PostedFindingsAreBriefed
  <1>1. Init => PostedFindingsAreBriefed
    BY DEF Init, PostedFindingsAreBriefed, WorkerRuns
  <1>2. Spec => [](OutputInv /\ BriefInv)
    BY FindingsAreFollowed
  <1> QED BY <1>1, <1>2, BriefKept, PTL DEF Spec

\* A clean round rests on a verified DONE with a findings.jsonl in which there is
\* no finding, whatever the workers leave (Findings::from_done).
THEOREM CleanRoundsAreReal == Spec => []CleanRoundsAreAttested
  <1>1. Init => OutputInv /\ CleanRoundsAreAttested
    BY DEF Init, OutputInv, CleanRoundsAreAttested
  <1> QED BY <1>1, OutputKept, CleanKept, PTL DEF Spec
=============================================================================
