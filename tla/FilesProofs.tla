---------------------------- MODULE FilesProofs ----------------------------
(***************************************************************************)
(* Proofs about components of MCFiles, for any values of the constants: the *)
(* tools that read and change files (FileTools), how they change a text in  *)
(* place, by the hunks of a patch or an edit (Patches), and the memory of   *)
(* conversations (Memory).                                                  *)
(***************************************************************************)
EXTENDS MCFiles, SequenceTheorems, FiniteSetTheorems, WellFoundedInduction, TLAPS

\* A step of the whole is a step of the one component that moves.
LEMMA OnePartMoves ==
  ASSUME [Next]_vars
  PROVE  /\ part' = part
         /\ part = "tools" => [Tool!Next]_toolVars
         /\ part = "patches" => [Patch!Next]_patchVars
         /\ part = "memory" => [Keeper!Next]_memoryVars
         /\ part = "transcripts" => [Transcript!Next]_transcriptVars
BY DEF vars, Next, WireSteps, KeeperSteps, TranscriptSteps, ToolSteps, PatchSteps

LEMMA LeastNatural ==
  ASSUME NEW S \in SUBSET Nat, S # {}
  PROVE  \E x \in S : \A y \in S : x <= y
<1>1. IsWellFoundedOn(OpToRel(<, Nat), Nat)
  BY NatLessThanWellFounded
<1>2. PICK x \in S : \A y \in S : ~ (<<y, x>> \in OpToRel(<, Nat))
  BY <1>1, WFMin
<1>3. \A y \in S : ~(y < x)
  BY <1>2 DEF OpToRel
<1> QED
  BY <1>3

-----------------------------------------------------------------------------
(* The ledger of what an agent has read: FileTools.                         *)

LEMMA WithoutTells ==
  ASSUME NEW l, Tool!LedgerTells(l), NEW p \in Paths
  PROVE  /\ Tool!LedgerTells(Tool!Without(l, p))
         /\ \A i \in DOMAIN Tool!Without(l, p) : Tool!Without(l, p)[i].path # p
         /\ \A q, t : q # p /\ Tool!Knows(l, q, t) => Tool!Knows(Tool!Without(l, p), q, t)
         /\ Len(Tool!Without(l, p)) <= Len(l)
         /\ Tool!Has(l, p) => Len(Tool!Without(l, p)) = Len(l) - 1
<1> DEFINE w == Tool!Without(l, p)
           k == Tool!Place(l, p)
<1>1. l \in Seq(Tool!Record) /\ Tool!OneOfEach(l)
  BY DEF Tool!LedgerTells
<1>2. DOMAIN l = 1 .. Len(l) /\ Len(l) \in Nat
  BY <1>1
<1>3. CASE ~Tool!Has(l, p)
  <2>1. w = l
    BY <1>3 DEF Tool!Without
  <2>2. \A i \in DOMAIN l : l[i].path # p
    BY <1>3 DEF Tool!Has, Tool!Range
  <2> QED
    <3> HIDE DEF w
    <3>1. Tool!LedgerTells(w) /\ Len(w) <= Len(l)
      BY <1>2, <2>1
    <3>2. \A i \in DOMAIN w : w[i].path # p
      BY <2>1, <2>2
    <3>3. \A q, t : q # p /\ Tool!Knows(l, q, t) => Tool!Knows(w, q, t)
      BY <2>1
    <3> QED
      BY <1>3, <3>1, <3>2, <3>3 DEF w
<1>4. CASE Tool!Has(l, p)
  <2>1. \E i \in DOMAIN l : l[i].path = p
    BY <1>4 DEF Tool!Has, Tool!Range
  <2>2. k \in DOMAIN l /\ l[k].path = p
    BY <2>1 DEF Tool!Place
  <2>3. w = SubSeq(l, 1, k - 1) \o SubSeq(l, k + 1, Len(l))
    BY <1>4 DEF Tool!Without
  <2>4. /\ w \in Seq(Tool!Record) /\ Len(w) = Len(l) - 1
        /\ \A i \in 1 .. Len(l) - 1 : w[i] = IF i < k THEN l[i] ELSE l[i + 1]
    <3>1. PICK a : a = SubSeq(l, 1, k - 1)
      OBVIOUS
    <3>2. PICK b : b = SubSeq(l, k + 1, Len(l))
      OBVIOUS
    <3>3. a \in Seq(Tool!Record) /\ Len(a) = k - 1 /\ \A i \in 1 .. k - 1 : a[i] = l[i]
      BY <1>1, <1>2, <2>2, <3>1
    <3>4. /\ b \in Seq(Tool!Record) /\ Len(b) = Len(l) - k
          /\ \A i \in 1 .. Len(l) - k : b[i] = l[i + k]
      BY <1>1, <1>2, <2>2, <3>2
    <3>5. w = a \o b
      BY <2>3, <3>1, <3>2
    <3> HIDE DEF w, k
    <3>6. w \in Seq(Tool!Record) /\ Len(w) = Len(a) + Len(b)
      BY <3>3, <3>4, <3>5, ConcatProperties
    <3>7. \A i \in 1 .. Len(l) - 1 : w[i] = IF i <= Len(a) THEN a[i] ELSE b[i - Len(a)]
      BY <1>2, <2>2, <3>3, <3>4, <3>5, ConcatProperties
    <3>8. k \in Nat /\ k >= 1 /\ k <= Len(l)
      BY <1>2, <2>2
    <3>9. \A i \in 1 .. Len(l) - 1 : w[i] = IF i < k THEN l[i] ELSE l[i + 1]
      <4> TAKE i \in 1 .. Len(l) - 1
      <4>1. CASE i < k
        BY <1>2, <3>3, <3>7, <3>8, <4>1
      <4>2. CASE ~(i < k)
        <5>1. i - (k - 1) \in 1 .. Len(l) - k /\ i - (k - 1) + k = i + 1
          BY <1>2, <3>8, <4>2
        <5> QED
          BY <1>2, <3>3, <3>4, <3>7, <3>8, <4>2, <5>1
      <4> QED
        BY <4>1, <4>2
    <3> QED
      BY <1>2, <3>3, <3>4, <3>6, <3>8, <3>9
  <2>5. DOMAIN w = 1 .. Len(l) - 1
    BY <2>4
  <2>6. \A i \in DOMAIN w : IF i < k THEN i \in DOMAIN l ELSE i + 1 \in DOMAIN l
    BY <1>2, <2>2, <2>5
  <2>7. Tool!OneOfEach(w)
    <3> SUFFICES ASSUME NEW i \in DOMAIN w, NEW j \in DOMAIN w, w[i].path = w[j].path
                 PROVE  i = j
      BY DEF Tool!OneOfEach
    <3>1. PICK a \in DOMAIN l : a = (IF i < k THEN i ELSE i + 1) /\ w[i] = l[a]
      BY <2>4, <2>5, <2>6
    <3>2. PICK b \in DOMAIN l : b = (IF j < k THEN j ELSE j + 1) /\ w[j] = l[b]
      BY <2>4, <2>5, <2>6
    <3>3. a = b
      BY <1>1, <3>1, <3>2 DEF Tool!OneOfEach
    <3> QED
      BY <1>2, <2>2, <2>5, <3>1, <3>2, <3>3
  <2>8. \A i \in DOMAIN w : \E a \in DOMAIN l : a # k /\ w[i] = l[a]
    <3> TAKE i \in DOMAIN w
    <3>1. CASE i < k
      BY <1>2, <2>2, <2>4, <2>5, <2>6, <3>1
    <3>2. CASE ~(i < k)
      BY <1>2, <2>2, <2>4, <2>5, <2>6, <3>2
    <3> QED
      BY <3>1, <3>2
  <2>9. \A a \in DOMAIN l : a # k => \E i \in DOMAIN w : w[i] = l[a]
    <3> SUFFICES ASSUME NEW a \in DOMAIN l, a # k
                 PROVE  \E i \in DOMAIN w : w[i] = l[a]
      OBVIOUS
    <3>1. CASE a < k
      BY <1>2, <2>2, <2>4, <2>5, <3>1
    <3>2. CASE ~(a < k)
      <4>1. a - 1 \in DOMAIN w /\ ~(a - 1 < k) /\ a - 1 + 1 = a
        BY <1>2, <2>2, <2>5, <3>2
      <4> QED
        BY <2>4, <2>5, <4>1
    <3> QED
      BY <3>1, <3>2
  <2>10. \A i \in DOMAIN w : w[i].path # p
    BY <1>1, <2>2, <2>8 DEF Tool!OneOfEach
  <2>11. \A q, t : q # p /\ Tool!Knows(l, q, t) => Tool!Knows(w, q, t)
    BY <2>2, <2>9 DEF Tool!Knows
  <2>12. \A i \in DOMAIN w : Tool!RecordTells(w[i])
    BY <2>8 DEF Tool!LedgerTells
  <2> QED
    BY <1>2, <2>4, <2>7, <2>10, <2>11, <2>12 DEF Tool!LedgerTells
<1> QED
  BY <1>3, <1>4

LEMMA BoundedTells ==
  ASSUME NEW l, Tool!LedgerTells(l), MaxRecords \in Nat
  PROVE  /\ Tool!LedgerTells(Tool!Bounded(l)) /\ Len(Tool!Bounded(l)) <= MaxRecords
         /\ Len(l) <= MaxRecords =>
              \A q, t : Tool!Knows(l, q, t) => Tool!Knows(Tool!Bounded(l), q, t)
<1>1. l \in Seq(Tool!Record) /\ Tool!OneOfEach(l)
  BY DEF Tool!LedgerTells
<1>2. DOMAIN l = 1 .. Len(l) /\ Len(l) \in Nat
  BY <1>1
<1>3. PICK drop : Tool!Bounded(l) =
        LET cut == [i \in DOMAIN l |-> IF i <= drop THEN [l[i] EXCEPT !.text = None] ELSE l[i]]
        IN IF Len(cut) > MaxRecords THEN SubSeq(cut, Len(cut) - MaxRecords + 1, Len(cut)) ELSE cut
  BY DEF Tool!Bounded
<1>4. PICK cut : cut = [i \in DOMAIN l |-> IF i <= drop THEN [l[i] EXCEPT !.text = None] ELSE l[i]]
  OBVIOUS
<1>5. \A i \in DOMAIN l : l[i] \in Tool!Record /\ Tool!RecordTells(l[i])
  BY <1>1 DEF Tool!LedgerTells
<1>6. \A i \in DOMAIN l : /\ cut[i] \in Tool!Record /\ cut[i].path = l[i].path
                         /\ cut[i].seen = l[i].seen /\ Tool!RecordTells(cut[i])
  <2> TAKE i \in DOMAIN l
  <2>1. cut[i] = l[i] \/ cut[i] = [l[i] EXCEPT !.text = None]
    BY <1>4
  <2>2. l[i] \in Tool!Record /\ Tool!RecordTells(l[i])
    BY <1>5
  <2>3. CASE cut[i] = l[i]
    BY <2>2, <2>3
  <2>4. CASE cut[i] = [l[i] EXCEPT !.text = None]
    <3>1. [l[i] EXCEPT !.text = None] \in Tool!Record
      BY <2>2 DEF Tool!Record
    <3>2. /\ cut[i].path = l[i].path /\ cut[i].seen = l[i].seen /\ cut[i].stamp = l[i].stamp
          /\ cut[i].text = None /\ cut[i].full = l[i].full
      BY <2>2, <2>4 DEF Tool!Record
    <3> QED
      BY <2>2, <2>4, <3>1, <3>2 DEF Tool!RecordTells
  <2> QED
    BY <2>1, <2>3, <2>4
<1>7. DOMAIN cut = 1 .. Len(l)
  BY <1>2, <1>4
<1>8. cut \in Seq(Tool!Record) /\ Len(cut) = Len(l)
  BY <1>2, <1>4, <1>6, <1>7
<1>9. CASE ~(Len(cut) > MaxRecords)
  <2>1. Tool!Bounded(l) = cut
    BY <1>3, <1>4, <1>9
  <2>2. Tool!OneOfEach(cut)
    BY <1>1, <1>2, <1>6, <1>7 DEF Tool!OneOfEach
  <2>3. \A q, t : Tool!Knows(l, q, t) => Tool!Knows(cut, q, t)
    BY <1>2, <1>6, <1>7 DEF Tool!Knows
  <2> QED
    BY <1>2, <1>6, <1>7, <1>8, <1>9, <2>1, <2>2, <2>3 DEF Tool!LedgerTells
<1>10. CASE Len(cut) > MaxRecords
  <2>1. PICK b : b = SubSeq(cut, Len(cut) - MaxRecords + 1, Len(cut))
    OBVIOUS
  <2>2. Tool!Bounded(l) = b
    BY <1>3, <1>4, <1>10, <2>1
  <2>3. /\ b \in Seq(Tool!Record) /\ Len(b) = MaxRecords
        /\ \A i \in 1 .. MaxRecords : b[i] = cut[i + (Len(l) - MaxRecords)]
    BY <1>2, <1>8, <1>10, <2>1
  <2>4. DOMAIN b = 1 .. MaxRecords
    BY <2>3
  <2>5. \A i \in 1 .. MaxRecords : i + (Len(l) - MaxRecords) \in DOMAIN l
    BY <1>2, <1>8, <1>10
  <2>6. Tool!OneOfEach(b)
    <3> SUFFICES ASSUME NEW i \in 1 .. MaxRecords, NEW j \in 1 .. MaxRecords, b[i].path = b[j].path
                 PROVE  i = j
      BY <2>4 DEF Tool!OneOfEach
    <3>1. PICK m : m = i + (Len(l) - MaxRecords) /\ m \in DOMAIN l
      BY <2>5
    <3>2. PICK n : n = j + (Len(l) - MaxRecords) /\ n \in DOMAIN l
      BY <2>5
    <3>3. b[i] = cut[m] /\ b[j] = cut[n]
      BY <2>3, <3>1, <3>2
    <3>4. l[m].path = l[n].path
      BY <1>6, <3>1, <3>2, <3>3
    <3>5. m = n
      BY <1>1, <3>1, <3>2, <3>4 DEF Tool!OneOfEach
    <3> QED
      BY <1>2, <3>1, <3>2, <3>5
  <2>7. \A i \in DOMAIN b : Tool!RecordTells(b[i])
    BY <1>6, <2>3, <2>4, <2>5
  <2> QED
    BY <1>2, <1>8, <1>10, <2>2, <2>3, <2>6, <2>7 DEF Tool!LedgerTells
<1> QED
  BY <1>9, <1>10

\* A record that is used becomes the latest.
LEMMA AppendTells ==
  ASSUME NEW l, Tool!LedgerTells(l), NEW r \in Tool!Record, Tool!RecordTells(r)
  PROVE  LET a == Append(Tool!Without(l, r.path), r) IN
         /\ Tool!LedgerTells(a)
         /\ Tool!Has(l, r.path) => Len(a) = Len(l)
         /\ \A q, t : q # r.path /\ Tool!Knows(l, q, t) => Tool!Knows(a, q, t)
         /\ Tool!Knows(a, r.path, r.seen)
<1>1. r.path \in Paths
  BY DEF Tool!Record
<1>2. PICK w : w = Tool!Without(l, r.path)
  OBVIOUS
<1>3. /\ Tool!LedgerTells(w)
      /\ \A i \in DOMAIN w : w[i].path # r.path
      /\ \A q, t : q # r.path /\ Tool!Knows(l, q, t) => Tool!Knows(w, q, t)
      /\ Tool!Has(l, r.path) => Len(w) = Len(l) - 1
  BY <1>1, <1>2, WithoutTells
<1>4. w \in Seq(Tool!Record) /\ DOMAIN w = 1 .. Len(w) /\ Len(w) \in Nat
  BY <1>3 DEF Tool!LedgerTells
<1>5. PICK a : a = Append(w, r)
  OBVIOUS
<1>6. /\ a \in Seq(Tool!Record) /\ Len(a) = Len(w) + 1 /\ DOMAIN a = 1 .. Len(w) + 1
      /\ a[Len(w) + 1] = r /\ \A i \in DOMAIN w : i \in DOMAIN a /\ a[i] = w[i]
  BY <1>4, <1>5
<1>7. \A i \in DOMAIN a : i \in DOMAIN w \/ i = Len(w) + 1
  BY <1>4, <1>6
<1>8. Tool!OneOfEach(a)
  BY <1>3, <1>6, <1>7 DEF Tool!OneOfEach, Tool!LedgerTells
<1>9. \A i \in DOMAIN a : Tool!RecordTells(a[i])
  BY <1>3, <1>6, <1>7 DEF Tool!LedgerTells
<1>10. Tool!LedgerTells(a)
  BY <1>6, <1>8, <1>9 DEF Tool!LedgerTells
<1>11. l \in Seq(Tool!Record) /\ Len(l) \in Nat
  BY DEF Tool!LedgerTells
<1>12. \A q, t : Tool!Knows(w, q, t) => Tool!Knows(a, q, t)
  BY <1>6 DEF Tool!Knows
<1>13. Tool!Knows(a, r.path, r.seen)
  BY <1>4, <1>6 DEF Tool!Knows
<1>14. Tool!Has(l, r.path) => Len(a) = Len(l)
  BY <1>3, <1>4, <1>6, <1>11
<1>15. \A q, t : q # r.path /\ Tool!Knows(l, q, t) => Tool!Knows(a, q, t)
  BY <1>3, <1>12
<1> QED
  BY <1>2, <1>5, <1>10, <1>13, <1>14, <1>15

LEMMA PutTells ==
  ASSUME NEW l, Tool!LedgerTells(l), NEW r \in Tool!Record, Tool!RecordTells(r)
  PROVE  /\ Tool!LedgerTells(Tool!Put(l, r)) /\ Len(Tool!Put(l, r)) <= MaxRecords
         /\ Len(l) <= MaxRecords /\ Tool!Has(l, r.path) =>
              /\ \A q, t : q # r.path /\ Tool!Knows(l, q, t) => Tool!Knows(Tool!Put(l, r), q, t)
              /\ Tool!Knows(Tool!Put(l, r), r.path, r.seen)
<1>1. PICK a : a = Append(Tool!Without(l, r.path), r)
  OBVIOUS
<1>2. /\ Tool!LedgerTells(a)
      /\ Tool!Has(l, r.path) => Len(a) = Len(l)
      /\ \A q, t : q # r.path /\ Tool!Knows(l, q, t) => Tool!Knows(a, q, t)
      /\ Tool!Knows(a, r.path, r.seen)
  BY <1>1, AppendTells
<1>3. Tool!Put(l, r) = Tool!Bounded(a)
  BY <1>1 DEF Tool!Put
<1>4. MaxRecords \in Nat
  BY ToolParameters DEF Tool!ToolAssumption
<1>5. /\ Tool!LedgerTells(Tool!Bounded(a)) /\ Len(Tool!Bounded(a)) <= MaxRecords
      /\ Len(a) <= MaxRecords =>
           \A q, t : Tool!Knows(a, q, t) => Tool!Knows(Tool!Bounded(a), q, t)
  BY <1>2, <1>4, BoundedTells
<1> QED
  BY <1>2, <1>3, <1>5

\* What is known of a path is one text, the one its record has.
LEMMA OfIsTheRecord ==
  ASSUME NEW l, Tool!LedgerTells(l), NEW p, Tool!Has(l, p)
  PROVE  /\ Tool!Of(l, p) \in Tool!Record /\ Tool!Of(l, p).path = p /\ Tool!RecordTells(Tool!Of(l, p))
         /\ Tool!Knows(l, p, Tool!Of(l, p).seen)
         /\ \A t : Tool!Knows(l, p, t) => t = Tool!Of(l, p).seen
<1>1. \E r \in Tool!Range(l) : r.path = p
  BY DEF Tool!Has
<1>2. Tool!Of(l, p) \in Tool!Range(l) /\ Tool!Of(l, p).path = p
  BY <1>1 DEF Tool!Of
<1>3. PICK i \in DOMAIN l : Tool!Of(l, p) = l[i]
  BY <1>2 DEF Tool!Range
<1>4. l \in Seq(Tool!Record)
  BY DEF Tool!LedgerTells
<1>5. l[i] \in Tool!Record /\ Tool!RecordTells(l[i])
  BY <1>3, <1>4 DEF Tool!LedgerTells
<1>6. Tool!Knows(l, p, Tool!Of(l, p).seen)
  BY <1>2, <1>3 DEF Tool!Knows
<1>7. ASSUME NEW t, Tool!Knows(l, p, t) PROVE t = Tool!Of(l, p).seen
  <2>1. PICK j \in DOMAIN l : l[j].path = p /\ l[j].seen = t
    BY <1>7 DEF Tool!Knows
  <2>2. j = i
    BY <1>2, <1>3, <2>1 DEF Tool!LedgerTells, Tool!OneOfEach
  <2> QED
    BY <1>3, <2>1, <2>2
<1> QED
  BY <1>2, <1>3, <1>5, <1>6, <1>7

LEMMA KnowsIsOne ==
  ASSUME NEW l, Tool!LedgerTells(l), NEW p, NEW t, NEW u, Tool!Knows(l, p, t), Tool!Knows(l, p, u)
  PROVE  t = u
<1>1. PICK i \in DOMAIN l : l[i].path = p /\ l[i].seen = t
  BY DEF Tool!Knows
<1>2. PICK j \in DOMAIN l : l[j].path = p /\ l[j].seen = u
  BY DEF Tool!Knows
<1>3. i = j
  BY <1>1, <1>2 DEF Tool!LedgerTells, Tool!OneOfEach
<1> QED
  BY <1>1, <1>2, <1>3

\* What the check of a path leaves true, and says when it passes.
LEMMA CheckedOneTells ==
  ASSUME NEW x, Tool!LedgerTells(x.l), Len(x.l) <= MaxRecords, NEW p \in Paths,
         stamp \in [Paths -> Nat]
  PROVE  LET y == Tool!CheckedOne(x, p) IN
         /\ Tool!LedgerTells(y.l) /\ Len(y.l) <= MaxRecords
         /\ \A q, t : Tool!Knows(x.l, q, t) => Tool!Knows(y.l, q, t)
         /\ y.ok => x.ok /\ disk[p] # None /\ (p \in raced \/ Tool!Knows(y.l, p, disk[p]))
<1>1. PICK y : y = Tool!CheckedOne(x, p)
  OBVIOUS
<1>2. CASE ~(x.ok /\ Tool!Fresh(x.l, p))
  <2>1. y = [l |-> x.l, ok |-> FALSE]
    BY <1>1, <1>2 DEF Tool!CheckedOne
  <2>2. y.l = x.l /\ ~y.ok
    BY <2>1
  <2> QED
    BY <1>1, <2>2
<1>3. CASE x.ok /\ Tool!Fresh(x.l, p)
  <2>1. y = [l |-> Tool!Refreshed(x.l, p), ok |-> TRUE]
    BY <1>1, <1>3 DEF Tool!CheckedOne
  <2>2. y.l = Tool!Refreshed(x.l, p) /\ y.ok
    BY <2>1
  <2>3. PICK o : o = Tool!Of(x.l, p)
    OBVIOUS
  <2>4. Tool!Has(x.l, p) /\ disk[p] # None /\ (stamp[p] <= o.stamp \/ (o.full /\ o.text = disk[p]))
    BY <1>3, <2>3 DEF Tool!Fresh
  <2>5. /\ o \in Tool!Record /\ o.path = p /\ Tool!RecordTells(o) /\ Tool!Knows(x.l, p, o.seen)
        /\ \A t : Tool!Knows(x.l, p, t) => t = o.seen
    BY <2>3, <2>4, OfIsTheRecord
  <2>6. o.stamp \in Nat /\ stamp[p] \in Nat /\ o.stamp <= stamp[p]
    BY <2>5 DEF Tool!Record, Tool!RecordTells
  <2>7. p \in raced \/ o.seen = disk[p]
    <3>1. CASE o.stamp = stamp[p]
      BY <2>5, <3>1 DEF Tool!RecordTells
    <3>2. CASE o.stamp # stamp[p]
      <4>1. o.full /\ o.text = disk[p]
        BY <2>4, <2>6, <3>2
      <4> QED
        BY <2>4, <2>5, <4>1 DEF Tool!RecordTells
    <3> QED
      BY <3>1, <3>2
  <2>8. PICK r : r = [o EXCEPT !.stamp = IF @ < stamp[p] THEN stamp[p] ELSE @]
    OBVIOUS
  <2>9. /\ r \in Tool!Record /\ r.path = p /\ r.seen = o.seen /\ r.text = o.text /\ r.full = o.full
        /\ r.stamp = stamp[p]
    <3>1. r = [o EXCEPT !.stamp = stamp[p]]
      BY <2>5, <2>6, <2>8 DEF Tool!Record
    <3> QED
      BY <2>5, <2>6, <3>1 DEF Tool!Record
  <2>10. Tool!RecordTells(r)
    BY <2>5, <2>6, <2>7, <2>9 DEF Tool!RecordTells
  <2>11. y.l = Tool!Put(x.l, r)
    BY <2>2, <2>3, <2>8 DEF Tool!Refreshed
  <2>12. /\ Tool!LedgerTells(y.l) /\ Len(y.l) <= MaxRecords
         /\ \A q, t : q # p /\ Tool!Knows(x.l, q, t) => Tool!Knows(y.l, q, t)
         /\ Tool!Knows(y.l, p, o.seen)
    BY <2>4, <2>9, <2>10, <2>11, PutTells
  <2>13. ASSUME NEW q, NEW t, Tool!Knows(x.l, q, t) PROVE Tool!Knows(y.l, q, t)
    <3>1. CASE q = p
      BY <2>5, <2>12, <2>13, <3>1
    <3>2. CASE q # p
      BY <2>12, <2>13, <3>2
    <3> QED
      BY <3>1, <3>2
  <2> QED
    BY <1>1, <1>3, <2>4, <2>7, <2>12, <2>13
<1> QED
  BY <1>2, <1>3

AreChecks(f, l, ps, asked) ==
  /\ f[0] = [l |-> l, ok |-> TRUE]
  /\ \A i \in 1 .. Len(ps) :
       f[i] = IF ps[i] \in asked THEN Tool!CheckedOne(f[i - 1], ps[i]) ELSE f[i - 1]
  /\ Tool!Checked(l, ps, asked) = f[Len(ps)]

\* The ledgers after each of the checks exist: one is made from the one before.
LEMMA CheckedIsStepwise ==
  ASSUME NEW l, NEW ps, Len(ps) \in Nat, NEW asked
  PROVE  \E f : AreChecks(f, l, ps, asked)
<1> DEFINE Is(f, n) == f = [i \in 0 .. n |->
                          IF i = 0 THEN [l |-> l, ok |-> TRUE]
                          ELSE IF ps[i] \in asked THEN Tool!CheckedOne(f[i - 1], ps[i]) ELSE f[i - 1]]
           Missing == {n \in Nat : ~ \E f : Is(f, n)}
<1>1. Missing = {}
  <2> SUFFICES ASSUME Missing # {} PROVE FALSE
    OBVIOUS
  <2>1. PICK n \in Missing : \A m \in Missing : n <= m
    BY LeastNatural
  <2>2. CASE n = 0
    <3>1. PICK g : g = [i \in 0 .. 0 |-> [l |-> l, ok |-> TRUE]]
      OBVIOUS
    <3>2. Is(g, 0)
      BY <3>1
    <3> QED
      BY <2>1, <2>2, <3>2
  <2>3. CASE n # 0
    <3> HIDE DEF Missing
    <3>0. n \in Nat
      BY <2>1 DEF Missing
    <3>1. n \in Nat /\ n - 1 \in Nat /\ n - 1 \notin Missing
      BY <2>1, <2>3, <3>0
    <3> USE DEF Missing
    <3>2. PICK g : Is(g, n - 1)
      BY <3>1
    <3>3. PICK h : h = [i \in 0 .. n |-> IF i = n THEN IF ps[n] \in asked THEN Tool!CheckedOne(g[n - 1], ps[n]) ELSE g[n - 1]
                                        ELSE g[i]]
      OBVIOUS
    <3>4. \A i \in 0 .. n - 1 : i \in 0 .. n /\ h[i] = g[i]
      BY <3>1, <3>3
    <3>5. n \in 0 .. n /\ h[n] = IF ps[n] \in asked THEN Tool!CheckedOne(g[n - 1], ps[n]) ELSE g[n - 1]
      BY <3>1, <3>3
    <3>6. h[n - 1] = g[n - 1]
      BY <3>1, <3>4
    <3>7. ASSUME NEW i \in 0 .. n
          PROVE  h[i] = IF i = 0 THEN [l |-> l, ok |-> TRUE]
                        ELSE IF ps[i] \in asked THEN Tool!CheckedOne(h[i - 1], ps[i]) ELSE h[i - 1]
      <4>1. CASE i = n
        BY <2>3, <3>5, <3>6, <4>1
      <4>2. CASE i # n /\ i = 0
        <5>1. h[i] = g[i] /\ i \in 0 .. n - 1
          BY <3>1, <3>4, <4>2
        <5> QED
          BY <3>2, <4>2, <5>1
      <4>3. CASE i # n /\ i # 0
        <5>1. i \in 0 .. n - 1 /\ i - 1 \in 0 .. n - 1
          BY <3>1, <4>3
        <5>2. h[i] = g[i] /\ h[i - 1] = g[i - 1]
          BY <3>4, <5>1
        <5>3. g[i] = IF ps[i] \in asked THEN Tool!CheckedOne(g[i - 1], ps[i]) ELSE g[i - 1]
          BY <3>2, <4>3, <5>1
        <5> QED
          BY <4>3, <5>2, <5>3
      <4> QED
        BY <4>1, <4>2, <4>3
    <3>8. Is(h, n)
      BY <3>3, <3>7
    <3> QED
      BY <2>1, <3>8
  <2> QED
    BY <2>2, <2>3
<1>2. PICK g : Is(g, Len(ps))
  BY <1>1
<1>3. PICK f : f = CHOOSE e : Is(e, Len(ps))
  OBVIOUS
<1>4. Is(f, Len(ps))
  BY <1>2, <1>3
<1>5. Tool!Checked(l, ps, asked) = f[Len(ps)]
  BY <1>3 DEF Tool!Checked
<1>6. 0 \in 0 .. Len(ps) /\ \A i \in 1 .. Len(ps) : i \in 0 .. Len(ps) /\ i # 0
  OBVIOUS
<1>7. f[0] = [l |-> l, ok |-> TRUE]
  BY <1>4, <1>6
<1>8. \A i \in 1 .. Len(ps) :
         f[i] = IF ps[i] \in asked THEN Tool!CheckedOne(f[i - 1], ps[i]) ELSE f[i - 1]
  BY <1>4, <1>6
<1> QED
  BY <1>5, <1>7, <1>8 DEF AreChecks

\* What a sequence of checks leaves true.
LEMMA CheckedTells ==
  ASSUME NEW l, Tool!LedgerTells(l), Len(l) <= MaxRecords, NEW ps \in Seq(Paths), NEW asked,
         stamp \in [Paths -> Nat]
  PROVE  LET y == Tool!Checked(l, ps, asked) IN
         /\ Tool!LedgerTells(y.l) /\ Len(y.l) <= MaxRecords
         /\ \A q, t : Tool!Knows(l, q, t) => Tool!Knows(y.l, q, t)
         /\ y.ok => \A k \in 1 .. Len(ps) : ps[k] \in asked =>
                     disk[ps[k]] # None /\ (ps[k] \in raced \/ Tool!Knows(y.l, ps[k], disk[ps[k]]))
<1>1. Len(ps) \in Nat /\ \A k \in 1 .. Len(ps) : ps[k] \in Paths
  OBVIOUS
<1>a. PICK f : AreChecks(f, l, ps, asked)
  BY <1>1, CheckedIsStepwise
<1>2. /\ f[0] = [l |-> l, ok |-> TRUE]
      /\ \A i \in 1 .. Len(ps) :
           f[i] = IF ps[i] \in asked THEN Tool!CheckedOne(f[i - 1], ps[i]) ELSE f[i - 1]
      /\ Tool!Checked(l, ps, asked) = f[Len(ps)]
  BY <1>a DEF AreChecks
<1> DEFINE Good(i) ==
             /\ Tool!LedgerTells(f[i].l) /\ Len(f[i].l) <= MaxRecords
             /\ \A q, t : Tool!Knows(l, q, t) => Tool!Knows(f[i].l, q, t)
             /\ f[i].ok => \A k \in 1 .. i : ps[k] \in asked =>
                     disk[ps[k]] # None /\ (ps[k] \in raced \/ Tool!Knows(f[i].l, ps[k], disk[ps[k]]))
           Bad == {i \in 0 .. Len(ps) : ~Good(i)}
<1>3. Good(0)
  <2>1. f[0].l = l
    BY <1>1, <1>2
  <2> QED
    BY <2>1
<1>4. ASSUME NEW i \in 0 .. Len(ps), i # 0, Good(i - 1) PROVE Good(i)
  <2>1. i \in Nat /\ i - 1 \in Nat /\ i \in 1 .. Len(ps)
    BY <1>1, <1>4
  <2>2. f[i] = IF ps[i] \in asked THEN Tool!CheckedOne(f[i - 1], ps[i]) ELSE f[i - 1]
    BY <1>2, <2>1
  <2>3. \A k \in 1 .. i : k \in 1 .. i - 1 \/ k = i
    BY <2>1
  <2>4. CASE ps[i] \notin asked
    <3>1. f[i] = f[i - 1]
      BY <2>2, <2>4
    <3> QED
      BY <1>4, <2>3, <2>4, <3>1
  <2>5. CASE ps[i] \in asked
    <3>1. PICK x : x = f[i - 1]
      OBVIOUS
    <3>2. PICK y : y = f[i]
      OBVIOUS
    <3>3. y = Tool!CheckedOne(x, ps[i])
      BY <2>2, <2>5, <3>1, <3>2
    <3>4. Tool!LedgerTells(x.l) /\ Len(x.l) <= MaxRecords
      BY <1>4, <3>1
    <3>5. ps[i] \in Paths
      BY <1>1, <2>1
    <3>6. /\ Tool!LedgerTells(y.l) /\ Len(y.l) <= MaxRecords
          /\ \A q, t : Tool!Knows(x.l, q, t) => Tool!Knows(y.l, q, t)
          /\ y.ok => x.ok /\ disk[ps[i]] # None /\ (ps[i] \in raced \/ Tool!Knows(y.l, ps[i], disk[ps[i]]))
      BY <3>3, <3>4, <3>5, CheckedOneTells
    <3>7. \A q, t : Tool!Knows(l, q, t) => Tool!Knows(y.l, q, t)
      BY <1>4, <3>1, <3>6
    <3>8. ASSUME y.ok, NEW k \in 1 .. i, ps[k] \in asked
          PROVE  disk[ps[k]] # None /\ (ps[k] \in raced \/ Tool!Knows(y.l, ps[k], disk[ps[k]]))
      BY <1>4, <2>3, <3>1, <3>6, <3>8
    <3> QED
      BY <3>2, <3>6, <3>7, <3>8
  <2> QED
    BY <2>4, <2>5
<1>5. Bad = {}
  <2> SUFFICES ASSUME Bad # {} PROVE FALSE
    OBVIOUS
  <2>1. Bad \in SUBSET Nat
    BY <1>1
  <2>2. PICK n \in Bad : \A m \in Bad : n <= m
    BY <2>1, LeastNatural
  <2> HIDE DEF Good
  <2>3. n \in 0 .. Len(ps) /\ ~Good(n)
    BY <2>2
  <2>4. n # 0
    BY <1>3, <2>3
  <2>5. n - 1 \in 0 .. Len(ps) /\ n \in Nat
    BY <1>1, <2>3, <2>4
  <2>6. n - 1 \notin Bad
    BY <2>2, <2>5
  <2>7. Good(n - 1)
    BY <2>5, <2>6
  <2> QED
    BY <1>4, <2>3, <2>4, <2>7
<1>6. Good(Len(ps))
  <2> HIDE DEF Good
  <2> QED
    BY <1>1, <1>5
<1> QED
  BY <1>2, <1>6

LEMMA RecordedOneTells ==
  ASSUME NEW l, Tool!LedgerTells(l), Len(l) <= MaxRecords, NEW c \in Tool!ChangeOf,
         stamp \in [Paths -> Nat], c.path \in raced \/ disk[c.path] = c.new
  PROVE  Tool!LedgerTells(Tool!RecordedOne(l, c)) /\ Len(Tool!RecordedOne(l, c)) <= MaxRecords
<1>1. CASE c.new = None \/ disk[c.path] = None
  BY <1>1 DEF Tool!RecordedOne
<1>2. CASE ~(c.new = None \/ disk[c.path] = None)
  <2>1. PICK r : r = Tool!Read(c.path, c.new, FALSE)
    OBVIOUS
  <2>2. c.path \in Paths /\ c.new \in Tool!Whole /\ stamp[c.path] \in Nat
    BY <1>2 DEF Tool!ChangeOf
  <2>3. /\ r = [path |-> c.path, stamp |-> stamp[c.path], full |-> TRUE, partial |-> FALSE,
                text |-> c.new, seen |-> c.new]
    BY <2>1 DEF Tool!Read
  <2>4. r \in Tool!Record
    BY <2>2, <2>3 DEF Tool!Record
  <2>5. Tool!RecordTells(r)
    BY <2>2, <2>3 DEF Tool!RecordTells
  <2>6. Tool!RecordedOne(l, c) = Tool!Put(l, r)
    BY <1>2, <2>1 DEF Tool!RecordedOne
  <2> QED
    BY <2>4, <2>5, <2>6, PutTells
<1> QED
  BY <1>1, <1>2

AreRecords(f, l, cs) ==
  /\ f[0] = l
  /\ \A i \in 1 .. Len(cs) : f[i] = Tool!RecordedOne(f[i - 1], cs[i])
  /\ Tool!Recorded(l, cs) = f[Len(cs)]

LEMMA RecordedIsStepwise ==
  ASSUME NEW l, NEW cs, Len(cs) \in Nat
  PROVE  \E f : AreRecords(f, l, cs)
<1> DEFINE Is(f, n) == f = [i \in 0 .. n |-> IF i = 0 THEN l ELSE Tool!RecordedOne(f[i - 1], cs[i])]
           Missing == {n \in Nat : ~ \E f : Is(f, n)}
<1>1. Missing = {}
  <2> SUFFICES ASSUME Missing # {} PROVE FALSE
    OBVIOUS
  <2>1. PICK n \in Missing : \A m \in Missing : n <= m
    BY LeastNatural
  <2>2. CASE n = 0
    <3>1. PICK g : g = [i \in 0 .. 0 |-> l]
      OBVIOUS
    <3>2. Is(g, 0)
      BY <3>1
    <3> QED
      BY <2>1, <2>2, <3>2
  <2>3. CASE n # 0
    <3> HIDE DEF Missing
    <3>0. n \in Nat
      BY <2>1 DEF Missing
    <3>1. n \in Nat /\ n - 1 \in Nat /\ n - 1 \notin Missing
      BY <2>1, <2>3, <3>0
    <3> USE DEF Missing
    <3>2. PICK g : Is(g, n - 1)
      BY <3>1
    <3>3. PICK h : h = [i \in 0 .. n |-> IF i = n THEN Tool!RecordedOne(g[n - 1], cs[n]) ELSE g[i]]
      OBVIOUS
    <3>4. \A i \in 0 .. n - 1 : i \in 0 .. n /\ h[i] = g[i]
      BY <3>1, <3>3
    <3>5. n \in 0 .. n /\ h[n] = Tool!RecordedOne(g[n - 1], cs[n])
      BY <3>1, <3>3
    <3>6. h[n - 1] = g[n - 1]
      BY <3>1, <3>4
    <3>7. ASSUME NEW i \in 0 .. n
          PROVE  h[i] = IF i = 0 THEN l ELSE Tool!RecordedOne(h[i - 1], cs[i])
      <4>1. CASE i = n
        BY <2>3, <3>5, <3>6, <4>1
      <4>2. CASE i # n /\ i = 0
        <5>1. h[i] = g[i] /\ i \in 0 .. n - 1
          BY <3>1, <3>4, <4>2
        <5> QED
          BY <3>2, <4>2, <5>1
      <4>3. CASE i # n /\ i # 0
        <5>1. i \in 0 .. n - 1 /\ i - 1 \in 0 .. n - 1
          BY <3>1, <4>3
        <5>2. h[i] = g[i] /\ h[i - 1] = g[i - 1]
          BY <3>4, <5>1
        <5>3. g[i] = Tool!RecordedOne(g[i - 1], cs[i])
          BY <3>2, <4>3, <5>1
        <5> QED
          BY <4>3, <5>2, <5>3
      <4> QED
        BY <4>1, <4>2, <4>3
    <3>8. Is(h, n)
      BY <3>3, <3>7
    <3> QED
      BY <2>1, <3>8
  <2> QED
    BY <2>2, <2>3
<1>2. PICK g : Is(g, Len(cs))
  BY <1>1
<1>3. PICK f : f = CHOOSE e : Is(e, Len(cs))
  OBVIOUS
<1>4. Is(f, Len(cs))
  BY <1>2, <1>3
<1>5. Tool!Recorded(l, cs) = f[Len(cs)]
  BY <1>3 DEF Tool!Recorded
<1>6. 0 \in 0 .. Len(cs) /\ \A i \in 1 .. Len(cs) : i \in 0 .. Len(cs) /\ i # 0
  OBVIOUS
<1>7. f[0] = l
  BY <1>4, <1>6
<1>8. \A i \in 1 .. Len(cs) : f[i] = Tool!RecordedOne(f[i - 1], cs[i])
  BY <1>4, <1>6
<1> QED
  BY <1>5, <1>7, <1>8 DEF AreRecords

LEMMA RecordedTells ==
  ASSUME NEW l, Tool!LedgerTells(l), Len(l) <= MaxRecords, NEW cs \in Seq(Tool!ChangeOf),
         stamp \in [Paths -> Nat],
         \A i \in DOMAIN cs : cs[i].path \in raced \/ disk[cs[i].path] = cs[i].new
  PROVE  Tool!LedgerTells(Tool!Recorded(l, cs)) /\ Len(Tool!Recorded(l, cs)) <= MaxRecords
<1>1. Len(cs) \in Nat /\ DOMAIN cs = 1 .. Len(cs) /\ \A k \in 1 .. Len(cs) : cs[k] \in Tool!ChangeOf
  OBVIOUS
<1>a. PICK f : AreRecords(f, l, cs)
  BY <1>1, RecordedIsStepwise
<1>2. /\ f[0] = l
      /\ \A i \in 1 .. Len(cs) : f[i] = Tool!RecordedOne(f[i - 1], cs[i])
      /\ Tool!Recorded(l, cs) = f[Len(cs)]
  BY <1>a DEF AreRecords
<1> DEFINE Good(i) == Tool!LedgerTells(f[i]) /\ Len(f[i]) <= MaxRecords
           Bad == {i \in 0 .. Len(cs) : ~Good(i)}
<1>3. Good(0)
  BY <1>2
<1>4. ASSUME NEW i \in 1 .. Len(cs), Good(i - 1) PROVE Good(i)
  <2>1. f[i] = Tool!RecordedOne(f[i - 1], cs[i])
    BY <1>2
  <2>2. cs[i] \in Tool!ChangeOf /\ (cs[i].path \in raced \/ disk[cs[i].path] = cs[i].new)
    BY <1>1
  <2> QED
    BY <1>4, <2>1, <2>2, RecordedOneTells
<1>5. Bad = {}
  <2> SUFFICES ASSUME Bad # {} PROVE FALSE
    OBVIOUS
  <2>1. Bad \in SUBSET Nat
    BY <1>1
  <2>2. PICK n \in Bad : \A m \in Bad : n <= m
    BY <2>1, LeastNatural
  <2> HIDE DEF Good
  <2>3. n \in 0 .. Len(cs) /\ ~Good(n)
    BY <2>2
  <2>4. n # 0
    BY <1>3, <2>3
  <2>5. n - 1 \in 0 .. Len(cs) /\ n \in 1 .. Len(cs)
    BY <1>1, <2>3, <2>4
  <2>6. n - 1 \notin Bad
    BY <2>2, <2>5
  <2>7. Good(n - 1)
    BY <2>5, <2>6
  <2> QED
    BY <1>4, <2>3, <2>5, <2>7
<1>6. Good(Len(cs))
  <2> HIDE DEF Good
  <2> QED
    BY <1>1, <1>5
<1> QED
  BY <1>2, <1>6

-----------------------------------------------------------------------------
(* What the tools plan.                                                     *)

\* A plan: changes of different paths, each from what is there or unseen.
GoodPlan(ps, plan) ==
  /\ ps \in Seq(Paths)
  /\ plan \in Seq(Tool!ChangeOf) /\ Tool!OneOfEach(plan)
  /\ \A i \in DOMAIN plan : /\ plan[i].old \in {None, disk[plan[i].path]}
                            /\ \E k \in 1 .. Len(ps) : ps[k] = plan[i].path

LEMMA OnePathPlan ==
  ASSUME NEW p \in Paths, NEW old \in Tool!Whole \cup {None}, NEW new \in Tool!Whole \cup {None},
         old \in {None, disk[p]}, NEW ps \in Seq(Paths), \E k \in 1 .. Len(ps) : ps[k] = p
  PROVE  GoodPlan(ps, <<Tool!Change(p, old, new)>>)
<1>1. PICK c : c = Tool!Change(p, old, new)
  OBVIOUS
<1>2. c \in Tool!ChangeOf /\ c.path = p /\ c.old = old
  BY <1>1 DEF Tool!Change, Tool!ChangeOf
<1>3. <<c>> \in Seq(Tool!ChangeOf) /\ DOMAIN <<c>> = {1} /\ <<c>>[1] = c
  BY <1>2
<1> QED
  BY <1>1, <1>2, <1>3 DEF GoodPlan, Tool!OneOfEach

LEMMA NoPlanIsGood ==
  ASSUME NEW ps \in Seq(Paths) PROVE GoodPlan(ps, <<>>)
BY DEF GoodPlan, Tool!OneOfEach

LEMMA LinesDiffer == \E e \in Tool!Edits : TRUE
<1>1. PICK x \in Letters, y \in Letters : x # y
  BY ToolParameters DEF Tool!ToolAssumption
<1>2. PICK e : e = [old |-> x, new |-> y, all |-> TRUE]
  OBVIOUS
<1>3. e \in [old : Letters, new : Letters, all : BOOLEAN] /\ e.old # e.new
  BY <1>1, <1>2
<1> QED
  BY <1>3 DEF Tool!Edits

LEMMA HunkIsEdit == Tool!Hunk \in Tool!Edits /\ Tool!Hunk.new \in Letters
<1>1. Tool!Hunk \in Tool!Edits
  BY LinesDiffer DEF Tool!Hunk
<1> QED
  BY <1>1 DEF Tool!Edits

LEMMA EditedIsText ==
  ASSUME NEW text \in Tool!Whole \cup {None}, NEW e \in Tool!Edits
  PROVE  Tool!Edited(text, e) \in Tool!Whole \cup {None}
<1>1. e.new \in Letters
  BY DEF Tool!Edits
<1>2. CASE text = None
  BY <1>2 DEF Tool!Edited
<1>3. CASE text # None
  <2>1. text \in Seq(Letters)
    BY <1>3 DEF Tool!Whole
  <2>2. PICK new : new = [i \in DOMAIN text |-> IF text[i] = e.old THEN e.new ELSE text[i]]
    OBVIOUS
  <2>3. new \in Seq(Letters)
    BY <1>1, <2>1, <2>2
  <2>4. Tool!Edited(text, e) = new \/ Tool!Edited(text, e) = None
    BY <2>2 DEF Tool!Edited
  <2>5. text # <<>> /\ Len(new) = Len(text)
    BY <1>3, <2>1, <2>2 DEF Tool!Whole
  <2>6. new # <<>>
    BY <2>1, <2>3, <2>5
  <2> QED
    BY <2>3, <2>4, <2>6 DEF Tool!Whole
<1> QED
  BY <1>2, <1>3

LEMMA EditPlanIsGood ==
  ASSUME disk \in [Paths -> Tool!Whole \cup {None}], NEW p \in Paths, NEW e \in Tool!Edits,
         NEW f \in Tool!Edits \cup {None}
  PROVE  GoodPlan(<<p>>, Tool!EditPlan(p, e, f))
<1>1. disk[p] \in Tool!Whole \cup {None}
  OBVIOUS
<1>2. Tool!Edited(disk[p], e) \in Tool!Whole \cup {None}
  BY <1>1, EditedIsText
<1>3. Tool!EditedBy(disk[p], e, f) \in Tool!Whole \cup {None}
  <2>1. CASE f = None
    BY <1>2, <2>1 DEF Tool!EditedBy
  <2>2. CASE f # None
    <3>1. f \in Tool!Edits
      BY <2>2
    <3>2. Tool!Edited(Tool!Edited(disk[p], e), f) \in Tool!Whole \cup {None}
      BY <1>2, <3>1, EditedIsText
    <3> QED
      BY <2>2, <3>2 DEF Tool!EditedBy
  <2> QED
    BY <2>1, <2>2
<1>4. <<p>> \in Seq(Paths) /\ Len(<<p>>) = 1 /\ <<p>>[1] = p
  OBVIOUS
<1>a. \E k \in 1 .. Len(<<p>>) : <<p>>[k] = p
  BY <1>4
<1>b. disk[p] \in {None, disk[p]}
  OBVIOUS
<1>5. GoodPlan(<<p>>, <<Tool!Change(p, disk[p], Tool!EditedBy(disk[p], e, f))>>)
  BY <1>1, <1>3, <1>4, <1>a, <1>b, OnePathPlan
<1>6. GoodPlan(<<p>>, <<>>)
  BY <1>4, NoPlanIsGood
<1> QED
  BY <1>5, <1>6 DEF Tool!EditPlan, Tool!NoPlan

LEMMA WritePlanIsGood ==
  ASSUME disk \in [Paths -> Tool!Whole \cup {None}], NEW p \in Paths, NEW x \in Letters,
         NEW asks \in BOOLEAN
  PROVE  GoodPlan(<<p>>, Tool!WritePlan(p, <<x>>, asks))
<1>1. disk[p] \in Tool!Whole \cup {None} /\ <<x>> \in Tool!Whole
  BY DEF Tool!Whole
<1>2. <<p>> \in Seq(Paths) /\ Len(<<p>>) = 1 /\ <<p>>[1] = p
  OBVIOUS
<1>3. PICK old : old = IF asks THEN disk[p] ELSE None
  OBVIOUS
<1>4. old \in Tool!Whole \cup {None} /\ old \in {None, disk[p]}
  BY <1>1, <1>3
<1>a. \E k \in 1 .. Len(<<p>>) : <<p>>[k] = p
  BY <1>2
<1>b. <<x>> \in Tool!Whole \cup {None}
  BY <1>1
<1>c. old \in Tool!Whole \cup {None}
  BY <1>4
<1>d. old \in {None, disk[p]}
  BY <1>4
<1>e. <<p>> \in Seq(Paths)
  BY <1>2
<1>5. GoodPlan(<<p>>, <<Tool!Change(p, old, <<x>>)>>)
  BY <1>a, <1>b, <1>c, <1>d, <1>e, OnePathPlan
<1> QED
  BY <1>3, <1>5 DEF Tool!WritePlan

LEMMA FirstEditedIsText ==
  ASSUME NEW text \in Tool!Whole
  PROVE  Tool!FirstEdited(text) \in Tool!Whole \cup {None}
<1>1. text \in Seq(Letters) /\ Tool!Hunk.new \in Letters
  BY HunkIsEdit DEF Tool!Whole
<1>2. PICK k : k = Tool!Min(Tool!Occurs(text, Tool!Hunk.old))
  OBVIOUS
<1>3. [text EXCEPT ![k] = Tool!Hunk.new] \in Seq(Letters)
  <2>1. Len(text) \in Nat /\ DOMAIN text = 1 .. Len(text) /\ \A i \in 1 .. Len(text) : text[i] \in Letters
    BY <1>1
  <2>2. PICK new : new = [text EXCEPT ![k] = Tool!Hunk.new]
    OBVIOUS
  <2>3. new = [i \in 1 .. Len(text) |-> IF i = k THEN Tool!Hunk.new ELSE text[i]]
    BY <2>1, <2>2
  <2>4. new \in Seq(Letters)
    BY <1>1, <2>1, <2>3
  <2> QED
    BY <2>2, <2>4
<1>4. \/ Tool!FirstEdited(text) = None
      \/ Tool!FirstEdited(text) = [text EXCEPT ![k] = Tool!Hunk.new]
  BY <1>2 DEF Tool!FirstEdited
<1> QED
  BY <1>3, <1>4 DEF Tool!Whole

LEMMA OperationsName ==
  ASSUME NEW o \in Tool!Operations
  PROVE  /\ o.path \in Paths /\ Tool!Named(o) \in Seq(Paths)
         /\ \E k \in 1 .. Len(Tool!Named(o)) : Tool!Named(o)[k] = o.path
         /\ o.kind = "Move" =>
              /\ o.to \in Paths /\ o.path # o.to
              /\ \E k \in 1 .. Len(Tool!Named(o)) : Tool!Named(o)[k] = o.to
         /\ o.kind \in {"Add", "Delete", "Update", "Move"}
<1>1. None \notin Paths
  BY ToolParameters DEF Tool!ToolAssumption
<1>2. CASE o \in [kind : {"Move"}, path : Paths, to : Paths] /\ o.path # o.to
  <2>1. Tool!Named(o) = <<o.path, o.to>>
    BY <1>1, <1>2 DEF Tool!Named
  <2>2. o.path \in Paths /\ o.to \in Paths /\ o.kind = "Move"
    BY <1>2
  <2>3. PICK s : s = <<o.path, o.to>>
    OBVIOUS
  <2>4. s \in Seq(Paths) /\ Len(s) = 2 /\ s[1] = o.path /\ s[2] = o.to
    BY <2>2, <2>3
  <2>5. 1 \in 1 .. Len(s) /\ 2 \in 1 .. Len(s)
    BY <2>4
  <2>6. (\E k \in 1 .. Len(s) : s[k] = o.path) /\ (\E k \in 1 .. Len(s) : s[k] = o.to)
    BY <2>4, <2>5
  <2> QED
    BY <1>2, <2>1, <2>2, <2>3, <2>4, <2>6
<1>3. CASE o \in [kind : {"Add", "Delete", "Update"}, path : Paths, to : {None}]
  <2>1. Tool!Named(o) = <<o.path>>
    BY <1>3 DEF Tool!Named
  <2>2. o.path \in Paths /\ o.kind \in {"Add", "Delete", "Update"}
    BY <1>3
  <2>3. <<o.path>> \in Seq(Paths) /\ Len(<<o.path>>) = 1 /\ <<o.path>>[1] = o.path
    BY <2>2
  <2>4. 1 \in 1 .. Len(<<o.path>>)
    BY <2>3
  <2>5. o.kind # "Move"
    BY <2>2
  <2>6. \E k \in 1 .. Len(<<o.path>>) : <<o.path>>[k] = o.path
    BY <2>3, <2>4
  <2> QED
    BY <2>1, <2>2, <2>3, <2>5, <2>6
<1> QED
  BY <1>2, <1>3 DEF Tool!Operations

LEMMA OperationPlanIsGood ==
  ASSUME disk \in [Paths -> Tool!Whole \cup {None}], NEW o \in Tool!Operations
  PROVE  GoodPlan(Tool!Named(o), Tool!OperationPlan(o))
<1>1. PICK ps : ps = Tool!Named(o)
  OBVIOUS
<1>2. /\ o.path \in Paths /\ ps \in Seq(Paths) /\ (\E k \in 1 .. Len(ps) : ps[k] = o.path)
      /\ o.kind = "Move" => /\ o.to \in Paths /\ o.path # o.to
                            /\ \E k \in 1 .. Len(ps) : ps[k] = o.to
      /\ o.kind \in {"Add", "Delete", "Update", "Move"}
  BY <1>1, OperationsName
<1>3. GoodPlan(ps, Tool!NoPlan)
  BY <1>2, NoPlanIsGood DEF Tool!NoPlan
<1>4. disk[o.path] \in Tool!Whole \cup {None} /\ disk[o.path] \in {None, disk[o.path]}
  BY <1>2
<1>5. None \in Tool!Whole \cup {None} /\ None \in {None, disk[o.path]}
  OBVIOUS
<1>6. CASE o.kind = "Add"
  <2>1. <<Tool!Hunk.new>> \in Tool!Whole \cup {None}
    BY HunkIsEdit DEF Tool!Whole
  <2>2. GoodPlan(ps, <<Tool!Change(o.path, None, <<Tool!Hunk.new>>)>>)
    BY <1>2, <1>5, <2>1, OnePathPlan
  <2> QED
    BY <1>1, <1>3, <1>6, <2>2 DEF Tool!OperationPlan
<1>7. CASE o.kind = "Delete"
  <2>1. GoodPlan(ps, <<Tool!Change(o.path, disk[o.path], None)>>)
    BY <1>2, <1>4, <1>5, OnePathPlan
  <2> QED
    BY <1>1, <1>3, <1>7, <2>1 DEF Tool!OperationPlan
<1>8. CASE o.kind = "Update" /\ disk[o.path] # None
  <2>1. disk[o.path] \in Tool!Whole
    BY <1>4, <1>8
  <2>2. Tool!FirstEdited(disk[o.path]) \in Tool!Whole \cup {None}
    BY <2>1, FirstEditedIsText
  <2>3. GoodPlan(ps, <<Tool!Change(o.path, disk[o.path], Tool!FirstEdited(disk[o.path]))>>)
    BY <1>2, <1>4, <2>2, OnePathPlan
  <2> QED
    BY <1>1, <1>3, <1>8, <2>3 DEF Tool!OperationPlan
<1>9. CASE o.kind = "Move" /\ disk[o.path] # None
  <2>1. PICK c : c = Tool!Change(o.path, disk[o.path], None)
    OBVIOUS
  <2>2. PICK d : d = Tool!Change(o.to, None, disk[o.path])
    OBVIOUS
  <2>3. /\ c \in Tool!ChangeOf /\ c.path = o.path /\ c.old = disk[o.path]
        /\ d \in Tool!ChangeOf /\ d.path = o.to /\ d.old = None
    BY <1>2, <1>4, <1>9, <2>1, <2>2 DEF Tool!Change, Tool!ChangeOf
  <2>4. PICK s : s = <<c, d>>
    OBVIOUS
  <2>5. s \in Seq(Tool!ChangeOf) /\ DOMAIN s = {1, 2} /\ s[1] = c /\ s[2] = d
    BY <2>3, <2>4
  <2>6. Tool!OneOfEach(s)
    BY <1>2, <1>9, <2>3, <2>5 DEF Tool!OneOfEach
  <2>7. GoodPlan(ps, s)
    BY <1>2, <1>9, <2>3, <2>5, <2>6 DEF GoodPlan
  <2>8. Tool!OperationPlan(o) = IF disk[o.to] # None THEN Tool!NoPlan ELSE s
    BY <1>9, <2>1, <2>2, <2>4 DEF Tool!OperationPlan
  <2> QED
    BY <1>1, <1>3, <2>7, <2>8
<1>10. CASE o.kind # "Add" /\ disk[o.path] = None
  BY <1>1, <1>3, <1>10 DEF Tool!OperationPlan
<1> QED
  BY <1>2, <1>6, <1>7, <1>8, <1>9, <1>10

LEMMA PatchPlanIsGood ==
  ASSUME disk \in [Paths -> Tool!Whole \cup {None}], NEW o \in Tool!Operations,
         NEW n \in Tool!Operations \cup {None}
  PROVE  GoodPlan(IF n = None THEN Tool!Named(o) ELSE Tool!Named(o) \o Tool!Named(n),
                  Tool!PatchPlan(o, n))
<1>1. GoodPlan(Tool!Named(o), Tool!OperationPlan(o))
  BY OperationPlanIsGood
<1>2. PICK ps : ps = Tool!Named(o)
  OBVIOUS
<1>3. PICK first : first = Tool!OperationPlan(o)
  OBVIOUS
<1>4. CASE n = None
  <2>1. first \in Seq(Tool!ChangeOf)
    BY <1>1, <1>3 DEF GoodPlan
  <2>2. first \o <<>> = first
    BY <2>1
  <2>3. Tool!PatchPlan(o, n) \in {first, Tool!NoPlan}
    BY <1>3, <1>4, <2>2 DEF Tool!PatchPlan
  <2>4. ps \in Seq(Paths)
    BY <1>1, <1>2 DEF GoodPlan
  <2>5. GoodPlan(ps, Tool!NoPlan)
    BY <2>4, NoPlanIsGood DEF Tool!NoPlan
  <2> QED
    BY <1>1, <1>2, <1>3, <1>4, <2>3, <2>5
<1>5. CASE n # None
  <2>1. n \in Tool!Operations
    BY <1>5
  <2>2. GoodPlan(Tool!Named(n), Tool!OperationPlan(n))
    BY <2>1, OperationPlanIsGood
  <2>3. PICK qs : qs = Tool!Named(n)
    OBVIOUS
  <2>4. PICK rest : rest = Tool!OperationPlan(n)
    OBVIOUS
  <2>5. PICK all : all = first \o rest
    OBVIOUS
  <2>6. PICK rs : rs = ps \o qs
    OBVIOUS
  <2>7. GoodPlan(ps, first) /\ GoodPlan(qs, rest)
    BY <1>1, <1>2, <1>3, <2>2, <2>3, <2>4
  <2>8. first \in Seq(Tool!ChangeOf) /\ rest \in Seq(Tool!ChangeOf) /\ ps \in Seq(Paths) /\ qs \in Seq(Paths)
    BY <2>7 DEF GoodPlan
  <2>9. /\ all \in Seq(Tool!ChangeOf) /\ Len(all) = Len(first) + Len(rest)
        /\ \A i \in 1 .. Len(first) + Len(rest) :
             all[i] = IF i <= Len(first) THEN first[i] ELSE rest[i - Len(first)]
    BY <2>5, <2>8, ConcatProperties
  <2>10. /\ rs \in Seq(Paths) /\ Len(rs) = Len(ps) + Len(qs)
         /\ \A i \in 1 .. Len(ps) + Len(qs) : rs[i] = IF i <= Len(ps) THEN ps[i] ELSE qs[i - Len(ps)]
    BY <2>6, <2>8, ConcatProperties
  <2>11. Len(first) \in Nat /\ Len(rest) \in Nat /\ Len(ps) \in Nat /\ Len(qs) \in Nat
    BY <2>8
  <2>12. DOMAIN all = 1 .. Len(first) + Len(rest)
    BY <2>9
  <2>13. \A p : (\E k \in 1 .. Len(ps) : ps[k] = p) => \E k \in 1 .. Len(rs) : rs[k] = p
    <3> SUFFICES ASSUME NEW k \in 1 .. Len(ps) PROVE \E j \in 1 .. Len(rs) : rs[j] = ps[k]
      OBVIOUS
    <3>1. k \in 1 .. Len(rs) /\ rs[k] = ps[k]
      BY <2>10, <2>11
    <3> QED
      BY <3>1
  <2>14. \A p : (\E k \in 1 .. Len(qs) : qs[k] = p) => \E k \in 1 .. Len(rs) : rs[k] = p
    <3> SUFFICES ASSUME NEW k \in 1 .. Len(qs) PROVE \E j \in 1 .. Len(rs) : rs[j] = qs[k]
      OBVIOUS
    <3>1. k + Len(ps) \in 1 .. Len(ps) + Len(qs) /\ ~(k + Len(ps) <= Len(ps)) /\ k + Len(ps) - Len(ps) = k
      BY <2>11
    <3>2. k + Len(ps) \in 1 .. Len(rs) /\ rs[k + Len(ps)] = qs[k]
      BY <2>10, <3>1
    <3> QED
      BY <3>2
  <2>15. ASSUME NEW i \in DOMAIN all
         PROVE  /\ all[i].old \in {None, disk[all[i].path]}
                /\ \E k \in 1 .. Len(rs) : rs[k] = all[i].path
    <3>1. CASE i <= Len(first)
      <4>1. i \in DOMAIN first /\ all[i] = first[i]
        BY <2>8, <2>9, <2>11, <2>12, <3>1
      <4>2. first[i].old \in {None, disk[first[i].path]} /\ \E k \in 1 .. Len(ps) : ps[k] = first[i].path
        BY <2>7, <4>1 DEF GoodPlan
      <4>3. \E k \in 1 .. Len(rs) : rs[k] = first[i].path
        BY <2>13, <4>2
      <4> QED
        BY <4>1, <4>2, <4>3
    <3>2. CASE ~(i <= Len(first))
      <4>1. i - Len(first) \in DOMAIN rest /\ all[i] = rest[i - Len(first)]
        BY <2>8, <2>9, <2>11, <2>12, <3>2
      <4>2. PICK j : j = i - Len(first) /\ j \in DOMAIN rest /\ all[i] = rest[j]
        BY <4>1
      <4>3. rest[j].old \in {None, disk[rest[j].path]} /\ \E k \in 1 .. Len(qs) : qs[k] = rest[j].path
        BY <2>7, <4>2 DEF GoodPlan
      <4>4. \E k \in 1 .. Len(rs) : rs[k] = rest[j].path
        BY <2>14, <4>3
      <4> QED
        BY <4>2, <4>3, <4>4
    <3> QED
      BY <3>1, <3>2
  <2>16. Tool!IsInjective([i \in DOMAIN all |-> all[i].path]) => Tool!OneOfEach(all)
    BY DEF Tool!IsInjective, Tool!OneOfEach
  <2>17. Tool!IsInjective([i \in DOMAIN all |-> all[i].path]) => GoodPlan(rs, all)
    BY <2>9, <2>10, <2>15, <2>16 DEF GoodPlan
  <2>18. GoodPlan(rs, Tool!NoPlan)
    BY <2>10, NoPlanIsGood DEF Tool!NoPlan
  <2>19. Tool!PatchPlan(o, n) = Tool!NoPlan
           \/ (Tool!PatchPlan(o, n) = all /\ Tool!IsInjective([i \in DOMAIN all |-> all[i].path]))
    BY <1>3, <1>5, <2>4, <2>5 DEF Tool!PatchPlan
  <2> QED
    BY <1>2, <1>5, <2>3, <2>6, <2>17, <2>18, <2>19
<1> QED
  BY <1>4, <1>5

-----------------------------------------------------------------------------
(* The steps of the tools.                                                  *)

LEMMA ToolInit == Tool!Init => Tool!IInv
<1> SUFFICES ASSUME Tool!Init PROVE Tool!IInv
  OBVIOUS
<1>1. \A t \in Tool!Texts : t \in Tool!Whole
  <2> TAKE t \in Tool!Texts
  <2>1. PICK n \in 1 .. 2 : t \in [1 .. n -> Letters]
    BY DEF Tool!Texts
  <2>2. n \in Nat /\ 1 \in 1 .. n
    OBVIOUS
  <2>3. t \in Seq(Letters)
    BY <2>1, <2>2, SeqDef
  <2>4. t # <<>>
    <3>1. 1 \in DOMAIN t
      BY <2>1, <2>2
    <3>2. DOMAIN <<>> = {}
      OBVIOUS
    <3> QED
      BY <3>1, <3>2
  <2> QED
    BY <2>3, <2>4 DEF Tool!Whole
<1>2. disk \in [Paths -> Tool!Whole \cup {None}]
  BY <1>1 DEF Tool!Init
<1>3. ledger = <<>> /\ call = Tool!Idle /\ clock = 0 /\ stamp = [p \in Paths |-> 0]
      /\ blind = {} /\ misled = {} /\ misread = {}
  BY DEF Tool!Init
<1>4. call.stage = "idle"
  BY <1>3 DEF Tool!Idle
<1>5. Tool!LedgerTells(ledger) /\ Len(ledger) = 0
  BY <1>3 DEF Tool!LedgerTells, Tool!OneOfEach
<1>6. Tool!PlanHolds /\ Tool!AskedOfKnown /\ Tool!WritesOfKnown
  BY <1>4 DEF Tool!PlanHolds, Tool!AskedOfKnown, Tool!WritesOfKnown, Tool!Planned
<1>7. MaxRecords \in Nat
  BY ToolParameters DEF Tool!ToolAssumption
<1>8. stamp \in [Paths -> Nat] /\ clock \in Nat /\ \A p \in Paths : stamp[p] <= clock
  BY <1>3
<1>9. Tool!EditsAreInformed
  BY <1>3 DEF Tool!EditsAreInformed
<1> QED
  BY <1>2, <1>4, <1>5, <1>6, <1>7, <1>8, <1>9 DEF Tool!IInv

LEMMA StillTells ==
  ASSUME NEW l, Tool!LedgerTells(l), ledger' = l, UNCHANGED <<disk, stamp, raced>>
  PROVE  Tool!LedgerTells(ledger)'
<1>1. l \in Seq(Tool!Record) /\ Tool!OneOfEach(l) /\ \A i \in DOMAIN l : Tool!RecordTells(l[i])
  BY DEF Tool!LedgerTells
<1>2. \A i \in DOMAIN ledger' : Tool!RecordTells(ledger[i])'
  BY <1>1 DEF Tool!RecordTells
<1>3. ledger' \in Seq(Tool!Record) /\ Tool!OneOfEach(ledger)'
  BY <1>1 DEF Tool!OneOfEach
<1> QED
  BY <1>2, <1>3 DEF Tool!LedgerTells

\* A file gets a later time with each change, and the records of it are then
\* older than it.
LEMMA ChangedTells ==
  ASSUME Tool!IInv, UNCHANGED ledger, raced \subseteq raced', NEW S \in SUBSET Paths,
         stamp' = [p \in Paths |-> IF p \in S THEN clock + 1 ELSE stamp[p]], clock' = clock + 1,
         \A p \in Paths \ S : disk'[p] = disk[p]
  PROVE  /\ Tool!LedgerTells(ledger)' /\ Len(ledger') <= MaxRecords
         /\ stamp' \in [Paths -> Nat] /\ clock' \in Nat /\ \A p \in Paths : stamp'[p] <= clock'
<1>1. /\ stamp \in [Paths -> Nat] /\ clock \in Nat /\ \A p \in Paths : stamp[p] <= clock
      /\ Tool!LedgerTells(ledger) /\ Len(ledger) <= MaxRecords
  BY DEF Tool!IInv
<1>2. ledger \in Seq(Tool!Record) /\ Tool!OneOfEach(ledger) /\ \A i \in DOMAIN ledger : Tool!RecordTells(ledger[i])
  BY <1>1 DEF Tool!LedgerTells
<1>3. ASSUME NEW i \in DOMAIN ledger PROVE Tool!RecordTells(ledger[i])'
  <2>1. PICK r : r = ledger[i]
    OBVIOUS
  <2>2. r \in Tool!Record /\ Tool!RecordTells(r)
    BY <1>2, <2>1
  <2>3. r.path \in Paths /\ r.stamp \in Nat
    BY <2>2 DEF Tool!Record
  <2>4. r.stamp <= stamp[r.path] /\ stamp[r.path] \in Nat /\ stamp[r.path] <= clock
    BY <1>1, <2>2, <2>3 DEF Tool!RecordTells
  <2>5. CASE r.path \in S
    <3>1. stamp'[r.path] = clock + 1
      BY <2>3, <2>5
    <3>2. r.stamp <= stamp'[r.path] /\ r.stamp # stamp'[r.path]
      BY <1>1, <2>3, <2>4, <3>1
    <3> QED
      BY <2>1, <2>2, <3>2 DEF Tool!RecordTells
  <2>6. CASE r.path \notin S
    <3>1. stamp'[r.path] = stamp[r.path] /\ disk'[r.path] = disk[r.path]
      BY <2>3, <2>6
    <3> QED
      BY <2>1, <2>2, <3>1 DEF Tool!RecordTells
  <2> QED
    BY <2>5, <2>6
<1>4. Tool!LedgerTells(ledger)'
  BY <1>2, <1>3 DEF Tool!LedgerTells, Tool!OneOfEach
<1>5. stamp' \in [Paths -> Nat]
  BY <1>1
<1>6. \A p \in Paths : stamp'[p] <= clock'
  BY <1>1
<1> QED
  BY <1>1, <1>4, <1>5, <1>6

LEMMA IdleHolds ==
  ASSUME call' = Tool!Idle
  PROVE  call'.stage = "idle" /\ Tool!PlanHolds' /\ Tool!AskedOfKnown' /\ Tool!WritesOfKnown'
<1>1. call'.stage = "idle"
  BY DEF Tool!Idle
<1> QED
  BY <1>1 DEF Tool!PlanHolds, Tool!AskedOfKnown, Tool!WritesOfKnown, Tool!Planned

\* A reading or refusing step: the files stay, the ledger tells, the tool rests.
LEMMA RestsHold ==
  ASSUME Tool!IInv, call' = Tool!Idle, UNCHANGED Tool!diskVars, UNCHANGED <<raced, blind, misled>>,
         NEW l, ledger' = l, Tool!LedgerTells(l), Len(l) <= MaxRecords,
         misread' \subseteq raced
  PROVE  Tool!IInv'
<1>1. UNCHANGED <<disk, stamp, clock>>
  BY DEF Tool!diskVars
<1>2. Tool!LedgerTells(ledger)'
  BY <1>1, StillTells
<1>3. call'.stage = "idle" /\ Tool!PlanHolds' /\ Tool!AskedOfKnown' /\ Tool!WritesOfKnown'
  BY IdleHolds
<1>4. Tool!EditsAreInformed'
  BY DEF Tool!IInv, Tool!EditsAreInformed
<1>5. /\ disk' \in [Paths -> Tool!Whole \cup {None}]
      /\ stamp' \in [Paths -> Nat] /\ clock' \in Nat /\ \A p \in Paths : stamp'[p] <= clock'
  BY <1>1 DEF Tool!IInv
<1> QED
  BY <1>2, <1>3, <1>4, <1>5 DEF Tool!IInv

LEMMA FromLedgerHolds ==
  ASSUME Tool!IInv, NEW p \in Paths, NEW ranged \in BOOLEAN, Tool!FromLedger(p, ranged)
  PROVE  Tool!IInv'
<1>1. Tool!LedgerTells(ledger) /\ Len(ledger) <= MaxRecords /\ disk \in [Paths -> Tool!Whole \cup {None}]
  BY DEF Tool!IInv
<1>2. PICK r : r = Tool!Of(ledger, p)
  OBVIOUS
<1>3. /\ Tool!Has(ledger, p) /\ disk[p] # None
      /\ r.text # None /\ r.stamp = stamp[p] /\ (r.full \/ ranged)
  BY <1>2 DEF Tool!FromLedger, Tool!Cached
<1>4. r \in Tool!Record /\ r.path = p /\ Tool!RecordTells(r)
  BY <1>1, <1>2, <1>3, OfIsTheRecord
<1>5. PICK l : l = Append(Tool!Without(ledger, p), r)
  OBVIOUS
<1>6. Tool!LedgerTells(l) /\ Len(l) = Len(ledger)
  BY <1>1, <1>3, <1>4, <1>5, AppendTells
<1>7. ledger' = l
  BY <1>2, <1>5 DEF Tool!FromLedger
<1>8. p \in raced \/ (/\ SubSeq(r.text, 1, 1) = SubSeq(disk[p], 1, 1)
                      /\ ranged \/ r.text = disk[p])
  <2>1. SUFFICES ASSUME p \notin raced
                 PROVE  SubSeq(r.text, 1, 1) = SubSeq(disk[p], 1, 1) /\ (ranged \/ r.text = disk[p])
    OBVIOUS
  <2>2. r.seen = disk[p] /\ disk[p] \in Seq(Letters)
    BY <1>3, <1>4, <2>1 DEF Tool!RecordTells, Tool!Record, Tool!Whole
  <2>3. r.text = disk[p] \/ (~r.full /\ r.text = SubSeq(disk[p], 1, 1))
    BY <1>3, <1>4, <2>2 DEF Tool!RecordTells
  <2>4. SubSeq(SubSeq(disk[p], 1, 1), 1, 1) = SubSeq(disk[p], 1, 1)
    <3>1. \A s : SubSeq(s, 1, 1) = [i \in 1 .. 1 |-> s[i]]
      OBVIOUS
    <3>2. PICK s : s = SubSeq(disk[p], 1, 1)
      OBVIOUS
    <3>3. s = [i \in 1 .. 1 |-> disk[p][i]]
      BY <3>1, <3>2
    <3>4. SubSeq(s, 1, 1) = [i \in 1 .. 1 |-> s[i]]
      BY <3>1
    <3>5. \A i \in 1 .. 1 : s[i] = disk[p][i]
      BY <3>3
    <3> QED
      BY <3>2, <3>3, <3>4, <3>5
  <2> QED
    BY <1>3, <2>3, <2>4
<1>9. misread' \subseteq raced
  <2>1. misread \subseteq raced
    BY DEF Tool!IInv, Tool!EditsAreInformed
  <2>2. misread' = IF SubSeq(r.text, 1, 1) = SubSeq(disk[p], 1, 1) /\ (ranged \/ r.text = disk[p])
                   THEN misread ELSE misread \cup {p}
    BY <1>2 DEF Tool!FromLedger
  <2> QED
    BY <1>8, <2>1, <2>2
<1>10. UNCHANGED Tool!diskVars /\ UNCHANGED <<call, raced, blind, misled>> /\ call.stage = "idle"
  BY DEF Tool!FromLedger, Tool!Free
<1>11. UNCHANGED <<disk, stamp, clock>>
  BY <1>10 DEF Tool!diskVars
<1>12. Tool!LedgerTells(ledger)'
  BY <1>6, <1>7, <1>10, <1>11, StillTells
<1>13. Tool!PlanHolds' /\ Tool!AskedOfKnown' /\ Tool!WritesOfKnown'
  BY <1>10 DEF Tool!PlanHolds, Tool!AskedOfKnown, Tool!WritesOfKnown, Tool!Planned
<1>14. Tool!EditsAreInformed'
  BY <1>9, <1>10 DEF Tool!IInv, Tool!EditsAreInformed
<1>15. /\ disk' \in [Paths -> Tool!Whole \cup {None}]
       /\ stamp' \in [Paths -> Nat] /\ clock' \in Nat /\ \A q \in Paths : stamp'[q] <= clock'
  BY <1>11 DEF Tool!IInv
<1> QED
  BY <1>1, <1>6, <1>7, <1>10, <1>12, <1>13, <1>14, <1>15 DEF Tool!IInv

LEMMA OpensHolds ==
  ASSUME Tool!IInv, NEW p \in Paths, NEW ranged \in BOOLEAN, Tool!Opens(p, ranged)
  PROVE  Tool!IInv'
<1>1. /\ disk[p] # None /\ call' = [Tool!Idle EXCEPT !.stage = "read", !.path = p, !.text = disk[p],
                                                     !.ranged = ranged]
      /\ UNCHANGED Tool!diskVars /\ UNCHANGED <<ledger, raced, blind, misled, misread>>
  BY DEF Tool!Opens
<1>2. call'.stage = "read" /\ call'.path = p /\ call'.text = disk[p] /\ call'.ranged = ranged
  BY <1>1 DEF Tool!Idle
<1>3. UNCHANGED <<disk, stamp, clock>>
  BY <1>1 DEF Tool!diskVars
<1>4. Tool!LedgerTells(ledger)'
  BY <1>1, <1>3, StillTells DEF Tool!IInv
<1>5. Tool!PlanHolds' /\ Tool!AskedOfKnown' /\ Tool!WritesOfKnown'
  BY <1>2 DEF Tool!PlanHolds, Tool!AskedOfKnown, Tool!WritesOfKnown, Tool!Planned
<1>6. Tool!EditsAreInformed'
  BY <1>1 DEF Tool!IInv, Tool!EditsAreInformed
<1>7. /\ disk' \in [Paths -> Tool!Whole \cup {None}] /\ Len(ledger') <= MaxRecords
      /\ stamp' \in [Paths -> Nat] /\ clock' \in Nat /\ \A q \in Paths : stamp'[q] <= clock'
  BY <1>1, <1>3 DEF Tool!IInv
<1>8. call'.path \in Paths /\ call'.text \in Tool!Whole /\ disk'[call'.path] = call'.text /\ call'.ranged \in BOOLEAN
  BY <1>1, <1>2, <1>3 DEF Tool!IInv
<1> QED
  BY <1>4, <1>5, <1>6, <1>7, <1>8 DEF Tool!IInv

LEMMA FirstIsWhole ==
  ASSUME NEW text \in Tool!Whole
  PROVE  SubSeq(text, 1, 1) \in Tool!Whole
<1>1. text \in Seq(Letters) /\ text # <<>>
  BY DEF Tool!Whole
<1>2. Len(text) \in Nat /\ Len(text) >= 1
  BY <1>1
<1>3. text[1] \in Letters
  BY <1>1, <1>2
<1>4. PICK s : s = SubSeq(text, 1, 1)
  OBVIOUS
<1>5. s \in Seq(Letters) /\ Len(s) = 1
  BY <1>1, <1>2, <1>3, <1>4, SubSeqProperties
<1> QED
  BY <1>4, <1>5 DEF Tool!Whole

LEMMA RecordsHolds ==
  ASSUME Tool!IInv, Tool!Records
  PROVE  Tool!IInv'
<1>1. /\ call.stage = "read" /\ call' = Tool!Idle
      /\ ledger' = IF disk[call.path] = None THEN ledger
                   ELSE Tool!Put(ledger, Tool!Read(call.path, call.text, call.ranged))
      /\ UNCHANGED Tool!diskVars /\ UNCHANGED <<raced, blind, misled>> /\ misread' = misread
  BY DEF Tool!Records
<1>2. /\ call.path \in Paths /\ call.text \in Tool!Whole /\ call.ranged \in BOOLEAN
      /\ call.path \in raced \/ disk[call.path] = call.text
      /\ Tool!LedgerTells(ledger) /\ Len(ledger) <= MaxRecords
      /\ stamp \in [Paths -> Nat]
  BY <1>1 DEF Tool!IInv
<1>3. Tool!LedgerTells(ledger') /\ Len(ledger') <= MaxRecords
  <2>1. CASE disk[call.path] = None
    BY <1>1, <1>2, <2>1
  <2>2. CASE disk[call.path] # None
    <3>1. PICK r : r = Tool!Read(call.path, call.text, call.ranged)
      OBVIOUS
    <3>2. r = [path |-> call.path, stamp |-> stamp[call.path], full |-> ~call.ranged, partial |-> FALSE,
               text |-> IF call.ranged THEN SubSeq(call.text, 1, 1) ELSE call.text, seen |-> call.text]
      BY <3>1 DEF Tool!Read
    <3>a. SubSeq(call.text, 1, 1) \in Tool!Whole
      BY <1>2, FirstIsWhole
    <3>b. stamp[call.path] \in Nat
      BY <1>2
    <3>3. r \in Tool!Record
      <4>1. CASE call.ranged
        BY <1>2, <3>2, <3>a, <3>b, <4>1 DEF Tool!Record
      <4>2. CASE ~call.ranged
        BY <1>2, <3>2, <3>b, <4>2 DEF Tool!Record
      <4> QED
        BY <4>1, <4>2
    <3>4. Tool!RecordTells(r)
      <4>1. /\ r.path = call.path /\ r.stamp = stamp[call.path] /\ r.seen = call.text
            /\ r.full = ~call.ranged /\ r.text = IF call.ranged THEN SubSeq(call.text, 1, 1) ELSE call.text
        BY <3>2
      <4>2. r.stamp <= stamp[r.path]
        BY <3>b, <4>1
      <4>3. r.path \in raced \/ r.seen = disk[r.path]
        BY <1>2, <4>1
      <4>4. r.text \in {r.seen, SubSeq(r.seen, 1, 1)} /\ (r.full => r.text = r.seen)
        <5>1. CASE call.ranged
          BY <4>1, <5>1
        <5>2. CASE ~call.ranged
          BY <4>1, <5>2
        <5> QED
          BY <5>1, <5>2
      <4> QED
        BY <4>2, <4>3, <4>4 DEF Tool!RecordTells
    <3> QED
      BY <1>1, <1>2, <2>2, <3>1, <3>3, <3>4, PutTells
  <2> QED
    BY <2>1, <2>2
<1>4. misread' \subseteq raced
  BY <1>1 DEF Tool!IInv, Tool!EditsAreInformed
<1> QED
  BY <1>1, <1>3, <1>4, RestsHold

LEMMA InjectsHolds ==
  ASSUME Tool!IInv, NEW p \in Paths, Tool!Injects(p)
  PROVE  Tool!IInv'
<1>1. PICK r : r = [Tool!Read(p, disk[p], TRUE) EXCEPT !.partial = TRUE, !.text = None]
  OBVIOUS
<1>2. /\ disk[p] # None /\ call.stage = "idle" /\ UNCHANGED call
      /\ ledger' = Tool!Put(ledger, r)
      /\ UNCHANGED Tool!diskVars /\ UNCHANGED <<raced, blind, misled, misread>>
  BY <1>1 DEF Tool!Injects, Tool!Free
<1>3. /\ Tool!LedgerTells(ledger) /\ Len(ledger) <= MaxRecords
      /\ stamp \in [Paths -> Nat] /\ disk[p] \in Tool!Whole
  BY <1>2 DEF Tool!IInv
<1>4. r = [path |-> p, stamp |-> stamp[p], full |-> FALSE, partial |-> TRUE,
           text |-> None, seen |-> disk[p]]
  BY <1>1 DEF Tool!Read
<1>5. r \in Tool!Record
  BY <1>3, <1>4 DEF Tool!Record
<1>6. Tool!RecordTells(r)
  BY <1>3, <1>4 DEF Tool!RecordTells
<1>7. Tool!LedgerTells(Tool!Put(ledger, r)) /\ Len(Tool!Put(ledger, r)) <= MaxRecords
  BY <1>3, <1>5, <1>6, PutTells
<1>8. UNCHANGED <<disk, stamp, clock>>
  BY <1>2 DEF Tool!diskVars
<1>9. Tool!LedgerTells(ledger)'
  BY <1>2, <1>7, <1>8, StillTells
<1>10. Tool!PlanHolds' /\ Tool!AskedOfKnown' /\ Tool!WritesOfKnown'
  BY <1>2 DEF Tool!PlanHolds, Tool!AskedOfKnown, Tool!WritesOfKnown, Tool!Planned
<1>11. Tool!EditsAreInformed'
  BY <1>2 DEF Tool!IInv, Tool!EditsAreInformed
<1>12. /\ disk' \in [Paths -> Tool!Whole \cup {None}]
       /\ stamp' \in [Paths -> Nat] /\ clock' \in Nat /\ \A q \in Paths : stamp'[q] <= clock'
  BY <1>8 DEF Tool!IInv
<1> QED
  BY <1>2, <1>7, <1>9, <1>10, <1>11, <1>12 DEF Tool!IInv

\* A tool that is called plans changes of what is there, and what is there it
\* knows if it goes on without asking.
LEMMA BeginsHolds ==
  ASSUME Tool!IInv, Tool!Free, NEW ps, NEW plan, NEW asks \in BOOLEAN,
         GoodPlan(ps, plan), Tool!Begins(ps, plan, asks)
  PROVE  Tool!IInv'
<1>1. PICK y : y = Tool!Checked(ledger, ps, Tool!Existing)
  OBVIOUS
<1>2. /\ ledger' = y.l
      /\ call' = IF ~y.ok \/ plan = Tool!NoPlan THEN Tool!Idle
                 ELSE [Tool!Idle EXCEPT !.stage = IF asks THEN "asked" ELSE "write",
                                        !.changes = plan, !.asks = asks]
      /\ UNCHANGED Tool!diskVars /\ UNCHANGED <<raced, blind, misled>> /\ misread' = misread
  BY <1>1 DEF Tool!Begins
<1>3. /\ Tool!LedgerTells(ledger) /\ Len(ledger) <= MaxRecords
      /\ stamp \in [Paths -> Nat] /\ disk \in [Paths -> Tool!Whole \cup {None}]
      /\ misread \subseteq raced
  BY DEF Tool!IInv, Tool!EditsAreInformed
<1>4. /\ ps \in Seq(Paths) /\ plan \in Seq(Tool!ChangeOf) /\ Tool!OneOfEach(plan)
      /\ \A i \in DOMAIN plan : /\ plan[i].old \in {None, disk[plan[i].path]}
                                /\ \E k \in 1 .. Len(ps) : ps[k] = plan[i].path
  BY DEF GoodPlan
<1>5. /\ Tool!LedgerTells(y.l) /\ Len(y.l) <= MaxRecords
      /\ y.ok => \A k \in 1 .. Len(ps) : ps[k] \in Tool!Existing =>
                   disk[ps[k]] # None /\ (ps[k] \in raced \/ Tool!Knows(y.l, ps[k], disk[ps[k]]))
  <2>1. ps \in Seq(Paths)
    BY <1>4
  <2>2. Tool!LedgerTells(ledger) /\ Len(ledger) <= MaxRecords /\ stamp \in [Paths -> Nat]
    BY <1>3
  <2> QED
    BY <1>1, <2>1, <2>2, CheckedTells
<1>6. CASE ~y.ok \/ plan = Tool!NoPlan
  <2>1. call' = Tool!Idle
    BY <1>2, <1>6
  <2> QED
    BY <1>2, <1>3, <1>5, <2>1, RestsHold
<1>7. CASE y.ok /\ plan # Tool!NoPlan
  <2>1. /\ call'.stage = (IF asks THEN "asked" ELSE "write") /\ call'.changes = plan
        /\ call'.done = 0
    BY <1>2, <1>7 DEF Tool!Idle
  <2>2. UNCHANGED <<disk, stamp, clock>>
    BY <1>2 DEF Tool!diskVars
  <2>3. Tool!LedgerTells(ledger)'
    BY <1>2, <1>5, <2>2, StillTells
  <2>4. Len(plan) \in Nat /\ Len(plan) > 0
    BY <1>4, <1>7 DEF Tool!NoPlan
  <2>5. Tool!PlanHolds'
    <3>1. 0 \in 0 .. Len(plan)
      BY <2>4
    <3>2. Tool!OneOfEach(call.changes)'
      BY <1>4, <2>1 DEF Tool!OneOfEach
    <3>3. DOMAIN call' = DOMAIN Tool!Idle
      BY <1>2, <1>7 DEF Tool!Idle
    <3>4. (DOMAIN Tool!Idle)' = DOMAIN Tool!Idle
      BY DEF Tool!Idle
    <3> QED
      BY <1>4, <2>1, <2>4, <3>1, <3>2, <3>3, <3>4 DEF Tool!PlanHolds
  <2>6. ASSUME NEW i \in DOMAIN plan, disk[plan[i].path] # None
        PROVE  plan[i].path \in raced \/ Tool!Knows(y.l, plan[i].path, disk[plan[i].path])
    <3>1. PICK k \in 1 .. Len(ps) : ps[k] = plan[i].path
      BY <1>4
    <3>2. plan[i].path \in Paths
      BY <1>4 DEF Tool!ChangeOf
    <3>3. ps[k] \in Tool!Existing
      BY <2>6, <3>1, <3>2 DEF Tool!Existing
    <3> QED
      BY <1>5, <1>7, <3>1, <3>3
  <2>7. \A q, t : Tool!Knows(y.l, q, t) = Tool!Knows(ledger, q, t)'
    BY <1>2 DEF Tool!Knows
  <2>8. Tool!AskedOfKnown'
    <3> SUFFICES ASSUME NEW i \in DOMAIN plan
                 PROVE  plan[i].old = None \/ plan[i].path \in raced \/ Tool!Knows(y.l, plan[i].path, plan[i].old)
      BY <1>2, <2>1 DEF Tool!AskedOfKnown, Tool!Knows
    <3> QED
      BY <1>4, <2>6
  <2>9. Tool!WritesOfKnown'
    <3>1. ASSUME NEW i \in DOMAIN plan
          PROVE  \/ plan[i].path \in raced
                 \/ /\ i > 0 /\ plan[i].old \in {None, disk[plan[i].path]}
                    /\ disk[plan[i].path] # None => Tool!Knows(y.l, plan[i].path, disk[plan[i].path])
      <4>1. i > 0
        BY <1>4
      <4> QED
        BY <1>4, <2>6, <4>1
    <3> QED
      BY <1>2, <2>1, <2>2, <3>1 DEF Tool!WritesOfKnown, Tool!Knows
  <2>10. call'.stage # "read"
    BY <2>1
  <2>11. Tool!EditsAreInformed'
    BY <1>2 DEF Tool!IInv, Tool!EditsAreInformed
  <2>12. /\ disk' \in [Paths -> Tool!Whole \cup {None}]
         /\ stamp' \in [Paths -> Nat] /\ clock' \in Nat /\ \A q \in Paths : stamp'[q] <= clock'
    BY <2>2 DEF Tool!IInv
  <2> QED
    BY <1>2, <1>5, <2>3, <2>5, <2>8, <2>9, <2>10, <2>11, <2>12 DEF Tool!IInv
<1> QED
  BY <1>6, <1>7

LEMMA CallsHold ==
  ASSUME Tool!IInv, NEW p \in Paths, Tool!Writes(p) \/ Tool!EditsFile(p)
  PROVE  Tool!IInv'
<1>1. disk \in [Paths -> Tool!Whole \cup {None}]
  BY DEF Tool!IInv
<1>2. CASE Tool!Writes(p)
  <2>1. PICK asks \in BOOLEAN, x \in Letters :
          Tool!Begins(<<p>>, Tool!WritePlan(p, <<x>>, asks), asks)
    BY <1>2 DEF Tool!Writes
  <2>2. GoodPlan(<<p>>, Tool!WritePlan(p, <<x>>, asks))
    BY <1>1, WritePlanIsGood
  <2>3. Tool!Free
    BY <1>2 DEF Tool!Writes
  <2> QED
    BY <2>1, <2>2, <2>3, BeginsHolds
<1>3. CASE Tool!EditsFile(p)
  <2>1. PICK asks \in BOOLEAN, e \in Tool!Edits, f \in Tool!Edits \cup {None} :
          Tool!Begins(<<p>>, Tool!EditPlan(p, e, f), asks)
    BY <1>3 DEF Tool!EditsFile
  <2>2. GoodPlan(<<p>>, Tool!EditPlan(p, e, f))
    BY <1>1, EditPlanIsGood
  <2>3. Tool!Free
    BY <1>3 DEF Tool!EditsFile
  <2> QED
    BY <2>1, <2>2, <2>3, BeginsHolds
<1> QED
  BY <1>2, <1>3

LEMMA PatchesHolds ==
  ASSUME Tool!IInv, Tool!Patches PROVE Tool!IInv'
<1>1. disk \in [Paths -> Tool!Whole \cup {None}]
  BY DEF Tool!IInv
<1>2. PICK asks \in BOOLEAN, o \in Tool!Operations, n \in Tool!Operations \cup {None} :
        Tool!Begins(IF n = None THEN Tool!Named(o) ELSE Tool!Named(o) \o Tool!Named(n), Tool!PatchPlan(o, n), asks)
  BY DEF Tool!Patches
<1>3. PICK ps : ps = IF n = None THEN Tool!Named(o) ELSE Tool!Named(o) \o Tool!Named(n)
  OBVIOUS
<1>4. GoodPlan(ps, Tool!PatchPlan(o, n))
  BY <1>1, <1>3, PatchPlanIsGood
<1>5. Tool!Free
  BY DEF Tool!Patches
<1> QED
  BY <1>2, <1>3, <1>4, <1>5, BeginsHolds

LEMMA RefusedHolds ==
  ASSUME Tool!IInv, Tool!Refused PROVE Tool!IInv'
<1>1. /\ call' = Tool!Idle /\ UNCHANGED Tool!diskVars /\ UNCHANGED <<raced, blind, misled>>
      /\ ledger' = ledger /\ misread' = misread
  BY DEF Tool!Refused
<1>2. Tool!LedgerTells(ledger) /\ Len(ledger) <= MaxRecords /\ misread' \subseteq raced
  BY <1>1 DEF Tool!IInv, Tool!EditsAreInformed
<1> QED
  BY <1>1, <1>2, RestsHold

\* A tool that works keeps what it is to do.
LEMMA CallGoesOn ==
  ASSUME DOMAIN call = DOMAIN Tool!Idle, NEW n, NEW originals, NEW stage,
         call' = [call EXCEPT !.done = n, !.originals = originals, !.stage = stage]
  PROVE  /\ DOMAIN call' = DOMAIN Tool!Idle /\ call'.changes = call.changes
         /\ call'.done = n /\ call'.originals = originals /\ call'.stage = stage
BY DEF Tool!Idle

LEMMA StageGoesOn ==
  ASSUME DOMAIN call = DOMAIN Tool!Idle, NEW stage, call' = [call EXCEPT !.stage = stage]
  PROVE  /\ DOMAIN call' = DOMAIN Tool!Idle /\ call'.changes = call.changes
         /\ call'.done = call.done /\ call'.originals = call.originals /\ call'.stage = stage
BY DEF Tool!Idle

LEMMA AllowedHolds ==
  ASSUME Tool!IInv, Tool!Allowed PROVE Tool!IInv'
<1>1. /\ call.stage = "asked" /\ call' = [call EXCEPT !.stage = "check"]
      /\ UNCHANGED Tool!diskVars /\ UNCHANGED <<ledger, raced, blind, misled, misread>>
  BY DEF Tool!Allowed
<1>2. UNCHANGED <<disk, stamp, clock>>
  BY <1>1 DEF Tool!diskVars
<1>3. Tool!PlanHolds /\ Tool!AskedOfKnown /\ Tool!Planned
  BY <1>1 DEF Tool!IInv, Tool!Planned
<1>4. Tool!LedgerTells(ledger)'
  BY <1>1, <1>2, StillTells DEF Tool!IInv
<1>5. Tool!EditsAreInformed' /\ Len(ledger') <= MaxRecords
  BY <1>1 DEF Tool!IInv, Tool!EditsAreInformed
<1>6. /\ disk' \in [Paths -> Tool!Whole \cup {None}]
      /\ stamp' \in [Paths -> Nat] /\ clock' \in Nat /\ \A q \in Paths : stamp'[q] <= clock'
  BY <1>2 DEF Tool!IInv
<1>7. /\ DOMAIN call = DOMAIN Tool!Idle
      /\ call.changes \in Seq(Tool!ChangeOf) /\ Tool!OneOfEach(call.changes)
      /\ call.done \in 0 .. Len(call.changes) /\ Len(call.changes) > 0
      /\ call.done > 0 => call.originals \in [Paths -> Tool!Whole \cup {None}]
      /\ call.done = 0
  BY <1>1, <1>3 DEF Tool!PlanHolds
<1>8. /\ DOMAIN call' = DOMAIN Tool!Idle /\ call'.changes = call.changes
      /\ call'.done = call.done /\ call'.originals = call.originals /\ call'.stage = "check"
  BY <1>1, <1>7, StageGoesOn
<1>9. (DOMAIN Tool!Idle)' = DOMAIN Tool!Idle
  BY DEF Tool!Idle
<1>10. Tool!PlanHolds'
  <2>1. Tool!OneOfEach(call.changes)'
    BY <1>7, <1>8 DEF Tool!OneOfEach
  <2> QED
    BY <1>7, <1>8, <1>9, <2>1 DEF Tool!PlanHolds
<1>11. Tool!AskedOfKnown'
  BY <1>1, <1>3, <1>8 DEF Tool!AskedOfKnown, Tool!Knows
<1>12. Tool!WritesOfKnown'
  BY <1>8 DEF Tool!WritesOfKnown
<1> QED
  BY <1>4, <1>5, <1>6, <1>8, <1>10, <1>11, <1>12 DEF Tool!IInv

\* Once it is allowed, what is there is checked again: it is still what the
\* change was computed from.
LEMMA ChecksHolds ==
  ASSUME Tool!IInv, Tool!Checks PROVE Tool!IInv'
<1>1. PICK asked : asked = Tool!Existing \cup {c.path : c \in {d \in Tool!Range(call.changes) : d.old # None}}
  OBVIOUS
<1>2. PICK y : y = Tool!Checked(ledger, Tool!Targets, asked)
  OBVIOUS
<1>3. /\ call.stage = "check" /\ ledger' = y.l
      /\ call' = IF y.ok THEN [call EXCEPT !.stage = "write"] ELSE Tool!Idle
      /\ UNCHANGED Tool!diskVars /\ UNCHANGED <<raced, blind, misled>> /\ misread' = misread
  BY <1>1, <1>2 DEF Tool!Checks
<1>4. Tool!PlanHolds /\ Tool!AskedOfKnown /\ Tool!Planned
  BY <1>3 DEF Tool!IInv, Tool!Planned
<1>5. /\ DOMAIN call = DOMAIN Tool!Idle
      /\ call.changes \in Seq(Tool!ChangeOf) /\ Tool!OneOfEach(call.changes)
      /\ call.done \in 0 .. Len(call.changes) /\ call.done = 0 /\ Len(call.changes) > 0
  BY <1>3, <1>4 DEF Tool!PlanHolds
<1>6. PICK cs : cs = call.changes
  OBVIOUS
<1>7. /\ DOMAIN cs = 1 .. Len(cs) /\ Len(cs) \in Nat
      /\ \A i \in DOMAIN cs : cs[i] \in Tool!ChangeOf /\ cs[i].path \in Paths
  <2>1. cs \in Seq(Tool!ChangeOf)
    BY <1>5, <1>6
  <2>2. \A i \in DOMAIN cs : cs[i] \in Tool!ChangeOf
    BY <2>1
  <2>3. \A c \in Tool!ChangeOf : c.path \in Paths
    BY DEF Tool!ChangeOf
  <2> QED
    BY <2>1, <2>2, <2>3
<1>8. PICK ps : ps = Tool!Targets
  OBVIOUS
<1>9. ps = [i \in DOMAIN cs |-> cs[i].path]
  BY <1>6, <1>8 DEF Tool!Targets
<1>10. ps \in Seq(Paths) /\ Len(ps) = Len(cs)
  BY <1>7, <1>9
<1>11. /\ Tool!LedgerTells(ledger) /\ Len(ledger) <= MaxRecords
       /\ stamp \in [Paths -> Nat] /\ disk \in [Paths -> Tool!Whole \cup {None}]
       /\ misread \subseteq raced
  BY DEF Tool!IInv, Tool!EditsAreInformed
<1>12. /\ Tool!LedgerTells(y.l) /\ Len(y.l) <= MaxRecords
       /\ \A q, t : Tool!Knows(ledger, q, t) => Tool!Knows(y.l, q, t)
       /\ y.ok => \A k \in 1 .. Len(ps) : ps[k] \in asked =>
                    disk[ps[k]] # None /\ (ps[k] \in raced \/ Tool!Knows(y.l, ps[k], disk[ps[k]]))
  BY <1>2, <1>8, <1>10, <1>11, CheckedTells
<1>13. CASE ~y.ok
  <2>1. call' = Tool!Idle
    BY <1>3, <1>13
  <2> QED
    BY <1>3, <1>11, <1>12, <2>1, RestsHold
<1>14. CASE y.ok
  <2>1. call' = [call EXCEPT !.stage = "write"]
    BY <1>3, <1>14
  <2>2. /\ DOMAIN call' = DOMAIN Tool!Idle /\ call'.changes = cs
        /\ call'.done = 0 /\ call'.stage = "write"
    BY <1>5, <1>6, <2>1, StageGoesOn
  <2>3. UNCHANGED <<disk, stamp, clock>>
    BY <1>3 DEF Tool!diskVars
  <2>4. Tool!LedgerTells(ledger)'
    BY <1>3, <1>12, <2>3, StillTells
  <2>5. (DOMAIN Tool!Idle)' = DOMAIN Tool!Idle
    BY DEF Tool!Idle
  <2>6. Len(cs) > 0
    BY <1>5, <1>6
  <2>7. Tool!PlanHolds'
    <3>1. Tool!OneOfEach(call.changes)'
      BY <1>5, <1>6, <2>2 DEF Tool!OneOfEach
    <3>2. 0 \in 0 .. Len(cs)
      BY <1>7
    <3> QED
      BY <1>5, <1>6, <2>2, <2>5, <2>6, <3>1, <3>2 DEF Tool!PlanHolds
  <2>8. Tool!AskedOfKnown'
    BY <2>2 DEF Tool!AskedOfKnown
  <2>9. ASSUME NEW i \in DOMAIN cs
        PROVE  \/ cs[i].path \in raced
               \/ /\ i > 0 /\ cs[i].old \in {None, disk[cs[i].path]}
                  /\ disk[cs[i].path] # None => Tool!Knows(y.l, cs[i].path, disk[cs[i].path])
    <3>1. SUFFICES ASSUME cs[i].path \notin raced
                   PROVE  /\ i > 0 /\ cs[i].old \in {None, disk[cs[i].path]}
                          /\ disk[cs[i].path] # None => Tool!Knows(y.l, cs[i].path, disk[cs[i].path])
      OBVIOUS
    <3>2. i > 0 /\ i \in 1 .. Len(ps) /\ ps[i] = cs[i].path
      BY <1>7, <1>9, <1>10
    <3>3. cs[i].path \in asked =>
            disk[cs[i].path] # None /\ Tool!Knows(y.l, cs[i].path, disk[cs[i].path])
      BY <1>12, <1>14, <3>1, <3>2
    <3>4. disk[cs[i].path] # None => cs[i].path \in asked
      BY <1>1, <1>7 DEF Tool!Existing
    <3>5. cs[i].old # None => cs[i].path \in asked
      BY <1>1, <1>6 DEF Tool!Range
    <3>6. cs[i].old # None => Tool!Knows(ledger, cs[i].path, cs[i].old)
      BY <1>3, <1>4, <1>6, <3>1 DEF Tool!AskedOfKnown
    <3>7. cs[i].old # None => cs[i].old = disk[cs[i].path]
      BY <1>12, <3>3, <3>5, <3>6, KnowsIsOne
    <3> QED
      BY <3>2, <3>3, <3>4, <3>7
  <2>10. Tool!WritesOfKnown'
    BY <1>3, <2>2, <2>3, <2>9 DEF Tool!WritesOfKnown, Tool!Knows
  <2>11. Tool!EditsAreInformed'
    BY <1>3 DEF Tool!IInv, Tool!EditsAreInformed
  <2>12. /\ disk' \in [Paths -> Tool!Whole \cup {None}]
         /\ stamp' \in [Paths -> Nat] /\ clock' \in Nat /\ \A q \in Paths : stamp'[q] <= clock'
    BY <2>3 DEF Tool!IInv
  <2>13. call'.stage # "read"
    BY <2>2
  <2> QED
    BY <1>3, <1>12, <2>4, <2>7, <2>8, <2>10, <2>11, <2>12, <2>13 DEF Tool!IInv
<1> QED
  BY <1>13, <1>14

LEMMA WritesNextHolds ==
  ASSUME Tool!IInv, Tool!WritesNext PROVE Tool!IInv'
<1>1. PICK cs : cs = call.changes
  OBVIOUS
<1>2. PICK n : n = call.done + 1
  OBVIOUS
<1>3. PICK c : c = cs[n]
  OBVIOUS
<1>4. /\ call.stage = "write" /\ Tool!Written(c.path, c.new)
      /\ blind' = IF disk[c.path] # None /\ ~(Tool!Has(ledger, c.path) /\ Tool!Of(ledger, c.path).seen = disk[c.path])
                  THEN blind \cup {c.path} ELSE blind
      /\ misled' = IF (c.old # None \/ disk[c.path] = None) /\ c.old # disk[c.path]
                   THEN misled \cup {c.path} ELSE misled
      /\ call' = [call EXCEPT !.done = @ + 1, !.originals = Tool!Originals,
                              !.stage = IF n = Len(cs) THEN "record" ELSE "write"]
      /\ UNCHANGED <<ledger, raced, misread>>
  BY <1>1, <1>2, <1>3 DEF Tool!WritesNext
<1>5. Tool!PlanHolds /\ Tool!WritesOfKnown /\ Tool!Planned
  BY <1>4 DEF Tool!IInv, Tool!Planned
<1>6. /\ DOMAIN call = DOMAIN Tool!Idle
      /\ cs \in Seq(Tool!ChangeOf) /\ Tool!OneOfEach(cs) /\ Len(cs) > 0
      /\ call.done \in 0 .. Len(cs) /\ call.done < Len(cs)
      /\ call.done > 0 => call.originals \in [Paths -> Tool!Whole \cup {None}]
  BY <1>1, <1>4, <1>5 DEF Tool!PlanHolds
<1>7. /\ DOMAIN cs = 1 .. Len(cs) /\ Len(cs) \in Nat /\ n \in DOMAIN cs /\ n \in 1 .. Len(cs)
      /\ call.done \in Nat /\ n > call.done
  BY <1>2, <1>6
<1>8. \A i \in DOMAIN cs : cs[i] \in Tool!ChangeOf
  BY <1>6
<1>9. \A d \in Tool!ChangeOf : d.path \in Paths /\ d.new \in Tool!Whole \cup {None}
  BY DEF Tool!ChangeOf
<1>10. c.path \in Paths /\ c.new \in Tool!Whole \cup {None}
  BY <1>3, <1>7, <1>8, <1>9
<1>11. /\ disk \in [Paths -> Tool!Whole \cup {None}] /\ stamp \in [Paths -> Nat]
       /\ Tool!LedgerTells(ledger)
       /\ blind \subseteq raced /\ misled \subseteq raced /\ misread \subseteq raced
  BY DEF Tool!IInv, Tool!EditsAreInformed
<1>12. PICK originals : originals = Tool!Originals
  OBVIOUS
<1>13. originals \in [Paths -> Tool!Whole \cup {None}]
  BY <1>6, <1>7, <1>11, <1>12 DEF Tool!Originals
<1>14. PICK stage : stage = IF n = Len(cs) THEN "record" ELSE "write"
  OBVIOUS
<1>15. call' = [call EXCEPT !.done = n, !.originals = originals, !.stage = stage]
  BY <1>2, <1>4, <1>12, <1>14
<1>16. /\ DOMAIN call' = DOMAIN Tool!Idle /\ call'.changes = cs
       /\ call'.done = n /\ call'.originals = originals /\ call'.stage = stage
  BY <1>1, <1>6, <1>15, CallGoesOn
<1>17. /\ stage \in {"record", "write"} /\ (stage = "write" => n < Len(cs))
       /\ stage = "record" => n = Len(cs)
  BY <1>7, <1>14
<1>18. disk' = [disk EXCEPT ![c.path] = c.new] /\ clock' = clock + 1 /\ stamp' = [stamp EXCEPT ![c.path] = clock + 1]
  BY <1>4 DEF Tool!Written
<1>19. disk' \in [Paths -> Tool!Whole \cup {None}]
  BY <1>10, <1>11, <1>18
<1>20. /\ Tool!LedgerTells(ledger)' /\ Len(ledger') <= MaxRecords
       /\ stamp' \in [Paths -> Nat] /\ clock' \in Nat /\ \A p \in Paths : stamp'[p] <= clock'
  <2>1. PICK S : S = {c.path}
    OBVIOUS
  <2>2. S \in SUBSET Paths
    BY <1>10, <2>1
  <2>3. stamp' = [p \in Paths |-> IF p \in S THEN clock + 1 ELSE stamp[p]]
    BY <1>10, <1>11, <1>18, <2>1
  <2>4. \A p \in Paths \ S : disk'[p] = disk[p]
    BY <1>11, <1>18, <2>1
  <2>5. raced \subseteq raced' /\ UNCHANGED ledger /\ clock' = clock + 1
    BY <1>4, <1>18
  <2> QED
    BY <2>2, <2>3, <2>4, <2>5, ChangedTells
<1>21. (DOMAIN Tool!Idle)' = DOMAIN Tool!Idle
  BY DEF Tool!Idle
<1>22. Tool!PlanHolds'
  <2>1. Tool!OneOfEach(call.changes)'
    BY <1>6, <1>16 DEF Tool!OneOfEach
  <2>2. n \in 0 .. Len(cs)
    BY <1>7
  <2> QED
    BY <1>6, <1>13, <1>16, <1>17, <1>21, <2>1, <2>2 DEF Tool!PlanHolds
<1>23. Tool!AskedOfKnown'
  BY <1>16, <1>17 DEF Tool!AskedOfKnown
<1>24. \A i \in DOMAIN cs :
         \/ cs[i].path \in raced
         \/ i <= call.done /\ disk[cs[i].path] = cs[i].new
         \/ /\ i > call.done /\ cs[i].old \in {None, disk[cs[i].path]}
            /\ (disk[cs[i].path] # None => Tool!Knows(ledger, cs[i].path, disk[cs[i].path]))
  BY <1>1, <1>4, <1>5 DEF Tool!WritesOfKnown
<1>25. ASSUME NEW i \in DOMAIN cs
       PROVE  \/ cs[i].path \in raced
              \/ i <= n /\ disk'[cs[i].path] = cs[i].new
              \/ /\ i > n /\ cs[i].old \in {None, disk'[cs[i].path]}
                 /\ (disk'[cs[i].path] # None => Tool!Knows(ledger, cs[i].path, disk'[cs[i].path]))
  <2>1. CASE i = n
    <3>1. disk'[c.path] = c.new
      BY <1>10, <1>11, <1>18
    <3> QED
      BY <1>3, <1>7, <2>1, <3>1
  <2>2. CASE i # n
    <3>1. cs[i].path # c.path
      BY <1>3, <1>6, <1>7, <2>2 DEF Tool!OneOfEach
    <3>2. disk'[cs[i].path] = disk[cs[i].path]
      BY <1>11, <1>18, <3>1
    <3>3. i <= call.done => i <= n
      BY <1>2, <1>7
    <3>4. i > call.done => i > n
      BY <1>2, <1>7, <2>2
    <3> QED
      BY <1>24, <3>2, <3>3, <3>4
  <2> QED
    BY <2>1, <2>2
<1>26. Tool!WritesOfKnown'
  <2>1. \A q, t : Tool!Knows(ledger', q, t) = Tool!Knows(ledger, q, t)
    BY <1>4
  <2>2. \A i \in DOMAIN cs :
         \/ cs[i].path \in raced'
         \/ i <= n /\ disk'[cs[i].path] = cs[i].new
         \/ /\ i > n /\ cs[i].old \in {None, disk'[cs[i].path]}
            /\ (disk'[cs[i].path] # None => Tool!Knows(ledger', cs[i].path, disk'[cs[i].path]))
    BY <1>4, <1>25, <2>1
  <2> QED
    BY <1>16, <2>2 DEF Tool!WritesOfKnown, Tool!Knows
<1>27. \/ c.path \in raced
       \/ c.old \in {None, disk[c.path]} /\ (disk[c.path] # None => Tool!Knows(ledger, c.path, disk[c.path]))
  BY <1>3, <1>7, <1>24
<1>28. blind' \subseteq raced
  <2>1. CASE disk[c.path] # None /\ ~(Tool!Has(ledger, c.path) /\ Tool!Of(ledger, c.path).seen = disk[c.path])
    <3>1. ASSUME c.path \notin raced PROVE FALSE
      <4>1. Tool!Knows(ledger, c.path, disk[c.path])
        BY <1>27, <2>1, <3>1
      <4>2. Tool!Has(ledger, c.path)
        BY <4>1 DEF Tool!Knows, Tool!Has, Tool!Range
      <4>3. Tool!Of(ledger, c.path).seen = disk[c.path]
        BY <1>11, <4>1, <4>2, OfIsTheRecord
      <4> QED
        BY <2>1, <4>2, <4>3
    <3> QED
      BY <1>4, <1>11, <2>1, <3>1
  <2>2. CASE ~(disk[c.path] # None /\ ~(Tool!Has(ledger, c.path) /\ Tool!Of(ledger, c.path).seen = disk[c.path]))
    BY <1>4, <1>11, <2>2
  <2> QED
    BY <2>1, <2>2
<1>29. misled' \subseteq raced
  BY <1>4, <1>11, <1>27
<1>30. Tool!EditsAreInformed'
  BY <1>4, <1>11, <1>28, <1>29 DEF Tool!EditsAreInformed
<1>31. call'.stage # "read"
  BY <1>16, <1>17
<1> QED
  BY <1>19, <1>20, <1>22, <1>23, <1>26, <1>30, <1>31 DEF Tool!IInv

LEMMA WriteFailsHolds ==
  ASSUME Tool!IInv, Tool!WriteFails PROVE Tool!IInv'
<1>1. PICK undone : undone = {call.changes[i].path : i \in 1 .. call.done + 1}
  OBVIOUS
<1>2. PICK originals : originals = Tool!Originals
  OBVIOUS
<1>3. /\ call.stage = "write"
      /\ disk' = [p \in Paths |-> IF p \in undone THEN originals[p] ELSE disk[p]]
      /\ clock' = clock + 1 /\ stamp' = [p \in Paths |-> IF p \in undone THEN clock + 1 ELSE stamp[p]]
      /\ call' = Tool!Idle
      /\ UNCHANGED <<ledger, raced, blind, misled, misread>>
  BY <1>1, <1>2 DEF Tool!WriteFails
<1>4. Tool!PlanHolds /\ Tool!Planned
  BY <1>3 DEF Tool!IInv, Tool!Planned
<1>5. /\ disk \in [Paths -> Tool!Whole \cup {None}] /\ stamp \in [Paths -> Nat]
  BY DEF Tool!IInv
<1>6. originals \in [Paths -> Tool!Whole \cup {None}]
  <2>1. call.changes \in Seq(Tool!ChangeOf) /\ call.done \in 0 .. Len(call.changes)
        /\ (call.done > 0 => call.originals \in [Paths -> Tool!Whole \cup {None}])
    BY <1>4 DEF Tool!PlanHolds
  <2>2. call.done = 0 \/ call.done > 0
    BY <2>1
  <2> QED
    BY <1>2, <1>5, <2>1, <2>2 DEF Tool!Originals
<1>7. disk' \in [Paths -> Tool!Whole \cup {None}]
  BY <1>3, <1>5, <1>6
<1>8. /\ Tool!LedgerTells(ledger)' /\ Len(ledger') <= MaxRecords
      /\ stamp' \in [Paths -> Nat] /\ clock' \in Nat /\ \A p \in Paths : stamp'[p] <= clock'
  <2>1. PICK S : S = undone \cap Paths
    OBVIOUS
  <2>2. S \in SUBSET Paths /\ \A p \in Paths : p \in S <=> p \in undone
    BY <2>1
  <2>3. stamp' = [p \in Paths |-> IF p \in S THEN clock + 1 ELSE stamp[p]]
    BY <1>3, <2>2
  <2>4. \A p \in Paths \ S : disk'[p] = disk[p]
    BY <1>3, <2>2
  <2>5. raced \subseteq raced' /\ UNCHANGED ledger /\ clock' = clock + 1
    BY <1>3
  <2> QED
    BY <2>2, <2>3, <2>4, <2>5, ChangedTells
<1>9. call'.stage = "idle" /\ Tool!PlanHolds' /\ Tool!AskedOfKnown' /\ Tool!WritesOfKnown'
  BY <1>3, IdleHolds
<1>10. Tool!EditsAreInformed'
  BY <1>3 DEF Tool!IInv, Tool!EditsAreInformed
<1> QED
  BY <1>7, <1>8, <1>9, <1>10 DEF Tool!IInv

LEMMA RecordsWrittenHolds ==
  ASSUME Tool!IInv, Tool!RecordsWritten PROVE Tool!IInv'
<1>1. /\ call.stage = "record" /\ call' = Tool!Idle /\ ledger' = Tool!Recorded(ledger, call.changes)
      /\ UNCHANGED Tool!diskVars /\ UNCHANGED <<raced, blind, misled>> /\ misread' = misread
  BY DEF Tool!RecordsWritten
<1>2. Tool!PlanHolds /\ Tool!WritesOfKnown /\ Tool!Planned
  BY <1>1 DEF Tool!IInv, Tool!Planned
<1>3. /\ call.changes \in Seq(Tool!ChangeOf)
      /\ call.done \in 0 .. Len(call.changes)
  BY <1>2 DEF Tool!PlanHolds
<1>4. /\ Tool!LedgerTells(ledger) /\ Len(ledger) <= MaxRecords
      /\ stamp \in [Paths -> Nat] /\ misread \subseteq raced
  BY DEF Tool!IInv, Tool!EditsAreInformed
<1>5. call.done = Len(call.changes)
  BY <1>1, <1>2 DEF Tool!PlanHolds
<1>6. \A i \in DOMAIN call.changes :
        call.changes[i].path \in raced \/ disk[call.changes[i].path] = call.changes[i].new
  <2>1. \A i \in DOMAIN call.changes : ~(i > call.done)
    BY <1>3, <1>5
  <2> QED
    BY <1>1, <1>2, <2>1 DEF Tool!WritesOfKnown
<1>7. Tool!LedgerTells(ledger') /\ Len(ledger') <= MaxRecords
  BY <1>1, <1>3, <1>4, <1>6, RecordedTells
<1> QED
  BY <1>1, <1>4, <1>7, RestsHold

\* What somebody else changes is raced if a tool is between two of its steps.
LEMMA OutsideHolds ==
  ASSUME Tool!IInv, NEW p \in Paths, Tool!Outside(p) PROVE Tool!IInv'
<1>1. PICK text \in {<<x>> : x \in Letters} \cup {None} : Tool!Written(p, text)
  BY DEF Tool!Outside
<1>2. /\ raced' = IF (call.stage = "read" /\ call.path = p)
                     \/ (call.stage \in {"write", "record"} /\ p \in Tool!Range(Tool!Targets))
                  THEN raced \cup {p} ELSE raced
      /\ UNCHANGED Tool!agentVars /\ UNCHANGED <<blind, misled, misread>>
  BY DEF Tool!Outside
<1>3. UNCHANGED <<ledger, call>> /\ raced \subseteq raced'
  BY <1>2 DEF Tool!agentVars
<1>4. text \in Tool!Whole \cup {None}
  <2>1. \A x \in Letters : <<x>> \in Seq(Letters) /\ <<x>> # <<>>
    OBVIOUS
  <2> QED
    BY <2>1 DEF Tool!Whole
<1>5. disk' = [disk EXCEPT ![p] = text] /\ clock' = clock + 1 /\ stamp' = [stamp EXCEPT ![p] = clock + 1]
  BY <1>1 DEF Tool!Written
<1>6. /\ disk \in [Paths -> Tool!Whole \cup {None}] /\ stamp \in [Paths -> Nat]
  BY DEF Tool!IInv
<1>7. disk' \in [Paths -> Tool!Whole \cup {None}]
  BY <1>4, <1>5, <1>6
<1>8. \A q \in Paths : q # p => disk'[q] = disk[q]
  BY <1>5, <1>6
<1>9. /\ Tool!LedgerTells(ledger)' /\ Len(ledger') <= MaxRecords
      /\ stamp' \in [Paths -> Nat] /\ clock' \in Nat /\ \A q \in Paths : stamp'[q] <= clock'
  <2>1. PICK S : S = {p}
    OBVIOUS
  <2>2. S \in SUBSET Paths
    BY <2>1
  <2>3. stamp' = [q \in Paths |-> IF q \in S THEN clock + 1 ELSE stamp[q]]
    BY <1>5, <1>6, <2>1
  <2>4. \A q \in Paths \ S : disk'[q] = disk[q]
    BY <1>8, <2>1
  <2> QED
    BY <1>3, <1>5, <2>2, <2>3, <2>4, ChangedTells
<1>10. (DOMAIN Tool!Idle)' = DOMAIN Tool!Idle
  BY DEF Tool!Idle
<1>11. Tool!PlanHolds'
  <2>1. Tool!PlanHolds
    BY DEF Tool!IInv
  <2> QED
    BY <1>3, <1>10, <2>1 DEF Tool!PlanHolds, Tool!OneOfEach, Tool!Planned
<1>12. Tool!AskedOfKnown'
  <2>1. Tool!AskedOfKnown
    BY DEF Tool!IInv
  <2> QED
    BY <1>3, <2>1 DEF Tool!AskedOfKnown, Tool!Knows
<1>13. call.stage = "read" => call.path \in raced' \/ disk'[call.path] = call.text
  BY <1>2, <1>3, <1>8 DEF Tool!IInv
<1>14. Tool!WritesOfKnown'
  <2> SUFFICES ASSUME call.stage \in {"write", "record"}, NEW i \in DOMAIN call.changes,
                      NEW c, c = call.changes[i]
               PROVE  \/ c.path \in raced'
                      \/ i <= call.done /\ disk'[c.path] = c.new
                      \/ /\ i > call.done /\ c.old \in {None, disk'[c.path]}
                         /\ (disk'[c.path] # None => Tool!Knows(ledger, c.path, disk'[c.path]))
    BY <1>3 DEF Tool!WritesOfKnown, Tool!Knows
  <2>1. Tool!WritesOfKnown /\ Tool!PlanHolds /\ Tool!Planned
    BY DEF Tool!IInv, Tool!Planned
  <2>2. c \in Tool!ChangeOf
    BY <2>1 DEF Tool!PlanHolds
  <2>3. c.path \in Paths
    BY <2>2 DEF Tool!ChangeOf
  <2>4. CASE c.path = p
    <3>1. Tool!Targets = [j \in DOMAIN call.changes |-> call.changes[j].path]
      BY DEF Tool!Targets
    <3>2. p \in Tool!Range(Tool!Targets)
      BY <2>4, <3>1 DEF Tool!Range
    <3> QED
      BY <1>2, <2>4, <3>2
  <2>5. CASE c.path # p
    <3>1. disk'[c.path] = disk[c.path]
      BY <1>8, <2>3, <2>5
    <3>2. \/ c.path \in raced
          \/ i <= call.done /\ disk[c.path] = c.new
          \/ /\ i > call.done /\ c.old \in {None, disk[c.path]}
             /\ (disk[c.path] # None => Tool!Knows(ledger, c.path, disk[c.path]))
      BY <2>1 DEF Tool!WritesOfKnown
    <3> QED
      BY <1>3, <3>1, <3>2
  <2> QED
    BY <2>4, <2>5
<1>15. Tool!EditsAreInformed'
  BY <1>2, <1>3 DEF Tool!IInv, Tool!EditsAreInformed
<1>16. call.stage = "read" => call.path \in Paths /\ call.text \in Tool!Whole /\ call.ranged \in BOOLEAN
  BY DEF Tool!IInv
<1> QED
  BY <1>3, <1>7, <1>9, <1>11, <1>12, <1>13, <1>14, <1>15, <1>16 DEF Tool!IInv

LEMMA ToolStep ==
  ASSUME Tool!IInv, [Tool!Next]_toolVars PROVE Tool!IInv'
<1>1. CASE UNCHANGED toolVars
  <2>1. UNCHANGED <<disk, stamp, clock, ledger, call, raced, blind, misled, misread>>
    BY <1>1 DEF toolVars
  <2>2. Tool!LedgerTells(ledger)'
    BY <2>1, StillTells DEF Tool!IInv
  <2>3. (DOMAIN Tool!Idle)' = DOMAIN Tool!Idle
    BY DEF Tool!Idle
  <2>4. Tool!PlanHolds'
    BY <2>1, <2>3 DEF Tool!IInv, Tool!PlanHolds, Tool!OneOfEach, Tool!Planned
  <2>5. Tool!AskedOfKnown'
    BY <2>1 DEF Tool!IInv, Tool!AskedOfKnown, Tool!Knows
  <2>6. Tool!WritesOfKnown'
    BY <2>1 DEF Tool!IInv, Tool!WritesOfKnown, Tool!Knows
  <2>7. Tool!EditsAreInformed'
    BY <2>1 DEF Tool!IInv, Tool!EditsAreInformed
  <2> QED
    BY <2>1, <2>2, <2>4, <2>5, <2>6, <2>7 DEF Tool!IInv
<1>2. CASE Tool!Next
  <2>1. CASE Tool!Records \/ Tool!Patches \/ Tool!Allowed \/ Tool!Refused
    BY <2>1, RecordsHolds, PatchesHolds, AllowedHolds, RefusedHolds
  <2>2. CASE Tool!Checks \/ Tool!WritesNext \/ Tool!WriteFails \/ Tool!RecordsWritten
    BY <2>2, ChecksHolds, WritesNextHolds, WriteFailsHolds, RecordsWrittenHolds
  <2>3. ASSUME NEW p \in Paths, Tool!Injects(p) \/ Tool!Writes(p) \/ Tool!EditsFile(p) \/ Tool!Outside(p)
        PROVE  Tool!IInv'
    BY <2>3, InjectsHolds, CallsHold, OutsideHolds
  <2>4. ASSUME NEW p \in Paths, NEW ranged \in BOOLEAN, Tool!FromLedger(p, ranged) \/ Tool!Opens(p, ranged)
        PROVE  Tool!IInv'
    BY <2>4, FromLedgerHolds, OpensHolds
  <2> QED
    BY <1>2, <2>1, <2>2, <2>3, <2>4 DEF Tool!Next
<1> QED
  BY <1>1, <1>2

\* No tool overwrites a text the agent has not seen, nor one its change was not
\* computed from, unless somebody else came between two adjacent steps of it,
\* whoever changes the files and however often.
THEOREM ToolsAreInformed == Spec => [](part = "tools" => Tool!EditsAreInformed)
<1>1. Init => (part = "tools" => Tool!IInv)
  BY ToolInit DEF Init
<1>2. (part = "tools" => Tool!IInv) /\ [Next]_vars => (part = "tools" => Tool!IInv)'
  <2> SUFFICES ASSUME part = "tools" => Tool!IInv, [Next]_vars, part' = "tools" PROVE Tool!IInv'
    OBVIOUS
  <2>1. part = "tools" /\ [Tool!Next]_toolVars
    BY OnePartMoves
  <2> QED
    BY <2>1, ToolStep
<1>3. Tool!IInv => Tool!EditsAreInformed
  BY DEF Tool!IInv
<1> QED
  BY <1>1, <1>2, <1>3, PTL DEF Spec
-----------------------------------------------------------------------------
(* The hunks of a patch: Patches.                                           *)

\* How many of a set of places are up to one, and which is the i-th.
LEMMA UptoTells ==
  ASSUME NEW n \in Nat, NEW S \in SUBSET (1 .. n)
  PROVE  /\ Patch!Cardinality(S) \in Nat
         /\ \A k \in 0 .. n : Patch!Upto(S, k) \in 0 .. Patch!Cardinality(S)
         /\ \A k \in 0 .. n, m \in S : k < m => Patch!Upto(S, k) < Patch!Upto(S, m)
         /\ \A m \in S : Patch!Upto(S, m) \in 1 .. Patch!Cardinality(S)
<1>1. \A T : Patch!Cardinality(T) = Cardinality(T)
  BY DEF Patch!Cardinality, Cardinality
<1>2. IsFiniteSet(S)
  <2>1. IsFiniteSet(1 .. n) /\ S \subseteq 1 .. n
    BY FS_Interval
  <2> QED
    BY <2>1, FS_Subset
<1>20. \A x \in S : x \in Nat /\ x \in 1 .. n
  OBVIOUS
<1>3. Cardinality(S) \in Nat
  BY <1>2, FS_CardinalityType
<1>4. ASSUME NEW k \in 0 .. n
      PROVE  /\ IsFiniteSet({x \in S : x <= k}) /\ Cardinality({x \in S : x <= k}) \in Nat
             /\ Cardinality({x \in S : x <= k}) <= Cardinality(S)
             /\ Patch!Upto(S, k) = Cardinality({x \in S : x <= k})
  <2>1. {x \in S : x <= k} \subseteq S
    OBVIOUS
  <2>2. IsFiniteSet({x \in S : x <= k}) /\ Cardinality({x \in S : x <= k}) <= Cardinality(S)
    BY <1>2, <2>1, FS_Subset
  <2> QED
    BY <1>1, <2>2, FS_CardinalityType DEF Patch!Upto
<1>5. ASSUME NEW k \in 0 .. n, NEW m \in S, k < m
      PROVE  Patch!Upto(S, k) < Patch!Upto(S, m)
  <2>1. m \in 0 .. n
    OBVIOUS
  <2>2. PICK B : B = {x \in S : x <= k}
    OBVIOUS
  <2>3. PICK C : C = {x \in S : x <= m}
    OBVIOUS
  <2>4. IsFiniteSet(B) /\ Cardinality(B) \in Nat /\ Patch!Upto(S, k) = Cardinality(B)
    BY <1>4, <2>2
  <2>5. IsFiniteSet(C) /\ Cardinality(C) \in Nat /\ Patch!Upto(S, m) = Cardinality(C)
    BY <1>4, <2>1, <2>3
  <2>6. B \cup {m} \subseteq C /\ m \notin B
    <3>1. m \in C /\ m \notin B
      BY <1>5, <1>20, <2>1, <2>2, <2>3
    <3>2. \A x \in S : x <= k => x <= m
      BY <1>5, <1>20
    <3> QED
      BY <2>2, <2>3, <3>1, <3>2
  <2>7. Cardinality(B \cup {m}) = Cardinality(B) + 1
    BY <2>4, <2>6, FS_AddElement
  <2>8. Cardinality(B \cup {m}) <= Cardinality(C)
    BY <2>5, <2>6, FS_Subset
  <2> QED
    BY <2>4, <2>5, <2>7, <2>8
<1>6. \A k \in 0 .. n : Patch!Upto(S, k) \in 0 .. Patch!Cardinality(S)
  <2> TAKE k \in 0 .. n
  <2>1. PICK c \in Nat : c = Patch!Upto(S, k) /\ c <= Cardinality(S)
    BY <1>4
  <2> QED
    BY <1>1, <1>3, <2>1
<1>7. \A m \in S : Patch!Upto(S, m) \in 1 .. Patch!Cardinality(S)
  <2> TAKE m \in S
  <2>1. m \in 0 .. n /\ 0 \in 0 .. n /\ 0 < m
    OBVIOUS
  <2>2. Patch!Upto(S, 0) < Patch!Upto(S, m)
    BY <1>5, <2>1
  <2>3. Patch!Upto(S, 0) \in 0 .. Patch!Cardinality(S) /\ Patch!Upto(S, m) \in 0 .. Patch!Cardinality(S)
    BY <1>6, <2>1
  <2> QED
    BY <1>1, <1>3, <2>2, <2>3
<1> QED
  BY <1>1, <1>3, <1>5, <1>6, <1>7

LEMMA NthTells ==
  ASSUME NEW n \in Nat, NEW S \in SUBSET (1 .. n)
  PROVE  /\ \A i \in 1 .. Patch!Cardinality(S) : Patch!Nth(S, i) \in S /\ Patch!Upto(S, Patch!Nth(S, i)) = i
         /\ \A i, j \in 1 .. Patch!Cardinality(S) : i < j => Patch!Nth(S, i) < Patch!Nth(S, j)
         /\ \A m \in S : Patch!Nth(S, Patch!Upto(S, m)) = m
<1>1. PICK size \in Nat : size = Patch!Cardinality(S)
  BY UptoTells
<1>2. \A k \in 0 .. n : Patch!Upto(S, k) \in 0 .. size
  BY <1>1, UptoTells
<1>3. \A k \in 0 .. n, m \in S : k < m => Patch!Upto(S, k) < Patch!Upto(S, m)
  BY UptoTells
<1>4. \A m \in S : Patch!Upto(S, m) \in 1 .. size
  BY <1>1, UptoTells
<1>20. \A x \in S : x \in Nat /\ x \in 1 .. n /\ x <= n /\ ~(x <= 0)
  OBVIOUS
<1>5. ASSUME NEW i \in 1 .. size PROVE \E k \in S : Patch!Upto(S, k) = i
  <2>1. Patch!Upto(S, n) = size
    <3>1. {x \in S : x <= n} = S
      BY <1>20
    <3> QED
      BY <1>1, <3>1 DEF Patch!Upto
  <2>2. PICK T : T = {k \in 0 .. n : Patch!Upto(S, k) >= i}
    OBVIOUS
  <2>3. n \in T /\ T \in SUBSET Nat
    BY <2>1, <2>2
  <2>4. PICK k \in T : \A y \in T : k <= y
    BY <2>3, LeastNatural
  <2>5. k \in 0 .. n /\ Patch!Upto(S, k) >= i
    BY <2>2, <2>4
  <2>6. Patch!Upto(S, 0) = 0
    <3>1. {x \in S : x <= 0} = {}
      BY <1>20
    <3>2. Cardinality({}) = 0 /\ Patch!Cardinality({}) = Cardinality({})
      BY FS_EmptySet DEF Patch!Cardinality, Cardinality
    <3> QED
      BY <3>1, <3>2 DEF Patch!Upto
  <2>7. k # 0
    BY <2>5, <2>6
  <2>8. k - 1 \in 0 .. n /\ k \in 1 .. n
    BY <2>5, <2>7
  <2>9. Patch!Upto(S, k - 1) \in 0 .. size /\ Patch!Upto(S, k) \in 0 .. size
    BY <1>2, <2>5, <2>8
  <2>10. Patch!Upto(S, k - 1) < i
    <3>1. k - 1 \notin T
      BY <2>4, <2>5
    <3> QED
      BY <2>2, <2>8, <2>9, <3>1
  <2>11. k \in S /\ Patch!Upto(S, k) = Patch!Upto(S, k - 1) + 1
    <3>1. PICK B : B = {x \in S : x <= k - 1}
      OBVIOUS
    <3>2. PICK C : C = {x \in S : x <= k}
      OBVIOUS
    <3>3. C = IF k \in S THEN B \cup {k} ELSE B
      <4>1. \A x \in S : x <= k <=> x <= k - 1 \/ x = k
        BY <1>20, <2>8
      <4> QED
        BY <3>1, <3>2, <4>1
    <3>4. IsFiniteSet(B) /\ k \notin B
      <4>1. IsFiniteSet(1 .. n)
        BY FS_Interval
      <4>3. B \subseteq 1 .. n
        BY <1>20, <3>1
      <4>2. k \notin B
        BY <2>8, <3>1
      <4> QED
        BY <4>1, <4>2, <4>3, FS_Subset
    <3>5. Patch!Upto(S, k - 1) = Cardinality(B) /\ Patch!Upto(S, k) = Cardinality(C)
      <4>1. \A X : Patch!Cardinality(X) = Cardinality(X)
        BY DEF Patch!Cardinality, Cardinality
      <4> QED
        BY <3>1, <3>2, <4>1 DEF Patch!Upto
    <3>6. Cardinality(B \cup {k}) = Cardinality(B) + 1
      BY <3>4, FS_AddElement
    <3>7. k \in S
      BY <2>5, <2>9, <2>10, <3>3, <3>5
    <3> QED
      BY <3>3, <3>5, <3>6, <3>7
  <2> QED
    BY <2>5, <2>9, <2>10, <2>11
<1>6. \A i \in 1 .. size : Patch!Nth(S, i) \in S /\ Patch!Upto(S, Patch!Nth(S, i)) = i
  BY <1>5 DEF Patch!Nth
<1>7. \A a, b \in S : a < b => Patch!Upto(S, a) < Patch!Upto(S, b)
  <2> TAKE a, b \in S
  <2>1. a \in 0 .. n
    OBVIOUS
  <2> QED
    BY <1>3, <2>1
<1>8. ASSUME NEW i \in 1 .. size, NEW j \in 1 .. size, i < j
      PROVE  Patch!Nth(S, i) < Patch!Nth(S, j)
  <2>1. PICK a \in S : a = Patch!Nth(S, i) /\ Patch!Upto(S, a) = i
    BY <1>6
  <2>2. PICK b \in S : b = Patch!Nth(S, j) /\ Patch!Upto(S, b) = j
    BY <1>6
  <2>3. ~(b < a) /\ a # b
    BY <1>7, <1>8, <2>1, <2>2
  <2> QED
    BY <2>1, <2>2, <2>3
<1>9. ASSUME NEW m \in S PROVE Patch!Nth(S, Patch!Upto(S, m)) = m
  <2>1. PICK i \in 1 .. size : i = Patch!Upto(S, m)
    BY <1>4
  <2>2. PICK b \in S : b = Patch!Nth(S, i) /\ Patch!Upto(S, b) = i
    BY <1>6
  <2>3. ~(b < m) /\ ~(m < b)
    BY <1>7, <2>1, <2>2
  <2> QED
    BY <2>1, <2>2, <2>3
<1> QED
  BY <1>1, <1>6, <1>8, <1>9

\* A piece of a sequence is replaced.
IsSpliced(m, l, r, at, n) ==
  \A i \in DOMAIN m : m[i] = IF i < at THEN l[i] ELSE IF i < at + Len(r) THEN r[i - at + 1] ELSE l[(i - Len(r)) + n]

LEMMA SpliceTells ==
  ASSUME NEW A, NEW l \in Seq(A), NEW r \in Seq(A), NEW at \in Nat \ {0}, NEW n \in Nat,
         at + n - 1 <= Len(l)
  PROVE  /\ Patch!Spliced(l, r, at, n) \in Seq(A) /\ Len(Patch!Spliced(l, r, at, n)) = (Len(l) - n) + Len(r)
         /\ IsSpliced(Patch!Spliced(l, r, at, n), l, r, at, n)
<1>1. PICK x : x = SubSeq(l, 1, at - 1)
  OBVIOUS
<1>2. PICK z : z = SubSeq(l, at + n, Len(l))
  OBVIOUS
<1>3. PICK L \in Nat, R \in Nat : L = Len(l) /\ R = Len(r)
  OBVIOUS
<1>4. /\ at \in Nat /\ at >= 1 /\ at - 1 \in Nat /\ at - 1 <= L
      /\ at + n \in Nat /\ at + n <= L + 1
  BY <1>3
<1>5. x \in Seq(A) /\ Len(x) = at - 1 /\ \A i \in 1 .. at - 1 : x[i] = l[i]
  BY <1>1, <1>3, <1>4
<1>6. z \in Seq(A) /\ Len(z) = (L - (at + n)) + 1 /\ \A i \in 1 .. Len(z) : z[i] = l[((at + n) + i) - 1]
  <2>1. PICK e \in Nat : e = at + n
    BY <1>4
  <2>2. e >= 1 /\ e <= L + 1
    BY <1>4, <2>1
  <2>3. z = SubSeq(l, e, L)
    BY <1>2, <1>3, <2>1
  <2>4. z \in Seq(A) /\ Len(z) = (L - e) + 1 /\ \A i \in 1 .. Len(z) : z[i] = l[(e + i) - 1]
    BY <1>3, <2>2, <2>3
  <2> QED
    BY <2>1, <2>4
<1>7. PICK y : y = x \o r
  OBVIOUS
<1>14. PICK Y \in Nat : Y = (at - 1) + R
  BY <1>3, <1>4
<1>15. PICK Z \in Nat : Z = (L - (at + n)) + 1
  <2>1. (L - (at + n)) + 1 \in Nat
    BY <1>3, <1>4
  <2> QED
    BY <2>1
<1>8. Y = (at - 1) + R /\ Z = (L - (at + n)) + 1
  BY <1>14, <1>15
<1>9. y \in Seq(A) /\ Len(y) = Y
      /\ \A i \in 1 .. Y : y[i] = IF i <= at - 1 THEN x[i] ELSE r[i - (at - 1)]
  <2>1. x \in Seq(A) /\ Len(x) = at - 1
    BY <1>5
  <2>2. x \o r \in Seq(A) /\ Len(x \o r) = Len(x) + Len(r)
        /\ \A i \in 1 .. Len(x) + Len(r) : (x \o r)[i] = IF i <= Len(x) THEN x[i] ELSE r[i - Len(x)]
    BY <2>1, ConcatProperties
  <2>3. Len(x) + Len(r) = Y
    BY <1>3, <1>8, <2>1
  <2>4. y \in Seq(A) /\ Len(y) = Y
    BY <1>7, <2>2, <2>3
  <2>5. \A i \in 1 .. Y : y[i] = IF i <= Len(x) THEN x[i] ELSE r[i - Len(x)]
    BY <1>7, <2>2, <2>3
  <2> QED
    BY <2>1, <2>4, <2>5
<1>10. Len(z) = Z
  BY <1>6, <1>8
<1>17. PICK w : w = y \o z
  OBVIOUS
<1>18. Patch!Spliced(l, r, at, n) = w
  BY <1>1, <1>2, <1>7, <1>17 DEF Patch!Spliced
<1>11. w \in Seq(A) /\ Len(w) = Y + Z
       /\ \A i \in 1 .. Y + Z : w[i] = IF i <= Y THEN y[i] ELSE z[i - Y]
  <2>1. y \in Seq(A)
    BY <1>9
  <2>2. z \in Seq(A)
    BY <1>6
  <2>3. y \o z \in Seq(A) /\ Len(y \o z) = Len(y) + Len(z)
        /\ \A i \in 1 .. Len(y) + Len(z) : (y \o z)[i] = IF i <= Len(y) THEN y[i] ELSE z[i - Len(y)]
    BY <2>1, <2>2, ConcatProperties
  <2>4. w \in Seq(A) /\ Len(w) = Len(y) + Len(z)
        /\ \A i \in 1 .. Len(y) + Len(z) : w[i] = IF i <= Len(y) THEN y[i] ELSE z[i - Len(y)]
    BY <1>17, <2>3
  <2> QED
    BY <1>9, <1>10, <2>4
<1>16. Y + Z = (L - n) + R
  BY <1>3, <1>4, <1>8
<1>12. Y + Z = (L - n) + R /\ DOMAIN w = 1 .. Y + Z
  BY <1>11, <1>16
<1>13. ASSUME NEW i \in 1 .. Y + Z
       PROVE  w[i] = IF i < at THEN l[i] ELSE IF i < at + R THEN r[i - at + 1] ELSE l[(i - R) + n]
  <2>1. CASE i < at
    <3>1. i <= Y /\ i \in 1 .. Y /\ i <= at - 1 /\ i \in 1 .. at - 1
      BY <1>3, <1>4, <1>8, <2>1
    <3> QED
      BY <1>5, <1>9, <1>11, <2>1, <3>1
  <2>2. CASE i >= at /\ i < at + R
    <3>1. i <= Y /\ i \in 1 .. Y /\ ~(i <= at - 1) /\ i - (at - 1) = i - at + 1 /\ ~(i < at)
      BY <1>3, <1>4, <1>8, <2>2
    <3> QED
      BY <1>9, <1>11, <2>2, <3>1
  <2>3. CASE i >= at + R
    <3>1. /\ ~(i <= Y) /\ i - Y \in 1 .. Z /\ ~(i < at) /\ ~(i < at + R)
          /\ ((at + n) + (i - Y)) - 1 = (i - R) + n
      BY <1>3, <1>4, <1>8, <2>3
    <3>2. w[i] = z[i - Y]
      BY <1>11, <3>1
    <3>3. z[i - Y] = l[((at + n) + (i - Y)) - 1]
      BY <1>6, <1>10, <3>1
    <3> QED
      BY <3>1, <3>2, <3>3
  <2>4. i < at \/ (i >= at /\ i < at + R) \/ i >= at + R
    BY <1>3, <1>4
  <2> QED
    BY <2>1, <2>2, <2>3, <2>4
<1> QED
  BY <1>3, <1>11, <1>12, <1>13, <1>18 DEF IsSpliced

\* What comes from where a line is keeps its place.
LEMMA MovedHolds ==
  ASSUME patched \in Seq(Patch!Placed), Patch!InPlace, Patch!AsWritten, original' = original,
         patched' \in Seq(Patch!Placed), NEW src, NEW dropped \in SUBSET DOMAIN patched,
         \A i \in DOMAIN patched' : src[i] = 0 => patched'[i].from = 0,
         \A i \in DOMAIN patched' : src[i] # 0 => src[i] \in DOMAIN patched \ dropped /\ patched'[i] = patched[src[i]],
         \A i, j \in DOMAIN patched' : i < j /\ src[i] # 0 /\ src[j] # 0 => src[i] < src[j],
         \A k \in DOMAIN patched : k \in dropped \/ \E i \in DOMAIN patched' : src[i] = k,
         removed' = removed \cup {patched[k].from : k \in dropped}
  PROVE  Patch!InPlace' /\ Patch!AsWritten'
<1>1. \A i \in DOMAIN patched : patched[i].from \in Nat
  <2>1. \A i \in DOMAIN patched : patched[i] \in Patch!Placed
    OBVIOUS
  <2>2. \A x \in Patch!Placed : x.from \in Nat
    BY DEF Patch!Placed
  <2> QED
    BY <2>1, <2>2
<1>2. \A i, j \in DOMAIN patched : i < j /\ patched[i].from # 0 /\ patched[j].from # 0 => patched[i].from < patched[j].from
  BY DEF Patch!InPlace
<1>3. \A i, j \in DOMAIN patched : patched[i].from # 0 /\ patched[i].from = patched[j].from => i = j
  <2> TAKE i, j \in DOMAIN patched
  <2>1. i \in Nat /\ j \in Nat
    OBVIOUS
  <2> QED
    BY <1>1, <1>2, <2>1
<1>4. \A i, j \in DOMAIN patched' : i < j /\ patched'[i].from # 0 /\ patched'[j].from # 0 => patched'[i].from < patched'[j].from
  BY <1>2
<1>5. Patch!Places = {patched[i].from : i \in DOMAIN patched} \ {0}
  BY DEF Patch!Places
<1>6. Patch!Places' = {patched'[i].from : i \in DOMAIN patched'} \ {0}
  BY DEF Patch!Places
<1>7. Patch!Places \cup (removed \ {0}) = DOMAIN original /\ Patch!Places \cap removed = {}
  BY DEF Patch!InPlace
<1>8. Patch!Places \ removed' \subseteq Patch!Places'
  <2> SUFFICES ASSUME NEW f \in Patch!Places, f \notin removed' PROVE f \in Patch!Places'
    OBVIOUS
  <2>1. PICK k \in DOMAIN patched : f = patched[k].from
    BY <1>5
  <2>2. f # 0 /\ k \notin dropped
    BY <1>5, <2>1
  <2>3. PICK i \in DOMAIN patched' : src[i] = k
    BY <2>2
  <2>4. k # 0
    OBVIOUS
  <2>5. patched'[i] = patched[k]
    BY <2>3, <2>4
  <2> QED
    BY <1>6, <2>1, <2>2, <2>5
<1>9. Patch!Places' \subseteq Patch!Places /\ Patch!Places' \cap removed' = {}
  <2> SUFFICES ASSUME NEW f \in Patch!Places' PROVE f \in Patch!Places /\ f \notin removed'
    OBVIOUS
  <2>1. PICK i \in DOMAIN patched' : f = patched'[i].from /\ f # 0
    BY <1>6
  <2>2. src[i] # 0
    BY <2>1
  <2>3. PICK k \in DOMAIN patched : k = src[i] /\ k \notin dropped /\ f = patched[k].from
    BY <2>1, <2>2
  <2>4. f \in Patch!Places
    BY <1>5, <2>1, <2>3
  <2>5. \A d \in dropped : patched[d].from # f
    BY <1>3, <2>1, <2>3
  <2> QED
    BY <1>7, <2>4, <2>5
<1>10. removed' \ {0} \subseteq DOMAIN original /\ removed \subseteq removed'
  <2>1. \A k \in dropped : patched[k].from = 0 \/ patched[k].from \in Patch!Places
    BY <1>5
  <2> QED
    BY <1>7, <2>1
<1>11. Patch!Places' \cup (removed' \ {0}) = DOMAIN original'
  <2>1. 0 \notin DOMAIN original \/ 0 \in DOMAIN original
    OBVIOUS
  <2> QED
    BY <1>5, <1>7, <1>8, <1>9, <1>10
<1>12. Patch!InPlace'
  BY <1>4, <1>9, <1>11 DEF Patch!InPlace
<1>13. Patch!AsWritten'
  BY DEF Patch!AsWritten
<1> QED
  BY <1>12, <1>13

LEMMA LeastTells ==
  ASSUME NEW S \in SUBSET Nat, S # {}
  PROVE  Patch!Min(S) \in S
<1>1. \E x \in S : \A y \in S : x <= y
  BY LeastNatural
<1> QED
  BY <1>1 DEF Patch!Min

\* Where a hunk's lines are found there is room for them.
LEMMA FoundTells ==
  ASSUME patched \in Seq(Patch!Placed), NEW n \in Nat, NEW pattern \in [1 .. n -> Letters],
         NEW start \in Nat \ {0}, NEW eof \in BOOLEAN, Patch!Found(pattern, start, eof) # None
  PROVE  Patch!Found(pattern, start, eof) \in Nat \ {0} /\ (Patch!Found(pattern, start, eof) + n) - 1 <= Len(patched)
<1>1. PICK found : found = Patch!Found(pattern, start, eof)
  OBVIOUS
<1>2. PICK L \in Nat : L = Len(patched)
  OBVIOUS
<1>3. Len(pattern) = n /\ (pattern = <<>> <=> n = 0)
  OBVIOUS
<1>4. PICK first \in Nat \ {0} : first = IF eof /\ start < (L - n) + 1 THEN (L - n) + 1 ELSE start
  <2>1. start \in Nat /\ start >= 1
    OBVIOUS
  <2>2. start < (L - n) + 1 => (L - n) + 1 \in Nat /\ (L - n) + 1 >= 1
    BY <1>2, <2>1
  <2>3. (IF eof /\ start < (L - n) + 1 THEN (L - n) + 1 ELSE start) \in Nat \ {0}
    BY <2>1, <2>2
  <2> QED
    BY <2>3
<1>5. \A S \in SUBSET (first .. (L - n) + 1) : S # {} => Patch!Min(S) \in first .. (L - n) + 1
  <2> TAKE S \in SUBSET (first .. (L - n) + 1)
  <2>1. S \in SUBSET Nat
    BY <1>4
  <2> QED
    BY <2>1, LeastTells
<1>6. PICK exact : exact = {i \in first .. (L - n) + 1 : \A j \in DOMAIN pattern : Patch!Same(patched[(i + j) - 1].v, pattern[j], FALSE)}
  OBVIOUS
<1>7. PICK loose : loose = {i \in first .. (L - n) + 1 : \A j \in DOMAIN pattern : Patch!Same(patched[(i + j) - 1].v, pattern[j], TRUE)}
  OBVIOUS
<1>8. found = IF pattern = <<>> THEN L + 1 ELSE IF exact # {} THEN Patch!Min(exact)
              ELSE IF loose # {} THEN Patch!Min(loose) ELSE None
  BY <1>1, <1>2, <1>3, <1>4, <1>6, <1>7 DEF Patch!Found
<1>9. (found = L + 1 /\ n = 0) \/ found \in first .. (L - n) + 1
  <2>1. exact # {} => Patch!Min(exact) \in first .. (L - n) + 1
    BY <1>5, <1>6
  <2>2. loose # {} => Patch!Min(loose) \in first .. (L - n) + 1
    BY <1>5, <1>7
  <2>3. found # None
    BY <1>1
  <2> QED
    BY <1>3, <1>8, <2>1, <2>2, <2>3
<1>10. found \in Nat \ {0} /\ (found + n) - 1 <= L
  BY <1>2, <1>4, <1>9
<1> QED
  BY <1>1, <1>2, <1>10

LEMMA EndingIsOne ==
  ASSUME original \in Seq(Patch!Piece)
  PROVE  Patch!Ending(original) \in Patch!Endings
<1>1. PICK closing : closing = {i \in DOMAIN original : original[i].e # "none"}
  OBVIOUS
<1>2. closing \in SUBSET Nat
  <2>1. DOMAIN original \subseteq Nat
    OBVIOUS
  <2> QED
    BY <1>1, <2>1
<1>3. CASE closing = {}
  BY <1>1, <1>3 DEF Patch!Ending, Patch!Endings
<1>4. CASE closing # {}
  <2>1. Patch!Min(closing) \in closing
    BY <1>2, <1>4, LeastTells
  <2>2. \A x \in Patch!Piece : x.e \in Patch!Endings \cup {"none"}
    BY DEF Patch!Piece
  <2>3. original[Patch!Min(closing)].e \in Patch!Endings
    <3>1. PICK m : m = Patch!Min(closing)
      OBVIOUS
    <3>2. original[m] \in Patch!Piece /\ original[m].e # "none"
      BY <1>1, <2>1, <3>1
    <3> QED
      BY <2>2, <3>1, <3>2
  <2>4. Patch!Ending(original) = original[Patch!Min(closing)].e
    BY <1>1, <1>4 DEF Patch!Ending
  <2> QED
    BY <2>3, <2>4
<1> QED
  BY <1>3, <1>4

\* What a line of a hunk puts at its place: a line that is there, or a new one.
LEMMA LineTells ==
  ASSUME original \in Seq(Patch!Piece), patched \in Seq(Patch!Placed), NEW h \in Patch!HunkOf,
         NEW at \in Nat \ {0}, (at + Patch!Cardinality(Patch!Looked(h))) - 1 <= Len(patched),
         NEW k \in Patch!Wanted(h)
  PROVE  /\ Patch!Line(h, at, k) \in Patch!Placed
         /\ h.lines[k].op = "keep" => Patch!Line(h, at, k) = patched[at + Patch!Upto(Patch!Looked(h), k) - 1]
         /\ h.lines[k].op # "keep" => Patch!Line(h, at, k).from = 0
<1>1. h.lines \in Seq(Patch!HunkLine)
  BY DEF Patch!HunkOf
<1>2. PICK n \in Nat : n = Len(h.lines) /\ DOMAIN h.lines = 1 .. n
  <2>1. PICK hl : hl = h.lines
    OBVIOUS
  <2>2. hl \in Seq(Patch!HunkLine)
    BY <1>1, <2>1
  <2>3. Len(hl) \in Nat /\ DOMAIN hl = 1 .. Len(hl)
    BY <2>2
  <2> QED
    BY <2>1, <2>3
<1>3. k \in 1 .. n /\ h.lines[k] \in Patch!HunkLine /\ h.lines[k].op # "drop"
  <2>1. k \in DOMAIN h.lines /\ h.lines[k].op # "drop"
    BY DEF Patch!Wanted
  <2>2. PICK hl : hl = h.lines
    OBVIOUS
  <2>3. hl \in Seq(Patch!HunkLine) /\ k \in DOMAIN hl
    BY <1>1, <2>1, <2>2
  <2>4. hl[k] \in Patch!HunkLine
    BY <2>3
  <2> QED
    BY <1>2, <2>1, <2>2, <2>4
<1>4. h.lines[k].op \in {"keep", "drop", "add"} /\ h.lines[k].v \in Letters
  BY <1>3 DEF Patch!HunkLine
<1>5. Patch!Looked(h) \in SUBSET (1 .. n) /\ Patch!Gone(h) \in SUBSET (1 .. n) /\ Patch!Added(h) \in SUBSET (1 .. n)
  BY <1>2 DEF Patch!Looked, Patch!Gone, Patch!Added
<1>6. PICK O \in Nat : O = Patch!Cardinality(Patch!Looked(h))
  BY <1>5, UptoTells
<1>7. PICK L \in Nat : L = Len(patched) /\ (at + O) - 1 <= L /\ DOMAIN patched = 1 .. L
  BY <1>6
<1>8. \A x \in Patch!Looked(h) : patched[at + Patch!Upto(Patch!Looked(h), x) - 1] \in Patch!Placed
  <2> TAKE x \in Patch!Looked(h)
  <2>1. PICK u \in 1 .. O : u = Patch!Upto(Patch!Looked(h), x)
    BY <1>5, <1>6, UptoTells
  <2>2. at + u - 1 \in 1 .. L
    BY <1>7, <2>1
  <2> QED
    BY <1>7, <2>1, <2>2
<1>9. CASE h.lines[k].op = "keep"
  <2>1. k \in Patch!Looked(h)
    BY <1>2, <1>3, <1>9 DEF Patch!Looked
  <2>2. Patch!Line(h, at, k) = patched[at + Patch!Upto(Patch!Looked(h), k) - 1]
    BY <1>9 DEF Patch!Line
  <2> QED
    BY <1>8, <1>9, <2>1, <2>2
<1>10. CASE h.lines[k].op = "add"
  <2>1. PICK e : e = Patch!NewEnding(h, at, k)
    OBVIOUS
  <2>2. Patch!Line(h, at, k) = [v |-> Patch!Exact(h.lines[k].v), from |-> 0, e |-> e]
    BY <1>10, <2>1 DEF Patch!Line
  <2>3. Patch!Exact(h.lines[k].v) \in Patch!Values
    BY <1>4 DEF Patch!Exact, Patch!Values
  <2>4. e \in Patch!Endings \cup {"none"}
    <3>1. CASE Patch!Upto(Patch!Added(h), k) <= Patch!Cardinality(Patch!Gone(h))
      <4>1. k \in Patch!Added(h)
        BY <1>2, <1>3, <1>10 DEF Patch!Added
      <4>2. PICK u : u = Patch!Upto(Patch!Added(h), k)
        OBVIOUS
      <4>3. u \in 1 .. Patch!Cardinality(Patch!Added(h)) /\ Patch!Cardinality(Patch!Added(h)) \in Nat
        BY <1>5, <4>1, <4>2, UptoTells
      <4>4. PICK g \in Nat : g = Patch!Cardinality(Patch!Gone(h))
        BY <1>5, UptoTells
      <4>5. u \in 1 .. g
        BY <3>1, <4>2, <4>3, <4>4
      <4>6. PICK x \in Patch!Gone(h) : x = Patch!Nth(Patch!Gone(h), u)
        BY <1>5, <4>4, <4>5, NthTells
      <4>7. x \in Patch!Looked(h)
        BY <4>6 DEF Patch!Gone, Patch!Looked
      <4>8. patched[at + Patch!Upto(Patch!Looked(h), x) - 1] \in Patch!Placed
        BY <1>8, <4>7
      <4>9. \A y \in Patch!Placed : y.e \in Patch!Endings \cup {"none"}
        BY DEF Patch!Placed
      <4> QED
        BY <2>1, <3>1, <4>2, <4>6, <4>8, <4>9 DEF Patch!NewEnding
    <3>2. CASE ~(Patch!Upto(Patch!Added(h), k) <= Patch!Cardinality(Patch!Gone(h)))
      BY <2>1, <3>2, EndingIsOne DEF Patch!NewEnding
    <3> QED
      BY <3>1, <3>2
  <2>5. Patch!Line(h, at, k) \in Patch!Placed
    BY <2>2, <2>3, <2>4 DEF Patch!Placed
  <2> QED
    BY <1>10, <2>2, <2>5
<1> QED
  BY <1>3, <1>4, <1>9, <1>10

LEMMA PatchInit == Patch!Init => Patch!IInv
<1> SUFFICES ASSUME Patch!Init PROVE Patch!IInv
  OBVIOUS
<1>30. PICK n \in 0 .. MaxLines : original \in Patch!TextsOf(n)
  BY DEF Patch!Init, Patch!Texts
<1>1. PICK vs \in [1 .. n -> Patch!Values], first \in Patch!Endings, whole \in BOOLEAN :
        original = [i \in 1 .. n |-> [v |-> vs[i], e |-> IF i = n /\ ~whole THEN "none" ELSE IF i = 1 THEN first ELSE "lf"]]
  BY <1>30 DEF Patch!TextsOf
<1>2. n \in Nat
  OBVIOUS
<1>3. \A i \in 1 .. n : /\ original[i] \in Patch!Piece
                        /\ i < n => original[i].e # "none"
  <2> TAKE i \in 1 .. n
  <2>1. PICK e : e = IF i = n /\ ~whole THEN "none" ELSE IF i = 1 THEN first ELSE "lf"
    OBVIOUS
  <2>2. original[i] = [v |-> vs[i], e |-> e]
    BY <1>1, <2>1
  <2>3. e \in Patch!Endings \cup {"none"} /\ (i < n => e # "none")
    BY <1>1, <2>1 DEF Patch!Endings
  <2> QED
    BY <2>2, <2>3 DEF Patch!Piece
<1>4. DOMAIN original = 1 .. n /\ original \in Seq(Patch!Piece) /\ Len(original) = n
  <2>1. DOMAIN original = 1 .. n
    BY <1>1
  <2>2. original \in [1 .. n -> Patch!Piece]
    BY <1>1, <1>3, <2>1
  <2> QED
    BY <1>2, <2>2, SeqDef
<1>5. patched = [i \in 1 .. n |-> [v |-> original[i].v, e |-> original[i].e, from |-> i]]
  BY <1>4 DEF Patch!Init
<1>6. \A i \in 1 .. n : patched[i] \in Patch!Placed /\ patched[i].from = i
                        /\ patched[i].v = original[i].v /\ patched[i].e = original[i].e
  <2>1. \A x \in Patch!Piece : x.v \in Patch!Values /\ x.e \in Patch!Endings \cup {"none"}
    BY DEF Patch!Piece
  <2> QED
    BY <1>3, <1>5, <2>1 DEF Patch!Placed
<1>7. DOMAIN patched = 1 .. n /\ patched \in Seq(Patch!Placed) /\ Len(patched) = n
  <2>1. patched \in [1 .. n -> Patch!Placed]
    BY <1>5, <1>6
  <2> QED
    BY <1>2, <2>1, SeqDef
<1>8. cursorAt = 1 /\ removed = {} /\ ends = "works"
  BY DEF Patch!Init
<1>9. Patch!InPlace
  <2>1. Patch!Places = 1 .. n
    BY <1>6, <1>7 DEF Patch!Places
  <2> QED
    BY <1>4, <1>6, <1>7, <1>8, <2>1 DEF Patch!InPlace
<1>10. Patch!AsWritten
  BY <1>6, <1>7 DEF Patch!AsWritten
<1>11. Patch!Untouched
  BY <1>4, <1>6, <1>7, <1>8 DEF Patch!Untouched
<1>12. PICK ls \in Patch!HunkLines, context \in Letters \cup {None}, eof \in BOOLEAN,
            op \in {"keep", "drop", "add"}, x \in Letters, more \in BOOLEAN :
         hunks = <<Patch!Hunk(context, ls, eof)>>
                   \o IF more THEN <<Patch!Hunk(None, <<[op |-> op, v |-> x]>>, FALSE)>> ELSE <<>>
  BY DEF Patch!Init
<1>13. ls \in Seq(Patch!HunkLine)
  <2>1. PICK m \in 1 .. MaxHunkLines : ls \in [1 .. m -> Patch!HunkLine]
    BY <1>12 DEF Patch!HunkLines
  <2>2. m \in Nat
    OBVIOUS
  <2> QED
    BY <2>1, <2>2, SeqDef
<1>14. PICK one : one = Patch!Hunk(context, ls, eof)
  OBVIOUS
<1>15. PICK last : last = <<[op |-> op, v |-> x]>>
  OBVIOUS
<1>16. PICK two : two = Patch!Hunk(None, last, FALSE)
  OBVIOUS
<1>17. one \in Patch!HunkOf
  BY <1>13, <1>14 DEF Patch!HunkOf, Patch!Hunk
<1>18. last \in Seq(Patch!HunkLine) /\ Len(last) = 1
  <2>1. [op |-> op, v |-> x] \in Patch!HunkLine
    BY DEF Patch!HunkLine
  <2> QED
    BY <1>15, <2>1
<1>19. two \in Patch!HunkOf /\ two.lines = last
  BY <1>16, <1>18 DEF Patch!HunkOf, Patch!Hunk
<1>20. CASE more
  <2>4. hunks = <<one>> \o <<two>>
    BY <1>12, <1>14, <1>15, <1>16, <1>20
  <2>1. /\ <<one>> \in Seq(Patch!HunkOf) /\ Len(<<one>>) = 1
        /\ <<two>> \in Seq(Patch!HunkOf) /\ Len(<<two>>) = 1 /\ <<two>>[1] = two
    BY <1>17, <1>19
  <2>2. hunks \in Seq(Patch!HunkOf) /\ Len(hunks) = 2 /\ hunks[2] = two
    <3>1. PICK x1 \in Seq(Patch!HunkOf), x2 \in Seq(Patch!HunkOf) : x1 = <<one>> /\ x2 = <<two>>
      BY <2>1
    <3>2. hunks = x1 \o x2 /\ Len(x1) = 1 /\ Len(x2) = 1 /\ x2[1] = two
      BY <2>1, <2>4, <3>1
    <3>3. x1 \o x2 \in Seq(Patch!HunkOf) /\ Len(x1 \o x2) = Len(x1) + Len(x2)
      BY ConcatProperties
    <3>4. \A i \in 1 .. Len(x1) + Len(x2) : (x1 \o x2)[i] = IF i <= Len(x1) THEN x1[i] ELSE x2[i - Len(x1)]
      BY ConcatProperties
    <3>5. 2 \in 1 .. 1 + 1 /\ ~(2 <= 1) /\ 2 - 1 = 1 /\ 1 + 1 = 2
      OBVIOUS
    <3>6. (x1 \o x2)[2] = x2[1]
      BY <3>2, <3>4, <3>5
    <3> QED
      BY <3>2, <3>3, <3>5, <3>6
  <2>3. Patch!AtMostTwo
    BY <1>18, <1>19, <2>2 DEF Patch!AtMostTwo
  <2> QED
    BY <1>3, <1>4, <1>7, <1>8, <1>9, <1>10, <2>2, <2>3 DEF Patch!IInv, Patch!OnlyTheNamedLines
<1>21. CASE ~more
  <2>1. hunks = <<one>>
    BY <1>12, <1>14, <1>21
  <2>2. hunks \in Seq(Patch!HunkOf) /\ Len(hunks) = 1
    BY <1>17, <2>1
  <2>3. Patch!AtMostTwo
    BY <1>11, <2>2 DEF Patch!AtMostTwo
  <2> QED
    BY <1>3, <1>4, <1>7, <1>8, <1>9, <1>10, <2>2, <2>3 DEF Patch!IInv, Patch!OnlyTheNamedLines
<1> QED
  BY <1>20, <1>21

\* A hunk moves the lines after it, and takes away those it names.
LEMMA HunkMoves ==
  ASSUME original \in Seq(Patch!Piece), patched \in Seq(Patch!Placed), Patch!InPlace, Patch!AsWritten,
         original' = original, NEW h \in Patch!HunkOf,
         NEW at \in Nat \ {0}, (at + Patch!Cardinality(Patch!Looked(h))) - 1 <= Len(patched),
         Patch!Puts(h, at)
  PROVE  patched' \in Seq(Patch!Placed) /\ Patch!InPlace' /\ Patch!AsWritten'
<1>1. h.lines \in Seq(Patch!HunkLine)
  BY DEF Patch!HunkOf
<1>2. PICK n \in Nat : n = Len(h.lines) /\ DOMAIN h.lines = 1 .. n
  <2>1. PICK hl : hl = h.lines
    OBVIOUS
  <2>2. hl \in Seq(Patch!HunkLine)
    BY <1>1, <2>1
  <2>3. Len(hl) \in Nat /\ DOMAIN hl = 1 .. Len(hl)
    BY <2>2
  <2> QED
    BY <2>1, <2>3
<1>3. \A k \in 1 .. n : h.lines[k].op \in {"keep", "drop", "add"}
  <2> TAKE k \in 1 .. n
  <2>1. PICK hl : hl = h.lines
    OBVIOUS
  <2>2. hl \in Seq(Patch!HunkLine) /\ k \in DOMAIN hl
    BY <1>1, <1>2, <2>1
  <2>3. hl[k] \in Patch!HunkLine
    BY <2>2
  <2> QED
    BY <2>1, <2>3 DEF Patch!HunkLine
<1>4. PICK S \in SUBSET (1 .. n) : S = Patch!Looked(h) /\ \A k \in 1 .. n : k \in S <=> h.lines[k].op # "add"
  <2>1. Patch!Looked(h) \in SUBSET (1 .. n)
    BY <1>2 DEF Patch!Looked
  <2>2. \A k \in 1 .. n : k \in Patch!Looked(h) <=> h.lines[k].op # "add"
    BY <1>2 DEF Patch!Looked
  <2> QED
    BY <2>1, <2>2
<1>5. PICK W \in SUBSET (1 .. n) : W = Patch!Wanted(h) /\ \A k \in 1 .. n : k \in W <=> h.lines[k].op # "drop"
  <2>1. Patch!Wanted(h) \in SUBSET (1 .. n)
    BY <1>2 DEF Patch!Wanted
  <2>2. \A k \in 1 .. n : k \in Patch!Wanted(h) <=> h.lines[k].op # "drop"
    BY <1>2 DEF Patch!Wanted
  <2> QED
    BY <2>1, <2>2
<1>6. PICK G \in SUBSET (1 .. n) : G = Patch!Gone(h) /\ \A k \in 1 .. n : k \in G <=> h.lines[k].op = "drop"
  <2>1. Patch!Gone(h) \in SUBSET (1 .. n)
    BY <1>2 DEF Patch!Gone
  <2>2. \A k \in 1 .. n : k \in Patch!Gone(h) <=> h.lines[k].op = "drop"
    BY <1>2 DEF Patch!Gone
  <2> QED
    BY <2>1, <2>2
<1>7. PICK O \in Nat : O = Patch!Cardinality(S)
  BY UptoTells
<1>8. PICK C \in Nat : C = Patch!Cardinality(W)
  BY UptoTells
<1>9. PICK L \in Nat : L = Len(patched) /\ DOMAIN patched = 1 .. L
  OBVIOUS
<1>10. at \in Nat /\ at >= 1 /\ (at + O) - 1 <= L
  BY <1>4, <1>7, <1>9
<1>11. /\ \A k \in S : Patch!Upto(S, k) \in 1 .. O
       /\ \A k, m \in S : k < m => Patch!Upto(S, k) < Patch!Upto(S, m)
       /\ \A j \in 1 .. O : Patch!Nth(S, j) \in S /\ Patch!Upto(S, Patch!Nth(S, j)) = j
  <2>1. \A k \in 0 .. n, m \in S : k < m => Patch!Upto(S, k) < Patch!Upto(S, m)
    BY UptoTells
  <2>2. \A k \in S : k \in 0 .. n
    OBVIOUS
  <2> QED
    BY <1>7, <2>1, <2>2, UptoTells, NthTells
<1>12. /\ \A j \in 1 .. C : Patch!Nth(W, j) \in W
       /\ \A i, j \in 1 .. C : i < j => Patch!Nth(W, i) < Patch!Nth(W, j)
       /\ \A k \in W : Patch!Upto(W, k) \in 1 .. C /\ Patch!Nth(W, Patch!Upto(W, k)) = k
  BY <1>8, UptoTells, NthTells
<1>13. PICK R : R = Patch!Replacement(h, at)
  OBVIOUS
<1>14. R = [i \in 1 .. C |-> Patch!Line(h, at, Patch!Nth(W, i))]
  BY <1>5, <1>8, <1>13 DEF Patch!Replacement, Patch!InOrder
<1>15. \A k \in W : /\ Patch!Line(h, at, k) \in Patch!Placed
                    /\ k \in S => Patch!Line(h, at, k) = patched[at + Patch!Upto(S, k) - 1]
                    /\ k \notin S => Patch!Line(h, at, k).from = 0
  <2> TAKE k \in W
  <2>1. k \in 1 .. n /\ h.lines[k].op \in {"keep", "drop", "add"} /\ h.lines[k].op # "drop"
    BY <1>3, <1>5
  <2>2. k \in S <=> h.lines[k].op = "keep"
    BY <1>4, <2>1
  <2>3. k \in Patch!Wanted(h)
    BY <1>5
  <2>4. (at + Patch!Cardinality(Patch!Looked(h))) - 1 <= Len(patched)
    OBVIOUS
  <2> QED
    BY <1>4, <2>2, <2>3, <2>4, LineTells
<1>16. R \in Seq(Patch!Placed) /\ Len(R) = C /\ \A i \in 1 .. C : R[i] = Patch!Line(h, at, Patch!Nth(W, i))
  <2>1. R \in [1 .. C -> Patch!Placed]
    BY <1>12, <1>14, <1>15
  <2> QED
    BY <1>14, <2>1, SeqDef
<1>17. PICK m : /\ m \in Seq(Patch!Placed) /\ Len(m) = (L - O) + C /\ patched' = m
                /\ \A i \in DOMAIN m : m[i] = IF i < at THEN patched[i] ELSE IF i < at + C THEN R[i - at + 1]
                                              ELSE patched[(i - C) + O]
  <2>1. PICK l \in Seq(Patch!Placed) : l = patched
    OBVIOUS
  <2>2. PICK m : m = Patch!Spliced(l, R, at, O)
    OBVIOUS
  <2>3. patched' = m
    BY <1>4, <1>7, <1>13, <2>1, <2>2 DEF Patch!Puts
  <2>7. R \in Seq(Patch!Placed)
    BY <1>16
  <2>4. R \in Seq(Patch!Placed) /\ Len(R) = C
    BY <1>16
  <2>5. at + O - 1 <= Len(l)
    BY <1>9, <1>10, <2>1
  <2>8. Patch!Spliced(l, R, at, O) \in Seq(Patch!Placed)
    BY <2>5, <2>7, SpliceTells
  <2>9. Len(Patch!Spliced(l, R, at, O)) = (Len(l) - O) + Len(R)
    BY <2>5, <2>7, SpliceTells
  <2>10. IsSpliced(Patch!Spliced(l, R, at, O), l, R, at, O)
    BY <2>5, <2>7, SpliceTells
  <2>6. m \in Seq(Patch!Placed) /\ Len(m) = (Len(l) - O) + Len(R) /\ IsSpliced(m, l, R, at, O)
    BY <2>2, <2>8, <2>9, <2>10
  <2> QED
    BY <1>9, <2>1, <2>3, <2>4, <2>6 DEF IsSpliced
<1>18. patched' = m
  BY <1>17
<1>19. /\ m \in Seq(Patch!Placed) /\ Len(m) = (L - O) + C
       /\ \A i \in DOMAIN m : m[i] = IF i < at THEN patched[i] ELSE IF i < at + C THEN R[i - at + 1]
                                     ELSE patched[(i - C) + O]
  BY <1>17
<1>20. PICK M \in Nat : M = (L - O) + C /\ DOMAIN m = 1 .. M
  BY <1>19
\* Where each line comes from.
<1>21. PICK src : src = [i \in 1 .. M |-> IF i < at THEN i
                                        ELSE IF i < at + C
                                             THEN IF Patch!Nth(W, i - at + 1) \in S
                                                  THEN at + Patch!Upto(S, Patch!Nth(W, i - at + 1)) - 1 ELSE 0
                                             ELSE (i - C) + O]
  OBVIOUS
<1>22. PICK dropped : dropped = {at + Patch!Upto(S, k) - 1 : k \in G}
  OBVIOUS
<1>23. G \subseteq S /\ G \cap W = {} /\ \A k \in S : k \in G \/ k \in W
  BY <1>3, <1>4, <1>5, <1>6
<1>24. dropped \in SUBSET DOMAIN patched /\ \A d \in dropped : d >= at /\ d < at + O
  <2> SUFFICES ASSUME NEW k \in G PROVE LET d == at + Patch!Upto(S, k) - 1 IN d \in 1 .. L /\ d >= at /\ d < at + O
    BY <1>9, <1>22
  <2>1. PICK u \in 1 .. O : u = Patch!Upto(S, k)
    BY <1>11, <1>23
  <2>2. at + u - 1 \in 1 .. L /\ at + u - 1 >= at /\ at + u - 1 < at + O
    BY <1>10
  <2> QED
    BY <2>1, <2>2
\* The three parts a line of the new text may be in.
<1>25. ASSUME NEW i \in 1 .. M, i < at
       PROVE  src[i] = i /\ i \in 1 .. L /\ m[i] = patched[i]
  <2>1. src[i] = i
    BY <1>21, <1>25
  <2>2. i \in 1 .. L
    BY <1>10, <1>25
  <2>3. m[i] = patched[i]
    BY <1>19, <1>20, <1>25
  <2> QED
    BY <2>1, <2>2, <2>3
<1>26. ASSUME NEW i \in 1 .. M, i >= at, i < at + C
       PROVE  \E j \in 1 .. C : /\ j = i - at + 1 /\ m[i] = Patch!Line(h, at, Patch!Nth(W, j))
                                /\ src[i] = IF Patch!Nth(W, j) \in S THEN at + Patch!Upto(S, Patch!Nth(W, j)) - 1 ELSE 0
  <2>4. i \in Nat /\ i - at + 1 \in 1 .. C /\ ~(i < at)
    <3>1. i \in Nat
      OBVIOUS
    <3>2. i - at + 1 >= 1 /\ i - at + 1 <= C /\ ~(i < at)
      BY <1>10, <1>26, <3>1
    <3> QED
      BY <1>10, <3>1, <3>2
  <2>1. PICK j \in 1 .. C : j = i - at + 1
    BY <2>4
  <2>2. m[i] = R[j] /\ ~(i < at)
    BY <1>19, <1>20, <1>26, <2>1, <2>4
  <2>3. src[i] = IF Patch!Nth(W, j) \in S THEN at + Patch!Upto(S, Patch!Nth(W, j)) - 1 ELSE 0
    BY <1>21, <1>26, <2>1, <2>2
  <2> QED
    BY <1>16, <2>1, <2>2, <2>3
<1>27. ASSUME NEW i \in 1 .. M, i >= at + C
       PROVE  src[i] = (i - C) + O /\ src[i] \in 1 .. L /\ src[i] >= at + O /\ m[i] = patched[src[i]]
  <2>1. ~(i < at) /\ ~(i < at + C) /\ (i - C) + O \in 1 .. L /\ (i - C) + O >= at + O
    BY <1>10, <1>20, <1>27
  <2> QED
    BY <1>19, <1>20, <1>21, <2>1
<1>28. \A i \in 1 .. M : i < at \/ (i >= at /\ i < at + C) \/ i >= at + C
  BY <1>10
<1>29. \A i \in 1 .. M : src[i] = 0 => m[i].from = 0
  <2> SUFFICES ASSUME NEW i \in 1 .. M, src[i] = 0 PROVE m[i].from = 0
    OBVIOUS
  <2>1. i >= at /\ i < at + C
    <3>1. ~(i < at)
      BY <1>25
    <3>2. ~(i >= at + C)
      BY <1>27
    <3> QED
      BY <1>28, <3>1, <3>2
  <2>2. PICK j \in 1 .. C : /\ m[i] = Patch!Line(h, at, Patch!Nth(W, j))
                            /\ src[i] = IF Patch!Nth(W, j) \in S THEN at + Patch!Upto(S, Patch!Nth(W, j)) - 1 ELSE 0
    BY <1>26, <2>1
  <2>3. PICK k \in W : k = Patch!Nth(W, j)
    BY <1>12
  <2>4. k \notin S
    <3> SUFFICES ASSUME k \in S PROVE FALSE
      OBVIOUS
    <3>1. PICK u \in 1 .. O : u = Patch!Upto(S, k)
      BY <1>11
    <3>2. at + u - 1 = 0
      BY <2>2, <2>3, <3>1
    <3> QED
      BY <1>10, <3>2
  <2> QED
    BY <1>15, <2>2, <2>3, <2>4
<1>30. \A i \in 1 .. M : src[i] # 0 => src[i] \in (1 .. L) \ dropped /\ m[i] = patched[src[i]]
  <2> SUFFICES ASSUME NEW i \in 1 .. M, src[i] # 0 PROVE src[i] \in (1 .. L) \ dropped /\ m[i] = patched[src[i]]
    OBVIOUS
  <2>1. CASE i < at
    <3>1. src[i] \notin dropped
      BY <1>10, <1>24, <1>25, <2>1
    <3> QED
      BY <1>25, <2>1, <3>1
  <2>2. CASE i >= at /\ i < at + C
    <3>1. PICK j \in 1 .. C : /\ m[i] = Patch!Line(h, at, Patch!Nth(W, j))
                              /\ src[i] = IF Patch!Nth(W, j) \in S THEN at + Patch!Upto(S, Patch!Nth(W, j)) - 1 ELSE 0
      BY <1>26, <2>2
    <3>2. PICK k \in W : k = Patch!Nth(W, j)
      BY <1>12
    <3>3. k \in S /\ src[i] = at + Patch!Upto(S, k) - 1
      BY <3>1, <3>2
    <3>4. PICK u \in 1 .. O : u = Patch!Upto(S, k)
      BY <1>11, <3>3
    <3>5. at + u - 1 \in 1 .. L
      BY <1>10
    <3>6. src[i] \notin dropped
      <4> SUFFICES ASSUME NEW g \in G, at + Patch!Upto(S, g) - 1 = src[i] PROVE FALSE
        BY <1>22
      <4>1. g \in S /\ g # k
        BY <1>23
      <4>2. PICK w \in 1 .. O : w = Patch!Upto(S, g)
        BY <1>11, <4>1
      <4>3. w = u
        BY <1>10, <3>3, <3>4, <4>2
      <4>4. g < k \/ k < g
        BY <3>3, <4>1
      <4> QED
        <5>1. g < k => Patch!Upto(S, g) < Patch!Upto(S, k)
          BY <1>11, <3>3, <4>1
        <5>2. k < g => Patch!Upto(S, k) < Patch!Upto(S, g)
          BY <1>11, <3>3, <4>1
        <5> QED
          BY <3>4, <4>2, <4>3, <4>4, <5>1, <5>2
    <3>7. m[i] = patched[src[i]]
      BY <1>15, <3>1, <3>2, <3>3
    <3> QED
      BY <3>3, <3>4, <3>5, <3>6, <3>7
  <2>3. CASE i >= at + C
    <3>1. src[i] \in 1 .. L /\ src[i] >= at + O /\ m[i] = patched[src[i]]
      BY <1>27, <2>3
    <3>2. src[i] \notin dropped
      BY <1>10, <1>24, <3>1
    <3> QED
      BY <3>1, <3>2
  <2> QED
    BY <1>28, <2>1, <2>2, <2>3
\* Of the middle, what comes from the old text.
<1>31. ASSUME NEW i \in 1 .. M, i >= at, i < at + C, src[i] # 0
       PROVE  \E k \in W : /\ k \in S /\ k = Patch!Nth(W, i - at + 1) /\ src[i] = at + Patch!Upto(S, k) - 1
                           /\ src[i] \in Nat /\ src[i] >= at /\ src[i] < at + O
  <2>1. PICK j \in 1 .. C : /\ j = i - at + 1
                            /\ src[i] = IF Patch!Nth(W, j) \in S THEN at + Patch!Upto(S, Patch!Nth(W, j)) - 1 ELSE 0
    BY <1>26, <1>31
  <2>2. PICK k \in W : k = Patch!Nth(W, j)
    BY <1>12
  <2>3. k \in S /\ src[i] = at + Patch!Upto(S, k) - 1
    BY <1>31, <2>1, <2>2
  <2>4. PICK u \in 1 .. O : u = Patch!Upto(S, k)
    BY <1>11, <2>3
  <2>5. at + u - 1 \in Nat /\ at + u - 1 >= at /\ at + u - 1 < at + O
    BY <1>10
  <2> QED
    BY <2>1, <2>2, <2>3, <2>4, <2>5
<1>32. \A i, j \in 1 .. M : i < j /\ src[i] # 0 /\ src[j] # 0 => src[i] < src[j]
  <2> SUFFICES ASSUME NEW i \in 1 .. M, NEW j \in 1 .. M, i < j, src[i] # 0, src[j] # 0 PROVE src[i] < src[j]
    OBVIOUS
  <2>1. CASE i < at
    <3>1. src[i] = i
      BY <1>25, <2>1
    <3>2. j < at => src[j] = j
      BY <1>25
    <3>3. j >= at /\ j < at + C => src[j] \in Nat /\ src[j] >= at
      BY <1>31
    <3>4. j >= at + C => src[j] \in 1 .. L /\ src[j] >= at + O
      BY <1>27
    <3> QED
      BY <1>10, <1>28, <2>1, <3>1, <3>2, <3>3, <3>4
  <2>2. CASE i >= at /\ i < at + C
    <3>1. PICK k \in W : /\ k \in S /\ k = Patch!Nth(W, i - at + 1) /\ src[i] = at + Patch!Upto(S, k) - 1
                         /\ src[i] \in Nat /\ src[i] < at + O
      BY <1>31, <2>2
    <3>2. CASE j < at + C
      <4>1. j >= at
        BY <1>10, <2>2
      <4>2. PICK l \in W : l \in S /\ l = Patch!Nth(W, j - at + 1) /\ src[j] = at + Patch!Upto(S, l) - 1
        BY <1>31, <3>2, <4>1
      <4>3. PICK a \in 1 .. C, b \in 1 .. C : a = i - at + 1 /\ b = j - at + 1 /\ a < b
        BY <1>8, <1>10, <2>2, <3>2, <4>1
      <4>4. k < l
        BY <1>12, <3>1, <4>2, <4>3
      <4>5. PICK u \in 1 .. O, w \in 1 .. O : u = Patch!Upto(S, k) /\ w = Patch!Upto(S, l) /\ u < w
        BY <1>11, <3>1, <4>2, <4>4
      <4>6. at + u - 1 < at + w - 1
        BY <1>10, <4>5
      <4> QED
        BY <3>1, <4>2, <4>5, <4>6
    <3>3. CASE j >= at + C
      <4>1. src[j] \in 1 .. L /\ src[j] >= at + O
        BY <1>27, <3>3
      <4> QED
        BY <1>10, <3>1, <4>1
    <3> QED
      BY <1>10, <3>2, <3>3
  <2>3. CASE i >= at + C
    <3>1. j >= at + C
      BY <1>10, <2>3
    <3>2. src[i] = (i - C) + O /\ src[j] = (j - C) + O
      BY <1>27, <2>3, <3>1
    <3> QED
      BY <3>2
  <2> QED
    BY <1>28, <2>1, <2>2, <2>3
<1>33. \A d \in 1 .. L : d \in dropped \/ \E i \in 1 .. M : src[i] = d
  <2> SUFFICES ASSUME NEW d \in 1 .. L, d \notin dropped PROVE \E i \in 1 .. M : src[i] = d
    OBVIOUS
  <2>1. CASE d < at
    <3>1. d \in 1 .. M
      BY <1>10, <1>20, <2>1
    <3> QED
      BY <1>25, <2>1, <3>1
  <2>2. CASE d >= at /\ d < at + O
    <3>1. PICK u \in 1 .. O : u = d - at + 1
      BY <1>10, <2>2
    <3>2. PICK k \in S : Patch!Upto(S, k) = u
      BY <1>11
    <3>3. at + Patch!Upto(S, k) - 1 = d
      BY <1>10, <3>1, <3>2
    <3>4. k \in W
      BY <1>22, <1>23, <3>3
    <3>5. PICK j \in 1 .. C : j = Patch!Upto(W, k) /\ Patch!Nth(W, j) = k
      BY <1>12, <3>4
    <3>6. PICK i \in 1 .. M : i = at + j - 1
      <4>1. at + j - 1 \in 1 .. M
        BY <1>10, <1>20
      <4> QED
        BY <4>1
    <3>7. ~(i < at) /\ i < at + C /\ i - at + 1 = j
      BY <1>10, <3>6
    <3>8. src[i] = at + Patch!Upto(S, k) - 1
      BY <1>21, <3>5, <3>7
    <3> QED
      BY <3>3, <3>8
  <2>3. CASE d >= at + O
    <3>1. PICK i \in 1 .. M : i = (d - O) + C
      <4>1. (d - O) + C \in 1 .. M
        BY <1>10, <1>20, <2>3
      <4> QED
        BY <4>1
    <3>2. i >= at + C /\ (i - C) + O = d
      BY <1>10, <2>3, <3>1
    <3> QED
      BY <1>27, <3>2
  <2> QED
    BY <1>10, <2>1, <2>2, <2>3
<1>34. removed' = removed \cup {patched[d].from : d \in dropped}
  <2>1. removed' = removed \cup {patched[at + Patch!Upto(S, k) - 1].from : k \in G}
    BY <1>4, <1>6 DEF Patch!Puts
  <2> QED
    BY <1>22, <2>1
<1>35. patched' \in Seq(Patch!Placed) /\ DOMAIN patched' = 1 .. M
  BY <1>18, <1>19, <1>20
<1>36. \A i \in DOMAIN patched' : src[i] = 0 => patched'[i].from = 0
  BY <1>18, <1>29, <1>35
<1>37. \A i \in DOMAIN patched' : src[i] # 0 => src[i] \in DOMAIN patched \ dropped /\ patched'[i] = patched[src[i]]
  BY <1>9, <1>18, <1>30, <1>35
<1>38. \A i, j \in DOMAIN patched' : i < j /\ src[i] # 0 /\ src[j] # 0 => src[i] < src[j]
  BY <1>32, <1>35
<1>39. \A k \in DOMAIN patched : k \in dropped \/ \E i \in DOMAIN patched' : src[i] = k
  BY <1>9, <1>33, <1>35
<1> QED
  BY <1>24, <1>34, <1>35, <1>36, <1>37, <1>38, <1>39, MovedHolds

\* A hunk is put where there is room for the lines it looks for.
LEMMA PlaceTells ==
  ASSUME patched \in Seq(Patch!Placed), cursorAt \in Nat \ {0}, NEW h \in Patch!HunkOf, Patch!PlaceOf(h) # None
  PROVE  /\ Patch!PlaceOf(h) \in Nat \ {0} /\ (Patch!PlaceOf(h) + Patch!Cardinality(Patch!Looked(h))) - 1 <= Len(patched)
         /\ Patch!Cardinality(Patch!Looked(h)) \in Nat /\ Patch!Cardinality(Patch!Wanted(h)) \in Nat
<1>6. PICK n \in Nat : /\ n = Patch!Cardinality(Patch!Looked(h)) /\ Patch!Cardinality(Patch!Wanted(h)) \in Nat
                       /\ \A i \in 1 .. n : h.lines[Patch!Nth(Patch!Looked(h), i)].v \in Letters
  <2>1. PICK hl \in Seq(Patch!HunkLine) : hl = h.lines
    BY DEF Patch!HunkOf
  <2>2. PICK size \in Nat : DOMAIN hl = 1 .. size
    BY <2>1
  <2>3. Patch!Looked(h) \in SUBSET (1 .. size) /\ Patch!Wanted(h) \in SUBSET (1 .. size)
    BY <2>1, <2>2 DEF Patch!Looked, Patch!Wanted
  <2>4. PICK n \in Nat : n = Patch!Cardinality(Patch!Looked(h))
    BY <2>3, UptoTells
  <2>5. Patch!Cardinality(Patch!Wanted(h)) \in Nat
    BY <2>3, UptoTells
  <2>6. ASSUME NEW i \in 1 .. n PROVE h.lines[Patch!Nth(Patch!Looked(h), i)].v \in Letters
    <3>1. Patch!Nth(Patch!Looked(h), i) \in 1 .. size
      BY <2>3, <2>4, NthTells
    <3>2. hl[Patch!Nth(Patch!Looked(h), i)] \in Patch!HunkLine
      BY <2>1, <2>2, <3>1
    <3> QED
      BY <2>1, <3>2 DEF Patch!HunkLine
  <2> QED
    BY <2>4, <2>5, <2>6
<1>7. PICK context : context = IF h.context = None THEN cursorAt ELSE Patch!Found(<<h.context>>, cursorAt, FALSE)
  OBVIOUS
<1>8. PICK start : start = IF h.context = None \/ context = None THEN context ELSE context + 1
  OBVIOUS
<1>9. PICK olds : olds = [i \in 1 .. n |-> h.lines[Patch!Nth(Patch!Looked(h), i)].v]
  OBVIOUS
<1>10. olds \in [1 .. n -> Letters] /\ Len(olds) = n
  BY <1>6, <1>9
<1>11. olds = Patch!Olds(h)
  <2>1. DOMAIN Patch!InOrder(Patch!Looked(h)) = 1 .. n
    BY <1>6 DEF Patch!InOrder
  <2> QED
    BY <1>9, <2>1 DEF Patch!Olds
<1>12. Patch!PlaceOf(h) = IF start = None THEN None ELSE Patch!Found(olds, start, h.eof)
  BY <1>7, <1>8, <1>11 DEF Patch!PlaceOf
<1>13. start # None
  BY <1>12
<1>14. h.eof \in BOOLEAN /\ h.context \in Letters \cup {None}
  BY DEF Patch!HunkOf
<1>15. start \in Nat \ {0}
  <2>1. CASE h.context = None
    BY <1>7, <1>8, <2>1
  <2>2. CASE h.context # None
    <3>1. context # None
      BY <1>8, <1>13
    <3>2. start = context + 1 /\ context = Patch!Found(<<h.context>>, cursorAt, FALSE)
      BY <1>7, <1>8, <2>2, <3>1
    <3>3. <<h.context>> \in [1 .. 1 -> Letters]
      BY <1>14, <2>2
    <3>4. context \in Nat \ {0}
      BY <3>1, <3>2, <3>3, FoundTells
    <3>5. context \in Nat
      BY <3>4
    <3>6. \A x \in Nat : x + 1 \in Nat \ {0}
      OBVIOUS
    <3> QED
      BY <3>2, <3>5, <3>6
  <2> QED
    BY <2>1, <2>2
<1>16. Patch!PlaceOf(h) = Patch!Found(olds, start, h.eof)
  BY <1>12, <1>13
<1> QED
  BY <1>6, <1>10, <1>14, <1>15, <1>16, FoundTells

LEMMA AppliesHolds ==
  ASSUME Patch!IInv, Patch!Applies PROVE Patch!IInv'
<1>1. /\ original \in Seq(Patch!Piece) /\ \A i \in DOMAIN original : i < Len(original) => original[i].e # "none"
      /\ patched \in Seq(Patch!Placed) /\ hunks \in Seq(Patch!HunkOf)
      /\ cursorAt \in Nat \ {0} /\ removed \subseteq Nat
  BY DEF Patch!IInv
<1>2. ends = "works" /\ hunks # <<>> /\ original' = original
  BY DEF Patch!Applies
<1>3. Patch!InPlace /\ Patch!AsWritten /\ Patch!AtMostTwo
  BY <1>2 DEF Patch!IInv
<1>4. PICK h : h = Head(hunks)
  OBVIOUS
<1>5. /\ h \in Patch!HunkOf /\ Tail(hunks) \in Seq(Patch!HunkOf) /\ Len(hunks) \in Nat /\ Len(hunks) > 0
      /\ Len(Tail(hunks)) = Len(hunks) - 1 /\ (Len(hunks) > 1 => Tail(hunks)[1] = hunks[2])
  BY <1>1, <1>2, <1>4
<1>7. PICK at : at = Patch!PlaceOf(h)
  OBVIOUS
<1>12. IF at = None THEN ends' = "failed" /\ UNCHANGED <<patched, cursorAt, hunks, removed>> ELSE Patch!Puts(h, at)
  BY <1>4, <1>7 DEF Patch!Applies
<1>13. CASE at = None
  <2>1. ends' = "failed" /\ UNCHANGED <<patched, cursorAt, hunks, removed>>
    BY <1>12, <1>13
  <2> QED
    BY <1>1, <1>2, <2>1 DEF Patch!IInv, Patch!OnlyTheNamedLines
<1>14. CASE at # None
  <2>1. /\ at \in Nat \ {0} /\ (at + Patch!Cardinality(Patch!Looked(h))) - 1 <= Len(patched)
        /\ Patch!Cardinality(Patch!Looked(h)) \in Nat /\ Patch!Cardinality(Patch!Wanted(h)) \in Nat
    BY <1>1, <1>5, <1>7, <1>14, PlaceTells
  <2>2. Patch!Puts(h, at)
    BY <1>12, <1>14
  <2>5. cursorAt' = Patch!After(h, at) /\ hunks' = Tail(hunks) /\ ends' = ends
    BY <2>2 DEF Patch!Puts
  <2>6. patched' \in Seq(Patch!Placed) /\ Patch!InPlace' /\ Patch!AsWritten'
    BY <1>1, <1>2, <1>3, <1>5, <2>1, <2>2, HunkMoves
  <2>7. cursorAt' \in Nat \ {0}
    BY <2>1, <2>5 DEF Patch!After
  <2>8. removed' \subseteq Nat
    <3>1. removed' \ {0} \subseteq DOMAIN original
      BY <1>2, <2>6 DEF Patch!InPlace
    <3>2. DOMAIN original \subseteq Nat
      BY <1>1
    <3> QED
      BY <3>1, <3>2
  <2>9. Patch!AtMostTwo'
    <3>1. Len(hunks) <= 2 /\ (Len(hunks) = 2 => Len(hunks[2].lines) = 1)
      BY SMTT(30), <1>3 DEF Patch!AtMostTwo
    <3>6. PICK k \in Nat : k = Len(hunks)
      BY <1>5
    <3>7. k > 0 /\ k <= 2
      BY <1>5, <3>1, <3>6
    <3>2. k = Len(hunks) /\ (k = 1 \/ k = 2)
      BY <3>6, <3>7
    <3>3. Len(hunks') = k - 1 /\ (k = 2 => hunks'[1] = hunks[2])
      BY <1>5, <2>5, <3>2
    <3>4. CASE k = 1
      BY <3>3, <3>4 DEF Patch!AtMostTwo
    <3>5. CASE k = 2
      <4>1. Len(hunks') = 1 /\ Len(hunks'[1].lines) = 1
        BY <3>1, <3>2, <3>3, <3>5
      <4> QED
        BY <4>1 DEF Patch!AtMostTwo
    <3> QED
      BY <3>2, <3>4, <3>5
  <2>10. ends' = "works" /\ hunks' \in Seq(Patch!HunkOf)
    BY <1>2, <1>5, <2>5
  <2> QED
    BY <1>1, <1>2, <2>6, <2>7, <2>8, <2>9, <2>10 DEF Patch!IInv, Patch!OnlyTheNamedLines
<1> QED
  BY <1>13, <1>14

LEMMA FinishesHolds ==
  ASSUME Patch!IInv, Patch!Finishes PROVE Patch!IInv'
<1>1. /\ original \in Seq(Patch!Piece) /\ \A i \in DOMAIN original : i < Len(original) => original[i].e # "none"
      /\ patched \in Seq(Patch!Placed) /\ hunks \in Seq(Patch!HunkOf)
      /\ cursorAt \in Nat \ {0} /\ removed \subseteq Nat
  BY DEF Patch!IInv
<1>2. ends = "works" /\ ends' = "done" /\ patched' = Patch!Ended /\ UNCHANGED <<original, cursorAt, hunks, removed>>
  BY DEF Patch!Finishes
<1>3. Patch!InPlace /\ Patch!AsWritten
  BY <1>2 DEF Patch!IInv
<1>4. PICK L \in Nat : L = Len(patched) /\ DOMAIN patched = 1 .. L
  BY <1>1
<1>5. PICK whole \in BOOLEAN : whole = (original # <<>> /\ original[Len(original)].e # "none")
  OBVIOUS
<1>6. PICK ending \in Patch!Endings : ending = Patch!Ending(original)
  BY <1>1, EndingIsOne
<1>7. patched' = [i \in 1 .. L |-> [patched[i] EXCEPT !.e = IF i = L /\ ~whole THEN "none"
                                                         ELSE IF @ = "none" THEN ending ELSE @]]
  BY <1>2, <1>4, <1>5, <1>6 DEF Patch!Ended
<1>8. ending # "none"
  BY DEF Patch!Endings
<1>9. \A i \in 1 .. L : patched[i].v \in Patch!Values /\ patched[i].e \in Patch!Endings \cup {"none"} /\ patched[i].from \in Nat
  <2>1. \A i \in 1 .. L : patched[i] \in Patch!Placed
    BY <1>1, <1>4
  <2> QED
    BY <2>1 DEF Patch!Placed
<1>10. ASSUME NEW i \in 1 .. L
       PROVE  /\ patched'[i] \in Patch!Placed /\ patched'[i].from = patched[i].from /\ patched'[i].v = patched[i].v
              /\ patched'[i].e = IF i = L /\ ~whole THEN "none" ELSE IF patched[i].e = "none" THEN ending ELSE patched[i].e
  <2>1. patched[i] \in Patch!Placed
    BY <1>1, <1>4
  <2>2. PICK e : e = IF i = L /\ ~whole THEN "none" ELSE IF patched[i].e = "none" THEN ending ELSE patched[i].e
    OBVIOUS
  <2>3. e \in Patch!Endings \cup {"none"}
    BY <1>9, <2>2
  <2>4. patched'[i] = [patched[i] EXCEPT !.e = e]
    BY <1>7, <2>2
  <2>5. \A x \in Patch!Placed : /\ [x EXCEPT !.e = e] \in Patch!Placed /\ [x EXCEPT !.e = e].from = x.from
                                /\ [x EXCEPT !.e = e].v = x.v /\ [x EXCEPT !.e = e].e = e
    BY <2>3 DEF Patch!Placed
  <2> QED
    BY <2>1, <2>2, <2>4, <2>5
<1>11. DOMAIN patched' = 1 .. L /\ patched' \in Seq(Patch!Placed) /\ Len(patched') = L
  <2>1. DOMAIN patched' = 1 .. L
    BY <1>7
  <2>2. patched' \in [1 .. L -> Patch!Placed]
    BY <1>7, <1>10, <2>1
  <2> QED
    BY <2>1, <2>2, SeqDef
<1>12. Patch!Places' = Patch!Places
  BY <1>4, <1>10, <1>11 DEF Patch!Places
<1>13. \A i, j \in DOMAIN patched' : i < j /\ patched'[i].from # 0 /\ patched'[j].from # 0 => patched'[i].from < patched'[j].from
  BY <1>3, <1>4, <1>10, <1>11 DEF Patch!InPlace
<1>14. Patch!Places' \cup (removed' \ {0}) = DOMAIN original' /\ Patch!Places' \cap removed' = {}
  BY <1>2, <1>3, <1>12 DEF Patch!InPlace
<1>15. L > 0 => patched'[L] = patched'[Len(patched')]
  BY <1>11 
<1>16. ASSUME NEW i \in 1 .. L, patched'[i].from # 0
       PROVE  LET l == patched'[i] IN
              /\ l.v = original[l.from].v
              /\ l.e = original[l.from].e \/ original[l.from].e = "none" \/ l = patched'[Len(patched')]
  <2>1. patched[i].from = patched'[i].from /\ patched'[i].v = patched[i].v
    BY <1>10
  <2>2. patched[i].v = original[patched[i].from].v /\ patched[i].e = original[patched[i].from].e
    BY <1>3, <1>4, <1>16, <2>1 DEF Patch!AsWritten
  <2>3. i = L => patched'[i] = patched'[Len(patched')]
    BY <1>15
  <2> QED
    BY <1>10, <2>1, <2>2, <2>3
<1>17. \A l \in Patch!Range(patched') : \E i \in 1 .. L : l = patched'[i]
  BY <1>11 DEF Patch!Range
<1>18. patched' # <<>> /\ original # <<>> => (patched'[Len(patched')].e = "none") = (original[Len(original)].e = "none")
  <2> SUFFICES ASSUME patched' # <<>>, original # <<>>
               PROVE  patched'[Len(patched')].e = "none" <=> original[Len(original)].e = "none"
    OBVIOUS
  <2>1. L > 0
    BY <1>11
  <2>2. patched'[Len(patched')].e = IF ~whole THEN "none" ELSE IF patched[L].e = "none" THEN ending ELSE patched[L].e
    BY <1>10, <1>15, <2>1
  <2>3. whole <=> original[Len(original)].e # "none"
    BY <1>5
  <2> QED
    BY <1>8, <2>2, <2>3
<1>19. \A i \in DOMAIN patched' : i < Len(patched') => patched'[i].e # "none"
  BY <1>8, <1>10, <1>11
<1>20. Patch!OnlyTheNamedLines'
  <2>1. \A l \in Patch!Range(patched') : l.from # 0 =>
          /\ l.v = original'[l.from].v
          /\ l.e = original'[l.from].e \/ original'[l.from].e = "none" \/ l = patched'[Len(patched')]
    BY <1>2, <1>16, <1>17
  <2>2. patched' # <<>> /\ original' # <<>> => (patched'[Len(patched')].e = "none") = (original'[Len(original')].e = "none")
    BY <1>2, <1>18
  <2> QED
    BY <1>13, <1>14, <1>19, <2>1, <2>2 DEF Patch!OnlyTheNamedLines, Patch!Range
<1> QED
  BY <1>1, <1>2, <1>11, <1>20 DEF Patch!IInv

LEMMA ReplacesHolds ==
  ASSUME Patch!IInv, Patch!Replaces PROVE Patch!IInv'
<1>1. /\ original \in Seq(Patch!Piece) /\ \A i \in DOMAIN original : i < Len(original) => original[i].e # "none"
      /\ patched \in Seq(Patch!Placed) /\ hunks \in Seq(Patch!HunkOf)
      /\ cursorAt \in Nat \ {0} /\ removed \subseteq Nat
  BY DEF Patch!IInv
<1>2. PICK ls : ls = Head(hunks).lines
  OBVIOUS
<1>3. PICK at : at = {i \in DOMAIN patched : patched[i].v = Patch!Exact(ls[1].v)}
  OBVIOUS
<1>4. /\ ends = "works" /\ ends' = "done" /\ Len(hunks) = 1 /\ hunks' = <<>> /\ Len(ls) = 2
      /\ patched' = [i \in DOMAIN patched |-> IF i \in at THEN [patched[i] EXCEPT !.v = Patch!Exact(ls[2].v), !.from = 0]
                                              ELSE patched[i]]
      /\ removed' = at /\ UNCHANGED <<original, cursorAt>>
  BY <1>2, <1>3 DEF Patch!Replaces
<1>5. Patch!AsWritten /\ Patch!AtMostTwo
  BY <1>4 DEF Patch!IInv
<1>6. Head(hunks) = hunks[1] /\ hunks[1] \in Patch!HunkOf
  <2>1. PICK hs \in Seq(Patch!HunkOf) : hs = hunks
    BY <1>1
  <2>2. Len(hs) = 1
    BY <1>4, <2>1
  <2>3. hs[1] \in Patch!HunkOf /\ Head(hs) = hs[1]
    BY <2>2
  <2> QED
    BY <2>1, <2>3
<1>7. removed = {} /\ Len(patched) = Len(original) /\ \A i \in DOMAIN patched : patched[i].from = i
  BY <1>2, <1>4, <1>5, <1>6 DEF Patch!AtMostTwo, Patch!Untouched
<1>8. PICK L \in Nat : L = Len(patched) /\ L = Len(original) /\ DOMAIN patched = 1 .. L /\ DOMAIN original = 1 .. L
  BY <1>1, <1>7
<1>9. ls \in Seq(Patch!HunkLine) /\ ls[2] \in Patch!HunkLine
  <2>1. ls \in Seq(Patch!HunkLine)
    BY <1>2, <1>6 DEF Patch!HunkOf
  <2> QED
    <3>1. Len(ls) = 2
      BY <1>4
    <3>2. 2 \in DOMAIN ls
      BY <2>1, <3>1
    <3> QED
      BY <2>1, <3>2
<1>10. PICK v \in Patch!Values : v = Patch!Exact(ls[2].v)
  BY <1>9 DEF Patch!HunkLine, Patch!Exact, Patch!Values
<1>11. ASSUME NEW i \in 1 .. L
       PROVE  /\ patched'[i] \in Patch!Placed /\ patched'[i].from = (IF i \in at THEN 0 ELSE i)
              /\ patched'[i].e = original[i].e /\ (i \notin at => patched'[i].v = original[i].v)
  <2>1. patched[i] \in Patch!Placed /\ patched[i].from = i /\ i # 0
    BY <1>1, <1>7, <1>8
  <2>2. patched[i].v = original[i].v /\ patched[i].e = original[i].e
    BY <1>5, <1>8, <2>1 DEF Patch!AsWritten
  <2>3. patched'[i] = IF i \in at THEN [patched[i] EXCEPT !.v = v, !.from = 0] ELSE patched[i]
    BY <1>4, <1>8, <1>10
  <2>4. \A x \in Patch!Placed : /\ [x EXCEPT !.v = v, !.from = 0] \in Patch!Placed
                                /\ [x EXCEPT !.v = v, !.from = 0].from = 0 /\ [x EXCEPT !.v = v, !.from = 0].e = x.e
    BY DEF Patch!Placed
  <2> QED
    BY <2>1, <2>2, <2>3, <2>4
<1>12. DOMAIN patched' = 1 .. L /\ patched' \in Seq(Patch!Placed) /\ Len(patched') = L
  <2>1. DOMAIN patched' = 1 .. L
    BY <1>4, <1>8
  <2>2. patched' \in [1 .. L -> Patch!Placed]
    BY <1>4, <1>8, <1>11, <2>1
  <2> QED
    BY <2>1, <2>2, SeqDef
<1>13. at \subseteq 1 .. L
  BY <1>3, <1>8
<1>14. Patch!Places' = (1 .. L) \ at
  <2>1. Patch!Places' = {patched'[i].from : i \in 1 .. L} \ {0}
    BY <1>12 DEF Patch!Places
  <2> QED
    BY <1>11, <2>1
<1>15. \A i, j \in DOMAIN patched' : i < j /\ patched'[i].from # 0 /\ patched'[j].from # 0 => patched'[i].from < patched'[j].from
  BY <1>11, <1>12
<1>16. Patch!Places' \cup (removed' \ {0}) = DOMAIN original' /\ Patch!Places' \cap removed' = {}
  <2>1. removed' = at /\ DOMAIN original' = 1 .. L
    BY <1>4, <1>8
  <2>2. 0 \notin 1 .. L
    BY <1>8
  <2> QED
    BY <1>13, <1>14, <2>1, <2>2
<1>17. \A l \in Patch!Range(patched') : \E i \in 1 .. L : l = patched'[i]
  BY <1>12 DEF Patch!Range
<1>18. \A l \in Patch!Range(patched') : l.from # 0 =>
         /\ l.v = original'[l.from].v
         /\ l.e = original'[l.from].e \/ original'[l.from].e = "none" \/ l = patched'[Len(patched')]
  <2>1. original' = original
    BY <1>4
  <2> SUFFICES ASSUME NEW l \in Patch!Range(patched'), l.from # 0
               PROVE  l.v = original[l.from].v /\ l.e = original[l.from].e
    BY <2>1
  <2>2. PICK i \in 1 .. L : l = patched'[i]
    BY <1>17
  <2>3. i \notin at /\ l.from = i
    BY <1>11, <2>2
  <2> QED
    BY <1>11, <2>2, <2>3
<1>19. patched' # <<>> /\ original' # <<>> => (patched'[Len(patched')].e = "none") = (original'[Len(original')].e = "none")
  <2> SUFFICES ASSUME patched' # <<>> PROVE patched'[Len(patched')].e = original'[Len(original')].e
    OBVIOUS
  <2>1. L > 0 /\ L \in 1 .. L
    BY <1>12
  <2>2. patched'[Len(patched')] = patched'[L] /\ original'[Len(original')] = original[L]
    BY <1>4, <1>8, <1>12 
  <2> QED
    BY <1>11, <2>1, <2>2
<1>20. \A i \in DOMAIN patched' : i < Len(patched') => patched'[i].e # "none"
  BY <1>1, <1>8, <1>11, <1>12
<1>21. Patch!OnlyTheNamedLines'
  BY <1>15, <1>16, <1>18, <1>19, <1>20 DEF Patch!OnlyTheNamedLines, Patch!Range
<1>22. removed' \subseteq Nat /\ hunks' \in Seq(Patch!HunkOf)
  <2>1. removed' = at /\ hunks' = <<>>
    BY <1>4
  <2>2. \A x \in at : x \in Nat
    BY <1>13
  <2>3. <<>> \in Seq(Patch!HunkOf)
    OBVIOUS
  <2> QED
    BY <2>1, <2>2, <2>3
<1> QED
  BY <1>1, <1>4, <1>12, <1>21, <1>22 DEF Patch!IInv

LEMMA PatchStep ==
  ASSUME Patch!IInv, [Patch!Next]_patchVars PROVE Patch!IInv'
<1>1. CASE UNCHANGED patchVars
  BY SMTT(30), <1>1 DEF patchVars, Patch!IInv, Patch!InPlace, Patch!AsWritten, Patch!AtMostTwo, Patch!Untouched,
              Patch!OnlyTheNamedLines, Patch!Places, Patch!Range
<1>2. CASE Patch!Next
  BY <1>2, AppliesHolds, FinishesHolds, ReplacesHolds DEF Patch!Next
<1> QED
  BY <1>1, <1>2

\* A text keeps the lines no change names, in their order and as they were,
\* however many lines it and its hunks have.
THEOREM LinesAreKept == Spec => [](part = "patches" => Patch!OnlyTheNamedLines)
<1>1. Init => (part = "patches" => Patch!IInv)
  BY PatchInit DEF Init
<1>2. (part = "patches" => Patch!IInv) /\ [Next]_vars => (part = "patches" => Patch!IInv)'
  <2> SUFFICES ASSUME part = "patches" => Patch!IInv, [Next]_vars, part' = "patches" PROVE Patch!IInv'
    OBVIOUS
  <2>1. part = "patches" /\ [Patch!Next]_patchVars
    BY OnePartMoves
  <2> QED
    BY <2>1, PatchStep
<1>3. Patch!IInv => Patch!OnlyTheNamedLines
  BY DEF Patch!IInv
<1> QED
  BY <1>1, <1>2, <1>3, PTL DEF Spec

\* A tool changes what the agent has seen, where it was told to.
THEOREM EditsStayInformed == Spec => []EditsAreInformed
<1>1. (part = "tools" => Tool!EditsAreInformed) /\ (part = "patches" => Patch!OnlyTheNamedLines) => EditsAreInformed
  BY DEF EditsAreInformed
<1> QED
  BY <1>1, ToolsAreInformed, LinesAreKept, PTL

-----------------------------------------------------------------------------
(* What conversations are remembered by: Memory.                            *)

\* What a step leaves a conversation and its extractor.
SameKept(x) ==
  /\ remembered'[x] = remembered[x] /\ cursor'[x] = cursor[x] /\ pending'[x] = pending[x]
  /\ job'[x] = job[x] /\ covered'[x] = covered[x] /\ due'[x] = due[x] /\ behind'[x] = behind[x]
  /\ x \in ended' <=> x \in ended
  /\ x \in failed' <=> x \in failed
  /\ x \in spared' <=> x \in spared
Tables ==
  /\ DOMAIN remembered = Conversations /\ DOMAIN cursor = Conversations /\ DOMAIN pending = Conversations
  /\ DOMAIN job = Conversations /\ DOMAIN covered = Conversations /\ DOMAIN due = Conversations
  /\ DOMAIN behind = Conversations

LEMMA MemoryParts ==
  ASSUME Keeper!IInv
  PROVE  /\ count \in Nat /\ count <= MaxMessages /\ MaxMessages \in Nat
         /\ Tables
         /\ \A x \in Conversations : Keeper!Kept(x)
         /\ Keeper!OnlyWhatWasSeen
BY MemoryParameters DEF Keeper!IInv, Tables, Keeper!MemoryAssumption

LEMMA MemoryWhole ==
  ASSUME count' \in Nat, count' <= MaxMessages, Tables', \A x \in Conversations : Keeper!Kept(x)', Keeper!OnlyWhatWasSeen'
  PROVE  Keeper!IInv'
BY MemoryParameters DEF Keeper!IInv, Tables, Keeper!MemoryAssumption

LEMMA SequencesGrow ==
  ASSUME NEW n \in Nat, NEW k \in Nat, n <= k
  PROVE  /\ \A m \in 0 .. n : m \in 0 .. k
         /\ \A s \in Seq(0 .. n) : s \in Seq(0 .. k)
<1>1. 0 .. n \subseteq 0 .. k
  OBVIOUS
<1> QED
  BY <1>1

LEMMA NoneIsNoContext ==
  ASSUME NEW n \in Nat, NEW s \in Seq(0 .. n) PROVE s # None
<1>1. 0 .. n \subseteq Nat
  OBVIOUS
<1>2. s \in Seq(Nat)
  BY <1>1
<1> QED
  BY <1>2, MemoryParameters DEF Keeper!MemoryAssumption

LEMMA SameKeeps ==
  ASSUME NEW x \in Conversations, Keeper!Kept(x), SameKept(x), count \in Nat, count' \in Nat, count <= count'
  PROVE  Keeper!Kept(x)'
<1>2. (\A m \in 0 .. count : m \in 0 .. count') /\ \A s \in Seq(0 .. count) : s \in Seq(0 .. count')
  BY SequencesGrow
<1>3. Keeper!Numbered(x)'
  BY <1>2 DEF Keeper!Kept, Keeper!Numbered, Keeper!IsAnchor, SameKept
<1>4. Keeper!Snapshots(x)'
  BY <1>2 DEF Keeper!Kept, Keeper!Snapshots, Keeper!Snapshot, Keeper!HasContext, SameKept
<1>5. Keeper!Settled(x)'
  BY <1>2 DEF Keeper!Kept, Keeper!IsAnchor, Keeper!Settled, Keeper!SettledBy, Keeper!HasExtracted, SameKept
<1>6. Keeper!Awaited(x)'
  BY DEF Keeper!Kept, Keeper!Awaited, Keeper!Idle, Keeper!HasContext, SameKept
<1>7. Keeper!Once(x)'
  BY DEF Keeper!Kept, Keeper!Once, Keeper!Begins, Keeper!Reaches, Keeper!Frontier, Keeper!HasContext, Keeper!HasExtracted, SameKept
<1> QED
  BY <1>3, <1>4, <1>5, <1>6, <1>7 DEF Keeper!Kept

\* Steps that change the file only.
LEMMA FileStep ==
  ASSUME Keeper!IInv,
         UNCHANGED <<lock, remembered, count, cursor, pending, job, ended, covered, due, behind, failed, spared>>,
         wronged' = wronged
  PROVE  Keeper!IInv'
<1>1. \A x \in Conversations : SameKept(x)
  BY DEF SameKept
<1>2. Tables'
  BY MemoryParts DEF Tables
<1>3. Keeper!OnlyWhatWasSeen'
  BY MemoryParts DEF Keeper!OnlyWhatWasSeen
<1>4. \A x \in Conversations : Keeper!Kept(x)'
  BY <1>1, SameKeeps, MemoryParts
<1> QED
  BY <1>2, <1>3, <1>4, MemoryParts, MemoryWhole

LEMMA ForgetsNothingUnseen ==
  ASSUME NEW x \in Conversations, Keeper!Forgets(x)
  PROVE  wronged' = wronged
BY DEF Keeper!Forgets, Keeper!MayForget

\* An increasing sequence ends with the greatest of it.
LEMMA LastIsGreatest ==
  ASSUME NEW n \in Nat, NEW ms \in Seq(0 .. n), ms # <<>>, Keeper!Increases(ms)
  PROVE  /\ Len(ms) \in Nat \ {0} /\ Keeper!LastOf(ms) \in 0 .. n
         /\ \A m \in Keeper!Range(ms) : m \in 0 .. n /\ m <= Keeper!LastOf(ms)
         /\ Keeper!Anchor(ms) = [position |-> Len(ms), last |-> Keeper!LastOf(ms)]
         /\ Keeper!LastOf(ms) \in Keeper!Range(ms)
<1>1. Len(ms) \in Nat \ {0} /\ DOMAIN ms = 1 .. Len(ms) /\ \A i \in 1 .. Len(ms) : ms[i] \in 0 .. n
  OBVIOUS
<1>2. \A i \in 1 .. Len(ms) : ms[i] <= ms[Len(ms)]
  BY <1>1 DEF Keeper!Increases
<1> QED
  BY <1>1, <1>2 DEF Keeper!Range, Keeper!LastOf, Keeper!Anchor

LEMMA GrowsByOne ==
  ASSUME NEW n \in Nat, NEW ms \in Seq(0 .. n), Keeper!Increases(ms)
  PROVE  /\ Append(ms, n + 1) \in Seq(0 .. n + 1) /\ Append(ms, n + 1) # <<>>
         /\ Keeper!Increases(Append(ms, n + 1))
         /\ Keeper!LastOf(Append(ms, n + 1)) = n + 1
         /\ Keeper!Range(Append(ms, n + 1)) = Keeper!Range(ms) \cup {n + 1}
         /\ \A m \in Keeper!Range(ms) : m \in 0 .. n
         /\ Len(Append(ms, n + 1)) = Len(ms) + 1
         /\ \A i \in DOMAIN ms : Append(ms, n + 1)[i] = ms[i]
<1> DEFINE a == Append(ms, n + 1)
<1>1. Len(ms) \in Nat /\ DOMAIN ms = 1 .. Len(ms) /\ \A i \in 1 .. Len(ms) : ms[i] \in 0 .. n
  OBVIOUS
<1>2. /\ Len(a) = Len(ms) + 1 /\ DOMAIN a = 1 .. Len(ms) + 1 /\ a[Len(ms) + 1] = n + 1
      /\ \A i \in 1 .. Len(ms) : a[i] = ms[i]
  OBVIOUS
<1>3. a \in Seq(0 .. n + 1)
  <2>1. ms \in Seq(0 .. n + 1)
    BY <1>1
  <2> QED
    BY <2>1
<1>4. Keeper!Increases(a)
  BY <1>1, <1>2 DEF Keeper!Increases
<1>5. Keeper!LastOf(a) = n + 1
  BY <1>1, <1>2 DEF Keeper!LastOf
<1>6. Keeper!Range(a) = Keeper!Range(ms) \cup {n + 1}
  BY <1>1, <1>2 DEF Keeper!Range
<1>7. \A m \in Keeper!Range(ms) : m \in 0 .. n
  BY <1>1 DEF Keeper!Range
<1> QED
  BY <1>1, <1>2, <1>3, <1>4, <1>5, <1>6, <1>7

LEMMA TurnKeeps ==
  ASSUME NEW x \in Conversations, Keeper!IInv, Keeper!Turn(x)
  PROVE  Keeper!IInv'
<1>1. /\ count \in Nat /\ count' = count + 1 /\ count' \in Nat /\ count' <= MaxMessages /\ Tables /\ Keeper!Kept(x)
  BY MemoryParts DEF Keeper!Turn
<1>2. PICK ms : ms = Append(remembered[x], count + 1)
  OBVIOUS
<1>3. /\ remembered' = [remembered EXCEPT ![x] = ms]
      /\ UNCHANGED <<lock, cursor, ended, covered, behind, failed, spared, wronged>>
      /\ Keeper!Submit(x, ms) \/ UNCHANGED <<pending, job, due>>
  BY <1>2 DEF Keeper!Turn
<1>4. remembered[x] \in Seq(0 .. count) /\ Keeper!Increases(remembered[x]) /\ DOMAIN job[x] = Keeper!JobFields
  BY <1>1 DEF Keeper!Kept, Keeper!Numbered
<1>5. /\ ms \in Seq(0 .. count') /\ ms # <<>> /\ Keeper!Increases(ms) /\ Keeper!LastOf(ms) = count'
      /\ Keeper!Range(ms) = Keeper!Range(remembered[x]) \cup {count'}
      /\ \A m \in Keeper!Range(remembered[x]) : m \in 0 .. count
      /\ Len(ms) = Len(remembered[x]) + 1 /\ \A i \in DOMAIN remembered[x] : ms[i] = remembered[x][i]
  BY <1>1, <1>2, <1>4, GrowsByOne
<1>6. remembered'[x] = ms /\ \A y \in Conversations : y # x => remembered'[y] = remembered[y]
  BY <1>1, <1>3 DEF Tables
<1>7. /\ Tables' /\ \A y \in Conversations : y # x => SameKept(y)
      /\ cursor'[x] = cursor[x] /\ covered'[x] = covered[x] /\ behind'[x] = behind[x]
      /\ job'[x].context = job[x].context /\ job'[x].from = job[x].from /\ DOMAIN job'[x] = Keeper!JobFields
      /\ \/ pending'[x] = pending[x] /\ due'[x] = due[x] /\ job'[x] = job[x]
         \/ /\ pending'[x] = ms /\ due'[x] = due[x] \cup (Keeper!Range(ms) \ (behind[x] \cup {0}))
            /\ x \notin ended /\ job'[x].stage = IF job[x].stage = "none" THEN "drains" ELSE job[x].stage
  <2>1. CASE UNCHANGED <<pending, job, due>>
    BY <1>1, <1>3, <1>4, <1>6, <2>1 DEF Tables, SameKept
  <2>2. CASE x \in ended /\ Keeper!Submit(x, ms)
    BY <1>1, <1>3, <1>4, <1>6, <2>2 DEF Tables, SameKept, Keeper!Submit
  <2>3. CASE x \notin ended /\ Keeper!Submit(x, ms)
    <3>1. /\ due' = [due EXCEPT ![x] = @ \cup (Keeper!Range(ms) \ (behind[x] \cup {0}))]
          /\ pending' = [pending EXCEPT ![x] = ms]
          /\ job' = IF job[x].stage = "none" THEN [job EXCEPT ![x].stage = "drains"] ELSE job
      BY <2>3 DEF Keeper!Submit, Keeper!Summary, Keeper!Idle
    <3>2. /\ job'[x].context = job[x].context /\ job'[x].from = job[x].from /\ DOMAIN job'[x] = Keeper!JobFields
          /\ job'[x].stage = IF job[x].stage = "none" THEN "drains" ELSE job[x].stage
          /\ DOMAIN job' = Conversations /\ \A y \in Conversations : y # x => job'[y] = job[y]
      BY <1>1, <1>4, <3>1 DEF Tables, Keeper!JobFields
    <3> QED
      BY <1>1, <1>3, <1>6, <2>3, <3>1, <3>2 DEF Tables, SameKept
  <2> QED
    BY <1>3, <2>1, <2>2, <2>3
<1>8. Keeper!Kept(x)'
  <2>1. (\A m \in 0 .. count : m \in 0 .. count') /\ \A s \in Seq(0 .. count) : s \in Seq(0 .. count')
    BY <1>1, SequencesGrow
  <2>2. job'[x].stage # "none" /\ job[x].stage # "none" => job'[x].stage = job[x].stage
    BY <1>7
  <2>3. (Keeper!HasContext(x)' <=> Keeper!HasContext(x)) /\ (Keeper!HasExtracted(x)' <=> Keeper!HasExtracted(x))
        /\ (job'[x].stage = "extracts" <=> job[x].stage = "extracts")
    BY <1>7 DEF Keeper!HasContext, Keeper!HasExtracted
  <2>4. Keeper!Numbered(x)'
    <3>1. due[x] \subseteq Keeper!Range(remembered[x]) \ ({0} \cup behind[x])
      BY <1>1 DEF Keeper!Kept, Keeper!Numbered, Keeper!Summary
    <3>2. due'[x] \subseteq Keeper!Range(ms) \ ({0} \cup behind[x])
      BY <1>5, <1>7, <3>1
    <3>3. job'[x].stage \in {"none", "drains", "extracts", "asks", "consolidates"}
      BY <1>1, <1>7 DEF Keeper!Kept, Keeper!Numbered
    <3> QED
      BY <1>1, <1>5, <1>6, <1>7, <2>1, <3>2, <3>3 DEF Keeper!Kept, Keeper!Numbered, Keeper!Summary, Keeper!IsAnchor
  <2>5. ASSUME NEW s, Keeper!Snapshot(x, s)
        PROVE  Keeper!Snapshot(x, s)' /\ Keeper!LastOf(s) < count'
    <3>1. s \in Seq(0 .. count) /\ s # <<>> /\ Keeper!Increases(s)
      BY <2>5 DEF Keeper!Snapshot
    <3>2. Keeper!LastOf(s) \in 0 .. count
      BY <1>1, <3>1, LastIsGreatest
    <3> QED
      BY <1>1, <1>5, <1>6, <2>1, <2>5, <3>1, <3>2 DEF Keeper!Snapshot
  <2>6. Keeper!Snapshot(x, ms)'
    BY <1>5, <1>6 DEF Keeper!Snapshot
  <2>7. Keeper!Snapshots(x)'
    BY <1>1, <1>7, <2>3, <2>5, <2>6 DEF Keeper!Kept, Keeper!Snapshots
  <2>8. ASSUME NEW c, Keeper!SettledBy(x, c), c.position > 0 => c.last \in 0 .. count
        PROVE  Keeper!SettledBy(x, c)'
    BY <1>1, <1>5, <1>6, <1>7, <2>8 DEF Keeper!SettledBy, Keeper!Summary
  <2>9. Keeper!HasExtracted(x) => LET c == Keeper!Anchor(job[x].context) IN c.position > 0 => c.last \in 0 .. count
    <3>1. Keeper!HasExtracted(x) => Keeper!Snapshot(x, job[x].context)
      BY <1>1 DEF Keeper!Kept, Keeper!Snapshots, Keeper!HasContext, Keeper!HasExtracted
    <3>2. ASSUME NEW s, Keeper!Snapshot(x, s) PROVE Keeper!Anchor(s) = [position |-> Len(s), last |-> Keeper!LastOf(s)] /\ Keeper!LastOf(s) \in 0 .. count
      BY <1>1, <3>2, LastIsGreatest DEF Keeper!Snapshot
    <3> QED
      BY <3>1, <3>2
  <2>10. Keeper!Settled(x)'
    <3>1. Keeper!SettledBy(x, cursor[x])'
      <4>1. PICK c : c = cursor[x]
        OBVIOUS
      <4>2. Keeper!SettledBy(x, c)'
        BY <1>1, <2>8, <4>1 DEF Keeper!Kept, Keeper!Settled, Keeper!Numbered, Keeper!IsAnchor
      <4> QED
        BY <1>7, <4>1, <4>2 DEF Keeper!SettledBy
    <3>2. job[x].stage = "extracts" => Keeper!IsAnchor(job[x].from)' /\ Keeper!SettledBy(x, job[x].from)'
      BY <1>1, <1>7, <2>1, <2>8 DEF Keeper!Kept, Keeper!Settled, Keeper!IsAnchor
    <3>3. Keeper!HasExtracted(x) => Keeper!SettledBy(x, Keeper!Anchor(job[x].context))'
      <4>1. PICK c : c = Keeper!Anchor(job[x].context)
        OBVIOUS
      <4>2. Keeper!HasExtracted(x) => Keeper!SettledBy(x, c)'
        BY <1>1, <2>8, <2>9, <4>1 DEF Keeper!Kept, Keeper!Settled
      <4>3. c = Keeper!Anchor(job[x].context)'
        BY <1>7, <4>1 DEF Keeper!Anchor
      <4> QED
        BY <4>2, <4>3 DEF Keeper!SettledBy
    <3> QED
      BY <1>7, <2>3, <3>1, <3>2, <3>3 DEF Keeper!Settled
  <2>11. Keeper!Awaited(x)'
    <3>1. CASE pending'[x] = pending[x] /\ due'[x] = due[x] /\ job'[x] = job[x]
      BY <1>1, <1>3, <1>7, <3>1 DEF Keeper!Kept, Keeper!Awaited, Keeper!Idle, Keeper!HasContext
    <3>2. CASE /\ pending'[x] = ms /\ due'[x] = due[x] \cup (Keeper!Range(ms) \ (behind[x] \cup {0}))
               /\ job'[x].stage = IF job[x].stage = "none" THEN "drains" ELSE job[x].stage
      <4>1. \A m \in due'[x] : m <= count'
        BY <1>1, <1>5, <2>4 DEF Keeper!Numbered, Keeper!Range
      <4>2. ms # None
        BY <1>1, <1>5, NoneIsNoContext
      <4> QED
        BY <1>5, <3>2, <4>1, <4>2 DEF Keeper!Awaited, Keeper!Idle
    <3> QED
      BY <1>7, <3>1, <3>2
  <2>12. Keeper!Once(x)'
    <3> SUFFICES ASSUME x \notin spared PROVE Keeper!Once(x)'
      BY <1>3 DEF Keeper!Once
    <3>1. /\ pending[x] # None => Keeper!Begins(pending[x], x) /\ Keeper!Reaches(pending[x], cursor[x])
          /\ Keeper!HasContext(x) => Keeper!Begins(job[x].context, x) /\ Keeper!Reaches(job[x].context, cursor[x])
          /\ pending[x] # None /\ Keeper!HasContext(x) => Len(job[x].context) <= Len(pending[x])
          /\ Keeper!Reaches(remembered[x], cursor[x])
          /\ job[x].stage = "extracts" => job[x].from = cursor[x]
          /\ \A m \in 1 .. MaxMessages : covered[x][m] <= 1 /\ (covered[x][m] = 1 => m <= Keeper!Frontier(x))
      BY <1>1 DEF Keeper!Kept, Keeper!Once
    <3>2. Len(remembered[x]) \in Nat /\ DOMAIN remembered[x] = 1 .. Len(remembered[x]) /\ cursor[x].position \in Nat
      BY <1>1, <1>4 DEF Keeper!Kept, Keeper!Numbered, Keeper!IsAnchor
    <3>3. ASSUME NEW s, Len(s) \in Nat, DOMAIN s = 1 .. Len(s), Keeper!Begins(s, x) PROVE Keeper!Begins(s, x)'
      BY <1>5, <1>6, <3>2, <3>3 DEF Keeper!Begins
    <3>4. ASSUME NEW s, Keeper!Snapshot(x, s) PROVE Len(s) \in Nat /\ DOMAIN s = 1 .. Len(s)
      BY <3>4 DEF Keeper!Snapshot
    <3>5. Keeper!Frontier(x)' = Keeper!Frontier(x)
      BY <1>7, <2>3 DEF Keeper!Frontier
    <3>6. Keeper!Begins(ms, x)' /\ Keeper!Reaches(ms, cursor[x])
      BY <1>5, <1>6, <3>1, <3>2 DEF Keeper!Begins, Keeper!Reaches
    <3>7. Keeper!HasContext(x) => Len(job[x].context) <= Len(ms) /\ Keeper!Begins(job[x].context, x)'
      <4>1. Keeper!HasContext(x) => Len(job[x].context) \in Nat /\ Len(job[x].context) <= Len(remembered[x])
        BY <1>1, <3>1, <3>4 DEF Keeper!Begins, Keeper!Kept, Keeper!Snapshots
      <4>2. PICK c : c = job[x].context
        OBVIOUS
      <4>3. Keeper!HasContext(x) => Keeper!Begins(c, x)'
        BY <1>1, <3>1, <3>3, <3>4, <4>2 DEF Keeper!Kept, Keeper!Snapshots
      <4> QED
        BY <1>5, <1>7, <3>2, <4>1, <4>2, <4>3 DEF Keeper!Begins
    <3>8. pending[x] # None => Keeper!Begins(pending[x], x)'
      <4>1. PICK c : c = pending[x]
        OBVIOUS
      <4>2. c # None => Keeper!Begins(c, x)'
        BY <1>1, <3>1, <3>3, <3>4, <4>1 DEF Keeper!Kept, Keeper!Snapshots
      <4> QED
        BY <1>7, <3>6, <4>1, <4>2 DEF Keeper!Begins
    <3>9. pending'[x] # None => Keeper!Begins(pending[x], x)' /\ Keeper!Reaches(pending[x], cursor[x])'
      BY <1>7, <3>1, <3>6, <3>8 DEF Keeper!Begins, Keeper!Reaches
    <3>10. pending'[x] # None /\ Keeper!HasContext(x)' => Len(job'[x].context) <= Len(pending'[x])
      BY <1>7, <2>3, <3>1, <3>7
    <3>11. Keeper!HasContext(x)' => Keeper!Begins(job[x].context, x)' /\ Keeper!Reaches(job[x].context, cursor[x])'
      BY <1>7, <2>3, <3>1, <3>7 DEF Keeper!Begins, Keeper!Reaches
    <3>12. Keeper!Reaches(remembered[x], cursor[x])'
      BY <1>6, <1>7, <3>6 DEF Keeper!Reaches
    <3> QED
      BY <1>7, <2>3, <3>1, <3>5, <3>9, <3>10, <3>11, <3>12 DEF Keeper!Once
  <2> QED
    BY <2>4, <2>7, <2>10, <2>11, <2>12 DEF Keeper!Kept
<1>9. Keeper!OnlyWhatWasSeen'
  <2>1. \A y \in Conversations : job'[y].stage = "consolidates" => job[y].stage = "consolidates"
    BY <1>7 DEF SameKept
  <2> QED
    BY <1>3, <2>1, MemoryParts DEF Keeper!OnlyWhatWasSeen
<1> QED
  <2>1. \A y \in Conversations : Keeper!Kept(y)'
    BY <1>1, <1>7, <1>8, SameKeeps, MemoryParts
  <2> QED
    BY <1>1, <1>7, <1>9, <2>1, MemoryWhole

\* A conversation is cut down to less than it was.
LEMMA CutKeeps ==
  ASSUME NEW x \in Conversations, Keeper!Kept(x), count \in Nat, count' = count,
         NEW ms \in Seq(0 .. count), Keeper!Increases(ms), remembered'[x] = ms,
         Keeper!Range(ms) \subseteq Keeper!Range(remembered[x]) \cup {0},
         due'[x] \subseteq due[x] \cap Keeper!Range(ms),
         \/ cursor'[x] = cursor[x] /\ behind'[x] = behind[x]
         \/ cursor'[x] = Keeper!Anchor(ms) /\ behind'[x] = behind[x] \cup Keeper!Range(ms) /\ due'[x] = {},
         UNCHANGED <<pending, job, ended, covered, failed>>, x \in spared'
  PROVE  Keeper!Kept(x)'
<1>1. DOMAIN ms = 1 .. Len(ms) /\ Len(ms) \in Nat
  OBVIOUS
<1>2. Keeper!IsAnchor(cursor[x])' /\ Keeper!SettledBy(x, cursor[x])'
  <2>1. CASE cursor'[x] = cursor[x] /\ behind'[x] = behind[x]
    BY <2>1 DEF Keeper!Kept, Keeper!Numbered, Keeper!Settled, Keeper!IsAnchor, Keeper!SettledBy, Keeper!Summary
  <2>2. CASE cursor'[x] = Keeper!Anchor(ms) /\ behind'[x] = behind[x] \cup Keeper!Range(ms)
    <3>1. CASE ms = <<>>
      BY <2>2, <3>1 DEF Keeper!IsAnchor, Keeper!SettledBy, Keeper!Anchor
    <3>2. CASE ms # <<>>
      BY <2>2, <3>2, LastIsGreatest DEF Keeper!IsAnchor, Keeper!SettledBy
    <3> QED
      BY <3>1, <3>2
  <2> QED
    BY <2>1, <2>2
<1>3. Keeper!Numbered(x)'
  BY <1>2 DEF Keeper!Kept, Keeper!Numbered, Keeper!Summary
<1>4. Keeper!Snapshots(x)'
  BY DEF Keeper!Kept, Keeper!Snapshots, Keeper!Snapshot, Keeper!HasContext, Keeper!Summary
<1>5. Keeper!Settled(x)'
  <2>1. behind[x] \subseteq behind'[x]
    OBVIOUS
  <2>2. ASSUME NEW c, Keeper!SettledBy(x, c) PROVE Keeper!SettledBy(x, c)'
    BY <2>1, <2>2 DEF Keeper!SettledBy, Keeper!Summary
  <2>3. job[x].stage = "extracts" => Keeper!IsAnchor(job[x].from)' /\ Keeper!SettledBy(x, job[x].from)'
    <3>1. PICK c : c = job[x].from
      OBVIOUS
    <3>2. job[x].stage = "extracts" => Keeper!SettledBy(x, c)'
      BY <2>2, <3>1 DEF Keeper!Kept, Keeper!Settled
    <3> QED
      BY <3>1, <3>2 DEF Keeper!Kept, Keeper!Settled, Keeper!SettledBy, Keeper!IsAnchor
  <2>4. Keeper!HasExtracted(x) => Keeper!SettledBy(x, Keeper!Anchor(job[x].context))'
    <3>1. PICK c : c = Keeper!Anchor(job[x].context)
      OBVIOUS
    <3>2. Keeper!HasExtracted(x) => Keeper!SettledBy(x, c)'
      BY <2>2, <3>1 DEF Keeper!Kept, Keeper!Settled
    <3>3. c = Keeper!Anchor(job[x].context)'
      BY <3>1 DEF Keeper!Anchor
    <3> QED
      BY <3>2, <3>3 DEF Keeper!SettledBy
  <2> QED
    BY <1>2, <2>3, <2>4 DEF Keeper!Settled, Keeper!HasExtracted
<1>6. Keeper!Awaited(x)'
  BY DEF Keeper!Kept, Keeper!Awaited, Keeper!Idle, Keeper!HasContext
<1>7. Keeper!Once(x)'
  BY DEF Keeper!Once
<1> QED
  BY <1>3, <1>4, <1>5, <1>6, <1>7 DEF Keeper!Kept

LEMMA CompactedKeeps ==
  ASSUME NEW x \in Conversations, Keeper!IInv, Keeper!Compacted(x)
  PROVE  Keeper!IInv'
<1>1. count \in Nat /\ count <= MaxMessages /\ Tables /\ Keeper!Kept(x) /\ Keeper!OnlyWhatWasSeen
  BY MemoryParts
<1>2. PICK l : l = Keeper!LastOf(remembered[x])
  OBVIOUS
<1>3. remembered[x] \in Seq(0 .. count) /\ Keeper!Increases(remembered[x])
  BY <1>1 DEF Keeper!Kept, Keeper!Numbered
<1>4. l \in Keeper!Range(remembered[x]) /\ l \in 0 .. count /\ l > 0
  <2>1. Len(remembered[x]) \in Nat /\ Len(remembered[x]) > 1 /\ DOMAIN remembered[x] = 1 .. Len(remembered[x])
    BY <1>3 DEF Keeper!Compacted
  <2>2. l = remembered[x][Len(remembered[x])] /\ remembered[x][1] \in 0 .. count /\ l \in 0 .. count
    <3>1. PICK r \in Seq(0 .. count) : r = remembered[x]
      BY <1>3
    <3>2. Len(r) \in Nat /\ Len(r) > 1 /\ \A i \in 1 .. Len(r) : r[i] \in 0 .. count
      BY <1>1, <2>1, <3>1
    <3>3. l = r[Len(r)]
      BY <1>2, <3>1 DEF Keeper!LastOf
    <3> QED
      BY <3>1, <3>2, <3>3
  <2>3. remembered[x][1] < l
    BY <1>3, <2>1, <2>2 DEF Keeper!Increases
  <2> QED
    BY <2>1, <2>2, <2>3 DEF Keeper!Range
<1>5. PICK ms : ms = <<0, l>>
  OBVIOUS
<1>6. ms \in Seq(0 .. count) /\ Keeper!Increases(ms) /\ Keeper!Range(ms) = {0, l}
  <2>1. ms \in Seq(0 .. count) /\ DOMAIN ms = 1 .. 2 /\ ms[1] = 0 /\ ms[2] = l
    BY <1>1, <1>4, <1>5
  <2>2. 1 .. 2 = {1, 2}
    OBVIOUS
  <2> QED
    BY <1>4, <2>1, <2>2 DEF Keeper!Increases, Keeper!Range
<1>7. /\ remembered' = [remembered EXCEPT ![x] = ms] /\ due' = [due EXCEPT ![x] = @ \cap {l}] /\ spared' = spared \cup {x}
      /\ UNCHANGED <<lock, count, cursor, pending, job, ended, covered, behind, failed, wronged>>
  BY <1>2, <1>5 DEF Keeper!Compacted, Keeper!Summary
<1>8. /\ Tables' /\ \A y \in Conversations : y # x => SameKept(y)
      /\ remembered'[x] = ms /\ due'[x] = due[x] \cap {l} /\ x \in spared'
      /\ cursor'[x] = cursor[x] /\ behind'[x] = behind[x]
  BY <1>1, <1>7 DEF Tables, SameKept
<1>9. Keeper!Kept(x)'
  BY <1>1, <1>4, <1>6, <1>7, <1>8, CutKeeps
<1>10. \A y \in Conversations : Keeper!Kept(y)'
  BY <1>1, <1>7, <1>8, <1>9, SameKeeps, MemoryParts
<1>11. Keeper!OnlyWhatWasSeen'
  BY <1>1, <1>7 DEF Keeper!OnlyWhatWasSeen
<1> QED
  BY <1>1, <1>7, <1>8, <1>10, <1>11, MemoryWhole

LEMMA SeededKeeps ==
  ASSUME NEW x \in Conversations, Keeper!IInv, Keeper!Seeded(x)
  PROVE  Keeper!IInv'
<1>1. count \in Nat /\ count <= MaxMessages /\ Tables /\ Keeper!Kept(x) /\ Keeper!OnlyWhatWasSeen
  BY MemoryParts
<1>2. PICK n \in 0 .. Len(remembered[x]) :
         /\ remembered' = [remembered EXCEPT ![x] = SubSeq(@, 1, n)]
         /\ cursor' = [cursor EXCEPT ![x] = Keeper!Anchor(SubSeq(remembered[x], 1, n))]
         /\ behind' = [behind EXCEPT ![x] = @ \cup Keeper!Range(SubSeq(remembered[x], 1, n))]
  BY DEF Keeper!Seeded
<1>3. PICK ms : ms = SubSeq(remembered[x], 1, n)
  OBVIOUS
<1>4. remembered[x] \in Seq(0 .. count) /\ Keeper!Increases(remembered[x])
  BY <1>1 DEF Keeper!Kept, Keeper!Numbered
<1>5. ms \in Seq(0 .. count) /\ Keeper!Increases(ms) /\ Keeper!Range(ms) \subseteq Keeper!Range(remembered[x])
  <2>1. n \in Nat /\ n <= Len(remembered[x]) /\ DOMAIN remembered[x] = 1 .. Len(remembered[x]) /\ Len(remembered[x]) \in Nat
    BY <1>2, <1>4
  <2>2. ms \in Seq(0 .. count) /\ Len(ms) = n /\ DOMAIN ms = 1 .. n /\ \A i \in 1 .. n : ms[i] = remembered[x][i]
    <3>1. PICK r \in Seq(0 .. count) : r = remembered[x]
      BY <1>4
    <3>2. SubSeq(r, 1, n) \in Seq(0 .. count) /\ Len(SubSeq(r, 1, n)) = n
          /\ \A i \in 1 .. n : SubSeq(r, 1, n)[i] = r[i]
      BY <1>1, <2>1, <3>1
    <3> QED
      BY <1>3, <3>1, <3>2
  <2> QED
    BY <1>4, <2>1, <2>2 DEF Keeper!Increases, Keeper!Range
<1>6. /\ due' = [due EXCEPT ![x] = {}] /\ spared' = spared \cup {x}
      /\ UNCHANGED <<lock, count, pending, job, ended, covered, failed, wronged>>
  BY DEF Keeper!Seeded
<1>7. /\ Tables' /\ \A y \in Conversations : y # x => SameKept(y)
      /\ remembered'[x] = ms /\ due'[x] = {} /\ x \in spared'
      /\ cursor'[x] = Keeper!Anchor(ms) /\ behind'[x] = behind[x] \cup Keeper!Range(ms)
  BY <1>1, <1>2, <1>3, <1>6 DEF Tables, SameKept
<1>8. Keeper!Kept(x)'
  BY <1>1, <1>5, <1>6, <1>7, CutKeeps
<1>9. \A y \in Conversations : Keeper!Kept(y)'
  BY <1>1, <1>6, <1>7, <1>8, SameKeeps, MemoryParts
<1>10. Keeper!OnlyWhatWasSeen'
  BY <1>1, <1>6 DEF Keeper!OnlyWhatWasSeen
<1> QED
  BY <1>1, <1>6, <1>7, <1>9, <1>10, MemoryWhole

\* A step of the extractor's thread, or the close of it, leaves the conversation alone.
LEMMA ExtractorStep ==
  ASSUME NEW x \in Conversations, Keeper!IInv,
         UNCHANGED <<remembered, count, due, behind, spared>>, Tables',
         \A y \in Conversations : y # x => SameKept(y),
         Keeper!IsAnchor(cursor[x])', DOMAIN job'[x] = Keeper!JobFields, covered'[x] \in [1 .. MaxMessages -> Nat],
         job'[x].stage \in {"none", "drains", "extracts", "asks", "consolidates"},
         Keeper!Snapshots(x)', Keeper!Settled(x)', Keeper!Awaited(x)', Keeper!Once(x)', Keeper!OnlyWhatWasSeen'
  PROVE  Keeper!IInv'
<1>1. count \in Nat /\ count <= MaxMessages /\ Keeper!Kept(x)
  BY MemoryParts
<1>2. Keeper!Numbered(x)'
  BY <1>1 DEF Keeper!Kept, Keeper!Numbered
<1>3. \A y \in Conversations : Keeper!Kept(y)'
  BY <1>1, <1>2, SameKeeps, MemoryParts DEF Keeper!Kept
<1> QED
  BY <1>1, <1>3, MemoryWhole

LEMMA ClosedKeeps ==
  ASSUME NEW x \in Conversations, Keeper!IInv, Keeper!Closed(x)
  PROVE  Keeper!IInv'
<1>1. Tables /\ Keeper!Kept(x) /\ Keeper!OnlyWhatWasSeen
  BY MemoryParts
<1>2. /\ ended' = ended \cup {x} /\ pending' = [pending EXCEPT ![x] = None]
      /\ UNCHANGED <<lock, remembered, count, cursor, job, covered, due, behind, failed, spared, wronged>>
  BY DEF Keeper!Closed
<1>3. Tables' /\ (\A y \in Conversations : y # x => SameKept(y)) /\ pending'[x] = None
  BY <1>1, <1>2 DEF Tables, SameKept
<1>4. Keeper!Numbered(x)'
  BY <1>1, <1>2 DEF Keeper!Kept, Keeper!Numbered, Keeper!IsAnchor
<1>5. Keeper!Snapshots(x)'
  BY <1>1, <1>2, <1>3 DEF Keeper!Kept, Keeper!Snapshots, Keeper!Snapshot, Keeper!HasContext
<1>6. Keeper!Settled(x)'
  BY <1>1, <1>2 DEF Keeper!Kept, Keeper!Settled, Keeper!SettledBy, Keeper!HasExtracted, Keeper!IsAnchor, Keeper!Anchor
<1>7. Keeper!Awaited(x)'
  BY <1>2 DEF Keeper!Awaited
<1>8. Keeper!Once(x)'
  BY <1>1, <1>2, <1>3 DEF Keeper!Kept, Keeper!Once, Keeper!Begins, Keeper!Reaches, Keeper!Frontier, Keeper!HasContext, Keeper!HasExtracted
<1>9. Keeper!OnlyWhatWasSeen'
  BY <1>1, <1>2 DEF Keeper!OnlyWhatWasSeen
<1> QED
  BY <1>2, <1>3, <1>4, <1>5, <1>6, <1>7, <1>8, <1>9, ExtractorStep DEF Keeper!Numbered

LEMMA DrainsKeeps ==
  ASSUME NEW x \in Conversations, Keeper!IInv, Keeper!Drains(x)
  PROVE  Keeper!IInv'
<1>1. Tables /\ Keeper!Kept(x) /\ Keeper!OnlyWhatWasSeen
  BY MemoryParts
<1>2. /\ job[x].stage = "drains"
      /\ UNCHANGED <<lock, remembered, count, cursor, ended, covered, due, behind, failed, spared, wronged>>
  BY DEF Keeper!Drains
<1>3. Keeper!IsAnchor(cursor[x])' /\ covered'[x] \in [1 .. MaxMessages -> Nat]
  BY <1>1, <1>2 DEF Keeper!Kept, Keeper!Numbered, Keeper!IsAnchor
<1>4. CASE x \in ended \/ pending[x] = None
  <2>1. job' = [job EXCEPT ![x] = Keeper!NoJob] /\ pending' = pending
    BY <1>4 DEF Keeper!Drains
  <2>2. /\ Tables' /\ (\A y \in Conversations : y # x => SameKept(y)) /\ pending'[x] = pending[x]
        /\ job'[x].stage = "none" /\ DOMAIN job'[x] = Keeper!JobFields
    BY <1>1, <1>2, <2>1 DEF Tables, SameKept, Keeper!NoJob, Keeper!JobFields
  <2>3. Keeper!Snapshots(x)'
    BY <1>1, <1>2, <2>1, <2>2 DEF Keeper!Kept, Keeper!Snapshots, Keeper!Snapshot, Keeper!HasContext
  <2>4. Keeper!Settled(x)'
    BY <1>1, <1>2, <2>2 DEF Keeper!Kept, Keeper!Settled, Keeper!SettledBy, Keeper!HasExtracted
  <2>5. Keeper!Awaited(x)'
    BY <1>1, <1>2, <1>4, <2>2 DEF Keeper!Kept, Keeper!Awaited, Keeper!Idle, Keeper!HasContext
  <2>6. Keeper!Once(x)'
    BY <1>1, <1>2, <2>2 DEF Keeper!Kept, Keeper!Once, Keeper!Begins, Keeper!Reaches, Keeper!Frontier, Keeper!HasContext, Keeper!HasExtracted
  <2>7. Keeper!OnlyWhatWasSeen'
    BY <1>1, <1>2, <2>2 DEF Keeper!OnlyWhatWasSeen, SameKept
  <2> QED
    BY <1>2, <1>3, <2>2, <2>3, <2>4, <2>5, <2>6, <2>7, ExtractorStep
<1>5. CASE x \notin ended /\ pending[x] # None
  <2>1. /\ job' = [job EXCEPT ![x] = [stage |-> "extracts", context |-> pending[x], from |-> cursor[x], seen |-> entries]]
        /\ pending' = [pending EXCEPT ![x] = None]
    BY <1>5 DEF Keeper!Drains
  <2>2. /\ Tables' /\ (\A y \in Conversations : y # x => SameKept(y)) /\ pending'[x] = None
        /\ job'[x].stage = "extracts" /\ job'[x].context = pending[x] /\ job'[x].from = cursor[x]
        /\ DOMAIN job'[x] = Keeper!JobFields
    BY <1>1, <1>2, <2>1 DEF Tables, SameKept, Keeper!JobFields
  <2>3. Keeper!Snapshots(x)'
    BY <1>1, <1>2, <1>5, <2>2 DEF Keeper!Kept, Keeper!Snapshots, Keeper!Snapshot, Keeper!HasContext
  <2>4. Keeper!Settled(x)'
    BY <1>1, <1>2, <1>3, <2>2 DEF Keeper!Kept, Keeper!Settled, Keeper!SettledBy, Keeper!HasExtracted, Keeper!IsAnchor
  <2>5. Keeper!Awaited(x)'
    BY <1>1, <1>2, <1>5, <2>2 DEF Keeper!Kept, Keeper!Awaited, Keeper!Idle, Keeper!HasContext
  <2>6. Keeper!Once(x)'
    BY <1>1, <1>2, <1>5, <2>2 DEF Keeper!Kept, Keeper!Once, Keeper!Begins, Keeper!Reaches, Keeper!Frontier, Keeper!HasContext, Keeper!HasExtracted
  <2>7. Keeper!OnlyWhatWasSeen'
    BY <1>1, <1>2, <2>2 DEF Keeper!OnlyWhatWasSeen, SameKept
  <2> QED
    BY <1>2, <1>3, <2>2, <2>3, <2>4, <2>5, <2>6, <2>7, ExtractorStep
<1> QED
  BY <1>4, <1>5

\* What an extraction reads of its context: all but what the anchor settles.
LEMMA WindowTells ==
  ASSUME NEW n \in Nat, NEW ms \in Seq(0 .. n), ms # <<>>, Keeper!Increases(ms), NEW c,
         c \in [position : Nat, last : Nat \cup {None}], c.position > 0 => c.last \in 0 .. n
  PROVE  /\ Keeper!Range(Keeper!AfterCursor(ms, c)) \subseteq Keeper!Range(ms)
         /\ \A m \in Keeper!Range(ms) : m \in Keeper!Range(Keeper!AfterCursor(ms, c)) \/ (c.position > 0 /\ m <= c.last)
         /\ c.position > 0 /\ Keeper!Reaches(ms, c) =>
              \A m \in Keeper!Range(Keeper!AfterCursor(ms, c)) : c.last < m
<1>1. PICK p \in Nat : p = c.position
  OBVIOUS
<1>9. PICK l : l = c.last
  OBVIOUS
<1>2. PICK L \in Nat : L = Len(ms) /\ DOMAIN ms = 1 .. L
  OBVIOUS
<1>3. PICK w : w = Keeper!AfterCursor(ms, c)
  OBVIOUS
<1>4. CASE p > 0 /\ p <= L /\ ms[p] = l
  <2>1. w = SubSeq(ms, p + 1, L)
    <3>1. ~(c.position = 0 \/ c.position > Len(ms)) /\ ms[c.position] = c.last
      BY <1>1, <1>2, <1>4, <1>9
    <3> QED
      BY <1>1, <1>2, <1>3, <3>1 DEF Keeper!AfterCursor
  <2>2. \A i \in 1 .. L : ms[i] \in 0 .. n
    BY <1>2
  <2>3. DOMAIN w = 1 .. L - p /\ \A i \in 1 .. L - p : w[i] = ms[p + i]
    <3>1. p + 1 \in Int /\ L \in Int /\ \A i \in p + 1 .. L : ms[i] \in 0 .. n
      BY <1>2, <1>4, <2>2
    <3>2. /\ w \in Seq(0 .. n) /\ Len(w) = IF p + 1 <= L THEN L - (p + 1) + 1 ELSE 0
          /\ \A i \in 1 .. L - (p + 1) + 1 : w[i] = ms[(p + 1) + i - 1]
      BY <2>1, <3>1, SubSeqProperties
    <3>3. L - (p + 1) + 1 = L - p /\ (IF p + 1 <= L THEN L - (p + 1) + 1 ELSE 0) = L - p
      BY <1>2, <1>4
    <3>4. Len(w) = L - p /\ DOMAIN w = 1 .. L - p
      BY <3>2, <3>3
    <3>5. \A i \in 1 .. L - p : (p + 1) + i - 1 = p + i
      BY <1>2, <1>4
    <3> QED
      BY <3>2, <3>3, <3>4, <3>5
  <2>4. \A i \in 1 .. L - p : p + i \in 1 .. L /\ ms[p] < ms[p + i]
    <3>1. \A i \in 1 .. L - p : p \in 1 .. L /\ p + i \in 1 .. L /\ p < p + i
      BY <1>2, <1>4
    <3> QED
      BY <1>2, <3>1 DEF Keeper!Increases
  <2>5. \A i \in 1 .. L : i <= p => ms[i] <= ms[p]
    <3>1. \A i \in 1 .. L : i <= p => i = p \/ (i < p /\ p \in 1 .. L)
      BY <1>2, <1>4
    <3>2. \A i \in 1 .. L : i < p => ms[i] < ms[p]
      BY <1>2, <1>4 DEF Keeper!Increases
    <3> QED
      BY <1>4, <2>2, <3>1, <3>2
  <2>6. \A i \in 1 .. L : i > p => i - p \in 1 .. L - p /\ p + (i - p) = i
    BY <1>2, <1>4
  <2>7. \A i \in 1 .. L : i <= p \/ i > p
    BY <1>2, <1>4
  <2>8. Keeper!Range(w) \subseteq Keeper!Range(ms) /\ \A m \in Keeper!Range(w) : l < m
    BY <1>2, <1>4, <2>3, <2>4 DEF Keeper!Range
  <2>9. ASSUME NEW i \in 1 .. L PROVE ms[i] \in Keeper!Range(w) \/ ms[i] <= l
    <3>1. CASE i > p
      BY <2>3, <2>6, <3>1 DEF Keeper!Range
    <3> QED
      BY <1>4, <2>5, <2>7, <3>1
  <2>10. \A m \in Keeper!Range(ms) : m \in Keeper!Range(w) \/ m <= l
    BY <1>2, <2>9 DEF Keeper!Range
  <2> QED
    BY <1>1, <1>3, <1>4, <1>9, <2>8, <2>10
<1>5. CASE ~(p > 0 /\ p <= L /\ ms[p] = l)
  <2>1. w = ms
    BY <1>1, <1>2, <1>3, <1>5, <1>9 DEF Keeper!AfterCursor
  <2>2. ~(c.position > 0 /\ Keeper!Reaches(ms, c))
    BY <1>1, <1>2, <1>5, <1>9 DEF Keeper!Reaches
  <2> QED
    BY <1>3, <2>1, <2>2
<1> QED
  BY <1>4, <1>5

LEMMA ExtractedKeeps ==
  ASSUME NEW x \in Conversations, Keeper!IInv, Keeper!Extracted(x)
  PROVE  Keeper!IInv'
<1>1. Tables /\ Keeper!Kept(x) /\ Keeper!OnlyWhatWasSeen /\ count \in Nat /\ count <= MaxMessages /\ MaxMessages \in Nat
  BY MemoryParts
<1>2. PICK W : W = Keeper!Window(x)
  OBVIOUS
<1>3. /\ job[x].stage = "extracts" /\ x \notin ended
      /\ covered' = [covered EXCEPT ![x] = [m \in 1 .. MaxMessages |-> @[m] + IF m \in W THEN 1 ELSE 0]]
      /\ failed' = failed \ {x} /\ job' = [job EXCEPT ![x].stage = "asks", ![x].seen = None]
      /\ UNCHANGED <<lock, remembered, count, cursor, pending, ended, due, behind, spared, wronged>>
  BY <1>2 DEF Keeper!Extracted
<1>4. PICK ms, c : ms = job[x].context /\ c = job[x].from
  OBVIOUS
<1>5. /\ ms \in Seq(0 .. count) /\ ms # <<>> /\ Keeper!Increases(ms)
      /\ \A m \in Keeper!Range(remembered[x]) : m <= Keeper!LastOf(ms) => m \in Keeper!Range(ms) \cup {0}
  BY <1>1, <1>3, <1>4 DEF Keeper!Kept, Keeper!Snapshots, Keeper!Snapshot, Keeper!HasContext, Keeper!Summary
<1>6. /\ c \in [position : Nat, last : Nat \cup {None}] /\ (c.position > 0 => c.last \in 0 .. count)
      /\ Keeper!SettledBy(x, c)
  BY <1>1, <1>3, <1>4 DEF Keeper!Kept, Keeper!Settled, Keeper!IsAnchor
<1>7. /\ W \subseteq Keeper!Range(ms)
      /\ \A m \in Keeper!Range(ms) : m \in W \/ (c.position > 0 /\ m <= c.last)
      /\ c.position > 0 /\ Keeper!Reaches(ms, c) => \A m \in W : c.last < m
  BY <1>1, <1>2, <1>4, <1>5, <1>6, WindowTells DEF Keeper!Window
<1>8. /\ Keeper!LastOf(ms) \in 0 .. count /\ Len(ms) \in Nat \ {0}
      /\ \A m \in Keeper!Range(ms) : m \in 0 .. count /\ m <= Keeper!LastOf(ms)
      /\ Keeper!Anchor(ms) = [position |-> Len(ms), last |-> Keeper!LastOf(ms)]
  BY <1>1, <1>5, LastIsGreatest
<1>9. covered[x] \in [1 .. MaxMessages -> Nat] /\ DOMAIN job[x] = Keeper!JobFields
  BY <1>1 DEF Keeper!Kept, Keeper!Numbered
<1>10. /\ Tables' /\ \A y \in Conversations : y # x => SameKept(y)
       /\ job'[x].stage = "asks" /\ job'[x].context = ms /\ DOMAIN job'[x] = Keeper!JobFields
  BY <1>1, <1>3, <1>4, <1>9 DEF Tables, SameKept, Keeper!JobFields
<1>11. covered'[x] = [m \in 1 .. MaxMessages |-> covered[x][m] + IF m \in W THEN 1 ELSE 0]
  BY <1>1, <1>3 DEF Tables
<1>12. /\ covered'[x] \in [1 .. MaxMessages -> Nat]
       /\ \A m \in 1 .. MaxMessages : covered'[x][m] = covered[x][m] + IF m \in W THEN 1 ELSE 0
       /\ \A m \in 1 .. MaxMessages : covered'[x][m] >= covered[x][m] /\ (m \in W => covered'[x][m] >= 1)
       /\ \A m \in 1 .. MaxMessages : covered[x][m] \in Nat
  <2>1. PICK o \in [1 .. MaxMessages -> Nat] : o = covered[x]
    BY <1>9
  <2>2. PICK t : t = covered'[x]
    OBVIOUS
  <2>3. t = [m \in 1 .. MaxMessages |-> o[m] + IF m \in W THEN 1 ELSE 0]
    BY <1>11, <2>1, <2>2
  <2>4. t \in [1 .. MaxMessages -> Nat]
    BY <2>3
  <2>5. \A m \in 1 .. MaxMessages : o[m] \in Nat /\ t[m] = o[m] + IF m \in W THEN 1 ELSE 0
    BY <2>3
  <2>6. \A m \in 1 .. MaxMessages : t[m] >= o[m] /\ (m \in W => t[m] >= 1)
    BY <2>5
  <2> QED
    BY <2>1, <2>2, <2>4, <2>5, <2>6
<1>13. Keeper!IsAnchor(cursor[x])' /\ Keeper!Snapshots(x)'
  BY <1>1, <1>3, <1>4, <1>10 DEF Keeper!Kept, Keeper!Numbered, Keeper!IsAnchor, Keeper!Snapshots, Keeper!Snapshot, Keeper!HasContext
<1>14. \A m \in Keeper!Range(remembered[x]) : m \in 0 .. count
  BY <1>1 DEF Keeper!Kept, Keeper!Numbered, Keeper!Range
<1>15. Keeper!Settled(x)'
  <2>1. \A m \in Keeper!Range(remembered[x]) \ {0} : m \in 1 .. MaxMessages
    BY <1>1, <1>14
  <2>10. \A m \in 1 .. MaxMessages : covered[x][m] >= 1 => covered'[x][m] >= 1
    <3>1. \A m \in 1 .. MaxMessages : covered[x][m] \in Nat /\ covered'[x][m] \in Nat /\ covered'[x][m] >= covered[x][m]
      BY <1>12
    <3> QED
      BY <3>1
  <2>2. ASSUME NEW d, Keeper!SettledBy(x, d) PROVE Keeper!SettledBy(x, d)'
    BY <1>3, <2>1, <2>2, <2>10 DEF Keeper!SettledBy, Keeper!Summary
  <2>3. PICK d : d = cursor[x]
    OBVIOUS
  <2>4. Keeper!SettledBy(x, d)'
    BY <1>1, <2>2, <2>3 DEF Keeper!Kept, Keeper!Settled
  <2>5. PICK e : e = Keeper!Anchor(ms)
    OBVIOUS
  <2>6. ASSUME NEW m \in Keeper!Range(remembered[x]) \ ({0} \cup behind[x]), m <= Keeper!LastOf(ms) PROVE covered'[x][m] >= 1
    <3>1. m \in 1 .. MaxMessages /\ m \in Keeper!Range(ms)
      BY <1>5, <2>1, <2>6
    <3>2. CASE m \in W
      BY <1>12, <3>1, <3>2
    <3>3. CASE c.position > 0 /\ m <= c.last
      <4>1. covered[x][m] >= 1
        BY <1>6, <2>6, <3>3 DEF Keeper!SettledBy, Keeper!Summary
      <4> QED
        BY <2>10, <3>1, <4>1
    <3> QED
      BY <1>7, <3>1, <3>2, <3>3
  <2>7. Keeper!SettledBy(x, e)'
    BY <1>3, <1>8, <2>5, <2>6 DEF Keeper!SettledBy, Keeper!Summary
  <2>8. Keeper!SettledBy(x, cursor[x])'
    BY <1>3, <2>3, <2>4 DEF Keeper!SettledBy
  <2>9. Keeper!SettledBy(x, Keeper!Anchor(job[x].context))'
    <3>1. e = Keeper!Anchor(job[x].context)'
      BY <1>10, <2>5 DEF Keeper!Anchor
    <3> QED
      BY <2>7, <3>1 DEF Keeper!SettledBy
  <2> QED
    BY <1>10, <2>8, <2>9 DEF Keeper!Settled
<1>16. Keeper!Awaited(x)'
  BY <1>1, <1>3, <1>4, <1>10 DEF Keeper!Kept, Keeper!Awaited, Keeper!Idle, Keeper!HasContext
<1>17. Keeper!Once(x)'
  <2> SUFFICES ASSUME x \notin spared PROVE Keeper!Once(x)'
    BY <1>3 DEF Keeper!Once
  <2>1. /\ Keeper!HasContext(x) /\ ~Keeper!HasExtracted(x) /\ Keeper!HasContext(x)' /\ Keeper!HasExtracted(x)'
    BY <1>3, <1>10 DEF Keeper!HasContext, Keeper!HasExtracted
  <2>2. /\ pending[x] # None => Keeper!Begins(pending[x], x) /\ Keeper!Reaches(pending[x], cursor[x]) /\ Len(ms) <= Len(pending[x])
        /\ Keeper!Begins(ms, x) /\ Keeper!Reaches(ms, cursor[x])
        /\ Keeper!Reaches(remembered[x], cursor[x])
        /\ c = cursor[x]
        /\ \A m \in 1 .. MaxMessages : covered[x][m] <= 1 /\ (covered[x][m] = 1 => m <= Keeper!Frontier(x))
    BY <1>1, <1>3, <1>4, <2>1 DEF Keeper!Kept, Keeper!Once
  <2>3. Keeper!Frontier(x) = IF c.position > 0 THEN c.last ELSE 0
    BY <2>1, <2>2 DEF Keeper!Frontier
  <2>4. c.position > 0 => c.last \in 0 .. count /\ c.last <= Keeper!LastOf(ms)
    BY <1>5, <1>6, <1>8, <2>2 DEF Keeper!Reaches, Keeper!Range
  <2>5. ASSUME NEW m \in 1 .. MaxMessages PROVE covered'[x][m] <= 1 /\ (covered'[x][m] = 1 => m <= Keeper!LastOf(ms))
    <3>1. covered[x][m] \in Nat /\ covered[x][m] <= 1 /\ (covered[x][m] = 1 => c.position > 0 /\ m <= c.last)
      BY <1>12, <2>2, <2>3
    <3>2. m \in W => ~(c.position > 0 /\ m <= c.last) /\ m <= Keeper!LastOf(ms)
      BY <1>6, <1>7, <1>8, <2>2
    <3>3. covered[x][m] = 1 => m <= Keeper!LastOf(ms)
      BY <1>8, <2>4, <3>1
    <3> QED
      BY <1>12, <3>1, <3>2, <3>3
  <2>6. Keeper!Frontier(x)' = Keeper!LastOf(ms)
    BY <1>10, <2>1 DEF Keeper!Frontier, Keeper!LastOf
  <2> QED
    BY <1>3, <1>10, <2>1, <2>2, <2>5, <2>6 DEF Keeper!Once, Keeper!Begins, Keeper!Reaches
<1>18. Keeper!OnlyWhatWasSeen'
  BY <1>1, <1>3, <1>10 DEF Keeper!OnlyWhatWasSeen, SameKept
<1> QED
  BY <1>3, <1>10, <1>12, <1>13, <1>15, <1>16, <1>17, <1>18, ExtractorStep

\* The end of a job: with success the anchor is where its context ended.
LEMMA EndsKeeps ==
  ASSUME NEW x \in Conversations, Keeper!IInv, NEW ok \in BOOLEAN, Keeper!Ends(x, ok),
         UNCHANGED <<remembered, count, pending, ended, covered, due, behind, spared, wronged>>,
         IF ok THEN Keeper!HasExtracted(x) /\ failed' = failed
               ELSE job[x].stage = "extracts" /\ failed' = failed \cup {x},
         lock' = lock \/ (job[x].stage = "consolidates" /\ lock' = None)
  PROVE  Keeper!IInv'
<1>1. Tables /\ Keeper!Kept(x) /\ Keeper!OnlyWhatWasSeen /\ count \in Nat
  BY MemoryParts
<1>2. PICK ms : ms = job[x].context
  OBVIOUS
<1>3. Keeper!HasContext(x) /\ (Keeper!HasExtracted(x) <=> ok)
  BY DEF Keeper!HasContext, Keeper!HasExtracted
<1>4. Keeper!Snapshot(x, ms)
  BY <1>1, <1>2, <1>3 DEF Keeper!Kept, Keeper!Snapshots
<1>5. /\ ms # <<>> /\ Len(ms) \in Nat \ {0} /\ Keeper!LastOf(ms) \in 0 .. count
      /\ Keeper!Anchor(ms) = [position |-> Len(ms), last |-> Keeper!LastOf(ms)]
  BY <1>1, <1>4, LastIsGreatest DEF Keeper!Snapshot
<1>6. PICK c : c = Keeper!Anchor(ms)
  OBVIOUS
<1>7. /\ cursor' = IF ok THEN [cursor EXCEPT ![x] = c] ELSE cursor
      /\ job' = [job EXCEPT ![x] = IF x \in ended THEN Keeper!NoJob ELSE [Keeper!NoJob EXCEPT !.stage = "drains"]]
  BY <1>2, <1>5, <1>6 DEF Keeper!Ends
<1>8. /\ Tables' /\ \A y \in Conversations : y # x => SameKept(y)
      /\ cursor'[x] = IF ok THEN c ELSE cursor[x]
      /\ job'[x].stage = IF x \in ended THEN "none" ELSE "drains"
      /\ DOMAIN job'[x] = Keeper!JobFields
  BY <1>1, <1>7 DEF Tables, SameKept, Keeper!NoJob, Keeper!JobFields
<1>9. ~Keeper!HasContext(x)' /\ ~Keeper!HasExtracted(x)' /\ job'[x].stage # "extracts"
  BY <1>8 DEF Keeper!HasContext, Keeper!HasExtracted
<1>10. Keeper!IsAnchor(c) /\ Keeper!IsAnchor(cursor[x])
  BY <1>1, <1>5, <1>6 DEF Keeper!IsAnchor, Keeper!Kept, Keeper!Numbered
<1>11. Keeper!IsAnchor(cursor[x])' /\ covered'[x] \in [1 .. MaxMessages -> Nat]
  BY <1>1, <1>8, <1>10 DEF Keeper!IsAnchor, Keeper!Kept, Keeper!Numbered
<1>12. Keeper!Snapshots(x)'
  BY <1>1, <1>9 DEF Keeper!Kept, Keeper!Snapshots, Keeper!Snapshot
<1>13. Keeper!SettledBy(x, cursor[x]) /\ (ok => Keeper!SettledBy(x, c))
  BY <1>1, <1>2, <1>3, <1>6 DEF Keeper!Kept, Keeper!Settled
<1>14. Keeper!Settled(x)'
  BY <1>8, <1>9, <1>13 DEF Keeper!Settled, Keeper!SettledBy
<1>15. Keeper!Awaited(x)'
  <2> SUFFICES ASSUME x \notin ended PROVE Keeper!Awaited(x)'
    BY DEF Keeper!Awaited
  <2>1. /\ pending[x] # None => \A m \in due[x] : m <= Keeper!LastOf(pending[x])
        /\ pending[x] = None => \A m \in due[x] : m <= Keeper!LastOf(ms)
    BY <1>1, <1>2, <1>3 DEF Keeper!Kept, Keeper!Awaited
  <2>2. due[x] \subseteq Keeper!Range(remembered[x]) \ ({0} \cup behind[x])
    BY <1>1 DEF Keeper!Kept, Keeper!Numbered, Keeper!Summary
  <2>3. pending[x] = None /\ ok => \A m \in due[x] : covered[x][m] >= 1
    BY <1>5, <1>6, <1>13, <2>1, <2>2 DEF Keeper!SettledBy, Keeper!Summary
  <2>4. job'[x].stage = "drains"
    BY <1>8
  <2> QED
    BY <1>9, <2>1, <2>3, <2>4 DEF Keeper!Awaited, Keeper!Idle
<1>16. Keeper!Once(x)'
  <2> SUFFICES ASSUME x \notin spared PROVE Keeper!Once(x)'
    BY DEF Keeper!Once
  <2>1. /\ pending[x] # None => Keeper!Begins(pending[x], x) /\ Keeper!Reaches(pending[x], cursor[x]) /\ Len(ms) <= Len(pending[x])
        /\ Keeper!Begins(ms, x)
        /\ Keeper!Reaches(remembered[x], cursor[x])
        /\ \A m \in 1 .. MaxMessages : covered[x][m] <= 1 /\ (covered[x][m] = 1 => m <= Keeper!Frontier(x))
    BY <1>1, <1>2, <1>3 DEF Keeper!Kept, Keeper!Once
  <2>2. c.position = Len(ms) /\ c.last = Keeper!LastOf(ms) /\ c.position > 0 /\ c.last = ms[Len(ms)]
    BY <1>5, <1>6 DEF Keeper!LastOf
  <2>3. Len(ms) \in DOMAIN ms
    BY <1>4, <1>5 DEF Keeper!Snapshot
  <2>4. Keeper!Reaches(remembered[x], c)
    BY <2>1, <2>2, <2>3 DEF Keeper!Begins, Keeper!Reaches
  <2>5. pending[x] # None => Keeper!Reaches(pending[x], c)
    <3>1. ASSUME pending[x] # None PROVE Len(ms) \in DOMAIN pending[x] /\ Len(ms) <= Len(pending[x])
      <4>1. PICK s \in Seq(0 .. count) : s = pending[x]
        BY <1>1, <3>1 DEF Keeper!Kept, Keeper!Snapshots, Keeper!Snapshot
      <4> QED
        BY <1>5, <2>1, <3>1, <4>1
    <3> QED
      BY <2>1, <2>2, <2>3, <3>1 DEF Keeper!Begins, Keeper!Reaches
  <2>6. Keeper!Frontier(x)' = Keeper!Frontier(x)
    BY <1>2, <1>3, <1>8, <1>9, <2>2 DEF Keeper!Frontier
  <2>7. pending[x] # None => Keeper!Begins(pending[x], x)'
    BY <2>1 DEF Keeper!Begins
  <2>8. (pending[x] # None => Keeper!Reaches(pending[x], cursor'[x])) /\ Keeper!Reaches(remembered[x], cursor'[x])
    BY <1>8, <2>1, <2>4, <2>5
  <2> QED
    BY <1>9, <2>1, <2>6, <2>7, <2>8 DEF Keeper!Once, Keeper!Reaches, Keeper!Begins
<1>17. Keeper!OnlyWhatWasSeen'
  <2>1. ASSUME NEW y \in Conversations, job'[y].stage = "consolidates" PROVE lock' = y
    <3>1. y # x /\ job[y].stage = "consolidates"
      BY <1>8, <2>1 DEF SameKept
    <3>2. lock = y
      BY <1>1, <3>1 DEF Keeper!OnlyWhatWasSeen
    <3>3. job[x].stage = "consolidates" => lock = x
      BY <1>1 DEF Keeper!OnlyWhatWasSeen
    <3> QED
      BY <3>1, <3>2, <3>3
  <2> QED
    BY <1>1, <2>1 DEF Keeper!OnlyWhatWasSeen
<1> QED
  BY <1>8, <1>11, <1>12, <1>14, <1>15, <1>16, <1>17, ExtractorStep

LEMMA AsksKeeps ==
  ASSUME NEW x \in Conversations, Keeper!IInv, Keeper!Asks(x)
  PROVE  Keeper!IInv'
<1>1. Tables /\ Keeper!Kept(x) /\ Keeper!OnlyWhatWasSeen /\ None \notin Conversations
  BY MemoryParts, MemoryParameters DEF Keeper!MemoryAssumption
<1>2. /\ job[x].stage = "asks" /\ lock = None /\ lock' = x
      /\ job' = [job EXCEPT ![x].stage = "consolidates", ![x].seen = entries]
      /\ UNCHANGED <<remembered, count, cursor, pending, ended, covered, due, behind, failed, spared, wronged>>
  BY DEF Keeper!Asks
<1>3. DOMAIN job[x] = Keeper!JobFields
  BY <1>1 DEF Keeper!Kept, Keeper!Numbered
<1>4. /\ Tables' /\ \A y \in Conversations : y # x => SameKept(y)
      /\ job'[x].stage = "consolidates" /\ job'[x].context = job[x].context /\ DOMAIN job'[x] = Keeper!JobFields
  BY <1>1, <1>2, <1>3 DEF Tables, SameKept, Keeper!JobFields
<1>5. Keeper!IsAnchor(cursor[x])' /\ covered'[x] \in [1 .. MaxMessages -> Nat]
  BY <1>1, <1>2 DEF Keeper!IsAnchor, Keeper!Kept, Keeper!Numbered
<1>6. /\ Keeper!HasContext(x) /\ Keeper!HasExtracted(x) /\ Keeper!HasContext(x)' /\ Keeper!HasExtracted(x)'
      /\ ~Keeper!Idle(x) /\ ~Keeper!Idle(x)'
  BY <1>2, <1>4 DEF Keeper!HasContext, Keeper!HasExtracted, Keeper!Idle
<1>7. Keeper!Snapshots(x)'
  BY <1>1, <1>2, <1>4, <1>6 DEF Keeper!Kept, Keeper!Snapshots, Keeper!Snapshot
<1>8. Keeper!Settled(x)'
  BY <1>1, <1>2, <1>4, <1>6 DEF Keeper!Kept, Keeper!Settled, Keeper!SettledBy, Keeper!Anchor
<1>9. Keeper!Awaited(x)'
  BY <1>1, <1>2, <1>4, <1>6 DEF Keeper!Kept, Keeper!Awaited
<1>10. Keeper!Once(x)'
  BY <1>1, <1>2, <1>4, <1>6 DEF Keeper!Kept, Keeper!Once, Keeper!Begins, Keeper!Reaches, Keeper!Frontier
<1>11. Keeper!OnlyWhatWasSeen'
  BY <1>1, <1>2, <1>4 DEF Keeper!OnlyWhatWasSeen, SameKept
<1> QED
  BY <1>2, <1>4, <1>5, <1>7, <1>8, <1>9, <1>10, <1>11, ExtractorStep

LEMMA MemoryStep ==
  ASSUME Keeper!IInv, [Keeper!Next]_memoryVars
  PROVE  Keeper!IInv'
<1>1. CASE UNCHANGED memoryVars
  BY <1>1, FileStep DEF memoryVars
<1>2. CASE Keeper!Remembers \/ Keeper!Updates \/ Keeper!Deletes \/ Keeper!Damaged \/ Keeper!Restores \/ Keeper!AnHour
  BY <1>2, FileStep DEF Keeper!Remembers, Keeper!Updates, Keeper!Deletes, Keeper!Damaged, Keeper!Restores, Keeper!AnHour,
                        Keeper!extractVars
<1>3. ASSUME NEW x \in Conversations,
             \/ Keeper!Forgets(x) \/ Keeper!Turn(x) \/ Keeper!Compacted(x) \/ Keeper!Seeded(x) \/ Keeper!Closed(x)
             \/ Keeper!Drains(x) \/ Keeper!Extracted(x) \/ Keeper!ExtractFails(x)
             \/ Keeper!NotDue(x) \/ Keeper!Asks(x) \/ Keeper!Consolidates(x) \/ Keeper!Skips(x)
      PROVE  Keeper!IInv'
  <2>1. CASE Keeper!Forgets(x)
    BY <2>1, ForgetsNothingUnseen, FileStep DEF Keeper!Forgets, Keeper!extractVars
  <2>2. CASE Keeper!ExtractFails(x)
    BY <2>2, EndsKeeps DEF Keeper!ExtractFails
  <2>3. CASE Keeper!NotDue(x)
    BY <2>3, EndsKeeps DEF Keeper!NotDue, Keeper!HasExtracted
  <2>4. CASE Keeper!Consolidates(x)
    <3>1. wronged' = wronged
      BY <2>4 DEF Keeper!Consolidates, Keeper!UnchangedSince
    <3> QED
      BY <2>4, <3>1, EndsKeeps DEF Keeper!Consolidates, Keeper!HasExtracted
  <2>5. CASE Keeper!Skips(x)
    BY <2>5, EndsKeeps DEF Keeper!Skips, Keeper!HasExtracted
  <2> QED
    BY <1>3, <2>1, <2>2, <2>3, <2>4, <2>5, TurnKeeps, CompactedKeeps, SeededKeeps, ClosedKeeps, DrainsKeeps, ExtractedKeeps, AsksKeeps
<1> QED
  BY <1>1, <1>2, <1>3 DEF Keeper!Next

LEMMA MemoryBegins ==
  ASSUME Keeper!Init PROVE Keeper!IInv
<1>1. Tables /\ count = 0 /\ 0 \in 0 .. MaxMessages
  BY MemoryParameters DEF Keeper!Init, Tables, Keeper!MemoryAssumption
<1>2. ASSUME NEW x \in Conversations
      PROVE /\ remembered[x] = <<>> /\ cursor[x] = Keeper!Anchor(<<>>) /\ pending[x] = None /\ job[x] = Keeper!NoJob
            /\ covered[x] = Keeper!Blank /\ due[x] = {} /\ behind[x] = {} /\ spared = {}
  BY DEF Keeper!Init
<1>3. ASSUME NEW x \in Conversations PROVE Keeper!Kept(x)
  <2>1. Keeper!Numbered(x)
    <3>1. <<>> \in Seq(0 .. count) /\ Keeper!Increases(<<>>)
      BY DEF Keeper!Increases
    <3>2. Keeper!IsAnchor(Keeper!Anchor(<<>>))
      BY DEF Keeper!IsAnchor, Keeper!Anchor
    <3>3. DOMAIN Keeper!NoJob = Keeper!JobFields /\ Keeper!NoJob.stage = "none"
      BY DEF Keeper!NoJob, Keeper!JobFields
    <3>4. Keeper!Blank \in [1 .. MaxMessages -> Nat]
      BY DEF Keeper!Blank
    <3> QED
      BY <1>2, <3>1, <3>2, <3>3, <3>4 DEF Keeper!Numbered
  <2>2. job[x].stage = "none"
    BY <1>2 DEF Keeper!NoJob
  <2>3. Keeper!Snapshots(x)
    BY <1>2, <2>2 DEF Keeper!Snapshots, Keeper!HasContext
  <2>4. Keeper!Settled(x)
    BY <1>2, <2>2 DEF Keeper!Settled, Keeper!SettledBy, Keeper!Anchor, Keeper!HasExtracted
  <2>5. Keeper!Awaited(x)
    BY <1>2, <2>2 DEF Keeper!Awaited, Keeper!HasContext
  <2>6. Keeper!Once(x)
    <3>1. cursor[x].position = 0 /\ Len(remembered[x]) = 0
      BY <1>2 DEF Keeper!Anchor
    <3>2. Keeper!Reaches(remembered[x], cursor[x])
      BY <3>1 DEF Keeper!Reaches
    <3>3. \A m \in 1 .. MaxMessages : covered[x][m] = 0
      BY <1>2 DEF Keeper!Blank
    <3> QED
      BY <1>2, <2>2, <3>2, <3>3 DEF Keeper!Once, Keeper!HasContext
  <2> QED
    BY <2>1, <2>3, <2>4, <2>5, <2>6 DEF Keeper!Kept
<1>4. Keeper!OnlyWhatWasSeen
  BY DEF Keeper!Init, Keeper!OnlyWhatWasSeen, Keeper!NoJob
<1> QED
  BY <1>1, <1>3, <1>4 DEF Keeper!IInv, Tables

LEMMA MemoryFollows ==
  ASSUME Keeper!IInv PROVE Keeper!MemoryIsKept
<1>1. \A x \in Conversations : Keeper!Kept(x)
  BY MemoryParts
<1>2. ASSUME NEW x \in Conversations PROVE x \notin spared => \A m \in 1 .. MaxMessages : covered[x][m] <= 1
  BY <1>1 DEF Keeper!Kept, Keeper!Once
<1>3. ASSUME NEW x \in Conversations
      PROVE  Keeper!Idle(x) /\ x \notin ended \cup failed => \A m \in due[x] : covered[x][m] >= 1
  BY <1>1 DEF Keeper!Kept, Keeper!Awaited, Keeper!HasContext, Keeper!Idle
<1> QED
  BY <1>2, <1>3, MemoryParts DEF Keeper!MemoryIsKept, Keeper!EachOnce

\* No model drops an entry that has changed since it was shown it, two
\* consolidations never run at once, and a message that was submitted is
\* extracted, once: the lock, the anchors and the contexts of the extractors.
THEOREM MemoryStaysKept == Spec => [](part = "memory" => Keeper!MemoryIsKept)
<1> DEFINE Inv == part = "memory" => Keeper!IInv
<1>1. Init => Inv
  BY MemoryBegins DEF Init
<1>2. Inv /\ [Next]_vars => Inv'
  BY OnePartMoves, MemoryStep
<1>3. Inv => (part = "memory" => Keeper!MemoryIsKept)
  BY MemoryFollows
<1> QED
  BY <1>1, <1>2, <1>3, PTL DEF Spec

=============================================================================
