---- MODULE XcodeDecoderProofs ----
(***************************************************************************)
(* Theorems about XcodeDecoder.  The passes over the table read the same   *)
(* xcodes, those up to the first exit or to the end: what the second pass  *)
(* stores fits what the first has counted, and the third, without -branch, *)
(* writes a line for each.  With -branch and forward jumps the lines are   *)
(* closed under what may run after them.                                   *)
(***************************************************************************)
EXTENDS XcodeDecoder, FiniteSetTheorems, SequenceTheorems, TLAPS

\* The places of the table, one after the other, and what is read in order.
Pos(k) == k * XcodeSize
Code(k) == xcodes[Pos(k)]
Exits(k) == k > 0 /\ Code(k - 1).opcode = "exit"

Read(k) == /\ k \in Nat
           /\ \A i \in 0 .. k - 1 : InTable(Pos(i)) /\ (i + 1 < k => ~Exits(i + 1))
Ended(k) == Read(k) /\ (Exits(k) \/ ~InTable(Pos(k)))
At(i, k) == /\ Read(k)
            /\ i.offset = Pos(k) /\ i.status = IF Exits(k) THEN "exit_op_found" ELSE "ok"

JumpsBefore(k) == {i \in 0 .. k - 1 : IsJump(Code(i))}

\* The jumps among the first k xcodes have been recorded, each once.
Recorded(k) ==
  /\ Len(jmps) = Cardinality(JumpsBefore(k))
  /\ \A j \in DOMAIN jmps : \E i \in JumpsBefore(k) : jmps[j].xcodeOffset = Pos(i)
  /\ \A i \in JumpsBefore(k) : \E j \in DOMAIN jmps : jmps[j].xcodeOffset = Pos(i)

\* LabelsMatchJumps, without the search, of a table's labels and jumps.
TargetIn(xs, js, j) == Target(js[j].xcodeOffset, xs[js[j].xcodeOffset])
JumpsIn(xs, js, o) == {j \in DOMAIN js : TargetIn(xs, js, j) = o}
LabelsFit(xs, ls, js) ==
  /\ \A i, j \in DOMAIN ls : ls[i].offset = ls[j].offset => i = j
  /\ \A i \in DOMAIN ls : ls[i].references = Cardinality(JumpsIn(xs, js, ls[i].offset))
  /\ \A j \in DOMAIN js : \E i \in DOMAIN ls : ls[i].offset = TargetIn(xs, js, j)
JumpsApart(js) == \A i, j \in DOMAIN js : js[i].xcodeOffset = js[j].xcodeOffset => i = j

TableTyped == /\ size \in 0 .. (Wrap - 1 - XcodeSize)
              /\ xcodes \in [0 .. (size - XcodeSize) -> XCODE]

\* The first pass, the second, and what they leave.
Counting ==
  pc = "count" =>
    /\ jmps = <<>> /\ labels = <<>> /\ lines = <<>>
    /\ \E k \in Nat : At(interp, k) /\ jmpCount = Cardinality(JumpsBefore(k))
CountedUpTo(e) == Ended(e) /\ jmpCount = Cardinality(JumpsBefore(e))
Loading ==
  pc = "label" =>
    /\ lines = <<>>
    /\ \E k, e \in Nat : At(interp, k) /\ CountedUpTo(e) /\ Recorded(k)
Loaded ==
  pc \notin {"count", "label"} => \E e \in Nat : CountedUpTo(e) /\ Recorded(e)
ArraysOK == /\ LabelsFit(xcodes, labels, jmps) /\ JumpsApart(jmps)
            /\ Len(labels) <= Len(jmps)

\* The third pass without -branch: a line for each xcode that was read.
LineOf(k) == [offset |-> Pos(k), label |-> searchLabel(Pos(k)),
              operand |-> IF IsJump(Code(k)) THEN searchLabel(Target(Pos(k), Code(k))) ELSE 0,
              of |-> Pos(k), xc |-> Code(k)]
Writing ==
  ~branch /\ pc \notin {"count", "label"} =>
    /\ Read(Len(lines)) /\ \A i \in DOMAIN lines : lines[i] = LineOf(i - 1)
    /\ pc \in {"decode", "write", "done", "failed"}
    /\ pc = "decode" => At(interp, Len(lines))
    /\ pc = "write" => /\ At(interp, Len(lines) + 1)
                       /\ xcode.at = Pos(Len(lines)) /\ xcode.xc = Code(Len(lines))
    /\ pc = "done" => Ended(Len(lines))

DecoderInv == TableTyped /\ DecoderTypeOK /\ Counting /\ Loading /\ Loaded /\ ArraysOK /\ Writing

-----------------------------------------------------------------------------
(* Offsets                                                                 *)

LEMMA OffsetTyped == \A a \in Int : a % Wrap \in 0 .. (Wrap - 1)
BY InterpAssumption

LEMMA OffsetKept ==
  ASSUME NEW a \in 0 .. (Wrap - 1)
  PROVE  a % Wrap = a
<1> DEFINE q == a \div Wrap
<1>1. q \in Int /\ a = q * Wrap + (a % Wrap) /\ a % Wrap \in 0 .. Wrap - 1 /\ Wrap \in Nat \ {0}
  BY InterpAssumption
<1> HIDE DEF q
<1>2. CASE q >= 1
  <2>1. q * Wrap >= 1 * Wrap
    BY <1>1, <1>2
  <2> QED BY <1>1, <2>1
<1>3. CASE q <= -1
  <2>1. q * Wrap <= (-1) * Wrap
    BY <1>1, <1>3
  <2> QED BY <1>1, <2>1
<1>4. CASE q = 0
  BY <1>1, <1>4
<1> QED BY <1>1, <1>2, <1>3, <1>4

LEMMA PosFacts ==
  ASSUME NEW k \in Nat
  PROVE  Pos(k) \in Nat /\ Pos(0) = 0 /\ Pos(k + 1) = Pos(k) + XcodeSize
<1>1. Pos(0) = 0
  BY InterpAssumption DEF Pos
<1>2. Pos(k) \in Nat
  BY InterpAssumption DEF Pos
<1>3. (k + 1) * XcodeSize = k * XcodeSize + XcodeSize
  BY InterpAssumption
<1> QED BY <1>1, <1>2, <1>3 DEF Pos

LEMMA PosMonotone ==
  ASSUME NEW i \in Nat, NEW k \in Nat, i < k
  PROVE  Pos(i) + XcodeSize <= Pos(k)
<1>1. (k - i - 1) * XcodeSize >= 0
  BY InterpAssumption
<1>2. (k - i - 1) * XcodeSize = k * XcodeSize - i * XcodeSize - XcodeSize
  BY InterpAssumption
<1>3. i * XcodeSize \in Int /\ k * XcodeSize \in Int /\ XcodeSize \in Int
  BY InterpAssumption
<1> QED BY <1>1, <1>2, <1>3 DEF Pos

LEMMA PosApart ==
  ASSUME NEW i \in Nat, NEW k \in Nat, Pos(i) = Pos(k)
  PROVE  i = k
<1>1. i < k \/ k < i \/ i = k
  OBVIOUS
<1>2. CASE i < k
  BY <1>2, PosMonotone, PosFacts, InterpAssumption
<1>3. CASE k < i
  BY <1>3, PosMonotone, PosFacts, InterpAssumption
<1> QED BY <1>1, <1>2, <1>3

-----------------------------------------------------------------------------
(* Reading in order                                                        *)

\* A pass that has read k xcodes reads the next one, or the table has ended.
LEMMA ReadsOn ==
  ASSUME TableTyped, NEW i, NEW k \in Nat, At(i, k)
  PROVE  /\ Pos(k) \in 0 .. size /\ Pos(k) + XcodeSize \in 0 .. (Wrap - 1)
         /\ HasNext(i) =>
              /\ XcodesAt(i.offset) = {Code(k)} /\ Code(k) \in XCODE
              /\ At(AfterNext(i, Code(k)), k + 1)
              /\ (AfterNext(i, Code(k)).offset - XcodeSize) % Wrap = Pos(k)
         /\ ~HasNext(i) => Ended(k)
<1> USE InterpAssumption DEF TableTyped
<1>1. Pos(k) \in Nat /\ Pos(k + 1) = Pos(k) + XcodeSize /\ i.offset = Pos(k)
  BY PosFacts DEF At
<1>2. Pos(k) <= size
  <2>1. CASE k = 0
    BY <2>1, PosFacts
  <2>2. CASE k > 0
    <3>1. k - 1 \in 0 .. k - 1 /\ k - 1 \in Nat /\ (k - 1) + 1 = k
      BY <2>2
    <3>2. InTable(Pos(k - 1))
      BY <3>1 DEF At, Read
    <3>3. Pos(k) = Pos(k - 1) + XcodeSize
      BY <3>1, PosFacts
    <3> QED BY <3>2, <3>3 DEF InTable
  <2> QED BY <2>1, <2>2
<1>3. Pos(k) + XcodeSize \in 0 .. (Wrap - 1) /\ Pos(k) \in 0 .. (Wrap - 1)
  BY <1>1, <1>2
<1>4. HasNext(i) <=> ~Exits(k) /\ InTable(Pos(k))
  <2>1. (i.offset + XcodeSize) % Wrap = Pos(k) + XcodeSize
    BY <1>1, <1>3, OffsetKept
  <2>2. i.status = "exit_op_found" <=> Exits(k)
    BY DEF At
  <2> QED BY <2>1, <2>2 DEF HasNext, InTable
<1>5. ASSUME HasNext(i)
      PROVE  /\ XcodesAt(i.offset) = {Code(k)} /\ Code(k) \in XCODE
             /\ At(AfterNext(i, Code(k)), k + 1)
             /\ (AfterNext(i, Code(k)).offset - XcodeSize) % Wrap = Pos(k)
  <2>1. InTable(Pos(k)) /\ ~Exits(k)
    BY <1>4, <1>5
  <2>2. XcodesAt(i.offset) = {Code(k)}
    BY <1>1, <2>1 DEF XcodesAt, Code
  <2>3. Code(k) \in XCODE
    BY <1>1, <2>1 DEF InTable, Code
  <2>4. Read(k + 1)
    BY <2>1 DEF At, Read
  <2>5. AfterNext(i, Code(k)).offset = Pos(k) + XcodeSize
    BY <1>1, <1>3, OffsetKept DEF AfterNext
  <2>6. AfterNext(i, Code(k)).status = IF Exits(k + 1) THEN "exit_op_found" ELSE "ok"
    BY DEF AfterNext, Exits
  <2>7. At(AfterNext(i, Code(k)), k + 1)
    BY <1>1, <2>4, <2>5, <2>6 DEF At
  <2>8. (AfterNext(i, Code(k)).offset - XcodeSize) % Wrap = Pos(k)
    BY <1>1, <1>3, <2>5, OffsetKept
  <2> QED BY <2>2, <2>3, <2>7, <2>8
<1> QED BY <1>1, <1>2, <1>3, <1>4, <1>5 DEF Ended, At

LEMMA ReadsFromStart ==
  ASSUME TableTyped
  PROVE  At(reset, 0)
BY PosFacts DEF At, Read, reset, Exits

\* Nothing is read behind the end, which is the same for each pass.
LEMMA EndIsOne ==
  ASSUME NEW k \in Nat, NEW e \in Nat, Read(k), Ended(e)
  PROVE  k <= e
<1> SUFFICES ASSUME e < k PROVE FALSE
  OBVIOUS
<1>1. InTable(Pos(e)) /\ (e + 1 < k => ~Exits(e + 1))
  BY DEF Read
<1>2. Exits(e)
  BY <1>1 DEF Ended
<1>3. e - 1 \in 0 .. k - 1 /\ (e - 1) + 1 = e
  BY <1>2 DEF Exits
<1> QED BY <1>2, <1>3 DEF Read

LEMMA JumpsBeforeGrow ==
  ASSUME NEW k \in Nat
  PROVE  /\ IsFiniteSet(JumpsBefore(k)) /\ Cardinality(JumpsBefore(k)) \in Nat
         /\ JumpsBefore(0) = {} /\ k \notin JumpsBefore(k)
         /\ JumpsBefore(k + 1) = IF IsJump(Code(k)) THEN JumpsBefore(k) \cup {k} ELSE JumpsBefore(k)
         /\ \A e \in Nat : k <= e => Cardinality(JumpsBefore(k)) <= Cardinality(JumpsBefore(e))
<1>1. ASSUME NEW e \in Nat
      PROVE  IsFiniteSet(JumpsBefore(e))
  <2>1. IsFiniteSet(0 .. e - 1)
    BY FS_Interval
  <2>2. JumpsBefore(e) \subseteq 0 .. e - 1
    BY DEF JumpsBefore
  <2> QED BY <2>1, <2>2, FS_Subset
<1>2. Cardinality(JumpsBefore(k)) \in Nat
  BY <1>1, FS_CardinalityType
<1>3. JumpsBefore(0) = {} /\ k \notin JumpsBefore(k)
  BY DEF JumpsBefore
<1>4. JumpsBefore(k + 1) = IF IsJump(Code(k)) THEN JumpsBefore(k) \cup {k} ELSE JumpsBefore(k)
  <2>1. \A i : i \in JumpsBefore(k + 1) <=> (i \in JumpsBefore(k) \/ i = k) /\ IsJump(Code(i))
    <3>1. \A i : i \in 0 .. (k + 1) - 1 <=> i \in 0 .. k - 1 \/ i = k
      OBVIOUS
    <3> QED BY <3>1 DEF JumpsBefore
  <2>2. \A i \in JumpsBefore(k) : IsJump(Code(i))
    BY DEF JumpsBefore
  <2> QED BY <2>1, <2>2
<1>5. ASSUME NEW e \in Nat, k <= e
      PROVE  Cardinality(JumpsBefore(k)) <= Cardinality(JumpsBefore(e))
  <2>1. JumpsBefore(k) \subseteq JumpsBefore(e)
    BY <1>5 DEF JumpsBefore
  <2> QED BY <1>1, <2>1, FS_Subset
<1> QED BY <1>1, <1>2, <1>3, <1>4, <1>5

\* The table is read, never written.
LEMMA TableKept ==
  ASSUME UNCHANGED <<size, xcodes>>, NEW k \in Nat
  PROVE  /\ TableTyped' <=> TableTyped
         /\ Read(k)' <=> Read(k)
         /\ Ended(k)' <=> Ended(k)
         /\ At(interp, k)' <=> At(interp', k)
         /\ Code(k)' = Code(k) /\ JumpsBefore(k)' = JumpsBefore(k)
<1>1. \A j : Code(j)' = Code(j) /\ (Exits(j)' <=> Exits(j)) /\ (InTable(j)' <=> InTable(j))
  BY DEF Code, Exits, InTable
<1>2. (Read(k)' <=> Read(k)) /\ (Ended(k)' <=> Ended(k))
  BY <1>1 DEF Read, Ended
<1>3. At(interp, k)' <=> At(interp', k)
  BY <1>1, <1>2 DEF At
<1>4. TableTyped' <=> TableTyped
  BY DEF TableTyped
<1>5. JumpsBefore(k)' = JumpsBefore(k)
  BY <1>1 DEF JumpsBefore
<1> QED BY <1>1, <1>2, <1>3, <1>4, <1>5

-----------------------------------------------------------------------------
(* The arrays                                                              *)

\* Where at most one entry fits, the first that fits is that one.
LEMMA FirstOfOne ==
  ASSUME NEW I \in SUBSET (Nat \ {0}), \A i, j \in I : i = j
  PROVE  IF I = {} THEN First(I) = 0 ELSE First(I) \in I
<1>1. CASE I = {}
  BY <1>1 DEF First
<1>2. CASE I # {}
  <2>1. PICK i \in I : i \in Nat
    BY <1>2
  <2>2. \A j \in I : i <= j
    BY <2>1
  <2> QED BY <1>2, <2>1, <2>2 DEF First
<1> QED BY <1>1, <1>2

LEMMA SearchLabel ==
  ASSUME labels \in Seq(LABEL), LabelsFit(xcodes, labels, jmps), NEW o
  PROVE  /\ searchLabel(o) \in Nat
         /\ searchLabel(o) = 0 <=> \A i \in DOMAIN labels : labels[i].offset # o
         /\ searchLabel(o) # 0 => searchLabel(o) \in DOMAIN labels /\ labels[searchLabel(o)].offset = o
<1> DEFINE I == {i \in DOMAIN labels : labels[i].offset = o}
<1>1. I \subseteq Nat \ {0} /\ \A i, j \in I : i = j
  BY DEF LabelsFit
<1>2. searchLabel(o) = First(I)
  BY DEF searchLabel
<1>3. IF I = {} THEN First(I) = 0 ELSE First(I) \in I
  <2> HIDE DEF I
  <2> QED BY <1>1, FirstOfOne
<1> QED BY <1>1, <1>2, <1>3

LEMMA SearchJmp ==
  ASSUME jmps \in Seq(JMP_XCODE), JumpsApart(jmps), NEW o
  PROVE  /\ searchJmp(o) \in Nat
         /\ searchJmp(o) = 0 <=> \A i \in DOMAIN jmps : jmps[i].xcodeOffset # o
         /\ searchJmp(o) # 0 => searchJmp(o) \in DOMAIN jmps /\ jmps[searchJmp(o)].xcodeOffset = o
<1> DEFINE I == {i \in DOMAIN jmps : jmps[i].xcodeOffset = o}
<1>1. I \subseteq Nat \ {0} /\ \A i, j \in I : i = j
  BY DEF JumpsApart
<1>2. searchJmp(o) = First(I)
  BY DEF searchJmp
<1>3. IF I = {} THEN First(I) = 0 ELSE First(I) \in I
  <2> HIDE DEF I
  <2> QED BY <1>1, FirstOfOne
<1> QED BY <1>1, <1>2, <1>3

\* An entry that changes is an entry, at the same offset.
LEMMA LabelChanged ==
  ASSUME NEW l \in LABEL
  PROVE  /\ [l EXCEPT !.references = @ + 1] \in LABEL
         /\ [l EXCEPT !.defined = TRUE] \in LABEL
         /\ [l EXCEPT !.defined = TRUE].offset = l.offset
         /\ [l EXCEPT !.defined = TRUE].references = l.references
<1>1. [l EXCEPT !.references = @ + 1] =
        [offset |-> l.offset, references |-> l.references + 1, defined |-> l.defined]
  BY DEF LABEL
<1>2. l.offset \in 0 .. (Wrap - 1) /\ l.references \in Nat /\ l.defined \in BOOLEAN
  BY DEF LABEL
<1>3. [l EXCEPT !.references = @ + 1] \in LABEL
  BY <1>1, <1>2 DEF LABEL
<1>4. [l EXCEPT !.defined = TRUE] \in LABEL
  BY Zenon DEF LABEL
<1>5. /\ [l EXCEPT !.defined = TRUE].offset = l.offset
      /\ [l EXCEPT !.defined = TRUE].references = l.references
  BY DEF LABEL
<1> QED BY <1>3, <1>4, <1>5

LEMMA JmpChanged ==
  ASSUME NEW j \in JMP_XCODE
  PROVE  /\ [j EXCEPT !.branchable = TRUE] \in JMP_XCODE
         /\ [j EXCEPT !.branchable = TRUE].xcodeOffset = j.xcodeOffset
BY DEF JMP_XCODE

\* What decode and walkBranch change in the arrays: whether a label was defined, whether a
\* jump is branchable.
ArraysStay ==
  /\ UNCHANGED <<size, xcodes, jmpCount>>
  /\ labels' \in Seq(LABEL) /\ jmps' \in Seq(JMP_XCODE)
  /\ Len(labels') = Len(labels) /\ Len(jmps') = Len(jmps)
  /\ \A i \in DOMAIN labels : /\ labels'[i].offset = labels[i].offset
                              /\ labels'[i].references = labels[i].references
  /\ \A j \in DOMAIN jmps : jmps'[j].xcodeOffset = jmps[j].xcodeOffset

LEMMA ArraysKept ==
  ASSUME DecoderTypeOK, ArraysOK, ArraysStay
  PROVE  /\ ArraysOK' /\ \A o : searchLabel(o)' = searchLabel(o)
         /\ \A k \in Nat : /\ Recorded(k)' <=> Recorded(k)
                           /\ CountedUpTo(k)' <=> CountedUpTo(k)
                           /\ LineOf(k)' = LineOf(k)
<1> USE DEF ArraysStay, DecoderTypeOK
<1>1. DOMAIN labels' = DOMAIN labels /\ DOMAIN jmps' = DOMAIN jmps
  OBVIOUS
<1>2. \A o : searchLabel(o)' = searchLabel(o)
  <2> TAKE o
  <2>1. {i \in DOMAIN labels : labels[i].offset = o}' = {i \in DOMAIN labels : labels[i].offset = o}
    BY <1>1
  <2> QED BY <2>1 DEF searchLabel
<1>3. \A j \in DOMAIN jmps : TargetIn(xcodes', jmps', j) = TargetIn(xcodes, jmps, j)
  BY <1>1 DEF TargetIn
<1>4. \A o : JumpsIn(xcodes', jmps', o) = JumpsIn(xcodes, jmps, o)
  BY <1>1, <1>3 DEF JumpsIn
<1>5. ArraysOK'
  <2>1. \A i, j \in DOMAIN labels' : labels'[i].offset = labels'[j].offset => i = j
    BY <1>1 DEF ArraysOK, LabelsFit
  <2>2. \A i \in DOMAIN labels' :
          labels'[i].references = Cardinality(JumpsIn(xcodes', jmps', labels'[i].offset))
    BY <1>1, <1>4 DEF ArraysOK, LabelsFit
  <2>3. \A j \in DOMAIN jmps' : \E i \in DOMAIN labels' : labels'[i].offset = TargetIn(xcodes', jmps', j)
    BY <1>1, <1>3 DEF ArraysOK, LabelsFit
  <2>4. LabelsFit(xcodes', labels', jmps')
    BY <2>1, <2>2, <2>3 DEF LabelsFit
  <2>5. JumpsApart(jmps')
    BY <1>1 DEF ArraysOK, JumpsApart
  <2> QED BY <2>4, <2>5 DEF ArraysOK
<1>6. ASSUME NEW k \in Nat
      PROVE  /\ Recorded(k)' <=> Recorded(k)
             /\ CountedUpTo(k)' <=> CountedUpTo(k)
             /\ LineOf(k)' = LineOf(k)
  <2>1. /\ Ended(k)' <=> Ended(k)
        /\ Code(k)' = Code(k) /\ JumpsBefore(k)' = JumpsBefore(k)
    BY TableKept
  <2> QED BY <1>1, <1>2, <2>1, ZenonT(30) DEF Recorded, CountedUpTo, LineOf
<1> QED BY <1>2, <1>5, <1>6

\* A jump more is recorded: a reference more for its target's label, or a label for it.
LEMMA JumpMore ==
  ASSUME NEW xs, NEW ls \in Seq(LABEL), NEW js \in Seq(JMP_XCODE), LabelsFit(xs, ls, js),
         NEW o, NEW t \in 0 .. (Wrap - 1), t = Target(o, xs[o]),
         NEW js2, js2 = Append(js, [xcodeOffset |-> o, branchable |-> FALSE])
  PROVE  /\ \A i \in DOMAIN ls : ls[i].offset = t =>
              LabelsFit(xs, [ls EXCEPT ![i].references = @ + 1], js2)
         /\ (\A i \in DOMAIN ls : ls[i].offset # t) =>
              LabelsFit(xs, Append(ls, [offset |-> t, references |-> 1, defined |-> FALSE]), js2)
<1> DEFINE n == Len(js)
           m == Len(ls)
<1>1. n \in Nat /\ DOMAIN js = 1 .. n /\ m \in Nat /\ DOMAIN ls = 1 .. m
  OBVIOUS
<1>2. /\ DOMAIN js2 = DOMAIN js \cup {n + 1} /\ n + 1 \notin DOMAIN js
      /\ js2[n + 1].xcodeOffset = o /\ \A j \in DOMAIN js : js2[j] = js[j]
  BY <1>1
<1> HIDE DEF n, m
<1>3. TargetIn(xs, js2, n + 1) = t /\ \A j \in DOMAIN js : TargetIn(xs, js2, j) = TargetIn(xs, js, j)
  BY <1>2 DEF TargetIn
<1>4. \A p : JumpsIn(xs, js2, p) = IF p = t THEN JumpsIn(xs, js, p) \cup {n + 1} ELSE JumpsIn(xs, js, p)
  <2> TAKE p
  <2>1. \A j : j \in JumpsIn(xs, js2, p) <=> j \in JumpsIn(xs, js, p) \/ (j = n + 1 /\ p = t)
    BY <1>2, <1>3 DEF JumpsIn
  <2> QED BY <2>1
<1>5. \A p : IsFiniteSet(JumpsIn(xs, js, p)) /\ n + 1 \notin JumpsIn(xs, js, p)
  <2> TAKE p
  <2>1. IsFiniteSet(1 .. n)
    BY <1>1, FS_Interval
  <2>2. JumpsIn(xs, js, p) \in SUBSET (1 .. n)
    BY <1>1 DEF JumpsIn
  <2> QED BY <1>1, <2>1, <2>2, FS_Subset
<1>6. ASSUME NEW p
      PROVE  Cardinality(JumpsIn(xs, js2, p)) =
               IF p = t THEN Cardinality(JumpsIn(xs, js, p)) + 1 ELSE Cardinality(JumpsIn(xs, js, p))
  <2>1. Cardinality(JumpsIn(xs, js, p) \cup {n + 1}) = Cardinality(JumpsIn(xs, js, p)) + 1
    BY <1>5, FS_AddElement
  <2> QED BY <1>4, <2>1
<1>7. ASSUME NEW i0 \in DOMAIN ls, ls[i0].offset = t
      PROVE  LabelsFit(xs, [ls EXCEPT ![i0].references = @ + 1], js2)
  <2> DEFINE ls2 == [ls EXCEPT ![i0].references = @ + 1]
  <2>1. /\ DOMAIN ls2 = DOMAIN ls
        /\ \A i \in DOMAIN ls : ls2[i].offset = ls[i].offset
        /\ \A i \in DOMAIN ls : ls2[i].references = IF i = i0 THEN ls[i].references + 1 ELSE ls[i].references
    BY <1>7 DEF LABEL
  <2> HIDE DEF ls2
  <2>2. \A i \in DOMAIN ls : ls[i].offset = t <=> i = i0
    BY <1>7 DEF LabelsFit
  <2>3. ASSUME NEW i \in DOMAIN ls2
        PROVE  ls2[i].references = Cardinality(JumpsIn(xs, js2, ls2[i].offset))
    <3>1. ls[i].references = Cardinality(JumpsIn(xs, js, ls[i].offset)) /\ ls2[i].offset = ls[i].offset
      BY <2>1 DEF LabelsFit
    <3>2. CASE i = i0
      BY <1>6, <1>7, <2>1, <3>1, <3>2
    <3>3. CASE i # i0
      BY <1>6, <2>1, <2>2, <3>1, <3>3
    <3> QED BY <3>2, <3>3
  <2>4. \A j \in DOMAIN js2 : \E i \in DOMAIN ls2 : ls2[i].offset = TargetIn(xs, js2, j)
    BY <1>2, <1>3, <1>7, <2>1, ZenonT(30) DEF LabelsFit
  <2>5. \A i, j \in DOMAIN ls2 : ls2[i].offset = ls2[j].offset => i = j
    BY <2>1 DEF LabelsFit
  <2>6. LabelsFit(xs, ls2, js2)
    BY <2>3, <2>4, <2>5 DEF LabelsFit
  <2> QED BY <2>6 DEF ls2
<1>8. ASSUME \A i \in DOMAIN ls : ls[i].offset # t
      PROVE  LabelsFit(xs, Append(ls, [offset |-> t, references |-> 1, defined |-> FALSE]), js2)
  <2> DEFINE ls2 == Append(ls, [offset |-> t, references |-> 1, defined |-> FALSE])
  <2>1. /\ DOMAIN ls2 = DOMAIN ls \cup {m + 1} /\ m + 1 \notin DOMAIN ls
        /\ ls2[m + 1].offset = t /\ ls2[m + 1].references = 1
        /\ \A i \in DOMAIN ls : ls2[i] = ls[i]
    <3>1. [offset |-> t, references |-> 1, defined |-> FALSE] \in LABEL
      BY DEF LABEL
    <3> HIDE DEF ls2
    <3>2. Len(ls2) = m + 1 /\ ls2 \in Seq(LABEL) /\ ls2[m + 1] = [offset |-> t, references |-> 1, defined |-> FALSE]
      BY <1>1, <3>1 DEF m, ls2
    <3>3. \A i \in DOMAIN ls : ls2[i] = ls[i]
      BY <1>1, <3>1 DEF m, ls2
    <3> QED BY <1>1, <3>2, <3>3
  <2> HIDE DEF ls2
  <2>2. JumpsIn(xs, js, t) = {}
    BY <1>8 DEF JumpsIn, LabelsFit
  <2>3. Cardinality(JumpsIn(xs, js2, t)) = 1
    <3>1. Cardinality(JumpsIn(xs, js2, t)) = Cardinality(JumpsIn(xs, js, t)) + 1
      BY <1>6
    <3> QED BY <2>2, <3>1, FS_EmptySet
  <2>4. ASSUME NEW i \in DOMAIN ls2
        PROVE  ls2[i].references = Cardinality(JumpsIn(xs, js2, ls2[i].offset))
    <3>1. CASE i = m + 1
      BY <2>1, <2>3, <3>1
    <3>2. CASE i \in DOMAIN ls
      <4>1. /\ ls[i].references = Cardinality(JumpsIn(xs, js, ls[i].offset))
            /\ ls2[i] = ls[i] /\ ls[i].offset # t
        BY <1>8, <2>1, <3>2 DEF LabelsFit
      <4> QED BY <1>6, <4>1
    <3> QED BY <2>1, <3>1, <3>2
  <2>5. ASSUME NEW j \in DOMAIN js2
        PROVE  \E i \in DOMAIN ls2 : ls2[i].offset = TargetIn(xs, js2, j)
    <3>1. CASE j = n + 1
      BY <1>3, <2>1, <3>1
    <3>2. CASE j \in DOMAIN js
      <4>1. PICK i \in DOMAIN ls : ls[i].offset = TargetIn(xs, js, j)
        BY <3>2 DEF LabelsFit
      <4> QED BY <1>3, <2>1, <3>2, <4>1
    <3> QED BY <1>2, <3>1, <3>2
  <2>6. \A i, j \in DOMAIN ls2 : ls2[i].offset = ls2[j].offset => i = j
    BY <1>8, <2>1 DEF LabelsFit
  <2>7. LabelsFit(xs, ls2, js2)
    BY <2>4, <2>5, <2>6 DEF LabelsFit
  <2> QED BY <2>7 DEF ls2
<1> QED BY <1>7, <1>8

LEMMA JumpRecorded ==
  ASSUME TableTyped, DecoderTypeOK, ArraysOK, NEW k \in Nat, Recorded(k),
         Pos(k) \in 0 .. (Wrap - 1), Code(k) \in XCODE, IsJump(Code(k)), UNCHANGED <<size, xcodes>>,
         labels' = Referenced(Target(Pos(k), Code(k))), jmps' = createJmp(Pos(k))
  PROVE  /\ labels' \in Seq(LABEL) /\ jmps' \in Seq(JMP_XCODE)
         /\ ArraysOK' /\ Recorded(k + 1)'
<1> USE DEF DecoderTypeOK
<1>1. PICK n \in Nat : n = Len(jmps) /\ DOMAIN jmps = 1 .. n
  OBVIOUS
<1>2. /\ jmps' \in Seq(JMP_XCODE) /\ Len(jmps') = n + 1 /\ DOMAIN jmps' = DOMAIN jmps \cup {n + 1}
      /\ jmps'[n + 1].xcodeOffset = Pos(k) /\ n + 1 \notin DOMAIN jmps
      /\ \A j \in DOMAIN jmps : jmps'[j] = jmps[j]
  BY <1>1 DEF createJmp, JMP_XCODE
<1>3. PICK t \in 0 .. (Wrap - 1) : t = Target(Pos(k), Code(k))
  <2>1. Pos(k) + XcodeSize + Code(k).data \in Int
    BY InterpAssumption DEF XCODE
  <2> QED BY <2>1, OffsetTyped DEF Target
<1>4. Recorded(k + 1)'
  <2>1. JumpsBefore(k + 1)' = JumpsBefore(k) \cup {k}
    <3>1. JumpsBefore(k + 1)' = JumpsBefore(k + 1)
      BY TableKept
    <3> QED BY <3>1, JumpsBeforeGrow
  <2>2. Cardinality(JumpsBefore(k) \cup {k}) = n + 1
    <3>1. IsFiniteSet(JumpsBefore(k)) /\ k \notin JumpsBefore(k)
      BY JumpsBeforeGrow
    <3>2. Cardinality(JumpsBefore(k) \cup {k}) = Cardinality(JumpsBefore(k)) + 1
      BY <3>1, FS_AddElement
    <3> QED BY <1>1, <3>2 DEF Recorded
  <2>3. Len(jmps') = Cardinality(JumpsBefore(k + 1)')
    BY <1>2, <2>1, <2>2
  <2>4. \A j \in DOMAIN jmps' : \E i \in JumpsBefore(k + 1)' : jmps'[j].xcodeOffset = Pos(i)
    BY <1>2, <2>1 DEF Recorded
  <2>5. \A i \in JumpsBefore(k + 1)' : \E j \in DOMAIN jmps' : jmps'[j].xcodeOffset = Pos(i)
    BY <1>2, <2>1, ZenonT(30) DEF Recorded
  <2> QED BY <2>3, <2>4, <2>5 DEF Recorded
<1>5. JumpsApart(jmps')
  <2>1. \A j \in DOMAIN jmps : jmps[j].xcodeOffset # Pos(k)
    <3> SUFFICES ASSUME NEW j \in DOMAIN jmps, jmps[j].xcodeOffset = Pos(k) PROVE FALSE
      OBVIOUS
    <3>1. PICK i \in JumpsBefore(k) : Pos(k) = Pos(i)
      BY DEF Recorded
    <3>2. i \in Nat /\ i < k
      BY DEF JumpsBefore
    <3> QED BY <3>1, <3>2, PosApart
  <2> QED BY <1>2, <2>1, SMTT(30) DEF ArraysOK, JumpsApart
<1>6. \/ \E i \in DOMAIN labels : /\ labels[i].offset = t
                                 /\ labels' = [labels EXCEPT ![i].references = @ + 1]
      \/ /\ \A i \in DOMAIN labels : labels[i].offset # t
         /\ labels' = Append(labels, [offset |-> t, references |-> 1, defined |-> FALSE])
  <2>1. labels' = Referenced(t) /\ LabelsFit(xcodes, labels, jmps)
    BY <1>3 DEF ArraysOK
  <2>2. CASE searchLabel(t) # 0
    BY <2>1, <2>2, SearchLabel DEF Referenced
  <2>3. CASE searchLabel(t) = 0
    BY <2>1, <2>3, SearchLabel DEF Referenced
  <2> QED BY <2>2, <2>3
<1>7. labels' \in Seq(LABEL) /\ Len(labels') <= Len(labels) + 1
  <2>1. ASSUME NEW i \in DOMAIN labels, labels' = [labels EXCEPT ![i].references = @ + 1]
        PROVE  labels' \in Seq(LABEL) /\ Len(labels') = Len(labels)
    <3>1. labels[i] \in LABEL
      OBVIOUS
    <3>2. [labels[i] EXCEPT !.references = @ + 1] \in LABEL
      BY <3>1, LabelChanged
    <3> DEFINE e == [labels[i] EXCEPT !.references = @ + 1]
    <3>3. labels' = [labels EXCEPT ![i] = e]
      BY <2>1
    <3> HIDE DEF e
    <3>4. i \in 1 .. Len(labels) /\ e \in LABEL
      BY <3>2 DEF e
    <3> QED BY <3>3, <3>4, ExceptSeq
  <2>2. CASE labels' = Append(labels, [offset |-> t, references |-> 1, defined |-> FALSE])
    BY <2>2 DEF LABEL
  <2>3. Len(labels) \in Nat
    OBVIOUS
  <2>4. CASE \E i \in DOMAIN labels : labels' = [labels EXCEPT ![i].references = @ + 1]
    <3>1. PICK i \in DOMAIN labels : labels' = [labels EXCEPT ![i].references = @ + 1]
      BY <2>4
    <3>2. labels' \in Seq(LABEL) /\ Len(labels') = Len(labels)
      BY <2>1, <3>1
    <3> QED BY <2>3, <3>2
  <2> QED BY <1>6, <2>2, <2>4
<1>8. LabelsFit(xcodes, labels', jmps')
  <2>1. t = Target(Pos(k), xcodes[Pos(k)])
    BY <1>3 DEF Code
  <2>2. jmps' = Append(jmps, [xcodeOffset |-> Pos(k), branchable |-> FALSE])
    BY DEF createJmp
  <2>3. LabelsFit(xcodes, labels, jmps)
    BY DEF ArraysOK
  <2>4. /\ \A i \in DOMAIN labels : labels[i].offset = t =>
              LabelsFit(xcodes, [labels EXCEPT ![i].references = @ + 1], jmps')
        /\ (\A i \in DOMAIN labels : labels[i].offset # t) =>
              LabelsFit(xcodes, Append(labels, [offset |-> t, references |-> 1, defined |-> FALSE]), jmps')
    BY <2>1, <2>2, <2>3, JumpMore
  <2> QED BY <1>6, <2>4
<1>9. Len(labels) <= n /\ Len(labels) \in Nat
  BY <1>1 DEF ArraysOK
<1> QED BY <1>2, <1>4, <1>5, <1>7, <1>8, <1>9 DEF ArraysOK

-----------------------------------------------------------------------------
(* The steps                                                               *)

LEMMA XcodeTyped ==
  ASSUME TableTyped, NEW o \in 0 .. (Wrap - 1), NEW xc \in XcodesAt(o)
  PROVE  xc \in XCODE
BY InterpAssumption, DecoderAssumption DEF TableTyped, XcodesAt, InTable

LEMMA InterpTyped ==
  ASSUME NEW i \in INTERP, NEW xc \in XCODE
  PROVE  AfterNext(i, xc) \in INTERP /\ AfterLast(i) \in INTERP /\ reset \in INTERP
<1>1. i.offset \in 0 .. (Wrap - 1) /\ i.offset + XcodeSize \in Int
  BY InterpAssumption DEF INTERP
<1>2. (i.offset + XcodeSize) % Wrap \in 0 .. (Wrap - 1)
  BY <1>1, OffsetTyped
<1>3. AfterNext(i, xc) \in INTERP
  BY <1>2 DEF AfterNext, INTERP
<1>4. AfterLast(i) \in INTERP
  BY DEF AfterLast, INTERP
<1>5. reset \in INTERP
  BY InterpAssumption DEF reset, INTERP
<1> QED BY <1>3, <1>4, <1>5

LEMMA DecoderInitially == DecoderInit => DecoderInv
<1> SUFFICES ASSUME DecoderInit PROVE DecoderInv
  OBVIOUS
<1>1. TableTyped
  BY DecoderAssumption DEF DecoderInit, TableTyped
<1>2. DecoderTypeOK
  BY InterpAssumption DEF DecoderInit, DecoderTypeOK, reset, INTERP, NoXcode, NoWalk, XCODE, Opcodes
<1>3. Counting
  <2>1. At(interp, 0)
    BY <1>1, ReadsFromStart DEF DecoderInit
  <2>2. jmpCount = Cardinality(JumpsBefore(0))
    BY JumpsBeforeGrow, FS_EmptySet DEF DecoderInit
  <2> QED BY <2>1, <2>2 DEF DecoderInit, Counting
<1>4. ArraysOK
  BY DEF DecoderInit, ArraysOK, LabelsFit, JumpsApart
<1>5. Loading /\ Loaded /\ Writing
  BY DEF DecoderInit, Loading, Loaded, Writing
<1> QED BY <1>1, <1>2, <1>3, <1>4, <1>5 DEF DecoderInv

LEMMA CountXcodeKeeps ==
  ASSUME DecoderInv, CountXcode
  PROVE  DecoderInv'
<1> USE DEF DecoderInv
<1>1. /\ pc = "count" /\ HasNext(interp)
      /\ UNCHANGED <<size, xcodes, branch, pc, labels, jmps, xcode, walk, lines>>
  BY DEF CountXcode
<1>2. PICK k \in Nat : At(interp, k) /\ jmpCount = Cardinality(JumpsBefore(k))
  BY <1>1 DEF Counting
<1>3. /\ interp' = AfterNext(interp, Code(k)) /\ Code(k) \in XCODE /\ At(interp', k + 1)
      /\ jmpCount' = IF IsJump(Code(k)) THEN jmpCount + 1 ELSE jmpCount
  <2>1. XcodesAt(interp.offset) = {Code(k)} /\ Code(k) \in XCODE /\ At(AfterNext(interp, Code(k)), k + 1)
    BY <1>1, <1>2, ReadsOn
  <2> QED BY <2>1 DEF CountXcode
<1>4. jmpCount' = Cardinality(JumpsBefore(k + 1))
  <2>1. Cardinality(JumpsBefore(k) \cup {k}) = Cardinality(JumpsBefore(k)) + 1
    BY JumpsBeforeGrow, FS_AddElement
  <2> QED BY <1>2, <1>3, <2>1, JumpsBeforeGrow
<1>5. interp' \in INTERP /\ jmpCount' \in Nat
  <2>1. interp \in INTERP /\ jmpCount \in Nat
    BY DEF DecoderTypeOK
  <2>2. AfterNext(interp, Code(k)) \in INTERP
    BY <1>3, <2>1, InterpTyped
  <2>3. jmpCount' = jmpCount + 1 \/ jmpCount' = jmpCount
    BY <1>3
  <2> QED BY <1>3, <2>1, <2>2, <2>3
<1>6. DecoderTypeOK'
  BY <1>1, <1>5 DEF DecoderTypeOK
<1>7. Counting'
  <2>1. At(interp, k + 1)' /\ JumpsBefore(k + 1)' = JumpsBefore(k + 1)
    BY <1>1, <1>3, TableKept
  <2>2. jmpCount' = Cardinality(JumpsBefore(k + 1)')
    BY <1>4, <2>1
  <2>3. jmps' = <<>> /\ labels' = <<>> /\ lines' = <<>>
    BY <1>1 DEF Counting
  <2>4. k + 1 \in Nat
    OBVIOUS
  <2> QED BY <2>1, <2>2, <2>3, <2>4 DEF Counting
<1>8. TableTyped' /\ ArraysOK'
  BY <1>1 DEF TableTyped, ArraysOK
<1> QED BY <1>1, <1>6, <1>7, <1>8 DEF Loading, Loaded, Writing

LEMMA EndCountKeeps ==
  ASSUME DecoderInv, EndPass("count", "label")
  PROVE  DecoderInv'
<1> USE DEF DecoderInv
<1>1. /\ pc = "count" /\ ~HasNext(interp) /\ interp' = reset /\ pc' = "label"
      /\ UNCHANGED <<size, xcodes, branch, jmpCount, labels, jmps, xcode, walk, lines>>
  BY DEF EndPass, loadVars
<1>2. PICK e \in Nat : At(interp, e) /\ jmpCount = Cardinality(JumpsBefore(e))
  BY <1>1 DEF Counting
<1>3. Ended(e)
  BY <1>1, <1>2, ReadsOn
<1>4. jmps = <<>> /\ labels = <<>> /\ lines = <<>>
  BY <1>1 DEF Counting
<1>5. CountedUpTo(e)'
  BY <1>1, <1>2, <1>3, TableKept DEF CountedUpTo
<1>6. At(interp, 0)'
  <2>1. At(reset, 0)
    BY ReadsFromStart
  <2> QED BY <1>1, <2>1, TableKept
<1>7. Recorded(0)'
  <2>1. JumpsBefore(0)' = {}
    BY <1>1, TableKept, JumpsBeforeGrow
  <2> QED BY <1>1, <1>4, <2>1, FS_EmptySet DEF Recorded
<1>8. Loading'
  BY <1>1, <1>4, <1>5, <1>6, <1>7 DEF Loading
<1>9. interp' \in INTERP
  BY <1>1, InterpTyped, InterpAssumption DEF reset, INTERP
<1>10. DecoderTypeOK'
  BY <1>1, <1>9 DEF DecoderTypeOK
<1>11. TableTyped' /\ ArraysOK'
  BY <1>1 DEF TableTyped, ArraysOK
<1> QED BY <1>1, <1>8, <1>10, <1>11 DEF Counting, Loaded, Writing

LEMMA LoadXcodeKeeps ==
  ASSUME DecoderInv, LoadXcode
  PROVE  DecoderInv'
<1> USE DEF DecoderInv
<1>1. /\ pc = "label" /\ HasNext(interp) /\ lines = <<>>
      /\ UNCHANGED <<size, xcodes, branch, pc, jmpCount, xcode, walk, lines>>
  BY DEF LoadXcode, Loading
<1>2. PICK k, e \in Nat : At(interp, k) /\ CountedUpTo(e) /\ Recorded(k)
  BY <1>1 DEF Loading
<1>3. /\ XcodesAt(interp.offset) = {Code(k)} /\ Code(k) \in XCODE /\ At(AfterNext(interp, Code(k)), k + 1)
      /\ Pos(k) \in 0 .. (Wrap - 1) /\ interp.offset = Pos(k)
  <2>1. /\ XcodesAt(interp.offset) = {Code(k)} /\ Code(k) \in XCODE /\ At(AfterNext(interp, Code(k)), k + 1)
        /\ Pos(k) + XcodeSize \in 0 .. (Wrap - 1)
    BY <1>1, <1>2, ReadsOn
  <2>2. Pos(k) \in 0 .. (Wrap - 1)
    BY <2>1, PosFacts, InterpAssumption
  <2>3. interp.offset = Pos(k)
    BY <1>2 DEF At
  <2> QED BY <2>1, <2>2, <2>3
<1>4. /\ interp' = AfterNext(interp, Code(k)) /\ At(interp', k + 1)
      /\ IF IsJump(Code(k))
         THEN labels' = Referenced(Target(Pos(k), Code(k))) /\ jmps' = createJmp(Pos(k))
         ELSE UNCHANGED <<labels, jmps>>
  BY <1>3 DEF LoadXcode
<1>5. labels' \in Seq(LABEL) /\ jmps' \in Seq(JMP_XCODE) /\ ArraysOK' /\ Recorded(k + 1)'
  <2>1. CASE IsJump(Code(k))
    BY <1>1, <1>2, <1>3, <1>4, <2>1, JumpRecorded
  <2>2. CASE ~IsJump(Code(k))
    <3>1. JumpsBefore(k + 1)' = JumpsBefore(k)
      <4>1. JumpsBefore(k + 1)' = JumpsBefore(k + 1)
        BY <1>1, TableKept
      <4> QED BY <2>2, <4>1, JumpsBeforeGrow
    <3>2. UNCHANGED <<labels, jmps, xcodes>>
      BY <1>1, <1>4, <2>2
    <3> QED BY <1>2, <3>1, <3>2 DEF Recorded, ArraysOK, DecoderTypeOK
  <2> QED BY <2>1, <2>2
<1>6. interp' \in INTERP
  BY <1>3, <1>4, InterpTyped DEF DecoderTypeOK
<1>7. DecoderTypeOK'
  BY <1>1, <1>5, <1>6 DEF DecoderTypeOK
<1>8. Loading'
  <2>1. At(interp, k + 1)' /\ CountedUpTo(e)' /\ k + 1 \in Nat
    BY <1>1, <1>2, <1>4, TableKept DEF CountedUpTo
  <2> QED BY <1>1, <1>5, <2>1 DEF Loading
<1>9. TableTyped'
  BY <1>1 DEF TableTyped
<1> QED BY <1>1, <1>5, <1>7, <1>8, <1>9 DEF Counting, Loaded, Writing

LEMMA EndLoadKeeps ==
  ASSUME DecoderInv, EndPass("label", "decode")
  PROVE  DecoderInv'
<1> USE DEF DecoderInv
<1>1. /\ pc = "label" /\ ~HasNext(interp) /\ interp' = reset /\ pc' = "decode" /\ lines = <<>>
      /\ UNCHANGED <<size, xcodes, branch, jmpCount, labels, jmps, xcode, walk, lines>>
  BY DEF EndPass, loadVars, Loading
<1>2. PICK k, e \in Nat : At(interp, k) /\ CountedUpTo(e) /\ Recorded(k)
  BY <1>1 DEF Loading
<1>3. k = e
  <2>1. Ended(k) /\ Read(k) /\ Ended(e) /\ Read(e)
    BY <1>1, <1>2, ReadsOn DEF At, CountedUpTo, Ended
  <2>2. k <= e /\ e <= k
    BY <2>1, EndIsOne
  <2> QED BY <2>2
<1>4. CountedUpTo(k)' /\ Recorded(k)'
  <2>1. ArraysStay
    BY <1>1 DEF ArraysStay, DecoderTypeOK
  <2> QED BY <1>2, <1>3, <2>1, ArraysKept
<1>5. At(interp, 0)' /\ Read(0)'
  <2>1. At(reset, 0)
    BY ReadsFromStart
  <2> QED BY <1>1, <2>1, TableKept DEF At
<1>6. Writing'
  <2>1. Len(lines)' = 0 /\ DOMAIN lines' = {}
    BY <1>1
  <2> QED BY <1>1, <1>5, <2>1 DEF Writing
<1>7. interp' \in INTERP
  BY <1>1, InterpAssumption DEF reset, INTERP
<1>8. DecoderTypeOK'
  BY <1>1, <1>7 DEF DecoderTypeOK
<1>9. TableTyped' /\ ArraysOK'
  BY <1>1 DEF TableTyped, ArraysOK
<1> QED BY <1>1, <1>4, <1>6, <1>8, <1>9 DEF Counting, Loading, Loaded

\* After load the arrays stay what they are.
LEMMA LaterKeeps ==
  ASSUME DecoderInv, pc \notin {"count", "label"}, pc' \notin {"count", "label"},
         ArraysStay, DecoderTypeOK', Writing'
  PROVE  DecoderInv'
<1> USE DEF DecoderInv
<1>1. PICK e \in Nat : CountedUpTo(e) /\ Recorded(e)
  BY DEF Loaded
<1>2. CountedUpTo(e)' /\ Recorded(e)' /\ ArraysOK'
  BY <1>1, ArraysKept
<1>3. TableTyped'
  BY TableKept DEF ArraysStay, TableTyped
<1> QED BY <1>2, <1>3 DEF Counting, Loading, Loaded

\* With -branch nothing is said of the lines' order.
LEMMA BranchKeeps ==
  ASSUME DecoderInv, pc \in {"branch", "walk"}, UNCHANGED branch
  PROVE  Writing'
BY DEF DecoderInv, Writing, DecoderTypeOK

\* Without -branch: what a step leaves to be shown that writes no line.
LEMMA WritingGoesOn ==
  ASSUME DecoderInv, ArraysStay, pc \notin {"count", "label"}, UNCHANGED <<branch, lines>>,
         pc' \in {"decode", "write", "done", "failed"},
         ASSUME NEW n \in Nat, n = Len(lines), ~branch
         PROVE  /\ pc' = "decode" => At(interp', n)
                /\ pc' = "write" => /\ At(interp', n + 1)
                                   /\ xcode'.at = Pos(n) /\ xcode'.xc = Code(n)
                /\ pc' = "done" => Ended(n)
  PROVE  Writing'
<1> USE DEF DecoderInv
<1> SUFFICES ASSUME ~branch PROVE Writing'
  BY DEF Writing
<1>1. PICK n \in Nat : n = Len(lines)
  BY DEF DecoderTypeOK
<1>2. /\ pc' = "decode" => At(interp', n)
      /\ pc' = "write" => At(interp', n + 1) /\ xcode'.at = Pos(n) /\ xcode'.xc = Code(n)
      /\ pc' = "done" => Ended(n)
  BY <1>1
<1>3. Len(lines') = n /\ DOMAIN lines' = 1 .. n /\ lines' = lines
  BY <1>1 DEF DecoderTypeOK
<1>4. /\ Read(n)' /\ (At(interp, n)' <=> At(interp', n)) /\ (Ended(n)' <=> Ended(n))
      /\ (At(interp, n + 1)' <=> At(interp', n + 1)) /\ Code(n)' = Code(n)
  BY <1>1, TableKept DEF Writing, ArraysStay
<1>5. \A i \in 1 .. n : lines'[i] = LineOf(i - 1)'
  <2> TAKE i \in 1 .. n
  <2>1. i - 1 \in Nat /\ i \in DOMAIN lines
    BY <1>3
  <2>2. PICK k \in Nat : k = i - 1
    BY <2>1
  <2>3. lines[i] = LineOf(k)
    BY <2>1, <2>2 DEF Writing
  <2>4. LineOf(k)' = LineOf(k)
    BY ArraysKept
  <2> QED BY <1>3, <2>2, <2>3, <2>4
<1> QED BY <1>2, <1>3, <1>4, <1>5 DEF Writing, Pos

LEMMA SameArrays ==
  ASSUME DecoderTypeOK, UNCHANGED <<size, xcodes, loadVars>>
  PROVE  ArraysStay
BY DEF DecoderTypeOK, ArraysStay, loadVars

LEMMA NextXcodeKeeps ==
  ASSUME DecoderInv, NextXcode
  PROVE  DecoderInv'
<1> USE DEF DecoderInv
<1>1. /\ pc = "decode" /\ HasNext(interp) /\ pc' \in {"branch", "write"}
      /\ UNCHANGED <<size, xcodes, branch, loadVars, walk, lines>>
  BY DEF NextXcode
<1>2. PICK xc \in XcodesAt(interp.offset) :
        /\ interp' = AfterNext(interp, xc) /\ xcode' = [at |-> interp.offset, xc |-> xc]
        /\ pc' = IF branch /\ IsJump(xc) THEN "branch" ELSE "write"
  BY DEF NextXcode
<1>3. ArraysStay
  BY <1>1, SameArrays
<1>4. interp \in INTERP /\ interp.offset \in 0 .. (Wrap - 1)
  BY DEF DecoderTypeOK, INTERP
<1>5. xc \in XCODE
  BY <1>4, XcodeTyped
<1>6. interp' \in INTERP /\ xcode' \in [at : 0 .. (Wrap - 1), xc : XCODE]
  BY <1>2, <1>4, <1>5, InterpTyped
<1>7. DecoderTypeOK'
  BY <1>1, <1>6 DEF DecoderTypeOK, loadVars
<1>8. Writing'
  <2>1. CASE branch
    BY <1>1, <2>1 DEF Writing
  <2>2. CASE ~branch
    <3>1. pc' = "write"
      BY <1>2, <2>2
    <3>2. ASSUME NEW n \in Nat, n = Len(lines)
          PROVE  At(interp', n + 1) /\ xcode'.at = Pos(n) /\ xcode'.xc = Code(n)
      <4>1. At(interp, n)
        BY <1>1, <2>2, <3>2 DEF Writing
      <4>2. XcodesAt(interp.offset) = {Code(n)} /\ At(AfterNext(interp, Code(n)), n + 1)
        BY <1>1, <4>1, ReadsOn
      <4>3. xc = Code(n) /\ interp.offset = Pos(n)
        BY <4>1, <4>2 DEF At
      <4> QED BY <1>2, <4>2, <4>3
    <3> QED BY <1>1, <1>3, <3>1, <3>2, WritingGoesOn
  <2> QED BY <2>1, <2>2
<1> QED BY <1>1, <1>3, <1>7, <1>8, LaterKeeps

LEMMA TakeJmpKeeps ==
  ASSUME DecoderInv, TakeJmp
  PROVE  DecoderInv'
<1> USE DEF DecoderInv
<1>1. /\ pc = "branch" /\ pc' = "write" /\ interp' = Moved(interp, xcode.xc.data)
      /\ UNCHANGED <<size, xcodes, branch, loadVars, xcode, walk, lines>>
  BY DEF TakeJmp
<1>2. interp' \in INTERP
  <2>1. interp \in INTERP /\ interp.offset + xcode.xc.data \in Int
    BY DEF DecoderTypeOK, INTERP, XCODE
  <2>2. (interp.offset + xcode.xc.data) % Wrap \in 0 .. (Wrap - 1)
    BY <2>1, OffsetTyped
  <2> QED BY <1>1, <2>1, <2>2 DEF Moved, INTERP
<1>3. DecoderTypeOK'
  BY <1>1, <1>2 DEF DecoderTypeOK, loadVars
<1> QED BY <1>1, <1>3, SameArrays, BranchKeeps, LaterKeeps

LEMMA PassJmpKeeps ==
  ASSUME DecoderInv, PassJmp
  PROVE  DecoderInv'
<1>1. /\ pc = "branch" /\ pc' = "write" /\ DecoderTypeOK
      /\ UNCHANGED <<size, xcodes, interp, branch, loadVars, xcode, walk, lines>>
  BY DEF PassJmp, DecoderInv
<1>2. DecoderTypeOK'
  BY <1>1 DEF DecoderTypeOK, loadVars
<1> QED BY <1>1, <1>2, SameArrays, BranchKeeps, LaterKeeps

LEMMA WalkBranchKeeps ==
  ASSUME DecoderInv, WalkBranch
  PROVE  DecoderInv'
<1> USE DEF DecoderInv
<1>1. /\ pc = "branch" /\ pc' = "walk"
      /\ UNCHANGED <<size, xcodes, branch, loadVars, xcode, lines>>
  BY DEF WalkBranch
<1>2. PICK t : t = (interp.offset + xcode.xc.data) % Wrap
  OBVIOUS
<1>3. /\ walk' = [saved |-> interp, end |-> IF t > interp.offset THEN t ELSE interp.offset]
      /\ interp' = IF t > interp.offset THEN interp ELSE [interp EXCEPT !.offset = t]
  BY <1>2 DEF WalkBranch
<1>4. interp \in INTERP /\ interp.offset \in 0 .. (Wrap - 1) /\ t \in 0 .. (Wrap - 1)
  <2>1. interp \in INTERP /\ interp.offset + xcode.xc.data \in Int
    BY DEF DecoderTypeOK, INTERP, XCODE
  <2> QED BY <1>2, <2>1, OffsetTyped DEF INTERP
<1>5. [interp EXCEPT !.offset = t] \in INTERP
  BY <1>4 DEF INTERP
<1>6. interp' \in INTERP /\ walk' \in [saved : INTERP, end : 0 .. (Wrap - 1)]
  BY <1>3, <1>4, <1>5
<1>7. DecoderTypeOK'
  BY <1>1, <1>6 DEF DecoderTypeOK, loadVars
<1> QED BY <1>1, <1>7, SameArrays, BranchKeeps, LaterKeeps

LEMMA MarkedStays ==
  ASSUME DecoderTypeOK, ArraysOK, NEW o
  PROVE  /\ Marked(o) \in Seq(JMP_XCODE) /\ Len(Marked(o)) = Len(jmps)
         /\ \A j \in DOMAIN jmps : Marked(o)[j].xcodeOffset = jmps[j].xcodeOffset
<1> USE DEF DecoderTypeOK
<1>1. CASE searchJmp(o) = 0
  BY <1>1 DEF Marked
<1>2. CASE searchJmp(o) # 0
  <2>1. PICK i \in DOMAIN jmps : i = searchJmp(o)
    BY <1>2, SearchJmp DEF ArraysOK
  <2> DEFINE e == [jmps[i] EXCEPT !.branchable = TRUE]
  <2>2. Marked(o) = [jmps EXCEPT ![i] = e]
    BY <1>2, <2>1 DEF Marked
  <2>3. e \in JMP_XCODE /\ e.xcodeOffset = jmps[i].xcodeOffset /\ i \in 1 .. Len(jmps)
    BY JmpChanged
  <2> HIDE DEF e
  <2>4. [jmps EXCEPT ![i] = e] \in Seq(JMP_XCODE) /\ Len([jmps EXCEPT ![i] = e]) = Len(jmps)
    BY <2>3, ExceptSeq
  <2>5. \A j \in DOMAIN jmps : [jmps EXCEPT ![i] = e][j].xcodeOffset = jmps[j].xcodeOffset
    BY <2>3
  <2> QED BY <2>2, <2>4, <2>5
<1> QED BY <1>1, <1>2

LEMMA WalkXcodeKeeps ==
  ASSUME DecoderInv, WalkXcode
  PROVE  DecoderInv'
<1> USE DEF DecoderInv
<1>1. /\ pc = "walk"
      /\ UNCHANGED <<size, xcodes, branch, pc, jmpCount, labels, xcode, walk, lines>>
  BY DEF WalkXcode
<1>2. PICK xc \in XcodesAt(interp.offset) :
        /\ interp' = AfterNext(interp, xc)
        /\ jmps' = IF xc.opcode = "jmp" THEN Marked(interp.offset) ELSE jmps
  BY DEF WalkXcode
<1>3. interp' \in INTERP
  <2>1. interp \in INTERP /\ interp.offset \in 0 .. (Wrap - 1)
    BY DEF DecoderTypeOK, INTERP
  <2> QED BY <1>2, <2>1, XcodeTyped, InterpTyped
<1>4. ArraysStay
  <2>1. CASE xc.opcode = "jmp"
    BY <1>1, <1>2, <2>1, MarkedStays DEF ArraysStay, DecoderTypeOK
  <2>2. CASE xc.opcode # "jmp"
    BY <1>1, <1>2, <2>2 DEF ArraysStay, DecoderTypeOK
  <2> QED BY <2>1, <2>2
<1>5. DecoderTypeOK'
  BY <1>1, <1>3, <1>4 DEF DecoderTypeOK, ArraysStay
<1> QED BY <1>1, <1>4, <1>5, BranchKeeps, LaterKeeps

LEMMA WalkEndKeeps ==
  ASSUME DecoderInv, WalkEnd
  PROVE  DecoderInv'
<1>1. /\ pc = "walk" /\ pc' = "write" /\ DecoderTypeOK /\ interp' = walk.saved
      /\ UNCHANGED <<size, xcodes, branch, loadVars, xcode, walk, lines>>
  BY DEF WalkEnd, DecoderInv
<1>2. interp' \in INTERP
  BY <1>1 DEF DecoderTypeOK
<1>3. DecoderTypeOK'
  BY <1>1, <1>2 DEF DecoderTypeOK, loadVars
<1> QED BY <1>1, <1>3, SameArrays, BranchKeeps, LaterKeeps

LEMMA DefinedStays ==
  ASSUME DecoderTypeOK, ArraysOK
  PROVE  /\ Defined \in Seq(LABEL) /\ Len(Defined) = Len(labels)
         /\ \A i \in DOMAIN labels : /\ Defined[i].offset = labels[i].offset
                                     /\ Defined[i].references = labels[i].references
<1> USE DEF DecoderTypeOK
<1>1. CASE searchLabel(LineOffset) = 0
  BY <1>1 DEF Defined
<1>2. CASE searchLabel(LineOffset) # 0
  <2>1. PICK i \in DOMAIN labels : i = searchLabel(LineOffset)
    BY <1>2, SearchLabel DEF ArraysOK
  <2> DEFINE e == [labels[i] EXCEPT !.defined = TRUE]
  <2>2. Defined = [labels EXCEPT ![i] = e]
    BY <1>2, <2>1 DEF Defined
  <2>3. labels[i] \in LABEL
    OBVIOUS
  <2>4. /\ e \in LABEL /\ e.offset = labels[i].offset /\ e.references = labels[i].references
        /\ i \in 1 .. Len(labels)
    <3>1. e \in LABEL
      BY <2>3, LabelChanged
    <3>2. e.offset = labels[i].offset /\ e.references = labels[i].references
      BY <2>3, LabelChanged
    <3>3. i \in 1 .. Len(labels)
      OBVIOUS
    <3> QED BY <3>1, <3>2, <3>3
  <2> HIDE DEF e
  <2>5. [labels EXCEPT ![i] = e] \in Seq(LABEL) /\ Len([labels EXCEPT ![i] = e]) = Len(labels)
    BY <2>4, ExceptSeq
  <2>6. \A j \in DOMAIN labels : /\ [labels EXCEPT ![i] = e][j].offset = labels[j].offset
                                 /\ [labels EXCEPT ![i] = e][j].references = labels[j].references
    BY <2>4
  <2> QED BY <2>2, <2>5, <2>6
<1> QED BY <1>1, <1>2

\* The line that is written is that of the xcode that was read last.
LEMMA LineIs ==
  ASSUME TableTyped, NEW n \in Nat, At(interp, n + 1), xcode.at = Pos(n), xcode.xc = Code(n)
  PROVE  /\ LineOffset = Pos(n)
         /\ LineOf(n) = [offset |-> LineOffset, label |-> searchLabel(LineOffset),
                         operand |-> Operand, of |-> xcode.at, xc |-> xcode.xc]
<1>1. interp.offset = Pos(n) + XcodeSize
  BY PosFacts DEF At
<1>2. Pos(n) \in Nat /\ Pos(n) + XcodeSize <= size
  <2>1. n \in 0 .. (n + 1) - 1
    OBVIOUS
  <2> QED BY <2>1, PosFacts DEF At, Read, InTable
<1>3. Pos(n) \in 0 .. (Wrap - 1)
  BY <1>2, InterpAssumption DEF TableTyped
<1>4. LineOffset = Pos(n)
  <2>1. interp.offset - XcodeSize = Pos(n)
    BY <1>1, <1>3, InterpAssumption
  <2> QED BY <1>3, <2>1, OffsetKept DEF LineOffset
<1>5. Operand = IF IsJump(Code(n)) THEN searchLabel(Target(Pos(n), Code(n))) ELSE 0
  BY <1>1 DEF Operand, Target
<1> QED BY <1>4, <1>5 DEF LineOf

LEMMA WriteLineKeeps ==
  ASSUME DecoderInv, WriteLine
  PROVE  DecoderInv'
<1> USE DEF DecoderInv
<1>1. PICK l : l = [offset |-> LineOffset, label |-> searchLabel(LineOffset),
                    operand |-> Operand, of |-> xcode.at, xc |-> xcode.xc]
  OBVIOUS
<1>2. /\ pc = "write" /\ pc' = "decode" /\ labels' = Defined /\ lines' = Append(lines, l)
      /\ UNCHANGED <<size, xcodes, interp, branch, jmpCount, jmps, xcode, walk>>
  BY <1>1 DEF WriteLine
<1>3. ArraysStay
  BY <1>2, DefinedStays DEF ArraysStay, DecoderTypeOK
<1>4. l \in LINE
  <2>1. LineOffset \in 0 .. (Wrap - 1)
    <3>1. interp.offset - XcodeSize \in Int
      BY InterpAssumption DEF DecoderTypeOK, INTERP
    <3> QED BY <3>1, OffsetTyped DEF LineOffset
  <2>2. \A o : searchLabel(o) \in Nat
    BY SearchLabel DEF DecoderTypeOK, ArraysOK
  <2>3. Operand \in Nat
    BY <2>2 DEF Operand
  <2>4. xcode.at \in 0 .. (Wrap - 1) /\ xcode.xc \in XCODE
    BY DEF DecoderTypeOK
  <2> QED BY <1>1, <2>1, <2>2, <2>3, <2>4 DEF LINE
<1>5. lines' \in Seq(LINE)
  BY <1>2, <1>4 DEF DecoderTypeOK
<1>6. DecoderTypeOK'
  BY <1>2, <1>3, <1>5 DEF DecoderTypeOK, ArraysStay
<1>7. Writing'
  <2> SUFFICES ASSUME ~branch PROVE Writing'
    BY <1>2 DEF Writing
  <2>1. PICK n \in Nat : n = Len(lines)
    BY DEF DecoderTypeOK
  <2>2. /\ At(interp, n + 1) /\ xcode.at = Pos(n) /\ xcode.xc = Code(n)
        /\ \A i \in 1 .. n : lines[i] = LineOf(i - 1)
    <3>1. DOMAIN lines = 1 .. n
      BY <2>1 DEF DecoderTypeOK
    <3>2. At(interp, n + 1) /\ xcode.at = Pos(n) /\ xcode.xc = Code(n)
      BY <1>2, <2>1 DEF Writing
    <3>3. \A i \in DOMAIN lines : lines[i] = LineOf(i - 1)
      BY <1>2 DEF Writing
    <3> QED BY <3>1, <3>2, <3>3
  <2>3. l = LineOf(n)
    BY <1>1, <2>2, LineIs
  <2>4. /\ Len(lines') = n + 1 /\ DOMAIN lines' = 1 .. n + 1
        /\ \A i \in 1 .. n : lines'[i] = lines[i]
        /\ lines'[n + 1] = l
    BY <1>2, <1>4, <2>1 DEF DecoderTypeOK
  <2>5. n + 1 \in Nat /\ At(interp, n + 1)' /\ Read(n + 1)'
    BY <1>2, <2>1, <2>2, TableKept DEF At
  <2>6. \A i \in 1 .. n + 1 : lines'[i] = LineOf(i - 1)'
    <3> TAKE i \in 1 .. n + 1
    <3>1. PICK k \in Nat : k = i - 1
      OBVIOUS
    <3>2. LineOf(k)' = LineOf(k)
      BY <1>3, ArraysKept
    <3>3. CASE i = n + 1
      BY <2>3, <2>4, <3>1, <3>2, <3>3
    <3>4. CASE i \in 1 .. n
      BY <2>2, <2>4, <3>1, <3>2, <3>4
    <3> QED BY <3>3, <3>4
  <2> QED BY <1>2, <2>4, <2>5, <2>6 DEF Writing
<1> QED BY <1>2, <1>3, <1>6, <1>7, LaterKeeps

LEMMA UnknownOpcodeKeeps ==
  ASSUME DecoderInv, UnknownOpcode
  PROVE  DecoderInv'
<1> USE DEF DecoderInv
<1>1. /\ pc = "write" /\ pc' = "failed" /\ labels' = Defined
      /\ UNCHANGED <<size, xcodes, interp, branch, jmpCount, jmps, xcode, walk, lines>>
  BY DEF UnknownOpcode
<1>2. ArraysStay
  BY <1>1, DefinedStays DEF ArraysStay, DecoderTypeOK
<1>3. DecoderTypeOK'
  BY <1>1, <1>2 DEF DecoderTypeOK, ArraysStay
<1>4. Writing'
  BY <1>1, <1>2, WritingGoesOn
<1> QED BY <1>1, <1>2, <1>3, <1>4, LaterKeeps

LEMMA DecodeEndKeeps ==
  ASSUME DecoderInv, DecodeEnd
  PROVE  DecoderInv'
<1> USE DEF DecoderInv
<1>1. /\ pc = "decode" /\ ~HasNext(interp) /\ pc' = "done" /\ interp' = AfterLast(interp)
      /\ UNCHANGED <<size, xcodes, branch, loadVars, xcode, walk, lines>>
  BY DEF DecodeEnd
<1>2. ArraysStay
  BY <1>1, SameArrays
<1>3. interp' \in INTERP
  BY <1>1 DEF DecoderTypeOK, AfterLast, INTERP
<1>4. DecoderTypeOK'
  BY <1>1, <1>3 DEF DecoderTypeOK, loadVars
<1>5. Writing'
  <2>1. ASSUME NEW n \in Nat, n = Len(lines), ~branch
        PROVE  Ended(n)
    <3>1. At(interp, n)
      BY <1>1, <2>1 DEF Writing
    <3> QED BY <1>1, <3>1, ReadsOn
  <2> QED BY <1>1, <1>2, <2>1, WritingGoesOn
<1> QED BY <1>1, <1>2, <1>4, <1>5, LaterKeeps

LEMMA NothingKeeps ==
  ASSUME DecoderInv, UNCHANGED vars
  PROVE  DecoderInv'
<1> USE DEF DecoderInv
<1>1. /\ UNCHANGED <<size, xcodes, interp, branch, pc, loadVars, jmpCount, labels, jmps>>
      /\ UNCHANGED <<xcode, walk, lines>>
  BY DEF vars, loadVars
<1>2. ArraysStay
  BY <1>1, SameArrays
<1>3. DecoderTypeOK' /\ TableTyped'
  BY <1>1 DEF DecoderTypeOK, TableTyped
<1>4. \A k \in Nat : /\ At(interp, k)' <=> At(interp, k)
                     /\ JumpsBefore(k)' = JumpsBefore(k)
  BY <1>1, TableKept
<1>5. CASE pc = "count"
  <2>1. PICK k \in Nat : At(interp, k) /\ jmpCount = Cardinality(JumpsBefore(k))
    BY <1>5 DEF Counting
  <2>2. At(interp, k)' /\ jmpCount' = Cardinality(JumpsBefore(k)')
    BY <1>1, <1>4, <2>1
  <2>3. Counting'
    BY <1>1, <1>5, <2>2 DEF Counting
  <2> QED BY <1>1, <1>2, <1>3, <1>5, <2>3, ArraysKept DEF Loading, Loaded, Writing
<1>6. CASE pc = "label"
  <2>1. PICK k, e \in Nat : At(interp, k) /\ CountedUpTo(e) /\ Recorded(k)
    BY <1>6 DEF Loading
  <2>2. At(interp, k)' /\ CountedUpTo(e)' /\ Recorded(k)'
    BY <1>2, <1>4, <2>1, ArraysKept
  <2>3. Loading'
    BY <1>1, <1>6, <2>2 DEF Loading
  <2> QED BY <1>1, <1>2, <1>3, <1>6, <2>3, ArraysKept DEF Counting, Loaded, Writing
<1>7. CASE pc \notin {"count", "label"}
  <2>1. Writing'
    <3>1. CASE branch
      BY <1>1, <3>1 DEF Writing
    <3>2. CASE ~branch
      <4>1. /\ pc' \in {"decode", "write", "done", "failed"}
            /\ pc' = "decode" => At(interp', Len(lines))
            /\ pc' = "write" => /\ At(interp', Len(lines) + 1)
                               /\ xcode'.at = Pos(Len(lines)) /\ xcode'.xc = Code(Len(lines))
            /\ pc' = "done" => Ended(Len(lines))
        BY <1>1, <1>7, <3>2 DEF Writing
      <4> QED BY <1>1, <1>2, <1>7, <4>1, WritingGoesOn
    <3> QED BY <3>1, <3>2
  <2> QED BY <1>1, <1>2, <1>3, <1>7, <2>1, LaterKeeps
<1> QED BY <1>5, <1>6, <1>7

-----------------------------------------------------------------------------
(* The theorems                                                            *)

\* Each pass of the decoder reads the same xcodes, in order, and what the arrays and the
\* lines hold is what the table says of them.
THEOREM DecoderInvariant == DecoderSpec => []DecoderInv
<1>1. DecoderInv /\ [DecoderNext]_vars => DecoderInv'
  <2> SUFFICES ASSUME DecoderInv, [DecoderNext]_vars PROVE DecoderInv'
    OBVIOUS
  <2>1. CASE CountXcode
    BY <2>1, CountXcodeKeeps
  <2>2. CASE EndPass("count", "label")
    BY <2>2, EndCountKeeps
  <2>3. CASE LoadXcode
    BY <2>3, LoadXcodeKeeps
  <2>4. CASE EndPass("label", "decode")
    BY <2>4, EndLoadKeeps
  <2>5. CASE NextXcode
    BY <2>5, NextXcodeKeeps
  <2>6. CASE TakeJmp
    BY <2>6, TakeJmpKeeps
  <2>7. CASE PassJmp
    BY <2>7, PassJmpKeeps
  <2>8. CASE WalkBranch
    BY <2>8, WalkBranchKeeps
  <2>9. CASE WalkXcode
    BY <2>9, WalkXcodeKeeps
  <2>10. CASE WalkEnd
    BY <2>10, WalkEndKeeps
  <2>11. CASE WriteLine
    BY <2>11, WriteLineKeeps
  <2>12. CASE UnknownOpcode
    BY <2>12, UnknownOpcodeKeeps
  <2>13. CASE DecodeEnd
    BY <2>13, DecodeEndKeeps
  <2>14. CASE UNCHANGED vars
    BY <2>14, NothingKeeps
  <2> QED
    BY <2>1, <2>2, <2>3, <2>4, <2>5, <2>6, <2>7, <2>8, <2>9, <2>10, <2>11, <2>12, <2>13, <2>14
    DEF DecoderNext
<1> QED BY DecoderInitially, <1>1, PTL DEF DecoderSpec

\* The second pass of load never stores more labels or jumps than the first one made room
\* for, all of it is used, and each label has the references that the jumps make to it.
THEOREM DecoderArraysFit == DecoderSpec => []ArraysFit
<1>1. DecoderInv => ArraysFit
  <2> SUFFICES ASSUME DecoderInv PROVE ArraysFit
    OBVIOUS
  <2> USE DEF DecoderInv
  <2>1. LabelsMatchJumps
    <3>1. labels \in Seq(LABEL) /\ LabelsFit(xcodes, labels, jmps)
      BY DEF DecoderTypeOK, ArraysOK
    <3>2. \A j \in DOMAIN jmps : searchLabel(TargetIn(xcodes, jmps, j)) # 0
      <4> TAKE j \in DOMAIN jmps
      <4>1. PICK o : o = TargetIn(xcodes, jmps, j)
        OBVIOUS
      <4>2. \E i \in DOMAIN labels : labels[i].offset = o
        BY <3>1, <4>1 DEF LabelsFit
      <4>3. searchLabel(o) # 0
        BY <3>1, <4>2, SearchLabel
      <4> QED BY <4>1, <4>3
    <3> QED BY <3>1, <3>2 DEF LabelsMatchJumps, LabelsFit, JumpsIn, TargetIn
  <2>2. Len(labels) \in Nat /\ Len(jmps) \in Nat /\ Len(labels) <= Len(jmps) /\ jmpCount \in Nat
    BY DEF DecoderTypeOK, ArraysOK
  <2>3. CASE pc = "label"
    <3>1. PICK k, e \in Nat : At(interp, k) /\ CountedUpTo(e) /\ Recorded(k)
      BY <2>3 DEF Loading
    <3>2. k <= e
      BY <3>1, EndIsOne DEF At, CountedUpTo
    <3>3. Cardinality(JumpsBefore(k)) <= Cardinality(JumpsBefore(e))
      BY <3>2, JumpsBeforeGrow
    <3>4. Len(jmps) <= jmpCount
      BY <3>1, <3>3 DEF CountedUpTo, Recorded
    <3> QED BY <2>1, <2>2, <2>3, <3>4 DEF ArraysFit
  <2>4. CASE pc \notin {"count", "label"}
    <3>1. Len(jmps) = jmpCount
      BY <2>4 DEF Loaded, CountedUpTo, Recorded
    <3> QED BY <2>1, <2>2, <3>1 DEF ArraysFit
  <2>5. CASE pc = "count"
    BY <2>1, <2>5 DEF ArraysFit
  <2> QED BY <2>3, <2>4, <2>5
<1> QED BY <1>1, DecoderInvariant, PTL

\* Without -branch the listing is the table: a line for each xcode up to the first exit or
\* the end of the table, in order and at its own offset.
THEOREM DecoderWrittenInOrder == DecoderSpec => []WrittenInOrder
<1>1. DecoderInv => WrittenInOrder
  <2> SUFFICES ASSUME DecoderInv, ~branch PROVE WrittenInOrder
    BY DEF WrittenInOrder
  <2> USE DEF DecoderInv
  <2>1. CASE pc \in {"count", "label"}
    <3>1. lines = <<>>
      BY <2>1 DEF Counting, Loading
    <3> QED BY <2>1, <3>1 DEF WrittenInOrder, Done
  <2>2. CASE pc \notin {"count", "label"}
    <3>1. PICK n \in Nat : n = Len(lines) /\ DOMAIN lines = 1 .. n
      BY DEF DecoderTypeOK
    <3>2. Read(n) /\ \A i \in 1 .. n : lines[i] = LineOf(i - 1)
      BY <2>2, <3>1 DEF Writing
    <3>3. ASSUME NEW i \in 1 .. n
          PROVE  /\ lines[i].of = (i - 1) * XcodeSize /\ lines[i].offset = lines[i].of
                 /\ lines[i].xc.opcode = "exit" => i = n
      <4>1. lines[i].of = Pos(i - 1) /\ lines[i].offset = Pos(i - 1) /\ lines[i].xc = Code(i - 1)
        <5>1. lines[i] = LineOf(i - 1)
          BY <3>2
        <5> QED BY <5>1 DEF LineOf
      <4>2. Code(i - 1).opcode = "exit" => i = n
        <5> SUFFICES ASSUME Code(i - 1).opcode = "exit", i < n PROVE FALSE
          OBVIOUS
        <5>1. PICK k \in 0 .. n - 1 : k = i - 1
          OBVIOUS
        <5>2. k + 1 < n => ~Exits(k + 1)
          BY <3>2 DEF Read
        <5> QED BY <5>1, <5>2 DEF Exits
      <4> QED BY <4>1, <4>2 DEF Pos
    <3>4. ASSUME Done
          PROVE  \/ n > 0 /\ lines[n].xc.opcode = "exit"
                 \/ ~InTable(n * XcodeSize)
      <4>1. Ended(n)
        BY <2>2, <3>1, <3>4 DEF Writing, Done
      <4>2. CASE Exits(n)
        <5>1. n \in 1 .. n /\ Code(n - 1).opcode = "exit"
          BY <4>2 DEF Exits
        <5>2. lines[n] = LineOf(n - 1)
          BY <3>2, <5>1
        <5>3. lines[n].xc = Code(n - 1)
          BY <5>2 DEF LineOf
        <5> QED BY <5>1, <5>3
      <4>3. CASE ~InTable(Pos(n))
        BY <4>3 DEF Pos
      <4> QED BY <4>1, <4>2, <4>3 DEF Ended
    <3> QED BY <3>1, <3>3, <3>4 DEF WrittenInOrder
  <2> QED BY <2>1, <2>2
<1> QED BY <1>1, DecoderInvariant, PTL

\* Without -branch no jump of a whole listing names a label that is missing, and the label
\* is in front of the line of the jump's target, when that has a line, and of no other.
THEOREM DecoderJumpsNameLines == DecoderSpec => []JumpsNameLines
<1>1. DecoderInv => JumpsNameLines
  <2> SUFFICES ASSUME DecoderInv, Done, ~branch PROVE JumpsNameLines
    BY DEF JumpsNameLines
  <2> USE DEF DecoderInv
  <2>1. pc = "done"
    BY DEF Done
  <2>2. PICK n \in Nat : n = Len(lines) /\ DOMAIN lines = 1 .. n
    BY DEF DecoderTypeOK
  <2>3. Read(n) /\ Ended(n) /\ \A i \in 1 .. n : lines[i] = LineOf(i - 1)
    BY <2>1, <2>2 DEF Writing
  <2>4. Recorded(n)
    <3>1. PICK e \in Nat : CountedUpTo(e) /\ Recorded(e)
      BY <2>1 DEF Loaded
    <3>2. Read(e) /\ Ended(e)
      BY <3>1 DEF CountedUpTo, Ended
    <3>3. n <= e /\ e <= n
      BY <2>3, <3>2, EndIsOne
    <3> QED BY <3>1, <3>3
  <2>5. labels \in Seq(LABEL) /\ LabelsFit(xcodes, labels, jmps)
    BY DEF DecoderTypeOK, ArraysOK
  <2>6. ASSUME NEW i \in 1 .. n, IsJump(lines[i].xc)
        PROVE  /\ lines[i].operand # 0
               /\ \A j \in 1 .. n :
                    lines[j].label = lines[i].operand <=> lines[j].of = Target(lines[i].of, lines[i].xc)
    <3>1. PICK k \in 0 .. n - 1 : k = i - 1
      OBVIOUS
    <3>2. PICK t : t = Target(Pos(k), Code(k))
      OBVIOUS
    <3>3. lines[i] = LineOf(k)
      BY <2>3, <3>1
    <3>4. lines[i].of = Pos(k) /\ lines[i].xc = Code(k)
      BY <3>3 DEF LineOf
    <3>5. lines[i].operand = searchLabel(t)
      BY <2>6, <3>2, <3>3, <3>4 DEF LineOf
    <3>6. k \in JumpsBefore(n)
      BY <2>6, <3>4 DEF JumpsBefore
    <3>7. PICK j \in DOMAIN jmps : jmps[j].xcodeOffset = Pos(k)
      BY <2>4, <3>6 DEF Recorded
    <3>8. TargetIn(xcodes, jmps, j) = t
      BY <3>2, <3>7 DEF TargetIn, Code
    <3>9. \E l \in DOMAIN labels : labels[l].offset = t
      BY <2>5, <3>8 DEF LabelsFit
    <3>10. searchLabel(t) \in DOMAIN labels /\ labels[searchLabel(t)].offset = t /\ searchLabel(t) # 0
      BY <2>5, <3>9, SearchLabel
    <3>11. ASSUME NEW m \in 1 .. n
           PROVE  lines[m].label = searchLabel(t) <=> lines[m].of = t
      <4>1. PICK q \in Nat : q = m - 1
        OBVIOUS
      <4>2. lines[m].label = searchLabel(Pos(q)) /\ lines[m].of = Pos(q)
        <5>1. lines[m] = LineOf(q)
          BY <2>3, <4>1
        <5> QED BY <5>1 DEF LineOf
      <4>3. PICK o : o = Pos(q)
        OBVIOUS
      <4>4. searchLabel(o) = searchLabel(t) => o = t
        <5>1. searchLabel(o) # 0 => labels[searchLabel(o)].offset = o
          BY <2>5, SearchLabel
        <5> QED BY <3>10, <5>1
      <4> QED BY <4>2, <4>3, <4>4
    <3> QED BY <3>2, <3>4, <3>5, <3>10, <3>11
  <2> QED BY <2>2, <2>6 DEF JumpsNameLines
<1> QED BY <1>1, DecoderInvariant, PTL

-----------------------------------------------------------------------------
(* With -branch and jumps that go forward                                  *)

\* Every xcode that is read stands at a place of the table.  The places whose lines have
\* been written, and which place may run after which.
Listed == {k \in Nat : \E i \in DOMAIN lines : lines[i].of = Pos(k)}
Listing == \A i \in DOMAIN lines : \E k \in Nat :
             lines[i].of = Pos(k) /\ lines[i].xc = Code(k) /\ InTable(Pos(k))
Follows(k, m) ==
  \/ Code(k).opcode \notin {"exit", "jmp"} /\ m = k + 1
  \/ IsJump(Code(k)) /\ Pos(m) = Target(Pos(k), Code(k))

\* The jump at place p will not be taken: it has no record, or is branchable.
Stays(p) == \A j \in DOMAIN jmps : jmps[j].xcodeOffset = Pos(p) => jmps[j].branchable

\* From place a the decoder comes to place b, unless an exit ends the listing before.
Clear(a, b) ==
  \A p \in a .. b - 1 :
    Code(p).opcode = "jmp" /\ (\A q \in a .. p - 1 : Code(q).opcode # "exit") => Stays(p)

\* What may run after a place of P is in P, or the decoder that stands at n comes to it.
Awaits(i, n, m) == m >= n /\ (i.status # "exit_op_found" => Clear(n, m))
Closed(i, P, n) == \A k \in P, m \in Nat : Follows(k, m) => m \in P \/ Awaits(i, n, m)

StandsAt(i, n) == i.offset = Pos(n) /\ Pos(n) <= size
After(o) == [offset |-> Pos(o + 1), status |-> "ok"]

\* What a walk has seen: the jumps from o on, up to where it reads next or to an exit.
Walked(o, w) ==
  /\ interp.offset = Pos(w)
  /\ interp.status = "exit_op_found" => w > o + 1 /\ Code(w - 1).opcode = "exit"
  /\ \A p \in o + 1 .. w - 1 : Code(p).opcode = "jmp" => Stays(p)

\* The third pass between two xcodes, and with the xcode of place o in hand.
Between(n) == StandsAt(interp, n) /\ Listed \subseteq 0 .. n - 1 /\ Closed(interp, Listed, n)
Holds(o) ==
  /\ xcode.at = Pos(o) /\ xcode.xc = Code(o) /\ InTable(Pos(o))
  /\ Listed \subseteq 0 .. o - 1
Branches(o) == Holds(o) /\ IsJump(Code(o)) /\ interp = After(o) /\ Closed(After(o), Listed, o)
Walking(o, w, t) ==
  /\ Holds(o) /\ IsJump(Code(o)) /\ walk.saved = After(o) /\ Closed(After(o), Listed, o)
  /\ Code(o).opcode = "jmp" => Stays(o)
  /\ walk.end = Pos(t) /\ Pos(t) = Target(Pos(o), Code(o)) /\ Pos(t) < size
  /\ w \in o + 1 .. t /\ Walked(o, w)
Writes(o, n) ==
  /\ Holds(o) /\ n > o
  /\ StandsAt(interp, n) /\ Closed(interp, Listed \cup {o}, n)

Branching ==
  branch /\ Forward =>
    /\ Listing
    /\ pc \in {"decode", "done"} => \E n \in Nat : Between(n)
    /\ pc = "branch" => \E o \in Nat : Branches(o)
    /\ pc = "walk" => \E o, w, t \in Nat : Walking(o, w, t)
    /\ pc = "write" => \E o, n \in Nat : Writes(o, n)

\* A jump that goes forward leads to a place of the table.
LEMMA ForwardTarget ==
  ASSUME TableTyped, Forward, NEW k \in Nat, InTable(Pos(k)), IsJump(Code(k))
  PROVE  /\ Code(k) \in XCODE
         /\ \E t \in Nat : /\ t >= k + 1 /\ Pos(t) = Target(Pos(k), Code(k)) /\ Pos(t) < size
                           /\ (Pos(k + 1) + Code(k).data) % Wrap = Pos(t)
<1> USE InterpAssumption
<1>1. Pos(k) \in DOMAIN xcodes /\ Pos(k) \in Nat /\ Code(k) \in XCODE
  <2>1. Pos(k) \in Nat
    BY PosFacts
  <2>2. Pos(k) \in 0 .. (size - XcodeSize)
    BY <2>1 DEF TableTyped, InTable
  <2> QED BY <2>1, <2>2 DEF TableTyped, Code
<1>2. PICK d \in Nat : d = Code(k).data
  BY <1>1 DEF XCODE
<1>3. d + Pos(k) + XcodeSize < size /\ d % XcodeSize = 0
  BY <1>1, <1>2 DEF Forward, Code
<1>4. PICK q \in Nat : d = q * XcodeSize
  <2>1. d = XcodeSize * (d \div XcodeSize) + (d % XcodeSize) /\ d \div XcodeSize \in Nat
    OBVIOUS
  <2> QED BY <1>3, <2>1
<1>5. Pos(k + 1 + q) = Pos(k) + XcodeSize + d
  <2>1. (k + 1 + q) * XcodeSize = k * XcodeSize + XcodeSize + q * XcodeSize
    OBVIOUS
  <2> QED BY <1>4, <2>1 DEF Pos
<1>6. Pos(k) + XcodeSize + d \in 0 .. (Wrap - 1) /\ Pos(k) + XcodeSize + d < size
  BY <1>1, <1>3 DEF TableTyped
<1>7. (Pos(k) + XcodeSize + d) % Wrap = Pos(k) + XcodeSize + d
  BY <1>6, OffsetKept
<1>8. Target(Pos(k), Code(k)) = Pos(k + 1 + q)
  BY <1>2, <1>5, <1>7 DEF Target
<1>9. (Pos(k + 1) + Code(k).data) % Wrap = Pos(k + 1 + q)
  BY <1>2, <1>5, <1>7, PosFacts
<1>10. k + 1 + q \in Nat /\ k + 1 + q >= k + 1
  OBVIOUS
<1> QED BY <1>1, <1>5, <1>6, <1>8, <1>9, <1>10

\* The interpreter at a place reads what is there, or the table has ended.
LEMMA ReadsPlace ==
  ASSUME TableTyped, NEW i, NEW n \in Nat, StandsAt(i, n)
  PROVE  /\ HasNext(i) =>
              /\ i.status # "exit_op_found" /\ InTable(Pos(n)) /\ Code(n) \in XCODE
              /\ XcodesAt(i.offset) = {Code(n)} /\ StandsAt(AfterNext(i, Code(n)), n + 1)
              /\ AfterNext(i, Code(n)) =
                   [offset |-> Pos(n + 1),
                    status |-> IF Code(n).opcode = "exit" THEN "exit_op_found" ELSE "ok"]
         /\ ~HasNext(i) => i.status = "exit_op_found" \/ ~InTable(Pos(n))
<1> USE InterpAssumption DEF TableTyped, StandsAt
<1>1. Pos(n) \in Nat /\ Pos(n + 1) = Pos(n) + XcodeSize /\ Pos(n) + XcodeSize \in 0 .. (Wrap - 1)
  <2>1. Pos(n) \in Nat /\ Pos(n + 1) = Pos(n) + XcodeSize
    BY PosFacts
  <2> QED BY <2>1
<1>2. (Pos(n) + XcodeSize) % Wrap = Pos(n) + XcodeSize
  BY <1>1, OffsetKept
<1>3. HasNext(i) <=> i.status # "exit_op_found" /\ InTable(Pos(n))
  BY <1>2 DEF HasNext, InTable
<1>4. ASSUME InTable(Pos(n))
      PROVE  Code(n) \in XCODE /\ XcodesAt(i.offset) = {Code(n)} /\ Pos(n + 1) <= size
  BY <1>1, <1>4 DEF InTable, XcodesAt, Code
<1>5. AfterNext(i, Code(n)) =
        [offset |-> Pos(n + 1), status |-> IF Code(n).opcode = "exit" THEN "exit_op_found" ELSE "ok"]
  BY <1>1, <1>2 DEF AfterNext
<1> QED BY <1>3, <1>4, <1>5

\* The xcode in hand joins the places that are closed, when the decoder comes from the next
\* place to all that may run after it.
LEMMA ClosedOn ==
  ASSUME NEW o \in Nat, NEW P \in SUBSET (0 .. o - 1), NEW i, NEW i2, Closed(i, P, o),
         i.status # "exit_op_found",
         i2.status # "exit_op_found" => Code(o).opcode # "exit",
         \A m \in Nat : Follows(o, m) => Awaits(i2, o + 1, m)
  PROVE  Closed(i2, P \cup {o}, o + 1)
<1> SUFFICES ASSUME NEW k \in P \cup {o}, NEW m \in Nat, Follows(k, m), m \notin P \cup {o}
             PROVE  Awaits(i2, o + 1, m)
  BY DEF Closed
<1>1. CASE k = o
  BY <1>1
<1>2. CASE k \in P
  <2>1. m >= o /\ Clear(o, m) /\ m # o
    BY <1>2 DEF Closed, Awaits
  <2>2. ASSUME Code(o).opcode # "exit" PROVE Clear(o + 1, m)
    <3> SUFFICES ASSUME NEW p \in o + 1 .. m - 1, Code(p).opcode = "jmp",
                        \A q \in o + 1 .. p - 1 : Code(q).opcode # "exit"
                 PROVE  Stays(p)
      BY DEF Clear
    <3>1. p \in o .. m - 1 /\ \A q \in o .. p - 1 : q = o \/ q \in o + 1 .. p - 1
      OBVIOUS
    <3> QED BY <2>1, <2>2, <3>1 DEF Clear
  <2> QED BY <2>1, <2>2 DEF Awaits
<1> QED BY <1>1, <1>2

\* After a jump comes the next place, or its target.
LEMMA AfterJump ==
  ASSUME TableTyped, Forward, NEW o \in Nat, InTable(Pos(o)), IsJump(Code(o)),
         NEW t \in Nat, Pos(t) = Target(Pos(o), Code(o)), t >= o + 1, Clear(o + 1, t), NEW i
  PROVE  \A m \in Nat : Follows(o, m) => Awaits(i, o + 1, m)
<1> SUFFICES ASSUME NEW m \in Nat, Follows(o, m) PROVE Awaits(i, o + 1, m)
  OBVIOUS
<1>1. m = o + 1 \/ m = t
  BY PosApart DEF Follows
<1>2. Clear(o + 1, o + 1)
  BY DEF Clear
<1> QED BY <1>1, <1>2 DEF Awaits

\* What a step that only marks jumps leaves as it was.
JmpsMarked ==
  /\ UNCHANGED <<size, xcodes>> /\ DOMAIN jmps' = DOMAIN jmps
  /\ \A j \in DOMAIN jmps : /\ jmps'[j].xcodeOffset = jmps[j].xcodeOffset
                            /\ jmps[j].branchable => jmps'[j].branchable

LEMMA PlacesKept ==
  ASSUME JmpsMarked
  PROVE  /\ Forward' <=> Forward
         /\ \A p : Stays(p) => Stays(p)'
         /\ \A i, P, n : Closed(i, P, n) => Closed(i, P, n)'
<1> USE DEF JmpsMarked
<1>1. Forward' <=> Forward
  BY DEF Forward
<1>2. \A p : Stays(p) => Stays(p)'
  BY DEF Stays, Pos
<1>3. \A k : Code(k)' = Code(k)
  BY DEF Code
<1>4. \A k, m : Follows(k, m)' <=> Follows(k, m)
  BY <1>3 DEF Follows
<1>5. \A a, b : Clear(a, b) => Clear(a, b)'
  BY <1>2, <1>3 DEF Clear
<1>6. \A i, n, m : Awaits(i, n, m) => Awaits(i, n, m)'
  BY <1>5 DEF Awaits
<1>7. \A i, P, n : Closed(i, P, n) => Closed(i, P, n)'
  BY <1>4, <1>6 DEF Closed
<1> QED BY <1>1, <1>2, <1>7

LEMMA LinesKept ==
  ASSUME UNCHANGED <<size, xcodes, lines>>
  PROVE  Listed' = Listed /\ (Listing' <=> Listing)
<1>1. \A k : Code(k)' = Code(k) /\ Pos(k)' = Pos(k) /\ (InTable(Pos(k))' <=> InTable(Pos(k)))
  BY DEF Code, Pos, InTable
<1> QED BY <1>1 DEF Listed, Listing

LEMMA SameJumps ==
  ASSUME UNCHANGED <<size, xcodes, jmps>>
  PROVE  JmpsMarked
BY DEF JmpsMarked

\* The same places, known to a step as values.
LEMMA ClosedAfter ==
  ASSUME JmpsMarked, NEW i, NEW P, NEW n, Closed(i, P, n), i = interp', P = Listed'
  PROVE  Closed(interp, Listed, n)'
<1>1. Closed(i, P, n)'
  BY PlacesKept
<1> QED BY <1>1

\* Nothing has been written before the third pass, which starts at the first place.
LEMMA LoadBranches ==
  ASSUME DecoderInv,
         CountXcode \/ EndPass("count", "label") \/ LoadXcode \/ EndPass("label", "decode")
  PROVE  Branching'
<1>1. /\ pc \in {"count", "label"} /\ UNCHANGED <<size, xcodes, lines>>
      /\ pc' \in {"count", "label"} \/ (pc' = "decode" /\ interp' = reset)
  BY DEF CountXcode, EndPass, LoadXcode
<1>2. lines' = <<>>
  BY <1>1 DEF DecoderInv, Counting, Loading
<1>3. Listing'
  BY <1>2 DEF Listing
<1>4. CASE pc' \in {"count", "label"}
  BY <1>3, <1>4 DEF Branching
<1>5. CASE pc' = "decode" /\ interp' = reset
  <2>1. Listed' = {}
    BY <1>2 DEF Listed
  <2>2. Pos(0) = 0 /\ size' \in Nat
    BY <1>1, PosFacts, InterpAssumption DEF DecoderInv, TableTyped
  <2>3. StandsAt(interp, 0)'
    BY <1>5, <2>2 DEF StandsAt, reset, Pos
  <2>4. Closed(interp, Listed, 0)'
    BY <2>1 DEF Closed
  <2>5. Between(0)'
    BY <2>1, <2>3, <2>4 DEF Between
  <2> QED BY <1>3, <1>5, <2>5 DEF Branching
<1> QED BY <1>1, <1>4, <1>5

LEMMA NextXcodeBranches ==
  ASSUME DecoderInv, Branching, NextXcode
  PROVE  Branching'
<1>1. /\ pc = "decode" /\ HasNext(interp) /\ pc' \in {"branch", "write"}
      /\ UNCHANGED <<size, xcodes, branch, jmps, lines>>
  BY DEF NextXcode, loadVars
<1>2. JmpsMarked /\ Listed' = Listed /\ (Listing' <=> Listing) /\ TableTyped
  BY <1>1, SameJumps, LinesKept DEF DecoderInv
<1>3. Forward' <=> Forward
  BY <1>2, PlacesKept
<1> SUFFICES ASSUME branch, Forward PROVE Branching'
  BY <1>1, <1>3 DEF Branching
<1>4. PICK o \in Nat : Between(o)
  BY <1>1 DEF Branching
<1>5. PICK P : P = Listed
  OBVIOUS
<1>6. PICK i, i2 : i = interp /\ i2 = interp'
  OBVIOUS
<1>7. StandsAt(i, o) /\ P \subseteq 0 .. o - 1 /\ Closed(i, P, o)
  BY <1>4, <1>5, <1>6 DEF Between
<1>8. /\ i.status # "exit_op_found" /\ InTable(Pos(o))
      /\ XcodesAt(interp.offset) = {Code(o)} /\ StandsAt(AfterNext(i, Code(o)), o + 1)
      /\ AfterNext(i, Code(o)) =
           [offset |-> Pos(o + 1),
            status |-> IF Code(o).opcode = "exit" THEN "exit_op_found" ELSE "ok"]
  BY <1>1, <1>2, <1>6, <1>7, ReadsPlace
<1>9. /\ i2 = AfterNext(i, Code(o)) /\ xcode' = [at |-> Pos(o), xc |-> Code(o)]
      /\ pc' = IF IsJump(Code(o)) THEN "branch" ELSE "write"
  <2>1. interp.offset = Pos(o)
    BY <1>6, <1>7 DEF StandsAt
  <2> QED BY <1>6, <1>8, <2>1 DEF NextXcode
<1>10. Holds(o)'
  <2>1. Code(o)' = Code(o) /\ InTable(Pos(o))' /\ Pos(o)' = Pos(o)
    BY <1>1, <1>8 DEF Code, InTable, Pos
  <2> QED BY <1>2, <1>5, <1>7, <1>9, <2>1 DEF Holds
<1>11. CASE IsJump(Code(o))
  <2>1. i2 = After(o)
    BY <1>8, <1>9, <1>11 DEF After, IsJump
  <2>2. Closed(After(o), P, o)
    BY <1>7, <1>8 DEF Closed, Awaits
  <2>3. Closed(After(o), Listed, o)'
    <3>1. PICK a : a = After(o) /\ a = After(o)'
      BY DEF After, Pos
    <3>2. Closed(a, P, o)'
      BY <1>2, <2>2, <3>1, PlacesKept
    <3> QED BY <1>2, <1>5, <3>1, <3>2
  <2>4. IsJump(Code(o))' /\ interp' = After(o)'
    BY <1>1, <1>6, <1>11, <2>1 DEF IsJump, Code, After, Pos
  <2>5. Branches(o)'
    BY <1>10, <2>3, <2>4 DEF Branches
  <2> QED BY <1>2, <1>9, <1>11, <2>5 DEF Branching
<1>12. CASE ~IsJump(Code(o))
  <2>1. \A m \in Nat : Follows(o, m) => Awaits(i2, o + 1, m)
    <3> SUFFICES ASSUME NEW m \in Nat, Follows(o, m) PROVE Awaits(i2, o + 1, m)
      OBVIOUS
    <3>1. m = o + 1
      BY <1>12 DEF Follows
    <3>2. Clear(o + 1, o + 1)
      BY DEF Clear
    <3> QED BY <3>1, <3>2 DEF Awaits
  <2>2. i2.status # "exit_op_found" => Code(o).opcode # "exit"
    BY <1>8, <1>9
  <2>3. Closed(i2, P \cup {o}, o + 1)
    BY <1>7, <1>8, <2>1, <2>2, ClosedOn
  <2>4. Closed(interp, Listed \cup {o}, o + 1)'
    <3>1. PICK Q : Q = P \cup {o}
      OBVIOUS
    <3>2. Closed(i2, Q, o + 1)'
      BY <1>2, <2>3, <3>1, PlacesKept
    <3>3. Q = (Listed \cup {o})'
      BY <1>2, <1>5, <3>1
    <3> QED BY <1>6, <3>2, <3>3
  <2>5. StandsAt(interp, o + 1)'
    BY <1>1, <1>6, <1>8, <1>9 DEF StandsAt, Pos
  <2>6. Writes(o, o + 1)' /\ o + 1 \in Nat
    BY <1>10, <2>4, <2>5 DEF Writes
  <2> QED BY <1>2, <1>9, <1>12, <2>6 DEF Branching
<1> QED BY <1>11, <1>12

\* The record that decode and walkBranch find is the only one of its jump.
LEMMA StaysBySearch ==
  ASSUME DecoderInv, NEW p
  PROVE  Stays(p) <=> searchJmp(Pos(p)) = 0 \/ jmps[searchJmp(Pos(p))].branchable
<1>1. PICK o : o = Pos(p)
  OBVIOUS
<1>2. /\ searchJmp(o) = 0 <=> \A i \in DOMAIN jmps : jmps[i].xcodeOffset # o
      /\ searchJmp(o) # 0 => searchJmp(o) \in DOMAIN jmps /\ jmps[searchJmp(o)].xcodeOffset = o
  BY SearchJmp DEF DecoderInv, DecoderTypeOK, ArraysOK
<1>3. \A i, j \in DOMAIN jmps : jmps[i].xcodeOffset = jmps[j].xcodeOffset => i = j
  BY DEF DecoderInv, ArraysOK, JumpsApart
<1> QED BY <1>1, <1>2, <1>3 DEF Stays

LEMMA JmpInHand ==
  ASSUME DecoderInv, NEW o \in Nat, InTable(Pos(o)), interp = After(o)
  PROVE  Jmp = searchJmp(Pos(o))
<1>1. Pos(o) \in 0 .. (Wrap - 1) /\ interp.offset - XcodeSize = Pos(o)
  <2>1. Pos(o) \in Nat /\ Pos(o + 1) = Pos(o) + XcodeSize
    BY PosFacts
  <2> QED BY <2>1, InterpAssumption DEF DecoderInv, TableTyped, InTable, After
<1>2. (interp.offset - XcodeSize) % Wrap = Pos(o)
  BY <1>1, OffsetKept
<1> QED BY <1>2 DEF Jmp

\* Behind a jump that load did not come across it came across none.
LEMMA NoneBehind ==
  ASSUME DecoderInv, pc \notin {"count", "label"},
         NEW o \in Nat, IsJump(Code(o)), searchJmp(Pos(o)) = 0, NEW p \in Nat, p > o
  PROVE  Stays(p)
<1>1. PICK e \in Nat : Recorded(e)
  BY DEF DecoderInv, Loaded
<1>2. PICK a : a = Pos(o)
  OBVIOUS
<1>3. \A j \in DOMAIN jmps : jmps[j].xcodeOffset # a
  BY <1>2, SearchJmp DEF DecoderInv, DecoderTypeOK, ArraysOK
<1>4. e <= o
  <2>1. o \notin JumpsBefore(e)
    BY <1>1, <1>2, <1>3 DEF Recorded
  <2> QED BY <2>1 DEF JumpsBefore
<1>5. \A j \in DOMAIN jmps : jmps[j].xcodeOffset # Pos(p)
  <2> SUFFICES ASSUME NEW j \in DOMAIN jmps, jmps[j].xcodeOffset = Pos(p) PROVE FALSE
    OBVIOUS
  <2>1. PICK k \in JumpsBefore(e) : Pos(p) = Pos(k)
    BY <1>1 DEF Recorded
  <2>2. k \in Nat /\ k < e
    BY DEF JumpsBefore
  <2> QED BY <1>4, <2>1, <2>2, PosApart
<1> QED BY <1>5 DEF Stays

\* What the steps of a branch have in common.
LEMMA BranchStep ==
  ASSUME DecoderInv, UNCHANGED <<size, xcodes, lines>>, JmpsMarked
  PROVE  /\ TableTyped /\ Listed' = Listed /\ (Listing' <=> Listing) /\ (Forward' <=> Forward)
         /\ \A k : Code(k)' = Code(k) /\ Pos(k)' = Pos(k) /\ (InTable(Pos(k))' <=> InTable(Pos(k)))
         /\ \A k : After(k)' = After(k) /\ Target(Pos(k), Code(k))' = Target(Pos(k), Code(k))
<1>1. Listed' = Listed /\ (Listing' <=> Listing)
  BY LinesKept
<1>2. Forward' <=> Forward
  BY PlacesKept
<1>3. \A k : Code(k)' = Code(k) /\ Pos(k)' = Pos(k) /\ (InTable(Pos(k))' <=> InTable(Pos(k)))
  BY DEF Code, Pos, InTable
<1>4. \A k : After(k)' = After(k) /\ Target(Pos(k), Code(k))' = Target(Pos(k), Code(k))
  BY <1>3 DEF After, Target
<1> QED BY <1>1, <1>2, <1>3, <1>4 DEF DecoderInv

LEMMA HoldsOn ==
  ASSUME DecoderInv, UNCHANGED <<size, xcodes, lines, xcode>>, JmpsMarked,
         NEW o, Holds(o)
  PROVE  Holds(o)'
BY BranchStep DEF Holds

\* The xcode in hand is a jump and the decoder goes on behind it.
LEMMA WritesNext ==
  ASSUME DecoderInv, UNCHANGED <<size, xcodes, lines, xcode, jmps>>, pc' = "write",
         Forward, Listing, NEW o \in Nat, Holds(o), IsJump(Code(o)), Closed(After(o), Listed, o),
         interp' = After(o),
         \A t \in Nat : t >= o + 1 /\ Pos(t) = Target(Pos(o), Code(o)) /\ Pos(t) < size => Clear(o + 1, t)
  PROVE  Branching'
<1>1. JmpsMarked
  BY SameJumps
<1>2. TableTyped /\ Listed' = Listed /\ (Listing' <=> Listing)
  BY <1>1, BranchStep
<1>3. Holds(o)'
  BY <1>1, HoldsOn
<1>4. PICK P : P = Listed /\ P \subseteq 0 .. o - 1
  BY DEF Holds
<1>5. PICK i : i = After(o) /\ i.status = "ok"
  BY DEF After
<1>6. PICK t \in Nat : t >= o + 1 /\ Pos(t) = Target(Pos(o), Code(o)) /\ Pos(t) < size
  BY <1>2, ForwardTarget DEF Holds
<1>7. \A m \in Nat : Follows(o, m) => Awaits(i, o + 1, m)
  <2>1. Clear(o + 1, t) /\ InTable(Pos(o))
    BY <1>6 DEF Holds
  <2> QED BY <1>2, <1>6, <2>1, AfterJump
<1>8. Closed(i, P \cup {o}, o + 1)
  <2>1. Closed(i, P, o) /\ Code(o).opcode # "exit"
    BY <1>4, <1>5 DEF IsJump
  <2> QED BY <1>4, <1>5, <1>7, <2>1, ClosedOn
<1>9. Closed(interp, Listed \cup {o}, o + 1)'
  <2>1. PICK Q : Q = P \cup {o}
    OBVIOUS
  <2>2. Closed(i, Q, o + 1)'
    BY <1>1, <1>8, <2>1, PlacesKept
  <2>3. Q = (Listed \cup {o})' /\ i = interp'
    BY <1>2, <1>4, <1>5, <2>1
  <2> QED BY <2>2, <2>3
<1>10. StandsAt(interp, o + 1)'
  <2>1. Pos(o + 1) <= size
    BY PosFacts DEF Holds, InTable
  <2> QED BY <2>1 DEF StandsAt, After, Pos
<1>11. Writes(o, o + 1)' /\ o + 1 \in Nat
  BY <1>3, <1>9, <1>10 DEF Writes
<1> QED BY <1>2, <1>11 DEF Branching

\* A jump that is taken has nothing awaited behind it but its target.
LEMMA TakeJmpBranches ==
  ASSUME DecoderInv, Branching, TakeJmp
  PROVE  Branching'
<1>1. /\ pc = "branch" /\ pc' = "write" /\ Takes /\ interp' = Moved(interp, xcode.xc.data)
      /\ UNCHANGED <<size, xcodes, branch, jmps, xcode, lines>>
  BY DEF TakeJmp, loadVars
<1>2. JmpsMarked
  BY <1>1, SameJumps
<1>3. TableTyped /\ Listed' = Listed /\ (Listing' <=> Listing) /\ (Forward' <=> Forward)
  BY <1>1, <1>2, BranchStep
<1> SUFFICES ASSUME branch, Forward PROVE Branching'
  BY <1>1, <1>3 DEF Branching
<1>4. PICK o \in Nat : Branches(o)
  BY <1>1 DEF Branching
<1>5. PICK P : P = Listed /\ P \subseteq 0 .. o - 1
  BY <1>4 DEF Branches, Holds
<1>6. PICK i : i = After(o) /\ i.status = "ok" /\ Closed(i, P, o) /\ interp = i
  BY <1>4, <1>5 DEF Branches, After
<1>7. InTable(Pos(o)) /\ Code(o).opcode = "jmp" /\ xcode.xc = Code(o) /\ IsJump(Code(o))
  BY <1>1, <1>4 DEF Branches, Holds, Takes
<1>8. PICK t \in Nat : /\ t >= o + 1 /\ Pos(t) = Target(Pos(o), Code(o)) /\ Pos(t) < size
                       /\ (Pos(o + 1) + Code(o).data) % Wrap = Pos(t)
  BY <1>3, <1>7, ForwardTarget
<1>9. ~Stays(o)
  <2>1. Jmp = searchJmp(Pos(o))
    BY <1>6, <1>7, JmpInHand
  <2> QED BY <1>1, <2>1, StaysBySearch DEF Takes
<1>10. PICK i2 : i2 = interp' /\ i2 = [offset |-> Pos(t), status |-> "ok"]
  BY <1>1, <1>6, <1>7, <1>8 DEF Moved, After
<1>11. Closed(i2, P \cup {o}, t)
  <2> SUFFICES ASSUME NEW k \in P \cup {o}, NEW m \in Nat, Follows(k, m), m \notin P \cup {o}
               PROVE  Awaits(i2, t, m)
    BY DEF Closed
  <2>1. CASE k = o
    <3>1. m = t
      BY <1>7, <1>8, <2>1, PosApart DEF Follows
    <3>2. Clear(t, t)
      BY DEF Clear
    <3> QED BY <3>1, <3>2 DEF Awaits
  <2>2. CASE k \in P
    <3>1. m >= o /\ m # o /\ Clear(o, m)
      BY <1>6, <2>2 DEF Closed, Awaits
    <3>2. o \in o .. m - 1 /\ \A q \in o .. o - 1 : FALSE
      BY <3>1
    <3>3. Stays(o)
      BY <1>7, <3>1, <3>2 DEF Clear
    <3> QED BY <1>9, <3>3
  <2> QED BY <2>1, <2>2
<1>12. Closed(interp, Listed \cup {o}, t)'
  <2>1. PICK Q : Q = P \cup {o}
    OBVIOUS
  <2>2. Closed(i2, Q, t)'
    BY <1>2, <1>11, <2>1, PlacesKept
  <2>3. Q = (Listed \cup {o})'
    BY <1>3, <1>5, <2>1
  <2> QED BY <1>10, <2>2, <2>3
<1>13. StandsAt(interp, t)'
  <2>1. Pos(t) <= size
    <3>1. Pos(t) \in Nat
      BY PosFacts
    <3>2. size \in Nat
      BY <1>3 DEF TableTyped
    <3> QED BY <1>8, <3>1, <3>2
  <2> QED BY <1>1, <1>10, <2>1 DEF StandsAt, Pos
<1>14. Holds(o)' /\ t > o
  BY <1>1, <1>2, <1>4, <1>8, HoldsOn DEF Branches
<1>15. Writes(o, t)'
  BY <1>12, <1>13, <1>14 DEF Writes
<1> QED BY <1>1, <1>3, <1>15 DEF Branching

\* A jump that is passed lies behind what load read: no jump behind it will be taken.
LEMMA PassJmpBranches ==
  ASSUME DecoderInv, Branching, PassJmp
  PROVE  Branching'
<1>1. /\ pc = "branch" /\ pc' = "write" /\ ~Takes /\ ~Walks
      /\ UNCHANGED <<size, xcodes, interp, branch, jmps, xcode, lines>>
  BY DEF PassJmp, loadVars
<1>2. Forward' <=> Forward
  BY <1>1, SameJumps, PlacesKept
<1> SUFFICES ASSUME branch, Forward PROVE Branching'
  BY <1>1, <1>2 DEF Branching
<1>3. PICK o \in Nat : Branches(o)
  BY <1>1 DEF Branching
<1>4. /\ Holds(o) /\ IsJump(Code(o)) /\ Closed(After(o), Listed, o) /\ interp' = After(o)
      /\ interp = After(o) /\ InTable(Pos(o)) /\ xcode.xc = Code(o)
  BY <1>1, <1>3 DEF Branches, Holds
<1>5. searchJmp(Pos(o)) = 0
  <2>1. Jmp = searchJmp(Pos(o))
    BY <1>4, JmpInHand
  <2> QED BY <1>1, <1>4, <2>1 DEF Takes, Walks, IsJump
<1>6. \A p \in Nat : p > o => Stays(p)
  BY <1>1, <1>4, <1>5, NoneBehind
<1>7. \A t \in Nat : t >= o + 1 => Clear(o + 1, t)
  BY <1>6 DEF Clear
<1>8. Listing
  BY <1>1 DEF Branching
<1> QED BY <1>1, <1>4, <1>7, <1>8, WritesNext

\* The walk starts behind the jump, and ends at its target.
LEMMA WalkBranchBranches ==
  ASSUME DecoderInv, Branching, WalkBranch
  PROVE  Branching'
<1>1. /\ pc = "branch" /\ pc' = "walk" /\ Walks
      /\ UNCHANGED <<size, xcodes, branch, jmps, xcode, lines>>
  BY DEF WalkBranch, loadVars
<1>2. JmpsMarked
  BY <1>1, SameJumps
<1>3. /\ TableTyped /\ Listed' = Listed /\ (Listing' <=> Listing) /\ (Forward' <=> Forward)
      /\ \A k : After(k)' = After(k) /\ Target(Pos(k), Code(k))' = Target(Pos(k), Code(k))
      /\ \A k : Code(k)' = Code(k) /\ Pos(k)' = Pos(k)
  BY <1>1, <1>2, BranchStep
<1> SUFFICES ASSUME branch, Forward PROVE Branching'
  BY <1>1, <1>3 DEF Branching
<1>4. PICK o \in Nat : Branches(o)
  BY <1>1 DEF Branching
<1>5. /\ InTable(Pos(o)) /\ xcode.xc = Code(o) /\ IsJump(Code(o))
      /\ Closed(After(o), Listed, o) /\ interp = After(o) /\ interp.offset = Pos(o + 1)
  BY <1>4 DEF Branches, Holds, After
<1>6. PICK t \in Nat : /\ t >= o + 1 /\ Pos(t) = Target(Pos(o), Code(o)) /\ Pos(t) < size
                       /\ (Pos(o + 1) + Code(o).data) % Wrap = Pos(t)
  BY <1>3, <1>5, ForwardTarget
<1>7. Pos(t) > Pos(o + 1) \/ Pos(t) = Pos(o + 1)
  <2>1. CASE t > o + 1
    <3>1. Pos(o + 1) + XcodeSize <= Pos(t) /\ Pos(o + 1) \in Nat /\ Pos(t) \in Nat
      BY <2>1, PosMonotone, PosFacts
    <3> QED BY <3>1, InterpAssumption
  <2> QED BY <1>6, <2>1
<1>8. walk' = [saved |-> After(o), end |-> Pos(t)] /\ interp' = After(o)
  <2>1. PICK a : a = Pos(o + 1) /\ a \in Nat
    BY PosFacts
  <2>2. PICK b : b = Pos(t) /\ b \in Nat
    BY PosFacts
  <2>3. (interp.offset + xcode.xc.data) % Wrap = b /\ interp.offset = a
    BY <1>5, <1>6, <2>1, <2>2
  <2>4. b > a \/ (b = a /\ ~(b > a))
    BY <1>7, <2>1, <2>2
  <2>5. [interp EXCEPT !.offset = a] = interp
    BY <1>5, <2>1 DEF After
  <2>6. /\ walk' = [saved |-> interp, end |-> IF b > a THEN b ELSE a]
        /\ interp' = IF b > a THEN interp ELSE [interp EXCEPT !.offset = b]
    BY <2>3 DEF WalkBranch
  <2> QED BY <1>5, <2>2, <2>4, <2>5, <2>6
<1>9. Code(o).opcode = "jmp" => Stays(o)
  <2>1. Jmp = searchJmp(Pos(o))
    BY <1>5, JmpInHand
  <2> QED BY <1>1, <1>5, <2>1, StaysBySearch DEF Walks
<1>10. Walked(o, o + 1)'
  BY <1>3, <1>8 DEF Walked, After
<1>11. Closed(After(o), Listed, o)'
  <2>1. PICK i, P : i = After(o) /\ P = Listed
    OBVIOUS
  <2>2. Closed(i, P, o)'
    BY <1>2, <1>5, <2>1, PlacesKept
  <2> QED BY <1>3, <2>1, <2>2
<1>12. Holds(o)' /\ Stays(o)' = Stays(o)
  BY <1>1, <1>2, <1>4, HoldsOn DEF Branches, Stays, Pos
<1>13. Walking(o, o + 1, t)'
  <2>1. /\ walk.saved' = After(o)' /\ walk.end' = Pos(t)'
        /\ Pos(t)' = Target(Pos(o), Code(o))' /\ Pos(t)' < size'
    BY <1>1, <1>3, <1>6, <1>8
  <2>2. o + 1 \in o + 1 .. t
    BY <1>6
  <2>3. IsJump(Code(o))' /\ (Code(o)'.opcode = "jmp" => Stays(o)')
    BY <1>3, <1>5, <1>9, <1>12 DEF IsJump
  <2> QED BY <1>10, <1>11, <1>12, <2>1, <2>2, <2>3 DEF Walking
<1>14. o + 1 \in Nat
  OBVIOUS
<1> QED BY <1>1, <1>3, <1>13, <1>14 DEF Branching

LEMMA LiesBefore ==
  ASSUME TableTyped, NEW w \in Nat, NEW t \in Nat, w < t, Pos(t) < size
  PROVE  InTable(Pos(w)) /\ Pos(w) <= size /\ Pos(w) # Pos(t)
<1>1. Pos(w) \in Nat /\ Pos(t) \in Nat
  BY PosFacts
<1>2. Pos(w) + XcodeSize <= Pos(t)
  BY PosMonotone
<1>3. size \in Nat
  BY DEF TableTyped
<1> QED BY <1>1, <1>2, <1>3, InterpAssumption DEF InTable

\* A jump that the walk reads will not be taken.
LEMMA MarkedStaysThere ==
  ASSUME DecoderInv, UNCHANGED <<size, xcodes>>, NEW w, jmps' = Marked(Pos(w))
  PROVE  JmpsMarked /\ Stays(w)'
<1>1. PICK o : o = Pos(w) /\ o = Pos(w)'
  BY DEF Pos
<1>2. /\ searchJmp(o) = 0 <=> \A i \in DOMAIN jmps : jmps[i].xcodeOffset # o
      /\ searchJmp(o) # 0 => searchJmp(o) \in DOMAIN jmps /\ jmps[searchJmp(o)].xcodeOffset = o
  BY SearchJmp DEF DecoderInv, DecoderTypeOK, ArraysOK
<1>3. CASE searchJmp(o) = 0
  BY <1>1, <1>2, <1>3 DEF Marked, JmpsMarked, Stays
<1>4. CASE searchJmp(o) # 0
  <2>1. PICK i \in DOMAIN jmps : i = searchJmp(o) /\ jmps[i].xcodeOffset = o
    BY <1>2, <1>4
  <2>2. jmps' = [jmps EXCEPT ![i].branchable = TRUE] /\ jmps[i] \in JMP_XCODE
    BY <1>1, <1>4, <2>1 DEF Marked, DecoderInv, DecoderTypeOK
  <2>3. /\ DOMAIN jmps' = DOMAIN jmps
        /\ \A j \in DOMAIN jmps : j # i => jmps'[j] = jmps[j]
        /\ jmps'[i].xcodeOffset = jmps[i].xcodeOffset /\ jmps'[i].branchable = TRUE
    <3>1. PICK e : e = [jmps[i] EXCEPT !.branchable = TRUE]
      OBVIOUS
    <3>2. e.xcodeOffset = jmps[i].xcodeOffset /\ e.branchable = TRUE
      BY <2>2, <3>1 DEF JMP_XCODE
    <3>3. jmps' = [jmps EXCEPT ![i] = e]
      BY <2>2, <3>1
    <3> QED BY <2>1, <3>2, <3>3
  <2>4. \A j \in DOMAIN jmps : jmps[j].xcodeOffset = o => j = i
    BY <2>1 DEF DecoderInv, ArraysOK, JumpsApart
  <2>5. JmpsMarked
    BY <2>3 DEF JmpsMarked
  <2>6. Stays(w)'
    BY <1>1, <2>3, <2>4 DEF Stays
  <2> QED BY <2>5, <2>6
<1> QED BY <1>3, <1>4

LEMMA WalkXcodeBranches ==
  ASSUME DecoderInv, Branching, WalkXcode
  PROVE  Branching'
<1>1. /\ pc = "walk" /\ pc' = "walk" /\ HasNext(interp) /\ interp.offset # walk.end
      /\ UNCHANGED <<size, xcodes, branch, xcode, walk, lines>>
  BY DEF WalkXcode
<1>2. Forward' <=> Forward
  BY <1>1 DEF Forward
<1> SUFFICES ASSUME branch, Forward PROVE Branching'
  BY <1>1, <1>2 DEF Branching
<1>3. PICK o, w, t \in Nat : Walking(o, w, t)
  BY <1>1 DEF Branching
<1>4. /\ Holds(o) /\ IsJump(Code(o)) /\ walk.saved = After(o) /\ Closed(After(o), Listed, o)
      /\ Code(o).opcode = "jmp" => Stays(o)
      /\ walk.end = Pos(t) /\ Pos(t) = Target(Pos(o), Code(o)) /\ Pos(t) < size
      /\ w \in o + 1 .. t /\ Walked(o, w)
  BY <1>3 DEF Walking
<1>5. w < t
  <2>1. w # t
    BY <1>1, <1>4 DEF Walked
  <2> QED BY <1>4, <2>1
<1>6. PICK i : i = interp /\ StandsAt(i, w) /\ HasNext(i)
  <2>2. Pos(w) <= size
    BY <1>4, <1>5, LiesBefore DEF DecoderInv
  <2> QED BY <1>1, <1>4, <2>2 DEF StandsAt, Walked
<1>7. /\ i.status # "exit_op_found" /\ XcodesAt(interp.offset) = {Code(w)}
      /\ AfterNext(i, Code(w)) =
           [offset |-> Pos(w + 1),
            status |-> IF Code(w).opcode = "exit" THEN "exit_op_found" ELSE "ok"]
  BY <1>6, ReadsPlace DEF DecoderInv
<1>8. /\ interp' = [offset |-> Pos(w + 1),
                    status |-> IF Code(w).opcode = "exit" THEN "exit_op_found" ELSE "ok"]
      /\ jmps' = IF Code(w).opcode = "jmp" THEN Marked(Pos(w)) ELSE jmps
  <2>1. interp.offset = Pos(w)
    BY <1>4 DEF Walked
  <2> QED BY <1>6, <1>7, <2>1 DEF WalkXcode
<1>9. JmpsMarked /\ (Code(w).opcode = "jmp" => Stays(w)')
  <2>1. CASE Code(w).opcode = "jmp"
    BY <1>1, <1>8, <2>1, MarkedStaysThere
  <2>2. CASE Code(w).opcode # "jmp"
    BY <1>1, <1>8, <2>2, SameJumps
  <2> QED BY <2>1, <2>2
<1>10. /\ Listed' = Listed /\ (Listing' <=> Listing)
       /\ \A k : After(k)' = After(k) /\ Target(Pos(k), Code(k))' = Target(Pos(k), Code(k))
       /\ \A k : Code(k)' = Code(k) /\ Pos(k)' = Pos(k)
  BY <1>1, <1>9, BranchStep
<1>11. \A p : Stays(p) => Stays(p)'
  BY <1>9, PlacesKept
<1>12. Closed(After(o), Listed, o)'
  <2>1. PICK a, P : a = After(o) /\ P = Listed
    OBVIOUS
  <2>2. Closed(a, P, o)'
    BY <1>4, <1>9, <2>1, PlacesKept
  <2> QED BY <1>10, <2>1, <2>2
<1>13. Holds(o)'
  BY <1>1, <1>4, <1>9, HoldsOn
<1>14. Walked(o, w + 1)'
  <2>1. \A p \in o + 1 .. (w + 1) - 1 : Code(p).opcode = "jmp" => Stays(p)'
    <3> SUFFICES ASSUME NEW p \in o + 1 .. w, Code(p).opcode = "jmp" PROVE Stays(p)'
      BY <1>4
    <3>1. CASE p = w
      BY <1>9, <3>1
    <3>2. CASE p # w
      <4>1. p \in o + 1 .. w - 1
        BY <1>4, <3>2
      <4> QED BY <1>4, <1>11, <4>1 DEF Walked
    <3> QED BY <3>1, <3>2
  <2>2. (w + 1) - 1 = w /\ w + 1 > o + 1
    BY <1>4
  <2>3. interp'.offset = Pos(w + 1)' /\ (interp'.status = "exit_op_found" => Code(w)'.opcode = "exit")
    BY <1>8, <1>10
  <2>4. \A p \in o + 1 .. (w + 1) - 1 : Code(p)'.opcode = "jmp" => Stays(p)'
    BY <1>10, <2>1
  <2> QED BY <2>2, <2>3, <2>4 DEF Walked
<1>15. Walking(o, w + 1, t)'
  <2>1. w + 1 \in o + 1 .. t
    BY <1>4, <1>5
  <2>2. /\ walk.saved' = After(o)' /\ walk.end' = Pos(t)'
        /\ Pos(t)' = Target(Pos(o), Code(o))' /\ Pos(t)' < size'
    BY <1>1, <1>4, <1>10
  <2>3. IsJump(Code(o))' /\ (Code(o)'.opcode = "jmp" => Stays(o)')
    BY <1>4, <1>10, <1>11 DEF IsJump
  <2> QED BY <1>12, <1>13, <1>14, <2>1, <2>2, <2>3 DEF Walking
<1>16. Listing'
  BY <1>1, <1>10 DEF Branching
<1> QED BY <1>1, <1>15, <1>16 DEF Branching

\* The walk has come to the target, or to an exit: the table has not ended before the target.
LEMMA WalkEndBranches ==
  ASSUME DecoderInv, Branching, WalkEnd
  PROVE  Branching'
<1>1. /\ pc = "walk" /\ pc' = "write" /\ interp' = walk.saved
      /\ ~HasNext(interp) \/ interp.offset = walk.end
      /\ UNCHANGED <<size, xcodes, branch, jmps, xcode, lines>>
  BY DEF WalkEnd, loadVars
<1>2. Forward' <=> Forward
  BY <1>1 DEF Forward
<1> SUFFICES ASSUME branch, Forward PROVE Branching'
  BY <1>1, <1>2 DEF Branching
<1>3. PICK o, w, t \in Nat : Walking(o, w, t)
  BY <1>1 DEF Branching
<1>4. /\ Holds(o) /\ IsJump(Code(o)) /\ walk.saved = After(o) /\ Closed(After(o), Listed, o)
      /\ walk.end = Pos(t) /\ Pos(t) = Target(Pos(o), Code(o)) /\ Pos(t) < size
      /\ w \in o + 1 .. t /\ Walked(o, w)
  BY <1>3 DEF Walking
<1>5. w = t \/ interp.status = "exit_op_found"
  <2> SUFFICES ASSUME w < t, interp.status # "exit_op_found" PROVE FALSE
    BY <1>4
  <2>2. InTable(Pos(w)) /\ Pos(w) <= size /\ Pos(w) # Pos(t)
    BY <1>4, LiesBefore DEF DecoderInv
  <2>3. PICK i : i = interp
    OBVIOUS
  <2>4. StandsAt(i, w)
    BY <1>4, <2>2, <2>3 DEF StandsAt, Walked
  <2>5. ~HasNext(i) => i.status = "exit_op_found" \/ ~InTable(Pos(w))
    BY <2>4, ReadsPlace DEF DecoderInv
  <2> QED BY <1>1, <1>4, <2>2, <2>3, <2>5 DEF Walked
<1>6. Clear(o + 1, t)
  <2> SUFFICES ASSUME NEW p \in o + 1 .. t - 1, Code(p).opcode = "jmp",
                      \A q \in o + 1 .. p - 1 : Code(q).opcode # "exit"
               PROVE  Stays(p)
    BY DEF Clear
  <2>1. CASE p < w
    <3>1. p \in o + 1 .. w - 1
      BY <1>4, <2>1
    <3> QED BY <1>4, <3>1 DEF Walked
  <2>2. CASE p >= w
    <3>1. w # t
      BY <2>2
    <3>2. w > o + 1 /\ Code(w - 1).opcode = "exit"
      BY <1>4, <1>5, <3>1 DEF Walked
    <3>3. w - 1 \in o + 1 .. p - 1
      BY <1>4, <2>2, <3>2
    <3> QED BY <3>2, <3>3
  <2> QED BY <1>4, <2>1, <2>2
<1>7. \A u \in Nat : Pos(u) = Target(Pos(o), Code(o)) => u = t
  BY <1>4, PosApart
<1>8. Listing /\ interp' = After(o)
  BY <1>1, <1>4 DEF Branching
<1> QED BY <1>1, <1>4, <1>6, <1>7, <1>8, WritesNext

LEMMA WriteLineBranches ==
  ASSUME DecoderInv, Branching, WriteLine
  PROVE  Branching'
<1>1. /\ pc = "write" /\ pc' = "decode"
      /\ UNCHANGED <<size, xcodes, interp, branch, jmps, xcode>>
  BY DEF WriteLine
<1>2. PICK l : l.of = xcode.at /\ l.xc = xcode.xc /\ lines' = Append(lines, l)
  BY DEF WriteLine
<1>3. JmpsMarked
  BY <1>1, SameJumps
<1>4. Forward' <=> Forward
  BY <1>3, PlacesKept
<1> SUFFICES ASSUME branch, Forward PROVE Branching'
  BY <1>1, <1>4 DEF Branching
<1>5. PICK o, n \in Nat : Writes(o, n)
  BY <1>1 DEF Branching
<1>6. /\ xcode.at = Pos(o) /\ xcode.xc = Code(o) /\ InTable(Pos(o)) /\ Listed \subseteq 0 .. o - 1
      /\ n > o /\ StandsAt(interp, n) /\ Closed(interp, Listed \cup {o}, n)
  BY <1>5 DEF Writes, Holds
<1>7. PICK c \in Nat : c = Len(lines) /\ DOMAIN lines = 1 .. c
  BY DEF DecoderInv, DecoderTypeOK
<1>8. /\ DOMAIN lines' = 1 .. c + 1 /\ \A i \in 1 .. c : lines'[i] = lines[i]
      /\ lines'[c + 1].of = Pos(o) /\ lines'[c + 1].xc = Code(o)
  <2>1. /\ Len(lines') = c + 1 /\ DOMAIN lines' = 1 .. c + 1
        /\ \A i \in 1 .. c : lines'[i] = lines[i]
        /\ lines'[c + 1] = l
    BY <1>2, <1>7
  <2> QED BY <1>2, <1>6, <2>1
<1>9. \A k : Code(k)' = Code(k) /\ Pos(k)' = Pos(k) /\ (InTable(Pos(k))' <=> InTable(Pos(k)))
  BY <1>1 DEF Code, Pos, InTable
<1>10. Listing'
  <2>1. ASSUME NEW i \in 1 .. c + 1
        PROVE  \E k \in Nat : lines'[i].of = Pos(k) /\ lines'[i].xc = Code(k) /\ InTable(Pos(k))
    <3>1. CASE i = c + 1
      BY <1>6, <1>8, <3>1
    <3>2. CASE i \in 1 .. c
      BY <1>1, <1>7, <1>8, <3>2 DEF Branching, Listing
    <3> QED BY <3>1, <3>2
  <2> QED BY <1>8, <1>9, <2>1 DEF Listing
<1>11. Listed' = Listed \cup {o}
  <2>1. \A k \in Nat : (\E i \in 1 .. c + 1 : lines'[i].of = Pos(k)) <=>
                         (\E i \in 1 .. c : lines[i].of = Pos(k)) \/ k = o
    <3> TAKE k \in Nat
    <3>1. Pos(o) = Pos(k) <=> k = o
      BY PosApart
    <3>2. \A i : i \in 1 .. c + 1 <=> i \in 1 .. c \/ i = c + 1
      OBVIOUS
    <3> QED BY <1>8, <3>1, <3>2
  <2>2. \A k : k \in Listed' <=> k \in Nat /\ \E i \in 1 .. c + 1 : lines'[i].of = Pos(k)
    BY <1>8, <1>9 DEF Listed
  <2>3. \A k : k \in Listed <=> k \in Nat /\ \E i \in 1 .. c : lines[i].of = Pos(k)
    BY <1>7 DEF Listed
  <2> QED BY <2>1, <2>2, <2>3
<1>12. Closed(interp, Listed, n)'
  <2>1. PICK i, Q : i = interp /\ Q = Listed \cup {o}
    OBVIOUS
  <2>2. i = interp' /\ Q = Listed'
    BY <1>1, <1>11, <2>1
  <2>3. Closed(i, Q, n)
    BY <1>6, <2>1
  <2> QED BY <1>3, <2>2, <2>3, ClosedAfter
<1>13. Between(n)'
  <2>1. StandsAt(interp, n)'
    BY <1>1, <1>6 DEF StandsAt, Pos
  <2>2. Listed' \subseteq 0 .. n - 1
    BY <1>6, <1>11
  <2> QED BY <1>12, <2>1, <2>2 DEF Between
<1> QED BY <1>1, <1>10, <1>13 DEF Branching

LEMMA EndBranches ==
  ASSUME DecoderInv, Branching, UnknownOpcode \/ DecodeEnd
  PROVE  Branching'
<1>1. /\ UNCHANGED <<size, xcodes, branch, jmps, lines>>
      /\ \/ pc' = "failed"
         \/ pc = "decode" /\ pc' = "done" /\ interp' = AfterLast(interp)
  BY DEF UnknownOpcode, DecodeEnd, loadVars
<1>2. JmpsMarked
  BY <1>1, SameJumps
<1>3. Listed' = Listed /\ (Listing' <=> Listing) /\ (Forward' <=> Forward)
  BY <1>1, <1>2, BranchStep
<1> SUFFICES ASSUME branch, Forward PROVE Branching'
  BY <1>1, <1>3 DEF Branching
<1>4. Listing'
  BY <1>1, <1>3 DEF Branching
<1>5. CASE pc' = "failed"
  BY <1>4, <1>5 DEF Branching
<1>6. CASE pc = "decode" /\ pc' = "done" /\ interp' = AfterLast(interp)
  <2>1. PICK n \in Nat : Between(n)
    BY <1>6 DEF Branching
  <2>2. PICK i, P : i = interp' /\ P = Listed
    OBVIOUS
  <2>3. i.offset = interp.offset /\ (i.status # "exit_op_found" => interp.status # "exit_op_found")
    BY <1>6, <2>2 DEF AfterLast, DecoderInv, DecoderTypeOK, INTERP
  <2>4. Closed(i, P, n)
    BY <2>1, <2>2, <2>3 DEF Between, Closed, Awaits
  <2>5. Closed(interp, Listed, n)'
    BY <1>2, <1>3, <2>2, <2>4, ClosedAfter
  <2>6. StandsAt(interp, n)' /\ Listed' \subseteq 0 .. n - 1
    BY <1>1, <1>3, <2>1, <2>2, <2>3 DEF Between, StandsAt, Pos
  <2>7. Between(n)'
    BY <2>5, <2>6 DEF Between
  <2> QED BY <1>4, <1>6, <2>7 DEF Branching
<1> QED BY <1>1, <1>5, <1>6

LEMMA NothingBranches ==
  ASSUME Branching, UNCHANGED vars
  PROVE  Branching'
<1>1. /\ UNCHANGED <<size, xcodes, interp, branch, pc, jmps>>
      /\ UNCHANGED <<xcode, walk, lines>>
  BY DEF vars, loadVars
<1>2. \A k : Code(k)' = Code(k) /\ Pos(k)' = Pos(k) /\ (InTable(Pos(k))' <=> InTable(Pos(k)))
  BY <1>1 DEF Code, Pos, InTable
<1>3. Listed' = Listed /\ (Listing' <=> Listing) /\ (Forward' <=> Forward)
  BY <1>1, LinesKept DEF Forward
<1>4. PICK i, P : i = interp /\ P = Listed
  OBVIOUS
<1>5. JmpsMarked
  BY <1>1, SameJumps
<1>6. \A a, Q, n : Closed(a, Q, n) => Closed(a, Q, n)'
  BY <1>5, PlacesKept
<1>7. \A o : Holds(o) => Holds(o)'
  BY <1>1, <1>2, <1>3 DEF Holds
<1>8. \A o : After(o)' = After(o) /\ Target(Pos(o), Code(o))' = Target(Pos(o), Code(o))
  BY <1>2 DEF After, Target
<1>9. \A o : Closed(After(o), Listed, o) => Closed(After(o), Listed, o)'
  <2> SUFFICES ASSUME NEW o, Closed(After(o), Listed, o) PROVE Closed(After(o), Listed, o)'
    OBVIOUS
  <2>1. PICK a : a = After(o)
    OBVIOUS
  <2>2. Closed(a, P, o)'
    BY <1>4, <1>6, <2>1
  <2> QED BY <1>3, <1>4, <1>8, <2>1, <2>2
<1>10. \A n : Between(n) => Between(n)'
  BY <1>1, <1>3, <1>4, <1>5, ClosedAfter DEF Between, StandsAt, Pos
<1>11. \A o : Branches(o) => Branches(o)'
  BY <1>1, <1>2, <1>7, <1>8, <1>9 DEF Branches, IsJump
<1>12. \A p : Stays(p) => Stays(p)'
  BY <1>5, PlacesKept
<1>13. \A o, w : Walked(o, w) => Walked(o, w)'
  BY <1>1, <1>2, <1>12 DEF Walked
<1>14. \A o, w, t : Walking(o, w, t) => Walking(o, w, t)'
  BY <1>1, <1>2, <1>7, <1>8, <1>9, <1>12, <1>13 DEF Walking, IsJump
<1>15. \A o, n : Writes(o, n) => Writes(o, n)'
  <2> SUFFICES ASSUME NEW o, NEW n, Writes(o, n) PROVE Writes(o, n)'
    OBVIOUS
  <2>1. PICK Q : Q = Listed \cup {o}
    OBVIOUS
  <2>2. Closed(i, Q, n)'
    BY <1>4, <1>6, <2>1 DEF Writes
  <2>3. Q = (Listed \cup {o})' /\ i = interp'
    BY <1>1, <1>3, <1>4, <2>1
  <2>4. Closed(interp, Listed \cup {o}, n)'
    BY <2>2, <2>3
  <2> QED BY <1>1, <1>7, <2>4 DEF Writes, StandsAt, Pos
<1> QED BY <1>1, <1>3, <1>10, <1>11, <1>14, <1>15 DEF Branching

\* The places that have lines are closed under what may run after them, but for what the
\* decoder still comes to: no jump that it takes goes past such a place.
THEOREM DecoderBranching == DecoderSpec => [](DecoderInv /\ Branching)
<1>1. DecoderInit => Branching
  BY DEF DecoderInit, Branching, Listing
<1>2. DecoderInv /\ Branching /\ [DecoderNext]_vars => Branching'
  <2> SUFFICES ASSUME DecoderInv, Branching, [DecoderNext]_vars PROVE Branching'
    OBVIOUS
  <2>1. CASE CountXcode \/ EndPass("count", "label") \/ LoadXcode \/ EndPass("label", "decode")
    BY <2>1, LoadBranches
  <2>2. CASE NextXcode
    BY <2>2, NextXcodeBranches
  <2>3. CASE TakeJmp
    BY <2>3, TakeJmpBranches
  <2>4. CASE PassJmp
    BY <2>4, PassJmpBranches
  <2>5. CASE WalkBranch
    BY <2>5, WalkBranchBranches
  <2>6. CASE WalkXcode
    BY <2>6, WalkXcodeBranches
  <2>7. CASE WalkEnd
    BY <2>7, WalkEndBranches
  <2>8. CASE WriteLine
    BY <2>8, WriteLineBranches
  <2>9. CASE UnknownOpcode \/ DecodeEnd
    BY <2>9, EndBranches
  <2>10. CASE UNCHANGED vars
    BY <2>10, NothingBranches
  <2> QED BY <2>1, <2>2, <2>3, <2>4, <2>5, <2>6, <2>7, <2>8, <2>9, <2>10 DEF DecoderNext
<1> QED BY <1>1, <1>2, DecoderInvariant, PTL DEF DecoderSpec

\* With -branch, in a table whose jumps go forward, no jump that is taken skips what another
\* way leads to: what may run after a line that was written is written, or lies behind the
\* exit that ended the listing.
THEOREM DecoderNothingSkipped == DecoderSpec => []NothingSkipped
<1>1. DecoderInv /\ Branching => NothingSkipped
  <2> SUFFICES ASSUME DecoderInv, Branching, Done, branch, Forward,
                      NEW i \in DOMAIN lines, NEW s \in Successors(lines[i])
               PROVE  \/ \E j \in DOMAIN lines : lines[j].of = s
                      \/ \A j \in DOMAIN lines : lines[j].of < s
    BY DEF NothingSkipped
  <2>1. Listing /\ \E n \in Nat : Between(n)
    BY DEF Branching, Done
  <2>2. PICK n \in Nat : Listed \subseteq 0 .. n - 1 /\ Closed(interp, Listed, n)
    BY <2>1 DEF Between
  <2>3. PICK k \in Nat : lines[i].of = Pos(k) /\ lines[i].xc = Code(k) /\ InTable(Pos(k))
    BY <2>1 DEF Listing
  <2>4. k \in Listed
    BY <2>3 DEF Listed
  <2>5. PICK m \in Nat : s = Pos(m) /\ Follows(k, m)
    <3>1. CASE s = Target(Pos(k), Code(k)) /\ IsJump(Code(k))
      <4>1. PICK t \in Nat : Pos(t) = Target(Pos(k), Code(k))
        BY <2>3, <3>1, ForwardTarget DEF DecoderInv
      <4> QED BY <3>1, <4>1 DEF Follows
    <3>2. CASE s = Pos(k) + XcodeSize /\ Code(k).opcode \notin {"exit", "jmp"}
      <4>1. Pos(k + 1) = Pos(k) + XcodeSize
        BY PosFacts
      <4> QED BY <3>2, <4>1 DEF Follows
    <3> QED BY <2>3, <3>1, <3>2 DEF Successors, IsJump
  <2>6. CASE m \in Listed
    BY <2>5, <2>6 DEF Listed
  <2>7. CASE m >= n
    <3> SUFFICES ASSUME NEW j \in DOMAIN lines PROVE lines[j].of < s
      OBVIOUS
    <3>1. PICK q \in Nat : lines[j].of = Pos(q)
      BY <2>1 DEF Listing
    <3>2. q < m
      <4>1. q \in Listed
        BY <3>1 DEF Listed
      <4> QED BY <2>2, <2>7, <4>1
    <3>3. Pos(q) + XcodeSize <= Pos(m)
      BY <3>2, PosMonotone
    <3>4. Pos(q) \in Nat /\ Pos(m) \in Nat
      BY PosFacts
    <3> QED BY <2>5, <3>1, <3>3, <3>4, InterpAssumption
  <2>8. m \in Listed \/ m >= n
    BY <2>2, <2>4, <2>5 DEF Closed, Awaits
  <2> QED BY <2>6, <2>7, <2>8
<1> QED BY <1>1, DecoderBranching, PTL
====
