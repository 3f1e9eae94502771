------------------------- MODULE XcodeInjectProofs -------------------------
(***************************************************************************)
(* inject_xcodes, proved for every image, table and file of xcodes: the    *)
(* types, that space is found where there is some, what is lost of the     *)
(* image, and that the console runs the xcodes of both in order.           *)
(***************************************************************************)
EXTENDS XcodeInject, FiniteSetTheorems, SequenceTheorems, TLAPS

-----------------------------------------------------------------------------
(* The inductive invariant.                                                *)

\* The first exit xcode of the BIOS, in the table whole.
NoExitBelow(k) == \A j \in 0..(k - 1) : orig[Base + XcodeSize * j] # XC_EXIT
ExitAt(k) ==
  /\ k \in Nat /\ Base + XcodeSize * k + XcodeSize <= size
  /\ orig[Base + XcodeSize * k] = XC_EXIT
  /\ NoExitBelow(k)

Searched == pc \notin {"find", "not_found"}
Written == pc \in {"run", "halt"}

BufferInv ==
  /\ size \in Nat /\ size >= Base + XcodeSize /\ size >= TblSize
  /\ size + xcodesSize + XcodeSize < Wrap
  /\ orig \in [0..(size - 1) -> Nat] /\ data \in [0..(size - 1) -> Nat]
  /\ xc_file \in Seq(Nat)
  /\ ~Written => data = orig

\* The search for the exit reads xcode after xcode; it stops behind the exit.
FindInv ==
  /\ pc = "find" =>
       /\ count = 0 /\ offset = 0 /\ jmp = FALSE /\ trace = <<>>
       /\ \/ /\ interp.status = "ok"
             /\ \E k \in 0..size : /\ interp.offset = XcodeSize * k
                                   /\ Base + XcodeSize * k <= size /\ NoExitBelow(k)
          \/ /\ interp.status = "exit_op_found" /\ ExitAt(FirstExit)
             /\ interp.offset = XcodeSize * FirstExit + XcodeSize
  /\ pc \in {"scan", "place", "overrun"} =>
       interp.offset = XcodeSize * FirstExit + XcodeSize
  /\ Searched => ExitAt(FirstExit)
  /\ pc \in {"scan", "place"} => trace = <<>>

\* Behind the exit xcode, where the search for space begins.
Start == OldExit + XcodeSize

\* The cells that were counted are zeros, and the count began where the search did
\* or behind a cell that is none.
Counted ==
  /\ count <= offset
  /\ ~jmp => count = offset
  /\ \A i \in (Start + offset - count)..(Start + offset - 1) : i < size /\ orig[i] = 0
  /\ \/ Start + offset - count <= Start + TblSize
     \/ orig[Start + offset - count - 1] # 0

\* Nothing that would have been enough lies in front of cell.
NoSpaceBelow(cell) ==
  \A a \in 0..(size - 1) :
    a >= Start + TblSize /\ a + xcodesSize < cell => \E i \in a..(a + xcodesSize) : orig[i] # 0

\* What the search has found: zeros for the xcodes, and one more.
SpaceFound ==
  /\ count = xcodesSize /\ (~jmp => offset = 0)
  /\ Start + offset + 2 * xcodesSize < size
  /\ \A i \in (Start + offset)..(Start + offset + xcodesSize) : orig[i] = 0

\* Or how it has ended: too near to the end of the buffer.
SearchEnded ==
  /\ Counted /\ NoSpaceBelow(Start + offset)
  /\ Start + offset + xcodesSize >= size

ScanInv ==
  /\ pc = "scan" => Counted /\ NoSpaceBelow(Start + offset)
  /\ pc = "place" => SpaceFound \/ SearchEnded

\* Where the xcodes went.
At == IF jmp THEN Start + offset ELSE OldExit

\* The buffer afterwards: the jump, the xcodes and the exit are in it, and the rest is
\* as it was.
WrittenInv ==
  Written =>
    /\ At + xcodesSize + XcodeSize <= size
    /\ jmp => data[OldExit] = XC_JMP /\ data[OldExit + 2] = offset
    /\ \A i \in 1..xcodesSize : data[At + i - 1] = xc_file[i]
    /\ data[At + xcodesSize] = XC_EXIT
    /\ \A a \in 0..(size - 1) :
         \/ data[a] = orig[a]
         \/ a \in OldExit..(OldExit + XcodeSize - 1)
         \/ a \in At..(At + xcodesSize + XcodeSize - 1)
    /\ count = xcodesSize =>
         \A a \in Start..(Start + offset + xcodesSize) :
           (jmp => a >= Start + offset) /\ (~jmp => a <= OldExit + xcodesSize + 2) => orig[a] = 0

\* The console has run the first n of the xcodes.
Ran(n) ==
  /\ Len(trace) = n
  /\ \A i \in 1..n : trace[i] = IF i <= FirstExit THEN OldXcodes[i] ELSE FileXcodes[i - FirstExit]

FileCount == xcodesSize \div XcodeSize

RunInv ==
  /\ pc = "run" /\ RunInOrder =>
       /\ interp.status = "ok"
       /\ \/ \E k \in 0..FirstExit : interp.offset = XcodeSize * k /\ Ran(k)
          \/ \E j \in 0..FileCount : /\ Base + interp.offset = At + XcodeSize * j
                                     /\ Ran(FirstExit + j)
  /\ pc = "halt" /\ RunInOrder => Ran(FirstExit + FileCount)

\* Where the writes went behind the buffer, no space was left.
OverrunInv == pc = "overrun" => SpaceIsFound

InjectInv ==
  /\ BufferInv /\ InjectTypeOK
  /\ FindInv /\ ScanInv /\ WrittenInv /\ RunInv /\ OverrunInv

-----------------------------------------------------------------------------
(* The buffer and what is read of it.                                      *)

LEMMA CountOK == \A n \in Nat : Cardinality(0..(n - 1)) = n
  <1> SUFFICES ASSUME NEW n \in Nat PROVE Cardinality(0..(n - 1)) = n
    OBVIOUS
  <1>1. 0 \in Int /\ n - 1 \in Int
    OBVIOUS
  <1>2. Cardinality(0..(n - 1)) = IF 0 > n - 1 THEN 0 ELSE (n - 1) - 0 + 1
    BY <1>1, FS_Interval, Zenon
  <1> QED BY <1>2

\* A write keeps the size.
LEMMA SizeKept ==
  ASSUME BufferInv, data' \in [0..(size - 1) -> Nat]
  PROVE  size' = size
  <1>1. DOMAIN data' = 0..(size - 1)
    OBVIOUS
  <1> QED BY <1>1, CountOK DEF BufferInv, size

\* The opcode of three cells.
LEMMA OpcodeOK ==
  ASSUME NEW a, NEW b, NEW c
  PROVE  /\ XcodeOf(a, b, c).opcode = "exit" <=> a = XC_EXIT
         /\ XcodeOf(a, b, c).opcode = "jmp" <=> a = XC_JMP
         /\ XcodeOf(a, b, c).opcode \in {"jmp", "exit", "other"}
         /\ XcodeOf(a, b, c).addr = b /\ XcodeOf(a, b, c).data = c
  BY DEF XcodeOf, XC_EXIT, XC_JMP

\* An xcode of a table that is in it.
LEMMA TableOK ==
  ASSUME BufferInv, NEW mem, NEW o \in Nat, Base + o + XcodeSize <= size
  PROVE  XcodesOf(mem)[o] = XcodeOf(mem[Base + o], mem[Base + o + 1], mem[Base + o + 2])
  <1>1. o \in 0..(size - Base - XcodeSize)
    BY InjectAssumption DEF BufferInv, XcodeSize
  <1> QED BY <1>1 DEF XcodesOf

\* The first exit is the one with none in front of it.
LEMMA FirstExitIs ==
  ASSUME BufferInv, NEW k, ExitAt(k)
  PROVE  FirstExit = k
  <1> DEFINE X(i) == XcodesOf(orig)[XcodeSize * i].opcode = "exit"
             P(i) == X(i) /\ \A j \in 0..(i - 1) : ~X(j)
  <1>1. k \in Nat /\ Base \in Nat /\ size \in Nat /\ Base + 3 * k + 3 <= size
    BY InjectAssumption DEF ExitAt, BufferInv, XcodeSize
  <1>2. ASSUME NEW i \in 0..k
        PROVE  X(i) <=> orig[Base + XcodeSize * i] = XC_EXIT
    <2>1. XcodeSize * i \in Nat /\ Base + XcodeSize * i + XcodeSize <= size
      BY <1>1 DEF XcodeSize
    <2> QED BY <2>1, TableOK, OpcodeOK
  <1>3. k \in 0..size
    BY <1>1
  <1>4. X(k) /\ \A j \in 0..(k - 1) : ~X(j)
    BY <1>1, <1>2 DEF ExitAt, NoExitBelow
  <1>5. FirstExit = CHOOSE i \in 0..size : P(i)
    BY DEF FirstExit
  <1> HIDE DEF X
  <1>6. P(k)
    BY <1>4
  <1>7. FirstExit \in 0..size /\ P(FirstExit)
    <2> HIDE DEF P
    <2> QED BY <1>3, <1>5, <1>6, Zenon
  <1> DEFINE e == FirstExit
  <1>8. e \in 0..size /\ X(e) /\ \A j \in 0..(e - 1) : ~X(j)
    BY <1>7
  <1> HIDE DEF e
  <1>9. ~(e < k) /\ ~(k < e)
    BY <1>1, <1>4, <1>8
  <1> QED BY <1>1, <1>8, <1>9 DEF e

\* What the interpreter does with an offset that has not left the table.
LEMMA ReadOK ==
  ASSUME BufferInv, interp.offset \in Nat, Base + interp.offset <= size
  PROVE  /\ Interp!HasNext(interp) <=>
              interp.status # "exit_op_found" /\ Base + interp.offset + XcodeSize <= size
         /\ Interp!HasNext(interp) =>
              /\ Interp!XcodesAt(interp.offset) =
                   {XcodeOf(data[Base + interp.offset], data[Base + interp.offset + 1],
                            data[Base + interp.offset + 2])}
              /\ \A xc : Interp!AfterNext(interp, xc) =
                   [offset |-> interp.offset + XcodeSize,
                    status |-> IF xc.opcode = "exit" THEN "exit_op_found" ELSE "ok"]
  <1> DEFINE o == interp.offset
  <1>1. o \in Nat /\ Base \in Nat /\ size \in Nat /\ xcodesSize \in Nat
        /\ Base + o <= size /\ size + xcodesSize + 3 < Wrap /\ Wrap \in Nat
    BY InjectAssumption DEF BufferInv, XcodeSize, xcodesSize
  <1> HIDE DEF o
  <1>2. (o + 3) % Wrap = o + 3
    <2>1. o + 3 \in 0..(Wrap - 1)
      BY <1>1
    <2> QED BY <1>1, <2>1
  <1>3. o + 3 <= size - Base <=> Base + o + 3 <= size
    BY <1>1
  <1>4. Interp!HasNext(interp) <=> interp.status # "exit_op_found" /\ Base + o + XcodeSize <= size
    BY <1>2, <1>3 DEF Interp!HasNext, XcodeSize, o
  <1>5. ASSUME Interp!HasNext(interp)
        PROVE  Interp!XcodesAt(o) = {XcodeOf(data[Base + o], data[Base + o + 1], data[Base + o + 2])}
    <2>1. Base + o + XcodeSize <= size
      BY <1>4, <1>5
    <2>2. Interp!InTable(o)
      BY <1>3, <2>1 DEF Interp!InTable, XcodeSize
    <2>3. Interp!XcodesAt(o) = {XcodesOf(data)[o]}
      BY <2>2 DEF Interp!XcodesAt
    <2> QED BY <1>1, <2>1, <2>3, TableOK
  <1>6. \A xc : Interp!AfterNext(interp, xc) =
          [offset |-> o + XcodeSize, status |-> IF xc.opcode = "exit" THEN "exit_op_found" ELSE "ok"]
    BY <1>2 DEF Interp!AfterNext, XcodeSize, o
  <1> QED BY <1>4, <1>5, <1>6 DEF o

-----------------------------------------------------------------------------
(* What does not change.                                                   *)

Table(mem, n) ==
  [o \in 0..(n - Base - XcodeSize) |-> XcodeOf(mem[Base + o], mem[Base + o + 1], mem[Base + o + 2])]
First(t, n) ==
  CHOOSE k \in 0..n : /\ t[XcodeSize * k].opcode = "exit"
                      /\ \A j \in 0..(k - 1) : t[XcodeSize * j].opcode # "exit"
Before(t, k) == [i \in 1..k |-> t[XcodeSize * (i - 1)]]

\* What the properties are about depends on what was there at first only.
LEMMA Same ==
  ASSUME UNCHANGED <<orig, xc_file>>, size' = size
  PROVE  /\ FirstExit' = FirstExit /\ OldExit' = OldExit /\ Start' = Start
         /\ xcodesSize' = xcodesSize /\ FileCount' = FileCount
         /\ OldXcodes' = OldXcodes /\ FileXcodes' = FileXcodes
         /\ RunInOrder' <=> RunInOrder
  <1>1. FirstExit = First(Table(orig, size), size)
    BY DEF FirstExit, First, Table, XcodesOf
  <1>2. FirstExit' = First(Table(orig', size'), size')
    BY DEF FirstExit, First, Table, XcodesOf
  <1>3. FirstExit' = FirstExit
    BY <1>1, <1>2
  <1>4. OldXcodes = Before(Table(orig, size), FirstExit)
    BY DEF OldXcodes, Before, Table, XcodesOf
  <1>5. OldXcodes' = Before(Table(orig', size'), FirstExit')
    BY DEF OldXcodes, Before, Table, XcodesOf
  <1>6. OldXcodes' = OldXcodes
    BY <1>3, <1>4, <1>5
  <1>7. xcodesSize' = xcodesSize
    BY DEF xcodesSize
  <1>8. FileXcodes' = FileXcodes
    BY <1>7 DEF FileXcodes
  <1>9. OldExit' = OldExit /\ Start' = Start /\ FileCount' = FileCount
    BY <1>3, <1>7 DEF OldExit, Start, FileCount
  <1>10. RunInOrder' <=> RunInOrder
    BY <1>6, <1>7, <1>8 DEF RunInOrder
  <1> QED BY <1>3, <1>6, <1>7, <1>8, <1>9, <1>10

\* A step that does not write leaves the buffer's part of the invariant.
LEMMA BufferKept ==
  ASSUME BufferInv, UNCHANGED <<data, orig, xc_file>>, Written => Written'
  PROVE  BufferInv' /\ size' = size
  <1>1. size' = size
    BY DEF size
  <1>2. xcodesSize' = xcodesSize
    BY DEF xcodesSize
  <1>3. orig' \in [0..(size' - 1) -> Nat] /\ data' \in [0..(size' - 1) -> Nat]
    BY <1>1 DEF BufferInv
  <1>4. ~Written' => data' = orig'
    <2>1. ~Written => data = orig
      BY DEF BufferInv
    <2> QED BY <2>1
  <1>5. /\ size' \in Nat /\ size' >= Base + XcodeSize /\ size' >= TblSize
        /\ size' + xcodesSize' + XcodeSize < Wrap /\ xc_file' \in Seq(Nat)
    BY <1>1, <1>2 DEF BufferInv
  <1> QED BY <1>1, <1>3, <1>4, <1>5, Zenon DEF BufferInv

\* The numbers the proofs calculate with.
LEMMA Numbers ==
  ASSUME InjectInv
  PROVE  /\ Base \in Nat /\ TblSize \in Nat /\ Wrap \in Nat /\ size \in Nat /\ xcodesSize \in Nat
         /\ size >= Base + 3 /\ size >= TblSize /\ size + xcodesSize + 3 < Wrap
         /\ offset \in 0..size /\ count \in 0..xcodesSize /\ jmp \in BOOLEAN
         /\ Searched => /\ FirstExit \in Nat /\ OldExit = Base + 3 * FirstExit /\ OldExit \in Nat
                        /\ Start = OldExit + 3 /\ Start \in Nat /\ Start <= size
         /\ pc \in {"scan", "place", "overrun"} => Base + interp.offset = Start
  <1>1. /\ Base \in Nat /\ TblSize \in Nat /\ Wrap \in Nat /\ size \in Nat /\ xcodesSize \in Nat
        /\ size >= Base + 3 /\ size >= TblSize /\ size + xcodesSize + 3 < Wrap
        /\ offset \in 0..size /\ count \in 0..xcodesSize /\ jmp \in BOOLEAN
    BY InjectAssumption, LenProperties
       DEF InjectInv, BufferInv, InjectTypeOK, XcodeSize, xcodesSize
  <1>2. ASSUME Searched
        PROVE  /\ FirstExit \in Nat /\ Base + 3 * FirstExit + 3 <= size
               /\ OldExit = Base + 3 * FirstExit /\ Start = OldExit + 3
    BY <1>2 DEF InjectInv, FindInv, ExitAt, OldExit, Start, XcodeSize
  <1>3. ASSUME Searched
        PROVE  OldExit \in Nat /\ Start \in Nat /\ Start <= size
    BY <1>1, <1>2, <1>3
  <1>4. ASSUME pc \in {"scan", "place", "overrun"}
        PROVE  Base + interp.offset = Start
    <2>1. interp.offset = 3 * FirstExit + 3 /\ Searched
      BY <1>4 DEF InjectInv, FindInv, Searched, XcodeSize
    <2> QED BY <1>1, <1>2, <2>1
  <1> QED BY <1>1, <1>2, <1>3, <1>4

-----------------------------------------------------------------------------
(* The search for the exit.                                                *)

LEMMA InjectInitInv == InjectInit => InjectInv
  <1> SUFFICES ASSUME InjectInit PROVE InjectInv
    OBVIOUS
  <1>1. PICK b \in Bioses : data = b.data /\ orig = b.data
    BY DEF InjectInit
  <1>2. /\ xc_file \in XcodeFiles /\ interp = Interp!reset /\ pc = "find"
        /\ jmp = FALSE /\ offset = 0 /\ count = 0 /\ trace = <<>>
    BY DEF InjectInit
  <1>3. /\ Base \in Nat /\ TblSize \in Nat /\ Wrap \in Nat
        /\ xc_file \in Seq(Nat) /\ Len(xc_file) \in Nat
        /\ size \in Nat /\ data \in [0..(size - 1) -> Nat]
        /\ size >= Base + XcodeSize /\ size >= TblSize
        /\ size + Len(xc_file) + XcodeSize < Wrap
    <2>1. xc_file \in Seq(Nat)
      BY <1>2, InjectAssumption
    <2>2. Len(xc_file) \in Nat
      BY <2>1, LenProperties
    <2> QED BY <1>1, <1>2, <2>1, <2>2, InjectAssumption DEF size
  <1>4. BufferInv
    BY <1>1, <1>2, <1>3 DEF BufferInv, xcodesSize, Written
  <1>5. InjectTypeOK
    <2>1. data \in [DOMAIN orig -> Nat]
      BY <1>1, <1>3
    <2>2. 0 \in 0..(Wrap - 1) /\ 0 \in 0..size /\ 0 \in 0..Len(xc_file)
      BY <1>3 DEF XcodeSize
    <2>3. interp \in Interp!INTERP
      BY <1>2, <2>2 DEF Interp!reset, Interp!INTERP
    <2>4. trace \in Seq([opcode : {"other"}, addr : Nat, data : Nat])
      BY <1>2
    <2> QED BY <1>2, <2>1, <2>2, <2>3, <2>4 DEF InjectTypeOK, xcodesSize
  <1>6. FindInv
    <2>1. interp.status = "ok" /\ interp.offset = XcodeSize * 0 /\ Base + XcodeSize * 0 <= size
          /\ 0 \in 0..size /\ NoExitBelow(0)
      BY <1>2, <1>3 DEF Interp!reset, NoExitBelow, XcodeSize
    <2> QED BY <1>2, <2>1 DEF FindInv, Searched
  <1>7. ScanInv /\ WrittenInv /\ RunInv /\ OverrunInv
    BY <1>2 DEF ScanInv, WrittenInv, RunInv, OverrunInv, Written
  <1> QED BY <1>4, <1>5, <1>6, <1>7 DEF InjectInv

LEMMA FindExitInv ==
  ASSUME InjectInv, FindExit
  PROVE  InjectInv'
  <1>1. /\ pc = "find" /\ Interp!HasNext(interp)
        /\ \E xc \in Interp!XcodesAt(interp.offset) : interp' = Interp!AfterNext(interp, xc)
        /\ UNCHANGED <<data, data_tbl_offset, xc_file, pc, jmp, offset, count, orig, trace>>
    BY DEF FindExit
  <1>2. BufferInv' /\ size' = size
    BY <1>1, BufferKept DEF InjectInv, Written
  <1>3. PICK k \in 0..size :
          interp.offset = XcodeSize * k /\ Base + XcodeSize * k <= size /\ NoExitBelow(k)
          /\ interp.status = "ok"
    BY <1>1 DEF InjectInv, FindInv, Interp!HasNext
  <1> DEFINE o == XcodeSize * k
             x == XcodeOf(data[Base + o], data[Base + o + 1], data[Base + o + 2])
  <1>4. o \in Nat /\ k \in Nat /\ o = 3 * k /\ Base \in Nat /\ size \in Nat
    BY Numbers DEF XcodeSize
  <1>5. /\ Base + o + XcodeSize <= size
        /\ interp' = [offset |-> o + XcodeSize,
                      status |-> IF x.opcode = "exit" THEN "exit_op_found" ELSE "ok"]
    BY <1>1, <1>3, <1>4, ReadOK DEF InjectInv
  <1>6. x.opcode = "exit" <=> orig[Base + XcodeSize * k] = XC_EXIT
    <2>1. data = orig
      BY <1>1 DEF InjectInv, BufferInv, Written
    <2> QED BY <2>1, OpcodeOK
  <1> HIDE DEF x, o
  <1>7. InjectTypeOK'
    <2>1. o + 3 \in 0..(Wrap - 1)
      BY <1>4, <1>5, Numbers DEF XcodeSize
    <2>2. interp' \in Interp!INTERP
      BY <1>5, <2>1 DEF Interp!INTERP, XcodeSize
    <2> QED BY <1>1, <1>2, <2>2 DEF InjectInv, InjectTypeOK, xcodesSize, Interp!INTERP
  <1>8. FindInv'
    <2>1. UNCHANGED <<orig, xc_file>>
      BY <1>1
    <2>2. CASE orig[Base + XcodeSize * k] = XC_EXIT
      <3>1. ExitAt(k)
        BY <1>3, <1>4, <1>5, <2>2 DEF ExitAt, o
      <3>2. FirstExit = k
        BY <3>1, FirstExitIs DEF InjectInv
      <3>3. FirstExit' = k
        BY <1>2, <2>1, <3>2, Same
      <3>4. ExitAt(k)'
        BY <1>2, <2>1, <3>1 DEF ExitAt, NoExitBelow
      <3>5. ExitAt(FirstExit)'
        BY <3>3, <3>4 DEF ExitAt, NoExitBelow
      <3> QED BY <1>1, <1>5, <1>6, <2>2, <3>3, <3>5 DEF InjectInv, FindInv, Searched, o
    <2>3. CASE orig[Base + XcodeSize * k] # XC_EXIT
      <3>1. k + 1 \in 0..size /\ XcodeSize * (k + 1) = o + XcodeSize
            /\ Base + XcodeSize * (k + 1) <= size
        BY <1>4, <1>5 DEF XcodeSize
      <3>2. NoExitBelow(k + 1)
        <4>1. \A j \in 0..((k + 1) - 1) : j \in 0..(k - 1) \/ j = k
          BY <1>4
        <4> QED BY <1>3, <2>3, <4>1 DEF NoExitBelow
      <3>3. NoExitBelow(k + 1)'
        BY <2>1, <3>2 DEF NoExitBelow
      <3> QED BY <1>1, <1>2, <1>5, <1>6, <2>3, <3>1, <3>3 DEF InjectInv, FindInv, Searched
    <2> QED BY <2>2, <2>3
  <1>9. ScanInv' /\ WrittenInv' /\ RunInv' /\ OverrunInv'
    BY <1>1 DEF ScanInv, WrittenInv, RunInv, OverrunInv, Written
  <1> QED BY <1>2, <1>7, <1>8, <1>9 DEF InjectInv

LEMMA ExitNotFoundInv ==
  ASSUME InjectInv, ExitNotFound
  PROVE  InjectInv'
  <1>1. /\ pc = "find" /\ pc' = "not_found"
        /\ UNCHANGED <<data, xc_file, interp, jmp, offset, count, orig, trace>>
    BY DEF ExitNotFound
  <1>2. BufferInv' /\ size' = size
    BY <1>1, BufferKept DEF InjectInv, Written
  <1>3. InjectTypeOK'
    BY <1>1, <1>2 DEF InjectInv, InjectTypeOK, xcodesSize, Interp!INTERP
  <1>4. FindInv' /\ ScanInv' /\ WrittenInv' /\ RunInv' /\ OverrunInv'
    BY <1>1 DEF FindInv, Searched, ScanInv, WrittenInv, RunInv, OverrunInv, Written
  <1> QED BY <1>2, <1>3, <1>4 DEF InjectInv

LEMMA ExitFoundInv ==
  ASSUME InjectInv, ExitFound
  PROVE  InjectInv'
  <1>1. /\ pc = "find" /\ pc' = "scan" /\ interp.status = "exit_op_found"
        /\ UNCHANGED <<data, xc_file, interp, count, orig, trace>>
        /\ jmp' = TableInTheWay /\ offset' = IF TableInTheWay THEN TblSize ELSE 0
    BY DEF ExitFound
  <1>9. jmp' \in BOOLEAN /\ offset' \in {0, TblSize} /\ (~jmp' => offset' = 0)
    BY <1>1, Zenon DEF TableInTheWay
  <1>2. BufferInv' /\ size' = size
    BY <1>1, BufferKept DEF InjectInv, Written
  <1>3. /\ count = 0 /\ trace = <<>> /\ ExitAt(FirstExit)
        /\ interp.offset = XcodeSize * FirstExit + XcodeSize
    BY <1>1 DEF InjectInv, FindInv
  <1>4. FirstExit' = FirstExit /\ Start' = Start /\ xcodesSize' = xcodesSize
    BY <1>1, <1>2, Same
  <1>5. InjectTypeOK'
    <2>1. offset' \in 0..size /\ count' \in 0..xcodesSize
      BY <1>1, <1>3, <1>9, Numbers
    <2> QED BY <1>1, <1>2, <1>4, <1>9, <2>1 DEF InjectInv, InjectTypeOK, Interp!INTERP
  <1>6. FindInv'
    <2>1. ExitAt(FirstExit)'
      BY <1>1, <1>2, <1>3, <1>4 DEF ExitAt, NoExitBelow
    <2> QED BY <1>1, <1>3, <1>4, <2>1 DEF FindInv
  <1>7. ScanInv'
    <2> DEFINE o == offset'
    <2>1. /\ Start \in Nat /\ TblSize \in Nat /\ o \in Nat /\ o <= TblSize
          /\ xcodesSize \in Nat
      <3>1. Start = Base + XcodeSize * FirstExit + XcodeSize /\ FirstExit \in Nat
        BY <1>3 DEF Start, OldExit, ExitAt
      <3>2. Start \in Nat
        BY <3>1, Numbers DEF XcodeSize
      <3> QED BY <1>9, <3>2, Numbers
    <2> HIDE DEF o
    <2>2. Counted'
      <3>1. count' = 0 /\ (~jmp' => count' = offset')
        BY <1>1, <1>3, <1>9
      <3>2. \A i \in (Start + o - 0)..(Start + o - 1) : FALSE
        BY <2>1
      <3>3. Start + o - 0 <= Start + TblSize /\ 0 <= o
        BY <2>1
      <3> QED BY <1>4, <3>1, <3>2, <3>3 DEF Counted, o
    <2>3. NoSpaceBelow(Start + offset)'
      <3>1. \A a \in 0..(size - 1) : ~(a >= Start + TblSize /\ a + xcodesSize < Start + o)
        BY <2>1, Numbers
      <3> QED BY <1>2, <1>4, <3>1 DEF NoSpaceBelow, o
    <2> QED BY <1>1, <2>2, <2>3 DEF ScanInv
  <1>8. WrittenInv' /\ RunInv' /\ OverrunInv'
    BY <1>1 DEF WrittenInv, RunInv, OverrunInv, Written
  <1> QED BY <1>2, <1>5, <1>6, <1>7, <1>8 DEF InjectInv

-----------------------------------------------------------------------------
(* The search for space.                                                   *)

\* A step of the search leaves alone all but its own variables.
LEMMA SearchKept ==
  ASSUME InjectInv, pc \in {"scan", "place"}, pc' \in {"scan", "place", "overrun"},
         UNCHANGED <<data, xc_file, interp, orig, trace>>
  PROVE  /\ BufferInv' /\ FindInv' /\ WrittenInv' /\ RunInv'
         /\ size' = size /\ Start' = Start /\ OldExit' = OldExit /\ xcodesSize' = xcodesSize
         /\ data = orig
         /\ offset' \in 0..size /\ count' \in 0..xcodesSize /\ jmp' \in BOOLEAN => InjectTypeOK'
  <1>1. ~Written /\ ~Written'
    BY DEF Written
  <1>2. BufferInv' /\ size' = size
    BY <1>1, BufferKept DEF InjectInv
  <1>3. /\ FirstExit' = FirstExit /\ Start' = Start /\ OldExit' = OldExit
        /\ xcodesSize' = xcodesSize
    BY <1>2, Same
  <1>4. data = orig
    BY <1>1 DEF InjectInv, BufferInv
  <1>5. FindInv'
    <2>1. ExitAt(FirstExit) /\ interp.offset = XcodeSize * FirstExit + XcodeSize /\ trace = <<>>
      BY DEF InjectInv, FindInv, Searched
    <2>2. ExitAt(FirstExit)'
      BY <1>2, <1>3, <2>1 DEF ExitAt, NoExitBelow
    <2> QED BY <1>3, <2>1, <2>2 DEF FindInv
  <1>6. WrittenInv' /\ RunInv'
    BY <1>1 DEF WrittenInv, RunInv, Written
  <1>7. ASSUME offset' \in 0..size, count' \in 0..xcodesSize, jmp' \in BOOLEAN
        PROVE  InjectTypeOK'
    <2>1. pc' \in {"find", "scan", "place", "run", "halt", "not_found", "overrun"}
      OBVIOUS
    <2> QED BY <1>2, <1>3, <1>7, <2>1 DEF InjectInv, InjectTypeOK, Interp!INTERP
  <1> QED BY <1>2, <1>3, <1>4, <1>5, <1>6, <1>7

\* The bound of the search wraps when the xcodes are longer than what is left.
LEMMA ScanEndOK ==
  ASSUME InjectInv, pc = "scan"
  PROVE  /\ Cell = Start + offset
         /\ Start + xcodesSize <= size => ScanEnd = size - Start - xcodesSize
         /\ Start + xcodesSize > size => ScanEnd > size
  <1> DEFINE n == size
             x == xcodesSize
             s == Start
             i == interp.offset
             r == n - s - x
  <1>1. /\ n \in Nat /\ x \in Nat /\ s \in Nat /\ Wrap \in Nat /\ Base \in Nat
        /\ s <= n /\ n + x + 3 < Wrap /\ Base + i = s
    BY Numbers DEF Searched
  <1>2. i \in Nat
    <2>1. interp.offset = XcodeSize * FirstExit + XcodeSize /\ FirstExit \in Nat
      BY DEF InjectInv, FindInv, ExitAt, Searched
    <2> QED BY <2>1 DEF XcodeSize
  <1> HIDE DEF n, x, s, i
  <1>3. n - Base - i - x = r
    BY <1>1, <1>2
  <1>4. ScanEnd = r % Wrap
    BY <1>3 DEF ScanEnd, n, i, x
  <1>5. s + x <= n => r % Wrap = r
    <2>1. s + x <= n => r \in 0..(Wrap - 1)
      BY <1>1
    <2> QED BY <1>1, <2>1
  <1>6. s + x > n => r % Wrap > n
    <2> SUFFICES ASSUME s + x > n PROVE r % Wrap > n
      OBVIOUS
    <2>1. r + Wrap \in 0..(Wrap - 1) /\ r + Wrap > n /\ r \in Int
      BY <1>1
    <2>2. (r + Wrap) % Wrap = r + Wrap
      BY <1>1, <2>1
    <2>3. r % Wrap = r + Wrap
      BY <1>1, <2>1
    <2> QED BY <2>1, <2>3
  <1>7. Cell = s + offset
    BY <1>1, <1>2, Numbers DEF Cell, i
  <1> QED BY <1>4, <1>5, <1>6, <1>7 DEF n, x, s

LEMMA NotZeroInv ==
  ASSUME InjectInv, NotZero
  PROVE  InjectInv'
  <1>1. /\ pc = "scan" /\ pc' = "scan" /\ offset < ScanEnd /\ Cell < size /\ data[Cell] # 0
        /\ count' = 0 /\ jmp' = TRUE /\ offset' = offset + 1
        /\ UNCHANGED <<data, xc_file, interp, orig, trace>>
    BY DEF NotZero
  <1> DEFINE o == offset
             s == Start
             x == xcodesSize
             n == size
  <1>2. /\ o \in Nat /\ s \in Nat /\ x \in Nat /\ n \in Nat /\ TblSize \in Nat
        /\ Cell = s + o /\ s + o < n /\ s + o \in 0..(n - 1)
    BY <1>1, Numbers, ScanEndOK DEF Searched
  <1>3. offset' \in 0..size /\ count' \in 0..xcodesSize /\ jmp' \in BOOLEAN
    BY <1>1, <1>2
  <1>4. /\ BufferInv' /\ FindInv' /\ WrittenInv' /\ RunInv' /\ InjectTypeOK'
        /\ size' = size /\ Start' = Start /\ xcodesSize' = xcodesSize /\ data = orig
    BY <1>1, <1>3, SearchKept
  <1>5. NoSpaceBelow(s + o) /\ orig[s + o] # 0
    BY <1>1, <1>2, <1>4 DEF InjectInv, ScanInv
  <1> HIDE DEF o, s, x, n
  <1>6. Counted'
    <2>1. \A i \in (s + (o + 1) - 0)..(s + (o + 1) - 1) : FALSE
      BY <1>2
    <2>2. s + (o + 1) - 0 - 1 = s + o /\ 0 <= o + 1
      BY <1>2
    <2>3. orig[s + (o + 1) - 0 - 1] # 0
      BY <1>5, <2>2
    <2> QED BY <1>1, <1>4, <2>1, <2>2, <2>3 DEF Counted, o, s
  <1>7. NoSpaceBelow(Start + offset)'
    <2>1. ASSUME NEW a \in 0..(n - 1), a >= s + TblSize, a + x < s + (o + 1)
          PROVE  \E i \in a..(a + x) : orig[i] # 0
      <3>1. CASE a + x < s + o
        BY <1>5, <2>1, <3>1 DEF NoSpaceBelow, n, s, x
      <3>2. CASE ~(a + x < s + o)
        <4>1. s + o \in a..(a + x)
          BY <1>2, <2>1, <3>2
        <4> QED BY <1>5, <4>1
      <3> QED BY <3>1, <3>2
    <2>2. \A a \in 0..(n - 1) : a >= s + TblSize /\ a + x < s + (o + 1)
                                  => \E i \in a..(a + x) : orig[i] # 0
      BY <2>1
    <2> QED BY <1>1, <1>4, <2>2 DEF NoSpaceBelow, n, s, x, o
  <1>8. ScanInv' /\ OverrunInv'
    BY <1>1, <1>6, <1>7 DEF ScanInv, OverrunInv
  <1> QED BY <1>4, <1>8 DEF InjectInv

LEMMA ZeroInv ==
  ASSUME InjectInv, Zero
  PROVE  InjectInv'
  <1>1. /\ pc = "scan" /\ offset < ScanEnd /\ Cell < size /\ data[Cell] = 0
        /\ IF count = xcodesSize
           THEN offset' = offset - count /\ pc' = "place" /\ count' = count
           ELSE offset' = offset + 1 /\ count' = count + 1 /\ pc' = "scan"
        /\ UNCHANGED <<data, xc_file, interp, jmp, orig, trace>>
    BY DEF Zero
  <1> DEFINE o == offset
             s == Start
             x == xcodesSize
             n == size
             c == count
  <1>2. /\ o \in Nat /\ s \in Nat /\ x \in Nat /\ n \in Nat /\ TblSize \in Nat
        /\ c \in Nat /\ c <= x /\ o <= n /\ Cell = s + o /\ s + o < n /\ jmp \in BOOLEAN
    BY <1>1, Numbers, ScanEndOK DEF Searched
  <1>3. Counted /\ NoSpaceBelow(s + o)
    BY <1>1 DEF InjectInv, ScanInv
  <1>4. c <= o /\ (~jmp => c = o) /\ data = orig /\ orig[s + o] = 0
    BY <1>1, <1>2, <1>3 DEF Counted, InjectInv, BufferInv, Written
  <1>5. \A i \in (s + o - c)..(s + o) : orig[i] = 0
    <2>1. \A i \in (s + o - c)..(s + o - 1) : orig[i] = 0
      BY <1>3 DEF Counted
    <2>2. \A i \in (s + o - c)..(s + o) : i \in (s + o - c)..(s + o - 1) \/ i = s + o
      BY <1>2
    <2> QED BY <1>4, <2>1, <2>2
  <1>6. CASE count = xcodesSize
    <2>1. offset' = o - c /\ pc' = "place" /\ count' = count
      BY <1>1, <1>6
    <2>2. /\ offset' \in 0..size /\ count' \in 0..xcodesSize /\ jmp' \in BOOLEAN
      <3>1. o - c \in 0..size
        BY <1>2, <1>4
      <3> QED BY <1>1, <1>2, <2>1, <3>1
    <2>3. /\ BufferInv' /\ FindInv' /\ WrittenInv' /\ RunInv' /\ InjectTypeOK'
          /\ size' = size /\ Start' = Start /\ xcodesSize' = xcodesSize
      BY <1>1, <2>1, <2>2, SearchKept
    <2>4. SpaceFound'
      <3>1. s + x <= n
        BY <1>2, <1>4, <1>6
      <3>2. o < n - s - x
        BY <1>1, <3>1, ScanEndOK
      <3> HIDE DEF o, s, n, c
      <3>3. s + (o - c) + 2 * x < n
        BY <1>2, <1>6, <3>2 DEF c
      <3>4. s + (o - c) = s + o - c /\ s + (o - c) + x = s + o
        BY <1>2, <1>6 DEF c
      <3>5. ~jmp => o - c = 0
        BY <1>2, <1>4
      <3> HIDE DEF x
      <3>6. \A i \in (s + (o - c))..(s + (o - c) + x) : orig[i] = 0
        BY <1>5, <3>4
      <3> QED BY <1>1, <1>6, <2>1, <2>3, <3>3, <3>5, <3>6 DEF SpaceFound, s, x, n
    <2>5. ScanInv' /\ OverrunInv'
      BY <2>1, <2>4 DEF ScanInv, OverrunInv
    <2> QED BY <2>3, <2>5 DEF InjectInv
  <1>7. CASE count # xcodesSize
    <2>1. offset' = o + 1 /\ pc' = "scan" /\ count' = c + 1
      BY <1>1, <1>7
    <2>2. /\ offset' \in 0..size /\ count' \in 0..xcodesSize /\ jmp' \in BOOLEAN
      <3>1. o + 1 \in 0..size /\ c + 1 \in 0..xcodesSize
        BY <1>2, <1>7
      <3> QED BY <1>1, <1>2, <2>1, <3>1
    <2>3. /\ BufferInv' /\ FindInv' /\ WrittenInv' /\ RunInv' /\ InjectTypeOK'
          /\ size' = size /\ Start' = Start /\ xcodesSize' = xcodesSize
      BY <1>1, <2>1, <2>2, SearchKept
    <2>4. c < x
      BY <1>2, <1>7
    <2>5. s + o - c <= s + TblSize \/ orig[s + o - c - 1] # 0
      BY <1>3 DEF Counted
    <2> HIDE DEF o, s, n, c, x
    <2>6. Counted'
      <3>1. s + (o + 1) - (c + 1) = s + o - c /\ s + (o + 1) - 1 = s + o /\ c + 1 <= o + 1
            /\ (~jmp => c + 1 = o + 1)
        BY <1>2, <1>4
      <3>2. \A i \in (s + (o + 1) - (c + 1))..(s + (o + 1) - 1) : i < n /\ orig[i] = 0
        <4>1. \A i \in (s + o - c)..(s + o) : i < n
          BY <1>2
        <4> QED BY <1>5, <3>1, <4>1
      <3>3. \/ s + (o + 1) - (c + 1) <= s + TblSize
            \/ orig[s + (o + 1) - (c + 1) - 1] # 0
        <4>1. s + (o + 1) - (c + 1) - 1 = s + o - c - 1
          BY <1>2
        <4> QED BY <2>5, <3>1, <4>1, Zenon
      <3> QED BY <1>1, <2>1, <2>3, <3>1, <3>2, <3>3 DEF Counted, s, n
    <2>7. NoSpaceBelow(Start + offset)'
      <3>1. ASSUME NEW a \in 0..(n - 1), a >= s + TblSize, a + x < s + (o + 1)
            PROVE  \E i \in a..(a + x) : orig[i] # 0
        <4>1. CASE a + x < s + o
          BY <1>3, <3>1, <4>1 DEF NoSpaceBelow, n, x, s
        <4>2. CASE ~(a + x < s + o)
          <5>1. s + o - c - 1 \in a..(a + x) /\ ~(s + o - c <= s + TblSize)
            BY <1>2, <2>4, <3>1, <4>2
          <5> QED BY <2>5, <5>1
        <4> QED BY <4>1, <4>2
      <3>2. \A a \in 0..(n - 1) : a >= s + TblSize /\ a + x < s + (o + 1)
                                    => \E i \in a..(a + x) : orig[i] # 0
        BY <3>1
      <3> QED BY <1>1, <2>1, <2>3, <3>2 DEF NoSpaceBelow, n, s, x
    <2>8. ScanInv' /\ OverrunInv'
      BY <2>1, <2>6, <2>7 DEF ScanInv, OverrunInv
    <2> QED BY <2>3, <2>8 DEF InjectInv
  <1> QED BY <1>6, <1>7

LEMMA NoSpaceInv ==
  ASSUME InjectInv, NoSpace
  PROVE  InjectInv'
  <1>1. /\ pc = "scan" /\ pc' = "place" /\ offset >= ScanEnd
        /\ UNCHANGED <<data, xc_file, interp, jmp, offset, count, orig, trace>>
    BY DEF NoSpace
  <1>2. /\ offset \in 0..size /\ count \in 0..xcodesSize /\ jmp \in BOOLEAN
        /\ Start \in Nat /\ xcodesSize \in Nat /\ size \in Nat
    BY <1>1, Numbers DEF Searched
  <1>3. /\ BufferInv' /\ FindInv' /\ WrittenInv' /\ RunInv' /\ InjectTypeOK'
        /\ size' = size /\ Start' = Start /\ xcodesSize' = xcodesSize
    <2>1. offset' \in 0..size /\ count' \in 0..xcodesSize /\ jmp' \in BOOLEAN
      BY <1>1, <1>2
    <2> QED BY <1>1, <2>1, SearchKept
  <1>4. Start + offset + xcodesSize >= size
    BY <1>1, <1>2, ScanEndOK
  <1>5. SearchEnded'
    <2>1. Counted /\ NoSpaceBelow(Start + offset)
      BY <1>1 DEF InjectInv, ScanInv
    <2>2. Counted' /\ NoSpaceBelow(Start + offset)'
      BY <1>1, <1>3, <2>1 DEF Counted, NoSpaceBelow
    <2> QED BY <1>1, <1>3, <1>4, <2>2 DEF SearchEnded
  <1>6. ScanInv' /\ OverrunInv'
    BY <1>1, <1>5 DEF ScanInv, OverrunInv
  <1> QED BY <1>3, <1>6 DEF InjectInv

\* A step that overruns the buffer, when there was no space.
LEMMA OverrunStep ==
  ASSUME InjectInv, pc \in {"scan", "place"}, pc' = "overrun",
         UNCHANGED <<data, xc_file, interp, jmp, offset, count, orig, trace>>,
         xcodesSize >= XcodeSize =>
           \A a \in 0..(size - 1) :
             a >= Start + TblSize /\ a + 2 * xcodesSize < size
               => \E i \in a..(a + xcodesSize) : orig[i] # 0
  PROVE  InjectInv'
  <1>1. offset \in 0..size /\ count \in 0..xcodesSize /\ jmp \in BOOLEAN
    BY Numbers
  <1>2. /\ BufferInv' /\ FindInv' /\ WrittenInv' /\ RunInv' /\ InjectTypeOK'
        /\ size' = size /\ Start' = Start /\ xcodesSize' = xcodesSize /\ OldExit' = OldExit
    <2>1. offset' \in 0..size /\ count' \in 0..xcodesSize /\ jmp' \in BOOLEAN
      BY <1>1
    <2> QED BY <2>1, SearchKept
  <1>3. DOMAIN orig = 0..(size - 1)
    BY DEF InjectInv, BufferInv
  <1>4. SpaceIsFound'
    <2>1. xcodesSize' >= XcodeSize =>
            ~\E a \in DOMAIN orig' :
               /\ a >= OldExit' + XcodeSize + TblSize /\ a + 2 * xcodesSize' < size'
               /\ \A i \in a..(a + xcodesSize') : orig'[i] = 0
      BY <1>2, <1>3 DEF Start
    <2> QED BY <1>2, <2>1 DEF SpaceIsFound
  <1>5. ScanInv' /\ OverrunInv'
    BY <1>4 DEF ScanInv, OverrunInv
  <1> QED BY <1>2, <1>5 DEF InjectInv

LEMMA ScanOverrunInv ==
  ASSUME InjectInv, ScanOverrun
  PROVE  InjectInv'
  <1>1. /\ pc = "scan" /\ pc' = "overrun" /\ offset < ScanEnd /\ Cell >= size
        /\ UNCHANGED <<data, xc_file, interp, jmp, offset, count, orig, trace>>
    BY DEF ScanOverrun
  <1>2. /\ offset \in Nat /\ xcodesSize \in Nat /\ size \in Nat /\ TblSize \in Nat
        /\ Start \in Nat /\ Start + offset >= size
    BY <1>1, Numbers, ScanEndOK DEF Searched
  <1>3. Start + xcodesSize > size
    BY <1>1, <1>2, ScanEndOK
  <1>4. \A a \in 0..(size - 1) : ~(a >= Start + TblSize /\ a + 2 * xcodesSize < size)
    BY <1>2, <1>3
  <1> QED BY <1>1, <1>4, OverrunStep

\* Where the xcodes go.
LEMMA PlaceOK ==
  ASSUME InjectInv, pc = "place"
  PROVE  Place = At /\ (jmp => At = Start + offset) /\ (~jmp => At = OldExit)
  <1>1. Base + interp.offset = Start /\ Start = OldExit + 3 /\ Searched
    BY Numbers DEF Searched
  <1>2. OldExit \in Nat /\ offset \in Nat /\ Base \in Nat
    BY <1>1, Numbers
  <1>3. interp.offset \in Nat
    BY <1>1 DEF InjectInv, FindInv, ExitAt, XcodeSize
  <1>4. Exit = OldExit
    BY <1>1, <1>2, <1>3 DEF Exit, XcodeSize
  <1> QED BY <1>1, <1>4 DEF Place, At

LEMMA PlaceOverrunInv ==
  ASSUME InjectInv, PlaceOverrun
  PROVE  InjectInv'
  <1>1. /\ pc = "place" /\ pc' = "overrun" /\ ~Fits
        /\ UNCHANGED <<data, xc_file, interp, jmp, offset, count, orig, trace>>
    BY DEF PlaceOverrun
  <1> DEFINE o == offset
             s == Start
             x == xcodesSize
             n == size
  <1>2. /\ o \in Nat /\ s \in Nat /\ x \in Nat /\ n \in Nat /\ TblSize \in Nat /\ jmp \in BOOLEAN
        /\ OldExit \in Nat /\ s = OldExit + 3
    BY <1>1, Numbers DEF Searched
  <1>3. ~(At + x + 3 <= n) /\ (jmp => At = s + o) /\ (~jmp => At = OldExit)
    BY <1>1, PlaceOK DEF Fits, XcodeSize
  <1>4. ASSUME x >= 3 PROVE SearchEnded
    <2>1. ~SpaceFound
      <3> SUFFICES ASSUME SpaceFound PROVE FALSE
        OBVIOUS
      <3>1. (~jmp => o = 0) /\ s + o + 2 * x < n
        BY DEF SpaceFound
      <3> HIDE DEF o, s, x, n
      <3> QED BY <1>2, <1>3, <1>4, <3>1
    <2> QED BY <1>1, <2>1 DEF InjectInv, ScanInv
  <1>5. ASSUME x >= 3, NEW a \in 0..(n - 1), a >= s + TblSize, a + 2 * x < n
        PROVE  \E i \in a..(a + x) : orig[i] # 0
    <2>1. NoSpaceBelow(s + o) /\ s + o + x >= n
      BY <1>4, <1>5 DEF SearchEnded
    <2>2. a + x < s + o
      <3> HIDE DEF o, s, x, n
      <3> QED BY <1>2, <1>5, <2>1
    <2> QED BY <1>5, <2>1, <2>2 DEF NoSpaceBelow
  <1>6. x >= XcodeSize => \A a \in 0..(n - 1) : a >= s + TblSize /\ a + 2 * x < n
                             => \E i \in a..(a + x) : orig[i] # 0
    BY <1>5 DEF XcodeSize
  <1> QED BY <1>1, <1>6, OverrunStep

-----------------------------------------------------------------------------
(* The xcodes are written.                                                 *)

\* The cells that are written are the file's and those of an exit xcode.
LEMMA NewCells ==
  ASSUME InjectInv
  PROVE  /\ DOMAIN (xc_file \o NewExit) = 1..(xcodesSize + 3)
         /\ \A i \in 1..(xcodesSize + 3) : (xc_file \o NewExit)[i] \in Nat
         /\ \A i \in 1..xcodesSize : (xc_file \o NewExit)[i] = xc_file[i]
         /\ (xc_file \o NewExit)[xcodesSize + 1] = XC_EXIT
  <1>1. xc_file \in Seq(Nat) /\ NewExit \in Seq(Nat) /\ Len(NewExit) = 3 /\ NewExit[1] = XC_EXIT
    BY DEF InjectInv, BufferInv, NewExit, XC_EXIT
  <1>2. xc_file \o NewExit \in Seq(Nat) /\ Len(xc_file \o NewExit) = Len(xc_file) + 3
        /\ \A i \in 1..(Len(xc_file) + 3) :
             (xc_file \o NewExit)[i] =
               IF i <= Len(xc_file) THEN xc_file[i] ELSE NewExit[i - Len(xc_file)]
    <2> DEFINE e == NewExit
    <2>1. e \in Seq(Nat) /\ Len(e) = 3
      BY <1>1
    <2> HIDE DEF e
    <2>2. /\ xc_file \o e \in Seq(Nat) /\ Len(xc_file \o e) = Len(xc_file) + Len(e)
          /\ \A i \in 1..(Len(xc_file) + Len(e)) :
               (xc_file \o e)[i] = IF i <= Len(xc_file) THEN xc_file[i] ELSE e[i - Len(xc_file)]
      BY <1>1, <2>1, ConcatProperties
    <2> QED BY <2>1, <2>2, Zenon DEF e
  <1>3. Len(xc_file) \in Nat
    BY <1>1, LenProperties
  <1>4. DOMAIN (xc_file \o NewExit) = 1..(Len(xc_file) + 3)
    BY <1>2, LenProperties
  <1>5. \A i \in 1..(Len(xc_file) + 3) : (xc_file \o NewExit)[i] \in Nat
    BY <1>2, ElementOfSeq
  <1>6. \A i \in 1..Len(xc_file) : i \in 1..(Len(xc_file) + 3) /\ i <= Len(xc_file)
    BY <1>3
  <1>7. Len(xc_file) + 1 \in 1..(Len(xc_file) + 3) /\ ~(Len(xc_file) + 1 <= Len(xc_file))
        /\ (Len(xc_file) + 1) - Len(xc_file) = 1
    BY <1>3
  <1> QED BY <1>1, <1>2, <1>4, <1>5, <1>6, <1>7 DEF xcodesSize

\* What the buffer is afterwards, cell by cell.
LEMMA CellsPlaced ==
  ASSUME InjectInv, pc = "place", data' = Placed(Patched, Place), NEW a \in 0..(size - 1)
  PROVE  /\ a - At + 1 \in 1..(xcodesSize + 3) => data'[a] = (xc_file \o NewExit)[a - At + 1]
         /\ a - At + 1 \notin 1..(xcodesSize + 3) =>
              data'[a] = IF jmp /\ a = OldExit THEN XC_JMP
                         ELSE IF jmp /\ a = OldExit + 1 THEN 0
                         ELSE IF jmp /\ a = OldExit + 2 THEN offset ELSE orig[a]
         /\ data' \in [0..(size - 1) -> Nat]
  <1>1. Place = At /\ (~jmp => At = OldExit)
    BY PlaceOK
  <1>2. data \in [0..(size - 1) -> Nat] /\ data = orig
    BY DEF InjectInv, BufferInv, Written
  <1>3. DOMAIN data = 0..(size - 1) /\ \A c \in 0..(size - 1) : data[c] \in Nat
    BY <1>2
  <1>4. Exit = OldExit
    <2>1. Base + interp.offset = Start /\ Start = OldExit + 3 /\ OldExit \in Nat /\ Base \in Nat
      BY Numbers DEF Searched
    <2>2. interp.offset \in Nat
      BY DEF InjectInv, FindInv, ExitAt, Searched, XcodeSize
    <2> QED BY <2>1, <2>2 DEF Exit, XcodeSize
  <1> DEFINE P(c) == IF jmp /\ c = OldExit THEN XC_JMP
                     ELSE IF jmp /\ c = OldExit + 1 THEN 0
                     ELSE IF jmp /\ c = OldExit + 2 THEN offset ELSE orig[c]
  <1>5. DOMAIN Patched = 0..(size - 1) /\ \A c \in 0..(size - 1) : Patched[c] = P(c)
    BY <1>2, <1>3, <1>4 DEF Patched
  <1>6. \A c \in 0..(size - 1) : P(c) \in Nat
    <2>1. offset \in Nat
      BY Numbers
    <2> QED BY <1>2, <1>3, <2>1 DEF XC_JMP
  <1> HIDE DEF P
  <1> DEFINE new == xc_file \o NewExit
             D == 1..(xcodesSize + 3)
  <1>7. DOMAIN new = D /\ \A i \in D : new[i] \in Nat
    BY NewCells
  <1> HIDE DEF D
  <1>8. Placed(Patched, At) =
          [c \in 0..(size - 1) |-> IF c - At + 1 \in D THEN new[c - At + 1] ELSE Patched[c]]
    BY <1>5, <1>7 DEF Placed
  <1> HIDE DEF new
  <1>9. data' = [c \in 0..(size - 1) |-> IF c - At + 1 \in D THEN new[c - At + 1] ELSE P(c)]
    BY <1>1, <1>5, <1>8
  <1>10. data' \in [0..(size - 1) -> Nat]
    BY <1>6, <1>7, <1>9
  <1>11. data'[a] = IF a - At + 1 \in D THEN new[a - At + 1] ELSE P(a)
    BY <1>9
  <1> QED BY <1>10, <1>11 DEF new, D, P

LEMMA PlaceXcodesInv ==
  ASSUME InjectInv, PlaceXcodes
  PROVE  InjectInv'
  <1>1. /\ pc = "place" /\ pc' = "run" /\ Fits /\ data' = Placed(Patched, Place)
        /\ interp' = Interp!reset
        /\ UNCHANGED <<xc_file, jmp, offset, count, orig, trace>>
    BY DEF PlaceXcodes
  <1> DEFINE o == offset
             s == Start
             e == OldExit
             x == xcodesSize
             n == size
             d == data'
             at == At
             new == xc_file \o NewExit
  <1>2. /\ o \in Nat /\ s \in Nat /\ e \in Nat /\ x \in Nat /\ n \in Nat /\ jmp \in BOOLEAN
        /\ s = e + 3 /\ o <= n /\ s <= n
    BY <1>1, Numbers DEF Searched
  <1>3. at + x + 3 <= n /\ (jmp => at = s + o) /\ (~jmp => at = e)
    BY <1>1, PlaceOK DEF Fits, XcodeSize
  <1>4. at \in Nat
    BY <1>2, <1>3
  <1>5. DOMAIN new = 1..(x + 3) /\ (\A i \in 1..x : new[i] = xc_file[i]) /\ new[x + 1] = XC_EXIT
    BY NewCells
  <1>6. \A a \in 0..(n - 1) :
          /\ a - at + 1 \in 1..(x + 3) => d[a] = new[a - at + 1]
          /\ a - at + 1 \notin 1..(x + 3) =>
               d[a] = IF jmp /\ a = e THEN XC_JMP
                      ELSE IF jmp /\ a = e + 1 THEN 0
                      ELSE IF jmp /\ a = e + 2 THEN o ELSE orig[a]
    BY <1>1, CellsPlaced
  <1>7. data' \in [0..(size - 1) -> Nat]
    <2>1. 0 \in 0..(size - 1)
      BY Numbers
    <2> QED BY <1>1, <2>1, CellsPlaced
  <1>8. size' = size
    BY <1>7, SizeKept DEF InjectInv
  <1>9. /\ FirstExit' = FirstExit /\ OldExit' = e /\ Start' = s /\ xcodesSize' = x
        /\ At' = at
    <2>1. FirstExit' = FirstExit /\ OldExit' = e /\ Start' = s /\ xcodesSize' = x
      BY <1>1, <1>8, Same
    <2> QED BY <1>1, <2>1 DEF At
  <1>10. BufferInv'
    <2>1. Written'
      BY <1>1 DEF Written
    <2> QED BY <1>1, <1>7, <1>8, <1>9, <2>1 DEF InjectInv, BufferInv
  <1>11. InjectTypeOK'
    <2>1. DOMAIN orig = 0..(size - 1)
      BY DEF InjectInv, BufferInv
    <2>2. interp' \in Interp!INTERP
      <3>1. 0 \in 0..(Wrap - 1)
        BY Numbers
      <3> QED BY <1>1, <3>1 DEF Interp!reset, Interp!INTERP
    <2> QED BY <1>1, <1>7, <1>8, <1>9, <2>1, <2>2 DEF InjectInv, InjectTypeOK, Interp!INTERP
  <1>12. ExitAt(FirstExit) /\ trace = <<>>
    BY <1>1 DEF InjectInv, FindInv, Searched
  <1>13. FindInv'
    <2>1. ExitAt(FirstExit)'
      BY <1>1, <1>8, <1>9, <1>12 DEF ExitAt, NoExitBelow
    <2> QED BY <1>1, <2>1 DEF FindInv
  \* Where zeros are, when as many were counted as are needed.
  <1>14. ASSUME count = x, NEW a \in s..(s + o + x), jmp => a >= s + o, ~jmp => a <= e + x + 2
         PROVE  orig[a] = 0
    <2>1. CASE SpaceFound
      <3>1. (~jmp => o = 0) /\ \A i \in (s + o)..(s + o + x) : orig[i] = 0
        BY <2>1 DEF SpaceFound
      <3> HIDE DEF s, o, x, n, e
      <3>2. a \in (s + o)..(s + o + x)
        BY <1>2, <1>14, <3>1
      <3> QED BY <3>1, <3>2
    <2>2. CASE SearchEnded
      <3>1. /\ s + o + x >= n /\ (~jmp => count = o)
            /\ \A i \in (s + o - count)..(s + o - 1) : orig[i] = 0
        BY <2>2 DEF SearchEnded, Counted
      <3> HIDE DEF s, o, x, n, e, at
      <3>2. ~jmp
        BY <1>2, <1>3, <3>1
      <3>3. a \in (s + o - count)..(s + o - 1)
        BY <1>2, <1>14, <3>1, <3>2
      <3> QED BY <3>1, <3>3
    <2> QED BY <1>1, <2>1, <2>2 DEF InjectInv, ScanInv
  <1>15. /\ jmp => d[e] = XC_JMP /\ d[e + 2] = o
         /\ \A i \in 1..x : d[at + i - 1] = xc_file[i]
         /\ d[at + x] = XC_EXIT
         /\ \A a \in 0..(n - 1) : \/ d[a] = orig[a]
                                  \/ a \in e..(e + 3 - 1)
                                  \/ a \in at..(at + x + 3 - 1)
    <2> HIDE DEF o, s, e, x, n, d, at, new
    <2>1. ASSUME jmp PROVE d[e] = XC_JMP /\ d[e + 2] = o
      <3>1. /\ e \in 0..(n - 1) /\ e - at + 1 \notin 1..(x + 3)
            /\ e + 2 \in 0..(n - 1) /\ (e + 2) - at + 1 \notin 1..(x + 3)
            /\ ~(e + 2 = e) /\ ~(e + 2 = e + 1)
        BY <1>2, <1>3, <2>1
      <3> QED BY <1>6, <2>1, <3>1
    <2>2. ASSUME NEW i \in 1..x PROVE d[at + i - 1] = xc_file[i]
      <3>1. at + i - 1 \in 0..(n - 1) /\ (at + i - 1) - at + 1 = i /\ i \in 1..(x + 3)
        BY <1>2, <1>3, <1>4
      <3> QED BY <1>5, <1>6, <3>1
    <2>3. d[at + x] = XC_EXIT
      <3>1. at + x \in 0..(n - 1) /\ (at + x) - at + 1 = x + 1 /\ x + 1 \in 1..(x + 3)
        BY <1>2, <1>3, <1>4
      <3> QED BY <1>5, <1>6, <3>1
    <2>4. ASSUME NEW a \in 0..(n - 1), a \notin e..(e + 3 - 1), a \notin at..(at + x + 3 - 1)
          PROVE  d[a] = orig[a]
      <3>1. a - at + 1 \notin 1..(x + 3) /\ a # e /\ a # e + 1 /\ a # e + 2
        BY <1>2, <1>4, <2>4
      <3> QED BY <1>6, <2>4, <3>1
    <2> QED BY <2>1, <2>2, <2>3, <2>4
  <1>16. WrittenInv'
    <2>1. count = x => \A a \in s..(s + o + x) :
                         (jmp => a >= s + o) /\ (~jmp => a <= e + x + 2) => orig[a] = 0
      BY <1>14
    <2> HIDE DEF o, s, e, x, n, d, at, new
    <2>2. offset' = o /\ size' = n
      BY <1>1, <1>8 DEF o, n
    <2> QED BY <1>1, <1>3, <1>9, <1>15, <2>1, <2>2 DEF WrittenInv, XcodeSize, d
  <1>17. RunInv'
    <2>1. interp'.status = "ok" /\ interp'.offset = XcodeSize * 0
      BY <1>1 DEF Interp!reset, XcodeSize
    <2>2. Ran(0)'
      BY <1>1, <1>12 DEF Ran
    <2>3. 0 \in 0..FirstExit'
      BY <1>9, <1>12 DEF ExitAt
    <2> QED BY <1>1, <2>1, <2>2, <2>3 DEF RunInv
  <1>18. ScanInv' /\ OverrunInv'
    BY <1>1 DEF ScanInv, OverrunInv
  <1> QED BY <1>10, <1>11, <1>13, <1>16, <1>17, <1>18 DEF InjectInv

-----------------------------------------------------------------------------
(* The console runs the table.                                             *)

\* What it reads, and where it goes on.
LEMMA RunReads ==
  ASSUME InjectInv, RunXcode
  PROVE  \E xc :
           /\ interp.offset \in Nat /\ Base + interp.offset + 3 <= size
           /\ xc = XcodeOf(data[Base + interp.offset], data[Base + interp.offset + 1],
                           data[Base + interp.offset + 2])
           /\ xc.addr \in Nat /\ xc.data \in Nat
           /\ interp' = [offset |-> IF xc.opcode = "jmp"
                                    THEN (interp.offset + 3 + xc.data) % Wrap
                                    ELSE interp.offset + 3,
                         status |-> IF xc.opcode = "exit" THEN "exit_op_found" ELSE "ok"]
           /\ trace' = IF xc.opcode = "other" THEN Append(trace, xc) ELSE trace
           /\ pc' = IF xc.opcode = "exit" THEN "halt" ELSE "run"
  <1>1. pc = "run" /\ Interp!HasNext(interp)
    BY DEF RunXcode
  <1>2. PICK xc \in Interp!XcodesAt(interp.offset) :
          /\ interp' = IF xc.opcode = "jmp"
                       THEN Interp!Moved(Interp!AfterNext(interp, xc), xc.data)
                       ELSE Interp!AfterNext(interp, xc)
          /\ trace' = IF xc.opcode = "other" THEN Append(trace, xc) ELSE trace
          /\ pc' = IF xc.opcode = "exit" THEN "halt" ELSE "run"
    BY DEF RunXcode
  <1> DEFINE o == interp.offset
             c == Base + o
  <1>3. o \in Nat /\ Base \in Nat /\ size \in Nat /\ BufferInv
    BY Numbers DEF InjectInv, InjectTypeOK, Interp!INTERP
  <1>4. o + 3 <= size - Base
    BY <1>2 DEF Interp!XcodesAt, Interp!InTable, XcodeSize
  <1>5. Base + o + 3 <= size
    <2> HIDE DEF o
    <2> QED BY <1>3, <1>4
  <1>6. /\ Interp!XcodesAt(o) = {XcodeOf(data[c], data[c + 1], data[c + 2])}
        /\ Interp!AfterNext(interp, xc) =
             [offset |-> o + 3, status |-> IF xc.opcode = "exit" THEN "exit_op_found" ELSE "ok"]
    <2>1. Base + o <= size
      <3> HIDE DEF o
      <3> QED BY <1>3, <1>5
    <2> QED BY <1>1, <1>3, <2>1, ReadOK DEF XcodeSize
  <1>7. xc = XcodeOf(data[c], data[c + 1], data[c + 2])
    BY <1>2, <1>6
  <1>8. data[c + 1] \in Nat /\ data[c + 2] \in Nat
    <2> HIDE DEF o
    <2>1. c + 1 \in 0..(size - 1) /\ c + 2 \in 0..(size - 1)
      BY <1>3, <1>5
    <2> QED BY <1>3, <2>1 DEF BufferInv
  <1>9. xc.addr \in Nat /\ xc.data \in Nat
    BY <1>7, <1>8, OpcodeOK
  <1>10. interp' = [offset |-> IF xc.opcode = "jmp" THEN (o + 3 + xc.data) % Wrap ELSE o + 3,
                    status |-> IF xc.opcode = "exit" THEN "exit_op_found" ELSE "ok"]
    <2> HIDE DEF o
    <2>1. CASE xc.opcode = "jmp"
      BY <1>2, <1>6, <2>1 DEF Interp!Moved
    <2>2. CASE xc.opcode # "jmp"
      BY <1>2, <1>6, <2>2
    <2> QED BY <2>1, <2>2
  <1> QED BY <1>2, <1>3, <1>5, <1>7, <1>9, <1>10

\* One xcode more has been run, the next one of the BIOS' or of the file's.
LEMMA RanOne ==
  ASSUME InjectInv, UNCHANGED <<data, orig, xc_file>>, size' = size, NEW k \in Nat, NEW xc,
         Ran(k), trace' = Append(trace, xc), xc \in [opcode : {"other"}, addr : Nat, data : Nat],
         xc = IF k + 1 <= FirstExit THEN OldXcodes[k + 1] ELSE FileXcodes[(k + 1) - FirstExit]
  PROVE  Ran(k + 1)'
  <1> DEFINE X(i) == IF i <= FirstExit THEN OldXcodes[i] ELSE FileXcodes[i - FirstExit]
             T == [opcode : {"other"}, addr : Nat, data : Nat]
  <1>1. trace \in Seq([opcode : {"other"}, addr : Nat, data : Nat])
    BY DEF InjectInv, InjectTypeOK
  <1>2. Len(trace) = k /\ \A i \in 1..k : trace[i] = X(i)
    BY DEF Ran
  <1>3. xc = X(k + 1)
    OBVIOUS
  <1> HIDE DEF X
  <1>4. Len(trace') = k + 1 /\ \A i \in 1..(k + 1) : trace'[i] = IF i <= k THEN trace[i] ELSE xc
    <2>1. trace \in Seq(T) /\ xc \in T
      BY <1>1
    <2> HIDE DEF T
    <2>3. /\ Len(Append(trace, xc)) = Len(trace) + 1
          /\ \A i \in 1..Len(trace) : Append(trace, xc)[i] = trace[i]
          /\ Append(trace, xc)[Len(trace) + 1] = xc
      BY <2>1, AppendProperties
    <2>4. \A i \in 1..(k + 1) : (i <= k /\ i \in 1..k) \/ (~(i <= k) /\ i = k + 1)
      OBVIOUS
    <2> QED BY <1>2, <2>3, <2>4
  <1>5. \A i \in 1..(k + 1) : trace'[i] = X(i)
    <2>1. \A i \in 1..(k + 1) : (i <= k /\ i \in 1..k) \/ (~(i <= k) /\ i = k + 1)
      OBVIOUS
    <2> QED BY <1>2, <1>3, <1>4, <2>1
  <1>6. FirstExit' = FirstExit /\ OldXcodes' = OldXcodes /\ FileXcodes' = FileXcodes
    BY Same
  <1> QED BY <1>4, <1>5, <1>6 DEF Ran, X

\* The xcodes in the table are those of the BIOS up to its first exit, then those of
\* the file.
LEMMA TableRead ==
  ASSUME InjectInv, pc = "run", NEW a \in Nat, a + 3 <= size
  PROVE  LET xc == XcodeOf(data[a], data[a + 1], data[a + 2]) IN
         /\ \A k \in 0..(FirstExit - 1) : a = Base + XcodeSize * k => xc = OldXcodes[k + 1]
         /\ jmp /\ a = OldExit => xc.opcode = "jmp" /\ xc.data = offset
         /\ \A j \in 0..(FileCount - 1) : a = At + XcodeSize * j => xc = FileXcodes[j + 1]
         /\ a = At + xcodesSize => xc.opcode = "exit"
  <1> DEFINE x == xcodesSize
             n == size
             e == OldExit
             at == At
             f == FirstExit
             m == FileCount
  <1>1. /\ x \in Nat /\ n \in Nat /\ Base \in Nat /\ f \in Nat /\ e = Base + 3 * f
        /\ offset \in Nat /\ Start = e + 3
    BY Numbers DEF Searched
  <1>2. at >= e /\ at \in Nat
    BY <1>1 DEF At
  <1>3. /\ at + x + 3 <= n
        /\ jmp => data[e] = XC_JMP /\ data[e + 2] = offset
        /\ \A i \in 1..x : data[at + i - 1] = xc_file[i]
        /\ data[at + x] = XC_EXIT
        /\ \A b \in 0..(n - 1) :
             data[b] = orig[b] \/ b \in e..(e + 3 - 1) \/ b \in at..(at + x + 3 - 1)
    BY DEF InjectInv, WrittenInv, Written, XcodeSize
  <1>4. m \in Nat /\ 3 * m <= x
    BY <1>1 DEF FileCount, XcodeSize
  <1>5. BufferInv /\ f = FirstExit
    BY DEF InjectInv
  <1> HIDE DEF n, e, at, f, m, x
  <1>6. ASSUME NEW k \in 0..(f - 1), a = Base + 3 * k
        PROVE  XcodeOf(data[a], data[a + 1], data[a + 2]) = OldXcodes[k + 1]
    <2>1. \A b \in {a, a + 1, a + 2} :
            b \in 0..(n - 1) /\ b \notin e..(e + 3 - 1) /\ b \notin at..(at + x + 3 - 1)
      BY <1>1, <1>2, <1>6 DEF n
    <2>2. data[a] = orig[a] /\ data[a + 1] = orig[a + 1] /\ data[a + 2] = orig[a + 2]
      BY <1>3, <2>1
    <2>3. k + 1 \in 1..f /\ 3 * ((k + 1) - 1) = 3 * k /\ 3 * k \in Nat
      BY <1>1
    <2>4. OldXcodes[k + 1] = XcodesOf(orig)[3 * k]
      BY <2>3 DEF OldXcodes, XcodeSize, f
    <2>5. XcodesOf(orig)[3 * k] = XcodeOf(orig[a], orig[a + 1], orig[a + 2])
      BY <1>5, <1>6, <2>3, TableOK DEF XcodeSize
    <2> QED BY <2>2, <2>4, <2>5
  <1>7. ASSUME NEW j \in 0..(m - 1), a = at + 3 * j
        PROVE  XcodeOf(data[a], data[a + 1], data[a + 2]) = FileXcodes[j + 1]
    <2>1. /\ 3 * j + 1 \in 1..x /\ 3 * j + 2 \in 1..x /\ 3 * j + 3 \in 1..x
          /\ at + (3 * j + 1) - 1 = a /\ at + (3 * j + 2) - 1 = a + 1
          /\ at + (3 * j + 3) - 1 = a + 2
      BY <1>1, <1>2, <1>4, <1>7
    <2>2. /\ data[a] = xc_file[3 * j + 1] /\ data[a + 1] = xc_file[3 * j + 2]
          /\ data[a + 2] = xc_file[3 * j + 3]
      BY <1>3, <2>1
    <2>3. j + 1 \in 1..m /\ 3 * ((j + 1) - 1) = 3 * j
      BY <1>4
    <2>4. FileXcodes[j + 1] = XcodeOf(xc_file[3 * j + 1], xc_file[3 * j + 2], xc_file[3 * j + 3])
      BY <2>3 DEF FileXcodes, FileCount, XcodeSize, m
    <2> QED BY <2>2, <2>4
  <1>8. /\ jmp /\ a = e => XcodeOf(data[a], data[a + 1], data[a + 2]).opcode = "jmp"
                           /\ XcodeOf(data[a], data[a + 1], data[a + 2]).data = offset
        /\ a = at + x => XcodeOf(data[a], data[a + 1], data[a + 2]).opcode = "exit"
    BY <1>3, OpcodeOK
  <1> QED BY <1>6, <1>7, <1>8 DEF XcodeSize, e, at, f, m, x

\* Each xcode in its turn.
LEMMA RunOn ==
  ASSUME InjectInv, RunXcode, RunInOrder
  PROVE  RunInv'
  <1>1. pc = "run" /\ UNCHANGED <<data, xc_file, jmp, offset, count, orig>>
    BY DEF RunXcode
  <1>2. size' = size
    BY <1>1 DEF size
  <1>3. /\ FirstExit' = FirstExit /\ OldExit' = OldExit /\ FileCount' = FileCount /\ At' = At
        /\ xcodesSize' = xcodesSize
    <2>1. FirstExit' = FirstExit /\ OldExit' = OldExit /\ FileCount' = FileCount
          /\ Start' = Start /\ xcodesSize' = xcodesSize
      BY <1>1, <1>2, Same
    <2> QED BY <1>1, <2>1 DEF At
  <1> DEFINE a == Base + interp.offset
             xc == XcodeOf(data[a], data[a + 1], data[a + 2])
             f == FirstExit
             m == FileCount
             T == [opcode : {"other"}, addr : Nat, data : Nat]
  <1>4. /\ interp.offset \in Nat /\ a + 3 <= size /\ xc.addr \in Nat /\ xc.data \in Nat
        /\ interp' = [offset |-> IF xc.opcode = "jmp"
                                 THEN (interp.offset + 3 + xc.data) % Wrap
                                 ELSE interp.offset + 3,
                      status |-> IF xc.opcode = "exit" THEN "exit_op_found" ELSE "ok"]
        /\ trace' = IF xc.opcode = "other" THEN Append(trace, xc) ELSE trace
        /\ pc' = IF xc.opcode = "exit" THEN "halt" ELSE "run"
    BY RunReads
  <1>5. /\ size \in Nat /\ Base \in Nat /\ xcodesSize \in Nat /\ f \in Nat /\ offset \in Nat
        /\ OldExit = Base + 3 * f /\ Start = OldExit + 3 /\ jmp \in BOOLEAN /\ Wrap \in Nat
        /\ size < Wrap /\ a \in Nat
    <2> HIDE DEF a
    <2>1. /\ size \in Nat /\ Base \in Nat /\ xcodesSize \in Nat /\ f \in Nat /\ offset \in Nat
          /\ OldExit = Base + 3 * f /\ Start = OldExit + 3 /\ jmp \in BOOLEAN /\ Wrap \in Nat
          /\ size < Wrap
      BY <1>1, Numbers DEF Searched
    <2>2. a \in Nat
      BY <1>4, <2>1 DEF a
    <2> QED BY <2>1, <2>2
  <1>6. xcodesSize = 3 * m /\ m \in Nat
    <2>1. xcodesSize % 3 = 0
      BY DEF RunInOrder, XcodeSize
    <2> QED BY <1>5, <2>1 DEF FileCount, XcodeSize
  <1>7. /\ \A k \in 0..(f - 1) : a = Base + XcodeSize * k => xc = OldXcodes[k + 1]
        /\ jmp /\ a = OldExit => xc.opcode = "jmp" /\ xc.data = offset
        /\ \A j \in 0..(m - 1) : a = At + XcodeSize * j => xc = FileXcodes[j + 1]
        /\ a = At + xcodesSize => xc.opcode = "exit"
    BY <1>1, <1>4, <1>5, TableRead
  <1>8. xc.opcode = "other" => xc \in T
    BY <1>4 DEF XcodeOf
  <1>9. /\ \A k \in 0..(f - 1) : OldXcodes[k + 1].opcode = "other"
        /\ \A j \in 0..(m - 1) : FileXcodes[j + 1].opcode = "other"
    <2>1. (\A i \in 1..f : OldXcodes[i].opcode = "other")
          /\ \A i \in 1..m : FileXcodes[i].opcode = "other"
      BY DEF RunInOrder, OldXcodes, FileXcodes, FileCount
    <2>2. (\A k \in 0..(f - 1) : k + 1 \in 1..f) /\ \A j \in 0..(m - 1) : j + 1 \in 1..m
      BY <1>5, <1>6
    <2> QED BY <2>1, <2>2
  <1>10. \/ \E k \in 0..f : interp.offset = XcodeSize * k /\ Ran(k)
         \/ \E j \in 0..m : Base + interp.offset = At + XcodeSize * j /\ Ran(f + j)
    BY <1>1 DEF InjectInv, RunInv
  <1>11. At \in Nat /\ (jmp => At = Start + offset) /\ (~jmp => At = OldExit)
         /\ At + xcodesSize + 3 <= size
    BY <1>1, <1>5 DEF At, InjectInv, WrittenInv, Written, XcodeSize
  <1> HIDE DEF xc, f, m, T
  \* An xcode of the BIOS.
  <1>12. ASSUME NEW k \in 0..(f - 1), interp.offset = XcodeSize * k, Ran(k)
         PROVE  RunInv'
    <2>1. a = Base + XcodeSize * k /\ k + 1 \in 0..f /\ k + 1 <= f /\ k \in Nat
          /\ interp.offset + 3 = XcodeSize * (k + 1)
      BY <1>5, <1>12 DEF XcodeSize
    <2>2. xc = OldXcodes[k + 1] /\ xc.opcode = "other"
      BY <1>7, <1>9, <2>1
    <2>3. pc' = "run" /\ interp'.status = "ok" /\ interp'.offset = XcodeSize * (k + 1)
          /\ trace' = Append(trace, xc)
      BY <1>4, <2>1, <2>2
    <2>4. xc = IF k + 1 <= FirstExit THEN OldXcodes[k + 1] ELSE FileXcodes[(k + 1) - FirstExit]
      BY <2>1, <2>2 DEF f
    <2>5. Ran(k + 1)'
      BY <1>1, <1>2, <1>8, <1>12, <2>1, <2>2, <2>3, <2>4, RanOne DEF T
    <2> QED BY <1>3, <2>1, <2>3, <2>5 DEF RunInv, f
  \* One of the file, or the exit behind them.
  <1>13. ASSUME NEW j \in 0..m, Base + interp.offset = At + XcodeSize * j, Ran(f + j)
         PROVE  RunInv'
    <2>1. CASE j = m
      <3>1. xc.opcode = "exit"
        BY <1>6, <1>7, <1>13, <2>1 DEF XcodeSize
      <3>2. pc' = "halt" /\ trace' = trace
        BY <1>4, <3>1
      <3>3. Ran(f + m)'
        <4>1. OldXcodes' = OldXcodes /\ FileXcodes' = FileXcodes
          BY <1>1, <1>2, Same
        <4>2. Ran(f + m)
          BY <1>13, <2>1
        <4> QED BY <1>3, <3>2, <4>1, <4>2 DEF Ran, f, m
      <3> QED BY <1>3, <3>2, <3>3 DEF RunInv, f, m
    <2>2. CASE j # m
      <3>1. /\ j \in 0..(m - 1) /\ j + 1 \in 0..m /\ f + j \in Nat /\ (f + j) + 1 = f + (j + 1)
            /\ ~((f + j) + 1 <= f) /\ ((f + j) + 1) - f = j + 1
        BY <1>5, <1>6, <2>2
      <3>2. xc = FileXcodes[j + 1] /\ xc.opcode = "other"
        BY <1>7, <1>9, <1>13, <3>1
      <3>3. pc' = "run" /\ interp'.status = "ok" /\ interp'.offset = interp.offset + 3
            /\ trace' = Append(trace, xc)
        BY <1>4, <3>2
      <3>4. Base + interp'.offset = At + XcodeSize * (j + 1)
        <4> DEFINE o == interp.offset
                   at == At
        <4>1. o \in Nat /\ Base + o = at + 3 * j /\ at \in Nat
          BY <1>4, <1>11, <1>13 DEF XcodeSize
        <4> HIDE DEF o, at
        <4>2. Base + (o + 3) = at + 3 * (j + 1)
          BY <1>5, <3>1, <4>1
        <4> QED BY <3>3, <4>2 DEF o, at, XcodeSize
      <3>5. PICK k \in Nat : k = f + j
        BY <3>1
      <3>6. xc = IF k + 1 <= FirstExit THEN OldXcodes[k + 1] ELSE FileXcodes[(k + 1) - FirstExit]
        BY <3>1, <3>2, <3>5 DEF f
      <3>7. Ran(k)
        BY <1>13, <3>5
      <3>8. Ran(k + 1)'
        BY <1>1, <1>2, <1>8, <3>2, <3>3, <3>6, <3>7, RanOne DEF T
      <3>9. k + 1 = FirstExit' + (j + 1)
        BY <1>3, <3>1, <3>5 DEF f
      <3>10. Ran(FirstExit + (j + 1))'
        BY <3>8, <3>9 DEF Ran
      <3>11. /\ j + 1 \in 0..FileCount' /\ interp'.status = "ok" /\ pc' = "run"
             /\ Base + interp'.offset = At' + XcodeSize * (j + 1)
        BY <1>3, <3>1, <3>3, <3>4 DEF m
      <3> QED BY <3>10, <3>11 DEF RunInv
    <2> QED BY <2>1, <2>2
  \* The jump that was the exit xcode of the BIOS.
  <1>14. ASSUME interp.offset = XcodeSize * f, Ran(f), jmp
         PROVE  RunInv'
    <2>1. a = OldExit
      BY <1>5, <1>14 DEF XcodeSize
    <2>2. xc.opcode = "jmp" /\ xc.data = offset
      BY <1>7, <1>14, <2>1
    <2>3. 3 * f + 3 + offset \in 0..(Wrap - 1)
      BY <1>5, <1>6, <1>11, <1>14
    <2>4. (3 * f + 3 + offset) % Wrap = 3 * f + 3 + offset
      BY <1>5, <2>3
    <2>5. pc' = "run" /\ interp'.status = "ok" /\ interp'.offset = 3 * f + 3 + offset
          /\ trace' = trace
      BY <1>4, <1>14, <2>2, <2>4 DEF XcodeSize
    <2>6. Base + interp'.offset = At + XcodeSize * 0 /\ 0 \in 0..m
      <3>1. Base + (3 * f + 3 + offset) = At + 3 * 0
        BY <1>5, <1>11, <1>14
      <3> QED BY <1>6, <2>5, <3>1 DEF XcodeSize
    <2>7. Ran(f + 0)'
      <3>1. OldXcodes' = OldXcodes /\ FileXcodes' = FileXcodes
        BY <1>1, <1>2, Same
      <3>2. f + 0 = f
        BY <1>5
      <3> QED BY <1>3, <1>14, <2>5, <3>1, <3>2 DEF Ran, f
    <2> QED BY <1>3, <2>5, <2>6, <2>7 DEF RunInv, f, m
  <1>15. ASSUME NEW k \in 0..f, interp.offset = XcodeSize * k, Ran(k)
         PROVE  RunInv'
    <2>1. CASE k # f
      <3>1. k \in 0..(f - 1)
        BY <1>5, <2>1
      <3> QED BY <1>12, <1>15, <3>1
    <2>2. CASE k = f /\ jmp
      BY <1>14, <1>15, <2>2
    <2>3. CASE k = f /\ ~jmp
      <3>1. Base + interp.offset = At + XcodeSize * 0 /\ 0 \in 0..m /\ f + 0 = k
        BY <1>5, <1>6, <1>11, <1>15, <2>3 DEF XcodeSize
      <3> QED BY <1>13, <1>15, <3>1
    <2> QED BY <1>5, <2>1, <2>2, <2>3
  <1> QED BY <1>10, <1>13, <1>15

LEMMA RunXcodeInv ==
  ASSUME InjectInv, RunXcode
  PROVE  InjectInv'
  <1>1. /\ pc = "run" /\ UNCHANGED <<data, xc_file, jmp, offset, count, orig>>
    BY DEF RunXcode
  <1>2. PICK xc :
          /\ interp.offset \in Nat /\ Base + interp.offset + 3 <= size
          /\ xc = XcodeOf(data[Base + interp.offset], data[Base + interp.offset + 1],
                          data[Base + interp.offset + 2])
          /\ xc.addr \in Nat /\ xc.data \in Nat
          /\ interp' = [offset |-> IF xc.opcode = "jmp"
                                   THEN (interp.offset + 3 + xc.data) % Wrap
                                   ELSE interp.offset + 3,
                        status |-> IF xc.opcode = "exit" THEN "exit_op_found" ELSE "ok"]
          /\ trace' = IF xc.opcode = "other" THEN Append(trace, xc) ELSE trace
          /\ pc' = IF xc.opcode = "exit" THEN "halt" ELSE "run"
    BY RunReads
  <1>3. pc' \in {"run", "halt"}
    BY <1>2
  <1>4. BufferInv' /\ size' = size
    BY <1>1, <1>3, BufferKept DEF InjectInv, Written
  <1>5. /\ FirstExit' = FirstExit /\ OldExit' = OldExit /\ Start' = Start
        /\ xcodesSize' = xcodesSize /\ (RunInOrder' <=> RunInOrder)
    BY <1>1, <1>4, Same
  <1>6. InjectTypeOK'
    <2>1. interp' \in Interp!INTERP
      <3>1. Wrap \in Nat /\ Wrap > 0 /\ size < Wrap /\ Base \in Nat /\ size \in Nat
        BY Numbers
      <3> DEFINE o == interp.offset
      <3>2. o + 3 \in 0..(Wrap - 1) /\ o + 3 + xc.data \in Nat
        <4>1. o \in Nat /\ Base + o + 3 <= size /\ xc.data \in Nat
          BY <1>2
        <4> HIDE DEF o
        <4> QED BY <3>1, <4>1
      <3>3. (o + 3 + xc.data) % Wrap \in 0..(Wrap - 1)
        BY <3>1, <3>2
      <3> QED BY <1>2, <3>2, <3>3 DEF Interp!INTERP
    <2>2. trace' \in Seq([opcode : {"other"}, addr : Nat, data : Nat])
      <3>1. trace \in Seq([opcode : {"other"}, addr : Nat, data : Nat])
        BY DEF InjectInv, InjectTypeOK
      <3>2. xc.opcode = "other" => xc \in [opcode : {"other"}, addr : Nat, data : Nat]
        BY <1>2 DEF XcodeOf
      <3> QED BY <1>2, <3>1, <3>2, AppendProperties
    <2> QED BY <1>1, <1>3, <1>4, <1>5, <2>1, <2>2 DEF InjectInv, InjectTypeOK, Interp!INTERP
  <1>7. FindInv'
    <2>1. ExitAt(FirstExit)
      BY <1>1 DEF InjectInv, FindInv, Searched
    <2>2. ExitAt(FirstExit)'
      BY <1>1, <1>4, <1>5, <2>1 DEF ExitAt, NoExitBelow
    <2> QED BY <1>3, <2>2 DEF FindInv
  <1>8. WrittenInv'
    <2>1. At' = At
      BY <1>1, <1>5 DEF At
    <2> QED BY <1>1, <1>4, <1>5, <2>1 DEF InjectInv, WrittenInv, Written
  <1>9. RunInv'
    <2>1. CASE RunInOrder
      BY <2>1, RunOn
    <2>2. CASE ~RunInOrder
      BY <1>5, <2>2 DEF RunInv
    <2> QED BY <2>1, <2>2
  <1>10. ScanInv' /\ OverrunInv'
    BY <1>3 DEF ScanInv, OverrunInv
  <1> QED BY <1>4, <1>6, <1>7, <1>8, <1>9, <1>10 DEF InjectInv

LEMMA InjectStutter ==
  ASSUME InjectInv, UNCHANGED vars
  PROVE  InjectInv'
  <1>1. UNCHANGED <<data, data_tbl_offset, xc_file, interp, pc, jmp, offset, count, orig, trace>>
    BY DEF vars
  <1>2. size' = size /\ xcodesSize' = xcodesSize /\ (Written' <=> Written)
    BY <1>1 DEF size, xcodesSize, Written
  <1>3. /\ FirstExit' = FirstExit /\ OldExit' = OldExit /\ Start' = Start
        /\ FileCount' = FileCount /\ OldXcodes' = OldXcodes /\ FileXcodes' = FileXcodes
        /\ (RunInOrder' <=> RunInOrder)
    BY <1>1, <1>2, Same
  <1>4. At' = At
    BY <1>1, <1>3 DEF At
  <1>5. BufferInv'
    BY <1>1, <1>2, BufferKept DEF InjectInv
  <1>6. InjectTypeOK'
    BY <1>1, <1>2 DEF InjectInv, InjectTypeOK, Interp!INTERP
  <1>7. FindInv'
    BY <1>1, <1>2, <1>3 DEF InjectInv, FindInv, ExitAt, NoExitBelow, Searched
  <1>8. ScanInv'
    <2>1. (Counted' <=> Counted) /\ (SpaceFound' <=> SpaceFound)
      BY <1>1, <1>2, <1>3 DEF Counted, SpaceFound
    <2>2. NoSpaceBelow(Start + offset)' <=> NoSpaceBelow(Start + offset)
      BY <1>1, <1>2, <1>3 DEF NoSpaceBelow
    <2>3. SearchEnded' <=> SearchEnded
      BY <1>1, <1>2, <1>3, <2>1, <2>2 DEF SearchEnded
    <2> QED BY <1>1, <2>1, <2>2, <2>3 DEF InjectInv, ScanInv
  <1>9. WrittenInv'
    BY <1>1, <1>2, <1>3, <1>4 DEF InjectInv, WrittenInv
  <1>10. RunInv'
    BY <1>1, <1>2, <1>3, <1>4 DEF InjectInv, RunInv, Ran
  <1>11. OverrunInv'
    BY <1>1, <1>2, <1>3, <1>6 DEF InjectInv, OverrunInv, SpaceIsFound
  <1> QED BY <1>5, <1>6, <1>7, <1>8, <1>9, <1>10, <1>11 DEF InjectInv

-----------------------------------------------------------------------------
(* The theorems.                                                           *)

\* The invariant that the properties rest on: of the search for the exit and for space,
\* of what is written, and of what the console has run.
THEOREM InjectInvariant == InjectSpec => []InjectInv
  <1>1. InjectInit => InjectInv
    BY InjectInitInv
  <1>2. InjectInv /\ [InjectNext]_vars => InjectInv'
    <2> SUFFICES ASSUME InjectInv, [InjectNext]_vars PROVE InjectInv'
      OBVIOUS
    <2>1. CASE FindExit
      BY <2>1, FindExitInv
    <2>2. CASE ExitNotFound
      BY <2>2, ExitNotFoundInv
    <2>3. CASE ExitFound
      BY <2>3, ExitFoundInv
    <2>4. CASE NotZero
      BY <2>4, NotZeroInv
    <2>5. CASE Zero
      BY <2>5, ZeroInv
    <2>6. CASE NoSpace
      BY <2>6, NoSpaceInv
    <2>7. CASE ScanOverrun
      BY <2>7, ScanOverrunInv
    <2>8. CASE PlaceXcodes
      BY <2>8, PlaceXcodesInv
    <2>9. CASE PlaceOverrun
      BY <2>9, PlaceOverrunInv
    <2>10. CASE RunXcode
      BY <2>10, RunXcodeInv
    <2>11. CASE UNCHANGED vars
      BY <2>11, InjectStutter
    <2> QED BY <2>1, <2>2, <2>3, <2>4, <2>5, <2>6, <2>7, <2>8, <2>9, <2>10, <2>11 DEF InjectNext
  <1> QED BY <1>1, <1>2, PTL DEF InjectSpec

\* inject_xcodes finds space for the xcodes when there is some behind the exit and the
\* table, in every image and however long the file is; its counters stay in the image.
THEOREM InjectSpaceIsFound == InjectSpec => []SpaceIsFound
  <1>1. InjectInv => SpaceIsFound
    <2>1. ASSUME InjectInv, pc # "overrun" PROVE SpaceIsFound
      BY <2>1 DEF InjectInv, SpaceIsFound
    <2>2. ASSUME InjectInv, pc = "overrun" PROVE SpaceIsFound
      BY <2>2 DEF InjectInv, OverrunInv
    <2> QED BY <2>1, <2>2
  <1> QED BY <1>1, InjectInvariant, PTL

\* When the search has counted as many zeros as it needs, inject_xcodes overwrites
\* nothing else but the exit xcode and what is under the new exit's end.
THEOREM InjectLittleIsLost == InjectSpec => []LittleIsLost
  <1>1. InjectInv => LittleIsLost
    <2> SUFFICES ASSUME InjectInv, pc = "run", count = xcodesSize,
                        NEW a \in DOMAIN data, data[a] # orig[a], orig[a] # 0,
                        a \notin OldExit..(OldExit + XcodeSize - 1)
                 PROVE  jmp /\ a > OldExit + XcodeSize + offset + xcodesSize
      BY DEF LittleIsLost, Changed
    <2> DEFINE o == offset
               e == OldExit
               x == xcodesSize
               at == At
               n == size
    <2>1. /\ o \in Nat /\ e \in Nat /\ x \in Nat /\ n \in Nat /\ Start = e + 3 /\ jmp \in BOOLEAN
      BY Numbers DEF Searched
    <2>2. (jmp => at = e + 3 + o) /\ (~jmp => at = e)
      BY <2>1 DEF At
    <2>3. a \in 0..(n - 1)
      BY DEF InjectInv, BufferInv
    <2>4. a \in at..(at + x + 3 - 1)
      BY <2>3 DEF InjectInv, WrittenInv, Written, XcodeSize
    <2>5. \A b \in (e + 3)..(e + 3 + o + x) :
            (jmp => b >= e + 3 + o) /\ (~jmp => b <= e + x + 2) => orig[b] = 0
      BY <2>1 DEF InjectInv, WrittenInv, Written
    <2>6. a \notin e..(e + 3 - 1)
      BY DEF XcodeSize
    <2> HIDE DEF o, e, x, at, n
    <2>7. CASE jmp
      <3>1. ~(a <= e + 3 + o + x)
        <4> SUFFICES ASSUME a <= e + 3 + o + x PROVE FALSE
          OBVIOUS
        <4>1. a \in (e + 3)..(e + 3 + o + x) /\ a >= e + 3 + o
          BY <2>1, <2>2, <2>3, <2>4, <2>7
        <4> QED BY <2>5, <2>7, <4>1
      <3> QED BY <2>1, <2>3, <2>7, <3>1 DEF o, e, x, XcodeSize
    <2>8. CASE ~jmp
      <3>1. a \in (e + 3)..(e + 3 + o + x) /\ a <= e + x + 2
        BY <2>1, <2>2, <2>3, <2>4, <2>6, <2>8
      <3> QED BY <2>5, <2>8, <3>1
    <2> QED BY <2>7, <2>8
  <1> QED BY <1>1, InjectInvariant, PTL

\* The console runs the xcodes that there were and those of the file, all of them and in
\* order, and stops; it never leaves the table.
THEOREM InjectInjectedRun == InjectSpec => []InjectedRun
  <1>1. InjectInv => InjectedRun
    <2> SUFFICES ASSUME InjectInv, pc \in {"run", "halt"}, RunInOrder
                 PROVE  /\ pc = "halt" => trace = OldXcodes \o FileXcodes
                        /\ pc = "run" => Interp!HasNext(interp)
      BY DEF InjectedRun
    <2> DEFINE f == FirstExit
               m == FileCount
               x == xcodesSize
               n == size
    <2>1. /\ f \in Nat /\ x \in Nat /\ n \in Nat /\ Base \in Nat /\ ExitAt(f)
          /\ OldExit = Base + 3 * f
      BY Numbers DEF Searched, InjectInv, FindInv
    <2>2. m \in Nat /\ 3 * m <= x
      BY <2>1 DEF FileCount, XcodeSize
    <2>3. Base + 3 * f + 3 <= n /\ At + x + 3 <= n
      BY DEF InjectInv, WrittenInv, Written, FindInv, ExitAt, Searched, XcodeSize
    <2>4. ASSUME pc = "halt" PROVE trace = OldXcodes \o FileXcodes
      <3>1. /\ Len(trace) = f + m
            /\ \A i \in 1..(f + m) : trace[i] = IF i <= f THEN OldXcodes[i] ELSE FileXcodes[i - f]
        BY <2>4 DEF InjectInv, RunInv, Ran
      <3> DEFINE A == OldXcodes
                 B == FileXcodes
      <3>2. A = [i \in 1..f |-> A[i]] /\ B = [i \in 1..m |-> B[i]]
        BY DEF OldXcodes, FileXcodes, FileCount
      <3> HIDE DEF A, B, f, m
      <3>3. Len(A) = f /\ Len(B) = m
        BY <2>1, <2>2, <3>2
      <3>4. A \o B = [i \in 1..(f + m) |-> IF i <= f THEN A[i] ELSE B[i - f]]
        <4> DEFINE S == {A[i] : i \in 1..f} \union {B[i] : i \in 1..m}
        <4>1. [i \in 1..f |-> A[i]] \in Seq(S) /\ [i \in 1..m |-> B[i]] \in Seq(S)
          BY <2>1, <2>2, IsASeq
        <4>2. A \in Seq(S) /\ B \in Seq(S)
          BY <3>2, <4>1
        <4> HIDE DEF S
        <4>3. /\ A \o B \in Seq(S) /\ Len(A \o B) = f + m
              /\ \A i \in 1..(f + m) : (A \o B)[i] = IF i <= f THEN A[i] ELSE B[i - f]
          BY <3>3, <4>2, ConcatProperties
        <4>4. A \o B = [i \in 1..(f + m) |-> (A \o B)[i]]
          BY <4>3, LenProperties
        <4> QED BY <4>3, <4>4
      <3>5. trace = [i \in 1..(f + m) |-> trace[i]]
        <4>1. trace \in Seq([opcode : {"other"}, addr : Nat, data : Nat])
          BY DEF InjectInv, InjectTypeOK
        <4> QED BY <3>1, <4>1, LenProperties
      <3> QED BY <3>1, <3>4, <3>5 DEF A, B
    <2>5. ASSUME pc = "run" PROVE Interp!HasNext(interp)
      <3>1. interp.offset \in Nat
        BY DEF InjectInv, InjectTypeOK, Interp!INTERP
      <3>2. /\ interp.status = "ok"
            /\ \/ \E k \in 0..f : interp.offset = 3 * k
               \/ \E j \in 0..m : Base + interp.offset = At + 3 * j
        BY <2>5 DEF InjectInv, RunInv, XcodeSize
      <3> DEFINE i == interp.offset
                 at == At
      <3>3. at \in Nat
        BY <2>1, Numbers DEF At, Searched
      <3> HIDE DEF f, m, x, n, i, at
      <3>4. Base + i + 3 <= n
        <4>1. ASSUME NEW k \in 0..f, i = 3 * k PROVE Base + i + 3 <= n
          BY <2>1, <2>3, <4>1 DEF at
        <4>2. ASSUME NEW j \in 0..m, Base + i = at + 3 * j PROVE Base + i + 3 <= n
          BY <2>1, <2>2, <2>3, <3>3, <4>2 DEF at
        <4> QED BY <3>2, <4>1, <4>2 DEF i, at
      <3> QED BY <2>1, <3>1, <3>2, <3>4, ReadOK DEF InjectInv, i, n, XcodeSize
    <2> QED BY <2>4, <2>5
  <1> QED BY <1>1, InjectInvariant, PTL
=============================================================================
