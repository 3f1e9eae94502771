---------------------------- MODULE XcodeInject ----------------------------
(***************************************************************************)
(* inject_xcodes: put the xcodes of a file behind those of a BIOS.  They   *)
(* replace the exit xcode when zeros follow it, and otherwise it becomes a *)
(* jump to where zeros are.  Then the console runs the table.              *)
(***************************************************************************)
EXTENDS Integers, Sequences, FiniteSets

CONSTANTS
  Wrap,       \* 2^32
  Base,       \* sizeof(INIT_TBL): where the xcodes begin
  TblSize,    \* sizeof(ROM_DATA_TBL)
  Bioses,     \* records: data, the BIOS that was built, and its data_tbl_offset
  XcodeFiles  \* the files of xcodes, as sequences of cells

\* An XCODE is three cells: opcode, addr and data.  A cell is a number; the
\* opcodes are those of XcodeInterp.h.
XcodeSize == 3
XC_JMP == 9
XC_EXIT == 238

\* An image has room for an init table and an xcode, and for a ROM data table;
\* it and the file are in the memory of a 32-bit program at the same time.
ASSUME InjectAssumption ==
  /\ Base \in Nat /\ TblSize \in Nat /\ Wrap \in Nat
  /\ \A x \in XcodeFiles : x \in Seq(Nat)
  /\ \A b \in Bioses :
       LET n == Cardinality(DOMAIN b.data) IN
       /\ n \in Nat /\ b.data \in [0..(n - 1) -> Nat]
       /\ n >= Base + XcodeSize /\ n >= TblSize
       /\ \A x \in XcodeFiles : n + Len(x) + XcodeSize < Wrap
       /\ b.data_tbl_offset \in Nat

VARIABLES
  data,             \* the buffer
  data_tbl_offset,  \* a field of the init table at its beginning
  xc_file,          \* the xcodes
  interp,           \* first inject_xcodes' interpreter, then the console's
  pc,               \* the loop it is in, how it ended, or what the console does
  jmp, offset, count,
  orig,             \* history: the buffer as it was
  trace             \* history: the xcodes the console has run

vars == <<data, data_tbl_offset, xc_file, interp, pc, jmp, offset, count, orig, trace>>

size == Cardinality(DOMAIN data)
xcodesSize == Len(xc_file)

\* The XCODE of three cells.
XcodeOf(op, a, d) ==
  [opcode |-> CASE op = XC_JMP -> "jmp" [] op = XC_EXIT -> "exit" [] OTHER -> "other",
   addr |-> a, data |-> d]
XcodesOf(mem) ==
  [o \in 0..(size - Base - XcodeSize) |-> XcodeOf(mem[Base + o], mem[Base + o + 1], mem[Base + o + 2])]

Interp == INSTANCE XcodeInterp WITH
            size <- size - Base, xcodes <- XcodesOf(data), Stray <- {}

InjectInit ==
  /\ \E b \in Bioses : data = b.data /\ orig = b.data /\ data_tbl_offset = b.data_tbl_offset
  /\ xc_file \in XcodeFiles
  /\ interp = Interp!reset /\ pc = "find"
  /\ jmp = FALSE /\ offset = 0 /\ count = 0
  /\ trace = <<>>

-----------------------------------------------------------------------------
FindExit ==
  /\ pc = "find" /\ Interp!HasNext(interp)
  /\ \E xc \in Interp!XcodesAt(interp.offset) : interp' = Interp!AfterNext(interp, xc)
  /\ UNCHANGED <<data, data_tbl_offset, xc_file, pc, jmp, offset, count, orig, trace>>

ExitNotFound ==
  /\ pc = "find" /\ ~Interp!HasNext(interp) /\ interp.status # "exit_op_found"
  /\ pc' = "not_found"
  /\ UNCHANGED <<data, data_tbl_offset, xc_file, interp, jmp, offset, count, orig, trace>>

\* The ROM data table begins in what the xcodes need.
TableInTheWay ==
  data_tbl_offset # 0 /\ data_tbl_offset < Base + interp.offset + xcodesSize

ExitFound ==
  /\ pc = "find" /\ interp.status = "exit_op_found"
  /\ jmp' = TableInTheWay
  /\ offset' = IF TableInTheWay THEN TblSize ELSE 0
  /\ pc' = "scan"
  /\ UNCHANGED <<data, data_tbl_offset, xc_file, interp, count, orig, trace>>

\* How far the search goes, as uint32_t, and the cell it is at.
ScanEnd == (size - Base - interp.offset - xcodesSize) % Wrap
Cell == Base + interp.offset + offset

\* A bug: the count goes on over a cell that is not zero.
CountsAll ==
  /\ pc = "scan" /\ offset < ScanEnd /\ Cell < size /\ data[Cell] # 0
  /\ jmp' = TRUE
  /\ offset' = offset + 1
  /\ UNCHANGED <<data, data_tbl_offset, xc_file, interp, pc, count, orig, trace>>

NotZero ==
  /\ pc = "scan" /\ offset < ScanEnd /\ Cell < size /\ data[Cell] # 0
  /\ count' = 0 /\ jmp' = TRUE
  /\ offset' = offset + 1
  /\ UNCHANGED <<data, data_tbl_offset, xc_file, interp, pc, orig, trace>>

\* A bug: the offset stays behind the zeros.
NoStepBack ==
  /\ pc = "scan" /\ offset < ScanEnd /\ Cell < size /\ data[Cell] = 0
  /\ IF count = xcodesSize
     THEN pc' = "place" /\ UNCHANGED <<offset, count>>
     ELSE offset' = offset + 1 /\ count' = count + 1 /\ UNCHANGED pc
  /\ UNCHANGED <<data, data_tbl_offset, xc_file, interp, jmp, orig, trace>>

Zero ==
  /\ pc = "scan" /\ offset < ScanEnd /\ Cell < size /\ data[Cell] = 0
  /\ IF count = xcodesSize
     THEN offset' = offset - count /\ pc' = "place" /\ UNCHANGED count
     ELSE offset' = offset + 1 /\ count' = count + 1 /\ UNCHANGED pc
  /\ UNCHANGED <<data, data_tbl_offset, xc_file, interp, jmp, orig, trace>>

\* The search is over.  Nothing is returned when it did not find space.
NoSpace ==
  /\ pc = "scan" /\ offset >= ScanEnd
  /\ pc' = "place"
  /\ UNCHANGED <<data, data_tbl_offset, xc_file, interp, jmp, offset, count, orig, trace>>

\* The bound has wrapped and the search reads behind the buffer.
ScanOverrun ==
  /\ pc = "scan" /\ offset < ScanEnd /\ Cell >= size
  /\ pc' = "overrun"
  /\ UNCHANGED <<data, data_tbl_offset, xc_file, interp, jmp, offset, count, orig, trace>>

-----------------------------------------------------------------------------
\* Where the exit xcode is, and where the xcodes go.
Exit == Base + interp.offset - XcodeSize
Place == IF jmp THEN Base + interp.offset + offset ELSE Exit

\* A bug: the jump's data counts from the jump and not from what follows it.
JumpFromExit ==
  IF jmp
  THEN [a \in DOMAIN data |->
          IF a = Exit THEN XC_JMP ELSE IF a = Exit + 1 THEN 0
          ELSE IF a = Exit + 2 THEN offset + XcodeSize ELSE data[a]]
  ELSE data

\* The exit xcode patched to a jump.
Patched ==
  IF jmp
  THEN [a \in DOMAIN data |->
          IF a = Exit THEN XC_JMP ELSE IF a = Exit + 1 THEN 0
          ELSE IF a = Exit + 2 THEN offset ELSE data[a]]
  ELSE data

NewExit == <<XC_EXIT, 2054, 0>>   \* 0x806

\* The xcodes and a new exit xcode, over what is there.
Placed(mem, at) ==
  LET new == xc_file \o NewExit
  IN [a \in DOMAIN mem |-> IF a - at + 1 \in DOMAIN new THEN new[a - at + 1] ELSE mem[a]]

Fits == Place + xcodesSize + XcodeSize <= size

PlaceXcodes ==
  /\ pc = "place" /\ Fits
  /\ data' = Placed(Patched, Place)
  /\ interp' = Interp!reset
  /\ pc' = "run"
  /\ UNCHANGED <<data_tbl_offset, xc_file, jmp, offset, count, orig, trace>>

\* The writes go on behind the buffer.
PlaceOverrun ==
  /\ pc = "place" /\ ~Fits
  /\ pc' = "overrun"
  /\ UNCHANGED <<data, data_tbl_offset, xc_file, interp, jmp, offset, count, orig, trace>>

\* The console runs the table: it takes jumps and stops at an exit.
RunXcode ==
  /\ pc = "run" /\ Interp!HasNext(interp)
  /\ \E xc \in Interp!XcodesAt(interp.offset) :
       LET next == Interp!AfterNext(interp, xc) IN
       /\ interp' = IF xc.opcode = "jmp" THEN Interp!Moved(next, xc.data) ELSE next
       /\ trace' = IF xc.opcode = "other" THEN Append(trace, xc) ELSE trace
       /\ pc' = IF xc.opcode = "exit" THEN "halt" ELSE "run"
  /\ UNCHANGED <<data, data_tbl_offset, xc_file, jmp, offset, count, orig>>

InjectNext ==
  \/ FindExit \/ ExitNotFound \/ ExitFound
  \/ NotZero \/ Zero \/ NoSpace \/ ScanOverrun
  \/ PlaceXcodes \/ PlaceOverrun \/ RunXcode

InjectSpec == InjectInit /\ [][InjectNext]_vars

-----------------------------------------------------------------------------
InjectTypeOK ==
  /\ data \in [DOMAIN orig -> Nat]
  /\ interp \in Interp!INTERP
  /\ pc \in {"find", "scan", "place", "run", "halt", "not_found", "overrun"}
  /\ jmp \in BOOLEAN
  /\ offset \in 0..size /\ count \in 0..xcodesSize
  /\ trace \in Seq([opcode : {"other"}, addr : Nat, data : Nat])

\* The xcodes of a sequence of cells, and those in front of the BIOS' first exit.
FileXcodes ==
  [i \in 1..(xcodesSize \div XcodeSize) |->
     LET c == XcodeSize * (i - 1) IN XcodeOf(xc_file[c + 1], xc_file[c + 2], xc_file[c + 3])]
FirstExit ==
  CHOOSE k \in 0..size : /\ XcodesOf(orig)[XcodeSize * k].opcode = "exit"
                         /\ \A j \in 0..(k - 1) : XcodesOf(orig)[XcodeSize * j].opcode # "exit"
OldXcodes == [i \in 1..FirstExit |-> XcodesOf(orig)[XcodeSize * (i - 1)]]

\* The BIOS' xcodes are run in order up to their first exit, and the file is xcodes
\* that are run in order too.
RunInOrder ==
  /\ \A i \in DOMAIN OldXcodes : OldXcodes[i].opcode = "other"
  /\ xcodesSize % XcodeSize = 0
  /\ \A i \in DOMAIN FileXcodes : FileXcodes[i].opcode = "other"

\* When the buffer was not overrun, the console runs all xcodes there were, then
\* those of the file, and stops.
InjectedRun ==
  pc \in {"run", "halt"} /\ RunInOrder =>
    /\ pc = "halt" => trace = OldXcodes \o FileXcodes
    /\ pc = "run" => Interp!HasNext(interp)

Changed == {a \in DOMAIN data : data[a] # orig[a]}
OldExit == Base + XcodeSize * FirstExit

\* When the search found as many zeros as there are xcodes, what is lost beside the
\* exit xcode is at most what lies under the end of the new exit xcode; and nothing
\* when no jump was needed.
LittleIsLost ==
  pc = "run" /\ count = xcodesSize =>
    \A a \in Changed : orig[a] # 0 =>
      \/ a \in OldExit..(OldExit + XcodeSize - 1)
      \/ jmp /\ a > OldExit + XcodeSize + offset + xcodesSize

\* The space for a file that is an xcode at least is found when there is some behind
\* the exit and the table, in front of the last cells, which the search leaves out;
\* it never counts further than it looks for.
SpaceIsFound ==
  /\ InjectTypeOK
  /\ pc = "overrun" /\ xcodesSize >= XcodeSize =>
    ~\E a \in DOMAIN orig :
       /\ a >= OldExit + XcodeSize + TblSize
       /\ a + 2 * xcodesSize < size
       /\ \A i \in a..(a + xcodesSize) : orig[i] = 0

-----------------------------------------------------------------------------
\* "a jump to free space where the xcodes will be injected": but for the exit xcode,
\* only zeros are overwritten.  It is not so: the space has no room for the exit behind
\* the injected xcodes, and LittleIsLost says how much is lost.
OnlyFreeSpace ==
  pc = "run" => \A a \in Changed : orig[a] = 0 \/ a \in OldExit..(OldExit + XcodeSize - 1)
=============================================================================
