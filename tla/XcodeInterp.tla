---------------------------- MODULE XcodeInterp ----------------------------
(***************************************************************************)
(* The XCODE interpreter: a cursor over a table that stops at the first    *)
(* exit xcode or at the end of the table.  The decoder, the simulator and  *)
(* the injection of xcodes all read a table through it.                    *)
(***************************************************************************)
EXTENDS Integers

CONSTANTS
  XcodeSize,   \* sizeof(XCODE)
  Wrap,        \* 2^32: offsets are uint32_t, and so is size_t in the Win32 build
  Stray        \* what memory outside the table may look like, as XCODEs

ASSUME InterpAssumption == XcodeSize \in Nat \ {0} /\ Wrap \in Nat /\ Wrap > XcodeSize

VARIABLES
  size,        \* of the table, in the unit of XcodeSize
  xcodes,      \* xcodes[o] is the XCODE that the bytes from o on make, aligned or not
  interp       \* the interpreter: offset of the next XCODE, and status

Opcodes == {"jmp", "jne", "exit", "mem_write", "other", "unknown"}
XCODE == [opcode : Opcodes, addr : 0..(Wrap - 1), data : 0..(Wrap - 1)]
INTERP == [offset : 0..(Wrap - 1), status : {"ok", "exit_op_found", "data_error"}]

InTable(o) == o + XcodeSize <= size
XcodesAt(o) == IF InTable(o) THEN {xcodes[o]} ELSE Stray

reset == [offset |-> 0, status |-> "ok"]

Moved(i, d) == [i EXCEPT !.offset = (@ + d) % Wrap]

\* A bug: one xcode too few is read from a table without an exit.
StrictlyInside(i) == i.status # "exit_op_found" /\ (i.offset + XcodeSize) % Wrap < size

\* interpretNext returns 0.  The sum in the comparison wraps.
HasNext(i) == i.status # "exit_op_found" /\ (i.offset + XcodeSize) % Wrap <= size

\* The interpreter after xc has been read, and after there was none.
AfterNext(i, xc) ==
  [offset |-> (i.offset + XcodeSize) % Wrap,
   status |-> IF xc.opcode = "exit" THEN "exit_op_found" ELSE "ok"]
AfterLast(i) ==
  IF i.status = "exit_op_found" THEN i ELSE [i EXCEPT !.status = "data_error"]
=============================================================================
