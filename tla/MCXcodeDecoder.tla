-------------------------- MODULE MCXcodeDecoder --------------------------
(***************************************************************************)
(* XcodeDecoder on every table of up to three xcodes of the kinds Wide,    *)
(* and of four or five of fewer kinds.  An XCODE has two bytes; what a     *)
(* jump to an odd offset finds is a jump at 1, an exit at 3, or neither.   *)
(***************************************************************************)
EXTENDS XcodeDecoder

MCXcode(op, d) == [opcode |-> op, addr |-> 0, data |-> d]
Jumps(D) == {MCXcode(op, d) : op \in {"jmp", "jne"}, d \in D}
Plain == {MCXcode(op, 0) : op \in {"other", "exit"}}

\* On, over one or two xcodes, into the middle of one, to itself, one back.
Wide == Plain \cup {MCXcode("unknown", 0)} \cup Jumps({0, 2, 4, 1, Wrap - 2, Wrap - 4})
Narrow == Plain \cup Jumps({2, 4}) \cup {MCXcode("jne", Wrap - 4)}

Odd(o) == CASE o = 1 -> MCXcode("jmp", 0)
            [] o = 3 -> MCXcode("exit", 0)
            [] OTHER -> MCXcode("other", 0)

Table(s, odd) ==
  [size |-> XcodeSize * Len(s) + odd,
   xcodes |-> [o \in 0..(XcodeSize * Len(s) + odd - XcodeSize) |->
                 IF o % XcodeSize = 0 THEN s[o \div XcodeSize + 1] ELSE Odd(o)]]

\* odd: whether half an xcode follows.
MCTables ==
  {Table(s, odd) : s \in UNION {[1..n -> Wide] : n \in 1..3}, odd \in {0, 1}} \cup
  {Table(s, 0) : s \in [1..4 -> Narrow]} \cup
  {Table(s, 0) : s \in [1..5 -> Plain \cup Jumps({2}) \cup {MCXcode("jne", 4)}]}

MCStray == {MCXcode("other", 0), MCXcode("exit", 0)}
=============================================================================
