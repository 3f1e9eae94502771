---------------------------- MODULE MCXcodeSim ----------------------------
(***************************************************************************)
(* Machine codes of up to seven bytes that all differ, with words of two   *)
(* bytes, a buffer that grows by two xcodes, and windows that hold the     *)
(* code, a part of it, or begin in the middle of a word, and a code and    *)
(* windows that go over the end of all addresses.                          *)
(***************************************************************************)
EXTENDS XcodeSim

MCCodes == {[b \in 1..n |-> b] : n \in 0..7}
MCBases == {0, 2, 3, 60}

\* A read, a write far away, and one to a place that code may have.
MCOthers ==
  LET read == [opcode |-> "other", addr |-> 0, data |-> <<9, 9>>]
      far == [opcode |-> "mem_write", addr |-> 60, data |-> <<9, 9>>]
      same == [opcode |-> "mem_write", addr |-> 2, data |-> <<9, 9>>]
  IN {<<read, far>>, <<read, same>>}
MCOffsets == 0..4 \cup {58}
MCSimSizes == {2, 4, 8}
=============================================================================
