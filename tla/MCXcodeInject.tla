--------------------------- MODULE MCXcodeInject ---------------------------
(***************************************************************************)
(* inject_xcodes on BIOSes of any pattern of zeros behind one or two       *)
(* xcodes and an exit, with the ROM data table anywhere or not there, and  *)
(* on BIOSes that are too small or have no exit.                           *)
(***************************************************************************)
EXTENDS XcodeInject

Old(k) == IF k = 0 THEN <<>> ELSE <<3, 5, 5>>
Full == 7

\* What follows the exit: any pattern of zeros.
Behind == [1..10 -> {0, Full}]

Bios(cells, tbl) ==
  [data |-> [a \in 0..(Base + Len(cells) - 1) |-> IF a < Base THEN Full ELSE cells[a - Base + 1]],
   data_tbl_offset |-> tbl]

MCBioses ==
  {Bios(Old(k) \o <<XC_EXIT, 6, 0>> \o r, 0) : k \in {0, 1}, r \in Behind} \cup
  {Bios(<<XC_EXIT, 6, 0>> \o r, Base + XcodeSize + g) :
     r \in Behind, g \in {0, 1, 4}} \cup
  {Bios(<<XC_EXIT, 6, 0>> \o r, 0) : r \in [1..1 -> {0, Full}]} \cup
  {Bios(Old(1), 0)}

\* One and two xcodes, an exit, and files that are no xcodes.
MCXcodeFiles == {<<3, 1, 2>>, <<3, 1, 2, 3, 4, 0>>, <<XC_EXIT, 0, 0>>, <<>>, <<5>>}
=============================================================================
