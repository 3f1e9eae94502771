------------------------------ MODULE MCBanks ------------------------------
(***************************************************************************)
(* Banks on BIOS files whose words all differ, of the three valid sizes    *)
(* and of another one.  0 is what malloc may have left in a buffer.        *)
(***************************************************************************)
EXTENDS Banks

MCContent == 0..4
MCDumps == {[i \in 1..n |-> i] : n \in {1, 2, 3, 4}}

\* Slots in any order and with any of them left out; every file at most once,
\* or one file in every slot.
MCNameChoices ==
  {n \in [1..4 -> 0..4] : \A i, j \in 1..4 : i # j => n[i] # n[j] \/ n[i] = 0} \cup
  {[i \in 1..4 |-> f] : f \in 1..4}
=============================================================================
