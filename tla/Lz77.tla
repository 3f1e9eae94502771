---- MODULE Lz77 ----
(***************************************************************************)
(* What LZX decoding promises, with no window, no blocks and no frames: a  *)
(* sequence of bytes grows by a new byte, or by a match, which appends     *)
(* `left` times the byte `dist` places back from the end, each copy seeing *)
(* the bytes that the copies before it appended.                           *)
(***************************************************************************)
EXTENDS Naturals, Sequences

CONSTANTS Bytes,
          Lengths   \* the lengths a match may have, none of them 0

VARIABLES hist,  \* everything produced so far
          copy   \* the match that is being copied: [dist, left], left = 0 when there is none

lzVars == <<hist, copy>>

NoCopy == [dist |-> 0, left |-> 0]

LzInit == hist = <<>> /\ copy = NoCopy

New(b) == /\ copy.left = 0
          /\ hist' = Append(hist, b)
          /\ UNCHANGED copy

Begin(d, n) == /\ copy.left = 0
               /\ copy' = [dist |-> d, left |-> n]
               /\ UNCHANGED hist

Continue == /\ copy.left > 0
            /\ hist' = Append(hist, hist[Len(hist) + 1 - copy.dist])
            /\ copy' = IF copy.left = 1 THEN NoCopy ELSE [copy EXCEPT !.left = @ - 1]

LzNext == \/ \E b \in Bytes : New(b)
          \/ \E d \in 1 .. Len(hist), n \in Lengths : Begin(d, n)
          \/ Continue

LzSpec == LzInit /\ [][LzNext]_lzVars
====
