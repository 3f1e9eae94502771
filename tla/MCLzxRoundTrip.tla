---- MODULE MCLzxRoundTrip ----
(* A memory of three chunks, a window of two.  The inputs are empty, a single byte, one    *)
(* chunk, shorter and longer than the memory, with matches near and far, and one whose     *)
(* distances come again after others.                                                      *)
EXTENDS LzxRoundTrip

MCInputs == {<<>>, <<1>>, <<1, 2, 1, 2>>, <<1, 2, 1, 2, 1>>,
             <<1, 1, 1, 2, 1, 1, 1, 2, 1, 1, 1, 2, 1>>,
             <<1, 2, 1, 2, 3, 1, 2, 4, 3, 1, 2, 5, 2, 4>>,
             <<1, 2, 3, 4, 1, 2, 5, 6, 2, 5, 7, 8, 2, 5, 9, 1, 5, 9, 3>>}
====
