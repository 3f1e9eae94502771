---- MODULE LzxDecoderProofs ----
(***************************************************************************)
(* The decoder's window, output and steps, for every size of the window,   *)
(* of a chunk and of a match, and every stream.                            *)
(***************************************************************************)
EXTENDS LzxDecoder, SequenceTheorems, TLAPS

-----------------------------------------------------------------------------
(* Arithmetic                                                              *)

\* A number's remainder is found by taking away any multiple that leaves less than the
\* modulus.
LEMMA Remainder ==
  ASSUME NEW m \in Nat \ {0}, NEW k \in Int, NEW r \in 0 .. m - 1
  PROVE  (k * m + r) % m = r
<1> DEFINE n == k * m + r
<1>1. n \in Int
      OBVIOUS
<1>2. PICK q \in Int : n = q * m + (n % m) /\ n % m \in 0 .. m - 1
  <2>1. n % m \in 0 .. m - 1
        BY <1>1
  <2>2. n = (n \div m) * m + (n % m) /\ n \div m \in Int
        BY <1>1
  <2> QED BY <2>1, <2>2
<1>3. CASE q >= k + 1
  <2>1. q * m >= (k + 1) * m
        BY <1>3
  <2> QED BY <1>2, <2>1
<1>4. CASE q <= k - 1
  <2>1. q * m <= (k - 1) * m
        BY <1>4
  <2> QED BY <1>2, <2>1
<1>5. CASE q = k
      BY <1>2, <1>5
<1> QED BY <1>3, <1>4, <1>5

LEMMA Under ==
  ASSUME NEW p \in Int, NEW u \in Int, NEW n \in Int, NEW w \in Int, p <= u, u + n <= w
  PROVE  p + n <= w
OBVIOUS

LEMMA Multiple ==
  ASSUME NEW m \in Nat \ {0}, NEW n \in Nat, n % m = 0
  PROVE  \E q \in Int : n = q * m
<1>1. n \div m \in Int /\ n = (n \div m) * m + (n % m)
      OBVIOUS
<1>2. n = (n \div m) * m
      BY <1>1
<1> WITNESS n \div m \in Int
<1> QED BY <1>2

LEMMA Constants ==
  /\ W \in Nat \ {0} /\ LZX_CHUNK_SIZE \in Nat \ {0} /\ HEAD \in Nat \ {0}
  /\ HEAD < LZX_CHUNK_SIZE /\ 2 * LZX_CHUNK_SIZE <= W
<1>1. PICK w \in Int : W = w * LZX_CHUNK_SIZE
      BY Multiple, LzxSizes DEF W
<1>2. w >= 2
  <2>1. CASE w <= 1
    <3>1. w * LZX_CHUNK_SIZE <= 1 * LZX_CHUNK_SIZE
          BY <2>1, LzxSizes
    <3> QED BY <3>1, <1>1, LzxSizes DEF W
  <2> QED BY <2>1
<1>3. w * LZX_CHUNK_SIZE >= 2 * LZX_CHUNK_SIZE
      BY <1>2, LzxSizes
<1> QED BY <1>1, <1>3, LzxSizes DEF W, HEAD

\* Where the byte d places back is, when the next one goes to p: in front of p, or at
\* the other end of the window.
Back(p, d) == IF d <= p THEN p - d ELSE p - d + W

LEMMA Wraps ==
  ASSUME NEW at \in 0 .. W
  PROVE  at % W = IF at = W THEN 0 ELSE at
<1>1. CASE at = W
  <2>1. (1 * W + 0) % W = 0
        BY Constants, Remainder
  <2> QED BY <2>1, <1>1, Constants
<1>2. CASE at # W
  <2>1. (0 * W + at) % W = at
        BY <1>2, Constants, Remainder
  <2> QED BY <2>1, <1>2, Constants
<1> QED BY <1>1, <1>2

\* The place in the window of the byte that is d places from the end of a history of n
\* bytes whose end is at p.
LEMMA BehindEnd ==
  ASSUME NEW n \in Nat, NEW p \in 0 .. W, NEW d \in 1 .. W, d <= n,
         \E k \in Nat : n = k * W + p
  PROVE  (n - d) % W = Back(p, d)
<1>1. PICK k \in Nat : n = k * W + p
      OBVIOUS
<1>2. k * W \in Int
      BY Constants
<1>3. CASE d <= p
  <2>1. (k * W + (p - d)) % W = p - d
        BY <1>3, Constants, Remainder
  <2>2. n - d = k * W + (p - d)
        BY <1>1, <1>2
  <2> QED BY <2>1, <2>2, <1>3, Constants DEF Back
<1>4. CASE d > p
  <2> DEFINE r == p - d + W
             j == k - 1
  <2>0. r \in 0 .. W - 1 /\ j \in Int
        BY <1>4, Constants
  <2>1. (j * W + r) % W = r
    <3> HIDE DEF r, j
    <3> QED BY <2>0, Constants, Remainder
  <2>2. (k - 1) * W = k * W - W
        BY Constants
  <2>3. n - d = j * W + r
        BY <1>1, <1>2, <2>2, Constants
  <2> QED BY <2>1, <2>3, <1>4, Constants DEF Back
<1> QED BY <1>3, <1>4, Constants

\* The same without the multiple, as both loops compute it.
LEMMA Distance ==
  ASSUME NEW at \in 0 .. W - 1, NEW d \in 1 .. W
  PROVE  (at - d) % W = Back(at, d)
<1>1. CASE d <= at
  <2>1. (0 * W + (at - d)) % W = at - d
        BY <1>1, Constants, Remainder
  <2> QED BY <2>1, <1>1, Constants DEF Back
<1>2. CASE d > at
  <2>1. ((-1) * W + (at - d + W)) % W = at - d + W
        BY <1>2, Constants, Remainder
  <2>2. (-1) * W = -W
        BY Constants
  <2> QED BY <2>1, <2>2, <1>2, Constants DEF Back
<1> QED BY <1>1, <1>2, Constants

\* A frame that begins where frames may begin ends inside the window.
LEMMA FrameFits ==
  ASSUME NEW len \in Nat, len % LZX_CHUNK_SIZE = 0,
         NEW k \in Nat, NEW p \in 0 .. W - 1, len = k * W + p
  PROVE  p + LZX_CHUNK_SIZE <= W
<1> DEFINE C == LZX_CHUNK_SIZE
<1>1. PICK w \in Int : W = w * C
      BY Multiple, LzxSizes DEF W
<1>2. PICK l \in Int : len = l * C
      BY Multiple, LzxSizes
<1> DEFINE j == l - k * w
<1>3. j \in Int
      OBVIOUS
<1>4. p = j * C
  <2>1. k * W = k * (w * C) /\ k * (w * C) = (k * w) * C
        BY <1>1, LzxSizes
  <2>2. (l - k * w) * C = l * C - (k * w) * C
        BY LzxSizes
  <2> QED BY <2>1, <2>2, <1>2, <1>3, Constants
<1>5. j + 1 <= w
  <2>1. CASE j >= w
    <3>1. j * C >= w * C
          BY <2>1, LzxSizes
    <3> QED BY <3>1, <1>1, <1>4, Constants
  <2> QED BY <2>1
<1>6. (j + 1) * C <= w * C /\ (j + 1) * C = j * C + C
      BY <1>5, LzxSizes
<1> QED BY <1>1, <1>4, <1>6, Constants

-----------------------------------------------------------------------------
(* The inductive invariant                                                 *)

Running == Loops \cup {"raw"}

\* How much the run decodes, where it began, and where the next byte goes.
Amount == Smaller(block.size, bytes_to_decode)
Start == run.upto - Amount
Here == IF pc \in Running THEN run.at ELSE pos

\* A run stays inside the window and the frame, and begins in the loop that fits.
RunOK ==
  /\ total_decoded + bytes_to_decode <= LZX_CHUNK_SIZE
  /\ pc = "data" => pos + bytes_to_decode <= W
  /\ pc \in Running =>
       /\ Amount > 0 /\ Start >= 0
       /\ pos <= run.at /\ Start <= run.at
       /\ run.at + match.left <= run.upto /\ run.end <= run.upto
       /\ run.upto + (bytes_to_decode - Amount) <= W
  /\ pc = "special" => pos < HEAD /\ run.upto < W /\ run.end = Smaller(HEAD, run.upto)
  /\ pc = "fast" => HEAD <= run.at /\ run.end = run.upto
  /\ pc = "raw" => pos = Start /\ run.end = run.upto

\* A match is only copied in the two loops; in the fast one the pointer is dist bytes
\* behind, or as far in front as the window is longer, but never behind the mirror.
MatchOK ==
  /\ pc \notin Loops => match.left = 0
  /\ match.left > 0 =>
       /\ match.dist \in 1 .. W
       /\ intact => match.dist <= Len(hist)
       /\ pc = "fast" => /\ match.ptr = run.at - match.dist \/ match.ptr = run.at - match.dist + W
                         /\ match.ptr + match.left < W + HEAD

RoomOK ==
  /\ Len(dest) <= allocated_size
  /\ pc \in Running \cup {"data"} => Len(dest) + LZX_CHUNK_SIZE <= allocated_size

\* The last W bytes decoded, counted back from where the next one goes.
Filled == \A d \in 1 .. W : d <= Len(hist) => mem_window[Back(Here, d)] = hist[Len(hist) + 1 - d]
Placed == \E k \in Nat : Len(hist) = k * W + Here

\* The mirror is as good as the window's start is new.
MirrorOK ==
  \A j \in 0 .. HEAD - 1 :
    j < (IF pc \in Loops THEN run.at ELSE pos) => mem_window[W + j] = mem_window[j]

\* What has been decoded since the last frame was copied out.
Pending == IF pc \in Running THEN total_decoded + (run.at - Start)
           ELSE IF pc = "data" THEN total_decoded ELSE 0
OutputOK ==
  /\ \A i \in 1 .. Len(dest) : dest[i] = hist[i]
  /\ pc \in Running \cup {"data", "frame"} \/ (pc = "done" /\ result = 0) =>
       Len(hist) = Len(dest) + Pending
  /\ pc = "data" => total_decoded <= pos \/ (bytes_to_decode = 0 /\ pos = 0)
  /\ pc \in Running => total_decoded <= Start

Content == Filled /\ Placed /\ MirrorOK /\ OutputOK

IInv == LzxTypeOK /\ RunOK /\ MatchOK /\ RoomOK /\ (intact => Content)

LEMMA InitInv == LzxInit => IInv
<1> SUFFICES ASSUME LzxInit PROVE IInv
    OBVIOUS
<1> USE Constants DEF LzxInit, NoRun, NoMatch
<1>1. LzxTypeOK
  <2>1. last_matchpos_offset \in [0 .. 2 -> 1 .. W] /\ mem_window \in [0 .. W + HEAD + 3 -> Bytes \cup {None}]
        OBVIOUS
  <2>2. 0 \in 0 .. LZX_MAX_MATCH /\ pos \in 0 .. W - 1 /\ 0 \in 0 .. LZX_CHUNK_SIZE
        BY DEF HEAD
  <2>3. match \in [dist : Nat, ptr : Nat, left : 0 .. LZX_MAX_MATCH]
        BY <2>2
  <2> QED BY <2>1, <2>2, <2>3 DEF LzxTypeOK
<1>2. RunOK
  <2>1. pc \notin Running
        BY DEF Running, Loops
  <2>2. total_decoded + bytes_to_decode = 0
        OBVIOUS
  <2> QED BY <2>1, <2>2 DEF RunOK
<1>5. MatchOK
      BY DEF MatchOK, Loops
<1>6. RoomOK
      BY DEF RoomOK, Running, Loops
<1>3. Filled /\ MirrorOK /\ OutputOK
      BY DEF Filled, MirrorOK, OutputOK, Pending, Running, Loops
<1>4. Placed
  <2>1. Len(hist) = 0 * W + Here
        BY DEF Here, Running, Loops
  <2> QED BY <2>1 DEF Placed
<1> QED BY <1>1, <1>2, <1>3, <1>4, <1>5, <1>6 DEF IInv, Content

\* A byte more: it is put where the next one goes.
LEMMA Grows ==
  ASSUME hist \in Seq(Bytes), Here \in 0 .. W - 1, Filled, Placed, NEW b \in Bytes,
         hist' = Append(hist, b), Here' = Here + 1,
         \A i \in 0 .. W - 1 : mem_window'[i] = IF i = Here THEN b ELSE mem_window[i]
  PROVE  Filled' /\ Placed'
<1>1. Len(hist') = Len(hist) + 1 /\ hist'[Len(hist) + 1] = b
      /\ \A i \in 1 .. Len(hist) : hist'[i] = hist[i]
      OBVIOUS
<1>2. Filled'
  <2> SUFFICES ASSUME NEW d \in 1 .. W, d <= Len(hist')
               PROVE  mem_window'[Back(Here', d)] = hist'[Len(hist') + 1 - d]
      BY DEF Filled
  <2>1. CASE d = 1
        BY <2>1, <1>1, Constants DEF Back
  <2>2. CASE d > 1
    <3>1. Back(Here', d) = Back(Here, d - 1) /\ Back(Here, d - 1) \in 0 .. W - 1
          /\ Back(Here, d - 1) # Here
          BY <2>2, Constants DEF Back
    <3>2. mem_window[Back(Here, d - 1)] = hist[Len(hist) + 1 - (d - 1)]
      <4>1. d - 1 \in 1 .. W /\ d - 1 <= Len(hist)
            BY <2>2, <1>1, Constants
      <4> QED BY <4>1 DEF Filled
    <3>3. hist'[Len(hist') + 1 - d] = hist[Len(hist) + 1 - (d - 1)]
          BY <2>2, <1>1
    <3> QED BY <3>1, <3>2, <3>3
  <2> QED BY <2>1, <2>2
<1>3. Placed'
  <2>1. PICK k \in Nat : Len(hist) = k * W + Here
        BY DEF Placed
  <2>2. Len(hist') = k * W + Here'
        BY <2>1, <1>1, Constants
  <2> QED BY <2>2 DEF Placed
<1> QED BY <1>2, <1>3

\* The position is taken back to the window's start when it has come to its end.
LEMMA Stored ==
  ASSUME hist \in Seq(Bytes), Here \in 0 .. W, Filled, Placed,
         hist' = hist, Here' = Here % W,
         \A i \in 0 .. W - 1 : mem_window'[i] = mem_window[i]
  PROVE  Filled' /\ Placed'
<1>1. Here' = IF Here = W THEN 0 ELSE Here
      BY Wraps
<1>2. \A d \in 1 .. W : Back(Here', d) = Back(Here, d) /\ Back(Here, d) \in 0 .. W - 1
      BY <1>1, Constants DEF Back
<1>3. Filled'
      BY <1>2 DEF Filled
<1>4. PICK k \in Nat : Len(hist) = k * W + Here
      BY DEF Placed
<1>5. CASE Here = W
  <2>1. Len(hist') = (k + 1) * W + Here'
        BY <1>1, <1>4, <1>5, Constants
  <2> QED BY <2>1, <1>3 DEF Placed
<1>6. CASE Here # W
      BY <1>1, <1>3, <1>4, <1>6 DEF Placed
<1> QED BY <1>5, <1>6

LEMMA Unmoved ==
  ASSUME Filled, Placed, mem_window' = mem_window, hist' = hist, Here' = Here
  PROVE  Filled' /\ Placed'
BY DEF Filled, Placed

LEMMA AmountIs ==
  ASSUME LzxTypeOK
  PROVE  /\ Amount \in Nat /\ Amount <= bytes_to_decode /\ Amount <= block.size
         /\ bytes_to_decode \in 0 .. LZX_CHUNK_SIZE /\ total_decoded \in 0 .. LZX_CHUNK_SIZE
<1>1. /\ bytes_to_decode \in 0 .. LZX_CHUNK_SIZE /\ total_decoded \in 0 .. LZX_CHUNK_SIZE
      /\ block.size \in Nat
      BY DEF LzxTypeOK
<1>2. bytes_to_decode \in Nat
      BY <1>1, Constants
<1>3. Amount = IF block.size < bytes_to_decode THEN block.size ELSE bytes_to_decode
      BY DEF Amount, Smaller
<1> QED BY <1>1, <1>2, <1>3

\* Where a run writes.
LEMMA InRun ==
  ASSUME IInv, pc \in Running
  PROVE  /\ run.at \in 0 .. run.upto /\ run.upto \in 0 .. W /\ run.end \in Nat /\ run.end <= run.upto
         /\ match.left \in 0 .. HEAD /\ run.at + match.left <= run.upto
         /\ Here = run.at /\ run \in [at : Nat, end : Nat, upto : Nat]
         /\ match \in [dist : Nat, ptr : Nat, left : 0 .. LZX_MAX_MATCH]
         /\ Start \in Nat /\ Start <= run.at /\ Amount \in Nat /\ Amount <= bytes_to_decode
<1>1. /\ run \in [at : Nat, end : Nat, upto : Nat]
      /\ match \in [dist : Nat, ptr : Nat, left : 0 .. LZX_MAX_MATCH]
      BY DEF IInv, LzxTypeOK
<1>2. Amount \in Nat /\ Amount <= bytes_to_decode /\ bytes_to_decode \in Nat
      BY AmountIs, Constants DEF IInv
<1>3. /\ run.at + match.left <= run.upto /\ run.end <= run.upto
      /\ run.upto + (bytes_to_decode - Amount) <= W
      /\ Start >= 0 /\ Start <= run.at
      BY DEF IInv, RunOK
<1> QED BY <1>1, <1>2, <1>3, Constants DEF Here, HEAD, Start

-----------------------------------------------------------------------------
(* Every action keeps it                                                   *)

\* A byte written at run.at: what the loops have in common.
LEMMA WriteKeeps ==
  ASSUME IInv, pc \in Running, run.at < run.upto, NEW b, intact => b \in Bytes,
         hist' = (IF intact THEN Append(hist, b) ELSE hist),
         run' = [run EXCEPT !.at = @ + 1],
         \A i \in 0 .. W - 1 : mem_window'[i] = IF i = run.at THEN b ELSE mem_window[i],
         UNCHANGED <<pc, pos, block, frameVars, result, intact>>
  PROVE  /\ run' \in [at : Nat, end : Nat, upto : Nat]
         /\ hist' \in Seq(Bytes)
         /\ RoomOK'
         /\ Amount' = Amount /\ Start' = Start
         /\ intact => Filled' /\ Placed' /\ OutputOK'
<1>1. /\ run.at \in 0 .. W - 1 /\ Here = run.at /\ run \in [at : Nat, end : Nat, upto : Nat]
      BY InRun, Constants
<1>2. /\ run' \in [at : Nat, end : Nat, upto : Nat] /\ run'.at = run.at + 1
      /\ run'.upto = run.upto /\ run'.end = run.end
      BY <1>1
<1>3. hist \in Seq(Bytes)
      BY DEF IInv, LzxTypeOK
<1>4. hist' \in Seq(Bytes)
      BY <1>3
<1>5. RoomOK'
      BY DEF IInv, RoomOK, frameVars
<1>6. Amount' = Amount /\ Start' = Start
      BY <1>2 DEF Amount, Start, frameVars
<1>7. ASSUME intact
      PROVE  Filled' /\ Placed'
  <2>1. Here' = Here + 1
        BY <1>1, <1>2 DEF Here
  <2> QED BY <1>1, <1>3, <1>7, <2>1, Grows DEF IInv, Content
<1>8. ASSUME intact
      PROVE  OutputOK'
  <2>1. OutputOK
        BY <1>8 DEF IInv, Content
  <2>2. Len(hist') = Len(hist) + 1 /\ \A i \in 1 .. Len(hist) : hist'[i] = hist[i]
        BY <1>3, <1>8
  <2>3. pc # "data" /\ pc # "frame" /\ pc # "done"
        BY DEF Running, Loops
  <2>4. Len(hist) = Len(dest) + (total_decoded + (run.at - Start)) /\ total_decoded <= Start
        BY <2>1 DEF OutputOK, Pending
  <2>5. /\ Start \in Nat /\ Start <= run.at /\ total_decoded \in Nat
        /\ dest \in Seq(Bytes \cup {None}) /\ Len(dest) \in Nat
    <3>1. dest \in Seq(Bytes \cup {None})
          BY DEF IInv, LzxTypeOK
    <3> QED BY <3>1, AmountIs, InRun, Constants DEF IInv
  <2>6. \A i \in 1 .. Len(dest) : dest'[i] = hist'[i]
    <3>1. dest' = dest /\ \A i \in 1 .. Len(dest) : dest[i] = hist[i]
          BY <2>1 DEF OutputOK, frameVars
    <3>2. run.at - Start \in Nat
          BY <2>5, <1>1
    <3>3. Len(dest) <= Len(hist)
          BY <2>4, <2>5, <3>2
    <3>4. \A i \in 1 .. Len(dest) : i \in 1 .. Len(hist)
          BY <2>5, <3>3, <1>3
    <3> QED BY <2>2, <3>1, <3>4
  <2>7. Len(hist') = Len(dest') + Pending'
    <3>1. dest' = dest /\ total_decoded' = total_decoded /\ pc' = pc
          BY DEF frameVars
    <3>2. Pending' = total_decoded + ((run.at + 1) - Start)
      <4>1. Pending' = total_decoded' + (run'.at - Start')
            BY <3>1 DEF Pending
      <4>2. run'.at = run.at + 1 /\ Start' = Start /\ total_decoded' = total_decoded
            BY <1>2, <1>6, <3>1
      <4> QED BY ONLY <4>1, <4>2
    <3>3. total_decoded + ((run.at + 1) - Start) = (total_decoded + (run.at - Start)) + 1
      <4>1. run.at \in Int /\ Start \in Int /\ total_decoded \in Int
            BY <1>1, <2>5
      <4> QED BY ONLY <4>1
    <3>4. Len(hist) + 1 = Len(dest) + ((total_decoded + (run.at - Start)) + 1)
      <4>1. total_decoded + (run.at - Start) \in Int
            BY <2>5, <1>1
      <4> QED BY <2>4, <2>5, <4>1
    <3> QED BY <2>2, <3>1, <3>2, <3>3, <3>4
  <2> QED BY <2>3, <2>4, <2>6, <2>7, <1>6 DEF OutputOK, frameVars
<1> QED BY <1>2, <1>4, <1>5, <1>6, <1>7, <1>8

\* A byte that is kept twice.
LEMMA MirroredIs ==
  ASSUME mem_window \in [0 .. W + HEAD + 3 -> Bytes \cup {None}],
         NEW at \in 0 .. HEAD - 1, NEW b \in Bytes \cup {None},
         mem_window' = Mirrored(mem_window, at, b)
  PROVE  /\ mem_window' \in [0 .. W + HEAD + 3 -> Bytes \cup {None}]
         /\ \A i \in 0 .. W - 1 : mem_window'[i] = IF i = at THEN b ELSE mem_window[i]
         /\ \A j \in 0 .. HEAD - 1 : mem_window'[W + j] = IF j = at THEN b ELSE mem_window[W + j]
<1> DEFINE first == [mem_window EXCEPT ![at] = b]
<1>1. mem_window' = [first EXCEPT ![W + at] = b]
      BY DEF Mirrored
<1>2. at \in 0 .. W - 1 /\ W + at \in 0 .. W + HEAD + 3 /\ W + at >= W
      BY Constants
<1>3. first \in [0 .. W + HEAD + 3 -> Bytes \cup {None}]
      BY <1>2
<1>4. \A i \in 0 .. W - 1 : i \in 0 .. W + HEAD + 3 /\ first[i] = IF i = at THEN b ELSE mem_window[i]
      BY <1>2, Constants
<1>5. \A j \in 0 .. HEAD - 1 : W + j \in 0 .. W + HEAD + 3 /\ first[W + j] = mem_window[W + j]
      BY <1>2, Constants
<1> HIDE DEF first
<1>6. mem_window' \in [0 .. W + HEAD + 3 -> Bytes \cup {None}]
      BY <1>1, <1>2, <1>3
<1>7. \A i \in 0 .. W - 1 : mem_window'[i] = IF i = at THEN b ELSE mem_window[i]
      BY <1>1, <1>2, <1>3, <1>4, Constants
<1>8. \A j \in 0 .. HEAD - 1 : mem_window'[W + j] = IF j = at THEN b ELSE mem_window[W + j]
      BY <1>1, <1>2, <1>3, <1>5, Constants
<1> QED BY <1>6, <1>7, <1>8

LEMMA LiteralKeeps == ASSUME IInv, NEW b \in Bytes, Literal(b) PROVE IInv'
<1>1. pc \in Loops /\ pc \in Running /\ match.left = 0 /\ run.at < run.end
      BY DEF Literal, AtItem, Running
<1>2. /\ run.at \in 0 .. run.upto - 1 /\ run.upto \in 0 .. W /\ run.end <= run.upto
      /\ run \in [at : Nat, end : Nat, upto : Nat]
      BY <1>1, InRun, Constants
<1>0. pc = "special" => run.at < HEAD
  <2>1. pc = "special" => run.end <= HEAD
        BY <1>2, Constants DEF IInv, RunOK, Smaller
  <2> QED BY <2>1, <1>1, <1>2, Constants
<1>3. UNCHANGED <<pc, pos, last_matchpos_offset, block, match, frameVars, result, intact>>
      BY DEF Literal
<1>4. mem_window \in [0 .. W + HEAD + 3 -> Bytes \cup {None}]
      BY DEF IInv, LzxTypeOK
<1>5. /\ mem_window' \in [0 .. W + HEAD + 3 -> Bytes \cup {None}]
      /\ \A i \in 0 .. W - 1 : mem_window'[i] = IF i = run.at THEN b ELSE mem_window[i]
  <2>1. CASE pc = "special"
    <3>1. mem_window' = Mirrored(mem_window, run.at, b) /\ run.at \in 0 .. HEAD - 1
          BY <2>1, <1>0, <1>2, Constants DEF Literal
    <3> QED BY <3>1, <1>4, MirroredIs
  <2>2. CASE pc # "special"
    <3>1. mem_window' = [mem_window EXCEPT ![run.at] = b]
          BY <2>2 DEF Literal
    <3> QED BY <3>1, <1>2, <1>4, Constants
  <2> QED BY <2>1, <2>2
<1>6. run' = [run EXCEPT !.at = @ + 1] /\ hist' = (IF intact THEN Append(hist, b) ELSE hist)
      BY DEF Literal, Decoded
<1>7. /\ run' \in [at : Nat, end : Nat, upto : Nat] /\ hist' \in Seq(Bytes)
      /\ RoomOK' /\ Amount' = Amount /\ Start' = Start
      /\ intact => Filled' /\ Placed' /\ OutputOK'
  <2>1. run.at < run.upto /\ (intact => b \in Bytes)
        BY <1>2, Constants
  <2>2. \A i \in 0 .. W - 1 : mem_window'[i] = IF i = run.at THEN b ELSE mem_window[i]
        BY <1>5
  <2>3. UNCHANGED <<pc, pos, block, frameVars, result, intact>>
        BY <1>3
  <2> QED BY <1>1, <1>6, <2>1, <2>2, <2>3, WriteKeeps
<1>8. LzxTypeOK'
      BY <1>3, <1>5, <1>7 DEF IInv, LzxTypeOK, frameVars
<1>9. run'.at = run.at + 1 /\ run'.upto = run.upto /\ run'.end = run.end
      BY <1>2, <1>6
<1>10. RunOK'
  <2>1. RunOK /\ Start \in Nat /\ pos \in 0 .. W - 1
        BY <1>1, InRun DEF IInv, LzxTypeOK
  <2> QED BY <1>1, <1>2, <1>3, <1>7, <1>9, <2>1, Constants DEF RunOK, frameVars, Loops
<1>11. MatchOK'
      BY <1>1, <1>3 DEF MatchOK
<1>12. ASSUME intact PROVE MirrorOK'
  <2>1. MirrorOK
        BY <1>12 DEF IInv, Content
  <2>2. CASE pc = "special"
    <3>1. mem_window' = Mirrored(mem_window, run.at, b) /\ run.at \in 0 .. HEAD - 1
          BY <1>0, <1>2, <2>2, Constants DEF Literal
    <3>2. \A j \in 0 .. HEAD - 1 : /\ mem_window'[j] = IF j = run.at THEN b ELSE mem_window[j]
                                  /\ mem_window'[W + j] = IF j = run.at THEN b ELSE mem_window[W + j]
          BY <3>1, <1>4, MirroredIs, Constants
    <3> QED BY <3>1, <3>2, <2>1, <1>1, <1>3, <1>9, Constants DEF MirrorOK
  <2>3. CASE pc = "fast"
    <3>1. HEAD <= run.at /\ mem_window' = [mem_window EXCEPT ![run.at] = b]
          BY <2>3 DEF IInv, RunOK, Literal
    <3> QED BY <3>1, <2>1, <2>3, <1>1, <1>2, <1>3, <1>4, <1>9, Constants DEF MirrorOK
  <2> QED BY <2>2, <2>3, <1>1 DEF Loops
<1> QED BY <1>3, <1>7, <1>8, <1>10, <1>11, <1>12 DEF IInv, Content

LEMMA RawByteKeeps == ASSUME IInv, NEW b \in Bytes, RawByte(b) PROVE IInv'
<1>1. pc = "raw" /\ pc \in Running /\ pc \notin Loops /\ run.at < run.end
      BY DEF RawByte, Running, Loops
<1>2. /\ run.at \in 0 .. run.upto - 1 /\ run.upto \in 0 .. W /\ run.end <= run.upto
      /\ run \in [at : Nat, end : Nat, upto : Nat]
      BY <1>1, InRun, Constants
<1>3. UNCHANGED <<pc, pos, last_matchpos_offset, block, match, frameVars, result, intact>>
      BY DEF RawByte
<1>4. mem_window \in [0 .. W + HEAD + 3 -> Bytes \cup {None}]
      BY DEF IInv, LzxTypeOK
<1>5. mem_window' = [mem_window EXCEPT ![run.at] = b]
      BY DEF RawByte
<1>6. /\ mem_window' \in [0 .. W + HEAD + 3 -> Bytes \cup {None}]
      /\ \A i \in 0 .. W - 1 : mem_window'[i] = IF i = run.at THEN b ELSE mem_window[i]
      BY <1>2, <1>4, <1>5, Constants
<1>7. run' = [run EXCEPT !.at = @ + 1] /\ hist' = (IF intact THEN Append(hist, b) ELSE hist)
      BY DEF RawByte, Decoded
<1>8. /\ run' \in [at : Nat, end : Nat, upto : Nat] /\ hist' \in Seq(Bytes)
      /\ RoomOK' /\ Amount' = Amount /\ Start' = Start
      /\ intact => Filled' /\ Placed' /\ OutputOK'
      BY <1>1, <1>2, <1>3, <1>6, <1>7, WriteKeeps, SMTT(30)
<1>9. LzxTypeOK'
      BY <1>3, <1>6, <1>8 DEF IInv, LzxTypeOK, frameVars
<1>10. run'.at = run.at + 1 /\ run'.upto = run.upto /\ run'.end = run.end
      BY <1>2, <1>7
<1>11. match.left = 0 /\ pos \in 0 .. W - 1 /\ pos = Start
      BY <1>1 DEF IInv, MatchOK, LzxTypeOK, RunOK
<1>12. RunOK'
  <2>1. RunOK /\ Start \in Nat /\ pos \in 0 .. W - 1
        BY <1>1, InRun DEF IInv, LzxTypeOK
  <2> QED BY <1>1, <1>2, <1>3, <1>8, <1>10, <1>11, <2>1, Constants DEF RunOK, frameVars
<1>13. MatchOK'
      BY <1>11, <1>3 DEF MatchOK
<1>14. ASSUME intact PROVE MirrorOK'
  <2>1. MirrorOK /\ run.at >= pos
        BY <1>1, <1>14 DEF IInv, Content, RunOK
  <2> QED BY <2>1, <1>1, <1>2, <1>3, <1>4, <1>5, <1>11, Constants DEF MirrorOK
<1> QED BY <1>3, <1>8, <1>9, <1>12, <1>13, <1>14 DEF IInv, Content

\* The byte a match copies next is dist places back, through the mirror too.
Copied == IF pc = "special" THEN mem_window[(run.at - match.dist) % W]
          ELSE mem_window[match.ptr]

LEMMA CopiedIs ==
  ASSUME IInv, pc \in Loops, match.left > 0
  PROVE  /\ Copied \in Bytes \cup {None}
         /\ intact => Copied \in Bytes /\ Copied = hist[Len(hist) + 1 - match.dist]
<1>1. /\ run.at \in 0 .. W - 1 /\ run.at + match.left <= W /\ Here = run.at
      /\ match.left \in 1 .. HEAD /\ match.dist \in Nat /\ match.ptr \in Nat
      BY InRun, Constants DEF Running
<1>2. match.dist \in 1 .. W /\ (intact => match.dist <= Len(hist))
      BY DEF IInv, MatchOK
<1>3. mem_window \in [0 .. W + HEAD + 3 -> Bytes \cup {None}] /\ hist \in Seq(Bytes)
      BY DEF IInv, LzxTypeOK
<1>4. Back(run.at, match.dist) \in 0 .. W - 1
      BY <1>1, <1>2, Constants DEF Back
<1>5. CASE pc = "special"
  <2>1. Copied = mem_window[Back(run.at, match.dist)]
        BY <1>1, <1>2, <1>5, Distance DEF Copied
  <2>2. ASSUME intact PROVE Copied = hist[Len(hist) + 1 - match.dist]
        BY <2>1, <2>2, <1>1, <1>2 DEF IInv, Content, Filled
  <2> QED BY <2>1, <2>2, <1>2, <1>3, <1>4, Constants
<1>6. CASE pc = "fast"
  <2>1. /\ match.ptr = run.at - match.dist \/ match.ptr = run.at - match.dist + W
        /\ match.ptr + match.left < W + HEAD
        BY <1>6 DEF IInv, MatchOK
  <2>2. Copied = mem_window[match.ptr] /\ match.ptr \in 0 .. W + HEAD + 3
        BY <1>1, <1>6, <2>1, Constants DEF Copied
  <2>3. ASSUME intact PROVE Copied = mem_window[Back(run.at, match.dist)]
    <3>1. CASE match.ptr = Back(run.at, match.dist)
          BY <3>1, <2>2
    <3>2. CASE match.ptr # Back(run.at, match.dist)
      <4> DEFINE j == run.at - match.dist
      <4>0. match.dist <= run.at
        <5>1. CASE match.dist > run.at
          <6>1. Back(run.at, match.dist) = run.at - match.dist + W
                BY <5>1, <1>1, <1>2, Constants DEF Back
          <6>2. match.ptr = run.at - match.dist
                BY <6>1, <3>2, <2>1
          <6> QED BY <6>2, <5>1, <1>1, Constants
        <5> QED BY <5>1, <1>1
      <4>3. Back(run.at, match.dist) = j
            BY <4>0 DEF Back
      <4>4. match.ptr = j + W
            BY <4>3, <3>2, <2>1
      <4>5. j \in Nat /\ j < run.at
            BY <4>0, <1>1, <1>2, Constants
      <4>6. j + 1 <= match.ptr + match.left - W
            BY <4>4, <4>5, <1>1, Constants
      <4>7. j < HEAD
            BY <4>5, <4>6, <2>1, <1>1, Constants
      <4>1. j \in 0 .. HEAD - 1 /\ j < run.at /\ match.ptr = W + j /\ j = Back(run.at, match.dist)
            BY <4>3, <4>4, <4>5, <4>7, Constants
      <4>2. mem_window[W + j] = mem_window[j]
            BY <4>1, <2>3, <1>6 DEF IInv, Content, MirrorOK, Loops
      <4> QED BY <4>1, <4>2, <2>2
    <3> QED BY <3>1, <3>2
  <2>4. ASSUME intact PROVE Copied = hist[Len(hist) + 1 - match.dist]
        BY <2>3, <2>4, <1>1, <1>2 DEF IInv, Content, Filled
  <2> QED BY <2>2, <2>4, <1>2, <1>3, Constants
<1> QED BY <1>5, <1>6 DEF Loops

LEMMA CopyByteKeeps == ASSUME IInv, CopyByte PROVE IInv'
<1>1. pc \in Loops /\ pc \in Running /\ match.left > 0
      BY DEF CopyByte, Running
<1>2. /\ run.at \in 0 .. run.upto - 1 /\ run.upto \in 0 .. W /\ run.end \in Nat /\ run.end <= run.upto
      /\ run \in [at : Nat, end : Nat, upto : Nat] /\ run.at + match.left <= run.upto
      /\ match \in [dist : Nat, ptr : Nat, left : 0 .. LZX_MAX_MATCH]
      /\ match.left \in 1 .. HEAD
      BY <1>1, InRun, Constants
<1>3. UNCHANGED <<pc, pos, last_matchpos_offset, block, frameVars, result, intact>>
      BY DEF CopyByte
<1>4. /\ mem_window \in [0 .. W + HEAD + 3 -> Bytes \cup {None}]
      /\ Copied \in Bytes \cup {None} /\ (intact => Copied \in Bytes)
      BY <1>1, CopiedIs DEF IInv, LzxTypeOK
<1>5. mem_window' = IF pc = "special" /\ run.at < HEAD THEN Mirrored(mem_window, run.at, Copied)
                    ELSE [mem_window EXCEPT ![run.at] = Copied]
      BY DEF CopyByte, Copied
<1>6. /\ mem_window' \in [0 .. W + HEAD + 3 -> Bytes \cup {None}]
      /\ \A i \in 0 .. W - 1 : mem_window'[i] = IF i = run.at THEN Copied ELSE mem_window[i]
  <2>1. CASE pc = "special" /\ run.at < HEAD
    <3>1. run.at \in 0 .. HEAD - 1
          BY <2>1, <1>2, Constants
    <3> QED BY <2>1, <3>1, <1>4, <1>5, MirroredIs
  <2>2. CASE ~(pc = "special" /\ run.at < HEAD)
    <3>1. mem_window' = [mem_window EXCEPT ![run.at] = Copied]
          BY <2>2, <1>5
    <3> QED BY <3>1, <1>2, <1>4, Constants
  <2> QED BY <2>1, <2>2
<1>7. run' = [run EXCEPT !.at = @ + 1] /\ hist' = (IF intact THEN Append(hist, Copied) ELSE hist)
      BY DEF CopyByte, Decoded, Copied
<1>8. /\ run' \in [at : Nat, end : Nat, upto : Nat] /\ hist' \in Seq(Bytes)
      /\ RoomOK' /\ Amount' = Amount /\ Start' = Start
      /\ intact => Filled' /\ Placed' /\ OutputOK'
  <2>1. PICK b : b = Copied
        OBVIOUS
  <2>2. run.at < run.upto
        BY <1>2, Constants
  <2>3. \A i \in 0 .. W - 1 : mem_window'[i] = IF i = run.at THEN b ELSE mem_window[i]
        BY <2>1, <1>6
  <2>4. (intact => b \in Bytes) /\ hist' = (IF intact THEN Append(hist, b) ELSE hist)
        BY <2>1, <1>4, <1>7
  <2>5. run' = [run EXCEPT !.at = @ + 1]
        BY <1>7
  <2> QED BY <2>2, <2>3, <2>4, <2>5, <1>1, <1>3, WriteKeeps
<1>9. run'.at = run.at + 1 /\ run'.upto = run.upto /\ run'.end = run.end
      BY <1>2, <1>7
<1>10. /\ match' \in [dist : Nat, ptr : Nat, left : 0 .. LZX_MAX_MATCH]
       /\ match'.left = match.left - 1
       /\ match'.left > 0 => /\ match'.dist = match.dist
                             /\ pc = "fast" => match'.ptr = match.ptr + 1
  <2>1. CASE match.left = 1
    <3>1. match' = NoMatch
          BY <2>1 DEF CopyByte
    <3> QED BY <3>1, <2>1, Constants DEF NoMatch, HEAD
  <2>2. CASE match.left # 1
    <3>1. match' = [match EXCEPT !.left = @ - 1, !.ptr = IF pc = "fast" THEN @ + 1 ELSE @]
          BY <2>2 DEF CopyByte
    <3> DEFINE ptr == IF pc = "fast" THEN match.ptr + 1 ELSE match.ptr
    <3>2. match' = [dist |-> match.dist, ptr |-> ptr, left |-> match.left - 1]
          BY <3>1, <1>2
    <3>3. ptr \in Nat /\ match.left - 1 \in 0 .. LZX_MAX_MATCH /\ match.dist \in Nat
          BY <1>2, Constants DEF HEAD
    <3> QED BY <3>2, <3>3
  <2> QED BY <2>1, <2>2
<1>11. LzxTypeOK'
      BY <1>3, <1>6, <1>8, <1>10 DEF IInv, LzxTypeOK, frameVars
<1>12. RunOK'
  <2>1. RunOK /\ Start \in Nat /\ pos \in 0 .. W - 1 /\ bytes_to_decode \in Nat /\ Amount \in Nat
    <3>1. pos \in 0 .. W - 1 /\ LzxTypeOK /\ RunOK
          BY DEF IInv, LzxTypeOK
    <3>2. bytes_to_decode \in Nat /\ Amount \in Nat
          BY <3>1, AmountIs, Constants
    <3> QED BY <1>1, <3>1, <3>2, InRun
  <2>4. /\ pos <= run.at /\ Start <= run.at /\ run.upto + (bytes_to_decode - Amount) <= W
        BY <1>1, <2>1 DEF RunOK
  <2>5. match'.left = match.left - 1 /\ bytes_to_decode' = bytes_to_decode /\ pos' = pos
        BY <1>3, <1>10 DEF frameVars
  <2>6. pos' <= run'.at /\ Start' <= run'.at
    <3>1. pos' = pos /\ Start' = Start /\ run'.at = run.at + 1
          BY <1>8, <1>9, <2>5
    <3>2. pos \in Int /\ Start \in Int /\ run.at \in Int
          BY <1>2, <2>1
    <3> QED BY <2>4, <3>1, <3>2
  <2>7. run'.at + match'.left <= run'.upto /\ run'.end <= run'.upto
        BY <1>2, <1>9, <2>5, Constants
  <2>8. run'.upto + (bytes_to_decode' - Amount') <= W
        BY <1>8, <1>9, <2>4, <2>5
  <2>2. /\ pos' <= run'.at /\ Start' <= run'.at
        /\ run'.at + match'.left <= run'.upto /\ run'.end <= run'.upto
        /\ run'.upto + (bytes_to_decode' - Amount') <= W
        BY <2>6, <2>7, <2>8
  <2>3. pc' = "fast" => HEAD <= run'.at /\ run'.end = run'.upto
        BY <1>2, <1>3, <1>9, <2>1, Constants DEF RunOK
  <2> QED BY <1>1, <1>3, <1>8, <1>9, <2>1, <2>2, <2>3 DEF RunOK, frameVars, Loops
<1>13. MatchOK'
  <2>1. MatchOK /\ hist \in Seq(Bytes)
        BY DEF IInv, LzxTypeOK
  <2>2. Len(hist') >= Len(hist) /\ Len(hist) \in Nat /\ Len(hist') \in Nat
        BY <2>1, <1>7, <1>8, <1>4
  <2> SUFFICES ASSUME match'.left > 0
               PROVE  /\ match'.dist \in 1 .. W
                      /\ intact => match'.dist <= Len(hist')
                      /\ pc = "fast" => /\ \/ match'.ptr = run'.at - match'.dist
                                           \/ match'.ptr = run'.at - match'.dist + W
                                        /\ match'.ptr + match'.left < W + HEAD
      BY <1>1, <1>3 DEF MatchOK
  <2>3. match'.dist = match.dist /\ match'.left = match.left - 1
        BY <1>10
  <2>6. match'.left \in Nat
        BY <1>10, Constants DEF HEAD
  <2>4. match'.dist \in 1 .. W /\ (intact => match'.dist <= Len(hist'))
        BY <1>1, <2>1, <2>2, <2>3, Constants DEF MatchOK
  <2>5. ASSUME pc = "fast"
        PROVE  /\ match'.ptr = run'.at - match'.dist \/ match'.ptr = run'.at - match'.dist + W
               /\ match'.ptr + match'.left < W + HEAD
    <3>1. match'.ptr = match.ptr + 1 /\ match.ptr \in Nat
          BY <1>2, <1>10, <2>5
    <3>2. /\ match.ptr = run.at - match.dist \/ match.ptr = run.at - match.dist + W
          /\ match.ptr + match.left < W + HEAD
          BY <1>1, <2>1, <2>5 DEF MatchOK
    <3> QED BY <1>2, <1>9, <2>3, <3>1, <3>2, Constants
  <2> QED BY <2>4, <2>5
<1>14. ASSUME intact PROVE MirrorOK'
  <2>1. MirrorOK
        BY <1>14 DEF IInv, Content
  <2>2. CASE pc = "special" /\ run.at < HEAD
    <3>1. mem_window' = Mirrored(mem_window, run.at, Copied) /\ run.at \in 0 .. HEAD - 1
          BY <2>2, <1>2, <1>5, Constants
    <3>2. \A j \in 0 .. HEAD - 1 :
            /\ mem_window'[j] = IF j = run.at THEN Copied ELSE mem_window[j]
            /\ mem_window'[W + j] = IF j = run.at THEN Copied ELSE mem_window[W + j]
          BY <3>1, <1>4, MirroredIs, Constants
    <3> QED BY <3>1, <3>2, <2>1, <1>1, <1>3, <1>9, Constants DEF MirrorOK
  <2>3. CASE ~(pc = "special" /\ run.at < HEAD)
    <3>1. HEAD <= run.at /\ mem_window' = [mem_window EXCEPT ![run.at] = Copied]
      <4>1. run.at \in Nat /\ HEAD \in Nat
            BY <1>2, Constants
      <4>2. CASE pc = "special"
            BY <2>3, <1>5, <4>1, <4>2
      <4>3. CASE pc = "fast"
            BY <2>3, <1>5, <4>3 DEF IInv, RunOK
      <4> QED BY <1>1, <4>2, <4>3 DEF Loops
    <3>2. SUFFICES ASSUME NEW j \in 0 .. HEAD - 1 PROVE mem_window'[W + j] = mem_window'[j]
          BY DEF MirrorOK
    <3>3. run.at \in 0 .. W - 1 /\ HEAD \in Nat /\ HEAD < W /\ W \in Nat
          BY <1>2, Constants
    <3>4. mem_window'[W + j] = mem_window[W + j] /\ mem_window'[j] = mem_window[j]
      <4>1. W + j \in 0 .. W + HEAD + 3 /\ W + j # run.at /\ j # run.at
            BY <3>1, <3>3
      <4>2. j \in 0 .. W + HEAD + 3
            BY <3>3
      <4> QED BY <1>4, <3>1, <4>1, <4>2
    <3>5. j < run.at
          BY <3>1, <3>3
    <3> QED BY <1>1, <2>1, <3>4, <3>5 DEF MirrorOK
  <2> QED BY <2>2, <2>3
<1> QED BY <1>3, <1>8, <1>11, <1>12, <1>13, <1>14 DEF IInv, Content

\* A run is over: what all its ends have in common.
LEMMA RunOverKeeps ==
  ASSUME IInv, pc \in Running, RunOver, hist' = hist, intact' \in BOOLEAN,
         pos' \in 0 .. W - 1, pos' <= run.upto,
         mem_window' \in [0 .. W + HEAD + 3 -> Bytes \cup {None}]
  PROVE  /\ LzxTypeOK' /\ RunOK' /\ MatchOK' /\ RoomOK' /\ pc' = "data"
         /\ intact /\ run.at = run.upto /\ pos' = run.at % W => OutputOK' /\ Here' = Here % W
<1> DEFINE amount == Smaller(block.size, bytes_to_decode)
<1>1. /\ block' = [block EXCEPT !.size = @ - amount]
      /\ bytes_to_decode' = bytes_to_decode - amount /\ total_decoded' = total_decoded + amount
      /\ run' = NoRun /\ match' = NoMatch /\ pc' = "data"
      /\ UNCHANGED <<last_matchpos_offset, dest, allocated_size, result>>
      BY DEF RunOver
<1>2. amount = Amount
      BY DEF Amount
<1> HIDE DEF amount
<1>3. /\ amount \in Nat /\ amount <= bytes_to_decode /\ amount <= block.size
      /\ bytes_to_decode \in 0 .. LZX_CHUNK_SIZE /\ total_decoded \in 0 .. LZX_CHUNK_SIZE
      BY <1>2, AmountIs DEF IInv
<1>4. total_decoded + bytes_to_decode <= LZX_CHUNK_SIZE
      BY DEF IInv, RunOK
<1>5. bytes_to_decode' \in 0 .. LZX_CHUNK_SIZE /\ total_decoded' \in 0 .. LZX_CHUNK_SIZE
  <2>1. bytes_to_decode' = bytes_to_decode - amount /\ total_decoded' = total_decoded + amount
        BY <1>1
  <2>2. bytes_to_decode - amount \in 0 .. LZX_CHUNK_SIZE
        BY <1>3, Constants
  <2>3. total_decoded + amount \in 0 .. LZX_CHUNK_SIZE
        BY <1>3, <1>4, Constants
  <2> QED BY <2>1, <2>2, <2>3
<1>6. LzxTypeOK'
  <2>1. LzxTypeOK
        BY DEF IInv
  <2>2. block' \in [type : BlockTypes \cup {"invalid"}, size : Nat]
    <3>1. block \in [type : BlockTypes \cup {"invalid"}, size : Nat]
          BY <2>1 DEF LzxTypeOK
    <3>2. block' = [type |-> block.type, size |-> block.size - amount]
          BY <1>1, <3>1
    <3> QED BY <3>1, <3>2, <1>3
  <2>3. run' \in [at : Nat, end : Nat, upto : Nat]
        BY <1>1 DEF NoRun
  <2>4. match' \in [dist : Nat, ptr : Nat, left : 0 .. LZX_MAX_MATCH]
        BY <1>1, Constants DEF NoMatch, HEAD
  <2> QED BY <1>1, <1>5, <2>1, <2>2, <2>3, <2>4 DEF LzxTypeOK
<1>7. RunOK'
  <2>1. total_decoded' + bytes_to_decode' <= LZX_CHUNK_SIZE
    <3>1. total_decoded' + bytes_to_decode' = total_decoded + bytes_to_decode
      <4>1. /\ bytes_to_decode' = bytes_to_decode - amount
            /\ total_decoded' = total_decoded + amount
            BY <1>1
      <4> QED BY <4>1, <1>3
    <3> QED BY <3>1, <1>4
  <2>2. run.upto + (bytes_to_decode - amount) <= W /\ run.upto \in Nat
        BY <1>2, InRun, Constants DEF IInv, RunOK
  <2>3. pos' + bytes_to_decode' <= W
    <3> DEFINE left == bytes_to_decode - amount
    <3>1. bytes_to_decode' = left
          BY <1>1
    <3>2. left \in Int /\ W \in Int
          BY <1>3, Constants
    <3>3. run.upto + left <= W /\ run.upto \in Int
          BY <2>2
    <3>4. pos' <= run.upto /\ pos' \in Int
          BY Constants
    <3> HIDE DEF left
    <3>5. pos' + left <= W
          BY ONLY <3>2, <3>3, <3>4, Under
    <3> QED BY <3>1, <3>5
  <2> QED BY <1>1, <2>1, <2>3 DEF RunOK, Running, Loops
<1>8. MatchOK'
  <2>1. match'.left = 0
        BY <1>1 DEF NoMatch
  <2> QED BY <2>1 DEF MatchOK
<1>9. RoomOK'
      BY <1>1 DEF IInv, RoomOK
<1>10. ASSUME intact, run.at = run.upto, pos' = run.at % W PROVE OutputOK' /\ Here' = Here % W
  <2>1. /\ run.at \in 0 .. W /\ Here = run.at /\ Start \in Nat /\ Start = run.upto - amount
        BY <1>2, InRun, Constants DEF Start
  <2>2. OutputOK /\ dest \in Seq(Bytes \cup {None}) /\ hist \in Seq(Bytes)
        BY <1>10 DEF IInv, Content, LzxTypeOK
  <2>3. Len(hist) = Len(dest) + (total_decoded + (run.at - Start)) /\ total_decoded <= Start
        BY <2>2 DEF OutputOK, Pending
  <2>4. run.at - Start = amount
        BY <1>10, <2>1, <1>3
  <2>5. Len(hist') = Len(dest') + Pending'
        BY <1>1, <2>3, <2>4 DEF Pending, Running, Loops
  <2>6. total_decoded' <= run.at
    <3>1. total_decoded' = total_decoded + amount
          BY <1>1
    <3> QED BY <3>1, <1>3, <2>1, <2>3, <2>4, Constants, SMTT(30)
  <2>7. pos' = (IF run.at = W THEN 0 ELSE run.at)
        BY <1>10, <2>1, Wraps
  <2>8. run.upto + (bytes_to_decode - amount) <= W
        BY <1>2 DEF IInv, RunOK
  <2>9. ASSUME run.at = W PROVE bytes_to_decode' = 0 /\ pos' = 0
    <3>1. bytes_to_decode' = bytes_to_decode - amount /\ pos' = 0
          BY <1>1, <2>7, <2>9
    <3>2. W + (bytes_to_decode - amount) <= W
          BY <1>10, <2>8, <2>9
    <3>3. bytes_to_decode - amount >= 0 /\ bytes_to_decode - amount \in Int /\ W \in Int
          BY <1>3, Constants
    <3> QED BY <3>1, <3>2, <3>3
  <2>10. \A i \in 1 .. Len(dest') : dest'[i] = hist'[i]
        BY <1>1, <2>2 DEF OutputOK
  <2>11. Here' = Here % W
        BY <1>1, <1>10, <2>1 DEF Here, Running, Loops
  <2>12. OutputOK'
    <3>1. pc' = "data" /\ pc' \notin Running
          BY <1>1 DEF Running, Loops
    <3>2. total_decoded' <= pos' \/ (bytes_to_decode' = 0 /\ pos' = 0)
          BY <2>6, <2>7, <2>9
    <3> QED BY <2>5, <2>10, <3>1, <3>2 DEF OutputOK
  <2> QED BY <2>11, <2>12
<1> QED BY <1>1, <1>6, <1>7, <1>8, <1>9, <1>10

LEMMA EndFastKeeps == ASSUME IInv, EndFast PROVE IInv'
<1>1. /\ pc = "fast" /\ pc \in Running /\ pc \in Loops /\ RunOver /\ match.left = 0 /\ run.at >= run.end
      /\ pos' = run.at % W /\ UNCHANGED <<mem_window, intact, hist>>
      BY DEF EndFast, Running, Loops, LoopDone
<1>2. /\ run.at \in 0 .. W /\ run.at = run.upto /\ Here = run.at /\ run.upto \in Nat
  <2>1. run.end = run.upto
        BY <1>1 DEF IInv, RunOK
  <2> QED BY <1>1, <2>1, InRun, Constants
<1>3. pos' = IF run.at = W THEN 0 ELSE run.at
      BY <1>1, <1>2, Wraps
<1>4. pos' \in 0 .. W - 1 /\ pos' <= run.upto
      BY <1>2, <1>3, Constants
<1>5. mem_window' \in [0 .. W + HEAD + 3 -> Bytes \cup {None}] /\ intact' \in BOOLEAN /\ hist \in Seq(Bytes)
      BY <1>1 DEF IInv, LzxTypeOK
<1>6. /\ LzxTypeOK' /\ RunOK' /\ MatchOK' /\ RoomOK' /\ pc' = "data"
      /\ intact => OutputOK' /\ Here' = Here % W
      BY <1>1, <1>2, <1>4, <1>5, RunOverKeeps
<1>7. ASSUME intact PROVE Filled' /\ Placed'
      BY <1>1, <1>2, <1>5, <1>6, <1>7, Stored DEF IInv, Content
<1>8. ASSUME intact PROVE MirrorOK'
      BY <1>1, <1>2, <1>3, <1>6, <1>8, Constants DEF IInv, Content, MirrorOK, Loops
<1> QED BY <1>1, <1>6, <1>7, <1>8 DEF IInv, Content

LEMMA EndRawKeeps == ASSUME IInv, EndRaw PROVE IInv'
<1>1. /\ pc = "raw" /\ pc \in Running /\ pc \notin Loops /\ RunOver /\ run.at = run.end
      /\ pos' = run.at % W /\ UNCHANGED <<intact, hist>>
      BY DEF EndRaw, Running, Loops
<1>2. mem_window' = [i \in DOMAIN mem_window |->
                       IF i >= W /\ i - W >= pos /\ i - W < Smaller(HEAD, run.end)
                       THEN mem_window[i - W] ELSE mem_window[i]]
      BY DEF EndRaw
<1>3. /\ run.at \in 0 .. W /\ run.at = run.upto /\ Here = run.at /\ run.upto \in Nat
      BY <1>1, InRun, Constants DEF IInv, RunOK
<1>4. pos' = IF run.at = W THEN 0 ELSE run.at
      BY <1>1, <1>3, Wraps
<1>5. pos' \in 0 .. W - 1 /\ pos' <= run.upto
      BY <1>3, <1>4, Constants
<1>6. mem_window \in [0 .. W + HEAD + 3 -> Bytes \cup {None}] /\ intact' \in BOOLEAN /\ hist \in Seq(Bytes)
      BY <1>1 DEF IInv, LzxTypeOK
<1>7. /\ mem_window' \in [0 .. W + HEAD + 3 -> Bytes \cup {None}]
      /\ \A i \in 0 .. W - 1 : mem_window'[i] = mem_window[i]
      BY <1>2, <1>6, Constants
<1>8. /\ LzxTypeOK' /\ RunOK' /\ MatchOK' /\ RoomOK' /\ pc' = "data"
      /\ intact => OutputOK' /\ Here' = Here % W
      BY <1>1, <1>3, <1>5, <1>6, <1>7, RunOverKeeps
<1>9. ASSUME intact PROVE Filled' /\ Placed'
      BY <1>1, <1>3, <1>6, <1>7, <1>8, <1>9, Stored DEF IInv, Content
<1>10. ASSUME intact PROVE MirrorOK'
  <2> SUFFICES ASSUME NEW j \in 0 .. HEAD - 1, j < pos'
               PROVE  mem_window'[W + j] = mem_window'[j]
      BY <1>8 DEF MirrorOK, Loops
  <2>1. j < run.at /\ j \in 0 .. W - 1 /\ W + j \in 0 .. W + HEAD + 3 /\ (W + j) - W = j /\ W + j >= W
        BY <1>3, <1>4, <1>5, Constants
  <2>2. mem_window'[j] = mem_window[j]
        BY <1>7, <2>1
  <2>5. pos \in Int
        BY DEF IInv, LzxTypeOK
  <2>3. CASE j < pos
    <3>0. pos \in Int /\ ~(j >= pos)
          BY <2>1, <2>3, <2>5
    <3>1. mem_window'[W + j] = mem_window[W + j]
          BY <1>2, <1>6, <2>1, <3>0
    <3>2. mem_window[W + j] = mem_window[j]
          BY <1>1, <1>10, <2>3 DEF IInv, Content, MirrorOK
    <3> QED BY <3>1, <3>2, <2>2
  <2>4. CASE j >= pos
    <3>1. j < Smaller(HEAD, run.end)
          BY <1>1, <2>1, Constants DEF Smaller
    <3> QED BY <1>2, <1>6, <2>1, <2>2, <2>4, <3>1
  <2> QED BY <2>3, <2>4, <2>5
<1> QED BY <1>1, <1>8, <1>9, <1>10 DEF IInv, Content

LEMMA EndSpecialKeeps == ASSUME IInv, EndSpecial PROVE IInv'
<1>1. /\ pc = "special" /\ pc \in Running /\ pc \in Loops /\ match.left = 0 /\ run.at >= run.end
      /\ pos' = run.at /\ UNCHANGED <<mem_window, intact, hist>>
      BY DEF EndSpecial, Running, Loops, LoopDone
<1>2. /\ run.at \in 0 .. run.upto /\ run.upto \in 0 .. W - 1 /\ Here = run.at /\ run.upto \in Nat
      /\ run \in [at : Nat, end : Nat, upto : Nat] /\ run.end = Smaller(HEAD, run.upto)
      BY <1>1, InRun, Constants DEF IInv, RunOK
<1>3. /\ mem_window \in [0 .. W + HEAD + 3 -> Bytes \cup {None}] /\ intact \in BOOLEAN /\ hist \in Seq(Bytes)
      /\ run.at \in 0 .. W - 1 /\ run.at <= run.upto
  <2>1. mem_window \in [0 .. W + HEAD + 3 -> Bytes \cup {None}] /\ intact \in BOOLEAN /\ hist \in Seq(Bytes)
        BY DEF IInv, LzxTypeOK
  <2>2. run.at \in 0 .. W - 1 /\ run.at <= run.upto
        BY <1>2, Constants
  <2> QED BY <2>1, <2>2
<1>4. run.at % W = run.at
  <2>1. run.at \in 0 .. W /\ run.at # W
        BY <1>3, Constants
  <2> QED BY <2>1, Wraps
<1>5. CASE run.at >= run.upto /\ RunOver
  <2>1. run.at = run.upto /\ pos' \in 0 .. W - 1 /\ pos' <= run.upto
        BY <1>1, <1>2, <1>3, <1>5
  <2>2. mem_window' \in [0 .. W + HEAD + 3 -> Bytes \cup {None}] /\ intact' \in BOOLEAN
        BY <1>1, <1>3
  <2>3. /\ LzxTypeOK' /\ RunOK' /\ MatchOK' /\ RoomOK' /\ pc' = "data"
        /\ intact => OutputOK' /\ Here' = Here % W
        BY <1>1, <1>4, <1>5, <2>1, <2>2, RunOverKeeps
  <2>4. ASSUME intact PROVE Filled' /\ Placed'
    <3>1. Here \in 0 .. W
          BY <1>2, <1>3, Constants
    <3> QED BY <1>1, <1>3, <2>3, <2>4, <3>1, Stored DEF IInv, Content
  <2>5. ASSUME intact PROVE MirrorOK'
        BY <1>1, <2>3, <2>5 DEF IInv, Content, MirrorOK, Loops
  <2> QED BY <1>1, <2>3, <2>4, <2>5 DEF IInv, Content
<1>6. CASE run.at < run.upto /\ ~RunOver
  <2>1. /\ pc' = "fast" /\ run' = [run EXCEPT !.end = run.upto]
        /\ UNCHANGED <<last_matchpos_offset, block, match, frameVars, result>>
        BY <1>6, <1>2 DEF EndSpecial
  <2>2. /\ run' \in [at : Nat, end : Nat, upto : Nat]
        /\ run'.at = run.at /\ run'.upto = run.upto /\ run'.end = run.upto
        BY <1>2, <2>1
  <2>3. HEAD <= run.at
        BY <1>1, <1>2, <1>6, Constants DEF Smaller
  <2>4. LzxTypeOK'
        BY <1>1, <1>3, <2>1, <2>2 DEF IInv, LzxTypeOK, frameVars
  <2>5. Amount' = Amount /\ Start' = Start
        BY <2>1, <2>2 DEF Amount, Start, frameVars
  <2>6. RunOK'
    <3>1. RunOK
          BY DEF IInv
    <3> QED BY <1>1, <1>2, <2>1, <2>2, <2>3, <2>5, <3>1 DEF RunOK, frameVars, Running, Loops
  <2>7. MatchOK' /\ RoomOK'
        BY <1>1, <2>1 DEF IInv, MatchOK, RoomOK, frameVars, Running, Loops
  <2>8. ASSUME intact PROVE Filled' /\ Placed'
    <3>1. Here' = Here
          BY <1>2, <2>1, <2>2 DEF Here, Running, Loops
    <3> QED BY <1>1, <2>8, <3>1, Unmoved DEF IInv, Content
  <2>9. ASSUME intact PROVE MirrorOK'
        BY <1>1, <2>1, <2>2, <2>9 DEF IInv, Content, MirrorOK, Loops
  <2>10. ASSUME intact PROVE OutputOK'
    <3>1. OutputOK /\ Pending' = Pending
          BY <1>1, <2>1, <2>2, <2>5, <2>10 DEF IInv, Content, Pending, frameVars, Running, Loops
    <3> QED BY <1>1, <2>1, <2>5, <3>1 DEF OutputOK, frameVars, Running, Loops
  <2> QED BY <1>1, <2>4, <2>6, <2>7, <2>8, <2>9, <2>10 DEF IInv, Content
<1>7. \/ run.at >= run.upto /\ RunOver
      \/ run.at < run.upto /\ pc' = "fast"
      BY DEF EndSpecial
<1>8. RunOver => pc' = "data"
      BY DEF RunOver
<1> QED BY <1>5, <1>6, <1>7, <1>8

LEMMA InputEndsKeeps == ASSUME IInv, InputEnds PROVE IInv'
<1>1. /\ pc \in Running /\ RunOver /\ intact' = FALSE
      /\ UNCHANGED <<mem_window, pos, hist>>
      BY DEF InputEnds, Running, Loops
<1>2. pos \in 0 .. W - 1 /\ mem_window \in [0 .. W + HEAD + 3 -> Bytes \cup {None}]
      BY DEF IInv, LzxTypeOK
<1>3. pos <= run.upto
  <2>1. pos <= run.at
        BY <1>1 DEF IInv, RunOK
  <2> QED BY <2>1, <1>1, <1>2, InRun, Constants
<1>4. LzxTypeOK' /\ RunOK' /\ MatchOK' /\ RoomOK'
      BY <1>1, <1>2, <1>3, RunOverKeeps
<1> QED BY <1>1, <1>4 DEF IInv

LEMMA InputEndsSpecialKeeps == ASSUME IInv, InputEndsSpecial PROVE IInv'
<1>1. /\ pc = "special" /\ pc' = "undefined" /\ intact' = FALSE /\ match.left = 0
      /\ UNCHANGED <<mem_window, pos, last_matchpos_offset, block, run, match, frameVars, result, hist>>
      BY DEF InputEndsSpecial
<1>2. LzxTypeOK'
      BY <1>1 DEF IInv, LzxTypeOK, frameVars
<1>3. RunOK' /\ MatchOK' /\ RoomOK'
      BY <1>1 DEF IInv, RunOK, MatchOK, RoomOK, frameVars, Running, Loops
<1> QED BY <1>1, <1>2, <1>3 DEF IInv

LEMMA MatchKeeps ==
  ASSUME IInv, NEW m \in 0 .. 3, NEW off \in Dists, NEW n \in LZX_MIN_MATCH .. LZX_MAX_MATCH,
         Reachable(MatchPos(m, off), n), Match(m, off, n)
  PROVE  IInv'
<1>1. /\ pc \in Loops /\ pc \in Running /\ match.left = 0 /\ run.at < run.end
      /\ UNCHANGED <<pc, mem_window, pos, block, run, frameVars, result, intact, hist>>
      BY DEF Match, AtItem, Running
<1>2. /\ run.at \in 0 .. W - 1 /\ run.upto \in 0 .. W /\ Here = run.at
      BY <1>1, InRun, Constants
<1>3. last_matchpos_offset \in [0 .. 2 -> 1 .. W] /\ hist \in Seq(Bytes)
      BY DEF IInv, LzxTypeOK
<1>4. MatchPos(m, off) \in 1 .. W
      BY <1>3, LzxOthers DEF MatchPos, W
<1>5. MatchPos(m, off) <= Len(hist) /\ run.at + n <= run.upto
      BY DEF Reachable
<1>6. n \in 1 .. HEAD
      BY LzxSizes DEF HEAD
<1>7. last_matchpos_offset' \in [0 .. 2 -> 1 .. W]
  <2>1. CASE m <= 2
        BY <2>1, <1>3 DEF Match, OffsetsAfter
  <2>2. CASE m > 2
    <3>1. off \in 1 .. W
          BY LzxOthers DEF W
    <3>2. last_matchpos_offset' = [i \in 0 .. 2 |-> IF i = 0 THEN off ELSE last_matchpos_offset[i - 1]]
          BY <2>2 DEF Match, OffsetsAfter
    <3> QED BY <3>1, <3>2, <1>3
  <2> QED BY <2>1, <2>2
<1> DEFINE d == MatchPos(m, off)
           ptr == IF pc = "fast" THEN (run.at - d) % W ELSE 0
<1>8. match' = [dist |-> d, ptr |-> ptr, left |-> n]
      BY DEF Match
<1>9. ptr = (IF pc = "fast" THEN Back(run.at, d) ELSE 0)
      BY <1>2, <1>4, Distance
<1>10. ptr \in 0 .. W - 1
      BY <1>2, <1>4, <1>9, Constants DEF Back
<1> HIDE DEF d, ptr
<1>11. match' \in [dist : Nat, ptr : Nat, left : 0 .. LZX_MAX_MATCH]
      BY <1>4, <1>6, <1>8, <1>10, Constants DEF d, HEAD
<1>12. LzxTypeOK'
      BY <1>1, <1>7, <1>11 DEF IInv, LzxTypeOK, frameVars
<1>13. Amount' = Amount /\ Start' = Start
      BY <1>1 DEF Amount, Start, frameVars
<1>14. RunOK'
  <2>1. RunOK /\ match'.left = n
        BY <1>8 DEF IInv
  <2> QED BY <1>1, <1>5, <1>13, <2>1 DEF RunOK, frameVars
<1>15. MatchOK'
  <2>1. match'.dist = d /\ match'.left = n /\ match'.ptr = ptr
        BY <1>8
  <2>2. pc = "fast" => /\ ptr = run.at - d \/ ptr = run.at - d + W
                       /\ ptr + n < W + HEAD
        BY <1>6, <1>9, <1>10, Constants DEF Back
  <2> QED BY <1>1, <1>4, <1>5, <2>1, <2>2 DEF MatchOK, d
<1>16. RoomOK'
      BY <1>1 DEF IInv, RoomOK, frameVars
<1>17. ASSUME intact PROVE Content'
  <2>1. Here' = Here /\ Pending' = Pending
        BY <1>1, <1>13 DEF Here, Pending, frameVars
  <2>2. Filled' /\ Placed'
        BY <1>1, <1>17, <2>1, Unmoved DEF IInv, Content
  <2>3. MirrorOK'
        BY <1>1, <1>17 DEF IInv, Content, MirrorOK
  <2>4. OutputOK'
        BY <1>1, <1>13, <1>17, <2>1 DEF IInv, Content, OutputOK, frameVars
  <2> QED BY <2>2, <2>3, <2>4 DEF Content
<1> QED BY <1>1, <1>12, <1>14, <1>15, <1>16, <1>17 DEF IInv

\* Between runs: what leaves the window and the history alone.
LEMMA NewBlockKeeps ==
  ASSUME IInv, NEW t \in BlockTypes, NEW size \in BlockSizes, NEW offs \in [0 .. 2 -> Dists],
         NewBlock(t, size, offs)
  PROVE  IInv'
<1>1. /\ pc = "data" /\ block' = [type |-> t, size |-> size]
      /\ UNCHANGED <<pc, mem_window, pos, run, match, frameVars, result, intact, hist>>
      BY DEF NewBlock
<1>2. last_matchpos_offset' \in [0 .. 2 -> 1 .. W]
      BY LzxOthers DEF NewBlock, IInv, LzxTypeOK, W
<1>3. block' \in [type : BlockTypes \cup {"invalid"}, size : Nat]
      BY <1>1, LzxOthers
<1>4. LzxTypeOK'
      BY <1>1, <1>2, <1>3 DEF IInv, LzxTypeOK, frameVars
<1>5. RunOK' /\ MatchOK' /\ RoomOK'
      BY <1>1 DEF IInv, RunOK, MatchOK, RoomOK, frameVars, Running, Loops
<1>6. ASSUME intact PROVE Content'
  <2>1. Here' = Here /\ Pending' = Pending
        BY <1>1 DEF Here, Pending, frameVars, Running, Loops
  <2>2. Filled' /\ Placed'
        BY <1>1, <1>6, <2>1, Unmoved DEF IInv, Content
  <2>3. MirrorOK'
        BY <1>1, <1>6 DEF IInv, Content, MirrorOK, Loops
  <2>4. OutputOK'
        BY <1>1, <1>6, <2>1 DEF IInv, Content, OutputOK, frameVars, Running, Loops
  <2> QED BY <2>2, <2>3, <2>4 DEF Content
<1> QED BY <1>1, <1>4, <1>5, <1>6 DEF IInv

LEMMA BadBlockKeeps == ASSUME IInv, BadBlock PROVE IInv'
<1>1. /\ pc = "data" /\ pc' = "done" /\ result' = LZX_ERROR_FAILED
      /\ block' = [type |-> "invalid", size |-> 0]
      /\ UNCHANGED <<mem_window, pos, last_matchpos_offset, run, match, frameVars, intact, hist>>
      BY DEF BadBlock
<1>2. LzxTypeOK'
      BY <1>1 DEF IInv, LzxTypeOK, frameVars
<1>3. RunOK' /\ MatchOK' /\ RoomOK'
      BY <1>1 DEF IInv, RunOK, MatchOK, RoomOK, frameVars, Running, Loops
<1>4. ASSUME intact PROVE Content'
  <2>1. Here' = Here /\ result' # 0
        BY <1>1 DEF Here, Running, Loops, LZX_ERROR_FAILED
  <2>2. Filled' /\ Placed'
        BY <1>1, <1>4, <2>1, Unmoved DEF IInv, Content
  <2>3. MirrorOK'
        BY <1>1, <1>4 DEF IInv, Content, MirrorOK, Loops
  <2>4. OutputOK'
        BY <1>1, <1>4, <2>1 DEF IInv, Content, OutputOK, frameVars, Running, Loops
  <2> QED BY <2>2, <2>3, <2>4 DEF Content
<1> QED BY <1>1, <1>2, <1>3, <1>4 DEF IInv

LEMMA BeginRunKeeps == ASSUME IInv, BeginRun PROVE IInv'
<1> DEFINE slowly == Smaller(HEAD - pos, Amount)
<1>1. /\ pc = "data" /\ bytes_to_decode > 0 /\ block.size > 0
      /\ UNCHANGED <<mem_window, pos, last_matchpos_offset, block, match, frameVars, result, intact, hist>>
      /\ \/ pc' = "raw" /\ run' = [at |-> pos, end |-> pos + Amount, upto |-> pos + Amount]
         \/ /\ pos < HEAD
            /\ pc' = "special" /\ run' = [at |-> pos, end |-> pos + slowly, upto |-> pos + Amount]
         \/ /\ pos >= HEAD
            /\ pc' = "fast" /\ run' = [at |-> pos, end |-> pos + Amount, upto |-> pos + Amount]
      BY DEF BeginRun, Amount
<1>2. /\ pos \in 0 .. W - 1 /\ block.size \in Nat
      /\ bytes_to_decode \in 0 .. LZX_CHUNK_SIZE /\ match.left = 0
      /\ match \in [dist : Nat, ptr : Nat, left : 0 .. LZX_MAX_MATCH]
      BY <1>1 DEF IInv, LzxTypeOK, MatchOK, Loops
<1>3. Amount \in 1 .. LZX_CHUNK_SIZE /\ Amount <= bytes_to_decode
      BY <1>1, <1>2, Constants DEF Amount, Smaller
<1>4. pos + bytes_to_decode <= W
      BY <1>1 DEF IInv, RunOK
<1>5. Amount' = Amount
      BY <1>1 DEF Amount, frameVars
<1>6. pos < HEAD => slowly \in 1 .. Amount /\ pos + slowly = Smaller(HEAD, pos + Amount)
      BY <1>2, <1>3, Constants DEF Smaller
<1> HIDE DEF slowly
<1>7. /\ pc' \in Running /\ run'.at = pos /\ run'.upto = pos + Amount
      /\ run' \in [at : Nat, end : Nat, upto : Nat] /\ run'.end <= run'.upto
      BY <1>1, <1>2, <1>3, <1>6, Constants DEF Running, Loops
<1>8. LzxTypeOK'
      BY <1>1, <1>7 DEF IInv, LzxTypeOK, frameVars, Running, Loops
<1>9. Start' = pos
      BY <1>2, <1>3, <1>5, <1>7, Constants DEF Start
<1>10. RunOK'
  <2>1. total_decoded' + bytes_to_decode' <= LZX_CHUNK_SIZE
        BY <1>1 DEF IInv, RunOK, frameVars
  <2>2. /\ Amount' > 0 /\ Start' >= 0 /\ pos' <= run'.at /\ Start' <= run'.at
        /\ run'.at + match'.left <= run'.upto
        BY <1>1, <1>2, <1>3, <1>5, <1>7, <1>9, Constants
  <2>3. run'.upto + (bytes_to_decode' - Amount') <= W
    <3>1. bytes_to_decode' = bytes_to_decode
          BY <1>1 DEF frameVars
    <3> QED BY <3>1, <1>2, <1>3, <1>4, <1>5, <1>7, Constants
  <2>4. pc' = "special" => pos' < HEAD /\ run'.upto < W /\ run'.end = Smaller(HEAD, run'.upto)
        BY <1>1, <1>2, <1>3, <1>6, <1>7, Constants
  <2>5. /\ pc' = "fast" => HEAD <= run'.at /\ run'.end = run'.upto
        /\ pc' = "raw" => pos' = Start' /\ run'.end = run'.upto
        BY <1>1, <1>2, <1>7, <1>9, Constants
  <2>6. pc' # "data"
        BY <1>1
  <2> QED BY <1>7, <2>1, <2>2, <2>3, <2>4, <2>5, <2>6 DEF RunOK
<1>11. MatchOK'
      BY <1>1, <1>2 DEF MatchOK
<1>12. RoomOK'
      BY <1>1 DEF IInv, RoomOK, frameVars
<1>13. ASSUME intact PROVE Content'
  <2>1. Here' = Here
        BY <1>1, <1>7 DEF Here, Running, Loops
  <2>2. Filled' /\ Placed'
        BY <1>1, <1>13, <2>1, Unmoved DEF IInv, Content
  <2>3. MirrorOK'
        BY <1>1, <1>7, <1>13 DEF IInv, Content, MirrorOK, Loops
  <2>4. OutputOK /\ Pending = total_decoded /\ total_decoded \in Nat
        BY <1>1, <1>13, AmountIs, Constants DEF IInv, Content, Pending, Running, Loops
  <2>5. Pending' = total_decoded
        BY <1>1, <1>2, <1>7, <1>9, <2>4, Constants DEF Pending, frameVars
  <2>6. total_decoded <= pos
        BY <1>1, <2>4 DEF OutputOK
  <2>7. OutputOK'
        BY <1>1, <1>7, <1>9, <2>4, <2>5, <2>6 DEF OutputOK, frameVars, Running, Loops
  <2> QED BY <2>2, <2>3, <2>7 DEF Content
<1> QED BY <1>1, <1>8, <1>10, <1>11, <1>12, <1>13 DEF IInv

\* Between frames.
LEMMA FrameBeginKeeps == ASSUME IInv, NEW n \in 1 .. LZX_CHUNK_SIZE, FrameBegin(n) PROVE IInv'
<1>1. /\ pc = "frame" /\ pc' = "data" /\ Len(dest) % LZX_CHUNK_SIZE = 0 /\ intact
      /\ allocated_size' = Resized /\ bytes_to_decode' = n /\ total_decoded' = 0
      /\ UNCHANGED <<mem_window, pos, last_matchpos_offset, block, run, match, dest, result, intact, hist>>
      BY DEF FrameBegin
<1>2. /\ pos \in 0 .. W - 1 /\ allocated_size \in Nat /\ Len(dest) \in Nat
      BY DEF IInv, LzxTypeOK
<1>3. allocated_size' \in Nat /\ Len(dest') + LZX_CHUNK_SIZE <= allocated_size'
  <2>1. Len(dest) <= allocated_size
        BY DEF IInv, RoomOK
  <2> QED BY <1>1, <1>2, <2>1, Constants DEF Resized
<1>4. pos + LZX_CHUNK_SIZE <= W
  <2>1. PICK k \in Nat : Len(hist) = k * W + pos
        BY <1>1 DEF IInv, Content, Placed, Here, Running, Loops
  <2>2. Len(hist) = Len(dest)
        BY <1>1, <1>2 DEF IInv, Content, OutputOK, Pending, Running, Loops
  <2> QED BY <1>1, <1>2, <2>1, <2>2, FrameFits
<1>5. LzxTypeOK'
      BY <1>1, <1>3, Constants DEF IInv, LzxTypeOK
<1>6. RunOK'
  <2>1. total_decoded' + bytes_to_decode' <= LZX_CHUNK_SIZE /\ pos' + bytes_to_decode' <= W
        BY <1>1, <1>2, <1>4, Constants
  <2> QED BY <1>1, <2>1 DEF RunOK, Running, Loops
<1>7. MatchOK'
      BY <1>1 DEF IInv, MatchOK, Loops
<1>8. RoomOK'
      BY <1>1, <1>2, <1>3, Constants DEF RoomOK
<1>9. Content'
  <2>1. Here' = Here
        BY <1>1 DEF Here, Running, Loops
  <2>2. Filled' /\ Placed'
        BY <1>1, <2>1, Unmoved DEF IInv, Content
  <2>3. MirrorOK'
        BY <1>1 DEF IInv, Content, MirrorOK, Loops
  <2>4. Pending = 0 /\ Pending' = 0 /\ total_decoded' <= pos'
        BY <1>1, <1>2 DEF Pending, Running, Loops
  <2>5. OutputOK'
        BY <1>1, <2>4 DEF IInv, Content, OutputOK, Running, Loops
  <2> QED BY <2>2, <2>3, <2>5 DEF Content
<1> QED BY <1>5, <1>6, <1>7, <1>8, <1>9 DEF IInv

LEMMA FrameRefusedKeeps == ASSUME IInv, FrameRefused PROVE IInv'
<1>1. /\ pc = "frame" /\ pc' = "done" /\ result' = LZX_ERROR_BUFFER_OVERFLOW /\ allocated_size' = Resized
      /\ UNCHANGED <<mem_window, pos, last_matchpos_offset, block, run, match, bytes_to_decode,
                     total_decoded, dest, intact, hist>>
      BY DEF FrameRefused
<1>2. allocated_size' \in Nat /\ Len(dest') <= allocated_size'
  <2>1. Len(dest) <= allocated_size /\ allocated_size \in Nat /\ Len(dest) \in Nat
        BY DEF IInv, RoomOK, LzxTypeOK
  <2> QED BY <1>1, <2>1, Constants DEF Resized
<1>3. LzxTypeOK'
      BY <1>1, <1>2 DEF IInv, LzxTypeOK
<1>4. RunOK' /\ MatchOK' /\ RoomOK'
      BY <1>1, <1>2 DEF IInv, RunOK, MatchOK, RoomOK, Running, Loops
<1>5. ASSUME intact PROVE Content'
  <2>1. Here' = Here /\ result' # 0
        BY <1>1 DEF Here, Running, Loops, LZX_ERROR_BUFFER_OVERFLOW
  <2>2. Filled' /\ Placed'
        BY <1>1, <1>5, <2>1, Unmoved DEF IInv, Content
  <2>3. MirrorOK'
        BY <1>1, <1>5 DEF IInv, Content, MirrorOK, Loops
  <2>4. OutputOK'
        BY <1>1, <1>5, <2>1 DEF IInv, Content, OutputOK, Running, Loops
  <2> QED BY <2>2, <2>3, <2>4 DEF Content
<1> QED BY <1>1, <1>3, <1>4, <1>5 DEF IInv

LEMMA SrcEndsKeeps == ASSUME IInv, SrcEnds PROVE IInv'
<1>1. /\ pc = "frame" /\ pc' = "done" /\ result' = 0
      /\ UNCHANGED <<mem_window, pos, last_matchpos_offset, block, run, match, frameVars, intact, hist>>
      BY DEF SrcEnds
<1>2. LzxTypeOK'
      BY <1>1 DEF IInv, LzxTypeOK, frameVars
<1>3. RunOK' /\ MatchOK' /\ RoomOK'
      BY <1>1 DEF IInv, RunOK, MatchOK, RoomOK, frameVars, Running, Loops
<1>4. ASSUME intact PROVE Content'
  <2>1. Here' = Here /\ Pending' = Pending
        BY <1>1 DEF Here, Pending, frameVars, Running, Loops
  <2>2. Filled' /\ Placed'
        BY <1>1, <1>4, <2>1, Unmoved DEF IInv, Content
  <2>3. MirrorOK'
        BY <1>1, <1>4 DEF IInv, Content, MirrorOK, Loops
  <2>4. OutputOK'
        BY <1>1, <1>4, <2>1 DEF IInv, Content, OutputOK, frameVars, Running, Loops
  <2> QED BY <2>2, <2>3, <2>4 DEF Content
<1> QED BY <1>1, <1>2, <1>3, <1>4 DEF IInv

\* The frame copied out is what was decoded since the last one.
LEMMA FrameEndKeeps == ASSUME IInv, FrameEnd PROVE IInv'
<1>1. /\ pc = "data" /\ bytes_to_decode = 0
      /\ UNCHANGED <<mem_window, pos, last_matchpos_offset, block, run, match, bytes_to_decode,
                     total_decoded, allocated_size, result, intact, hist>>
      BY DEF FrameEnd
<1> DEFINE frame == [i \in 1 .. total_decoded |-> mem_window[FrameTop - total_decoded + i - 1]]
<1>2. \/ total_decoded <= FrameTop /\ dest' = dest \o frame /\ pc' = "frame"
      \/ total_decoded > FrameTop /\ pc' = "undefined" /\ UNCHANGED dest
      BY DEF FrameEnd
<1>3. /\ pos \in 0 .. W - 1 /\ total_decoded \in 0 .. LZX_CHUNK_SIZE /\ allocated_size \in Nat
      /\ dest \in Seq(Bytes \cup {None}) /\ hist \in Seq(Bytes)
      /\ mem_window \in [0 .. W + HEAD + 3 -> Bytes \cup {None}]
      BY DEF IInv, LzxTypeOK
<1>4. FrameTop = (IF pos = 0 THEN W ELSE pos)
      BY DEF FrameTop
<1>5. ASSUME total_decoded <= FrameTop
      PROVE  frame \in Seq(Bytes \cup {None}) /\ Len(frame) = total_decoded
  <2>1. \A i \in 1 .. total_decoded : FrameTop - total_decoded + i - 1 \in 0 .. W + HEAD + 3
        BY <1>3, <1>4, <1>5, Constants
  <2>2. frame \in [1 .. total_decoded -> Bytes \cup {None}]
        BY <1>3, <2>1
  <2> QED BY <1>3, <2>2, Constants
<1>6. dest' \in Seq(Bytes \cup {None}) /\ Len(dest') <= Len(dest) + LZX_CHUNK_SIZE
  <2>1. CASE total_decoded <= FrameTop /\ dest' = dest \o frame
    <3>1. frame \in Seq(Bytes \cup {None}) /\ Len(frame) = total_decoded
          BY <1>5, <2>1
    <3> HIDE DEF frame
    <3> QED BY <1>3, <2>1, <3>1, Constants
  <2>2. CASE UNCHANGED dest
        BY <1>3, <2>2, Constants
  <2> QED BY <1>2, <2>1, <2>2
<1>7. pc' \in {"frame", "undefined"}
      BY <1>2
<1>8. LzxTypeOK'
      BY <1>1, <1>6, <1>7 DEF IInv, LzxTypeOK
<1>9. RunOK' /\ MatchOK'
      BY <1>1, <1>7 DEF IInv, RunOK, MatchOK, Running, Loops
<1>10. RoomOK'
  <2>1. Len(dest) + LZX_CHUNK_SIZE <= allocated_size /\ Len(dest) \in Nat /\ Len(dest') \in Nat
        BY <1>1, <1>3, <1>6 DEF IInv, RoomOK
  <2> QED BY <1>1, <1>3, <1>6, <1>7, <2>1, Constants DEF RoomOK, Running, Loops
<1>11. ASSUME intact PROVE Content'
  <2>1. Here' = Here /\ Here = pos
        BY <1>1, <1>7 DEF Here, Running, Loops
  <2>2. Filled' /\ Placed' /\ Filled
        BY <1>1, <1>11, <2>1, Unmoved DEF IInv, Content
  <2>3. MirrorOK'
        BY <1>1, <1>7, <1>11 DEF IInv, Content, MirrorOK, Loops
  <2>4. OutputOK /\ Len(hist) = Len(dest) + total_decoded
        BY <1>1, <1>11 DEF IInv, Content, OutputOK, Pending, Running, Loops
  <2>5. total_decoded <= FrameTop
        BY <1>1, <1>3, <1>4, <2>4, Constants DEF OutputOK
  <2>6. dest' = dest \o frame /\ pc' = "frame" /\ Len(frame) = total_decoded
    <3>1. ~(total_decoded > FrameTop)
          BY <1>3, <1>4, <2>5, Constants
    <3>2. Len(frame) = total_decoded
          BY <1>5, <2>5
    <3> HIDE DEF frame
    <3> QED BY <1>2, <3>1, <3>2
  <2>7. \A i \in 1 .. total_decoded : frame[i] = hist[Len(dest) + i]
    <3> SUFFICES ASSUME NEW i \in 1 .. total_decoded PROVE frame[i] = hist[Len(dest) + i]
        OBVIOUS
    <3> DEFINE e == total_decoded - i + 1
    <3>1. e \in 1 .. W /\ e <= Len(hist) /\ Len(hist) + 1 - e = Len(dest) + i
          BY <1>3, <2>4, Constants
    <3>2. Back(pos, e) = FrameTop - total_decoded + i - 1
      <4>1. CASE pos = 0
            BY <4>1, <1>3, <1>4, <3>1, Constants DEF Back
      <4>2. CASE pos # 0
            BY <4>2, <1>3, <1>4, <2>5, <3>1, Constants DEF Back
      <4> QED BY <4>1, <4>2
    <3>3. mem_window[Back(pos, e)] = hist[Len(hist) + 1 - e]
          BY <2>1, <2>2, <3>1 DEF Filled
    <3> QED BY <3>1, <3>2, <3>3
  <2>8. frame \in Seq(Bytes \cup {None})
        BY <1>5, <2>5
  <2> HIDE DEF frame
  <2>9. /\ Len(dest') = Len(dest) + total_decoded
        /\ \A i \in 1 .. Len(dest) : dest'[i] = dest[i]
        /\ \A i \in 1 .. total_decoded : dest'[Len(dest) + i] = frame[i]
    <3>1. PICK S : S = Bytes \cup {None}
          OBVIOUS
    <3>2. dest \in Seq(S) /\ frame \in Seq(S) /\ dest' = dest \o frame /\ Len(frame) = total_decoded
          BY <1>3, <2>6, <2>8, <3>1
    <3>3. Len(dest') = Len(dest) + total_decoded
      <4>1. Len(dest \o frame) = Len(dest) + Len(frame)
            BY <3>2, ConcatProperties
      <4> QED BY <3>2, <4>1
    <3>4. \A i \in 1 .. Len(dest) : dest'[i] = dest[i]
          BY <3>2
    <3>5. ASSUME NEW i \in 1 .. total_decoded PROVE dest'[Len(dest) + i] = frame[i]
      <4>1. Len(dest) + i \in 1 .. Len(dest) + Len(frame) /\ Len(dest) + i > Len(dest)
            /\ (Len(dest) + i) - Len(dest) = i
            BY <1>3, <3>2
      <4> QED BY <3>2, <4>1
    <3> QED BY <3>3, <3>4, <3>5
  <2>10. \A i \in 1 .. Len(dest') : dest'[i] = hist'[i]
    <3> SUFFICES ASSUME NEW i \in 1 .. Len(dest') PROVE dest'[i] = hist[i]
        BY <1>1
    <3>1. CASE i <= Len(dest)
          BY <3>1, <1>3, <2>4, <2>9 DEF OutputOK
    <3>2. CASE i > Len(dest)
      <4>1. PICK j \in 1 .. total_decoded : i = Len(dest) + j
        <5>1. i - Len(dest) \in 1 .. total_decoded /\ i = Len(dest) + (i - Len(dest))
              BY <3>2, <1>3, <2>9, Constants
        <5> QED BY <5>1
      <4> QED BY <4>1, <2>7, <2>9
    <3> QED BY <3>1, <3>2, <1>3
  <2>11. Len(hist') = Len(dest') + Pending'
        BY <1>1, <1>3, <2>4, <2>6, <2>9 DEF Pending, Running, Loops
  <2>12. OutputOK'
        BY <2>6, <2>10, <2>11 DEF OutputOK, Running, Loops
  <2> QED BY <2>2, <2>3, <2>12 DEF Content
<1> QED BY <1>1, <1>8, <1>9, <1>10, <1>11 DEF IInv

LEMMA StutterKeeps == ASSUME IInv, UNCHANGED lzxVars PROVE IInv'
<1>1. UNCHANGED <<pc, mem_window, pos, last_matchpos_offset, block, run, match, frameVars, result, intact, hist>>
      BY DEF lzxVars, frameVars
<1>2. LzxTypeOK' /\ RunOK' /\ MatchOK' /\ RoomOK'
      BY <1>1 DEF IInv, LzxTypeOK, RunOK, MatchOK, RoomOK, Amount, Start, frameVars
<1>3. ASSUME intact PROVE Content'
  <2>1. Here' = Here /\ Pending' = Pending /\ Start' = Start
        BY <1>1 DEF Here, Pending, Start, Amount, frameVars
  <2> QED BY <1>1, <1>3, <2>1 DEF IInv, Content, Filled, Placed, MirrorOK, OutputOK, frameVars
<1> QED BY <1>1, <1>2, <1>3 DEF IInv

-----------------------------------------------------------------------------
(* What follows                                                            *)

\* Every step of the specification keeps the inductive invariant.
LEMMA StepKeeps == IInv /\ [LzxNext]_lzxVars => IInv'
<1> SUFFICES ASSUME IInv, [LzxNext]_lzxVars PROVE IInv'
    OBVIOUS
<1>1. ASSUME NEW n \in 1 .. LZX_CHUNK_SIZE, FrameBegin(n) PROVE IInv'
      BY <1>1, FrameBeginKeeps
<1>2. CASE FrameRefused
      BY <1>2, FrameRefusedKeeps
<1>3. ASSUME NEW t \in BlockTypes, NEW size \in BlockSizes, NEW offs \in [0 .. 2 -> Dists],
             NewBlock(t, size, offs)
      PROVE  IInv'
      BY <1>3, NewBlockKeeps
<1>4. CASE BadBlock
      BY <1>4, BadBlockKeeps
<1>5. ASSUME NEW b \in Bytes, Literal(b) PROVE IInv'
      BY <1>5, LiteralKeeps
<1>6. ASSUME NEW b \in Bytes, RawByte(b) PROVE IInv'
      BY <1>6, RawByteKeeps
<1>7. ASSUME NEW m \in 0 .. 3, NEW off \in Dists, NEW n \in LZX_MIN_MATCH .. LZX_MAX_MATCH,
             Reachable(MatchPos(m, off), n), Match(m, off, n)
      PROVE  IInv'
      BY <1>7, MatchKeeps
<1>8. CASE Internal
      BY <1>8, SrcEndsKeeps, BeginRunKeeps, CopyByteKeeps, EndSpecialKeeps, EndFastKeeps,
         EndRawKeeps, FrameEndKeeps DEF Internal
<1>9. CASE InputEnds
      BY <1>9, InputEndsKeeps
<1>10. CASE InputEndsSpecial
      BY <1>10, InputEndsSpecialKeeps
<1>11. CASE UNCHANGED lzxVars
      BY <1>11, StutterKeeps
<1> QED BY <1>1, <1>2, <1>3, <1>4, <1>5, <1>6, <1>7, <1>8, <1>9, <1>10, <1>11 DEF LzxNext

\* In every state of lzx_decompress the four loops stay inside the window and the frame,
\* a match's pointer inside the mirror, and window, history and output fit together.
THEOREM LzxInvariant == LzxSpec => []IInv
<1> QED BY InitInv, StepKeeps, PTL DEF LzxSpec

\* The type invariant: context->pos is always an index of the window.
THEOREM LzxTypeCorrect == LzxSpec => []LzxTypeOK
<1>1. IInv => LzxTypeOK
      BY DEF IInv
<1> QED BY LzxInvariant, <1>1, PTL

\* mem_window holds the last LZX_WINDOW_SIZE bytes decoded, each where its index says, and
\* in the fast loop the bytes behind its end are those of its start.
THEOREM LzxWindow == LzxSpec => []WindowHolds
<1>1. IInv => WindowHolds
  <2> SUFFICES ASSUME IInv, intact PROVE WindowHolds
      BY DEF WindowHolds
  <2>1. Content /\ hist \in Seq(Bytes) /\ pos \in 0 .. W - 1
        BY DEF IInv, LzxTypeOK
  <2>2. Here \in 0 .. W
    <3>1. CASE pc \in Running
          BY <3>1, InRun, Constants DEF Here
    <3>2. CASE pc \notin Running
          BY <3>2, <2>1, Constants DEF Here
    <3> QED BY <3>1, <3>2
  <2>3. \E k \in Nat : Len(hist) = k * W + Here
        BY <2>1 DEF Content, Placed
  <2>4. ASSUME NEW i \in 1 .. Len(hist), i + W > Len(hist)
        PROVE  mem_window[(i - 1) % W] = hist[i]
    <3> DEFINE d == Len(hist) + 1 - i
    <3>1. d \in 1 .. W /\ d <= Len(hist) /\ Len(hist) + 1 - d = i /\ Len(hist) - d = i - 1
          BY <2>1, <2>4, Constants
    <3> HIDE DEF d
    <3>2. (Len(hist) - d) % W = Back(Here, d)
          BY <2>1, <2>2, <2>3, <3>1, BehindEnd
    <3>3. mem_window[Back(Here, d)] = hist[Len(hist) + 1 - d]
          BY <2>1, <3>1 DEF Content, Filled
    <3> QED BY <3>1, <3>2, <3>3
  <2>5. ASSUME pc = "fast", NEW j \in 0 .. HEAD - 1
        PROVE  mem_window[W + j] = mem_window[j]
    <3>1. HEAD <= run.at /\ pc \in Loops /\ run.at \in Nat
          BY <2>5, InRun, Constants DEF IInv, RunOK, Running, Loops
    <3>2. j < run.at
          BY <3>1, Constants
    <3> QED BY <2>1, <3>1, <3>2 DEF Content, MirrorOK
  <2> QED BY <2>4, <2>5 DEF WindowHolds
<1> QED BY LzxInvariant, <1>1, PTL

\* Between frames, when all is well, the output is all that was decoded.
LEMMA OutputIs == IInv => OutputIsHistory
<1> SUFFICES ASSUME IInv PROVE OutputIsHistory
    OBVIOUS
<1>1. hist \in Seq(Bytes) /\ dest \in Seq(Bytes \cup {None})
      BY DEF IInv, LzxTypeOK
<1>2. ASSUME intact, pc \in {"frame", "done"}, result = 0
      PROVE  dest = hist
  <2>1. Pending = 0 /\ OutputOK
        BY <1>2 DEF IInv, Content, Pending, Running, Loops
  <2>2. Len(hist) = Len(dest) /\ \A i \in 1 .. Len(dest) : dest[i] = hist[i]
        BY <1>1, <1>2, <2>1 DEF OutputOK
  <2> QED BY <1>1, <2>2, SeqEqual
<1> QED BY <1>2 DEF IInv, RoomOK, OutputIsHistory

\* Between frames, and when lzx_decompress returns 0, the output is what was decoded, and
\* it never outgrows the buffer that lzx_check_buffer_resize gave it.
THEOREM LzxOutput == LzxSpec => []OutputIsHistory
BY OutputIs, LzxInvariant, PTL

-----------------------------------------------------------------------------
(* The decoder implements Lz77                                             *)

\* The match that is being copied, as Lz77 sees it.
Copying == IF intact /\ match.left > 0 THEN [dist |-> match.dist, left |-> match.left]
           ELSE [dist |-> 0, left |-> 0]

\* Where nothing is added and no match is begun or taken further, Lz77 stutters.
LEMMA Stutters ==
  ASSUME hist' = hist, Copying' = Copying
  PROVE  [Lz!LzNext]_Lz!lzVars
BY DEF Lz!lzVars, Copying

\* The same, for the steps that are taken between two items.
LEMMA BetweenItems ==
  ASSUME hist' = hist, match.left = 0, match' = match \/ match' = NoMatch
  PROVE  [Lz!LzNext]_Lz!lzVars
<1>1. ~(match'.left > 0) /\ ~(match.left > 0)
      BY DEF NoMatch
<1>2. Copying' = [dist |-> 0, left |-> 0] /\ Copying = [dist |-> 0, left |-> 0]
      BY <1>1 DEF Copying
<1> QED BY <1>2, Stutters

\* A literal, or a byte of an uncompressed block.
LEMMA ByteIsNew ==
  ASSUME NEW b \in Bytes, match.left = 0, match' = match, intact' = intact,
         hist' = (IF intact THEN Append(hist, b) ELSE hist)
  PROVE  [Lz!LzNext]_Lz!lzVars
<1>1. CASE intact
  <2>1. Lz!New(b)
    <3>1. ~(intact /\ match.left > 0) /\ ~(intact' /\ match'.left > 0)
          OBVIOUS
    <3>2. hist' = Append(hist, b)
          BY <1>1
    <3> QED BY <3>1, <3>2 DEF Lz!New
  <2> QED BY <2>1 DEF Lz!LzNext
<1>2. CASE ~intact
      BY <1>2, BetweenItems
<1> QED BY <1>1, <1>2

\* A match begins in Lz77 when the decoder has read it.
LEMMA MatchBegins ==
  ASSUME IInv, NEW m \in 0 .. 3, NEW off \in Dists, NEW n \in LZX_MIN_MATCH .. LZX_MAX_MATCH,
         Reachable(MatchPos(m, off), n), Match(m, off, n)
  PROVE  [Lz!LzNext]_Lz!lzVars
<1> DEFINE d == MatchPos(m, off)
<1>1. match.left = 0 /\ hist' = hist /\ intact' = intact
      BY DEF Match, AtItem
<1>2. d \in 1 .. W /\ d <= Len(hist)
  <2>1. last_matchpos_offset \in [0 .. 2 -> 1 .. W] /\ off \in 1 .. W
        BY LzxOthers DEF IInv, LzxTypeOK, W
  <2>2. CASE m <= 2
    <3>1. m \in 0 .. 2
          BY <2>2
    <3> QED BY <2>1, <2>2, <3>1 DEF MatchPos, Reachable
  <2>3. CASE ~(m <= 2)
        BY <2>1, <2>3 DEF MatchPos, Reachable
  <2> QED BY <2>2, <2>3
<1>3. match'.dist = d /\ match'.left = n /\ n > 0
      BY Constants, LzxSizes DEF Match
<1> HIDE DEF d
<1>4. CASE intact
  <2>1. hist \in Seq(Bytes) /\ Len(hist) \in Nat
        BY DEF IInv, LzxTypeOK
  <2>2. Lz!Begin(d, n)
    <3>1. ~(intact /\ match.left > 0) /\ intact' /\ match'.left > 0
          BY <1>1, <1>3, <1>4, LzxSizes
    <3> QED BY <1>1, <1>3, <3>1 DEF Lz!Begin
  <2>3. d \in 1 .. Len(hist)
        BY <1>2, <2>1, Constants
  <2> QED BY <2>2, <2>3 DEF Lz!LzNext
<1>5. CASE ~intact
      BY <1>1, <1>5, Stutters DEF Copying
<1> QED BY <1>4, <1>5

\* One turn of the copying loop is one copy of Lz77: the byte it reads from the window is
\* the byte of the history that Lz77 reads.
LEMMA CopyContinues == ASSUME IInv, CopyByte PROVE [Lz!LzNext]_Lz!lzVars
<1>1. pc \in Loops /\ match.left > 0 /\ intact' = intact
      BY DEF CopyByte
<1>2. match \in [dist : Nat, ptr : Nat, left : 0 .. LZX_MAX_MATCH] /\ match.left \in Nat
      BY LzxSizes DEF IInv, LzxTypeOK
<1>3. hist' = (IF intact THEN Append(hist, Copied) ELSE hist)
      BY DEF CopyByte, Decoded, Copied
<1>4. CASE intact
  <2>1. hist' = Append(hist, hist[Len(hist) + 1 - match.dist])
        BY <1>1, <1>3, <1>4, CopiedIs
  <2>2. CASE match.left = 1
    <3>1. ~(match'.left > 0)
          BY <2>2 DEF CopyByte, NoMatch
    <3> QED BY <1>1, <1>4, <2>1, <2>2, <3>1 DEF Lz!LzNext, Lz!Continue, Lz!NoCopy
  <2>3. CASE match.left # 1
    <3>1. match'.dist = match.dist /\ match'.left = match.left - 1 /\ match'.left > 0
      <4>1. match' = [match EXCEPT !.left = @ - 1, !.ptr = IF pc = "fast" THEN @ + 1 ELSE @]
            BY <2>3 DEF CopyByte
      <4> QED BY <1>1, <1>2, <2>3, <4>1
    <3> QED BY <1>1, <1>4, <2>1, <2>3, <3>1 DEF Lz!LzNext, Lz!Continue
  <2> QED BY <2>2, <2>3
<1>5. CASE ~intact
      BY <1>1, <1>3, <1>5, Stutters DEF Copying
<1> QED BY <1>4, <1>5

\* Every step of the decoder is a step of Lz77, or adds nothing.
LEMMA StepImplements == IInv /\ [LzxNext]_lzxVars => [Lz!LzNext]_Lz!lzVars
<1> SUFFICES ASSUME IInv, [LzxNext]_lzxVars PROVE [Lz!LzNext]_Lz!lzVars
    OBVIOUS
<1>1. ASSUME NEW n \in 1 .. LZX_CHUNK_SIZE, FrameBegin(n) PROVE [Lz!LzNext]_Lz!lzVars
      BY <1>1, Stutters DEF FrameBegin, Copying
<1>2. CASE FrameRefused
      BY <1>2, Stutters DEF FrameRefused, Copying
<1>3. ASSUME NEW t \in BlockTypes, NEW size \in BlockSizes, NEW offs \in [0 .. 2 -> Dists],
             NewBlock(t, size, offs)
      PROVE  [Lz!LzNext]_Lz!lzVars
      BY <1>3, Stutters DEF NewBlock, Copying
<1>4. CASE BadBlock
      BY <1>4, Stutters DEF BadBlock, Copying
<1>5. ASSUME NEW b \in Bytes, Literal(b) PROVE [Lz!LzNext]_Lz!lzVars
      BY <1>5, ByteIsNew DEF Literal, AtItem, Decoded
<1>6. ASSUME NEW b \in Bytes, RawByte(b) PROVE [Lz!LzNext]_Lz!lzVars
  <2>1. match.left = 0
        BY <1>6 DEF RawByte, IInv, MatchOK, Loops
  <2> QED BY <1>6, <2>1, ByteIsNew DEF RawByte, Decoded
<1>7. ASSUME NEW m \in 0 .. 3, NEW off \in Dists, NEW n \in LZX_MIN_MATCH .. LZX_MAX_MATCH,
             Reachable(MatchPos(m, off), n), Match(m, off, n)
      PROVE  [Lz!LzNext]_Lz!lzVars
      BY <1>7, MatchBegins
<1>8. CASE SrcEnds
      BY <1>8, Stutters DEF SrcEnds, Copying
<1>9. CASE BeginRun
      BY <1>9, Stutters DEF BeginRun, Copying
<1>10. CASE CopyByte
      BY <1>10, CopyContinues
<1>11. CASE EndSpecial
      BY <1>11, BetweenItems DEF EndSpecial, LoopDone, RunOver
<1>12. CASE EndFast
      BY <1>12, BetweenItems DEF EndFast, LoopDone, RunOver
<1>13. CASE EndRaw
  <2>1. match.left = 0
        BY <1>13 DEF EndRaw, IInv, MatchOK, Loops
  <2> QED BY <1>13, <2>1, BetweenItems DEF EndRaw, RunOver
<1>14. CASE FrameEnd
      BY <1>14, Stutters DEF FrameEnd, Copying
<1>15. CASE InputEnds
      BY <1>15, BetweenItems DEF InputEnds, RunOver
<1>16. CASE InputEndsSpecial
      BY <1>16, BetweenItems DEF InputEndsSpecial
<1>17. CASE UNCHANGED lzxVars
      BY <1>17, Stutters DEF lzxVars, Copying
<1> QED BY <1>1, <1>2, <1>3, <1>4, <1>5, <1>6, <1>7, <1>8, <1>9, <1>10, <1>11, <1>12, <1>13,
           <1>14, <1>15, <1>16, <1>17 DEF LzxNext, Internal

\* lzx_decompress decodes as Lz77 does: the blocks, the frames, the four loops and the
\* window that wraps show in the pace of the bytes and not in their values.
THEOREM LzxImplementsLz77 == LzxSpec => ImplementsLz77
<1>1. LzxInit => Lz!LzInit
      BY DEF LzxInit, NoMatch, Lz!LzInit, Lz!NoCopy
<1> QED BY <1>1, LzxInvariant, StepImplements, PTL DEF LzxSpec, ImplementsLz77, Lz!LzSpec
====
