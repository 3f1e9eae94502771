---- MODULE LzxDecoder ----
(***************************************************************************)
(* lzx_decompress (src/src/lzx_decoder.c) from the items of a stream to    *)
(* the bytes of the output buffer: the frames, the blocks and the runs     *)
(* they are cut into, the special, the fast and the uncompressed loop, the *)
(* window with its mirror and the repeated offsets.                        *)
(*                                                                         *)
(* The stream is what lzx_compress writes: every frame but the last holds  *)
(* LZX_CHUNK_SIZE bytes, a match ends inside its run and starts inside the *)
(* history.  How items are coded as bits is LzxBits, LzxTrees, LzxSlots;   *)
(* the E8 translation of the output is LzxE8.                              *)
(***************************************************************************)
EXTENDS Integers, Sequences

CONSTANTS LZX_WINDOW_SIZE,
          LZX_CHUNK_SIZE,
          LZX_MIN_MATCH,
          LZX_MAX_MATCH,   \* 257: the bytes at the window's start that are kept twice
          Bytes,
          None,            \* a byte of the window that nothing has written yet
          BlockSizes,      \* the sizes a block may announce
          Dists,           \* the distances a match may have
          MaxFrames,       \* bound on the frames of a stream
          Truncated        \* may the input of a frame end before its items do?

W == LZX_WINDOW_SIZE
HEAD == LZX_MAX_MATCH

ASSUME LzxSizes == /\ LZX_WINDOW_SIZE \in Nat /\ LZX_CHUNK_SIZE \in Nat \ {0}
                   /\ LZX_MIN_MATCH \in Nat \ {0} /\ LZX_MAX_MATCH \in Nat
                   /\ LZX_MIN_MATCH <= LZX_MAX_MATCH
                   /\ LZX_MAX_MATCH < LZX_CHUNK_SIZE
                   /\ LZX_CHUNK_SIZE < LZX_WINDOW_SIZE
                   /\ LZX_WINDOW_SIZE % LZX_CHUNK_SIZE = 0

ASSUME LzxOthers == /\ None \notin Bytes /\ Truncated \in BOOLEAN
                    /\ BlockSizes \subseteq Nat /\ Dists \subseteq 1 .. LZX_WINDOW_SIZE
                    /\ MaxFrames \in Nat

\* LZX_BLOCK_TYPE_*: verbatim and aligned blocks differ in their bits only.
Coded == {"verbatim", "aligned"}
BlockTypes == Coded \cup {"uncompressed"}

LZX_ERROR_FAILED == 1
LZX_ERROR_BUFFER_OVERFLOW == 4

VARIABLES
  pc,                    \* frame | data | special | fast | raw | done | undefined
  mem_window, pos,       \* context->mem_window and context->pos
  last_matchpos_offset,
  block,                 \* context->block_type, block_size
  run,                   \* a call of decode_*_block: [at, end, upto]
  match,                 \* the match that is being copied: [dist, ptr, left]
  bytes_to_decode, total_decoded,
  dest, allocated_size,  \* the output buffer
  result,
  intact,                \* history: the input of no frame has ended early
  hist                   \* history: the bytes decoded, while the input was intact

lzxVars == <<pc, mem_window, pos, last_matchpos_offset, block, run, match, bytes_to_decode,
             total_decoded, dest, allocated_size, result, intact, hist>>
frameVars == <<bytes_to_decode, total_decoded, dest, allocated_size>>

NoRun == [at |-> 0, end |-> 0, upto |-> 0]
NoMatch == [dist |-> 0, ptr |-> 0, left |-> 0]
\* The call of decode_init, and the first allocation of lzx_decompress.
LzxInit ==
  /\ pc = "frame"
  /\ mem_window = [i \in 0 .. W + HEAD + 3 |-> None]
  /\ pos = 0
  /\ last_matchpos_offset = [m \in 0 .. 2 |-> 1]
  /\ block = [type |-> "invalid", size |-> 0]
  /\ run = NoRun /\ match = NoMatch
  /\ bytes_to_decode = 0 /\ total_decoded = 0
  /\ dest = <<>> /\ allocated_size = LZX_CHUNK_SIZE
  /\ result = 0
  /\ intact = TRUE /\ hist = <<>>

-----------------------------------------------------------------------------
(* lzx_decompress: frame after frame until the source is used up           *)

\* lzx_check_buffer_resize(.., LZX_CHUNK_SIZE, LZX_CHUNK_SIZE * 10)
Resized == IF Len(dest) + LZX_CHUNK_SIZE > allocated_size
           THEN allocated_size + LZX_CHUNK_SIZE * 10 ELSE allocated_size

\* The header of the next frame; only the last frame of a stream is short or cut off.
FrameBegin(n) ==
  /\ pc = "frame" /\ Len(dest) % LZX_CHUNK_SIZE = 0 /\ intact
  /\ allocated_size' = Resized
  /\ bytes_to_decode' = n /\ total_decoded' = 0
  /\ pc' = "data"
  /\ UNCHANGED <<mem_window, pos, last_matchpos_offset, block, run, match, dest, result,
                 intact, hist>>

\* A header that announces more than LZX_CHUNK_SIZE or LZX_OUTPUT_SIZE bytes.
FrameRefused ==
  /\ pc = "frame"
  /\ allocated_size' = Resized
  /\ result' = LZX_ERROR_BUFFER_OVERFLOW
  /\ pc' = "done"
  /\ UNCHANGED <<mem_window, pos, last_matchpos_offset, block, run, match, bytes_to_decode,
                 total_decoded, dest, intact, hist>>

SrcEnds == /\ pc = "frame"
           /\ pc' = "done" /\ result' = 0
           /\ UNCHANGED <<mem_window, pos, last_matchpos_offset, block, run, match, frameVars,
                          intact, hist>>

-----------------------------------------------------------------------------
(* decode_data                                                             *)

\* DEC_STATE_NEW_BLOCK: a block's header; an uncompressed block brings its offsets.
NewBlock(t, size, offs) ==
  /\ pc = "data" /\ bytes_to_decode > 0 /\ block.size = 0
  /\ block' = [type |-> t, size |-> size]
  /\ last_matchpos_offset' = IF t = "uncompressed" THEN offs ELSE last_matchpos_offset
  /\ UNCHANGED <<pc, mem_window, pos, run, match, frameVars, result, intact, hist>>

\* default: return -1
BadBlock ==
  /\ pc = "data" /\ bytes_to_decode > 0 /\ block.size = 0
  /\ block' = [type |-> "invalid", size |-> 0]
  /\ pc' = "done" /\ result' = LZX_ERROR_FAILED
  /\ UNCHANGED <<mem_window, pos, last_matchpos_offset, run, match, frameVars, intact, hist>>

Smaller(a, b) == IF a < b THEN a ELSE b

\* The choice of a loop: the first HEAD bytes of the window have one of their own.
BeginRun ==
  LET amount == Smaller(block.size, bytes_to_decode)
      slowly == Smaller(HEAD - pos, amount) IN
  /\ pc = "data" /\ bytes_to_decode > 0 /\ block.size > 0
  /\ \/ /\ block.type = "uncompressed"
        /\ pc' = "raw" /\ run' = [at |-> pos, end |-> pos + amount, upto |-> pos + amount]
     \/ /\ block.type \in Coded /\ pos < HEAD
        /\ pc' = "special" /\ run' = [at |-> pos, end |-> pos + slowly, upto |-> pos + amount]
     \/ /\ block.type \in Coded /\ pos >= HEAD
        /\ pc' = "fast" /\ run' = [at |-> pos, end |-> pos + amount, upto |-> pos + amount]
  /\ UNCHANGED <<mem_window, pos, last_matchpos_offset, block, match, frameVars, result,
                 intact, hist>>

\* What a run leaves behind, whatever it returned: its residue is ignored.
RunOver ==
  LET amount == Smaller(block.size, bytes_to_decode) IN
  /\ block' = [block EXCEPT !.size = @ - amount]
  /\ bytes_to_decode' = bytes_to_decode - amount
  /\ total_decoded' = total_decoded + amount
  /\ run' = NoRun /\ match' = NoMatch
  /\ pc' = "data"
  /\ UNCHANGED <<last_matchpos_offset, dest, allocated_size, result>>

-----------------------------------------------------------------------------
(* decode_verbatim_block, decode_aligned_offset_block: items               *)

Loops == {"special", "fast"}
AtItem == pc \in Loops /\ match.left = 0 /\ run.at < run.end

Mirrored(mem, i, b) == [mem EXCEPT ![i] = b, ![W + i] = b]
\* Only while the input was intact do the bytes decoded mean anything.
Decoded(b) == hist' = IF intact THEN Append(hist, b) ELSE hist

Literal(b) ==
  /\ AtItem
  /\ mem_window' = IF pc = "special" THEN Mirrored(mem_window, run.at, b)
                   ELSE [mem_window EXCEPT ![run.at] = b]
  /\ run' = [run EXCEPT !.at = @ + 1]
  /\ Decoded(b)
  /\ UNCHANGED <<pc, pos, last_matchpos_offset, block, match, frameVars, result, intact>>

\* Slot m <= 2 names one of the last three offsets and moves it to the front;
\* any other slot brings an offset that is pushed.
MatchPos(m, off) == IF m <= 2 THEN last_matchpos_offset[m] ELSE off
OffsetsAfter(m, off) ==
  IF m <= 2 THEN [last_matchpos_offset EXCEPT ![m] = last_matchpos_offset[0],
                                              ![0] = last_matchpos_offset[m]]
  ELSE [i \in 0 .. 2 |-> IF i = 0 THEN off ELSE last_matchpos_offset[i - 1]]

Match(m, off, n) ==
  /\ AtItem
  /\ match' = [dist |-> MatchPos(m, off),
               ptr |-> IF pc = "fast" THEN (run.at - MatchPos(m, off)) % W ELSE 0,
               left |-> n]
  /\ last_matchpos_offset' = OffsetsAfter(m, off)
  /\ UNCHANGED <<pc, mem_window, pos, block, run, frameVars, result, intact, hist>>

\* What lzx_compress guarantees of a match, with hist for everything decoded.
Reachable(d, n) == d <= Len(hist) /\ run.at + n <= run.upto

\* One turn of the copying loop.  The special loop masks each position it reads; the
\* fast one masks the first and then runs on into the mirror.
CopyByte ==
  LET b == IF pc = "special" THEN mem_window[(run.at - match.dist) % W]
           ELSE mem_window[match.ptr] IN
  /\ pc \in Loops /\ match.left > 0
  /\ mem_window' = IF pc = "special" /\ run.at < HEAD THEN Mirrored(mem_window, run.at, b)
                   ELSE [mem_window EXCEPT ![run.at] = b]
  /\ run' = [run EXCEPT !.at = @ + 1]
  /\ match' = IF match.left = 1 THEN NoMatch
              ELSE [match EXCEPT !.left = @ - 1, !.ptr = IF pc = "fast" THEN @ + 1 ELSE @]
  /\ Decoded(b)
  /\ UNCHANGED <<pc, pos, last_matchpos_offset, block, frameVars, result, intact>>

LoopDone == match.left = 0 /\ run.at >= run.end

\* A bug: only the fast loop stores the position.
EndSpecialEarly ==
  /\ pc = "special" /\ LoopDone
  /\ UNCHANGED <<mem_window, pos, intact, hist>>
  /\ \/ run.at >= run.upto /\ RunOver
     \/ /\ run.at < run.upto
        /\ pc' = "fast" /\ run' = [run EXCEPT !.end = run.upto]
        /\ UNCHANGED <<last_matchpos_offset, block, match, frameVars, result>>

\* The special loop is over: the position is stored as it is, and what the run still
\* has to decode is left to the fast loop.
EndSpecial ==
  /\ pc = "special" /\ LoopDone
  /\ pos' = run.at
  /\ UNCHANGED <<mem_window, intact, hist>>
  /\ \/ run.at >= run.upto /\ RunOver
     \/ /\ run.at < run.upto
        /\ pc' = "fast" /\ run' = [run EXCEPT !.end = run.upto]
        /\ UNCHANGED <<last_matchpos_offset, block, match, frameVars, result>>

\* A bug: the position is not taken back to the window's start.
EndUnmasked == /\ pc = "fast" /\ LoopDone
               /\ pos' = run.at
               /\ UNCHANGED <<mem_window, intact, hist>>
               /\ RunOver

EndFast == /\ pc = "fast" /\ LoopDone
           /\ pos' = run.at % W
           /\ UNCHANGED <<mem_window, intact, hist>>
           /\ RunOver

-----------------------------------------------------------------------------
(* decode_uncompressed_block                                               *)

RawByte(b) ==
  /\ pc = "raw" /\ run.at < run.end
  /\ mem_window' = [mem_window EXCEPT ![run.at] = b]
  /\ run' = [run EXCEPT !.at = @ + 1]
  /\ Decoded(b)
  /\ UNCHANGED <<pc, pos, last_matchpos_offset, block, match, frameVars, result, intact>>

\* A bug: nothing is copied behind the window's end.
EndRawOnce == /\ pc = "raw" /\ run.at = run.end
              /\ pos' = run.at % W
              /\ UNCHANGED <<mem_window, intact, hist>>
              /\ RunOver

\* Then what lies in the window's first bytes is copied behind its end.
EndRaw ==
  /\ pc = "raw" /\ run.at = run.end
  /\ mem_window' = [i \in DOMAIN mem_window |->
                      IF i >= W /\ i - W >= pos /\ i - W < Smaller(HEAD, run.end)
                      THEN mem_window[i - W] ELSE mem_window[i]]
  /\ pos' = run.at % W
  /\ UNCHANGED <<intact, hist>>
  /\ RunOver

-----------------------------------------------------------------------------
(* Input that ends early: DECODE_MAIN_TREE and the raw loop return -1      *)

\* From the fast or the raw loop -1 is a residue: context->pos stays where it was and
\* the run counts as decoded.
InputEnds ==
  /\ Truncated /\ pc \in {"fast", "raw"} /\ match.left = 0 /\ run.at < run.end
  /\ intact' = FALSE
  /\ UNCHANGED <<mem_window, pos, hist>>
  /\ RunOver

\* From the special loop it becomes the position, and the fast loop writes in front of
\* the window; nothing is said of what follows.
InputEndsSpecial ==
  /\ Truncated /\ pc = "special" /\ match.left = 0 /\ run.at < run.end
  /\ intact' = FALSE
  /\ pc' = "undefined"
  /\ UNCHANGED <<mem_window, pos, last_matchpos_offset, block, run, match, frameVars, result,
                 hist>>

-----------------------------------------------------------------------------
\* copy_data_to_output: the frame is the end of what the window holds.
FrameTop == IF pos = 0 THEN W ELSE pos
FrameEnd ==
  /\ pc = "data" /\ bytes_to_decode = 0
  /\ UNCHANGED <<mem_window, pos, last_matchpos_offset, block, run, match, bytes_to_decode,
                 total_decoded, allocated_size, result, intact, hist>>
  /\ \/ /\ total_decoded <= FrameTop
        /\ dest' = dest \o [i \in 1 .. total_decoded |->
                              mem_window[FrameTop - total_decoded + i - 1]]
        /\ pc' = "frame"
     \/ /\ total_decoded > FrameTop   \* bytes in front of the window
        /\ pc' = "undefined" /\ UNCHANGED dest

\* Everything but the choice of what the stream says.
Internal == \/ SrcEnds \/ BeginRun \/ CopyByte \/ EndSpecial \/ EndFast \/ EndRaw \/ FrameEnd

LzxNext ==
  \/ \E n \in 1 .. LZX_CHUNK_SIZE : Len(dest) < MaxFrames * LZX_CHUNK_SIZE /\ FrameBegin(n)
  \/ FrameRefused
  \/ \E t \in BlockTypes, size \in BlockSizes, offs \in [0 .. 2 -> Dists] :
       NewBlock(t, size, offs)
  \/ BadBlock
  \/ \E b \in Bytes : Literal(b) \/ RawByte(b)
  \/ \E m \in 0 .. 3, off \in Dists, n \in LZX_MIN_MATCH .. LZX_MAX_MATCH :
       Reachable(MatchPos(m, off), n) /\ Match(m, off, n)
  \/ Internal
  \/ InputEnds \/ InputEndsSpecial

LzxSpec == LzxInit /\ [][LzxNext]_lzxVars

-----------------------------------------------------------------------------
LzxTypeOK ==
  /\ pc \in {"frame", "data", "special", "fast", "raw", "done", "undefined"}
  /\ mem_window \in [0 .. W + HEAD + 3 -> Bytes \cup {None}]
  /\ pos \in 0 .. W - 1
  /\ last_matchpos_offset \in [0 .. 2 -> 1 .. W]
  /\ block \in [type : BlockTypes \cup {"invalid"}, size : Nat]
  /\ run \in [at : Nat, end : Nat, upto : Nat]
  /\ match \in [dist : Nat, ptr : Nat, left : 0 .. LZX_MAX_MATCH]
  /\ bytes_to_decode \in 0 .. LZX_CHUNK_SIZE /\ total_decoded \in 0 .. LZX_CHUNK_SIZE
  /\ dest \in Seq(Bytes \cup {None}) /\ allocated_size \in Nat
  /\ result \in {0, LZX_ERROR_FAILED, LZX_ERROR_BUFFER_OVERFLOW}
  /\ intact \in BOOLEAN /\ hist \in Seq(Bytes)

\* The window holds the last W bytes decoded, each where its index says: every one of
\* the four loops leaves the position and the bytes together, over the window's end too.
\* While the fast loop runs, the bytes behind the window's end are those of its start,
\* which is why a match may run past the end without a mask.
WindowHolds ==
  intact => /\ \A i \in 1 .. Len(hist) :
                 i + W > Len(hist) => mem_window[(i - 1) % W] = hist[i]
            /\ pc = "fast" => \A j \in 0 .. HEAD - 1 : mem_window[W + j] = mem_window[j]

\* What lzx_decompress hands out between frames is all that was decoded, in order: the
\* slice of the window copied at a frame's end is that frame, at the window's end too.
\* The output buffer has had room for it.
OutputIsHistory ==
  /\ intact /\ pc \in {"frame", "done"} /\ result = 0 => dest = hist
  /\ Len(dest) <= allocated_size

\* Each step of the decoder adds to the history what the item says, or nothing.
Lz == INSTANCE Lz77 WITH
        Lengths <- LZX_MIN_MATCH .. LZX_MAX_MATCH,
        hist <- hist,
        copy <- IF intact /\ match.left > 0 THEN [dist |-> match.dist, left |-> match.left]
                ELSE [dist |-> 0, left |-> 0]
ImplementsLz77 == Lz!LzSpec

\* src/inc/lzx.h:201: "returns 0 on SUCCESS, otherwise LZX_ERROR".  It is not so of an
\* input that ends inside a frame: decode_data goes on and the result is 0.
CutIsReported == pc = "done" /\ ~intact => result # 0
=============================================================================
