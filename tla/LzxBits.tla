---- MODULE LzxBits ----
(***************************************************************************)
(* Where the bits of a stream lie: the encoder's bit buffer (OUTPUT_BITS,  *)
(* encode_flush, encode_uncompressed_block of src/src/lzx_encoder.c) and   *)
(* the decoder's (init_bitbuf, fill_bitbuf, the FILL_BUF macros and the    *)
(* block headers of decode_data, src/src/lzx_decoder.c), item by item.     *)
(* The bits' values are left out: what matters is that both sides count    *)
(* alike, over words of 16 bits, ends of frames and uncompressed blocks.   *)
(***************************************************************************)
EXTENDS Integers

CONSTANTS MaxItems,   \* bound on the items and the headers of a frame
          MaxRaw      \* bound on the bytes of an uncompressed block

ASSUME BitBounds == MaxItems \in Nat /\ MaxRaw \in Nat

VARIABLES enc,           \* the encoder's frame: [out: bytes written, bitcount]
          dec,           \* the decoder's: [cur: input_curpos, bitcount]
          phase,         \* new (between blocks) | coded | raw | end
          last_block,    \* the last block: [raw, odd, left, any], any: it has had an item
          frame_items,   \* of this frame, block headers counted too
          peak,          \* history: how far into this frame the decoder was at an item
          slack          \* history: what the frame before had left: its size less its peak

bitsVars == <<enc, dec, phase, last_block, frame_items, peak, slack>>
-----------------------------------------------------------------------------
\* The encoder keeps less than a word: bitcount is 32 less the bits not yet written.
NoBits == [out |-> 0, bitcount |-> 32]
\* At most 17 bits are written at a time, which make two words at most.
WriteWord(e) == IF e.bitcount <= 16 THEN [out |-> e.out + 2, bitcount |-> e.bitcount + 16] ELSE e
OUTPUT_BITS(e, n) == WriteWord(WriteWord([e EXCEPT !.bitcount = @ - n]))
\* output_bits(context, bitcount - 16, 0): to the next word, a whole word if on one.
AlignEnc(e) == OUTPUT_BITS(e, e.bitcount - 16)

\* The decoder keeps 16 + bitcount bits; fill_bitbuf and FILL_BUF17 refill twice at most.
Refill(d) == IF d.bitcount <= 0 THEN [cur |-> d.cur + 2, bitcount |-> d.bitcount + 16] ELSE d
fill_bitbuf(d, n) == Refill(Refill([d EXCEPT !.bitcount = @ - n]))
FILL_BUF(d, n) == Refill([d EXCEPT !.bitcount = @ - n])
\* The items are read with FILL_BUF, but for 17 extra bits.
Consume(d, n) == IF n = 17 THEN fill_bitbuf(d, n) ELSE FILL_BUF(d, n)
\* A bug: the buffer is filled again in an uncompressed block too.
init_always(d, is_raw) == [cur |-> d.cur + 4, bitcount |-> 16]
init_bitbuf(d, is_raw) == IF is_raw THEN d ELSE [cur |-> d.cur + 4, bitcount |-> 16]

NoBlock == [raw |-> FALSE, odd |-> FALSE, left |-> 0, any |-> FALSE]
BitsInit == /\ enc = NoBits /\ dec = init_bitbuf([cur |-> 0, bitcount |-> 0], FALSE)
            /\ phase = "new" /\ last_block = NoBlock
            /\ frame_items = 0 /\ peak = 0 /\ slack = 0
-----------------------------------------------------------------------------
Higher(a, b) == IF a > b THEN a ELSE b
Checked(d) == peak' = Higher(peak, d.cur)

\* A symbol and its extra bits, n at a time.
Item(n) == /\ phase = "coded" /\ frame_items < MaxItems
           /\ enc' = OUTPUT_BITS(enc, n)
           /\ dec' = Consume(dec, n)
           /\ Checked(dec)
           /\ frame_items' = frame_items + 1
           /\ last_block' = [last_block EXCEPT !.any = TRUE]
           /\ UNCHANGED <<phase, slack>>

\* do_block_output writes 3 + 8 + 8 + 8 bits; decode_data skips the pad of an odd
\* uncompressed block before it, fills its buffer again and reads them.
Header(e) == OUTPUT_BITS(OUTPUT_BITS(OUTPUT_BITS(OUTPUT_BITS(e, 3), 8), 8), 8)
Resumed(d) ==
  IF last_block.raw
  THEN init_bitbuf([d EXCEPT !.cur = IF last_block.odd THEN @ + 1 ELSE @], FALSE)
  ELSE d
HeaderRead(d) == fill_bitbuf(fill_bitbuf(fill_bitbuf(fill_bitbuf(d, 3), 8), 8), 8)

CodedBlock == /\ phase = "new" /\ frame_items < MaxItems
              /\ enc' = Header(enc)
              /\ dec' = HeaderRead(Resumed(dec))
              /\ phase' = "coded"
              /\ last_block' = NoBlock
              /\ Checked(dec)
              /\ frame_items' = frame_items + 1
              /\ UNCHANGED slack

\* Then the encoder aligns and writes three offsets of four bytes past its bit buffer;
\* the decoder steps two bytes back from where it has read ahead.
RawBlock(n) ==
  LET e == AlignEnc(Header(enc))
      d == HeaderRead(Resumed(dec)) IN
  /\ phase = "new" /\ frame_items < MaxItems
  /\ enc' = [e EXCEPT !.out = @ + 12]
  /\ dec' = [d EXCEPT !.cur = @ - 2 + 12]
  /\ phase' = "raw"
  /\ last_block' = [raw |-> TRUE, odd |-> n % 2 = 1, left |-> n, any |-> FALSE]
  /\ Checked([d EXCEPT !.cur = @ - 2 + 4])
  /\ frame_items' = frame_items + 1
  /\ UNCHANGED slack

RawItem == /\ phase = "raw" /\ last_block.left > 0 /\ frame_items < MaxItems
           /\ enc' = [enc EXCEPT !.out = @ + 1]
           /\ dec' = [dec EXCEPT !.cur = @ + 1]
           /\ last_block' = [last_block EXCEPT !.left = @ - 1, !.any = TRUE]
           /\ frame_items' = frame_items + 1
           /\ Checked(dec)
           /\ UNCHANGED <<phase, slack>>

\* The last byte is written, and the frame closed if that filled it, before the pad is.
EndBlock == \/ /\ phase = "coded" /\ last_block.any
               /\ phase' = "new" /\ UNCHANGED <<enc, dec, last_block, frame_items, peak, slack>>
            \/ /\ phase = "raw" /\ last_block.left = 0
               /\ phase' = "new"
               /\ enc' = [out |-> IF last_block.odd THEN enc.out + 1 ELSE enc.out, bitcount |-> 32]
               /\ UNCHANGED <<dec, last_block, frame_items, peak, slack>>

\* encode_flush when a frame is full, which is before the block is known to be over, or
\* by lzx_flush_compression at the end; then lzx_decompress_block for the next frame.
encode_flush ==
  LET full == IF enc.bitcount < 32 THEN AlignEnc(enc) ELSE enc IN
  /\ frame_items > 0 /\ last_block.any
  /\ slack' = full.out - peak
  /\ enc' = NoBits
  /\ dec' = init_bitbuf([cur |-> 0, bitcount |-> 0], last_block.raw)
  /\ frame_items' = 0 /\ peak' = 0
  /\ phase' = IF phase = "new" THEN "end" ELSE phase
  /\ UNCHANGED last_block

BitsNext == \/ \E n \in 1 .. 17 : Item(n)
            \/ CodedBlock
            \/ \E n \in 1 .. MaxRaw : RawBlock(n)
            \/ RawItem
            \/ EndBlock
            \/ encode_flush

BitsSpec == BitsInit /\ [][BitsNext]_bitsVars
-----------------------------------------------------------------------------
\* Both sides are at the same bit, whatever was written, over the ends of words and
\* frames; in an uncompressed block at the same byte, and where one is over the decoder
\* has only the pad of an odd block still in front of it.  No item of a frame is taken for
\* the end of its input: the decoder, which reads ahead, stays below the frame's size + 4
\* (end_input_pos) as long as there is an item to read.
SamePlace ==
  /\ IF last_block.raw
     THEN enc.out = dec.cur + (IF phase = "new" /\ last_block.odd THEN 1 ELSE 0)
     ELSE 8 * enc.out + 32 - enc.bitcount = 8 * dec.cur - 16 - dec.bitcount
  /\ slack + 4 > 0
=============================================================================
