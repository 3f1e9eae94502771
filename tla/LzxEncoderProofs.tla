---- MODULE LzxEncoderProofs ----
(***************************************************************************)
(* Theorems about LzxBits: the encoder's bit buffer and the decoder's stay *)
(* at the same bit of the stream, over words, frames and blocks; and about *)
(* LzxEncoder, as LzxRoundTrip runs it: the items that are kept back stand *)
(* for the input, what the memory still holds of it is the input, and      *)
(* lzx_decompress reads the input from what is written.                    *)
(*                                                                         *)
(* The functions of LzxEncoder that go over a sequence of items are walked *)
(* from their first value on (Path, Induct); EncInv is the invariant of    *)
(* the encoder alone, TripInv the one of the two together: from the place  *)
(* where the decoder is, what is left of its frame, the frames written,    *)
(* the frame being written and the items kept back lead on to where the    *)
(* encoder is, and every token on that way gives bytes of the input.       *)
(***************************************************************************)
EXTENDS LzxBits, LzxRoundTrip, FiniteSetTheorems, SequenceTheorems, TLAPS

Buffers == [out : Int, bitcount : Int]
Readers == [cur : Int, bitcount : Int]
Blocks == [raw : BOOLEAN, odd : BOOLEAN, left : Int, any : BOOLEAN]

BitsTyped ==
  /\ enc \in Buffers /\ dec \in Readers
  /\ phase \in {"new", "coded", "raw", "end"}
  /\ last_block \in Blocks
  /\ frame_items \in Int /\ peak \in Int /\ slack \in Int

\* What two buffers in step have in common: the decoder is four bytes ahead, the two words
\* it has read, and each side needs a new word when the other one does.
InStep(e, d) == /\ e.bitcount \in 17 .. 32
                /\ e.out = d.cur - 4 /\ e.bitcount = d.bitcount + 16

Coupled == IF last_block.raw
           THEN /\ enc.bitcount = 32
                /\ enc.out = dec.cur + (IF phase = "new" /\ last_block.odd THEN 1 ELSE 0)
           ELSE InStep(enc, dec)
BlockOfPhase == (phase = "coded" => ~last_block.raw) /\ (phase = "raw" => last_block.raw)

\* The bits written so far, of which the last item read was not all that was left.
Written(e) == 8 * e.out + 32 - e.bitcount
NotBeyond == 8 * (peak - 4) < Written(enc)

BitsInv == BitsTyped /\ Coupled /\ BlockOfPhase /\ NotBeyond /\ slack + 4 > 0

-----------------------------------------------------------------------------
\* Writing and reading n bits, by output_bits and by the macros, keeps the two in step.
LEMMA ItemInStep ==
  ASSUME NEW e \in Buffers, NEW d \in Readers, NEW n \in 1 .. 17, InStep(e, d)
  PROVE  /\ OUTPUT_BITS(e, n) \in Buffers /\ Consume(d, n) \in Readers
         /\ InStep(OUTPUT_BITS(e, n), Consume(d, n))
         /\ Written(OUTPUT_BITS(e, n)) = Written(e) + n
<1>1. e.bitcount \in 17 .. 32 /\ d.bitcount \in 1 .. 16 /\ e.out \in Int /\ d.cur \in Int
      /\ e.bitcount = d.bitcount + 16 /\ e.out = d.cur - 4
  BY DEF InStep, Buffers, Readers
<1> DEFINE f == [e EXCEPT !.bitcount = @ - n]
           g == [d EXCEPT !.bitcount = @ - n]
<1>2. /\ f \in Buffers /\ f.out = e.out /\ f.bitcount = e.bitcount - n
      /\ g \in Readers /\ g.cur = d.cur /\ g.bitcount = d.bitcount - n
  BY <1>1 DEF Buffers, Readers
<1>3. /\ WriteWord(f) \in Buffers
      /\ WriteWord(f).out = IF e.bitcount - n <= 16 THEN e.out + 2 ELSE e.out
      /\ WriteWord(f).bitcount = IF e.bitcount - n <= 16 THEN e.bitcount - n + 16
                                 ELSE e.bitcount - n
  BY <1>1, <1>2 DEF WriteWord, Buffers
<1>4. /\ Refill(g) \in Readers
      /\ Refill(g).cur = IF d.bitcount - n <= 0 THEN d.cur + 2 ELSE d.cur
      /\ Refill(g).bitcount = IF d.bitcount - n <= 0 THEN d.bitcount - n + 16 ELSE d.bitcount - n
  BY <1>1, <1>2 DEF Refill, Readers
<1> HIDE DEF f, g
<1>5. CASE n = 17
  <2>1. Consume(d, n) = Refill(Refill(g)) /\ OUTPUT_BITS(e, n) = WriteWord(WriteWord(f))
    BY <1>5 DEF Consume, fill_bitbuf, OUTPUT_BITS, f, g
  <2>2. /\ WriteWord(WriteWord(f)) \in Buffers
        /\ WriteWord(WriteWord(f)).out = IF e.bitcount = 17 THEN e.out + 4 ELSE e.out + 2
        /\ WriteWord(WriteWord(f)).bitcount = IF e.bitcount = 17 THEN 32 ELSE e.bitcount - 1
    BY <1>1, <1>3, <1>5 DEF WriteWord, Buffers
  <2>3. /\ Refill(Refill(g)) \in Readers
        /\ Refill(Refill(g)).cur = IF d.bitcount = 1 THEN d.cur + 4 ELSE d.cur + 2
        /\ Refill(Refill(g)).bitcount = IF d.bitcount = 1 THEN 16 ELSE d.bitcount - 1
    BY <1>1, <1>4, <1>5 DEF Refill, Readers
  <2> QED BY <1>1, <1>5, <2>1, <2>2, <2>3 DEF InStep, Written
<1>6. CASE n # 17
  <2>1. Consume(d, n) = Refill(g) /\ OUTPUT_BITS(e, n) = WriteWord(WriteWord(f))
    BY <1>6 DEF Consume, FILL_BUF, OUTPUT_BITS, f, g
  <2>2. WriteWord(WriteWord(f)) = WriteWord(f)
    BY <1>1, <1>3, <1>6 DEF WriteWord, Buffers
  <2> QED BY <1>1, <1>3, <1>4, <1>6, <2>1, <2>2, SMTT(30) DEF InStep, Written
<1> QED BY <1>5, <1>6

\* A second refill finds the buffer full, but after 17 bits.
LEMMA OneRefill ==
  ASSUME NEW d \in Readers, NEW n \in 1 .. 16, d.bitcount \in 1 .. 16
  PROVE  fill_bitbuf(d, n) = Consume(d, n)
<1> DEFINE g == [d EXCEPT !.bitcount = @ - n]
<1>1. g \in Readers /\ g.bitcount = d.bitcount - n
  BY DEF Readers
<1>2. Refill(g).bitcount \in 1 .. 16
  <2>1. CASE g.bitcount <= 0
    BY <1>1, <2>1 DEF Refill, Readers
  <2>2. CASE ~(g.bitcount <= 0)
    BY <1>1, <2>2 DEF Refill, Readers
  <2> QED BY <2>1, <2>2
<1>3. Refill(Refill(g)) = Refill(g)
  BY <1>2 DEF Refill
<1> QED BY <1>3 DEF fill_bitbuf, Consume, FILL_BUF

\* A block's header is read as it was written.
LEMMA HeaderInStep ==
  ASSUME NEW e \in Buffers, NEW d \in Readers, InStep(e, d)
  PROVE  /\ Header(e) \in Buffers /\ HeaderRead(d) \in Readers
         /\ InStep(Header(e), HeaderRead(d))
         /\ Written(Header(e)) = Written(e) + 27
<1>1. ASSUME NEW f \in Buffers, NEW g \in Readers, NEW n \in {3, 8}, InStep(f, g)
      PROVE  /\ OUTPUT_BITS(f, n) \in Buffers /\ fill_bitbuf(g, n) \in Readers
             /\ InStep(OUTPUT_BITS(f, n), fill_bitbuf(g, n))
             /\ Written(OUTPUT_BITS(f, n)) = Written(f) + n
  <2>1. n \in 1 .. 16 /\ n \in 1 .. 17
    OBVIOUS
  <2>2. g.bitcount \in 1 .. 16
    BY <1>1 DEF InStep, Buffers, Readers
  <2>3. fill_bitbuf(g, n) = Consume(g, n)
    BY <2>1, <2>2, OneRefill
  <2> QED BY <1>1, <2>1, <2>3, ItemInStep
<1> DEFINE e1 == OUTPUT_BITS(e, 3)   d1 == fill_bitbuf(d, 3)
           e2 == OUTPUT_BITS(e1, 8)  d2 == fill_bitbuf(d1, 8)
           e3 == OUTPUT_BITS(e2, 8)  d3 == fill_bitbuf(d2, 8)
           e4 == OUTPUT_BITS(e3, 8)  d4 == fill_bitbuf(d3, 8)
<1>2. e1 \in Buffers /\ d1 \in Readers /\ InStep(e1, d1) /\ Written(e1) = Written(e) + 3
  BY <1>1
<1> HIDE DEF e1, d1
<1>3. e2 \in Buffers /\ d2 \in Readers /\ InStep(e2, d2) /\ Written(e2) = Written(e1) + 8
  BY <1>1, <1>2
<1> HIDE DEF e2, d2
<1>4. e3 \in Buffers /\ d3 \in Readers /\ InStep(e3, d3) /\ Written(e3) = Written(e2) + 8
  BY <1>1, <1>3
<1> HIDE DEF e3, d3
<1>5. e4 \in Buffers /\ d4 \in Readers /\ InStep(e4, d4) /\ Written(e4) = Written(e3) + 8
  BY <1>1, <1>4
<1> HIDE DEF e4, d4
<1>6. Header(e) = e4 /\ HeaderRead(d) = d4
  BY DEF Header, HeaderRead, e1, e2, e3, e4, d1, d2, d3, d4
<1>7. Written(e) \in Int
  BY DEF Written, Buffers
<1> QED BY <1>2, <1>3, <1>4, <1>5, <1>6, <1>7

\* Aligning writes what is left of a word, or a whole word where nothing is left.
LEMMA AlignEncEmpties ==
  ASSUME NEW e \in Buffers, e.bitcount \in 17 .. 32
  PROVE  AlignEnc(e) = [out |-> e.out + 2, bitcount |-> 32]
<1> DEFINE f == [e EXCEPT !.bitcount = @ - (e.bitcount - 16)]
<1>1. f = [out |-> e.out, bitcount |-> 16]
  BY DEF Buffers
<1>2. WriteWord(f) = [out |-> e.out + 2, bitcount |-> 32]
  BY <1>1 DEF WriteWord, Buffers
<1>3. WriteWord(WriteWord(f)) = WriteWord(f)
  BY <1>2 DEF WriteWord
<1> QED BY <1>2, <1>3 DEF AlignEnc, OUTPUT_BITS

\* Between blocks the decoder resumes in step with the encoder: after an uncompressed
\* block once it has skipped the pad.
LEMMA ResumedInStep ==
  ASSUME BitsInv, phase = "new"
  PROVE  Resumed(dec) \in Readers /\ InStep(enc, Resumed(dec))
<1> USE DEF BitsInv, BitsTyped, Coupled
<1>1. CASE last_block.raw
  <2>1. Resumed(dec) = [cur |-> enc.out + 4, bitcount |-> 16]
    BY <1>1 DEF Resumed, init_bitbuf, Readers, Buffers
  <2> QED BY <1>1, <2>1 DEF InStep, Readers, Buffers
<1>2. CASE ~last_block.raw
  BY <1>2 DEF Resumed
<1> QED BY <1>1, <1>2

LEMMA CheckedHolds ==
  ASSUME peak \in Int, NEW d \in Readers, Checked(d)
  PROVE  peak' \in Int /\ peak' = IF peak > d.cur THEN peak ELSE d.cur
BY DEF Checked, Higher, Readers

-----------------------------------------------------------------------------
LEMMA BitsInitially == BitsInit => BitsInv
BY DEF BitsInit, BitsInv, BitsTyped, Coupled, BlockOfPhase, NotBeyond, Written, InStep,
       NoBits, NoBlock, init_bitbuf, Buffers, Readers, Blocks

LEMMA ItemKeeps ==
  ASSUME BitsInv, NEW n \in 1 .. 17, Item(n)
  PROVE  BitsInv'
<1> USE DEF BitsInv, BitsTyped
<1>1. ~last_block.raw /\ InStep(enc, dec)
  BY DEF Item, BlockOfPhase, Coupled
<1>2. /\ enc' \in Buffers /\ dec' \in Readers /\ InStep(enc', dec')
      /\ Written(enc') = Written(enc) + n
  BY <1>1, ItemInStep DEF Item
<1>3. peak' \in Int /\ peak' = IF peak > dec.cur THEN peak ELSE dec.cur
  BY CheckedHolds DEF Item
<1>4. BitsTyped'
  <2>1. last_block' \in Blocks
    BY DEF Item, Blocks
  <2> QED BY <1>2, <1>3, <2>1 DEF Item
<1>5. last_block'.raw = last_block.raw /\ phase' = phase /\ slack' = slack
  BY DEF Item, Blocks
<1>6. Coupled' /\ BlockOfPhase'
  BY <1>1, <1>2, <1>5 DEF Coupled, BlockOfPhase
<1>7. 8 * (dec.cur - 4) <= Written(enc) /\ Written(enc) \in Int
  BY <1>1 DEF InStep, Written, Buffers, Readers
<1>8. NotBeyond'
  BY <1>2, <1>3, <1>7 DEF NotBeyond, Readers
<1> QED BY <1>4, <1>5, <1>6, <1>8

LEMMA CodedBlockKeeps ==
  ASSUME BitsInv, CodedBlock
  PROVE  BitsInv'
<1> USE DEF BitsInv, BitsTyped
<1>1. Resumed(dec) \in Readers /\ InStep(enc, Resumed(dec))
  BY ResumedInStep DEF CodedBlock
<1>2. /\ enc' \in Buffers /\ dec' \in Readers /\ InStep(enc', dec')
      /\ Written(enc') = Written(enc) + 27
  BY <1>1, HeaderInStep DEF CodedBlock
<1>3. peak' \in Int /\ peak' = IF peak > dec.cur THEN peak ELSE dec.cur
  BY CheckedHolds DEF CodedBlock
<1>4. phase' = "coded" /\ last_block' = NoBlock /\ slack' = slack
  BY DEF CodedBlock
<1>5. BitsTyped'
  BY <1>2, <1>3, <1>4 DEF CodedBlock, NoBlock, Blocks
<1>6. Coupled' /\ BlockOfPhase'
  BY <1>2, <1>4 DEF Coupled, BlockOfPhase, NoBlock
<1>7. 8 * (dec.cur - 4) <= Written(enc) /\ Written(enc) \in Int
  <2>1. CASE last_block.raw
    BY <2>1 DEF CodedBlock, Coupled, Written, Buffers, Readers
  <2>2. CASE ~last_block.raw
    BY <2>2 DEF Coupled, InStep, Written, Buffers, Readers
  <2> QED BY <2>1, <2>2
<1>8. NotBeyond'
  BY <1>2, <1>3, <1>7 DEF NotBeyond, Readers
<1> QED BY <1>4, <1>5, <1>6, <1>8

LEMMA RawBlockKeeps ==
  ASSUME BitsInv, NEW n \in 1 .. MaxRaw, RawBlock(n)
  PROVE  BitsInv'
<1> USE DEF BitsInv, BitsTyped
<1> DEFINE h == Header(enc)
           d == HeaderRead(Resumed(dec))
<1>1. Resumed(dec) \in Readers /\ InStep(enc, Resumed(dec))
  BY ResumedInStep DEF RawBlock
<1>2. h \in Buffers /\ d \in Readers /\ InStep(h, d) /\ Written(h) = Written(enc) + 27
  BY <1>1, HeaderInStep
<1>3. AlignEnc(h) = [out |-> h.out + 2, bitcount |-> 32]
  BY <1>2, AlignEncEmpties DEF InStep
<1>4. /\ enc' = [AlignEnc(h) EXCEPT !.out = @ + 12]
      /\ dec' = [d EXCEPT !.cur = @ - 2 + 12]
      /\ phase' = "raw" /\ slack' = slack /\ frame_items' = frame_items + 1
      /\ last_block' = [raw |-> TRUE, odd |-> n % 2 = 1, left |-> n, any |-> FALSE]
      /\ Checked([d EXCEPT !.cur = @ - 2 + 4])
  BY DEF RawBlock
<1> HIDE DEF h, d
<1>5. /\ enc' \in Buffers /\ enc'.out = h.out + 14 /\ enc'.bitcount = 32
      /\ dec' \in Readers /\ dec'.cur = d.cur + 10
  BY <1>2, <1>3, <1>4 DEF Buffers, Readers
<1>6. [d EXCEPT !.cur = @ - 2 + 4] \in Readers /\ [d EXCEPT !.cur = @ - 2 + 4].cur = d.cur + 2
  BY <1>2 DEF Readers
<1>7. peak' \in Int /\ peak' = IF peak > d.cur + 2 THEN peak ELSE d.cur + 2
  BY <1>4, <1>6, CheckedHolds
<1>8. BitsTyped'
  BY <1>4, <1>5, <1>7 DEF Blocks
<1>9. Coupled' /\ BlockOfPhase'
  BY <1>2, <1>4, <1>5 DEF Coupled, BlockOfPhase, InStep, Buffers, Readers
<1>10. NotBeyond'
  BY <1>2, <1>5, <1>7 DEF NotBeyond, Written, InStep, Buffers, Readers
<1> QED BY <1>4, <1>8, <1>9, <1>10

LEMMA RawItemKeeps ==
  ASSUME BitsInv, RawItem
  PROVE  BitsInv'
<1> USE DEF BitsInv, BitsTyped
<1>1. last_block.raw /\ enc.bitcount = 32 /\ enc.out = dec.cur /\ phase = "raw"
  BY DEF RawItem, BlockOfPhase, Coupled, Buffers, Readers
<1>2. /\ enc' \in Buffers /\ enc'.out = enc.out + 1 /\ enc'.bitcount = 32
      /\ dec' \in Readers /\ dec'.cur = dec.cur + 1
  BY <1>1 DEF RawItem, Buffers, Readers
<1>3. peak' \in Int /\ peak' = IF peak > dec.cur THEN peak ELSE dec.cur
  BY CheckedHolds DEF RawItem
<1>4. /\ phase' = phase /\ slack' = slack
      /\ last_block'.raw = last_block.raw /\ last_block'.odd = last_block.odd
  BY DEF RawItem, Blocks
<1>5. BitsTyped'
  <2>1. last_block' = [raw |-> last_block.raw, odd |-> last_block.odd,
                       left |-> last_block.left - 1, any |-> TRUE]
    BY DEF RawItem, Blocks
  <2>2. last_block' \in Blocks
    BY <2>1 DEF Blocks
  <2> QED BY <1>2, <1>3, <2>2 DEF RawItem
<1>6. Coupled' /\ BlockOfPhase'
  BY <1>1, <1>2, <1>4 DEF Coupled, BlockOfPhase, Buffers, Readers
<1>7. NotBeyond'
  BY <1>1, <1>2, <1>3 DEF NotBeyond, Written, Buffers, Readers
<1> QED BY <1>4, <1>5, <1>6, <1>7

LEMMA EndBlockKeeps ==
  ASSUME BitsInv, EndBlock
  PROVE  BitsInv'
<1> USE DEF BitsInv, BitsTyped
<1>1. CASE phase = "coded"
  BY <1>1 DEF EndBlock, Coupled, BlockOfPhase, NotBeyond
<1>2. CASE phase = "raw"
  <2>1. last_block.raw /\ enc.bitcount = 32 /\ enc.out = dec.cur
    BY <1>2 DEF BlockOfPhase, Coupled, Buffers, Readers
  <2>2. /\ phase' = "new" /\ dec' = dec /\ last_block' = last_block
        /\ peak' = peak /\ slack' = slack
        /\ enc' = [out |-> IF last_block.odd THEN enc.out + 1 ELSE enc.out, bitcount |-> 32]
    BY <1>2 DEF EndBlock
  <2>3. enc' \in Buffers /\ enc'.bitcount = 32
        /\ enc'.out = dec.cur + (IF last_block.odd THEN 1 ELSE 0)
    BY <2>1, <2>2 DEF Buffers, Readers
  <2>4. BitsTyped'
    BY <1>2, <2>2, <2>3 DEF EndBlock
  <2>5. Coupled' /\ BlockOfPhase'
    BY <2>1, <2>2, <2>3 DEF Coupled, BlockOfPhase
  <2>6. NotBeyond'
    BY <2>1, <2>2, <2>3 DEF NotBeyond, Written, Buffers, Readers
  <2> QED BY <2>2, <2>4, <2>5, <2>6
<1> QED BY <1>1, <1>2 DEF EndBlock

LEMMA FlushKeeps ==
  ASSUME BitsInv, encode_flush
  PROVE  BitsInv'
<1> USE DEF BitsInv, BitsTyped
<1> DEFINE full == IF enc.bitcount < 32 THEN AlignEnc(enc) ELSE enc
<1>1. enc.bitcount \in 17 .. 32 /\ enc.out \in Int
  BY DEF Coupled, InStep, Buffers
<1>2. full.out = IF enc.bitcount < 32 THEN enc.out + 2 ELSE enc.out
  BY <1>1, AlignEncEmpties
<1>3. /\ slack' = full.out - peak /\ enc' = NoBits /\ frame_items' = 0 /\ peak' = 0
      /\ dec' = init_bitbuf([cur |-> 0, bitcount |-> 0], last_block.raw)
      /\ phase' = (IF phase = "new" THEN "end" ELSE phase) /\ last_block' = last_block
  BY DEF encode_flush
<1> HIDE DEF full
<1>4. slack' \in Int /\ slack' + 4 > 0
  BY <1>1, <1>2, <1>3 DEF NotBeyond, Written
<1>5. /\ dec' \in Readers /\ enc' \in Buffers /\ enc'.out = 0 /\ enc'.bitcount = 32
      /\ dec'.cur = IF last_block.raw THEN 0 ELSE 4
      /\ ~last_block.raw => dec'.bitcount = 16
  BY <1>3 DEF init_bitbuf, NoBits, Readers, Buffers
<1>6. BitsTyped'
  BY <1>3, <1>4, <1>5
<1>7. Coupled' /\ BlockOfPhase'
  BY <1>3, <1>5 DEF Coupled, BlockOfPhase, InStep
<1>8. NotBeyond'
  BY <1>3, <1>5 DEF NotBeyond, Written
<1> QED BY <1>4, <1>6, <1>7, <1>8

-----------------------------------------------------------------------------
\* The inductive invariant of the two bit buffers: what BitsInv says of them, of the kind
\* of block they are in, and of how far the decoder has read ahead.
THEOREM BitsInvariant == BitsSpec => []BitsInv
<1>1. ASSUME BitsInv, [BitsNext]_bitsVars
      PROVE  BitsInv'
  <2>1. CASE BitsNext
    BY <1>1, <2>1, ItemKeeps, CodedBlockKeeps, RawBlockKeeps, RawItemKeeps, EndBlockKeeps,
       FlushKeeps DEF BitsNext
  <2>2. CASE UNCHANGED bitsVars
    BY <1>1, <2>2 DEF bitsVars, BitsInv, BitsTyped, Coupled, BlockOfPhase, NotBeyond
  <2> QED BY <1>1, <2>1, <2>2
<1> QED BY <1>1, BitsInitially, PTL DEF BitsSpec

\* Encoder and decoder are at the same bit, or byte, of the stream at every step, over the
\* ends of words, frames and uncompressed blocks (output_bits, encode_flush and
\* encode_uncompressed_block against fill_bitbuf, init_bitbuf and decode_data), and the
\* decoder does not take its last item for the end of its input.
THEOREM BitsSamePlace == BitsSpec => []SamePlace
<1>1. BitsInv => SamePlace
  BY DEF BitsInv, BitsTyped, Coupled, InStep, SamePlace, Buffers, Readers
<1> QED BY <1>1, BitsInvariant, PTL

-----------------------------------------------------------------------------
\* Induction over a set of numbers, from the cardinality of its first numbers.
LEMMA Induct ==
  ASSUME NEW S, 0 \in S, \A n \in Nat : n \in S => n + 1 \in S
  PROVE  Nat \subseteq S
<1> SUFFICES ASSUME NEW k \in Nat, k \notin S PROVE FALSE
  OBVIOUS
<1> DEFINE D == {i \in 0 .. k : \A j \in 0 .. i : j \in S}
           c == Cardinality(D)
<1>1. IsFiniteSet(D) /\ c \in Nat
  <2>1. IsFiniteSet(0 .. k)
    BY FS_Interval
  <2>2. D \subseteq 0 .. k
    OBVIOUS
  <2>3. IsFiniteSet(D)
    BY <2>1, <2>2, FS_Subset
  <2> QED BY <2>3, FS_CardinalityType
<1>2. \A i \in D : i < c
  <2> SUFFICES ASSUME NEW i \in D PROVE i < c
    OBVIOUS
  <2>1. i \in Nat /\ 0 .. i \subseteq D
    OBVIOUS
  <2>2. IsFiniteSet(0 .. i) /\ Cardinality(0 .. i) = i + 1
    BY <2>1, FS_Interval
  <2>3. Cardinality(0 .. i) <= c
    BY <1>1, <2>1, FS_Subset
  <2> QED BY <1>1, <2>1, <2>2, <2>3
<1> HIDE DEF c
<1>3. D \subseteq 0 .. c - 1
  BY <1>1, <1>2
<1>4. 0 \in D
  OBVIOUS
<1>5. \A i \in 0 .. k : (\A j \in 0 .. i : j \in S) => i \in D
  OBVIOUS
<1>6. \A i \in D : i \in 0 .. k /\ \A j \in 0 .. i : j \in S
  OBVIOUS
<1>7. c = Cardinality(D)
  BY DEF c
<1> HIDE DEF D
<1>8. c >= 1 /\ c - 1 \in Nat
  BY <1>1, <1>2, <1>4
<1>9. D = 0 .. c - 1
  <2>1. IsFiniteSet(0 .. c - 1) /\ Cardinality(0 .. c - 1) = c
    <3>1. 0 .. c - 1 # {} /\ 0 \in Int /\ c - 1 \in Int /\ 0 <= c - 1
      BY <1>8
    <3>2. IsFiniteSet(0 .. c - 1) /\ Cardinality(0 .. c - 1) = (c - 1) - 0 + 1
      BY <3>1, FS_Interval
    <3> QED BY <1>1, <3>2
  <2> DEFINE I == 0 .. c - 1
  <2>2. IsFiniteSet(I) /\ D \in SUBSET I /\ Cardinality(I) = Cardinality(D)
    BY <1>3, <1>7, <2>1
  <2> HIDE DEF I
  <2>3. I = D
    BY <2>2, FS_Subset
  <2> QED BY <2>3 DEF I
<1>10. c - 1 \in D
  BY <1>8, <1>9
<1>11. c - 1 \in 0 .. k /\ \A j \in 0 .. c - 1 : j \in S
  BY <1>6, <1>10
<1>12. c - 1 \in S
  BY <1>8, <1>11
<1>13. c \in S
  <2>1. (c - 1) + 1 \in S
    BY <1>8, <1>12
  <2> QED BY <1>1, <2>1
<1>14. \A j \in 0 .. c : j \in S
  BY <1>1, <1>11, <1>13
<1>15. c \notin D
  BY <1>1, <1>9
<1>16. ~(c \in 0 .. k)
  BY <1>5, <1>14, <1>15
<1>17. k \in 0 .. c - 1
  BY <1>1, <1>16
<1> QED BY <1>11, <1>17

\* Values, each made from the one before it.
Path(f, n, T, x, step) == /\ f \in [0 .. n -> T] /\ f[0] = x
                          /\ \A i \in 1 .. n : f[i] = step[<<i, f[i - 1]>>]
Along(g, n, T, x, step) == /\ g[0] = x
                           /\ \A i \in 1 .. n : g[i - 1] \in T => g[i] = step[<<i, g[i - 1]>>]
\* There are such values,
LEMMA PathExists ==
  ASSUME NEW n \in Nat, NEW T, NEW x \in T, NEW step \in [(1 .. n) \X T -> T]
  PROVE  \E f : Path(f, n, T, x, step)
<1> DEFINE S == {k \in 0 .. n : \E f \in [0 .. k -> T] :
                     f[0] = x /\ \A i \in 1 .. k : f[i] = step[<<i, f[i - 1]>>]}
           R == S \cup {k \in Nat : k > n}
<1>1. 0 \in S
  <2> DEFINE f == [i \in 0 .. 0 |-> x]
  <2>1. f \in [0 .. 0 -> T] /\ f[0] = x /\ \A i \in 1 .. 0 : f[i] = step[<<i, f[i - 1]>>]
    OBVIOUS
  <2>2. 0 \in 0 .. n
    OBVIOUS
  <2> QED BY <2>1, <2>2
<1>10. \A k \in 0 .. n : k \in S <=>
         \E f \in [0 .. k -> T] : f[0] = x /\ \A i \in 1 .. k : f[i] = step[<<i, f[i - 1]>>]
  OBVIOUS
<1>11. \A k : k \in R <=> k \in S \/ (k \in Nat /\ k > n)
  OBVIOUS
<1>12. S \subseteq 0 .. n
  OBVIOUS
<1> HIDE DEF S, R
<1>2. ASSUME NEW k \in Nat, k \in S, k + 1 <= n PROVE k + 1 \in S
  <2>12. k \in 0 .. n /\ k + 1 \in 0 .. n /\ k + 1 \in 1 .. n /\ k \in 0 .. k
    BY <1>2
  <2>1. PICK f \in [0 .. k -> T] : f[0] = x /\ \A i \in 1 .. k : f[i] = step[<<i, f[i - 1]>>]
    BY <1>2, <1>10, <2>12
  <2> DEFINE y == step[<<k + 1, f[k]>>]
             g == [i \in 0 .. k + 1 |-> IF i <= k THEN f[i] ELSE y]
  <2>3. f[k] \in T
    BY <2>1, <2>12
  <2>4. y \in T
    BY <2>3, <2>12
  <2>5. \A i \in 0 .. k : f[i] \in T
    BY <2>1
  <2>6. y = step[<<k + 1, f[k]>>]
    OBVIOUS
  <2> HIDE DEF y
  <2>7. \A i \in 0 .. k + 1 : g[i] = IF i <= k THEN f[i] ELSE y
    OBVIOUS
  <2>8. g \in [0 .. k + 1 -> T]
    <3>1. ASSUME NEW i \in 0 .. k + 1 PROVE (IF i <= k THEN f[i] ELSE y) \in T
      <4>1. i <= k => i \in 0 .. k
        OBVIOUS
      <4> QED BY <2>4, <2>5, <4>1
    <3> QED BY <3>1
  <2> HIDE DEF g
  <2>9. g[0] = x
    <3>1. 0 \in 0 .. k + 1 /\ 0 <= k
      OBVIOUS
    <3> QED BY <2>1, <2>7, <3>1
  <2>10. ASSUME NEW i \in 1 .. k + 1 PROVE g[i] = step[<<i, g[i - 1]>>]
    <3>1. i - 1 \in 0 .. k /\ i \in 0 .. k + 1 /\ i - 1 \in 0 .. k + 1 /\ i - 1 <= k
      OBVIOUS
    <3>2. g[i - 1] = f[i - 1]
      BY <2>7, <3>1
    <3>3. CASE i <= k
      <4>1. g[i] = f[i] /\ i \in 1 .. k
        BY <2>7, <3>1, <3>3
      <4> QED BY <2>1, <3>2, <4>1
    <3>4. CASE i = k + 1
      <4>1. i - 1 = k /\ ~(i <= k)
        BY <3>4
      <4>2. g[i] = y
        BY <2>7, <3>1, <4>1
      <4>3. step[<<i, g[i - 1]>>] = step[<<k + 1, f[k]>>]
        BY <3>2, <3>4, <4>1
      <4> QED BY <2>6, <4>2, <4>3
    <3>5. i <= k \/ i = k + 1
      OBVIOUS
    <3> QED BY <3>3, <3>4, <3>5
  <2> QED BY <1>10, <2>8, <2>9, <2>10, <2>12
<1>3. ASSUME NEW k \in Nat, k \in R PROVE k + 1 \in R
  <2>1. CASE k + 1 > n
    BY <1>11, <2>1
  <2>2. CASE k + 1 <= n
    <3>1. k \in S
      BY <1>3, <1>11, <2>2
    <3> QED BY <1>2, <1>11, <2>2, <3>1
  <2> QED BY <2>1, <2>2
<1>4. 0 \in R
  BY <1>1, <1>11
<1>5. n \in R => n \in S
  BY <1>11
<1>6. n \in S
  BY <1>3, <1>4, <1>5, Induct
<1>7. n \in 0 .. n
  OBVIOUS
<1>8. PICK f \in [0 .. n -> T] : f[0] = x /\ \A i \in 1 .. n : f[i] = step[<<i, f[i - 1]>>]
  BY <1>6, <1>10, <1>7
<1> QED BY <1>8 DEF Path

\* and no others.
LEMMA PathUnique ==
  ASSUME NEW n \in Nat, NEW T, NEW x, NEW step, NEW f, Path(f, n, T, x, step),
         NEW g, Along(g, n, T, x, step)
  PROVE  \A i \in 0 .. n : g[i] = f[i]
<1> DEFINE S == {k \in Nat : k <= n => g[k] = f[k]}
<1>1. /\ f \in [0 .. n -> T] /\ f[0] = x
      /\ \A i \in 1 .. n : f[i] = step[<<i, f[i - 1]>>]
      /\ g[0] = x /\ \A i \in 1 .. n : g[i - 1] \in T => g[i] = step[<<i, g[i - 1]>>]
  BY DEF Path, Along
<1>2. 0 \in S
  BY <1>1
<1>3. ASSUME NEW k \in Nat, k \in S PROVE k + 1 \in S
  <2> SUFFICES ASSUME k + 1 <= n PROVE g[k + 1] = f[k + 1]
    OBVIOUS
  <2>1. k \in 0 .. n /\ k + 1 \in 1 .. n /\ (k + 1) - 1 = k
    OBVIOUS
  <2>2. g[k] = f[k] /\ f[k] \in T
    BY <1>1, <1>3, <2>1
  <2>3. g[k + 1] = step[<<k + 1, g[k]>>] /\ f[k + 1] = step[<<k + 1, f[k]>>]
    BY <1>1, <2>1, <2>2
  <2> QED BY <2>2, <2>3
<1> HIDE DEF S
<1>4. Nat \subseteq S
  BY <1>2, <1>3, Induct
<1> QED BY <1>4 DEF S

-----------------------------------------------------------------------------
\* The items, and the distances of their matches.
Items == [n : Nat \ {0}, byte : Nat]
Triples == (Nat \ {0}) \X (Nat \ {0}) \X (Nat \ {0})

\* The bytes of items, one after another.
Sized(is) == Len(is) \in Nat /\ \A i \in 1 .. Len(is) : is[i].n \in Nat

LEMMA BytesStepsOf ==
  ASSUME NEW is, Sized(is)
  PROVE  /\ BytesUpTo(is) \in [0 .. Len(is) -> Nat] /\ BytesUpTo(is)[0] = 0
         /\ \A i \in 1 .. Len(is) : BytesUpTo(is)[i] = BytesUpTo(is)[i - 1] + is[i].n
<1> DEFINE n == Len(is)
           step == [a \in (1 .. n) \X Nat |-> a[2] + is[a[1]].n]
<1>1. n \in Nat
  BY DEF Sized
<1>2. \A i \in 1 .. n : is[i].n \in Nat
  BY DEF Sized
<1> HIDE DEF n
<1>3. step \in [(1 .. n) \X Nat -> Nat]
  BY <1>2
<1>4. \A i \in 1 .. n, b \in Nat : step[<<i, b>>] = b + is[i].n
  OBVIOUS
<1> HIDE DEF step
<1>5. PICK f : Path(f, n, Nat, 0, step)
  BY <1>1, <1>3, PathExists
<1>6. f \in [0 .. n -> Nat] /\ f[0] = 0 /\ \A i \in 1 .. n : f[i] = step[<<i, f[i - 1]>>]
  BY <1>5 DEF Path
<1>7. f = [i \in 0 .. n |-> IF i = 0 THEN 0 ELSE f[i - 1] + is[i].n]
  <2>1. ASSUME NEW i \in 0 .. n PROVE f[i] = IF i = 0 THEN 0 ELSE f[i - 1] + is[i].n
    <3>2. i # 0 => i \in 1 .. n /\ i - 1 \in 0 .. n
      BY <1>1
    <3>3. i # 0 => f[i - 1] \in Nat
      BY <1>6, <3>2
    <3> QED BY <1>4, <1>6, <3>2, <3>3
  <2> QED BY <1>6, <2>1
<1> DEFINE g == BytesUpTo(is)
<1>8. g = CHOOSE h : h = [i \in 0 .. n |-> IF i = 0 THEN 0 ELSE h[i - 1] + is[i].n]
  BY DEF BytesUpTo, n
<1> HIDE DEF g
<1>9. g = [i \in 0 .. n |-> IF i = 0 THEN 0 ELSE g[i - 1] + is[i].n]
  BY <1>7, <1>8, Zenon
<1>10. DOMAIN g = 0 .. n /\ g = [i \in 0 .. n |-> g[i]]
  BY <1>9
<1>11. \A i \in 0 .. n : g[i] = IF i = 0 THEN 0 ELSE g[i - 1] + is[i].n
  BY <1>9, Zenon
<1>12. g[0] = 0 /\ \A i \in 1 .. n : g[i] = g[i - 1] + is[i].n
  BY <1>1, <1>11
<1>13. Along(g, n, Nat, 0, step)
  BY <1>4, <1>12 DEF Along
<1>14. \A i \in 0 .. n : g[i] = f[i]
  BY <1>1, <1>5, <1>13, PathUnique
<1>15. \A i \in 0 .. n : g[i] \in Nat
  BY <1>6, <1>14
<1>16. g \in [0 .. n -> Nat]
  BY <1>10, <1>15
<1> QED BY <1>12, <1>16 DEF g, n

\* They are numbers, as many as there are items.
LEMMA BytesSteps ==
  ASSUME NEW is \in Seq(Items)
  PROVE  /\ BytesUpTo(is) \in [0 .. Len(is) -> Nat] /\ BytesUpTo(is)[0] = 0
         /\ \A i \in 1 .. Len(is) : BytesUpTo(is)[i] = BytesUpTo(is)[i - 1] + is[i].n
<1>1. \A x \in Items : x.n \in Nat
  BY DEF Items
<1>2. Sized(is)
  BY <1>1 DEF Sized
<1> QED BY <1>2, BytesStepsOf

\* The repeated offsets stay three distances.
LEMMA AfterTyped ==
  ASSUME NEW offs \in Triples, NEW c \in Nat
  PROVE  OffsetsAfter(offs, c) \in Triples
<1>1. PICK x \in Nat \ {0}, y \in Nat \ {0}, z \in Nat \ {0} : offs = <<x, y, z>>
  BY DEF Triples
<1>2. offs[1] = x /\ offs[2] = y /\ offs[3] = z
  BY <1>1
<1>3. \A u, v, w \in Nat \ {0} : <<u, v, w>> \in Triples
  BY DEF Triples
<1>4. c = 0 \/ c = 1 \/ c = 2 \/ (c # 0 /\ c # 1 /\ c # 2 /\ c - 2 \in Nat \ {0})
  OBVIOUS
<1> QED BY <1>1, <1>2, <1>3, <1>4 DEF OffsetsAfter

\* What was taken of the distances leaves three distances.
LEMMA OffsetsSteps ==
  ASSUME NEW offs \in Triples, NEW cs \in Seq(Nat)
  PROVE  /\ OffsetsUpTo(offs, cs) \in [0 .. Len(cs) -> Triples] /\ OffsetsUpTo(offs, cs)[0] = offs
         /\ \A i \in 1 .. Len(cs) :
              OffsetsUpTo(offs, cs)[i] = OffsetsAfter(OffsetsUpTo(offs, cs)[i - 1], cs[i])
<1> DEFINE n == Len(cs)
           step == [a \in (1 .. n) \X Triples |-> OffsetsAfter(a[2], cs[a[1]])]
<1>1. n \in Nat /\ \A i \in 1 .. n : cs[i] \in Nat
  OBVIOUS
<1> HIDE DEF n
<1>2. \A i \in 1 .. n, o \in Triples : OffsetsAfter(o, cs[i]) \in Triples
  BY <1>1, AfterTyped
<1>3. step \in [(1 .. n) \X Triples -> Triples]
  BY <1>2
<1>4. \A i \in 1 .. n, o \in Triples : step[<<i, o>>] = OffsetsAfter(o, cs[i])
  OBVIOUS
<1> HIDE DEF step
<1>5. PICK f : Path(f, n, Triples, offs, step)
  BY <1>1, <1>3, PathExists
<1>6. f \in [0 .. n -> Triples] /\ f[0] = offs /\ \A i \in 1 .. n : f[i] = step[<<i, f[i - 1]>>]
  BY <1>5 DEF Path
<1>7. f = [i \in 0 .. n |-> IF i = 0 THEN offs ELSE OffsetsAfter(f[i - 1], cs[i])]
  <2>1. ASSUME NEW i \in 0 .. n PROVE f[i] = IF i = 0 THEN offs ELSE OffsetsAfter(f[i - 1], cs[i])
    <3>2. i # 0 => i \in 1 .. n /\ i - 1 \in 0 .. n
      BY <1>1
    <3>3. i # 0 => f[i - 1] \in Triples
      BY <1>6, <3>2
    <3> QED BY <1>4, <1>6, <3>2, <3>3
  <2> QED BY <1>6, <2>1
<1> DEFINE g == OffsetsUpTo(offs, cs)
<1>8. g = CHOOSE h : h = [i \in 0 .. n |-> IF i = 0 THEN offs ELSE OffsetsAfter(h[i - 1], cs[i])]
  BY DEF OffsetsUpTo, n
<1> HIDE DEF g
<1>9. g = [i \in 0 .. n |-> IF i = 0 THEN offs ELSE OffsetsAfter(g[i - 1], cs[i])]
  BY <1>7, <1>8, Zenon
<1>10. DOMAIN g = 0 .. n /\ g = [i \in 0 .. n |-> g[i]]
  BY <1>9
<1>11. \A i \in 0 .. n : g[i] = IF i = 0 THEN offs ELSE OffsetsAfter(g[i - 1], cs[i])
  BY <1>9, Zenon
<1>12. g[0] = offs /\ \A i \in 1 .. n : g[i] = OffsetsAfter(g[i - 1], cs[i])
  BY <1>1, <1>11
<1>13. Along(g, n, Triples, offs, step)
  BY <1>4, <1>12 DEF Along
<1>14. \A i \in 0 .. n : g[i] = f[i]
  BY <1>1, <1>5, <1>13, PathUnique
<1>15. \A i \in 0 .. n : g[i] \in Triples
  BY <1>6, <1>14
<1>16. g \in [0 .. n -> Triples]
  BY <1>10, <1>15
<1> QED BY <1>12, <1>16 DEF g, n

\* The items of a look-ahead, and the distances of its matches.
PlanItems == [n : Nat \ {0}, c : Nat]

\* The distances of the first items of a look-ahead.
LEMMA CodesSteps ==
  ASSUME NEW is \in Seq(PlanItems)
  PROVE  /\ CodesUpTo(is) \in [0 .. Len(is) -> Seq(Nat)] /\ CodesUpTo(is)[0] = <<>>
         /\ \A i \in 1 .. Len(is) :
              CodesUpTo(is)[i] = IF IsMatch(is[i]) THEN Append(CodesUpTo(is)[i - 1], is[i].c)
                                 ELSE CodesUpTo(is)[i - 1]
<1> DEFINE n == Len(is)
           step == [a \in (1 .. n) \X Seq(Nat) |->
                      IF IsMatch(is[a[1]]) THEN Append(a[2], is[a[1]].c) ELSE a[2]]
<1>1. n \in Nat /\ \A i \in 1 .. n : is[i] \in PlanItems
  OBVIOUS
<1> HIDE DEF n
<1>2. \A i \in 1 .. n : is[i].c \in Nat
  BY <1>1 DEF PlanItems
<1>3. step \in [(1 .. n) \X Seq(Nat) -> Seq(Nat)]
  BY <1>2
<1>4. \A i \in 1 .. n, o \in Seq(Nat) :
        step[<<i, o>>] = IF IsMatch(is[i]) THEN Append(o, is[i].c) ELSE o
  OBVIOUS
<1> HIDE DEF step
<1>5. PICK f : Path(f, n, Seq(Nat), <<>>, step)
  <2>1. <<>> \in Seq(Nat)
    OBVIOUS
  <2> QED BY <1>1, <1>3, <2>1, PathExists
<1>6. f \in [0 .. n -> Seq(Nat)] /\ f[0] = <<>> /\ \A i \in 1 .. n : f[i] = step[<<i, f[i - 1]>>]
  BY <1>5 DEF Path
<1>7. f = [i \in 0 .. n |-> IF i = 0 THEN <<>>
             ELSE IF IsMatch(is[i]) THEN Append(f[i - 1], is[i].c) ELSE f[i - 1]]
  <2>1. ASSUME NEW i \in 0 .. n
        PROVE  f[i] = IF i = 0 THEN <<>>
                      ELSE IF IsMatch(is[i]) THEN Append(f[i - 1], is[i].c) ELSE f[i - 1]
    <3>2. i # 0 => i \in 1 .. n /\ i - 1 \in 0 .. n
      BY <1>1
    <3>3. i # 0 => f[i - 1] \in Seq(Nat)
      BY <1>6, <3>2
    <3> QED BY <1>4, <1>6, <3>2, <3>3
  <2> QED BY <1>6, <2>1
<1> DEFINE g == CodesUpTo(is)
<1>8. g = CHOOSE h : h = [i \in 0 .. n |-> IF i = 0 THEN <<>>
             ELSE IF IsMatch(is[i]) THEN Append(h[i - 1], is[i].c) ELSE h[i - 1]]
  BY DEF CodesUpTo, n
<1> HIDE DEF g
<1>9. g = [i \in 0 .. n |-> IF i = 0 THEN <<>>
             ELSE IF IsMatch(is[i]) THEN Append(g[i - 1], is[i].c) ELSE g[i - 1]]
  BY <1>7, <1>8, Zenon
<1>10. DOMAIN g = 0 .. n /\ g = [i \in 0 .. n |-> g[i]]
  BY <1>9
<1>11. \A i \in 0 .. n : g[i] = IF i = 0 THEN <<>>
         ELSE IF IsMatch(is[i]) THEN Append(g[i - 1], is[i].c) ELSE g[i - 1]
  BY <1>9, Zenon
<1>12. g[0] = <<>> /\ \A i \in 1 .. n :
         g[i] = IF IsMatch(is[i]) THEN Append(g[i - 1], is[i].c) ELSE g[i - 1]
  BY <1>1, <1>11
<1>13. Along(g, n, Seq(Nat), <<>>, step)
  BY <1>4, <1>12 DEF Along
<1>14. \A i \in 0 .. n : g[i] = f[i]
  BY <1>1, <1>5, <1>13, PathUnique
<1>15. \A i \in 0 .. n : g[i] \in Seq(Nat)
  BY <1>6, <1>14
<1>16. g \in [0 .. n -> Seq(Nat)]
  BY <1>10, <1>15
<1> QED BY <1>12, <1>16 DEF g, n

-----------------------------------------------------------------------------
\* One step of Walk, and what can come out of it whatever ds is.
Reads(s, i, ds) ==
  IF IsMatch(i) THEN [pos |-> s.pos + i.n, offs |-> OffsetsAfter(s.offs, ds[s.dists + 1]),
                      dists |-> s.dists + 1]
  ELSE [s EXCEPT !.pos = @ + 1]
Some(ds) == (Nat \ {0}) \cup {ds[j] - 2 : j \in Nat}
States(ds) == [pos : Int, offs : Some(ds) \X Some(ds) \X Some(ds), dists : Nat]

\* Such a step comes from such a state, whatever the distances are.
LEMMA ReadsTyped ==
  ASSUME NEW ds, NEW s \in States(ds), NEW i \in Items
  PROVE  Reads(s, i, ds) \in States(ds)
<1> DEFINE V == Some(ds)
           c == ds[s.dists + 1]
<1>1. s.pos \in Int /\ s.offs \in V \X V \X V /\ s.dists \in Nat /\ i.n \in Nat
  BY DEF States, Items
<1>2. s.dists + 1 \in Nat
  BY <1>1
<1>3. c - 2 \in V
  BY <1>2 DEF Some
<1> HIDE DEF V, c
<1>4. OffsetsAfter(s.offs, c) \in V \X V \X V
  <2>1. PICK x \in V, y \in V, z \in V : s.offs = <<x, y, z>>
    BY <1>1
  <2>2. s.offs[1] = x /\ s.offs[2] = y /\ s.offs[3] = z
    BY <2>1
  <2>3. \A u, v, w \in V : <<u, v, w>> \in V \X V \X V
    OBVIOUS
  <2> DEFINE o == s.offs
  <2> HIDE DEF o
  <2>4. o = <<x, y, z>> /\ o[1] = x /\ o[2] = y /\ o[3] = z
    BY <2>1, <2>2 DEF o
  <2>5. CASE c = 0
    BY <2>3, <2>4, <2>5 DEF OffsetsAfter, o
  <2>6. CASE c = 1
    BY <2>3, <2>4, <2>6 DEF OffsetsAfter, o
  <2>7. CASE c = 2
    BY <2>3, <2>4, <2>7 DEF OffsetsAfter, o
  <2>8. CASE c # 0 /\ c # 1 /\ c # 2
    BY <1>3, <2>3, <2>4, <2>8 DEF OffsetsAfter, o
  <2> QED BY <2>5, <2>6, <2>7, <2>8
<1>5. [pos |-> s.pos + i.n, offs |-> OffsetsAfter(s.offs, c), dists |-> s.dists + 1] \in States(ds)
  BY <1>1, <1>4 DEF States, V
<1>6. [s EXCEPT !.pos = @ + 1] \in States(ds)
  BY <1>1 DEF States
<1> QED BY <1>5, <1>6 DEF Reads, c

\* Walk takes a step for each item.
LEMMA WalkSteps ==
  ASSUME NEW p \in Int, NEW offs \in Triples, NEW is \in Seq(Items), NEW ds
  PROVE  /\ Walk(p, offs, is, ds) \in [0 .. Len(is) -> States(ds)]
         /\ Walk(p, offs, is, ds)[0] = [pos |-> p, offs |-> offs, dists |-> 0]
         /\ \A i \in 1 .. Len(is) :
              Walk(p, offs, is, ds)[i] = Reads(Walk(p, offs, is, ds)[i - 1], is[i], ds)
<1> DEFINE n == Len(is)
           T == States(ds)
           s0 == [pos |-> p, offs |-> offs, dists |-> 0]
           step == [a \in (1 .. n) \X T |-> Reads(a[2], is[a[1]], ds)]
<1>1. n \in Nat /\ \A i \in 1 .. n : is[i] \in Items
  OBVIOUS
<1>2. s0 \in T
  <2>1. PICK x \in Nat \ {0}, y \in Nat \ {0}, z \in Nat \ {0} : offs = <<x, y, z>>
    BY DEF Triples
  <2>2. x \in Some(ds) /\ y \in Some(ds) /\ z \in Some(ds)
    BY DEF Some
  <2> QED BY <2>1, <2>2 DEF States
<1>3. s0 = [pos |-> p, offs |-> offs, dists |-> 0]
  OBVIOUS
<1> HIDE DEF n, s0
<1>4. \A i \in 1 .. n, s \in T : Reads(s, is[i], ds) \in T
  BY <1>1, ReadsTyped
<1> HIDE DEF T
<1>5. step \in [(1 .. n) \X T -> T]
  BY <1>4
<1>6. \A i \in 1 .. n, s \in T : step[<<i, s>>] = Reads(s, is[i], ds)
  OBVIOUS
<1> HIDE DEF step
<1>7. PICK f : Path(f, n, T, s0, step)
  BY <1>1, <1>2, <1>5, PathExists
<1>8. f \in [0 .. n -> T] /\ f[0] = s0 /\ \A i \in 1 .. n : f[i] = step[<<i, f[i - 1]>>]
  BY <1>7 DEF Path
<1>9. f = [i \in 0 .. n |-> IF i = 0 THEN s0 ELSE Reads(f[i - 1], is[i], ds)]
  <2>1. ASSUME NEW i \in 0 .. n PROVE f[i] = IF i = 0 THEN s0 ELSE Reads(f[i - 1], is[i], ds)
    <3>2. i # 0 => i \in 1 .. n /\ i - 1 \in 0 .. n
      BY <1>1
    <3>3. i # 0 => f[i - 1] \in T
      BY <1>8, <3>2
    <3> QED BY <1>6, <1>8, <3>2, <3>3
  <2> QED BY <1>8, <2>1
<1> DEFINE g == Walk(p, offs, is, ds)
<1>10. g = CHOOSE h : h = [i \in 0 .. n |-> IF i = 0 THEN s0 ELSE Reads(h[i - 1], is[i], ds)]
  BY DEF Walk, Reads, n, s0
<1> HIDE DEF g
<1>11. g = [i \in 0 .. n |-> IF i = 0 THEN s0 ELSE Reads(g[i - 1], is[i], ds)]
  BY <1>9, <1>10, Zenon
<1>12. DOMAIN g = 0 .. n /\ g = [i \in 0 .. n |-> g[i]]
  BY <1>11
<1>13. \A i \in 0 .. n : g[i] = IF i = 0 THEN s0 ELSE Reads(g[i - 1], is[i], ds)
  BY <1>11, Zenon
<1>14. g[0] = s0 /\ \A i \in 1 .. n : g[i] = Reads(g[i - 1], is[i], ds)
  BY <1>1, <1>13
<1>15. Along(g, n, T, s0, step)
  BY <1>6, <1>14 DEF Along
<1>16. \A i \in 0 .. n : g[i] = f[i]
  BY <1>1, <1>7, <1>15, PathUnique
<1>17. \A i \in 0 .. n : g[i] \in T
  BY <1>8, <1>16
<1>18. g \in [0 .. n -> T]
  BY <1>12, <1>17
<1> QED BY <1>3, <1>14, <1>18 DEF g, n, T

\* Whatever takes these steps is the walk.
Steps(g, p, offs, is, ds) == /\ g[0] = [pos |-> p, offs |-> offs, dists |-> 0]
                             /\ \A i \in 1 .. Len(is) : g[i] = Reads(g[i - 1], is[i], ds)
LEMMA WalkUnique ==
  ASSUME NEW p \in Int, NEW offs \in Triples, NEW is \in Seq(Items), NEW ds, NEW g,
         Steps(g, p, offs, is, ds)
  PROVE  \A i \in 0 .. Len(is) : Walk(p, offs, is, ds)[i] = g[i]
<1> DEFINE n == Len(is)
           w == Walk(p, offs, is, ds)
           S == {k \in Nat : k <= n => w[k] = g[k]}
<1>1. w[0] = g[0] /\ n \in Nat
  BY WalkSteps DEF Steps
<1>2. \A i \in 1 .. n : w[i] = Reads(w[i - 1], is[i], ds)
  BY WalkSteps, ZenonT(30)
<1>3. \A i \in 1 .. n : g[i] = Reads(g[i - 1], is[i], ds)
  BY DEF Steps
<1> HIDE DEF n, w
<1>4. 0 \in S
  BY <1>1
<1>5. ASSUME NEW k \in Nat, k \in S PROVE k + 1 \in S
  <2> SUFFICES ASSUME k + 1 <= n PROVE w[k + 1] = g[k + 1]
    OBVIOUS
  <2>1. k + 1 \in 1 .. n /\ (k + 1) - 1 = k /\ k <= n
    BY <1>1
  <2>2. w[k] = g[k]
    BY <1>5, <2>1
  <2> QED BY <1>2, <1>3, <2>1, <2>2
<1> HIDE DEF S
<1>6. Nat \subseteq S
  BY <1>4, <1>5, Induct
<1>7. \A i \in 0 .. n : w[i] = g[i]
  BY <1>6 DEF S
<1> QED BY <1>7 DEF n, w

\* A step moves on, and takes a distance or none.
LEMMA ReadsMoves ==
  ASSUME NEW ds, NEW s \in States(ds), NEW i \in Items
  PROVE  /\ s.pos \in Int /\ s.dists \in Nat
         /\ Reads(s, i, ds).pos = s.pos + i.n
         /\ Reads(s, i, ds).dists = s.dists + (IF IsMatch(i) THEN 1 ELSE 0)
         /\ Reads(s, i, ds).offs = IF IsMatch(i) THEN OffsetsAfter(s.offs, ds[s.dists + 1])
                                   ELSE s.offs
<1>1. s.pos \in Int /\ s.dists \in Nat /\ i.n \in Nat \ {0}
      /\ s = [pos |-> s.pos, offs |-> s.offs, dists |-> s.dists]
  BY DEF States, Items
<1>2. CASE IsMatch(i)
  BY <1>1, <1>2 DEF Reads
<1>3. CASE ~IsMatch(i)
  <2>1. i.n = 1
    BY <1>1, <1>3 DEF IsMatch
  <2>2. Reads(s, i, ds) = [s EXCEPT !.pos = @ + 1]
    BY <1>3 DEF Reads
  <2>3. Reads(s, i, ds) = [pos |-> s.pos + 1, offs |-> s.offs, dists |-> s.dists]
    BY <1>1, <2>2
  <2> QED BY <1>1, <1>3, <2>1, <2>3
<1> QED BY <1>2, <1>3

\* Later in the walk is not behind.
LEMMA WalkForward ==
  ASSUME NEW p \in Int, NEW offs \in Triples, NEW is \in Seq(Items), NEW ds,
         NEW i \in 0 .. Len(is), NEW j \in i .. Len(is)
  PROVE  /\ Walk(p, offs, is, ds)[i].pos <= Walk(p, offs, is, ds)[j].pos
         /\ Walk(p, offs, is, ds)[i].dists <= Walk(p, offs, is, ds)[j].dists
<1> DEFINE n == Len(is)
           w == Walk(p, offs, is, ds)
           S == {k \in Nat : i + k <= n => w[i].pos <= w[i + k].pos /\ w[i].dists <= w[i + k].dists}
<1>1. n \in Nat /\ i \in 0 .. n /\ j \in i .. n /\ \A k \in 1 .. n : is[k] \in Items
  OBVIOUS
<1>2. w \in [0 .. n -> States(ds)] /\ \A k \in 1 .. n : w[k] = Reads(w[k - 1], is[k], ds)
  BY WalkSteps, ZenonT(30)
<1> HIDE DEF n, w
<1>3. \A k \in 0 .. n : w[k] \in States(ds) /\ w[k].pos \in Int /\ w[k].dists \in Nat
  BY <1>2 DEF States
<1>4. 0 \in S
  <2>1. i + 0 = i /\ i \in 0 .. n
    BY <1>1
  <2>2. w[i].pos <= w[i].pos /\ w[i].dists <= w[i].dists
    BY <1>3, <2>1
  <2> QED BY <2>1, <2>2
<1>5. ASSUME NEW k \in Nat, k \in S PROVE k + 1 \in S
  <2> SUFFICES ASSUME i + (k + 1) <= n
               PROVE  w[i].pos <= w[i + (k + 1)].pos /\ w[i].dists <= w[i + (k + 1)].dists
    OBVIOUS
  <2> DEFINE m == i + (k + 1)
  <2>1. m \in 1 .. n /\ m - 1 = i + k /\ i + k <= n /\ i + k \in 0 .. n
    BY <1>1
  <2>2. w[i].pos <= w[i + k].pos /\ w[i].dists <= w[i + k].dists
    BY <1>5, <2>1
  <2> HIDE DEF m
  <2>3. w[m] = Reads(w[i + k], is[m], ds) /\ w[i + k] \in States(ds) /\ is[m] \in Items
    BY <1>1, <1>2, <1>3, <2>1
  <2>4. /\ w[m].pos = w[i + k].pos + is[m].n
        /\ w[m].dists = w[i + k].dists + (IF IsMatch(is[m]) THEN 1 ELSE 0)
    BY <2>3, ReadsMoves
  <2>5. is[m].n \in Nat
    BY <2>3 DEF Items
  <2>6. w[i].pos \in Int /\ w[i + k].pos \in Int /\ w[i].dists \in Nat /\ w[i + k].dists \in Nat
    BY <1>1, <1>3, <2>1
  <2>7. w[i].pos <= w[m].pos
    BY <2>2, <2>4, <2>5, <2>6, SMTT(30)
  <2>8. w[i].dists <= w[m].dists
    <3>1. w[m].dists = w[i + k].dists + 1 \/ w[m].dists = w[i + k].dists
      BY <2>4, <2>6
    <3> QED BY <2>2, <2>6, <3>1
  <2> QED BY <2>7, <2>8 DEF m
<1>6. j - i \in Nat /\ i + (j - i) = j /\ j <= n
  BY <1>1
<1> HIDE DEF S
<1>7. j - i \in S
  BY <1>4, <1>5, <1>6, Induct
<1>8. w[i].pos <= w[j].pos /\ w[i].dists <= w[j].dists
  BY <1>6, <1>7 DEF S
<1> QED BY <1>8 DEF w

\* The matches of some first items, one after another.
LEMMA MatchesSteps ==
  ASSUME NEW is \in Seq(Items)
  PROVE  /\ Matches(SubSeq(is, 1, 0)) = 0
         /\ \A i \in 0 .. Len(is) : Matches(SubSeq(is, 1, i)) \in Nat
         /\ \A i \in 1 .. Len(is) : Matches(SubSeq(is, 1, i)) =
              Matches(SubSeq(is, 1, i - 1)) + (IF IsMatch(is[i]) THEN 1 ELSE 0)
<1> DEFINE n == Len(is)
           M(i) == {j \in 1 .. i : IsMatch(is[j])}
<1>1. ASSUME NEW i \in 0 .. n PROVE Matches(SubSeq(is, 1, i)) = Cardinality(M(i))
  <2> DEFINE s == SubSeq(is, 1, i)
  <2>1. DOMAIN s = 1 .. i /\ \A j \in 1 .. i : s[j] = is[j]
    OBVIOUS
  <2> HIDE DEF s
  <2>2. {j \in DOMAIN s : IsMatch(s[j])} = M(i)
    BY <2>1
  <2> QED BY <2>2 DEF Matches, s
<1>2. \A i \in 0 .. n : IsFiniteSet(M(i)) /\ Cardinality(M(i)) \in Nat
  <2> SUFFICES ASSUME NEW i \in 0 .. n PROVE IsFiniteSet(M(i)) /\ Cardinality(M(i)) \in Nat
    OBVIOUS
  <2>1. IsFiniteSet(1 .. i) /\ M(i) \in SUBSET (1 .. i)
    BY FS_Interval
  <2>2. IsFiniteSet(M(i))
    BY <2>1, FS_Subset
  <2> QED BY <2>2, FS_CardinalityType
<1>3. M(0) = {}
  OBVIOUS
<1>4. Cardinality(M(0)) = 0
  BY <1>3, FS_EmptySet
<1>5. ASSUME NEW i \in 1 .. n
      PROVE  Cardinality(M(i)) = Cardinality(M(i - 1)) + (IF IsMatch(is[i]) THEN 1 ELSE 0)
  <2>1. i - 1 \in 0 .. n
    OBVIOUS
  <2>5. i \notin M(i - 1)
    OBVIOUS
  <2>6. \A j \in 0 .. n : IsFiniteSet(M(j)) /\ Cardinality(M(j)) \in Nat
    BY <1>2
  <2>2. IsFiniteSet(M(i - 1)) /\ Cardinality(M(i - 1)) \in Nat /\ i \notin M(i - 1)
    BY <2>1, <2>5, <2>6, Zenon
  <2>3. CASE IsMatch(is[i])
    <3>1. M(i) = M(i - 1) \cup {i}
      BY <2>3
    <3>2. Cardinality(M(i - 1) \cup {i}) = Cardinality(M(i - 1)) + 1
      <4> DEFINE A == M(i - 1)
      <4> HIDE DEF A
      <4>1. IsFiniteSet(A) /\ i \notin A
        BY <2>2 DEF A
      <4>2. Cardinality(A \cup {i}) = Cardinality(A) + 1
        BY <4>1, FS_AddElement
      <4> QED BY <4>2 DEF A
    <3> QED BY <2>3, <3>1, <3>2
  <2>4. CASE ~IsMatch(is[i])
    <3>1. M(i) = M(i - 1)
      BY <2>4
    <3>2. Cardinality(M(i)) = Cardinality(M(i - 1))
      BY <3>1, Zenon
    <3> DEFINE a == Cardinality(M(i))
               b == Cardinality(M(i - 1))
    <3>3. a = b /\ b \in Nat
      BY <2>2, <3>2, Zenon
    <3> HIDE DEF a, b
    <3>4. a = b + (IF IsMatch(is[i]) THEN 1 ELSE 0)
      BY <2>4, <3>3
    <3> QED BY <3>4 DEF a, b
  <2> QED BY <2>3, <2>4
<1>6. n \in Nat /\ 0 \in 0 .. n /\ \A i \in 1 .. n : i - 1 \in 0 .. n /\ i \in 0 .. n
  OBVIOUS
<1> HIDE DEF M
<1> QED BY <1>1, <1>2, <1>4, <1>5, <1>6

\* Where the walk is, and how many distances it took.
LEMMA WalkCounts ==
  ASSUME NEW p \in Int, NEW offs \in Triples, NEW is \in Seq(Items), NEW ds,
         NEW i \in 0 .. Len(is)
  PROVE  /\ Walk(p, offs, is, ds)[i].pos = p + BytesUpTo(is)[i]
         /\ Walk(p, offs, is, ds)[i].dists = Matches(SubSeq(is, 1, i))
<1> DEFINE n == Len(is)
           w == Walk(p, offs, is, ds)
           b == BytesUpTo(is)
           m == [k \in 0 .. n |-> Matches(SubSeq(is, 1, k))]
           S == {k \in Nat : k <= n => w[k].pos = p + b[k] /\ w[k].dists = m[k]}
<1>1. n \in Nat /\ i \in 0 .. n /\ \A k \in 1 .. n : is[k] \in Items /\ is[k].n \in Nat
  <2>1. n \in Nat /\ i \in 0 .. n /\ \A k \in 1 .. n : is[k] \in Items
    OBVIOUS
  <2>2. \A x \in Items : x.n \in Nat
    BY DEF Items
  <2> QED BY <2>1, <2>2
<1>2. /\ w \in [0 .. n -> States(ds)] /\ w[0] = [pos |-> p, offs |-> offs, dists |-> 0]
      /\ \A k \in 1 .. n : w[k] = Reads(w[k - 1], is[k], ds)
  BY WalkSteps
<1>3. /\ b \in [0 .. n -> Nat] /\ b[0] = 0
      /\ \A k \in 1 .. n : b[k] = b[k - 1] + is[k].n
  BY BytesSteps
<1>4. /\ m[0] = 0 /\ \A k \in 0 .. n : m[k] \in Nat
      /\ \A k \in 1 .. n : m[k] = m[k - 1] + (IF IsMatch(is[k]) THEN 1 ELSE 0)
  <2>1. 0 \in 0 .. n /\ \A k \in 1 .. n : k \in 0 .. n /\ k - 1 \in 0 .. n
    OBVIOUS
  <2> HIDE DEF n
  <2>2. \A k \in 0 .. n : m[k] = Matches(SubSeq(is, 1, k))
    OBVIOUS
  <2> HIDE DEF m
  <2> QED BY <2>1, <2>2, MatchesSteps DEF n
<1>5. m[i] = Matches(SubSeq(is, 1, i))
  OBVIOUS
<1> HIDE DEF n, w, b, m
<1>6. \A k \in 0 .. n : w[k] \in States(ds)
  BY <1>2
<1>7. 0 \in S
  BY <1>2, <1>3, <1>4
<1>8. ASSUME NEW k \in Nat, k \in S PROVE k + 1 \in S
  <2> SUFFICES ASSUME k + 1 <= n PROVE w[k + 1].pos = p + b[k + 1] /\ w[k + 1].dists = m[k + 1]
    OBVIOUS
  <2>1. k + 1 \in 1 .. n /\ (k + 1) - 1 = k /\ k \in 0 .. n /\ k <= n
    BY <1>1
  <2>2. w[k].pos = p + b[k] /\ w[k].dists = m[k]
    BY <1>8, <2>1
  <2>3. w[k + 1] = Reads(w[k], is[k + 1], ds) /\ w[k] \in States(ds) /\ is[k + 1] \in Items
    BY <1>1, <1>2, <1>6, <2>1
  <2>4. /\ w[k + 1].pos = w[k].pos + is[k + 1].n
        /\ w[k + 1].dists = w[k].dists + (IF IsMatch(is[k + 1]) THEN 1 ELSE 0)
    BY <2>3, ReadsMoves
  <2>5. b[k + 1] = b[k] + is[k + 1].n /\ m[k + 1] = m[k] + (IF IsMatch(is[k + 1]) THEN 1 ELSE 0)
    BY <1>3, <1>4, <2>1
  <2>6. b[k] \in Nat /\ is[k + 1].n \in Nat
    BY <1>1, <1>3, <2>1
  <2> QED BY <2>2, <2>4, <2>5, <2>6
<1> HIDE DEF S
<1>9. i \in S
  BY <1>1, <1>7, <1>8, Induct
<1>10. w[i].pos = p + b[i] /\ w[i].dists = m[i]
  BY <1>1, <1>9 DEF S
<1> QED BY <1>5, <1>10 DEF w, b

-----------------------------------------------------------------------------
\* The first items take the first bytes,
LEMMA BytesOfFirst ==
  ASSUME NEW is \in Seq(Items), NEW m \in 0 .. Len(is)
  PROVE  BytesOf(SubSeq(is, 1, m)) = BytesUpTo(is)[m]
<1> DEFINE n == Len(is)
           js == SubSeq(is, 1, m)
           a == BytesUpTo(js)
           b == BytesUpTo(is)
           S == {k \in Nat : k <= m => a[k] = b[k]}
<1>1. n \in Nat /\ m \in 0 .. n /\ m \in Nat
  OBVIOUS
<1>2. js \in Seq(Items) /\ Len(js) = m /\ \A k \in 1 .. m : js[k] = is[k]
  OBVIOUS
<1>3. a \in [0 .. Len(js) -> Nat] /\ a[0] = 0 /\ \A k \in 1 .. Len(js) : a[k] = a[k - 1] + js[k].n
  <2> HIDE DEF js
  <2> QED BY <1>2, BytesSteps
<1>4. b \in [0 .. n -> Nat] /\ b[0] = 0 /\ \A k \in 1 .. n : b[k] = b[k - 1] + is[k].n
  BY BytesSteps
<1>5. BytesOf(js) = a[m]
  BY <1>2 DEF BytesOf
<1> HIDE DEF n, js, a, b
<1>6. 0 \in S
  BY <1>3, <1>4
<1>7. ASSUME NEW k \in Nat, k \in S PROVE k + 1 \in S
  <2> SUFFICES ASSUME k + 1 <= m PROVE a[k + 1] = b[k + 1]
    OBVIOUS
  <2>1. k + 1 \in 1 .. m /\ k + 1 \in 1 .. n /\ (k + 1) - 1 = k /\ k <= m
    BY <1>1
  <2>2. a[k] = b[k]
    BY <1>7, <2>1
  <2>3. a[k + 1] = a[k] + js[k + 1].n /\ b[k + 1] = b[k] + is[k + 1].n /\ js[k + 1] = is[k + 1]
    BY <1>2, <1>3, <1>4, <2>1
  <2> QED BY <2>2, <2>3
<1> HIDE DEF S
<1>8. m \in S
  BY <1>1, <1>6, <1>7, Induct
<1>9. a[m] = b[m]
  BY <1>1, <1>8 DEF S
<1> QED BY <1>5, <1>9 DEF b, js

\* and the first distances leave what they left before the others came.
LEMMA OffsetsOfFirst ==
  ASSUME NEW offs \in Triples, NEW cs \in Seq(Nat), NEW m \in 0 .. Len(cs)
  PROVE  OffsetsThrough(offs, SubSeq(cs, 1, m)) = OffsetsUpTo(offs, cs)[m]
<1> DEFINE n == Len(cs)
           ds == SubSeq(cs, 1, m)
           a == OffsetsUpTo(offs, ds)
           b == OffsetsUpTo(offs, cs)
           S == {k \in Nat : k <= m => a[k] = b[k]}
<1>1. n \in Nat /\ m \in 0 .. n /\ m \in Nat
  OBVIOUS
<1>2. ds \in Seq(Nat) /\ Len(ds) = m /\ \A k \in 1 .. m : ds[k] = cs[k]
  OBVIOUS
<1>3. a[0] = offs /\ \A k \in 1 .. Len(ds) : a[k] = OffsetsAfter(a[k - 1], ds[k])
  <2> HIDE DEF ds
  <2> QED BY <1>2, OffsetsSteps
<1>4. b[0] = offs /\ \A k \in 1 .. n : b[k] = OffsetsAfter(b[k - 1], cs[k])
  BY OffsetsSteps
<1>5. OffsetsThrough(offs, ds) = a[m]
  BY <1>2 DEF OffsetsThrough
<1> HIDE DEF n, ds, a, b
<1>6. 0 \in S
  BY <1>3, <1>4
<1>7. ASSUME NEW k \in Nat, k \in S PROVE k + 1 \in S
  <2> SUFFICES ASSUME k + 1 <= m PROVE a[k + 1] = b[k + 1]
    OBVIOUS
  <2>1. k + 1 \in 1 .. m /\ k + 1 \in 1 .. n /\ (k + 1) - 1 = k /\ k <= m
    BY <1>1
  <2>2. a[k] = b[k]
    BY <1>7, <2>1
  <2>3. a[k + 1] = OffsetsAfter(a[k], ds[k + 1]) /\ b[k + 1] = OffsetsAfter(b[k], cs[k + 1])
        /\ ds[k + 1] = cs[k + 1]
    BY <1>2, <1>3, <1>4, <2>1
  <2> QED BY <2>2, <2>3
<1> HIDE DEF S
<1>8. m \in S
  BY <1>1, <1>6, <1>7, Induct
<1>9. a[m] = b[m]
  BY <1>1, <1>8 DEF S
<1> QED BY <1>5, <1>9 DEF b, ds

\* Three distances in a row that are no repeated offsets leave the same whatever was before.
LEMMA ThreeNew ==
  ASSUME NEW o \in Triples, NEW q \in Triples,
         NEW x \in Nat, NEW y \in Nat, NEW z \in Nat, x > 2, y > 2, z > 2
  PROVE  OffsetsAfter(OffsetsAfter(OffsetsAfter(o, x), y), z) =
         OffsetsAfter(OffsetsAfter(OffsetsAfter(q, x), y), z)
<1>1. ASSUME NEW t \in Triples
      PROVE  OffsetsAfter(OffsetsAfter(OffsetsAfter(t, x), y), z) = <<z - 2, y - 2, x - 2>>
  <2>1. OffsetsAfter(t, x) = <<x - 2, t[1], t[2]>>
    BY DEF OffsetsAfter
  <2>2. OffsetsAfter(<<x - 2, t[1], t[2]>>, y) = <<y - 2, x - 2, t[1]>>
    BY DEF OffsetsAfter
  <2>3. OffsetsAfter(<<y - 2, x - 2, t[1]>>, z) = <<z - 2, y - 2, x - 2>>
    BY DEF OffsetsAfter
  <2> QED BY <2>1, <2>2, <2>3
<1> QED BY <1>1

\* get_final_repeated_offset_states may begin where the last such three are.
LEMMA FinalIsThrough ==
  ASSUME NEW offs \in Triples, NEW ds \in Seq(Nat)
  PROVE  FinalOffsets(offs, ds) = OffsetsThrough(offs, ds)
<1> DEFINE n == Len(ds)
           void == {d \in 1 .. n - 2 : \A i \in d .. d + 2 : ds[i] > 2}
<1>1. CASE void = {}
  <2>1. FinalOffsets(offs, ds) = OffsetsThrough(offs, SubSeq(ds, 1, Len(ds)))
    BY <1>1 DEF FinalOffsets
  <2>2. SubSeq(ds, 1, Len(ds)) = ds
    OBVIOUS
  <2> QED BY <2>1, <2>2
<1>2. CASE void # {}
  <2> DEFINE d == Max(void)
             cs == SubSeq(ds, d, Len(ds))
             a == OffsetsUpTo(offs, cs)
             b == OffsetsUpTo(offs, ds)
  <2>1. FinalOffsets(offs, ds) = OffsetsThrough(offs, cs)
    BY <1>2 DEF FinalOffsets
  <2>2. d \in void
    <3>1. d = CHOOSE x \in void : \A y \in void : x >= y
      BY DEF Max
    <3>2. \E x \in void : \A y \in void : x >= y
      <4> DEFINE P == {k \in Nat : ~\E x \in void : x >= n - k}
      <4>1. n \in Nat /\ void \subseteq 1 .. n
        OBVIOUS
      <4> HIDE DEF void
      <4>2. SUFFICES ASSUME \A x \in void : \E y \in void : y > x PROVE FALSE
        BY <4>1
      <4>3. 0 \in P
        BY <4>1, <4>2
      <4>4. ASSUME NEW k \in Nat, k \in P PROVE k + 1 \in P
        BY <4>1, <4>2, <4>4
      <4> HIDE DEF P
      <4>5. n \in P
        BY <4>1, <4>3, <4>4, Induct
      <4>6. ~\E x \in void : x >= n - n
        BY <4>5 DEF P
      <4>7. PICK x \in void : TRUE
        BY <1>2
      <4>8. x >= n - n
        BY <4>1, <4>7
      <4> QED BY <4>6, <4>7, <4>8
    <3> QED BY <3>1, <3>2, Zenon
  <2>3. n \in Nat /\ d \in 1 .. n - 2 /\ ds[d] > 2 /\ ds[d + 1] > 2 /\ ds[d + 2] > 2
    <3> DEFINE e == d
    <3>1. e \in void
      BY <2>2
    <3> HIDE DEF e
    <3>2. n \in Nat /\ e \in 1 .. n - 2 /\ ds[e] > 2 /\ ds[e + 1] > 2 /\ ds[e + 2] > 2
      BY <3>1
    <3> QED BY <3>2 DEF e
  <2> HIDE DEF d, void
  <2>4. cs \in Seq(Nat) /\ Len(cs) = n - d + 1 /\ \A k \in 1 .. n - d + 1 : cs[k] = ds[d + k - 1]
    BY <2>3
  <2>5. a[0] = offs /\ a \in [0 .. Len(cs) -> Triples]
        /\ \A k \in 1 .. Len(cs) : a[k] = OffsetsAfter(a[k - 1], cs[k])
    <3> HIDE DEF cs
    <3> QED BY <2>4, OffsetsSteps
  <2>6. b \in [0 .. n -> Triples] /\ \A k \in 1 .. n : b[k] = OffsetsAfter(b[k - 1], ds[k])
    BY OffsetsSteps
  <2>7. OffsetsThrough(offs, cs) = a[n - d + 1] /\ OffsetsThrough(offs, ds) = b[n]
    BY <2>4 DEF OffsetsThrough
  <2> HIDE DEF cs, a, b, n
  <2> DEFINE S == {k \in Nat : 3 + k <= n - d + 1 => a[3 + k] = b[d + 2 + k]}
  <2>8. 0 \in S
    <3>1. a[1] = OffsetsAfter(offs, ds[d])
      BY <2>3, <2>4, <2>5
    <3>2. a[2] = OffsetsAfter(a[1], ds[d + 1])
      BY <2>3, <2>4, <2>5
    <3>3. a[3] = OffsetsAfter(a[2], ds[d + 2])
      BY <2>3, <2>4, <2>5
    <3>4. b[d] = OffsetsAfter(b[d - 1], ds[d]) /\ b[d - 1] \in Triples
      BY <2>3, <2>6
    <3>5. b[d + 1] = OffsetsAfter(b[d], ds[d + 1])
      BY <2>3, <2>6
    <3>6. b[d + 2] = OffsetsAfter(b[d + 1], ds[d + 2])
      BY <2>3, <2>6
    <3>7. ds[d] \in Nat /\ ds[d + 1] \in Nat /\ ds[d + 2] \in Nat
      BY <2>3, SMTT(30) DEF n
    <3>8. a[3] = b[d + 2]
      <4> DEFINE x == ds[d]
                 y == ds[d + 1]
                 z == ds[d + 2]
                 q == b[d - 1]
      <4>2. x \in Nat /\ y \in Nat /\ z \in Nat /\ x > 2 /\ y > 2 /\ z > 2 /\ q \in Triples
        BY <2>3, <3>4, <3>7
      <4> HIDE DEF x, y, z, q
      <4>3. OffsetsAfter(OffsetsAfter(OffsetsAfter(offs, x), y), z) =
            OffsetsAfter(OffsetsAfter(OffsetsAfter(q, x), y), z)
        BY <4>2, ThreeNew
      <4>1. OffsetsAfter(OffsetsAfter(OffsetsAfter(offs, ds[d]), ds[d + 1]), ds[d + 2]) =
            OffsetsAfter(OffsetsAfter(OffsetsAfter(b[d - 1], ds[d]), ds[d + 1]), ds[d + 2])
        BY <4>3 DEF x, y, z, q
      <4> QED BY <3>1, <3>2, <3>3, <3>4, <3>5, <3>6, <4>1
    <3> QED BY <2>3, <3>8
  <2>9. ASSUME NEW k \in Nat, k \in S PROVE k + 1 \in S
    <3> SUFFICES ASSUME 3 + (k + 1) <= n - d + 1 PROVE a[3 + (k + 1)] = b[d + 2 + (k + 1)]
      OBVIOUS
    <3>1. 3 + k <= n - d + 1 /\ 4 + k \in 1 .. n - d + 1 /\ d + 3 + k \in 1 .. n
      BY <2>3
    <3>2. a[3 + k] = b[d + 2 + k]
      BY <2>9, <3>1
    <3>3. a[4 + k] = OffsetsAfter(a[3 + k], cs[4 + k])
      <4>1. (4 + k) - 1 = 3 + k
        OBVIOUS
      <4> QED BY <2>4, <2>5, <3>1, <4>1
    <3>4. b[d + 3 + k] = OffsetsAfter(b[d + 2 + k], ds[d + 3 + k])
      <4>1. (d + 3 + k) - 1 = d + 2 + k
        BY <2>3
      <4> QED BY <2>6, <3>1, <4>1
    <3>5. cs[4 + k] = ds[d + 3 + k]
      <4>1. d + (4 + k) - 1 = d + 3 + k
        BY <2>3
      <4> QED BY <2>4, <3>1, <4>1
    <3>6. 3 + (k + 1) = 4 + k /\ d + 2 + (k + 1) = d + 3 + k
      BY <2>3
    <3> QED BY <3>2, <3>3, <3>4, <3>5, <3>6
  <2> HIDE DEF S
  <2>10. n - d - 2 \in Nat
    BY <2>3
  <2>11. n - d - 2 \in S
    BY <2>8, <2>9, <2>10, Induct
  <2>12. a[3 + (n - d - 2)] = b[d + 2 + (n - d - 2)]
    BY <2>3, <2>10, <2>11 DEF S
  <2>13. 3 + (n - d - 2) = n - d + 1 /\ d + 2 + (n - d - 2) = n
    BY <2>3
  <2> QED BY <2>1, <2>7, <2>12, <2>13
<1> QED BY <1>1, <1>2

-----------------------------------------------------------------------------
\* The repeated offsets of the walk are those its distances leave.
LEMMA WalkOffsets ==
  ASSUME NEW p \in Int, NEW offs \in Triples, NEW is \in Seq(Items), NEW ds \in Seq(Nat),
         Walk(p, offs, is, ds)[Len(is)].dists <= Len(ds), NEW i \in 0 .. Len(is)
  PROVE  /\ Walk(p, offs, is, ds)[i].dists \in 0 .. Len(ds)
         /\ Walk(p, offs, is, ds)[i].offs =
              OffsetsUpTo(offs, ds)[Walk(p, offs, is, ds)[i].dists]
         /\ Walk(p, offs, is, ds)[i].offs \in Triples
<1> DEFINE n == Len(is)
           w == Walk(p, offs, is, ds)
           a == OffsetsUpTo(offs, ds)
           d == Len(ds)
           S == {k \in Nat : k <= n => w[k].offs = a[w[k].dists]}
<1>1. n \in Nat /\ i \in 0 .. n /\ d \in Nat /\ \A k \in 1 .. n : is[k] \in Items
  OBVIOUS
<1>2. /\ w \in [0 .. n -> States(ds)] /\ w[0] = [pos |-> p, offs |-> offs, dists |-> 0]
      /\ \A k \in 1 .. n : w[k] = Reads(w[k - 1], is[k], ds)
  BY WalkSteps
<1>3. /\ a \in [0 .. d -> Triples] /\ a[0] = offs
      /\ \A k \in 1 .. d : a[k] = OffsetsAfter(a[k - 1], ds[k])
  BY OffsetsSteps
<1>4. \A k \in 0 .. n : w[k] \in States(ds) /\ w[k].dists \in Nat
  BY <1>2 DEF States
<1>5. \A k \in 0 .. n : w[k].dists \in 0 .. d
  <2> SUFFICES ASSUME NEW k \in 0 .. n PROVE w[k].dists \in 0 .. d
    OBVIOUS
  <2>1. w[k].dists <= w[n].dists
    BY <1>1, WalkForward
  <2>2. w[n].dists <= d
    OBVIOUS
  <2>3. w[k].dists \in Nat /\ w[n].dists \in Nat
    BY <1>1, <1>4
  <2> HIDE DEF w, n, d
  <2> QED BY <1>1, <2>1, <2>2, <2>3
<1> HIDE DEF n, w, a, d
<1>6. 0 \in S
  BY <1>2, <1>3
<1>7. ASSUME NEW k \in Nat, k \in S PROVE k + 1 \in S
  <2> SUFFICES ASSUME k + 1 <= n PROVE w[k + 1].offs = a[w[k + 1].dists]
    OBVIOUS
  <2>1. k + 1 \in 1 .. n /\ (k + 1) - 1 = k /\ k <= n /\ k \in 0 .. n /\ k + 1 \in 0 .. n
    BY <1>1
  <2>2. w[k].offs = a[w[k].dists]
    BY <1>7, <2>1
  <2>3. w[k + 1] = Reads(w[k], is[k + 1], ds) /\ w[k] \in States(ds) /\ is[k + 1] \in Items
    BY <1>1, <1>2, <1>4, <2>1
  <2>4. /\ w[k + 1].dists = w[k].dists + (IF IsMatch(is[k + 1]) THEN 1 ELSE 0)
        /\ w[k + 1].offs = IF IsMatch(is[k + 1]) THEN OffsetsAfter(w[k].offs, ds[w[k].dists + 1])
                           ELSE w[k].offs
    BY <2>3, ReadsMoves, SMTT(30)
  <2>5. w[k].dists \in Nat /\ w[k + 1].dists \in 0 .. d
    BY <1>4, <1>5, <2>1
  <2>6. CASE IsMatch(is[k + 1])
    <3> DEFINE e == w[k].dists + 1
    <3>4. w[k + 1].dists = w[k].dists + 1
      BY <2>4, <2>6
    <3>1. w[k + 1].dists = e /\ e \in 1 .. d /\ e - 1 = w[k].dists
      <4> DEFINE f == w[k].dists
      <4>1. f \in Nat /\ f + 1 \in 0 .. d /\ w[k + 1].dists = f + 1
        BY <2>5, <3>4
      <4> HIDE DEF f
      <4>2. f + 1 \in 1 .. d /\ f + 1 - 1 = f
        BY <1>1, <4>1
      <4> QED BY <4>1, <4>2 DEF f
    <3>2. w[k + 1].offs = OffsetsAfter(w[k].offs, ds[e])
      BY <2>4, <2>6
    <3> HIDE DEF e
    <3>3. a[e] = OffsetsAfter(a[e - 1], ds[e])
      BY <1>3, <3>1
    <3> QED BY <2>2, <3>1, <3>2, <3>3
  <2>7. CASE ~IsMatch(is[k + 1])
    BY <2>2, <2>4, <2>5, <2>7
  <2> QED BY <2>6, <2>7
<1> HIDE DEF S
<1>11. i \in Nat
  BY <1>1
<1>8. i \in S
  BY <1>6, <1>7, <1>11, Induct
<1>9. w[i].offs = a[w[i].dists] /\ w[i].dists \in 0 .. d
  BY <1>1, <1>5, <1>8 DEF S
<1>10. w[i].offs \in Triples
  BY <1>3, <1>9
<1> QED BY <1>9, <1>10 DEF w, a, d

\* An item more, and a distance more or none: the walk goes on from where it was.
LEMMA WalkLonger ==
  ASSUME NEW p \in Int, NEW offs \in Triples, NEW is \in Seq(Items), NEW ds \in Seq(Nat),
         Walk(p, offs, is, ds)[Len(is)].dists <= Len(ds),
         NEW x \in Items, NEW es, \A j \in 1 .. Len(ds) : es[j] = ds[j]
  PROVE  /\ \A i \in 0 .. Len(is) : Walk(p, offs, Append(is, x), es)[i] = Walk(p, offs, is, ds)[i]
         /\ Walk(p, offs, Append(is, x), es)[Len(is) + 1] =
              Reads(Walk(p, offs, is, ds)[Len(is)], x, es)
<1> DEFINE n == Len(is)
           w == Walk(p, offs, is, ds)
           js == Append(is, x)
           g == [i \in 0 .. n + 1 |-> IF i <= n THEN w[i] ELSE Reads(w[n], x, es)]
           d == Len(ds)
<1>1. n \in Nat /\ d \in Nat /\ \A k \in 1 .. n : is[k] \in Items
  OBVIOUS
<1>2. /\ w \in [0 .. n -> States(ds)] /\ w[0] = [pos |-> p, offs |-> offs, dists |-> 0]
      /\ \A k \in 1 .. n : w[k] = Reads(w[k - 1], is[k], ds)
  BY WalkSteps
<1>3. \A k \in 0 .. n : w[k].dists \in 0 .. d
  BY WalkOffsets
<1>4. js \in Seq(Items) /\ Len(js) = n + 1 /\ js[n + 1] = x /\ \A k \in 1 .. n : js[k] = is[k]
  OBVIOUS
<1>5. \A j \in 1 .. d : es[j] = ds[j]
  OBVIOUS
<1>6. \A k \in 0 .. n : w[k] \in States(ds)
  BY <1>2
<1> HIDE DEF n, w, js, d
<1>7. \A i \in 0 .. n + 1 : g[i] = IF i <= n THEN w[i] ELSE Reads(w[n], x, es)
  OBVIOUS
<1> HIDE DEF g
<1>8. g[0] = [pos |-> p, offs |-> offs, dists |-> 0]
  BY <1>1, <1>2, <1>7
<1>9. ASSUME NEW k \in 1 .. n PROVE w[k] = Reads(w[k - 1], is[k], es)
  <2>1. k - 1 \in 0 .. n /\ k \in 0 .. n
    BY <1>1
  <2>2. w[k] = Reads(w[k - 1], is[k], ds) /\ w[k - 1] \in States(ds) /\ is[k] \in Items
    BY <1>1, <1>2, <1>6, <2>1
  <2>3. CASE IsMatch(is[k])
    <3>1. w[k].dists = w[k - 1].dists + 1 /\ w[k - 1].dists \in Nat
      BY <2>2, <2>3, ReadsMoves
    <3>2. w[k - 1].dists + 1 \in 1 .. d
      BY <1>1, <1>3, <2>1, <3>1
    <3>3. es[w[k - 1].dists + 1] = ds[w[k - 1].dists + 1]
      BY <1>5, <3>2
    <3> QED BY <2>2, <2>3, <3>3 DEF Reads
  <2>4. CASE ~IsMatch(is[k])
    BY <2>2, <2>4 DEF Reads
  <2> QED BY <2>3, <2>4
<1>10. ASSUME NEW k \in 1 .. n + 1 PROVE g[k] = Reads(g[k - 1], js[k], es)
  <2>1. CASE k <= n
    <3>1. k \in 1 .. n /\ k - 1 <= n /\ k \in 0 .. n + 1 /\ k - 1 \in 0 .. n + 1
      BY <1>1, <2>1
    <3> QED BY <1>4, <1>7, <1>9, <3>1
  <2>2. CASE k = n + 1
    <3>1. k - 1 = n /\ ~(k <= n) /\ k \in 0 .. n + 1 /\ k - 1 \in 0 .. n + 1 /\ n <= n
      BY <1>1, <2>2
    <3>2. g[k] = Reads(w[n], x, es) /\ g[k - 1] = w[n]
      BY <1>7, <3>1
    <3> QED BY <1>4, <2>2, <3>2
  <2>3. k <= n \/ k = n + 1
    BY <1>1
  <2> QED BY <2>1, <2>2, <2>3
<1>11. \A i \in 0 .. n + 1 : Walk(p, offs, js, es)[i] = g[i]
  <2>1. Steps(g, p, offs, js, es)
    BY <1>4, <1>8, <1>10 DEF Steps
  <2>2. \A i \in 0 .. Len(js) : Walk(p, offs, js, es)[i] = g[i]
    BY <1>4, <2>1, WalkUnique
  <2> QED BY <1>4, <2>2
<1>12. \A i \in 0 .. n : Walk(p, offs, js, es)[i] = w[i]
  <2> SUFFICES ASSUME NEW i \in 0 .. n PROVE Walk(p, offs, js, es)[i] = w[i]
    OBVIOUS
  <2>1. i \in 0 .. n + 1 /\ i <= n
    BY <1>1
  <2> QED BY <1>7, <1>11, <2>1
<1>13. Walk(p, offs, js, es)[n + 1] = Reads(w[n], x, es)
  <2>1. n + 1 \in 0 .. n + 1 /\ ~(n + 1 <= n)
    BY <1>1
  <2> QED BY <1>7, <1>11, <2>1
<1> QED BY <1>12, <1>13 DEF n, w, js

-----------------------------------------------------------------------------
\* ItemsSpell of any items: they stand for the bytes of t from p to q, and leave o.
ByteOf(t, p) == t[p - First + 1]
CopiesIn(t, p, d, n) == /\ d \in 1 .. p - First
                        /\ \A j \in 0 .. n - 1 : ByteOf(t, p + j) = ByteOf(t, p + j - d)
\* Nor does an item reach over the end of its chunk, or a match farther back than it may.
InChunk(p, n) == (p % LZX_CHUNK_SIZE) + n <= LZX_CHUNK_SIZE
SpellsIn(t, i, s, ds) ==
  /\ InChunk(s.pos, i.n)
  /\ IF IsMatch(i) THEN /\ i.n \in LZX_MIN_MATCH .. LZX_MAX_MATCH
                        /\ Distance(ds[s.dists + 1], s.offs) <= Reach
                        /\ CopiesIn(t, s.pos, Distance(ds[s.dists + 1], s.offs), i.n)
     ELSE i.byte = ByteOf(t, s.pos)
Keeps(t, p, offs, is, ds, q, o) ==
  /\ Walk(p, offs, is, ds)[Len(is)] = [pos |-> q, offs |-> o, dists |-> Len(ds)]
  /\ \A i \in 1 .. Len(is) : SpellsIn(t, is[i], Walk(p, offs, is, ds)[i - 1], ds)

\* The next item: a literal, or a match with its distance.
LEMMA KeepsLonger ==
  ASSUME NEW t, NEW p \in Int, NEW offs \in Triples, NEW is \in Seq(Items), NEW ds \in Seq(Nat),
         NEW q, NEW o, Keeps(t, p, offs, is, ds, q, o), NEW x \in Items,
         NEW es, \A j \in 1 .. Len(ds) : es[j] = ds[j],
         Len(es) = Len(ds) + (IF IsMatch(x) THEN 1 ELSE 0),
         SpellsIn(t, x, [pos |-> q, offs |-> o, dists |-> Len(ds)], es)
  PROVE  Keeps(t, p, offs, Append(is, x), es, q + x.n,
               IF IsMatch(x) THEN OffsetsAfter(o, es[Len(ds) + 1]) ELSE o)
<1> DEFINE n == Len(is)
           w == Walk(p, offs, is, ds)
           js == Append(is, x)
           v == Walk(p, offs, js, es)
           s == [pos |-> q, offs |-> o, dists |-> Len(ds)]
           d == Len(ds)
<1>1. n \in Nat /\ d \in Nat /\ \A k \in 1 .. n : is[k] \in Items
  OBVIOUS
<1>2. w[n] = s /\ \A i \in 1 .. n : SpellsIn(t, is[i], w[i - 1], ds)
  BY DEF Keeps
<1>3. /\ w \in [0 .. n -> States(ds)]
      /\ \A k \in 1 .. n : w[k] = Reads(w[k - 1], is[k], ds)
  BY WalkSteps, ZenonT(30)
<1>4. w[n].dists <= d
  BY <1>1, <1>2
<1>5. (\A i \in 0 .. n : v[i] = w[i]) /\ v[n + 1] = Reads(w[n], x, es)
  BY <1>4, WalkLonger
<1>6. \A k \in 0 .. n : w[k].dists \in 0 .. d
  BY <1>4, WalkOffsets
<1>7. js \in Seq(Items) /\ Len(js) = n + 1 /\ js[n + 1] = x /\ \A k \in 1 .. n : js[k] = is[k]
  OBVIOUS
<1>8. s.pos = q /\ s.offs = o /\ s.dists = d /\ s = [pos |-> q, offs |-> o, dists |-> d]
  OBVIOUS
<1>9. SpellsIn(t, x, s, es) /\ (\A j \in 1 .. d : es[j] = ds[j])
      /\ Len(es) = d + (IF IsMatch(x) THEN 1 ELSE 0)
  OBVIOUS
<1> HIDE DEF n, w, js, v, s, d
<1>10. v[n + 1] = [pos |-> q + x.n,
                   offs |-> IF IsMatch(x) THEN OffsetsAfter(o, es[d + 1]) ELSE o,
                   dists |-> Len(es)]
  <2>1. CASE IsMatch(x)
    BY <1>2, <1>5, <1>8, <1>9, <2>1 DEF Reads
  <2>2. CASE ~IsMatch(x)
    <3>1. x.n = 1
      BY <2>2 DEF IsMatch, Items
    <3>2. v[n + 1] = [s EXCEPT !.pos = @ + 1]
      BY <1>2, <1>5, <2>2 DEF Reads
    <3>3. [s EXCEPT !.pos = @ + 1] = [pos |-> q + 1, offs |-> o, dists |-> d]
      BY <1>8
    <3> QED BY <1>1, <1>9, <2>2, <3>1, <3>2, <3>3
  <2> QED BY <2>1, <2>2
<1>11. ASSUME NEW i \in 1 .. n PROVE SpellsIn(t, is[i], w[i - 1], es)
  <2>1. i - 1 \in 0 .. n /\ i \in 0 .. n
    BY <1>1
  <2>2. w[i] = Reads(w[i - 1], is[i], ds) /\ w[i - 1] \in States(ds) /\ is[i] \in Items
    BY <1>1, <1>3, <2>1
  <2>3. SpellsIn(t, is[i], w[i - 1], ds)
    BY <1>2
  <2>4. CASE IsMatch(is[i])
    <3>1. w[i].dists = w[i - 1].dists + 1 /\ w[i - 1].dists \in Nat
      BY <2>2, <2>4, ReadsMoves
    <3>2. w[i - 1].dists + 1 \in 1 .. d
      BY <1>1, <1>6, <2>1, <3>1, SMTT(30)
    <3>3. es[w[i - 1].dists + 1] = ds[w[i - 1].dists + 1]
      BY <1>9, <3>2
    <3> QED BY <2>3, <2>4, <3>3 DEF SpellsIn
  <2>5. CASE ~IsMatch(is[i])
    BY <2>3, <2>5 DEF SpellsIn
  <2> QED BY <2>4, <2>5
<1>12. ASSUME NEW i \in 1 .. n + 1 PROVE SpellsIn(t, js[i], v[i - 1], es)
  <2>1. CASE i <= n
    <3>1. i \in 1 .. n /\ i - 1 \in 0 .. n
      BY <1>1, <2>1
    <3> QED BY <1>5, <1>7, <1>11, <3>1
  <2>2. CASE i = n + 1
    <3>1. i - 1 = n /\ n \in 0 .. n
      <4>1. n \in Nat
        BY <1>1
      <4> QED BY <2>2, <4>1
    <3>2. v[n] = w[n] /\ w[n] = s
      BY <1>2, <1>5, <3>1, Zenon
    <3>3. js[n + 1] = x
      BY <1>7
    <3>4. js[i] = x /\ v[i - 1] = s
      BY <2>2, <3>1, <3>2, <3>3
    <3> QED BY <1>9, <3>4, Zenon
  <2>3. i <= n \/ i = n + 1
    BY <1>1
  <2> QED BY <2>1, <2>2, <2>3
<1> QED BY <1>7, <1>10, <1>12 DEF Keeps, js, v, d

\* What is left after some first items, read from where they end with what they leave.
LEMMA KeepsRest ==
  ASSUME NEW t, NEW p \in Int, NEW offs \in Triples, NEW is \in Seq(Items), NEW ds \in Seq(Nat),
         NEW q, NEW o, Keeps(t, p, offs, is, ds, q, o), NEW m \in 0 .. Len(is)
  PROVE  /\ Matches(SubSeq(is, 1, m)) \in 0 .. Len(ds)
         /\ Walk(p, offs, is, ds)[m].dists = Matches(SubSeq(is, 1, m))
         /\ Walk(p, offs, is, ds)[m].pos \in Int /\ Walk(p, offs, is, ds)[m].offs \in Triples
         /\ Keeps(t, Walk(p, offs, is, ds)[m].pos, Walk(p, offs, is, ds)[m].offs,
                  SubSeq(is, m + 1, Len(is)),
                  SubSeq(ds, Matches(SubSeq(is, 1, m)) + 1, Len(ds)), q, o)
<1> DEFINE n == Len(is)
           d == Len(ds)
           w == Walk(p, offs, is, ds)
           k == Matches(SubSeq(is, 1, m))
           js == SubSeq(is, m + 1, n)
           es == SubSeq(ds, k + 1, d)
           g == [i \in 0 .. n - m |->
                   [pos |-> w[m + i].pos, offs |-> w[m + i].offs, dists |-> w[m + i].dists - k]]
           v == Walk(w[m].pos, w[m].offs, js, es)
<1>1. n \in Nat /\ d \in Nat /\ m \in 0 .. n /\ m \in Nat /\ \A i \in 1 .. n : is[i] \in Items
  OBVIOUS
<1>2. /\ w[n] = [pos |-> q, offs |-> o, dists |-> d]
      /\ \A i \in 1 .. n : SpellsIn(t, is[i], w[i - 1], ds)
  BY DEF Keeps
<1>3. /\ w \in [0 .. n -> States(ds)]
      /\ \A i \in 1 .. n : w[i] = Reads(w[i - 1], is[i], ds)
  BY WalkSteps, ZenonT(30)
<1>4. w[n].dists <= d
  BY <1>1, <1>2
<1>5. \A i \in 0 .. n : w[i].dists \in 0 .. d /\ w[i].offs \in Triples
  BY <1>4, WalkOffsets
<1>6. \A i \in 0 .. n - m : w[m].dists <= w[m + i].dists
  <2> SUFFICES ASSUME NEW i \in 0 .. n - m PROVE w[m].dists <= w[m + i].dists
    OBVIOUS
  <2>1. m + i \in m .. Len(is)
    BY <1>1
  <2> QED BY <2>1, WalkForward
<1>7. k = w[m].dists
  BY WalkCounts
<1> HIDE DEF w, k
<1>8. k \in 0 .. d /\ k \in Nat
  BY <1>1, <1>5, <1>7
<1>9. js \in Seq(Items) /\ Len(js) = n - m /\ \A i \in 1 .. n - m : js[i] = is[m + i]
  <2>1. m + 1 \in 1 .. n + 1
    BY <1>1
  <2> QED BY <1>1, <2>1
<1>10. Len(es) = d - k /\ \A j \in 1 .. d - k : es[j] = ds[k + j]
  <2>1. k + 1 \in 1 .. d + 1 /\ d - (k + 1) + 1 = d - k
    BY <1>1, <1>8
  <2>2. \A j \in 1 .. d - k : k + 1 + j - 1 = k + j
    BY <1>1, <1>8
  <2>3. Len(es) = d - (k + 1) + 1
    <3>1. k + 1 \in Int /\ d \in Int /\ \A j \in k + 1 .. d : ds[j] \in Nat
      BY <1>1, <1>8
    <3>2. Len(es) = IF k + 1 <= d THEN d - (k + 1) + 1 ELSE 0
      BY <3>1, SubSeqProperties
    <3>3. k + 1 <= d \/ d - (k + 1) + 1 = 0
      BY <1>1, <1>8
    <3> HIDE DEF es, d
    <3> QED BY <3>2, <3>3
  <2>4. \A j \in 1 .. d - k : es[j] = ds[k + 1 + j - 1]
    BY <2>1, <1>8
  <2> HIDE DEF es, d
  <2> QED BY <2>1, <2>2, <2>3, <2>4
<1> HIDE DEF js, es
<1>11. \A i \in 0 .. n - m :
         g[i] = [pos |-> w[m + i].pos, offs |-> w[m + i].offs, dists |-> w[m + i].dists - k]
  OBVIOUS
<1> HIDE DEF g, n, d
<1>12. \A i \in 0 .. n : w[i] \in States(ds) /\ w[i].pos \in Int /\ w[i].dists \in 0 .. d
         /\ w[i] = [pos |-> w[i].pos, offs |-> w[i].offs, dists |-> w[i].dists]
  BY <1>3, <1>5 DEF States
<1>13. g[0] = [pos |-> w[m].pos, offs |-> w[m].offs, dists |-> 0]
  <2>1. 0 \in 0 .. n - m /\ m + 0 = m
    BY <1>1
  <2>2. g[0] = [pos |-> w[m].pos, offs |-> w[m].offs, dists |-> w[m].dists - k]
    BY <1>11, <2>1
  <2>3. w[m].dists - k = 0
    BY <1>7, <1>8
  <2> QED BY <2>2, <2>3
\* Where the walk takes a distance, the rest has the same one.
<1>14. ASSUME NEW i \in 1 .. n - m, IsMatch(is[m + i])
       PROVE  es[g[i - 1].dists + 1] = ds[w[m + i - 1].dists + 1]
  <2> DEFINE a == m + i
  <2>1. a \in 1 .. n /\ a - 1 \in 0 .. n /\ m + (i - 1) = a - 1 /\ i - 1 \in 0 .. n - m
    BY <1>1
  <2> HIDE DEF a
  <2>2. /\ w[a] = Reads(w[a - 1], is[a], ds) /\ w[a - 1] \in States(ds)
        /\ is[a] \in Items /\ IsMatch(is[a])
    BY <1>1, <1>3, <1>12, <1>14, <2>1 DEF a
  <2>3. w[a].dists = w[a - 1].dists + 1 /\ w[a - 1].dists \in Nat
    BY <2>2, ReadsMoves
  <2>4. w[a].dists \in 0 .. d
    BY <1>5, <2>1
  <2>5. k <= w[a - 1].dists
    BY <1>6, <1>7, <2>1
  <2>6. g[i - 1].dists = w[a - 1].dists - k
    <3>1. g[i - 1] = [pos |-> w[a - 1].pos, offs |-> w[a - 1].offs, dists |-> w[a - 1].dists - k]
      BY <1>11, <2>1
    <3> QED BY <3>1
  <2>7. g[i - 1].dists + 1 \in 1 .. d - k /\ k + (g[i - 1].dists + 1) = w[a - 1].dists + 1
    <3> DEFINE e == w[a - 1].dists
    <3>1. e \in Nat /\ e + 1 <= d /\ k <= e
      BY <1>1, <2>3, <2>4, <2>5
    <3>2. g[i - 1].dists = e - k
      BY <2>6
    <3> HIDE DEF e
    <3>3. g[i - 1].dists + 1 \in 1 .. d - k /\ k + (g[i - 1].dists + 1) = e + 1
      BY <1>1, <1>8, <3>1, <3>2
    <3> QED BY <3>3 DEF e
  <2>8. es[g[i - 1].dists + 1] = ds[k + (g[i - 1].dists + 1)]
    BY <1>10, <2>7
  <2>9. es[g[i - 1].dists + 1] = ds[w[a - 1].dists + 1]
    BY <2>7, <2>8
  <2>10. m + i - 1 = a - 1
    BY DEF a
  <2> QED BY <2>9, <2>10
<1>15. ASSUME NEW i \in 1 .. n - m PROVE g[i] = Reads(g[i - 1], js[i], es)
  <2> DEFINE a == m + i
  <2>1. a \in 1 .. n /\ a - 1 \in 0 .. n /\ a \in 0 .. n /\ m + (i - 1) = a - 1 /\ m + i - 1 = a - 1
        /\ i - 1 \in 0 .. n - m /\ i \in 0 .. n - m /\ m + i = a
    BY <1>1
  <2> HIDE DEF a
  <2>2. w[a] = Reads(w[a - 1], is[a], ds) /\ w[a - 1] \in States(ds) /\ is[a] \in Items
    BY <1>1, <1>3, <1>12, <2>1
  <2>3. js[i] = is[a]
    BY <1>9, <2>1
  <2>4. g[i - 1] = [pos |-> w[a - 1].pos, offs |-> w[a - 1].offs, dists |-> w[a - 1].dists - k]
    BY <1>11, <2>1
  <2>5. g[i] = [pos |-> w[a].pos, offs |-> w[a].offs, dists |-> w[a].dists - k]
    BY <1>11, <2>1
  <2>6. /\ w[a - 1].dists \in Nat /\ w[a - 1].pos \in Int
        /\ w[a].pos = w[a - 1].pos + is[a].n
        /\ w[a].dists = w[a - 1].dists + (IF IsMatch(is[a]) THEN 1 ELSE 0)
        /\ w[a].offs = IF IsMatch(is[a]) THEN OffsetsAfter(w[a - 1].offs, ds[w[a - 1].dists + 1])
                       ELSE w[a - 1].offs
    <3> DEFINE u == w[a - 1]
               x == is[a]
    <3>1. u \in States(ds) /\ x \in Items /\ w[a] = Reads(u, x, ds)
      BY <2>2
    <3> HIDE DEF u, x
    <3>2. /\ u.pos \in Int /\ u.dists \in Nat
          /\ w[a].pos = u.pos + x.n
          /\ w[a].dists = u.dists + (IF IsMatch(x) THEN 1 ELSE 0)
          /\ w[a].offs = IF IsMatch(x) THEN OffsetsAfter(u.offs, ds[u.dists + 1]) ELSE u.offs
      BY <3>1, ReadsMoves
    <3> QED BY <3>2 DEF u, x
  <2>7. is[a].n \in Nat \ {0}
    BY <2>2 DEF Items
  <2>8. CASE IsMatch(is[a])
    <3>1. es[g[i - 1].dists + 1] = ds[w[a - 1].dists + 1]
      BY <1>14, <2>1, <2>8
    <3>2. Reads(g[i - 1], is[a], es) =
            [pos |-> g[i - 1].pos + is[a].n,
             offs |-> OffsetsAfter(g[i - 1].offs, es[g[i - 1].dists + 1]),
             dists |-> g[i - 1].dists + 1]
      BY <2>8 DEF Reads
    <3>3. g[i - 1].pos = w[a - 1].pos /\ g[i - 1].offs = w[a - 1].offs
          /\ g[i - 1].dists = w[a - 1].dists - k
      BY <2>4
    <3>4. w[a].dists = w[a - 1].dists + 1 /\ w[a].pos = w[a - 1].pos + is[a].n
          /\ w[a].offs = OffsetsAfter(w[a - 1].offs, ds[w[a - 1].dists + 1])
      BY <2>6, <2>8
    <3>5. w[a].dists - k = (w[a - 1].dists - k) + 1
      <4> DEFINE e == w[a - 1].dists
      <4>1. e \in Nat /\ w[a].dists = e + 1
        BY <2>6, <3>4
      <4> HIDE DEF e
      <4>2. w[a].dists - k = (e - k) + 1
        BY <1>8, <4>1
      <4> QED BY <4>2 DEF e
    <3> QED BY <2>3, <2>5, <3>1, <3>2, <3>3, <3>4, <3>5
  <2>9. CASE ~IsMatch(is[a])
    <3>1. is[a].n = 1
      BY <2>7, <2>9 DEF IsMatch
    <3>2. Reads(g[i - 1], is[a], es) = [g[i - 1] EXCEPT !.pos = @ + 1]
      BY <2>9 DEF Reads
    <3>3. w[a].dists = w[a - 1].dists /\ w[a].offs = w[a - 1].offs /\ w[a].pos = w[a - 1].pos + 1
      BY <2>6, <2>9, <3>1
    <3> QED BY <2>3, <2>4, <2>5, <3>2, <3>3
  <2> QED BY <2>8, <2>9
<1>16. w[m].pos \in Int /\ w[m].offs \in Triples
  BY <1>1, <1>5, <1>12
<1>17. \A i \in 0 .. n - m : v[i] = g[i]
  <2>1. Steps(g, w[m].pos, w[m].offs, js, es)
    BY <1>9, <1>13, <1>15 DEF Steps
  <2> DEFINE pp == w[m].pos
             oo == w[m].offs
  <2>2. pp \in Int /\ oo \in Triples /\ Steps(g, pp, oo, js, es)
    BY <1>16, <2>1
  <2>4. js \in Seq(Items)
    BY <1>9
  <2> HIDE DEF pp, oo
  <2>3. \A i \in 0 .. Len(js) : Walk(pp, oo, js, es)[i] = g[i]
    BY <2>2, <2>4, WalkUnique
  <2> QED BY <1>9, <2>3 DEF pp, oo
<1>18. v[n - m] = [pos |-> q, offs |-> o, dists |-> Len(es)]
  <2>1. n - m \in 0 .. n - m /\ m + (n - m) = n
    BY <1>1
  <2>2. v[n - m] = [pos |-> w[n].pos, offs |-> w[n].offs, dists |-> w[n].dists - k]
    BY <1>11, <1>17, <2>1
  <2> QED BY <1>2, <1>10, <2>2
<1>19. ASSUME NEW i \in 1 .. n - m PROVE SpellsIn(t, js[i], v[i - 1], es)
  <2> DEFINE a == m + i
  <2>1. a \in 1 .. n /\ a - 1 \in 0 .. n /\ m + (i - 1) = a - 1 /\ m + i - 1 = a - 1
        /\ i - 1 \in 0 .. n - m /\ m + i = a
    BY <1>1
  <2> HIDE DEF a
  <2>2. SpellsIn(t, is[a], w[a - 1], ds)
    BY <1>2, <2>1
  <2>3. js[i] = is[a] /\ v[i - 1] = g[i - 1]
    BY <1>9, <1>17, <2>1
  <2>4. g[i - 1] = [pos |-> w[a - 1].pos, offs |-> w[a - 1].offs, dists |-> w[a - 1].dists - k]
    BY <1>11, <2>1
  <2>5. g[i - 1].pos = w[a - 1].pos /\ g[i - 1].offs = w[a - 1].offs
    BY <2>4
  <2>6. CASE IsMatch(is[a])
    <3>1. es[g[i - 1].dists + 1] = ds[w[a - 1].dists + 1]
      BY <1>14, <2>1, <2>6
    <3> QED BY <2>2, <2>3, <2>5, <2>6, <3>1 DEF SpellsIn
  <2>7. CASE ~IsMatch(is[a])
    BY <2>2, <2>3, <2>5, <2>7 DEF SpellsIn
  <2> QED BY <2>6, <2>7
<1>20. Keeps(t, w[m].pos, w[m].offs, js, es, q, o)
  BY <1>9, <1>18, <1>19 DEF Keeps, v
<1> QED BY <1>7, <1>8, <1>16, <1>20 DEF w, js, es, n, d, k

-----------------------------------------------------------------------------
\* The invariant of the encoder.
EncTyped ==
  /\ src \in Inputs /\ src_at \in 0 .. SrcSize
  /\ real_mem_window \in [0 .. W + SECONDARY_PARTITION_SIZE - 1 -> Nat]
  /\ base \in Int /\ earliest_window_data_remaining \in Int
  /\ buf_pos \in Int /\ buf_pos_end \in Int
  /\ items \in Seq(Items) /\ dist_data \in Seq(Nat)
  /\ last_matchpos_offset \in Triples /\ repeated_offset_at_literal_zero \in Triples
  /\ first_block \in BOOLEAN
  /\ bufpos_last_output_block \in Int /\ bufpos_at_last_block \in Int

\* The input comes in whole chunks, but for its end; the memory moves in whole chunks.
Chunks(n) == \E k \in Int : n = k * LZX_CHUNK_SIZE
InChunks == /\ buf_pos_end = First + src_at
            /\ (Chunks(src_at) \/ src_at = SrcSize)
            /\ Chunks(base - First)

\* The memory holds the input from base to what was read, as far back as a match may start;
\* it has room for the next chunk when that is read.
MemoryHolds ==
  /\ First <= base /\ First <= buf_pos /\ buf_pos <= buf_pos_end
  /\ buf_pos_end <= base + W + SECONDARY_PARTITION_SIZE
  /\ \/ base = First
     \/ base + W <= buf_pos /\ base <= earliest_window_data_remaining
  /\ \A p \in base .. buf_pos_end - 1 : At(p) = Input(p)
  /\ stage \in {"start", "read"} =>
       /\ buf_pos = buf_pos_end
       /\ src_at < SrcSize => buf_pos < base + W + SECONDARY_PARTITION_SIZE

\* The first block begins where the input does, and the memory has not moved.
FirstBlock ==
  /\ First <= bufpos_at_last_block
  /\ first_block => /\ base = First /\ bufpos_last_output_block = First
                    /\ bufpos_at_last_block = First

Planned == stage = "plan" => buf_pos < buf_pos_end /\ plan \in Plans

\* ItemsSpell, of the items that are kept back.
Spelled == Keeps(src, bufpos_at_last_block, repeated_offset_at_literal_zero, items, dist_data,
                 buf_pos, last_matchpos_offset)

EncInv == EncTyped /\ InChunks /\ MemoryHolds /\ FirstBlock /\ Planned /\ Spelled

\* It says more than ItemsSpell: see InChunk.
LEMMA SpelledIs == Spelled => ItemsSpell
BY DEF Spelled, ItemsSpell, Keeps, SpellsIn, Spells, CopiesIn, Copies, ByteOf, Input

\* A chosen match copies bytes of the input: the memory reaches back as far as it does.
LEMMA RealCopies ==
  ASSUME EncTyped, MemoryHolds, NEW p \in Int, buf_pos <= p, NEW c \in Nat, NEW n \in Nat,
         NEW o \in Triples, Real(p, c, n, o)
  PROVE  /\ CopiesIn(src, p, Distance(c, o), n) /\ p + n <= buf_pos_end
         /\ Distance(c, o) <= Reach /\ InChunk(p, n)
<1> DEFINE d == Distance(c, o)
<1>1. d \in Nat \ {0}
  <2>1. PICK x \in Nat \ {0}, y \in Nat \ {0}, z \in Nat \ {0} : o = <<x, y, z>>
    BY DEF Triples
  <2>2. o[1] = x /\ o[2] = y /\ o[3] = z
    BY <2>1
  <2>3. c = 0 \/ c = 1 \/ c = 2 \/ c > 2
    OBVIOUS
  <2> QED BY <2>2, <2>3 DEF Distance
<1>2. /\ d <= Reach /\ p - d >= First /\ p + n <= buf_pos_end
      /\ \A i \in 0 .. n - 1 : At(p + i) = At(p + i - d)
  BY DEF Real
<1> HIDE DEF d
<1>3. Reach \in Nat /\ W \in Nat /\ Reach < W /\ First = W
  BY EncoderSizes DEF W, First
<1>4. /\ base \in Int /\ buf_pos \in Int /\ buf_pos_end \in Int
      /\ First <= base /\ buf_pos <= buf_pos_end /\ (base = First \/ base + W <= buf_pos)
      /\ \A i \in base .. buf_pos_end - 1 : At(i) = Input(i)
  BY DEF EncTyped, MemoryHolds
<1>5. d \in 1 .. p - First /\ p - d >= base
  BY <1>1, <1>2, <1>3, <1>4
<1>6. ASSUME NEW j \in 0 .. n - 1 PROVE ByteOf(src, p + j) = ByteOf(src, p + j - d)
  <2>1. p + j \in base .. buf_pos_end - 1 /\ p + j - d \in base .. buf_pos_end - 1
    BY <1>1, <1>2, <1>4, <1>5
  <2>2. At(p + j) = Input(p + j) /\ At(p + j - d) = Input(p + j - d)
    BY <1>4, <2>1
  <2> QED BY <1>2, <2>2 DEF ByteOf, Input
<1>7. InChunk(p, n)
  <2>1. n <= LZX_CHUNK_SIZE - 1 - (p % LZX_CHUNK_SIZE) /\ LZX_CHUNK_SIZE \in Nat \ {0}
    BY EncoderSizes DEF Real
  <2>2. p % LZX_CHUNK_SIZE \in Int
    BY <2>1
  <2> QED BY <2>1, <2>2 DEF InChunk
<1> QED BY <1>2, <1>5, <1>6, <1>7 DEF CopiesIn, d

\* One item of a look-ahead, or one that is taken at once, put behind the others.
Coded(ds, i) == IF IsMatch(i) THEN Append(ds, i.c) ELSE ds

\* It keeps what the items stand for: the next bytes of the input.
LEMMA ChoiceKept ==
  ASSUME EncTyped, MemoryHolds, NEW p \in Int, buf_pos <= p, p < buf_pos_end,
         NEW a \in Int, NEW r \in Triples, NEW is \in Seq(Items), NEW ds \in Seq(Nat),
         NEW o \in Triples, Keeps(src, a, r, is, ds, p, o), NEW i \in ItemChoices(p, o)
  PROVE  /\ i \in PlanItems /\ p + i.n <= buf_pos_end
         /\ Append(is, Placed(i, p)) \in Seq(Items) /\ Coded(ds, i) \in Seq(Nat)
         /\ After(o, i) \in Triples
         /\ Keeps(src, a, r, Append(is, Placed(i, p)), Coded(ds, i), p + i.n, After(o, i))
<1> DEFINE x == Placed(i, p)
           es == Coded(ds, i)
<1>1. /\ base \in Int /\ buf_pos \in Int /\ buf_pos_end \in Int /\ First <= base
      /\ base <= buf_pos /\ buf_pos <= buf_pos_end
      /\ buf_pos_end <= base + W + SECONDARY_PARTITION_SIZE
      /\ \A k \in base .. buf_pos_end - 1 : At(k) = Input(k)
  BY EncoderSizes DEF EncTyped, MemoryHolds, First, W
<1>2. At(p) = Input(p) /\ At(p) \in Nat
  <2>1. p \in base .. buf_pos_end - 1 /\ p - base \in 0 .. W + SECONDARY_PARTITION_SIZE - 1
    BY <1>1, EncoderSizes DEF W
  <2>2. real_mem_window[p - base] \in Nat
    BY <2>1 DEF EncTyped
  <2> QED BY <1>1, <2>1, <2>2 DEF At
<1>3. CASE i = [n |-> 1, c |-> 0]
  <2>1. i \in PlanItems /\ i.n = 1 /\ ~IsMatch(i) /\ i.c = 0
    BY <1>3 DEF PlanItems, IsMatch
  <2>2. x = Lit(At(p)) /\ x \in Items /\ ~IsMatch(x) /\ x.n = 1 /\ x.byte = At(p)
    BY <1>2, <2>1 DEF Placed, Lit, Items, IsMatch
  <2>3. es = ds /\ After(o, i) = o
    BY <2>1 DEF Coded, After
  <2> HIDE DEF x, es
  <2>10. InChunk(p, 1)
    <3>1. LZX_CHUNK_SIZE \in Nat \ {0}
      BY EncoderSizes
    <3>2. p % LZX_CHUNK_SIZE \in 0 .. LZX_CHUNK_SIZE - 1
      BY <3>1
    <3> QED BY <3>1, <3>2 DEF InChunk
  <2>4. SpellsIn(src, x, [pos |-> p, offs |-> o, dists |-> Len(ds)], ds)
    BY <1>2, <2>2, <2>10 DEF SpellsIn, ByteOf, Input
  <2>5. Len(ds) = Len(ds) + (IF IsMatch(x) THEN 1 ELSE 0)
    BY <2>2
  <2>6. Keeps(src, a, r, Append(is, x), ds, p + x.n,
              IF IsMatch(x) THEN OffsetsAfter(o, ds[Len(ds) + 1]) ELSE o)
    BY <2>2, <2>4, <2>5, KeepsLonger
  <2>7. Keeps(src, a, r, Append(is, x), es, p + i.n, After(o, i))
    BY <2>1, <2>2, <2>3, <2>6
  <2>8. p + i.n <= buf_pos_end
    BY <1>1, <2>1
  <2>9. Append(is, x) \in Seq(Items) /\ es \in Seq(Nat) /\ After(o, i) \in Triples
    BY <2>2, <2>3
  <2> QED BY <2>1, <2>7, <2>8, <2>9 DEF x, es
<1>4. CASE \E m \in MatchesAt(p, o) : i = [n |-> m[2], c |-> m[1]]
  <2>1. PICK m \in MatchesAt(p, o) : i = [n |-> m[2], c |-> m[1]]
    BY <1>4
  <2>2. /\ m[1] \in 0 .. Reach + 2 /\ m[2] \in LZX_MIN_MATCH .. LZX_MAX_MATCH
        /\ Real(p, m[1], m[2], o)
    BY DEF MatchesAt
  <2>3. i.n = m[2] /\ i.c = m[1] /\ i.n \in Nat /\ i.c \in Nat /\ i.n > 1
    BY <2>1, <2>2, EncoderSizes
  <2>4. i \in PlanItems /\ IsMatch(i) /\ Real(p, i.c, i.n, o)
    BY <2>1, <2>2, <2>3 DEF PlanItems, IsMatch
  <2>5. x = Mat(i.n) /\ x \in Items /\ IsMatch(x) /\ x.n = i.n
    BY <2>3, <2>4 DEF Placed, Mat, Items, IsMatch
  <2>6. es = Append(ds, i.c) /\ After(o, i) = OffsetsAfter(o, i.c)
    BY <2>3, <2>4 DEF Coded, After
  <2>7. /\ es \in Seq(Nat) /\ Len(es) = Len(ds) + 1 /\ es[Len(ds) + 1] = i.c
        /\ \A j \in 1 .. Len(ds) : es[j] = ds[j]
    <3> HIDE DEF es
    <3> QED BY <2>3, <2>6
  <2> HIDE DEF x, es
  <2>8. /\ CopiesIn(src, p, Distance(i.c, o), i.n) /\ p + i.n <= buf_pos_end
        /\ Distance(i.c, o) <= Reach /\ InChunk(p, i.n)
    BY <2>3, <2>4, RealCopies
  <2>9. SpellsIn(src, x, [pos |-> p, offs |-> o, dists |-> Len(ds)], es)
    BY <2>2, <2>3, <2>5, <2>7, <2>8 DEF SpellsIn
  <2>10. Len(es) = Len(ds) + (IF IsMatch(x) THEN 1 ELSE 0)
    BY <2>5, <2>7
  <2>11. Keeps(src, a, r, Append(is, x), es, p + x.n,
               IF IsMatch(x) THEN OffsetsAfter(o, es[Len(ds) + 1]) ELSE o)
    BY <2>5, <2>7, <2>9, <2>10, KeepsLonger
  <2>12. Keeps(src, a, r, Append(is, x), es, p + i.n, After(o, i))
    BY <2>5, <2>6, <2>7, <2>11
  <2>13. After(o, i) \in Triples
    BY <2>3, <2>6, AfterTyped
  <2>14. Append(is, x) \in Seq(Items)
    BY <2>5
  <2> QED BY <2>4, <2>7, <2>8, <2>12, <2>13, <2>14 DEF x, es
<1>5. i = [n |-> 1, c |-> 0] \/ \E m \in MatchesAt(p, o) : i = [n |-> m[2], c |-> m[1]]
  BY DEF ItemChoices
<1> QED BY <1>3, <1>4, <1>5

-----------------------------------------------------------------------------
\* The sizes are numbers, and the memory is whole chunks.
LEMMA Sizes ==
  /\ W \in Nat /\ First = W /\ SECONDARY_PARTITION_SIZE \in Nat \ {0}
  /\ LZX_CHUNK_SIZE \in Nat \ {0}
  /\ Chunks(W) /\ Chunks(SECONDARY_PARTITION_SIZE)
<1>1. /\ W \in Nat /\ First = W /\ SECONDARY_PARTITION_SIZE \in Nat \ {0}
      /\ LZX_CHUNK_SIZE \in Nat \ {0}
      /\ W % LZX_CHUNK_SIZE = 0 /\ SECONDARY_PARTITION_SIZE % LZX_CHUNK_SIZE = 0
  BY EncoderSizes DEF W, First
<1>2. ASSUME NEW n \in Nat, n % LZX_CHUNK_SIZE = 0 PROVE Chunks(n)
  <2> DEFINE k == n \div LZX_CHUNK_SIZE
  <2>1. k \in Int /\ n = k * LZX_CHUNK_SIZE + (n % LZX_CHUNK_SIZE)
    BY <1>1
  <2>2. n = k * LZX_CHUNK_SIZE
    BY <1>1, <1>2, <2>1
  <2> HIDE DEF k
  <2> QED BY <2>1, <2>2 DEF Chunks
<1> QED BY <1>1, <1>2

\* Nothing was kept back yet, and nothing was read.
LEMMA NothingKept ==
  ASSUME NEW t, NEW p \in Int, NEW o \in Triples
  PROVE  Keeps(t, p, o, <<>>, <<>>, p, o)
<1>1. <<>> \in Seq(Items) /\ Len(<<>>) = 0
  OBVIOUS
<1>2. Walk(p, o, <<>>, <<>>)[0] = [pos |-> p, offs |-> o, dists |-> 0]
  BY <1>1, WalkSteps, ZenonT(30)
<1> QED BY <1>1, <1>2 DEF Keeps

\* The offsets at the start.
LEMMA NoOffsets == <<1, 1, 1>> \in Triples
BY DEF Triples

\* lzx_compress starts with nothing read and nothing kept back.
LEMMA EncoderStarts == EncoderInit => EncInv
<1> SUFFICES ASSUME EncoderInit PROVE EncInv
  OBVIOUS
<1>1. /\ src \in Inputs /\ src_at = 0 /\ stage = "start" /\ base = W
      /\ real_mem_window = [i \in 0 .. W + SECONDARY_PARTITION_SIZE - 1 |-> 0]
      /\ buf_pos = First /\ buf_pos_end = First
      /\ items = <<>> /\ dist_data = <<>>
      /\ last_matchpos_offset = <<1, 1, 1>> /\ repeated_offset_at_literal_zero = <<1, 1, 1>>
      /\ first_block = TRUE
      /\ bufpos_last_output_block = First /\ bufpos_at_last_block = First
      /\ earliest_window_data_remaining = First
  BY DEF EncoderInit
<1>2. SrcSize \in Nat
  BY <1>1, InputsAssumption DEF SrcSize
<1>3. EncTyped
  <2>1. real_mem_window \in [0 .. W + SECONDARY_PARTITION_SIZE - 1 -> Nat]
    BY <1>1
  <2>2. items \in Seq(Items) /\ dist_data \in Seq(Nat)
    BY <1>1
  <2> QED BY <1>1, <1>2, <2>1, <2>2, Sizes, NoOffsets DEF EncTyped
<1>4. InChunks
  <2>1. Chunks(0)
    <3>1. 0 = 0 * LZX_CHUNK_SIZE
      BY Sizes
    <3> QED BY <3>1 DEF Chunks
  <2>2. base - First = 0 /\ buf_pos_end = First + src_at
    BY <1>1, Sizes
  <2> QED BY <1>1, <2>1, <2>2 DEF InChunks
<1>5. MemoryHolds
  <2>1. /\ First <= base /\ First <= buf_pos /\ buf_pos <= buf_pos_end /\ base = First
        /\ buf_pos = buf_pos_end
        /\ buf_pos_end <= base + W + SECONDARY_PARTITION_SIZE
        /\ buf_pos < base + W + SECONDARY_PARTITION_SIZE
        /\ base .. buf_pos_end - 1 = {}
    BY <1>1, Sizes
  <2> QED BY <2>1 DEF MemoryHolds
<1>6. FirstBlock
  BY <1>1, Sizes DEF FirstBlock
<1>7. Planned
  BY <1>1 DEF Planned
<1>8. Spelled
  <2>1. First \in Int
    BY Sizes
  <2> QED BY <1>1, <2>1, NoOffsets, NothingKept DEF Spelled
<1> QED BY <1>3, <1>4, <1>5, <1>6, <1>7, <1>8 DEF EncInv

\* What the invariant speaks of, but the stage and the plan.
kept == <<src, src_at, real_mem_window, base, earliest_window_data_remaining, buf_pos,
          buf_pos_end, items, dist_data, last_matchpos_offset,
          repeated_offset_at_literal_zero, first_block, bufpos_last_output_block,
          bufpos_at_last_block>>

\* A step that changes nothing of it, and makes no plan of its own, keeps the invariant.
LEMMA KeptSame ==
  ASSUME EncInv, UNCHANGED kept, Planned',
         stage' \in {"start", "read"} => stage \in {"start", "read"}
  PROVE  EncInv'
<1>1. /\ src' = src /\ src_at' = src_at /\ real_mem_window' = real_mem_window /\ base' = base
      /\ earliest_window_data_remaining' = earliest_window_data_remaining
      /\ buf_pos' = buf_pos /\ buf_pos_end' = buf_pos_end
      /\ items' = items /\ dist_data' = dist_data
      /\ last_matchpos_offset' = last_matchpos_offset
      /\ repeated_offset_at_literal_zero' = repeated_offset_at_literal_zero
      /\ first_block' = first_block /\ bufpos_last_output_block' = bufpos_last_output_block
      /\ bufpos_at_last_block' = bufpos_at_last_block
  BY DEF kept
<1>2. EncTyped' /\ InChunks' /\ FirstBlock' /\ Spelled'
  BY <1>1 DEF EncInv, EncTyped, InChunks, FirstBlock, Spelled, SrcSize
<1>3. MemoryHolds'
  BY <1>1 DEF EncInv, MemoryHolds, SrcSize, At, Input
<1> QED BY <1>2, <1>3 DEF EncInv

\* What may be chosen depends on no more than this.
LEMMA PlansSame ==
  ASSUME UNCHANGED <<real_mem_window, base, buf_pos, buf_pos_end, last_matchpos_offset>>
  PROVE  Plans' = Plans
BY DEF Plans, ItemChoices, MatchesAt, Real, At

\* The parser goes on over what was read.
LEMMA GoesOn ==
  ASSUME EncInv, stage' \notin {"start", "read", "plan"},
         UNCHANGED <<src, src_at, real_mem_window, base, earliest_window_data_remaining,
                     buf_pos_end, repeated_offset_at_literal_zero, first_block,
                     bufpos_last_output_block, bufpos_at_last_block>>,
         buf_pos' \in Int, buf_pos <= buf_pos', buf_pos' <= buf_pos_end,
         items' \in Seq(Items), dist_data' \in Seq(Nat), last_matchpos_offset' \in Triples,
         Keeps(src, bufpos_at_last_block, repeated_offset_at_literal_zero, items', dist_data',
               buf_pos', last_matchpos_offset')
  PROVE  EncInv'
<1>1. /\ src' = src /\ src_at' = src_at /\ real_mem_window' = real_mem_window /\ base' = base
      /\ earliest_window_data_remaining' = earliest_window_data_remaining
      /\ buf_pos_end' = buf_pos_end
      /\ repeated_offset_at_literal_zero' = repeated_offset_at_literal_zero
      /\ first_block' = first_block /\ bufpos_last_output_block' = bufpos_last_output_block
      /\ bufpos_at_last_block' = bufpos_at_last_block
  OBVIOUS
<1>2. EncTyped'
  BY <1>1 DEF EncInv, EncTyped, SrcSize
<1>3. InChunks' /\ FirstBlock'
  BY <1>1 DEF EncInv, InChunks, FirstBlock, SrcSize
<1>4. Spelled'
  BY <1>1 DEF Spelled
<1>5. MemoryHolds'
  <2>1. /\ First <= base /\ First <= buf_pos /\ buf_pos <= buf_pos_end
        /\ buf_pos_end <= base + W + SECONDARY_PARTITION_SIZE
        /\ (base = First \/ (base + W <= buf_pos /\ base <= earliest_window_data_remaining))
        /\ \A p \in base .. buf_pos_end - 1 : At(p) = Input(p)
    BY DEF EncInv, MemoryHolds
  <2>2. \A p \in base' .. buf_pos_end' - 1 : At(p)' = Input(p)'
    BY <1>1, <2>1 DEF At, Input
  <2>3. base \in Int /\ buf_pos \in Int /\ W \in Int /\ First \in Int
    BY Sizes DEF EncInv, EncTyped
  <2>4. First <= buf_pos' /\ (base = First \/ base + W <= buf_pos')
    BY <2>1, <2>3
  <2> QED BY <1>1, <2>1, <2>2, <2>4 DEF MemoryHolds, At, Input, SrcSize
<1>6. Planned'
  BY DEF Planned
<1> QED BY <1>2, <1>3, <1>4, <1>5, <1>6 DEF EncInv

-----------------------------------------------------------------------------
\* An item that is chosen where the parser is, put behind those that are kept back.
LEMMA PutsOne ==
  ASSUME EncInv, buf_pos < buf_pos_end, NEW i \in ItemChoices(buf_pos, last_matchpos_offset)
  PROVE  /\ i \in PlanItems /\ buf_pos + i.n <= buf_pos_end
         /\ Append(items, Placed(i, buf_pos)) \in Seq(Items)
         /\ Coded(dist_data, i) \in Seq(Nat) /\ After(last_matchpos_offset, i) \in Triples
         /\ Keeps(src, bufpos_at_last_block, repeated_offset_at_literal_zero,
                  Append(items, Placed(i, buf_pos)), Coded(dist_data, i), buf_pos + i.n,
                  After(last_matchpos_offset, i))
<1>1. /\ EncTyped /\ MemoryHolds /\ buf_pos \in Int /\ buf_pos <= buf_pos
      /\ bufpos_at_last_block \in Int /\ repeated_offset_at_literal_zero \in Triples
      /\ items \in Seq(Items) /\ dist_data \in Seq(Nat) /\ last_matchpos_offset \in Triples
      /\ Keeps(src, bufpos_at_last_block, repeated_offset_at_literal_zero, items, dist_data,
               buf_pos, last_matchpos_offset)
  BY DEF EncInv, EncTyped, Spelled
<1> QED BY <1>1, ChoiceKept

\* A literal at once: the byte at buf_pos is the input's.
LEMMA LiteralStep == ASSUME EncInv, Literal PROVE EncInv'
<1> DEFINE i == [n |-> 1, c |-> 0]
<1>1. /\ buf_pos < buf_pos_end /\ items' = Append(items, Lit(At(buf_pos)))
      /\ buf_pos' = buf_pos + 1 /\ stage' \in {"block", "parse"}
      /\ UNCHANGED <<src, src_at, real_mem_window, base, earliest_window_data_remaining,
                     buf_pos_end, repeated_offset_at_literal_zero, first_block,
                     bufpos_last_output_block, bufpos_at_last_block, dist_data,
                     last_matchpos_offset>>
  BY DEF Literal, inputVars, memVars, blockVars
<1>2. i \in ItemChoices(buf_pos, last_matchpos_offset) /\ ~IsMatch(i) /\ i.n = 1
  BY DEF ItemChoices, IsMatch
<1>3. Placed(i, buf_pos) = Lit(At(buf_pos)) /\ Coded(dist_data, i) = dist_data
      /\ After(last_matchpos_offset, i) = last_matchpos_offset
  BY <1>2 DEF Placed, Coded, After, IsMatch
<1> HIDE DEF i
<1>4. /\ buf_pos + 1 <= buf_pos_end
      /\ items' \in Seq(Items) /\ dist_data' \in Seq(Nat) /\ last_matchpos_offset' \in Triples
      /\ Keeps(src, bufpos_at_last_block, repeated_offset_at_literal_zero, items', dist_data',
               buf_pos', last_matchpos_offset')
  BY <1>1, <1>2, <1>3, PutsOne
<1>5. buf_pos' \in Int /\ buf_pos <= buf_pos' /\ buf_pos' <= buf_pos_end
  BY <1>1, <1>4 DEF EncInv, EncTyped
<1>6. stage' \notin {"start", "read", "plan"}
  BY <1>1
<1> QED BY <1>1, <1>4, <1>5, <1>6, GoesOn

\* A match at once.
LEMMA LongMatchStep ==
  ASSUME EncInv, NEW m \in MatchesAt(buf_pos, last_matchpos_offset), LongMatch(m[1], m[2])
  PROVE  EncInv'
<1> DEFINE i == [n |-> m[2], c |-> m[1]]
<1>1. /\ buf_pos < buf_pos_end /\ items' = Append(items, Mat(m[2]))
      /\ dist_data' = Append(dist_data, m[1])
      /\ buf_pos' = buf_pos + m[2] /\ stage' \in {"block", "parse"}
      /\ last_matchpos_offset' = OffsetsAfter(last_matchpos_offset, m[1])
      /\ UNCHANGED <<src, src_at, real_mem_window, base, earliest_window_data_remaining,
                     buf_pos_end, repeated_offset_at_literal_zero, first_block,
                     bufpos_last_output_block, bufpos_at_last_block>>
  BY DEF LongMatch, inputVars, memVars, blockVars
<1>2. m[2] \in Nat /\ m[2] > 1
  BY EncoderSizes DEF MatchesAt
<1>3. i \in ItemChoices(buf_pos, last_matchpos_offset) /\ IsMatch(i) /\ i.n = m[2] /\ i.c = m[1]
  BY <1>2 DEF ItemChoices, IsMatch
<1>4. Placed(i, buf_pos) = Mat(m[2]) /\ Coded(dist_data, i) = Append(dist_data, m[1])
      /\ After(last_matchpos_offset, i) = OffsetsAfter(last_matchpos_offset, m[1])
  BY <1>3 DEF Placed, Coded, After, IsMatch
<1> HIDE DEF i
<1>5. /\ buf_pos + m[2] <= buf_pos_end
      /\ items' \in Seq(Items) /\ dist_data' \in Seq(Nat) /\ last_matchpos_offset' \in Triples
      /\ Keeps(src, bufpos_at_last_block, repeated_offset_at_literal_zero, items', dist_data',
               buf_pos', last_matchpos_offset')
  BY <1>1, <1>3, <1>4, PutsOne
<1>6. buf_pos' \in Int /\ buf_pos <= buf_pos' /\ buf_pos' <= buf_pos_end
  BY <1>1, <1>2, <1>5, SMTT(30) DEF EncInv, EncTyped
<1>7. stage' \notin {"start", "read", "plan"}
  BY <1>1
<1> QED BY <1>1, <1>5, <1>6, <1>7, GoesOn

\* The items of a plan of one, and of one of two.
LEMMA PlanOfOne ==
  ASSUME NEW i \in PlanItems, NEW o \in Triples, NEW ds \in Seq(Nat)
  PROVE  /\ BytesUpTo(<<i>>)[0] = 0 /\ BytesOf(<<i>>) = i.n
         /\ ds \o CodesOf(<<i>>) = Coded(ds, i)
         /\ OffsetsThrough(o, CodesOf(<<i>>)) = After(o, i)
<1> DEFINE is == <<i>>
<1>1. i.n \in Nat /\ i.c \in Nat
  BY DEF PlanItems
<1>2. is \in Seq(PlanItems) /\ Len(is) = 1 /\ is[1] = i /\ Sized(is)
  BY <1>1 DEF Sized
<1> HIDE DEF is
<1>3. BytesUpTo(is)[0] = 0 /\ BytesUpTo(is)[1] = BytesUpTo(is)[1 - 1] + i.n
  BY <1>2, BytesStepsOf
<1>4. CodesUpTo(is)[0] = <<>>
      /\ CodesUpTo(is)[1] = IF IsMatch(i) THEN Append(CodesUpTo(is)[1 - 1], i.c)
                             ELSE CodesUpTo(is)[1 - 1]
  BY <1>2, CodesSteps
<1>5. BytesOf(is) = i.n
  BY <1>1, <1>2, <1>3 DEF BytesOf
<1>6. CodesOf(is) = IF IsMatch(i) THEN <<i.c>> ELSE <<>>
  <2>1. CodesOf(is) = CodesUpTo(is)[1] /\ 1 - 1 = 0
    BY <1>2 DEF CodesOf
  <2>2. Append(<<>>, i.c) = <<i.c>>
    BY <1>1
  <2> QED BY <1>4, <2>1, <2>2
<1>7. CASE IsMatch(i)
  <2> DEFINE cs == <<i.c>>
  <2>1. cs \in Seq(Nat) /\ Len(cs) = 1 /\ cs[1] = i.c /\ CodesOf(is) = cs
    BY <1>1, <1>6, <1>7
  <2>2. ds \o cs = Append(ds, i.c)
    BY <1>1
  <2> HIDE DEF cs
  <2>3. OffsetsUpTo(o, cs)[0] = o
        /\ OffsetsUpTo(o, cs)[1] = OffsetsAfter(OffsetsUpTo(o, cs)[1 - 1], cs[1])
    BY <2>1, OffsetsSteps
  <2>4. OffsetsThrough(o, cs) = OffsetsAfter(o, i.c)
    BY <2>1, <2>3 DEF OffsetsThrough
  <2> QED BY <1>3, <1>5, <1>7, <2>1, <2>2, <2>4 DEF Coded, After, IsMatch, is
<1>8. CASE ~IsMatch(i)
  <2> DEFINE cs == <<>>
  <2>1. cs \in Seq(Nat) /\ Len(cs) = 0 /\ CodesOf(is) = cs
    BY <1>6, <1>8
  <2>2. ds \o cs = ds
    OBVIOUS
  <2> HIDE DEF cs
  <2>3. OffsetsUpTo(o, cs)[0] = o
    BY <2>1, OffsetsSteps
  <2>4. OffsetsThrough(o, cs) = o
    BY <2>1, <2>3 DEF OffsetsThrough
  <2> QED BY <1>3, <1>5, <1>8, <2>1, <2>2, <2>4 DEF Coded, After, IsMatch, is
<1> QED BY <1>7, <1>8

\* What is put behind the second of two sequences is put behind both.
LEMMA AppendBehind ==
  ASSUME NEW s \in Seq(Nat), NEW t \in Seq(Nat), NEW x \in Nat
  PROVE  s \o Append(t, x) = Append(s \o t, x)
<1> DEFINE u == s \o Append(t, x)
           v == Append(s \o t, x)
<1>1. /\ u \in Seq(Nat) /\ v \in Seq(Nat)
      /\ Len(u) = Len(s) + Len(t) + 1 /\ Len(v) = Len(s) + Len(t) + 1
  OBVIOUS
<1>2. \A i \in 1 .. Len(u) : u[i] = v[i]
  OBVIOUS
<1> HIDE DEF u, v
<1>3. u = v
  BY <1>1, <1>2, SeqEqual
<1> QED BY <1>3 DEF u, v

\* The second item stands where the first one ends.
LEMMA PlanOfTwo ==
  ASSUME NEW i \in PlanItems, NEW j \in PlanItems, NEW o \in Triples, NEW ds \in Seq(Nat)
  PROVE  /\ BytesUpTo(<<i, j>>)[0] = 0 /\ BytesUpTo(<<i, j>>)[1] = i.n
         /\ BytesOf(<<i, j>>) = i.n + j.n
         /\ ds \o CodesOf(<<i, j>>) = Coded(Coded(ds, i), j)
         /\ OffsetsThrough(o, CodesOf(<<i, j>>)) = After(After(o, i), j)
<1> DEFINE is == <<i, j>>
           ci == IF IsMatch(i) THEN <<i.c>> ELSE <<>>
           cs == IF IsMatch(j) THEN Append(ci, j.c) ELSE ci
<1>1. i.n \in Nat /\ i.c \in Nat /\ j.n \in Nat /\ j.c \in Nat
  BY DEF PlanItems
<1>2. is \in Seq(PlanItems) /\ Len(is) = 2 /\ is[1] = i /\ is[2] = j /\ Sized(is)
  BY <1>1 DEF Sized
<1> HIDE DEF is
<1>3. /\ BytesUpTo(is)[0] = 0 /\ BytesUpTo(is)[1] = BytesUpTo(is)[1 - 1] + i.n
      /\ BytesUpTo(is)[2] = BytesUpTo(is)[2 - 1] + j.n
  <2>1. 1 \in 1 .. Len(is) /\ 2 \in 1 .. Len(is)
    BY <1>2
  <2>2. BytesUpTo(is)[0] = 0
        /\ \A k \in 1 .. Len(is) : BytesUpTo(is)[k] = BytesUpTo(is)[k - 1] + is[k].n
    BY <1>2, BytesStepsOf
  <2> QED BY <1>2, <2>1, <2>2
<1>4. /\ CodesUpTo(is)[0] = <<>>
      /\ CodesUpTo(is)[1] = IF IsMatch(i) THEN Append(CodesUpTo(is)[1 - 1], i.c)
                             ELSE CodesUpTo(is)[1 - 1]
      /\ CodesUpTo(is)[2] = IF IsMatch(j) THEN Append(CodesUpTo(is)[2 - 1], j.c)
                             ELSE CodesUpTo(is)[2 - 1]
  <2>1. 1 \in 1 .. Len(is) /\ 2 \in 1 .. Len(is)
    BY <1>2
  <2>2. CodesUpTo(is)[0] = <<>>
        /\ \A k \in 1 .. Len(is) :
             CodesUpTo(is)[k] = IF IsMatch(is[k]) THEN Append(CodesUpTo(is)[k - 1], is[k].c)
                                ELSE CodesUpTo(is)[k - 1]
    BY <1>2, CodesSteps
  <2> QED BY <1>2, <2>1, <2>2
<1>5. BytesUpTo(is)[1] = i.n /\ BytesOf(is) = i.n + j.n
  BY <1>1, <1>2, <1>3 DEF BytesOf
<1>6. CodesOf(is) = cs
  <2>1. CodesOf(is) = CodesUpTo(is)[2] /\ 1 - 1 = 0 /\ 2 - 1 = 1
    BY <1>2 DEF CodesOf
  <2>2. Append(<<>>, i.c) = <<i.c>>
    BY <1>1
  <2>3. CodesUpTo(is)[1] = ci
    BY <1>4, <2>1, <2>2
  <2> QED BY <1>4, <2>1, <2>3
<1>7. ci \in Seq(Nat) /\ ds \o ci = Coded(ds, i) /\ OffsetsThrough(o, ci) = After(o, i)
  <2>1. CodesOf(<<i>>) = ci
    <3> DEFINE js == <<i>>
    <3>1. js \in Seq(PlanItems) /\ Len(js) = 1 /\ js[1] = i
      OBVIOUS
    <3> HIDE DEF js
    <3>2. CodesUpTo(js)[0] = <<>>
          /\ CodesUpTo(js)[1] = IF IsMatch(i) THEN Append(CodesUpTo(js)[1 - 1], i.c)
                                 ELSE CodesUpTo(js)[1 - 1]
      BY <3>1, CodesSteps
    <3>3. CodesOf(js) = CodesUpTo(js)[1] /\ 1 - 1 = 0 /\ Append(<<>>, i.c) = <<i.c>>
      BY <1>1, <3>1 DEF CodesOf
    <3> QED BY <3>2, <3>3 DEF js
  <2>2. ci \in Seq(Nat)
    BY <1>1
  <2> HIDE DEF ci
  <2> QED BY <2>1, <2>2, PlanOfOne
<1> HIDE DEF ci
<1>8. Coded(ds, i) \in Seq(Nat)
  BY <1>1 DEF Coded
<1>9. CASE IsMatch(j)
  <2>1. cs = Append(ci, j.c) /\ Len(cs) = Len(ci) + 1 /\ cs \in Seq(Nat) /\ cs[Len(ci) + 1] = j.c
        /\ \A k \in 1 .. Len(ci) : cs[k] = ci[k]
    BY <1>1, <1>7, <1>9
  <2>2. ds \o cs = Append(ds \o ci, j.c)
    <3> DEFINE x == j.c
    <3>1. x \in Nat /\ cs = Append(ci, x) /\ ci \in Seq(Nat)
      BY <1>1, <1>7, <2>1
    <3> HIDE DEF cs, x
    <3>2. ds \o Append(ci, x) = Append(ds \o ci, x)
      BY <3>1, AppendBehind
    <3> QED BY <3>1, <3>2 DEF x
  <2> HIDE DEF cs
  <2>3. OffsetsThrough(o, cs) = OffsetsAfter(OffsetsThrough(o, ci), j.c)
    <3>1. SubSeq(cs, 1, Len(ci)) = ci /\ Len(ci) \in 0 .. Len(cs) /\ Len(ci) + 1 \in 1 .. Len(cs)
      BY <1>1, <1>7, <2>1
    <3>2. OffsetsThrough(o, ci) = OffsetsUpTo(o, cs)[Len(ci)]
      <4>1. OffsetsThrough(o, SubSeq(cs, 1, Len(ci))) = OffsetsUpTo(o, cs)[Len(ci)]
        BY <2>1, <3>1, OffsetsOfFirst
      <4> QED BY <3>1, <4>1
    <3>3. OffsetsUpTo(o, cs)[Len(ci) + 1] =
            OffsetsAfter(OffsetsUpTo(o, cs)[Len(ci) + 1 - 1], cs[Len(ci) + 1])
      <4>1. \A k \in 1 .. Len(cs) :
              OffsetsUpTo(o, cs)[k] = OffsetsAfter(OffsetsUpTo(o, cs)[k - 1], cs[k])
        BY <2>1, OffsetsSteps
      <4> DEFINE e == Len(ci) + 1
      <4>2. e \in 1 .. Len(cs)
        BY <3>1
      <4> HIDE DEF e
      <4>3. OffsetsUpTo(o, cs)[e] = OffsetsAfter(OffsetsUpTo(o, cs)[e - 1], cs[e])
        BY <4>1, <4>2
      <4> QED BY <4>3 DEF e
    <3>4. Len(ci) + 1 - 1 = Len(ci)
      BY <1>7
    <3> QED BY <2>1, <3>2, <3>3, <3>4 DEF OffsetsThrough
  <2> QED BY <1>3, <1>5, <1>6, <1>7, <1>9, <2>2, <2>3 DEF Coded, After, IsMatch, is
<1>10. CASE ~IsMatch(j)
  <2>1. cs = ci
    BY <1>10
  <2> HIDE DEF cs
  <2> QED BY <1>3, <1>5, <1>6, <1>7, <1>10, <2>1 DEF Coded, After, IsMatch, is
<1> QED BY <1>9, <1>10

\* A plan: each of its items is put where the ones before it end.
LEMMA CommitStep == ASSUME EncInv, Commit PROVE EncInv'
<1>1. /\ stage = "plan" /\ stage' \in {"redo", "parse"}
      /\ items' = items \o [k \in 1 .. Len(plan) |->
                               Placed(plan[k], buf_pos + BytesUpTo(plan)[k - 1])]
      /\ dist_data' = dist_data \o CodesOf(plan)
      /\ buf_pos' = buf_pos + BytesOf(plan)
      /\ last_matchpos_offset' = OffsetsThrough(last_matchpos_offset, CodesOf(plan))
      /\ UNCHANGED <<src, src_at, real_mem_window, base, earliest_window_data_remaining,
                     buf_pos_end, repeated_offset_at_literal_zero, first_block,
                     bufpos_last_output_block, bufpos_at_last_block>>
  BY DEF Commit, inputVars, memVars, blockVars
<1>2. /\ EncTyped /\ MemoryHolds /\ buf_pos < buf_pos_end /\ plan \in Plans
      /\ buf_pos \in Int /\ buf_pos_end \in Int
      /\ bufpos_at_last_block \in Int /\ repeated_offset_at_literal_zero \in Triples
      /\ items \in Seq(Items) /\ dist_data \in Seq(Nat) /\ last_matchpos_offset \in Triples
  BY <1>1 DEF EncInv, EncTyped, Planned
<1>3. \/ \E i \in ItemChoices(buf_pos, last_matchpos_offset) : plan = <<i>>
      \/ \E i \in ItemChoices(buf_pos, last_matchpos_offset) :
           /\ buf_pos + i.n < buf_pos_end
           /\ \E j \in ItemChoices(buf_pos + i.n, After(last_matchpos_offset, i)) : plan = <<i, j>>
  BY <1>2 DEF Plans
<1> DEFINE Good == /\ buf_pos' \in Int /\ buf_pos <= buf_pos' /\ buf_pos' <= buf_pos_end
                   /\ items' \in Seq(Items) /\ dist_data' \in Seq(Nat)
                   /\ last_matchpos_offset' \in Triples
                   /\ Keeps(src, bufpos_at_last_block, repeated_offset_at_literal_zero, items',
                            dist_data', buf_pos', last_matchpos_offset')
<1>4. ASSUME NEW i \in ItemChoices(buf_pos, last_matchpos_offset), plan = <<i>> PROVE Good
  <2>1. /\ i \in PlanItems /\ buf_pos + i.n <= buf_pos_end
        /\ Append(items, Placed(i, buf_pos)) \in Seq(Items)
        /\ Coded(dist_data, i) \in Seq(Nat) /\ After(last_matchpos_offset, i) \in Triples
        /\ Keeps(src, bufpos_at_last_block, repeated_offset_at_literal_zero,
                 Append(items, Placed(i, buf_pos)), Coded(dist_data, i), buf_pos + i.n,
                 After(last_matchpos_offset, i))
    BY <1>2, PutsOne
  <2>2. /\ BytesUpTo(plan)[0] = 0 /\ buf_pos' = buf_pos + i.n
        /\ dist_data' = Coded(dist_data, i)
        /\ last_matchpos_offset' = After(last_matchpos_offset, i)
    BY <1>1, <1>2, <1>4, <2>1, PlanOfOne
  <2>3. items' = Append(items, Placed(i, buf_pos))
    <3> DEFINE x == Placed(i, buf_pos)
               ps == [k \in 1 .. Len(plan) |-> Placed(plan[k], buf_pos + BytesUpTo(plan)[k - 1])]
    <3>1. Len(plan) = 1 /\ plan[1] = i
      BY <1>4
    <3>2. DOMAIN ps = 1 .. 1 /\ ps[1] = Placed(plan[1], buf_pos + BytesUpTo(plan)[1 - 1])
      BY <3>1
    <3>3. 1 - 1 = 0 /\ buf_pos + 0 = buf_pos
      BY <1>2
    <3>4. ps[1] = x
      BY <2>2, <3>1, <3>2, <3>3
    <3>5. items' = items \o ps
      BY <1>1
    <3>7. ps = [k \in 1 .. 1 |-> ps[k]]
      BY <3>1
    <3> HIDE DEF x, ps
    <3>6. ps = <<x>>
      BY <3>4, <3>7
    <3>8. items \o <<x>> = Append(items, x)
      BY <1>2
    <3> QED BY <3>5, <3>6, <3>8 DEF x
  <2>4. i.n \in Nat
    BY <2>1 DEF PlanItems
  <2>5. buf_pos' \in Int /\ buf_pos <= buf_pos' /\ buf_pos' <= buf_pos_end
    BY <1>2, <2>1, <2>2, <2>4
  <2> QED BY <2>1, <2>2, <2>3, <2>5
<1>5. ASSUME NEW i \in ItemChoices(buf_pos, last_matchpos_offset), buf_pos + i.n < buf_pos_end,
             NEW j \in ItemChoices(buf_pos + i.n, After(last_matchpos_offset, i)), plan = <<i, j>>
      PROVE  Good
  <2> DEFINE p == buf_pos + i.n
             is == Append(items, Placed(i, buf_pos))
             ds == Coded(dist_data, i)
             o == After(last_matchpos_offset, i)
  <2>1. /\ i \in PlanItems /\ is \in Seq(Items) /\ ds \in Seq(Nat) /\ o \in Triples
        /\ Keeps(src, bufpos_at_last_block, repeated_offset_at_literal_zero, is, ds, p, o)
    BY <1>2, PutsOne
  <2>2. i.n \in Nat /\ p \in Int /\ buf_pos <= p /\ p < buf_pos_end
    <3>1. i.n \in Nat
      BY <2>1 DEF PlanItems
    <3> QED BY <1>2, <1>5, <3>1
  <2>3. j \in ItemChoices(p, o)
    BY <1>5
  <2>4. p = buf_pos + i.n /\ is = Append(items, Placed(i, buf_pos)) /\ ds = Coded(dist_data, i)
        /\ o = After(last_matchpos_offset, i)
    OBVIOUS
  <2> HIDE DEF p, is, ds, o
  <2>5. /\ j \in PlanItems /\ p + j.n <= buf_pos_end
        /\ Append(is, Placed(j, p)) \in Seq(Items)
        /\ Coded(ds, j) \in Seq(Nat) /\ After(o, j) \in Triples
        /\ Keeps(src, bufpos_at_last_block, repeated_offset_at_literal_zero,
                 Append(is, Placed(j, p)), Coded(ds, j), p + j.n, After(o, j))
    BY <1>2, <2>1, <2>2, <2>3, ChoiceKept
  <2>6. j.n \in Nat
    BY <2>5 DEF PlanItems
  <2>7. /\ BytesUpTo(plan)[0] = 0 /\ BytesUpTo(plan)[1] = i.n /\ buf_pos' = p + j.n
        /\ dist_data' = Coded(ds, j) /\ last_matchpos_offset' = After(o, j)
    <3>1. /\ BytesUpTo(plan)[0] = 0 /\ BytesUpTo(plan)[1] = i.n
          /\ BytesOf(plan) = i.n + j.n
          /\ dist_data \o CodesOf(plan) = Coded(Coded(dist_data, i), j)
          /\ OffsetsThrough(last_matchpos_offset, CodesOf(plan)) =
               After(After(last_matchpos_offset, i), j)
      BY <1>2, <1>5, <2>1, <2>5, PlanOfTwo
    <3>2. buf_pos + (i.n + j.n) = p + j.n
      BY <1>2, <2>2, <2>4, <2>6
    <3> QED BY <1>1, <2>4, <3>1, <3>2
  <2>8. items' = Append(is, Placed(j, p))
    <3> DEFINE x == Placed(i, buf_pos)
               y == Placed(j, p)
               ps == [k \in 1 .. Len(plan) |-> Placed(plan[k], buf_pos + BytesUpTo(plan)[k - 1])]
    <3>1. Len(plan) = 2 /\ plan[1] = i /\ plan[2] = j
      BY <1>5
    <3>2. /\ ps[1] = Placed(plan[1], buf_pos + BytesUpTo(plan)[1 - 1])
          /\ ps[2] = Placed(plan[2], buf_pos + BytesUpTo(plan)[2 - 1])
      BY <3>1
    <3>3. 1 - 1 = 0 /\ 2 - 1 = 1 /\ buf_pos + 0 = buf_pos
      BY <1>2
    <3>4. ps[1] = x /\ ps[2] = y
      BY <2>4, <2>7, <3>1, <3>2, <3>3
    <3>5. items' = items \o ps
      BY <1>1
    <3>7. ps = [k \in 1 .. 2 |-> ps[k]]
      BY <3>1
    <3>9. is = Append(items, x)
      BY <2>4
    <3> HIDE DEF x, y, ps
    <3>6. ps = <<x, y>>
      BY <3>4, <3>7
    <3>8. items \o <<x, y>> = Append(Append(items, x), y)
      BY <1>2
    <3> QED BY <3>5, <3>6, <3>8, <3>9 DEF y
  <2>9. buf_pos' \in Int /\ buf_pos <= buf_pos' /\ buf_pos' <= buf_pos_end
    BY <1>2, <2>2, <2>5, <2>6, <2>7, SMTT(30)
  <2> QED BY <2>5, <2>7, <2>8, <2>9
<1>6. Good
  BY <1>3, <1>4, <1>5
<1>7. stage' \notin {"start", "read", "plan"}
  BY <1>1
<1> QED BY <1>1, <1>6, <1>7, GoesOn

-----------------------------------------------------------------------------
\* Where the items of a block end, and with which repeated offsets: those of the walk.
BlockEnd(where) == Walk(bufpos_at_last_block, repeated_offset_at_literal_zero, items,
                        dist_data)[where]
LEMMA BlockEnds ==
  ASSUME EncInv, NEW where \in Splits
  PROVE  LET k == Matches(SubSeq(items, 1, where)) IN
         /\ where \in 0 .. Len(items)
         /\ k \in 0 .. Len(dist_data) /\ BlockEnd(where).dists = k
         /\ BlockEnd(where).pos \in Int /\ BlockEnd(where).offs \in Triples
         /\ BytesOf(SubSeq(items, 1, where)) \in Nat
         /\ BlockEnd(where).pos = bufpos_at_last_block + BytesOf(SubSeq(items, 1, where))
         /\ BlockEnd(where).offs =
              FinalOffsets(repeated_offset_at_literal_zero, SubSeq(dist_data, 1, k))
         /\ Keeps(src, BlockEnd(where).pos, BlockEnd(where).offs,
                  SubSeq(items, where + 1, Len(items)),
                  SubSeq(dist_data, k + 1, Len(dist_data)), buf_pos, last_matchpos_offset)
<1> DEFINE p == bufpos_at_last_block
           r == repeated_offset_at_literal_zero
           k == Matches(SubSeq(items, 1, where))
           w == Walk(p, r, items, dist_data)
<1>1. /\ p \in Int /\ r \in Triples /\ items \in Seq(Items) /\ dist_data \in Seq(Nat)
      /\ Keeps(src, p, r, items, dist_data, buf_pos, last_matchpos_offset)
  BY DEF EncInv, EncTyped, Spelled
<1>2. where \in 0 .. Len(items)
  <2>1. where = Len(items) \/ where \in MIN_LITERALS_IN_BLOCK .. Len(items) - 1
    BY DEF Splits
  <2>2. MIN_LITERALS_IN_BLOCK \in Nat /\ Len(items) \in Nat
    BY <1>1, EncoderSizes
  <2> QED BY <2>1, <2>2
<1>4. /\ k \in 0 .. Len(dist_data) /\ w[where].dists = k
      /\ w[where].pos \in Int /\ w[where].offs \in Triples
      /\ Keeps(src, w[where].pos, w[where].offs, SubSeq(items, where + 1, Len(items)),
               SubSeq(dist_data, k + 1, Len(dist_data)), buf_pos, last_matchpos_offset)
  <2> DEFINE is == items
             ds == dist_data
  <2>1. /\ p \in Int /\ r \in Triples /\ is \in Seq(Items) /\ ds \in Seq(Nat)
        /\ where \in 0 .. Len(is) /\ Keeps(src, p, r, is, ds, buf_pos, last_matchpos_offset)
    BY <1>1, <1>2
  <2> HIDE DEF p, r, is, ds
  <2>2. /\ Matches(SubSeq(is, 1, where)) \in 0 .. Len(ds)
        /\ Walk(p, r, is, ds)[where].dists = Matches(SubSeq(is, 1, where))
        /\ Walk(p, r, is, ds)[where].pos \in Int /\ Walk(p, r, is, ds)[where].offs \in Triples
        /\ Keeps(src, Walk(p, r, is, ds)[where].pos, Walk(p, r, is, ds)[where].offs,
                 SubSeq(is, where + 1, Len(is)),
                 SubSeq(ds, Matches(SubSeq(is, 1, where)) + 1, Len(ds)), buf_pos,
                 last_matchpos_offset)
    BY <2>1, KeepsRest
  <2> QED BY <2>2 DEF is, ds
<1>5. w[where].pos = p + BytesOf(SubSeq(items, 1, where))
  <2>1. w[where].pos = p + BytesUpTo(items)[where]
    BY <1>1, <1>2, WalkCounts
  <2>2. BytesOf(SubSeq(items, 1, where)) = BytesUpTo(items)[where]
    BY <1>1, <1>2, BytesOfFirst
  <2> QED BY <2>1, <2>2
<1>6. w[where].offs = FinalOffsets(r, SubSeq(dist_data, 1, k))
  <2>1. w[Len(items)].dists <= Len(dist_data)
    <3>1. w[Len(items)] = [pos |-> buf_pos, offs |-> last_matchpos_offset, dists |-> Len(dist_data)]
      BY <1>1 DEF Keeps
    <3>2. Len(dist_data) \in Nat
      BY <1>1
    <3> QED BY <3>1, <3>2
  <2>2. w[where].offs = OffsetsUpTo(r, dist_data)[w[where].dists]
    BY <1>1, <1>2, <2>1, WalkOffsets
  <2>3. OffsetsUpTo(r, dist_data)[k] = OffsetsThrough(r, SubSeq(dist_data, 1, k))
    BY <1>1, <1>4, OffsetsOfFirst
  <2>4. SubSeq(dist_data, 1, k) \in Seq(Nat)
    BY <1>1, <1>4
  <2>5. FinalOffsets(r, SubSeq(dist_data, 1, k)) = OffsetsThrough(r, SubSeq(dist_data, 1, k))
    BY <1>1, <2>4, FinalIsThrough
  <2> QED BY <1>4, <2>2, <2>3, <2>5
<1>7. BytesOf(SubSeq(items, 1, where)) \in Nat
  <2>1. BytesUpTo(items)[where] \in Nat
    BY <1>1, <1>2, BytesSteps
  <2> QED BY <1>1, <1>2, <2>1, BytesOfFirst
<1> QED BY <1>2, <1>4, <1>5, <1>6, <1>7 DEF BlockEnd

\* A block is written: the items behind it stay, and are read from its end.
LEMMA BlockStep ==
  ASSUME EncInv, NEW where, NEW type, output_block(where, type),
         UNCHANGED <<src, src_at, real_mem_window, base, earliest_window_data_remaining,
                     buf_pos, buf_pos_end, plan, last_matchpos_offset>>,
         bufpos_last_output_block' \in Int,
         stage' \notin {"start", "read"}, stage' = "plan" => stage = "plan"
  PROVE  EncInv'
<1> DEFINE p == bufpos_at_last_block
           k == Matches(SubSeq(items, 1, where))
           e == BlockEnd(where)
<1>1. /\ p \in Int /\ items \in Seq(Items) /\ dist_data \in Seq(Nat)
  BY DEF EncInv, EncTyped
<1>2. /\ where \in Splits
      /\ items' = SubSeq(items, where + 1, Len(items))
      /\ dist_data' = SubSeq(dist_data, k + 1, Len(dist_data))
      /\ first_block' = FALSE
      /\ bufpos_at_last_block' = p + BytesOf(SubSeq(items, 1, where))
      /\ repeated_offset_at_literal_zero' =
           FinalOffsets(repeated_offset_at_literal_zero, SubSeq(dist_data, 1, k))
  BY DEF output_block, do_block_output
<1>3. /\ where \in 0 .. Len(items) /\ k \in 0 .. Len(dist_data)
      /\ e.pos \in Int /\ e.offs \in Triples
      /\ BytesOf(SubSeq(items, 1, where)) \in Nat
      /\ bufpos_at_last_block' = e.pos /\ repeated_offset_at_literal_zero' = e.offs
      /\ Keeps(src, e.pos, e.offs, SubSeq(items, where + 1, Len(items)),
               SubSeq(dist_data, k + 1, Len(dist_data)), buf_pos, last_matchpos_offset)
  BY <1>2, BlockEnds
<1> HIDE DEF e
<1>8. p <= bufpos_at_last_block'
  BY <1>1, <1>2, <1>3
<1>9. items' \in Seq(Items) /\ dist_data' \in Seq(Nat)
  <2>1. where + 1 \in 1 .. Len(items) + 1 /\ Len(items) \in Nat
    BY <1>1, <1>3
  <2>2. k + 1 \in 1 .. Len(dist_data) + 1 /\ Len(dist_data) \in Nat
    BY <1>1, <1>3
  <2>3. items' \in Seq(Items)
    BY <1>1, <1>2, <2>1
  <2> HIDE DEF k
  <2>4. dist_data' \in Seq(Nat)
    BY <1>1, <1>2, <2>2, SMTT(30)
  <2> QED BY <2>3, <2>4
<1>10. Spelled'
  BY <1>2, <1>3 DEF Spelled
<1>11. EncTyped'
  BY <1>2, <1>3, <1>9 DEF EncInv, EncTyped, SrcSize
<1>12. InChunks'
  BY DEF EncInv, InChunks, SrcSize
<1>13. FirstBlock'
  <2>1. First <= p /\ First \in Int /\ bufpos_at_last_block' \in Int
    BY <1>3, Sizes DEF EncInv, FirstBlock
  <2> QED BY <1>1, <1>2, <1>8, <2>1 DEF FirstBlock
<1>14. MemoryHolds'
  BY DEF EncInv, MemoryHolds, SrcSize, At, Input
<1>15. Planned'
  <2>1. Plans' = Plans
    BY PlansSame
  <2> QED BY <2>1 DEF EncInv, Planned
<1> QED BY <1>10, <1>11, <1>12, <1>13, <1>14, <1>15 DEF EncInv

-----------------------------------------------------------------------------
\* Whole chunks add up to whole chunks,
LEMMA ChunksTogether ==
  ASSUME NEW a \in Int, NEW b \in Int, Chunks(a), Chunks(b)
  PROVE  Chunks(a + b) /\ Chunks(a - b)
<1>1. PICK j \in Int : a = j * LZX_CHUNK_SIZE
  BY DEF Chunks
<1>2. PICK k \in Int : b = k * LZX_CHUNK_SIZE
  BY DEF Chunks
<1>3. a + b = (j + k) * LZX_CHUNK_SIZE /\ a - b = (j - k) * LZX_CHUNK_SIZE
  BY <1>1, <1>2, Sizes
<1>4. j + k \in Int /\ j - k \in Int
  OBVIOUS
<1> QED BY <1>3, <1>4 DEF Chunks

\* and are at least one if any.
LEMMA ChunkAtLeast ==
  ASSUME NEW a \in Int, Chunks(a), a > 0
  PROVE  a >= LZX_CHUNK_SIZE
<1>1. PICK j \in Int : a = j * LZX_CHUNK_SIZE
  BY DEF Chunks
<1>2. j >= 1
  <2>1. CASE j <= 0
    <3>1. j * LZX_CHUNK_SIZE <= 0 * LZX_CHUNK_SIZE
      BY <2>1, Sizes
    <3> QED BY <1>1, <3>1, Sizes
  <2> QED BY <2>1
<1>3. j * LZX_CHUNK_SIZE >= 1 * LZX_CHUNK_SIZE
  BY <1>2, Sizes
<1> QED BY <1>1, <1>3, Sizes

\* Only the end of the input is a short read.
LEMMA ShortIsLast == ASSUME EncInv, ShortRead PROVE src_at = SrcSize
<1> SUFFICES ASSUME Chunks(src_at), src_at \in Nat, src_at % LZX_CHUNK_SIZE # 0 PROVE FALSE
  <2>1. Chunks(src_at) \/ src_at = SrcSize
    BY DEF EncInv, InChunks
  <2>2. src_at \in Nat
    BY DEF EncInv, EncTyped
  <2> QED BY <2>1, <2>2 DEF ShortRead
<1> DEFINE q == src_at \div LZX_CHUNK_SIZE
           r == src_at % LZX_CHUNK_SIZE
<1>1. q \in Int /\ r \in 0 .. LZX_CHUNK_SIZE - 1 /\ src_at = q * LZX_CHUNK_SIZE + r
  BY Sizes
<1>2. r # 0
  OBVIOUS
<1> HIDE DEF q, r
<1>3. PICK k \in Int : src_at = k * LZX_CHUNK_SIZE
  BY DEF Chunks
<1>4. (k - q) * LZX_CHUNK_SIZE = r
  BY <1>1, <1>3, Sizes
<1>5. Chunks(r) /\ r \in Int /\ r > 0
  <2>1. k - q \in Int
    BY <1>1
  <2> QED BY <1>1, <1>2, <1>4, <2>1, Sizes DEF Chunks
<1>6. r >= LZX_CHUNK_SIZE
  BY <1>5, ChunkAtLeast
<1> QED BY <1>1, <1>6, Sizes

\* The next chunk is read behind what the memory holds, and has room there.
LEMMA ReadInputStep == ASSUME EncInv, ReadInput PROVE EncInv'
<1> DEFINE n == Smaller(LZX_CHUNK_SIZE, SrcSize - src_at)
           to == buf_pos - base
<1>1. /\ stage = "read" /\ src_at < SrcSize /\ stage' = "parse"
      /\ real_mem_window' = [i \in DOMAIN real_mem_window |->
                               IF i \in to .. to + n - 1 THEN src[src_at + i - to + 1]
                               ELSE real_mem_window[i]]
      /\ src_at' = src_at + n /\ buf_pos_end' = buf_pos + n
      /\ UNCHANGED <<src, base, earliest_window_data_remaining, buf_pos, items, dist_data,
                     last_matchpos_offset, repeated_offset_at_literal_zero, first_block,
                     bufpos_last_output_block, bufpos_at_last_block>>
  BY DEF ReadInput, itemVars, blockVars
<1>2. /\ src \in Seq(0 .. 255) /\ SrcSize = Len(src) /\ SrcSize \in Nat
      /\ src_at \in Nat /\ src_at < SrcSize
      /\ real_mem_window \in [0 .. W + SECONDARY_PARTITION_SIZE - 1 -> Nat]
      /\ base \in Int /\ buf_pos \in Int
  BY <1>1, InputsAssumption DEF EncInv, EncTyped, SrcSize
<1>3. /\ buf_pos = buf_pos_end /\ buf_pos_end = First + src_at
      /\ buf_pos < base + W + SECONDARY_PARTITION_SIZE
      /\ First <= base /\ First <= buf_pos /\ base <= buf_pos
      /\ (base = First \/ (base + W <= buf_pos /\ base <= earliest_window_data_remaining))
      /\ \A p \in base .. buf_pos_end - 1 : At(p) = Input(p)
      /\ Chunks(src_at) /\ Chunks(base - First)
  BY <1>1, <1>2, Sizes DEF EncInv, InChunks, MemoryHolds
<1>4. /\ n \in Nat /\ n <= LZX_CHUNK_SIZE /\ src_at + n <= SrcSize
      /\ n = LZX_CHUNK_SIZE \/ src_at + n = SrcSize
  BY <1>2, Sizes DEF Smaller
<1>5. to \in Nat
  BY <1>2, <1>3
<1>6. to = buf_pos - base
  OBVIOUS
<1> HIDE DEF n, to
<1>7. buf_pos + n <= base + W + SECONDARY_PARTITION_SIZE
  <2> DEFINE gap == (base - First) + W + SECONDARY_PARTITION_SIZE - src_at
  <2>1. Chunks(gap)
    <3>1. Chunks((base - First) + W)
      BY <1>2, <1>3, Sizes, ChunksTogether
    <3>2. Chunks((base - First) + W + SECONDARY_PARTITION_SIZE)
      BY <1>2, <1>3, <3>1, Sizes, ChunksTogether
    <3> QED BY <1>2, <1>3, <3>2, Sizes, ChunksTogether
  <2>2. gap \in Int /\ gap = base + W + SECONDARY_PARTITION_SIZE - buf_pos
    BY <1>2, <1>3, Sizes
  <2> HIDE DEF gap
  <2>3. gap > 0
    BY <1>2, <1>3, <2>2, Sizes
  <2>4. gap >= LZX_CHUNK_SIZE
    BY <2>1, <2>2, <2>3, ChunkAtLeast
  <2> QED BY <1>2, <1>4, <2>2, <2>4, Sizes
<1>8. /\ DOMAIN real_mem_window' = 0 .. W + SECONDARY_PARTITION_SIZE - 1
      /\ \A i \in 0 .. W + SECONDARY_PARTITION_SIZE - 1 :
           real_mem_window'[i] = IF i \in to .. to + n - 1 THEN src[src_at + i - to + 1]
                                 ELSE real_mem_window[i]
      /\ real_mem_window' = [i \in 0 .. W + SECONDARY_PARTITION_SIZE - 1 |-> real_mem_window'[i]]
  BY <1>1, <1>2
<1>9. real_mem_window' \in [0 .. W + SECONDARY_PARTITION_SIZE - 1 -> Nat]
  <2>1. ASSUME NEW i \in 0 .. W + SECONDARY_PARTITION_SIZE - 1 PROVE real_mem_window'[i] \in Nat
    <3>1. CASE i \in to .. to + n - 1
      <4>1. src_at + i - to + 1 \in 1 .. Len(src)
        BY <1>2, <1>4, <1>5, <3>1, Sizes
      <4> DEFINE e == src_at + i - to + 1
      <4>2. e \in 1 .. Len(src)
        BY <4>1
      <4>3. real_mem_window'[i] = src[e]
        BY <1>8, <3>1
      <4> HIDE DEF e
      <4>4. src[e] \in 0 .. 255
        BY <1>2, <4>2
      <4>5. \A x \in 0 .. 255 : x \in Nat
        OBVIOUS
      <4> QED BY <4>3, <4>4, <4>5
    <3>2. CASE i \notin to .. to + n - 1
      BY <1>2, <1>8, <3>2
    <3> QED BY <3>1, <3>2
  <2> QED BY <1>8, <2>1
<1>10. \A p \in base .. buf_pos + n - 1 : real_mem_window'[p - base] = src[p - First + 1]
  <2> SUFFICES ASSUME NEW p \in base .. buf_pos + n - 1
               PROVE  real_mem_window'[p - base] = src[p - First + 1]
    OBVIOUS
  <2>1. p - base \in 0 .. W + SECONDARY_PARTITION_SIZE - 1
    BY <1>2, <1>4, <1>7, Sizes
  <2>2. CASE p < buf_pos
    <3>1. p \in base .. buf_pos_end - 1 /\ ~(p - base \in to .. to + n - 1)
      BY <1>2, <1>3, <1>4, <1>6, <2>2, SMTT(30)
    <3>2. real_mem_window[p - base] = src[p - First + 1]
      BY <1>3, <3>1 DEF At, Input
    <3> QED BY <1>8, <2>1, <3>1, <3>2
  <2>3. CASE p >= buf_pos
    <3>1. p - base \in to .. to + n - 1
      BY <1>2, <1>4, <1>6, <2>3
    <3>2. src_at + (p - base) - to + 1 = p - First + 1
      BY <1>2, <1>3, <1>6, Sizes
    <3> QED BY <1>8, <2>1, <3>1, <3>2
  <2> QED BY <1>2, <2>2, <2>3
<1>11. EncTyped'
  <2>1. src_at' \in 0 .. SrcSize /\ buf_pos_end' \in Int /\ SrcSize' = SrcSize
    BY <1>1, <1>2, <1>4 DEF SrcSize
  <2> QED BY <1>1, <1>9, <2>1 DEF EncInv, EncTyped
<1>12. InChunks'
  <2>1. buf_pos_end' = First + src_at'
    BY <1>1, <1>2, <1>3, <1>4, Sizes
  <2>2. Chunks(src_at') \/ src_at' = SrcSize
    <3>1. CASE n = LZX_CHUNK_SIZE
      <4>1. Chunks(LZX_CHUNK_SIZE)
        <5>1. LZX_CHUNK_SIZE = 1 * LZX_CHUNK_SIZE
          BY Sizes
        <5> QED BY <5>1 DEF Chunks
      <4>2. Chunks(src_at + LZX_CHUNK_SIZE)
        BY <1>2, <1>3, <4>1, Sizes, ChunksTogether
      <4> QED BY <1>1, <3>1, <4>2
    <3>2. CASE src_at + n = SrcSize
      BY <1>1, <3>2
    <3> QED BY <1>4, <3>1, <3>2
  <2>3. SrcSize' = SrcSize /\ base' = base
    BY <1>1 DEF SrcSize
  <2> QED BY <1>3, <2>1, <2>2, <2>3 DEF InChunks
<1>13. MemoryHolds'
  <2>1. \A p \in base' .. buf_pos_end' - 1 : At(p)' = Input(p)'
    <3>1. \A p \in base' .. buf_pos_end' - 1 :
            real_mem_window'[p - base'] = src'[p - First + 1]
      <4>1. buf_pos_end' = buf_pos + n /\ base' = base /\ src' = src
        BY <1>1
      <4>2. ASSUME NEW p \in base' .. buf_pos_end' - 1
            PROVE  real_mem_window'[p - base'] = src'[p - First + 1]
        <5>1. p \in base .. buf_pos + n - 1
          BY <1>2, <1>4, <4>1
        <5>2. real_mem_window'[p - base] = src[p - First + 1]
          BY <1>10, <5>1
        <5> QED BY <4>1, <5>2
      <4> QED BY <4>2
    <3> QED BY <3>1 DEF At, Input, First, W
  <2>2. First <= buf_pos' /\ buf_pos' <= buf_pos_end' /\ stage' \notin {"start", "read"}
        /\ buf_pos_end' <= base' + W + SECONDARY_PARTITION_SIZE /\ First <= base'
    BY <1>1, <1>2, <1>3, <1>4, <1>7
  <2>3. base' = First \/ (base' + W <= buf_pos' /\ base' <= earliest_window_data_remaining')
    BY <1>1, <1>3
  <2> QED BY <2>1, <2>2, <2>3 DEF MemoryHolds, At, Input
<1>14. FirstBlock' /\ Spelled'
  BY <1>1 DEF EncInv, FirstBlock, Spelled
<1>15. Planned'
  BY <1>1 DEF Planned
<1> QED BY <1>11, <1>12, <1>13, <1>14, <1>15 DEF EncInv

\* The first block is dropped: the parser is back at the start of the input, which the
\* memory still holds.
LEMMA RedoStep ==
  ASSUME EncInv, Redo, UNCHANGED <<src, src_at, real_mem_window, base, buf_pos_end>>,
         earliest_window_data_remaining' \in Int, stage' = "parse"
  PROVE  EncInv'
<1>1. /\ first_block /\ first_block' = FALSE /\ items' = <<>> /\ dist_data' = <<>>
      /\ last_matchpos_offset' = <<1, 1, 1>> /\ repeated_offset_at_literal_zero' = <<1, 1, 1>>
      /\ buf_pos' = bufpos_last_output_block
      /\ bufpos_last_output_block' = bufpos_last_output_block
      /\ bufpos_at_last_block' = bufpos_at_last_block
  BY DEF Redo
<1>2. base = First /\ bufpos_last_output_block = First /\ bufpos_at_last_block = First
  BY <1>1 DEF EncInv, FirstBlock
<1>3. First \in Int /\ First <= buf_pos_end /\ buf_pos_end <= base + W + SECONDARY_PARTITION_SIZE
      /\ \A p \in base .. buf_pos_end - 1 : At(p) = Input(p)
  BY Sizes DEF EncInv, EncTyped, MemoryHolds
<1>4. EncTyped'
  <2>1. items' \in Seq(Items) /\ dist_data' \in Seq(Nat)
    BY <1>1
  <2> QED BY <1>1, <1>2, <1>3, <2>1, NoOffsets DEF EncInv, EncTyped, SrcSize
<1>5. InChunks'
  BY DEF EncInv, InChunks, SrcSize
<1>6. MemoryHolds'
  <2>1. \A p \in base' .. buf_pos_end' - 1 : At(p)' = Input(p)'
    BY <1>3 DEF At, Input
  <2>2. stage' \notin {"start", "read"}
    OBVIOUS
  <2>3. First <= base' /\ First <= buf_pos' /\ buf_pos' <= buf_pos_end' /\ base' = First
        /\ buf_pos_end' <= base' + W + SECONDARY_PARTITION_SIZE
    BY <1>1, <1>2, <1>3
  <2> QED BY <2>1, <2>2, <2>3 DEF MemoryHolds, At, Input
<1>7. FirstBlock'
  BY <1>1, <1>2, <1>3 DEF FirstBlock
<1>8. Planned'
  BY DEF Planned
<1>9. Spelled'
  <2>1. Keeps(src', First, <<1, 1, 1>>, <<>>, <<>>, First, <<1, 1, 1>>)
    BY <1>3, NoOffsets, NothingKept
  <2> QED BY <1>1, <1>2, <2>1 DEF Spelled
<1> QED BY <1>4, <1>5, <1>6, <1>7, <1>8, <1>9 DEF EncInv

\* The memory that is full moves up by its second part: what is left reaches back as far as a
\* match may, and the next chunk has room.
LEMMA MoveStep ==
  ASSUME EncInv, buf_pos = buf_pos_end, MemoryFull,
         UNCHANGED <<src, src_at, buf_pos, buf_pos_end, items, dist_data, last_matchpos_offset,
                     repeated_offset_at_literal_zero, bufpos_last_output_block,
                     bufpos_at_last_block>>,
         earliest_window_data_remaining' = buf_pos - W, stage' = "read", first_block' = FALSE,
         base' = base + SECONDARY_PARTITION_SIZE,
         real_mem_window' = [i \in DOMAIN real_mem_window |->
                               IF i < W THEN real_mem_window[i + SECONDARY_PARTITION_SIZE]
                               ELSE real_mem_window[i]]
  PROVE  EncInv'
<1> DEFINE S == SECONDARY_PARTITION_SIZE
           D == 0 .. W + S - 1
<1>1. /\ real_mem_window \in [D -> Nat] /\ base \in Int /\ buf_pos \in Int
      /\ First <= base /\ buf_pos_end <= base + W + S /\ base + W + S <= buf_pos
      /\ \A p \in base .. buf_pos_end - 1 : At(p) = Input(p)
      /\ Chunks(base - First)
  <2>1. buf_pos \in Int /\ base \in Int /\ W \in Int /\ S \in Int /\ buf_pos - base >= W + S
    BY Sizes DEF EncInv, EncTyped, MemoryFull
  <2>2. base + W + S <= buf_pos
    BY <2>1
  <2> QED BY <2>1, <2>2 DEF EncInv, EncTyped, InChunks, MemoryHolds
<1>2. S \in Nat \ {0} /\ W \in Nat /\ First = W /\ Chunks(S)
  BY Sizes
<1>3. buf_pos = base + W + S
  BY <1>1, <1>2
<1>4. /\ real_mem_window' = [i \in D |-> IF i < W THEN real_mem_window[i + S]
                                         ELSE real_mem_window[i]]
      /\ base' = base + S
  BY <1>1
<1>5. real_mem_window' \in [D -> Nat]
  <2>1. ASSUME NEW i \in D
        PROVE  (IF i < W THEN real_mem_window[i + S] ELSE real_mem_window[i]) \in Nat
    <3>1. i < W => i + S \in D
      BY <1>2
    <3> QED BY <1>1, <3>1
  <2> HIDE DEF D, S
  <2> QED BY <1>4, <2>1
<1>6. ASSUME NEW p \in base + S .. buf_pos - 1
      PROVE  real_mem_window'[p - (base + S)] = src[p - First + 1]
  <2> DEFINE i == p - (base + S)
  <2>1. i \in D /\ i < W /\ i + S = p - base /\ p \in base .. buf_pos_end - 1
    BY <1>1, <1>2, <1>3
  <2>2. At(p) = Input(p)
    BY <1>1, <2>1
  <2> HIDE DEF i, D
  <2>3. real_mem_window'[i] = real_mem_window[i + S]
    BY <1>4, <2>1
  <2>4. real_mem_window'[i] = real_mem_window[p - base]
    BY <2>1, <2>3
  <2>5. real_mem_window'[i] = src[p - First + 1]
    BY <2>2, <2>4 DEF At, Input
  <2> QED BY <2>5 DEF i
<1> HIDE DEF D, S
<1>7. EncTyped'
  <2>1. base' \in Int /\ earliest_window_data_remaining' \in Int
    BY <1>1, <1>2, <1>4
  <2> QED BY <1>5, <2>1 DEF EncInv, EncTyped, SrcSize, D, S
<1>8. InChunks'
  <2>1. Chunks((base - First) + S)
    BY <1>1, <1>2, ChunksTogether
  <2>2. base' - First = (base - First) + S
    BY <1>1, <1>2, <1>4
  <2>3. buf_pos_end' = First + src_at' /\ (Chunks(src_at') \/ src_at' = SrcSize')
    BY DEF EncInv, InChunks, SrcSize
  <2>4. Chunks(base' - First)
    BY <2>1, <2>2
  <2> QED BY <2>3, <2>4 DEF InChunks
<1>9. MemoryHolds'
  <2>1. \A p \in base' .. buf_pos_end' - 1 : At(p)' = Input(p)'
    <3>1. \A p \in base' .. buf_pos_end' - 1 :
            real_mem_window'[p - base'] = src'[p - First + 1]
      BY <1>4, <1>6
    <3> QED BY <3>1 DEF At, Input, First, W
  <2>2. /\ First <= base' /\ First <= buf_pos' /\ buf_pos' = buf_pos_end'
        /\ base' + W <= buf_pos' /\ base' <= earliest_window_data_remaining'
        /\ buf_pos' < base' + W + S
    BY <1>1, <1>2, <1>3, <1>4
  <2>3. buf_pos' <= buf_pos_end' /\ buf_pos_end' <= base' + W + S
    BY <1>1, <1>2, <1>3, <1>4, <2>2
  <2> QED BY <2>1, <2>2, <2>3 DEF MemoryHolds, S, At, Input
<1>10. FirstBlock' /\ Planned'
  BY DEF EncInv, FirstBlock, Planned
<1>11. Spelled'
  BY DEF EncInv, Spelled
<1> QED BY <1>7, <1>8, <1>9, <1>10, <1>11 DEF EncInv

\* The memory is not full, or nothing is left to read: it stays as it is.
LEMMA StayStep ==
  ASSUME EncInv, buf_pos = buf_pos_end, ShortRead \/ ~MemoryFull,
         UNCHANGED <<src, src_at, real_mem_window, base, buf_pos, buf_pos_end, items, dist_data,
                     last_matchpos_offset, repeated_offset_at_literal_zero,
                     bufpos_last_output_block, bufpos_at_last_block>>,
         earliest_window_data_remaining' = buf_pos - W, stage' = "read",
         first_block' \in BOOLEAN, first_block' => first_block
  PROVE  EncInv'
<1>1. /\ base \in Int /\ buf_pos \in Int /\ src_at \in Int /\ W \in Nat /\ First \in Int
      /\ SECONDARY_PARTITION_SIZE \in Nat
  BY Sizes DEF EncInv, EncTyped
<1>2. src_at < SrcSize => buf_pos < base + W + SECONDARY_PARTITION_SIZE
  <2>1. CASE ShortRead
    <3>1. src_at = SrcSize
      BY <2>1, ShortIsLast
    <3> QED BY <1>1, <3>1
  <2>2. CASE ~MemoryFull
    <3>1. ~(buf_pos - base >= W + SECONDARY_PARTITION_SIZE)
      BY <2>2 DEF MemoryFull
    <3> QED BY <1>1, <3>1
  <2> QED BY <2>1, <2>2
<1>3. EncTyped'
  <2>1. earliest_window_data_remaining' \in Int
    BY <1>1
  <2> QED BY <2>1 DEF EncInv, EncTyped, SrcSize
<1>4. InChunks' /\ Spelled' /\ Planned'
  BY DEF EncInv, InChunks, Spelled, SrcSize, Planned
<1>5. FirstBlock'
  BY DEF EncInv, FirstBlock
<1>6. MemoryHolds'
  <2>1. /\ First <= base /\ First <= buf_pos /\ buf_pos_end <= base + W + SECONDARY_PARTITION_SIZE
        /\ base = First \/ base + W <= buf_pos
        /\ \A p \in base .. buf_pos_end - 1 : At(p) = Input(p)
    BY DEF EncInv, MemoryHolds
  <2>2. \A p \in base' .. buf_pos_end' - 1 : At(p)' = Input(p)'
    BY <2>1 DEF At, Input
  <2>3. base = First \/ (base + W <= buf_pos /\ base <= buf_pos - W)
    BY <1>1, <2>1
  <2>4. src_at' < SrcSize' => buf_pos' < base' + W + SECONDARY_PARTITION_SIZE
    BY <1>2 DEF SrcSize
  <2>5. buf_pos' <= buf_pos_end' /\ buf_pos' = buf_pos_end'
    BY <1>1
  <2> QED BY <2>1, <2>2, <2>3, <2>4, <2>5 DEF MemoryHolds, At, Input
<1> QED BY <1>3, <1>4, <1>5, <1>6 DEF EncInv

\* The end of a chunk: again from the start, or the next chunk.
LEMMA ChunkEndStep == ASSUME EncInv, ChunkEnd PROVE EncInv'
<1>1. /\ buf_pos = buf_pos_end /\ stage = "parse" /\ earliest_window_data_remaining' = buf_pos - W
      /\ UNCHANGED <<src, src_at, buf_pos_end>>
  BY DEF ChunkEnd, inputVars
<1>2. CASE Redo /\ UNCHANGED <<stage, real_mem_window, base>>
  <2>1. earliest_window_data_remaining' \in Int
    BY <1>1, Sizes DEF EncInv, EncTyped
  <2> QED BY <1>1, <1>2, <2>1, RedoStep
<1>3. CASE /\ stage' = "read" /\ first_block' = (first_block /\ ~(ShortRead \/ MemoryFull))
           /\ IF MemoryFull /\ ~ShortRead
              THEN /\ real_mem_window' = [i \in DOMAIN real_mem_window |->
                        IF i < W THEN real_mem_window[i + SECONDARY_PARTITION_SIZE]
                        ELSE real_mem_window[i]]
                   /\ base' = base + SECONDARY_PARTITION_SIZE
              ELSE UNCHANGED <<real_mem_window, base>>
           /\ UNCHANGED <<buf_pos, itemVars, last_matchpos_offset, blockVars,
                          bufpos_last_output_block>>
  <2>1. UNCHANGED <<buf_pos, items, dist_data, last_matchpos_offset,
                    repeated_offset_at_literal_zero, bufpos_last_output_block,
                    bufpos_at_last_block>>
    BY <1>3 DEF itemVars, blockVars
  <2>2. CASE MemoryFull /\ ~ShortRead
    BY <1>1, <1>3, <2>1, <2>2, MoveStep
  <2>3. CASE ~(MemoryFull /\ ~ShortRead)
    <3>1. first_block' \in BOOLEAN /\ (first_block' => first_block)
      BY <1>3 DEF EncInv, EncTyped
    <3> QED BY <1>1, <1>3, <2>1, <2>3, <3>1, StayStep
  <2> QED BY <2>2, <2>3
<1> QED BY <1>2, <1>3 DEF ChunkEnd

\* The buffers are nearly full in the first block: again from the start, or a block.
LEMMA RedoEarlyStep == ASSUME EncInv, RedoEarly PROVE EncInv'
<1>1. UNCHANGED <<src, src_at, real_mem_window, base, earliest_window_data_remaining,
                  buf_pos_end>>
  BY DEF RedoEarly, inputVars, memVars
<1>2. CASE Redo /\ stage' = "parse"
  <2>1. earliest_window_data_remaining' \in Int
    BY <1>1 DEF EncInv, EncTyped
  <2> QED BY <1>1, <1>2, <2>1, RedoStep
<1>3. CASE /\ stage' = "block" /\ first_block' = FALSE
           /\ UNCHANGED <<itemVars, last_matchpos_offset, blockVars, buf_pos,
                          bufpos_last_output_block>>
  <2>1. UNCHANGED <<items, dist_data, last_matchpos_offset, repeated_offset_at_literal_zero,
                    bufpos_at_last_block, buf_pos, bufpos_last_output_block>>
    BY <1>3 DEF itemVars, blockVars
  <2>2. EncTyped' /\ InChunks' /\ FirstBlock' /\ Spelled' /\ Planned'
    BY <1>1, <1>3, <2>1 DEF EncInv, EncTyped, InChunks, FirstBlock, Spelled, Planned, SrcSize
  <2>3. MemoryHolds'
    BY <1>1, <1>3, <2>1 DEF EncInv, MemoryHolds, At, Input
  <2> QED BY <2>2, <2>3 DEF EncInv
<1> QED BY <1>2, <1>3 DEF RedoEarly

\* The steps that move nothing: the stages, a plan, the last frame.
LEMMA StageStep ==
  ASSUME EncInv, FirstFlush \/ InputOver \/ LastFrame
  PROVE  EncInv'
<1>1. UNCHANGED kept
  BY DEF FirstFlush, InputOver, LastFrame, kept, inputVars, memVars, itemVars, blockVars
<1>2. stage' # "plan" /\ (stage' \in {"start", "read"} => stage \in {"start", "read"})
  BY DEF FirstFlush, InputOver, LastFrame
<1>3. Planned'
  BY <1>2 DEF Planned
<1> QED BY <1>1, <1>2, <1>3, KeptSame

\* A look-ahead chooses among the items that may stand there.
LEMMA PlanStep == ASSUME EncInv, NEW is \in Plans, Plan(is) PROVE EncInv'
<1>1. UNCHANGED kept /\ stage' = "plan" /\ plan' = is /\ buf_pos < buf_pos_end
  BY DEF Plan, kept, inputVars, memVars, itemVars, blockVars
<1>2. Plans' = Plans
  BY <1>1, PlansSame DEF kept
<1>3. Planned'
  BY <1>1, <1>2 DEF Planned, kept
<1> QED BY <1>1, <1>3, KeptSame

\* A block, on each of the three occasions.
LEMMA WriteStep ==
  ASSUME EncInv, NEW where, NEW type,
         FlushBlock(where, type) \/ MakeRoom(where, type) \/ WriteBlock(where, type)
  PROVE  EncInv'
<1>1. /\ output_block(where, type)
      /\ UNCHANGED <<src, src_at, real_mem_window, base, earliest_window_data_remaining,
                     buf_pos, buf_pos_end, plan, last_matchpos_offset>>
      /\ bufpos_last_output_block' \in {bufpos_last_output_block, buf_pos}
      /\ stage' \in {"end", "plan", "parse"} /\ (stage' = "plan" => stage = "plan")
  BY DEF FlushBlock, MakeRoom, WriteBlock, block_end, inputVars, memVars
<1>2. bufpos_last_output_block' \in Int /\ stage' \notin {"start", "read"}
  BY <1>1 DEF EncInv, EncTyped
<1> QED BY <1>1, <1>2, BlockStep

\* Every step of the encoder keeps the invariant.
LEMMA EncoderStep == EncInv /\ [EncoderNext]_encoderVars => EncInv'
<1> SUFFICES ASSUME EncInv, [EncoderNext]_encoderVars PROVE EncInv'
  OBVIOUS
<1>1. CASE FirstFlush \/ InputOver \/ LastFrame
  BY <1>1, StageStep
<1>2. CASE ReadInput
  BY <1>2, ReadInputStep
<1>3. CASE Literal
  BY <1>3, LiteralStep
<1>4. CASE Commit
  BY <1>4, CommitStep
<1>5. CASE RedoEarly
  BY <1>5, RedoEarlyStep
<1>6. CASE ChunkEnd
  BY <1>6, ChunkEndStep
<1>7. CASE \E m \in MatchesAt(buf_pos, last_matchpos_offset) : LongMatch(m[1], m[2])
  BY <1>7, LongMatchStep
<1>8. CASE \E is \in Plans : Plan(is)
  BY <1>8, PlanStep
<1>9. CASE \E w \in Splits, t \in BlockTypes :
             FlushBlock(w, t) \/ MakeRoom(w, t) \/ WriteBlock(w, t)
  BY <1>9, WriteStep
<1>10. CASE UNCHANGED encoderVars
  <2>1. UNCHANGED kept /\ stage' = stage /\ plan' = plan
    BY <1>10 DEF encoderVars, kept, inputVars, memVars, itemVars, blockVars
  <2>2. Plans' = Plans
    BY <2>1, PlansSame DEF kept
  <2>3. Planned'
    BY <2>1, <2>2 DEF EncInv, Planned, kept
  <2> QED BY <2>1, <2>3, KeptSame
<1> QED BY <1>1, <1>2, <1>3, <1>4, <1>5, <1>6, <1>7, <1>8, <1>9, <1>10 DEF EncoderNext

\* The decoder takes frames away, and touches nothing else of the encoder.
LEMMA TripStep == EncInv /\ [TripNext]_tripVars => EncInv'
<1> SUFFICES ASSUME EncInv, [TripNext]_tripVars PROVE EncInv'
  OBVIOUS
<1>1. CASE EncoderNext
  BY <1>1, EncoderStep
<1>2. CASE UNCHANGED encoderVars
  BY <1>2, EncoderStep
<1>3. CASE FrameRead
  <2>1. UNCHANGED kept /\ stage' = stage /\ plan' = plan
    BY <1>3 DEF FrameRead, kept, inputVars, memVars, itemVars
  <2>2. Plans' = Plans
    BY <2>1, PlansSame DEF kept
  <2>3. Planned'
    BY <2>1, <2>2 DEF EncInv, Planned, kept
  <2> QED BY <2>1, <2>3, KeptSame
<1>4. EncoderNext \/ UNCHANGED encoderVars \/ FrameRead
  BY DEF TripNext, Encode, ReadFrame, ReadToken, Decode, AllRead, Over, tripVars
<1> QED BY <1>1, <1>2, <1>3, <1>4

\* What is left of the memory where a block may begin is what the input holds there.
LEMMA RawRemains == EncInv => RawDataRemains
<1> SUFFICES ASSUME EncInv, bufpos_at_last_block >= earliest_window_data_remaining,
                    NEW p \in bufpos_at_last_block .. buf_pos - 1
             PROVE  p - base \in DOMAIN real_mem_window /\ At(p) = src[p - First + 1]
  BY DEF RawDataRemains
<1>1. /\ base \in Int /\ earliest_window_data_remaining \in Int /\ buf_pos \in Int
      /\ buf_pos_end \in Int /\ bufpos_at_last_block \in Int
      /\ DOMAIN real_mem_window = 0 .. W + SECONDARY_PARTITION_SIZE - 1
      /\ buf_pos <= buf_pos_end /\ buf_pos_end <= base + W + SECONDARY_PARTITION_SIZE
      /\ base = First \/ base <= earliest_window_data_remaining
      /\ First <= bufpos_at_last_block
      /\ \A i \in base .. buf_pos_end - 1 : At(i) = Input(i)
  BY DEF EncInv, EncTyped, MemoryHolds, FirstBlock
<1>2. base <= bufpos_at_last_block
  BY <1>1, Sizes
<1>3. p \in base .. buf_pos_end - 1 /\ p - base \in 0 .. W + SECONDARY_PARTITION_SIZE - 1
  BY <1>1, <1>2, Sizes
<1> QED BY <1>1, <1>3 DEF Input

\* The inductive invariant of lzx_compress, for every size of window, chunk and buffer, every
\* input, and every choice of matches, splits and block types.
THEOREM EncoderInvariant == TripSpec => []EncInv
<1>1. TripInit => EncInv
  BY EncoderStarts DEF TripInit
<1> QED BY <1>1, TripStep, PTL DEF TripSpec

\* The items that are kept back stand for the input from the last block to the parser, over
\* look-aheads, split blocks, moves of the memory and the first block that is parsed twice
\* (opt_encode_top, output_block, get_final_repeated_offset_states, redo_first_block).
THEOREM TripItemsSpell == TripSpec => []ItemsSpell
<1>1. EncInv => ItemsSpell
  BY SpelledIs DEF EncInv
<1> QED BY <1>1, EncoderInvariant, PTL

\* When encode_uncompressed_block copies a block from the memory, its bytes are still there
\* (earliest_window_data_remaining).
THEOREM TripRawDataRemains == TripSpec => []RawDataRemains
BY RawRemains, EncoderInvariant, PTL
-----------------------------------------------------------------------------
(***************************************************************************)
(* The frames that lzx_compress writes lead a reader through the input.    *)
(***************************************************************************)
\* Where a reader of the frames is: the position, the repeated offsets, and how much of the
\* block is left.  No repeated offset is farther than the window is long.
Near == (1 .. W) \X (1 .. W) \X (1 .. W)
Places == [pos : Int, offs : Near, left : Nat]

Tokens == [kind : {"block"}, type : BlockTypes, size : Nat, offs : Near]
          \cup [kind : {"literal", "raw"}, byte : 0 .. 255]
          \cup [kind : {"match"}, n : LZX_MIN_MATCH .. LZX_MAX_MATCH, m : 0 .. 3, off : 0 .. Reach]
Frames == [size : Nat, tokens : Seq(Tokens)]

\* A token leads from s to r and gives, of the input t, the bytes between them.
Code(k) == IF k.m <= 2 THEN k.m ELSE k.off + 2
Heads(s, k, r) ==
  /\ k.kind = "block" /\ s.left = 0
  /\ r = [pos |-> s.pos, offs |-> IF k.type = "uncompressed" THEN k.offs ELSE s.offs,
          left |-> k.size]
GivesByte(t, s, k, r) ==
  /\ k.kind \in {"literal", "raw"} /\ s.pos < First + Len(t) /\ 1 <= s.left
  /\ k.byte = ByteOf(t, s.pos)
  /\ r = [pos |-> s.pos + 1, offs |-> s.offs, left |-> s.left - 1]
GivesMatch(t, s, k, r) ==
  /\ k.kind = "match" /\ s.pos + k.n <= First + Len(t) /\ k.n <= s.left
  /\ k.m = 3 => k.off > 0
  /\ CopiesIn(t, s.pos, Distance(Code(k), s.offs), k.n)
  /\ r = [pos |-> s.pos + k.n, offs |-> OffsetsAfter(s.offs, Code(k)), left |-> s.left - k.n]
Gives(t) == {c \in Places \X Tokens \X Places :
               Heads(c[1], c[2], c[3]) \/ GivesByte(t, c[1], c[2], c[3])
               \/ GivesMatch(t, c[1], c[2], c[3])}

\* One token after another, one frame after another.
Linked(R, s, ks, r) == \E f \in [0 .. Len(ks) -> Places] :
                         /\ f[0] = s /\ f[Len(ks)] = r
                         /\ \A i \in 1 .. Len(ks) : <<f[i - 1], ks[i], f[i]>> \in R
GivesFrame(t) == {c \in Places \X Frames \X Places :
                    /\ Linked(Gives(t), c[1], c[2].tokens, c[3])
                    /\ c[2].size = c[3].pos - c[1].pos /\ c[2].size \in 1 .. LZX_CHUNK_SIZE}

\* From nothing, with another one behind, and without the first.
LEMMA LinkedNone ==
  ASSUME NEW R, NEW s \in Places
  PROVE  Linked(R, s, <<>>, s)
<1> DEFINE f == [i \in 0 .. 0 |-> s]
<1>1. f \in [0 .. Len(<<>>) -> Places] /\ f[0] = s /\ f[Len(<<>>)] = s
      /\ \A i \in 1 .. Len(<<>>) : <<f[i - 1], <<>>[i], f[i]>> \in R
  OBVIOUS
<1> HIDE DEF f
<1> QED BY <1>1 DEF Linked

LEMMA LinkedIs ==
  ASSUME NEW R, NEW s, NEW r, Linked(R, s, <<>>, r)
  PROVE  s = r /\ s \in Places
<1>1. PICK f \in [0 .. Len(<<>>) -> Places] : f[0] = s /\ f[Len(<<>>)] = r
  BY DEF Linked
<1>2. Len(<<>>) = 0 /\ 0 \in 0 .. 0
  OBVIOUS
<1> QED BY <1>1, <1>2

LEMMA LinkedLonger ==
  ASSUME NEW K, NEW R, NEW s, NEW ks \in Seq(K), NEW r, Linked(R, s, ks, r),
         NEW k \in K, NEW q \in Places, <<r, k, q>> \in R
  PROVE  Linked(R, s, Append(ks, k), q)
<1> DEFINE n == Len(ks)
           ls == Append(ks, k)
<1>1. n \in Nat /\ Len(ls) = n + 1 /\ ls[n + 1] = k /\ \A i \in 1 .. n : ls[i] = ks[i]
  OBVIOUS
<1>2. PICK f \in [0 .. n -> Places] :
        f[0] = s /\ f[n] = r /\ \A i \in 1 .. n : <<f[i - 1], ks[i], f[i]>> \in R
  BY DEF Linked
<1> HIDE DEF n, ls
<1> DEFINE g == [i \in 0 .. n + 1 |-> IF i <= n THEN f[i] ELSE q]
<1>3. g \in [0 .. n + 1 -> Places]
  BY <1>1, <1>2
<1>4. (\A i \in 0 .. n : g[i] = f[i]) /\ g[n + 1] = q
  BY <1>1
<1> HIDE DEF g
<1>5. g[0] = s /\ g[n] = r
  BY <1>1, <1>2, <1>4
<1>6. ASSUME NEW i \in 1 .. n + 1 PROVE <<g[i - 1], ls[i], g[i]>> \in R
  <2>1. CASE i \in 1 .. n
    <3>1. i - 1 \in 0 .. n /\ i \in 0 .. n
      BY <1>1, <2>1
    <3> QED BY <1>1, <1>2, <1>4, <2>1, <3>1
  <2>2. CASE i = n + 1
    <3>1. i - 1 = n
      BY <1>1, <2>2
    <3> QED BY <1>1, <1>4, <1>5, <2>2, <3>1
  <2> QED BY <1>1, <2>1, <2>2
<1>7. g \in [0 .. Len(ls) -> Places] /\ g[Len(ls)] = q
  BY <1>1, <1>3, <1>4
<1>8. \A i \in 1 .. Len(ls) : <<g[i - 1], ls[i], g[i]>> \in R
  BY <1>1, <1>6
<1>9. Linked(R, s, ls, q)
  BY <1>5, <1>7, <1>8 DEF Linked
<1> QED BY <1>9 DEF ls

LEMMA LinkedRest ==
  ASSUME NEW K, NEW R, NEW s, NEW ks \in Seq(K), ks # <<>>, NEW r, Linked(R, s, ks, r)
  PROVE  \E q \in Places : <<s, ks[1], q>> \in R /\ Linked(R, q, Tail(ks), r)
<1> DEFINE n == Len(ks)
           ls == Tail(ks)
<1>1. n \in Nat \ {0} /\ Len(ls) = n - 1 /\ \A i \in 1 .. n - 1 : ls[i] = ks[i + 1]
  OBVIOUS
<1>2. PICK f \in [0 .. n -> Places] :
        f[0] = s /\ f[n] = r /\ \A i \in 1 .. n : <<f[i - 1], ks[i], f[i]>> \in R
  BY DEF Linked
<1> HIDE DEF n, ls
<1> DEFINE g == [i \in 0 .. n - 1 |-> f[i + 1]]
<1>3. g \in [0 .. n - 1 -> Places]
  BY <1>1, <1>2
<1>4. \A i \in 0 .. n - 1 : g[i] = f[i + 1]
  OBVIOUS
<1> HIDE DEF g
<1>5. g[0] = f[1] /\ g[n - 1] = r /\ f[1] \in Places
  <2>1. 0 \in 0 .. n - 1 /\ n - 1 \in 0 .. n - 1 /\ n - 1 + 1 = n /\ 1 \in 0 .. n
    BY <1>1
  <2> QED BY <1>2, <1>4, <2>1
<1>6. ASSUME NEW i \in 1 .. n - 1 PROVE <<g[i - 1], ls[i], g[i]>> \in R
  <2>1. i - 1 \in 0 .. n - 1 /\ i \in 0 .. n - 1 /\ (i - 1) + 1 = i /\ i + 1 \in 1 .. n
        /\ (i + 1) - 1 = i
    BY <1>1
  <2>2. g[i - 1] = f[i] /\ g[i] = f[i + 1] /\ ls[i] = ks[i + 1]
    BY <1>1, <1>4, <2>1
  <2>3. <<f[(i + 1) - 1], ks[i + 1], f[i + 1]>> \in R
    BY <1>2, <2>1
  <2> QED BY <2>1, <2>2, <2>3
<1>7. Linked(R, f[1], ls, r)
  BY <1>1, <1>3, <1>5, <1>6 DEF Linked
<1>8. <<s, ks[1], f[1]>> \in R
  <2>1. 1 \in 1 .. n /\ 1 - 1 = 0
    BY <1>1
  <2> QED BY <1>2, <2>1
<1> QED BY <1>5, <1>7, <1>8 DEF ls

-----------------------------------------------------------------------------
\* What do_block_output works on: the frame, its bytes, the frames before it.
Outs(S) == [frame : Seq(Tokens), total : Nat, frames : Seq(Frames), splits : S]

\* The frames and what there is of the next one lead from a to s; that one began where a
\* chunk does.
Writes(t, a, o, s) ==
  /\ o.total < LZX_CHUNK_SIZE /\ Chunks(s.pos - o.total)
  /\ \E c \in Places : /\ Linked(GivesFrame(t), a, o.frames, c)
                       /\ Linked(Gives(t), c, o.frame, s) /\ o.total = s.pos - c.pos

\* A token more, and the frame is written when it is full.
LEMMA OutIs ==
  ASSUME NEW S, 0 \in S, NEW o \in Outs(S), NEW k \in Tokens, NEW n \in Nat
  PROVE  LET full == o.total + n = LZX_CHUNK_SIZE
             fs == Append(o.frames, [size |-> LZX_CHUNK_SIZE, tokens |-> Append(o.frame, k)]) IN
         /\ Out(o, k, n) \in Outs(S)
         /\ full => /\ Out(o, k, n).frame = <<>> /\ Out(o, k, n).total = 0
                    /\ Out(o, k, n).frames = fs
         /\ ~full => /\ Out(o, k, n).frame = Append(o.frame, k)
                     /\ Out(o, k, n).total = o.total + n
                     /\ Out(o, k, n).frames = o.frames
<1> DEFINE put == [o EXCEPT !.frame = Append(@, k), !.total = @ + n]
           fr == [size |-> LZX_CHUNK_SIZE, tokens |-> Append(o.frame, k)]
<1>1. o.frame \in Seq(Tokens) /\ o.total \in Nat /\ o.frames \in Seq(Frames)
  BY DEF Outs
<1>2. Append(o.frame, k) \in Seq(Tokens) /\ o.total + n \in Nat
  BY <1>1
<1>3. put \in Outs(S)
  BY <1>2 DEF Outs
<1>4. put.frame = Append(o.frame, k) /\ put.total = o.total + n /\ put.frames = o.frames
  BY DEF Outs
<1> HIDE DEF put
<1>5. LZX_CHUNK_SIZE \in Nat
  BY EncoderSizes
<1>6. CASE o.total + n = LZX_CHUNK_SIZE
  <2> DEFINE fs == Append(put.frames, [size |-> put.total, tokens |-> put.frame])
             u == [put EXCEPT !.frames = fs, !.frame = <<>>, !.total = 0, !.splits = 0]
  <2>1. fs = Append(o.frames, fr) /\ Out(o, k, n) = u
    BY <1>4, <1>6 DEF Out, Flushed, put
  <2>2. fr \in Frames
    BY <1>2, <1>5 DEF Frames
  <2> HIDE DEF fs, fr
  <2>3. fs \in Seq(Frames) /\ <<>> \in Seq(Tokens)
    BY <1>1, <2>1, <2>2
  <2>4. u \in Outs(S) /\ u.frame = <<>> /\ u.total = 0 /\ u.frames = fs
    BY <1>3, <2>3 DEF Outs
  <2> HIDE DEF u
  <2> QED BY <1>6, <2>1, <2>4 DEF fr
<1>7. CASE o.total + n # LZX_CHUNK_SIZE
  <2>1. Out(o, k, n) = put
    BY <1>4, <1>7 DEF Out, put
  <2> QED BY <1>3, <1>4, <1>7, <2>1
<1> QED BY <1>6, <1>7

\* What a frame holds begins where its chunk does.
LEMMA TotalIsRest ==
  ASSUME NEW p \in Int, NEW r \in Nat, r < LZX_CHUNK_SIZE, Chunks(p - r)
  PROVE  p % LZX_CHUNK_SIZE = r
<1> DEFINE m == LZX_CHUNK_SIZE
<1>1. m \in Nat \ {0}
  BY EncoderSizes
<1>2. PICK k \in Int : p - r = k * m
  BY DEF Chunks
<1> HIDE DEF m
<1> DEFINE d == p \div m
           e == p % m
<1>3. p = m * d + e /\ e \in 0 .. m - 1 /\ d \in Int
  BY <1>1
<1> HIDE DEF d, e
<1>4. p = m * k + r /\ r \in 0 .. m - 1
  BY <1>1, <1>2 DEF m
<1>5. m * (d - k) = r - e
  BY <1>1, <1>3, <1>4
<1>6. d - k = 0
  <2>1. d - k >= 1 => m * (d - k) >= m
    BY <1>1, <1>3
  <2>2. d - k <= -1 => m * (d - k) <= -m
    BY <1>1, <1>3
  <2> QED BY <1>1, <1>3, <1>4, <1>5, <2>1, <2>2
<1> QED BY <1>1, <1>3, <1>4, <1>5, <1>6 DEF e, m

\* A token that stays in its chunk.
LEMMA OutWrites ==
  ASSUME NEW S, 0 \in S, NEW o \in Outs(S), NEW t, NEW a, NEW s \in Places, NEW r \in Places,
         Writes(t, a, o, s), NEW k \in Tokens, <<s, k, r>> \in Gives(t),
         NEW n \in Nat \ {0}, r.pos = s.pos + n, InChunk(s.pos, n)
  PROVE  Out(o, k, n) \in Outs(S) /\ Writes(t, a, Out(o, k, n), r)
<1> DEFINE u == Out(o, k, n)
           fr == [size |-> LZX_CHUNK_SIZE, tokens |-> Append(o.frame, k)]
<1>1. /\ o.frame \in Seq(Tokens) /\ o.total \in Nat /\ o.frames \in Seq(Frames)
      /\ s.pos \in Int /\ r.pos \in Int /\ LZX_CHUNK_SIZE \in Nat \ {0}
  BY EncoderSizes DEF Outs, Places
<1>2. o.total < LZX_CHUNK_SIZE /\ Chunks(s.pos - o.total)
  BY DEF Writes
<1>3. PICK c \in Places : /\ Linked(GivesFrame(t), a, o.frames, c)
                          /\ Linked(Gives(t), c, o.frame, s) /\ o.total = s.pos - c.pos
  BY DEF Writes
<1>4. c.pos \in Int
  BY DEF Places
<1>10. s.pos \in Int /\ r.pos \in Int /\ c.pos \in Int
  BY <1>1, <1>4
<1>5. /\ u \in Outs(S)
      /\ o.total + n = LZX_CHUNK_SIZE =>
           u.frame = <<>> /\ u.total = 0 /\ u.frames = Append(o.frames, fr)
      /\ o.total + n # LZX_CHUNK_SIZE =>
           /\ u.frame = Append(o.frame, k) /\ u.total = o.total + n /\ u.frames = o.frames
  BY OutIs, SMTT(30)
<1> HIDE DEF u
<1>6. o.total + n <= LZX_CHUNK_SIZE
  BY <1>1, <1>2, TotalIsRest DEF InChunk
<1>7. Linked(Gives(t), c, Append(o.frame, k), r)
  BY <1>1, <1>3, LinkedLonger
<1>8. CASE o.total + n = LZX_CHUNK_SIZE
  <2>1. fr \in Frames /\ fr.size = r.pos - c.pos /\ fr.size \in 1 .. LZX_CHUNK_SIZE
        /\ fr.tokens = Append(o.frame, k)
    <3>1. fr.size = LZX_CHUNK_SIZE /\ fr.tokens = Append(o.frame, k)
      OBVIOUS
    <3>2. Append(o.frame, k) \in Seq(Tokens)
      BY <1>1
    <3>3. fr \in Frames
      BY <1>1, <3>2 DEF Frames
    <3> HIDE DEF fr
    <3>4. LZX_CHUNK_SIZE = r.pos - c.pos
      <4> DEFINE x == o.total
      <4>1. x \in Nat /\ x + n = LZX_CHUNK_SIZE /\ x = s.pos - c.pos
        BY <1>1, <1>3, <1>8
      <4> HIDE DEF x
      <4> QED BY <1>1, <1>4, <4>1, SMTT(30)
    <3> QED BY <1>1, <3>1, <3>3, <3>4
  <2> HIDE DEF fr
  <2>2. <<c, fr, r>> \in GivesFrame(t)
    BY <1>7, <2>1 DEF GivesFrame
  <2>3. Linked(GivesFrame(t), a, u.frames, r)
    BY <1>1, <1>3, <1>5, <1>8, <2>1, <2>2, LinkedLonger
  <2>4. Linked(Gives(t), r, u.frame, r)
    BY <1>5, <1>8, LinkedNone
  <2>5. Chunks(r.pos - u.total)
    <3>1. PICK j \in Int : s.pos - o.total = j * LZX_CHUNK_SIZE
      BY <1>2 DEF Chunks
    <3> DEFINE x == o.total
               m == LZX_CHUNK_SIZE
    <3>2. x \in Nat /\ x + n = m /\ s.pos - x = j * m /\ m \in Nat /\ u.total = 0
      BY <1>1, <1>5, <1>8, <3>1
    <3> DEFINE p == s.pos
               q == r.pos
    <3>5. p \in Int /\ q = p + n /\ p - x = j * m
      BY <1>10, <3>2
    <3> HIDE DEF x, m, p, q
    <3>3. q = (j + 1) * m /\ j + 1 \in Int
      BY <3>2, <3>5
    <3>4. r.pos - u.total = (j + 1) * m
      BY <3>2, <3>3, <3>5 DEF q
    <3> QED BY <3>3, <3>4 DEF Chunks, m
  <2>6. u.total < LZX_CHUNK_SIZE /\ u.total = r.pos - r.pos
    BY <1>1, <1>5, <1>8
  <2> QED BY <1>5, <2>3, <2>4, <2>5, <2>6 DEF Writes, u
<1>9. CASE o.total + n # LZX_CHUNK_SIZE
  <2>1. u.total < LZX_CHUNK_SIZE /\ u.total = r.pos - c.pos /\ r.pos - u.total = s.pos - o.total
    <3> DEFINE x == o.total
               y == u.total
    <3>1. /\ x \in Nat /\ x + n # LZX_CHUNK_SIZE /\ x + n <= LZX_CHUNK_SIZE
          /\ x = s.pos - c.pos /\ y = x + n
      BY <1>1, <1>3, <1>5, <1>6, <1>9
    <3> DEFINE p == s.pos
               q == r.pos
               d == c.pos
    <3>3. p \in Int /\ q \in Int /\ d \in Int /\ q = p + n /\ x = p - d
      BY <1>10, <3>1
    <3> HIDE DEF x, y, p, q, d
    <3>4. LZX_CHUNK_SIZE \in Nat
      BY EncoderSizes
    <3>5. y < LZX_CHUNK_SIZE /\ y = q - d /\ q - y = p - x
      BY <3>1, <3>3, <3>4
    <3>2. y < LZX_CHUNK_SIZE /\ y = r.pos - c.pos /\ r.pos - y = s.pos - x
      BY <3>5 DEF p, q, d
    <3> QED BY <3>2 DEF x, y
  <2> QED BY <1>2, <1>3, <1>5, <1>7, <1>9, <2>1 DEF Writes, u
<1> QED BY <1>8, <1>9

-----------------------------------------------------------------------------
\* encode_verbatim_block, encode_aligned_block: one token after another,
ItemToken(is, ds, i) == Token(is[i], ds[Matches(SubSeq(is, 1, i))])
ToTokens(is, ds) == \A i \in 1 .. Len(is) : ItemToken(is, ds, i) \in Tokens
Encodes(f, S, o, is, ds) ==
  /\ f \in [0 .. Len(is) -> Outs(S)] /\ f[0] = o /\ f[Len(is)] = EncodeItems(o, is, ds)
  /\ \A i \in 1 .. Len(is) : f[i] = Out(f[i - 1], ItemToken(is, ds, i), is[i].n)
LEMMA EncodeSteps ==
  ASSUME NEW S, 0 \in S, NEW o \in Outs(S), NEW is \in Seq(Items), NEW ds, ToTokens(is, ds)
  PROVE  \E f : Encodes(f, S, o, is, ds)
<1> DEFINE n == Len(is)
           T == Outs(S)
           k(i) == ItemToken(is, ds, i)
           step == [x \in (1 .. n) \X T |-> Out(x[2], k(x[1]), is[x[1]].n)]
           g == CHOOSE h : h = [i \in 0 .. n |-> IF i = 0 THEN o ELSE Out(h[i - 1], k(i), is[i].n)]
<1>1. n \in Nat /\ \A i \in 1 .. n : is[i].n \in Nat /\ k(i) \in Tokens
  <2>1. \A x \in Items : x.n \in Nat
    BY DEF Items
  <2>2. n \in Nat /\ \A i \in 1 .. n : is[i] \in Items
    OBVIOUS
  <2> QED BY <2>1, <2>2 DEF ToTokens
<1>2. EncodeItems(o, is, ds) = g[n]
  BY DEF EncodeItems, ItemToken
<1> HIDE DEF n, k
<1>3. \A i \in 1 .. n, x \in T : Out(x, k(i), is[i].n) \in T
  BY <1>1, OutIs
<1>4. step \in [(1 .. n) \X T -> T]
  BY <1>3
<1>5. \A i \in 1 .. n, x \in T : step[<<i, x>>] = Out(x, k(i), is[i].n)
  OBVIOUS
<1> HIDE DEF step, T
<1>6. o \in T
  BY DEF T
<1>7. PICK f : Path(f, n, T, o, step)
  BY <1>1, <1>4, <1>6, PathExists
<1>8. f \in [0 .. n -> T] /\ f[0] = o /\ \A i \in 1 .. n : f[i] = step[<<i, f[i - 1]>>]
  BY <1>7 DEF Path
<1>9. \A i \in 1 .. n : f[i - 1] \in T /\ f[i] = Out(f[i - 1], k(i), is[i].n)
  <2>1. \A i \in 1 .. n : i - 1 \in 0 .. n
    BY <1>1
  <2> QED BY <1>5, <1>8, <2>1
<1>10. f = [i \in 0 .. n |-> IF i = 0 THEN o ELSE Out(f[i - 1], k(i), is[i].n)]
  <2>1. ASSUME NEW i \in 0 .. n PROVE f[i] = IF i = 0 THEN o ELSE Out(f[i - 1], k(i), is[i].n)
    <3>1. i # 0 => i \in 1 .. n
      BY <1>1
    <3> QED BY <1>8, <1>9, <3>1
  <2> QED BY <1>8, <2>1
<1>11. g = CHOOSE h : h = [i \in 0 .. n |-> IF i = 0 THEN o ELSE Out(h[i - 1], k(i), is[i].n)]
  OBVIOUS
<1> HIDE DEF g
<1>12. g = [i \in 0 .. n |-> IF i = 0 THEN o ELSE Out(g[i - 1], k(i), is[i].n)]
  BY <1>10, <1>11, Zenon
<1>13. \A i \in 0 .. n : g[i] = IF i = 0 THEN o ELSE Out(g[i - 1], k(i), is[i].n)
  BY <1>12, Zenon
<1>14. g[0] = o /\ \A i \in 1 .. n : g[i] = Out(g[i - 1], k(i), is[i].n)
  BY <1>1, <1>13
<1>15. Along(g, n, T, o, step)
  BY <1>5, <1>14 DEF Along
<1>16. \A i \in 0 .. n : g[i] = f[i]
  BY <1>1, <1>7, <1>15, PathUnique
<1>17. f[n] = EncodeItems(o, is, ds)
  BY <1>1, <1>2, <1>16
<1>18. Encodes(f, S, o, is, ds)
  BY <1>8, <1>9, <1>17 DEF Encodes, n, k, T
<1> QED BY <1>18

\* encode_uncompressed_block: one byte after another.
RawToken(p, i) == [kind |-> "raw", byte |-> At(p + i - 1)]
BytesAt(p, n) == \A i \in 1 .. n : At(p + i - 1) \in 0 .. 255
CopiesRaw(f, S, o, p, n) ==
  /\ f \in [0 .. n -> Outs(S)] /\ f[0] = o /\ f[n] = CopyRaw(o, p, n)
  /\ \A i \in 1 .. n : f[i] = Out(f[i - 1], RawToken(p, i), 1)
LEMMA CopySteps ==
  ASSUME NEW S, 0 \in S, NEW o \in Outs(S), NEW p \in Int, NEW n \in Nat, BytesAt(p, n)
  PROVE  \E f : CopiesRaw(f, S, o, p, n)
<1> DEFINE T == Outs(S)
           k(i) == RawToken(p, i)
           step == [x \in (1 .. n) \X T |-> Out(x[2], k(x[1]), 1)]
           g == CHOOSE h : h = [i \in 0 .. n |-> IF i = 0 THEN o ELSE Out(h[i - 1], k(i), 1)]
<1>1. \A i \in 1 .. n : k(i) \in Tokens
  BY DEF Tokens, BytesAt, RawToken
<1>2. CopyRaw(o, p, n) = g[n]
  BY DEF CopyRaw, RawToken
<1> HIDE DEF k
<1>3. \A i \in 1 .. n, x \in T : Out(x, k(i), 1) \in T
  BY <1>1, OutIs
<1>4. step \in [(1 .. n) \X T -> T]
  BY <1>3
<1>5. \A i \in 1 .. n, x \in T : step[<<i, x>>] = Out(x, k(i), 1)
  OBVIOUS
<1> HIDE DEF step, T
<1>6. o \in T
  BY DEF T
<1>7. PICK f : Path(f, n, T, o, step)
  BY <1>4, <1>6, PathExists
<1>8. f \in [0 .. n -> T] /\ f[0] = o /\ \A i \in 1 .. n : f[i] = step[<<i, f[i - 1]>>]
  BY <1>7 DEF Path
<1>9. \A i \in 1 .. n : f[i - 1] \in T /\ f[i] = Out(f[i - 1], k(i), 1)
  <2>1. \A i \in 1 .. n : i - 1 \in 0 .. n
    OBVIOUS
  <2> QED BY <1>5, <1>8, <2>1
<1>10. f = [i \in 0 .. n |-> IF i = 0 THEN o ELSE Out(f[i - 1], k(i), 1)]
  <2>1. ASSUME NEW i \in 0 .. n PROVE f[i] = IF i = 0 THEN o ELSE Out(f[i - 1], k(i), 1)
    <3>1. i # 0 => i \in 1 .. n
      OBVIOUS
    <3> QED BY <1>8, <1>9, <3>1
  <2> QED BY <1>8, <2>1
<1>11. g = CHOOSE h : h = [i \in 0 .. n |-> IF i = 0 THEN o ELSE Out(h[i - 1], k(i), 1)]
  OBVIOUS
<1> HIDE DEF g
<1>12. g = [i \in 0 .. n |-> IF i = 0 THEN o ELSE Out(g[i - 1], k(i), 1)]
  BY <1>10, <1>11, Zenon
<1>13. \A i \in 0 .. n : g[i] = IF i = 0 THEN o ELSE Out(g[i - 1], k(i), 1)
  BY <1>12, Zenon
<1>14. g[0] = o /\ \A i \in 1 .. n : g[i] = Out(g[i - 1], k(i), 1)
  BY <1>13
<1>15. Along(g, n, T, o, step)
  BY <1>5, <1>14 DEF Along
<1>16. \A i \in 0 .. n : g[i] = f[i]
  BY <1>7, <1>15, PathUnique
<1>17. f[n] = CopyRaw(o, p, n)
  BY <1>2, <1>16
<1>18. CopiesRaw(f, S, o, p, n)
  BY <1>8, <1>9, <1>17 DEF CopiesRaw, k, T
<1> QED BY <1>18

-----------------------------------------------------------------------------
\* A match that is near leaves near offsets.
LEMMA NearOffsets ==
  ASSUME NEW o \in Near, NEW c \in Nat, Distance(c, o) <= Reach
  PROVE  Distance(c, o) \in 1 .. W /\ OffsetsAfter(o, c) \in Near
<1>1. PICK x \in 1 .. W, y \in 1 .. W, z \in 1 .. W : o = <<x, y, z>>
  BY DEF Near
<1>2. o[1] = x /\ o[2] = y /\ o[3] = z
  BY <1>1
<1>3. \A u, v, w \in 1 .. W : <<u, v, w>> \in Near
  BY DEF Near
<1>4. W \in Nat /\ Reach \in Nat /\ Reach < W
  BY EncoderSizes DEF W
<1>5. c = 0 \/ c = 1 \/ c = 2 \/ c > 2
  OBVIOUS
<1>6. c > 2 => c - 2 \in 1 .. W
  BY <1>4 DEF Distance
<1>7. c > 2 => Distance(c, o) = c - 2 /\ OffsetsAfter(o, c) = <<c - 2, x, y>>
  BY <1>2 DEF Distance, OffsetsAfter
<1>8. /\ c = 0 => Distance(c, o) = x /\ OffsetsAfter(o, c) = o
      /\ c = 1 => Distance(c, o) = y /\ OffsetsAfter(o, c) = <<y, x, z>>
      /\ c = 2 => Distance(c, o) = z /\ OffsetsAfter(o, c) = <<z, y, x>>
  BY <1>2 DEF Distance, OffsetsAfter
<1> QED BY <1>3, <1>5, <1>6, <1>7, <1>8

LEMMA NearIsTriple == Near \subseteq Triples
<1>1. 1 .. W \subseteq Nat \ {0}
  BY Sizes
<1> QED BY <1>1 DEF Near, Triples

\* Every offset that the items leave is near.
LEMMA KeepsNear ==
  ASSUME NEW t, NEW p \in Int, NEW offs \in Near, NEW is \in Seq(Items), NEW ds \in Seq(Nat),
         NEW q, NEW o, Keeps(t, p, offs, is, ds, q, o), NEW i \in 0 .. Len(is)
  PROVE  Walk(p, offs, is, ds)[i].offs \in Near
<1> DEFINE n == Len(is)
           w == Walk(p, offs, is, ds)
           S == {k \in Nat : k <= n => w[k].offs \in Near}
<1>1. n \in Nat /\ i \in 0 .. n /\ (\A k \in 1 .. n : is[k] \in Items) /\ offs \in Triples
  BY NearIsTriple
<1>2. /\ w[n] = [pos |-> q, offs |-> o, dists |-> Len(ds)]
      /\ \A k \in 1 .. n : SpellsIn(t, is[k], w[k - 1], ds)
  BY DEF Keeps
<1>3. /\ w \in [0 .. n -> States(ds)] /\ w[0] = [pos |-> p, offs |-> offs, dists |-> 0]
      /\ \A k \in 1 .. n : w[k] = Reads(w[k - 1], is[k], ds)
  BY <1>1, WalkSteps, ZenonT(30)
<1>4. w[n].dists <= Len(ds)
  BY <1>2
<1>5. \A k \in 0 .. n : w[k].dists \in 0 .. Len(ds)
  BY <1>1, <1>4, WalkOffsets
<1> HIDE DEF n, w
<1>6. 0 \in S
  BY <1>3
<1>7. ASSUME NEW k \in Nat, k \in S PROVE k + 1 \in S
  <2> SUFFICES ASSUME k + 1 <= n PROVE w[k + 1].offs \in Near
    OBVIOUS
  <2>1. k + 1 \in 1 .. n /\ (k + 1) - 1 = k /\ k <= n /\ k \in 0 .. n /\ k + 1 \in 0 .. n
    BY <1>1
  <2>2. w[k].offs \in Near
    BY <1>7, <2>1
  <2>3. w[k + 1] = Reads(w[k], is[k + 1], ds) /\ w[k] \in States(ds) /\ is[k + 1] \in Items
    BY <1>1, <1>3, <2>1
  <2>4. /\ w[k].dists \in Nat
        /\ w[k + 1].dists = w[k].dists + (IF IsMatch(is[k + 1]) THEN 1 ELSE 0)
        /\ w[k + 1].offs = IF IsMatch(is[k + 1]) THEN OffsetsAfter(w[k].offs, ds[w[k].dists + 1])
                           ELSE w[k].offs
    BY <2>3, ReadsMoves, SMTT(30)
  <2>5. CASE IsMatch(is[k + 1])
    <3> DEFINE e == w[k].dists
    <3>1. w[k + 1].dists = e + 1 /\ w[k + 1].dists \in 0 .. Len(ds) /\ e \in Nat
      BY <1>5, <2>1, <2>4, <2>5
    <3>2. SpellsIn(t, is[k + 1], w[k], ds)
      BY <1>2, <2>1
    <3>3. Distance(ds[e + 1], w[k].offs) <= Reach
      BY <2>5, <3>2 DEF SpellsIn
    <3>4. w[k + 1].offs = OffsetsAfter(w[k].offs, ds[e + 1])
      BY <2>4, <2>5
    <3> HIDE DEF e
    <3>5. ds[e + 1] \in Nat
      BY <3>1
    <3> QED BY <2>2, <3>3, <3>4, <3>5, NearOffsets
  <2>6. CASE ~IsMatch(is[k + 1])
    BY <2>2, <2>4, <2>6
  <2> QED BY <2>5, <2>6
<1> HIDE DEF S
<1>8. i \in Nat
  BY <1>1
<1>9. i \in S
  BY <1>6, <1>7, <1>8, Induct
<1>10. w[i].offs \in Near
  BY <1>1, <1>9 DEF S
<1> QED BY <1>10 DEF w

\* The first items, with their distances, as far as they go.
LEMMA KeepsFirst ==
  ASSUME NEW t, NEW p \in Int, NEW offs \in Triples, NEW is \in Seq(Items), NEW ds \in Seq(Nat),
         NEW q, NEW o, Keeps(t, p, offs, is, ds, q, o), NEW m \in 0 .. Len(is)
  PROVE  Keeps(t, p, offs, SubSeq(is, 1, m), SubSeq(ds, 1, Matches(SubSeq(is, 1, m))),
               Walk(p, offs, is, ds)[m].pos, Walk(p, offs, is, ds)[m].offs)
<1> DEFINE n == Len(is)
           d == Len(ds)
           w == Walk(p, offs, is, ds)
           k == Matches(SubSeq(is, 1, m))
           js == SubSeq(is, 1, m)
           es == SubSeq(ds, 1, k)
           v == Walk(p, offs, js, es)
<1>1. n \in Nat /\ d \in Nat /\ m \in 0 .. n /\ m \in Nat /\ \A i \in 1 .. n : is[i] \in Items
  OBVIOUS
<1>2. /\ w[n] = [pos |-> q, offs |-> o, dists |-> d]
      /\ \A i \in 1 .. n : SpellsIn(t, is[i], w[i - 1], ds)
  BY DEF Keeps
<1>3. /\ w \in [0 .. n -> States(ds)] /\ w[0] = [pos |-> p, offs |-> offs, dists |-> 0]
      /\ \A i \in 1 .. n : w[i] = Reads(w[i - 1], is[i], ds)
  BY WalkSteps, ZenonT(30)
<1>4. k \in 0 .. d /\ w[m].dists = k
  BY KeepsRest
<1>5. \A i \in 0 .. m : w[i].dists <= w[m].dists
  <2> SUFFICES ASSUME NEW i \in 0 .. m PROVE w[i].dists <= w[m].dists
    OBVIOUS
  <2>1. i \in 0 .. Len(is) /\ m \in i .. Len(is)
    BY <1>1
  <2> QED BY <2>1, WalkForward
<1> HIDE DEF w, k
<1>6. js \in Seq(Items) /\ Len(js) = m /\ \A i \in 1 .. m : js[i] = is[i]
  BY <1>1
<1>7. es \in Seq(Nat) /\ Len(es) = k /\ \A j \in 1 .. k : es[j] = ds[j]
  BY <1>1, <1>4
<1> HIDE DEF n, d, js, es
<1>8. ASSUME NEW i \in 1 .. m, IsMatch(is[i])
      PROVE  es[w[i - 1].dists + 1] = ds[w[i - 1].dists + 1]
  <2> DEFINE e == w[i - 1].dists
  <2>1. i \in 1 .. n /\ i - 1 \in 0 .. n /\ i \in 0 .. m
    BY <1>1
  <2>2. w[i] = Reads(w[i - 1], is[i], ds) /\ w[i - 1] \in States(ds) /\ is[i] \in Items
    BY <1>1, <1>3, <2>1
  <2>3. w[i].dists = e + 1 /\ e \in Nat
    BY <1>8, <2>2, ReadsMoves
  <2>4. w[i].dists <= k
    BY <1>4, <1>5, <2>1
  <2> HIDE DEF e
  <2>5. e + 1 \in 1 .. k
    BY <1>4, <2>3, <2>4
  <2> QED BY <1>7, <2>5 DEF e
<1>9. \A i \in 1 .. m : w[i] = Reads(w[i - 1], js[i], es)
  <2> SUFFICES ASSUME NEW i \in 1 .. m PROVE w[i] = Reads(w[i - 1], js[i], es)
    OBVIOUS
  <2>1. i \in 1 .. n /\ js[i] = is[i]
    BY <1>1, <1>6
  <2>2. w[i] = Reads(w[i - 1], is[i], ds)
    BY <1>3, <2>1
  <2>3. CASE IsMatch(is[i])
    BY <1>8, <2>1, <2>2, <2>3 DEF Reads
  <2>4. CASE ~IsMatch(is[i])
    BY <2>1, <2>2, <2>4 DEF Reads
  <2> QED BY <2>3, <2>4
<1>10. \A i \in 0 .. m : v[i] = w[i]
  <2>1. Steps(w, p, offs, js, es)
    BY <1>3, <1>6, <1>9 DEF Steps
  <2> QED BY <1>6, <2>1, WalkUnique
<1> HIDE DEF v
<1>11. v[m] = [pos |-> w[m].pos, offs |-> w[m].offs, dists |-> k]
  <2>1. m \in 0 .. m /\ m \in 0 .. n
    BY <1>1
  <2>2. w[m] \in States(ds)
    BY <1>3, <2>1
  <2>3. w[m] = [pos |-> w[m].pos, offs |-> w[m].offs, dists |-> w[m].dists]
    BY <2>2 DEF States
  <2> QED BY <1>4, <1>10, <2>1, <2>3
<1>12. ASSUME NEW i \in 1 .. m PROVE SpellsIn(t, js[i], v[i - 1], es)
  <2>1. i \in 1 .. n /\ i - 1 \in 0 .. m /\ js[i] = is[i]
    BY <1>1, <1>6
  <2>2. SpellsIn(t, is[i], w[i - 1], ds) /\ v[i - 1] = w[i - 1]
    BY <1>2, <1>10, <2>1
  <2>3. CASE IsMatch(is[i])
    BY <1>8, <2>1, <2>2, <2>3, SMTT(30) DEF SpellsIn
  <2>4. CASE ~IsMatch(is[i])
    BY <2>1, <2>2, <2>4 DEF SpellsIn
  <2> QED BY <2>3, <2>4
<1>13. Keeps(t, p, offs, js, es, w[m].pos, w[m].offs)
  BY <1>6, <1>7, <1>11, <1>12 DEF Keeps, v
<1> QED BY <1>13 DEF js, es, w, k

\* The walk, as one fact.
LEMMA WalkIs ==
  ASSUME NEW p \in Int, NEW offs \in Triples, NEW is \in Seq(Items), NEW ds
  PROVE  /\ Walk(p, offs, is, ds) \in [0 .. Len(is) -> States(ds)]
         /\ Steps(Walk(p, offs, is, ds), p, offs, is, ds)
BY WalkSteps, ZenonT(30) DEF Steps

\* The token of an item gives what the item stands for.
LEMMA ItemGives ==
  ASSUME NEW t \in Seq(0 .. 255), NEW ds \in Seq(Nat), NEW s \in States(ds), NEW i \in Items,
         SpellsIn(t, i, s, ds), s.offs \in Near, First <= s.pos, s.pos + i.n <= First + Len(t),
         IsMatch(i) => s.dists + 1 \in 1 .. Len(ds), NEW l \in Nat, i.n <= l
  PROVE  LET k == Token(i, ds[s.dists + 1])
             r == [pos |-> s.pos + i.n, offs |-> Reads(s, i, ds).offs, left |-> l - i.n] IN
         /\ k \in Tokens /\ r \in Places
         /\ <<[pos |-> s.pos, offs |-> s.offs, left |-> l], k, r>> \in Gives(t)
<1> DEFINE c == ds[s.dists + 1]
           k == Token(i, c)
           u == [pos |-> s.pos, offs |-> s.offs, left |-> l]
           r == [pos |-> s.pos + i.n, offs |-> Reads(s, i, ds).offs, left |-> l - i.n]
<1>1. s.pos \in Int /\ i.n \in Nat \ {0} /\ First \in Nat /\ Len(t) \in Nat
      /\ LZX_MIN_MATCH \in Nat /\ Reach \in Nat
  BY Sizes, EncoderSizes DEF States, Items
<1>2. Reads(s, i, ds).offs = IF IsMatch(i) THEN OffsetsAfter(s.offs, c) ELSE s.offs
  BY ReadsMoves
<1>3. IsMatch(i) => c \in Nat
  OBVIOUS
<1> HIDE DEF c
<1>4. u \in Places
  BY <1>1 DEF Places
<1>5. l - i.n \in Nat /\ s.pos + i.n \in Int
  BY <1>1
<1>6. CASE IsMatch(i)
  <2> DEFINE o == s.offs
             d == Distance(c, o)
             oo == OffsetsAfter(o, c)
  <2>1. /\ i.n \in LZX_MIN_MATCH .. LZX_MAX_MATCH
        /\ d <= Reach /\ CopiesIn(t, s.pos, d, i.n)
    BY <1>6 DEF SpellsIn, c
  <2>2. d \in 1 .. W /\ oo \in Near
    BY <1>3, <1>6, <2>1, NearOffsets
  <2> HIDE DEF oo
  <2>3. r \in Places /\ r = [pos |-> s.pos + i.n, offs |-> oo, left |-> l - i.n]
    BY <1>2, <1>5, <1>6, <2>2 DEF Places, oo
  <2>4. k = [kind |-> "match", n |-> i.n, m |-> IF c <= 2 THEN c ELSE 3,
             off |-> IF c <= 2 THEN 0 ELSE c - 2]
    BY <1>6 DEF Token
  <2>5. (IF c <= 2 THEN c ELSE 3) \in 0 .. 3 /\ (IF c <= 2 THEN 0 ELSE c - 2) \in 0 .. Reach
    <3>1. c > 2 => d = c - 2
      BY <1>3, <1>6 DEF Distance
    <3>2. c \in Nat /\ d <= Reach /\ Reach \in Nat
      BY <1>1, <1>3, <1>6, <2>1
    <3> HIDE DEF d
    <3>3. CASE c <= 2
      <4>1. c \in 0 .. 3 /\ 0 \in 0 .. Reach
        BY <3>2, <3>3
      <4> QED BY <3>3, <4>1
    <3>4. CASE ~(c <= 2)
      <4>1. c - 2 \in 0 .. Reach /\ 3 \in 0 .. 3
        BY <3>1, <3>2, <3>4
      <4> QED BY <3>4, <4>1
    <3> QED BY <3>3, <3>4
  <2>10. k.m = 3 => k.off > 0
    <3>1. c \in Nat
      BY <1>3, <1>6
    <3>2. (IF c <= 2 THEN c ELSE 3) = 3 => (IF c <= 2 THEN 0 ELSE c - 2) > 0
      BY <3>1
    <3> QED BY <2>4, <3>2
  <2> HIDE DEF k, r
  <2>6. k \in Tokens /\ k.kind = "match" /\ k.n = i.n
    BY <2>1, <2>4, <2>5 DEF Tokens
  <2>7. Code(k) = c
    BY <1>3, <1>6, <2>4 DEF Code
  <2>8. u.pos = s.pos /\ u.offs = o /\ u.left = l
    OBVIOUS
  <2> HIDE DEF u
  <2>9. GivesMatch(t, u, k, r)
    BY <2>1, <2>3, <2>6, <2>7, <2>8, <2>10 DEF GivesMatch, oo
  <2> QED BY <1>4, <2>3, <2>6, <2>9 DEF Gives, k, u, r, c
<1>7. CASE ~IsMatch(i)
  <2>1. i.n = 1 /\ i.byte = ByteOf(t, s.pos)
    <3>1. i.n = 1
      BY <1>1, <1>7, SMTT(30) DEF IsMatch
    <3>2. i.byte = ByteOf(t, s.pos)
      BY <1>7 DEF SpellsIn
    <3> QED BY <3>1, <3>2
  <2>2. k = [kind |-> "literal", byte |-> i.byte]
    BY <1>7 DEF Token
  <2>3. i.byte \in 0 .. 255
    <3> DEFINE x == s.pos - First + 1
    <3>1. x \in 1 .. Len(t)
      BY <1>1, <2>1
    <3>2. i.byte = t[x]
      BY <2>1 DEF ByteOf
    <3> HIDE DEF x
    <3>3. t[x] \in 0 .. 255
      BY <3>1, ElementOfSeq
    <3> QED BY <3>2, <3>3
  <2>4. r \in Places /\ r = [pos |-> s.pos + 1, offs |-> s.offs, left |-> l - 1]
    BY <1>2, <1>5, <1>7, <2>1 DEF Places
  <2> HIDE DEF k, r
  <2>5. k \in Tokens /\ k.kind = "literal" /\ k.byte = i.byte
    BY <2>2, <2>3 DEF Tokens
  <2>6. u.pos = s.pos /\ u.offs = s.offs /\ u.left = l /\ s.pos < First + Len(t) /\ 1 <= l
    BY <1>1, <2>1
  <2> HIDE DEF u
  <2>7. GivesByte(t, u, k, r)
    BY <2>1, <2>4, <2>5, <2>6 DEF GivesByte
  <2> QED BY <1>4, <2>4, <2>5, <2>7 DEF Gives, k, u, r, c
<1> QED BY <1>6, <1>7

\* A block of items gives what they stand for.
LEMMA ItemsWrite ==
  ASSUME NEW S, 0 \in S, NEW t \in Seq(0 .. 255), NEW a, NEW p \in Int, First <= p,
         NEW offs \in Near, NEW is \in Seq(Items), NEW ds \in Seq(Nat), NEW q \in Int, NEW o2,
         Keeps(t, p, offs, is, ds, q, o2), q <= First + Len(t), NEW o \in Outs(S),
         Writes(t, a, o, [pos |-> p, offs |-> offs, left |-> BytesOf(is)])
  PROVE  /\ EncodeItems(o, is, ds) \in Outs(S)
         /\ Writes(t, a, EncodeItems(o, is, ds), [pos |-> q, offs |-> o2, left |-> 0])
<1> DEFINE n == Len(is)
           w == Walk(p, offs, is, ds)
           k(i) == ItemToken(is, ds, i)
           P(i) == [pos |-> w[i].pos, offs |-> w[i].offs, left |-> q - w[i].pos]
<1>1. /\ n \in Nat /\ offs \in Triples /\ First \in Int /\ Len(t) \in Nat
      /\ \A i \in 1 .. n : is[i] \in Items
  BY NearIsTriple, Sizes
<1>2. /\ w[n] = [pos |-> q, offs |-> o2, dists |-> Len(ds)]
      /\ \A i \in 1 .. n : SpellsIn(t, is[i], w[i - 1], ds)
  BY DEF Keeps
<1>3. /\ w \in [0 .. n -> States(ds)] /\ w[0] = [pos |-> p, offs |-> offs, dists |-> 0]
      /\ \A i \in 1 .. n : w[i] = Reads(w[i - 1], is[i], ds)
  <2>1. w \in [0 .. Len(is) -> States(ds)] /\ Steps(w, p, offs, is, ds)
    BY <1>1, WalkIs
  <2> QED BY <2>1 DEF Steps
<1>4. \A i \in 0 .. n : w[i].dists = Matches(SubSeq(is, 1, i))
  BY <1>1, WalkCounts
<1>5. \A i \in 0 .. n : w[i].dists \in 0 .. Len(ds)
  <2>1. w[n].dists <= Len(ds)
    BY <1>2
  <2> QED BY <1>1, <2>1, WalkOffsets
<1>6. \A i \in 0 .. n : w[i].pos <= w[n].pos /\ w[0].pos <= w[i].pos
  <2> SUFFICES ASSUME NEW i \in 0 .. n PROVE w[i].pos <= w[n].pos /\ w[0].pos <= w[i].pos
    OBVIOUS
  <2>1. i \in 0 .. Len(is) /\ n \in i .. Len(is) /\ 0 \in 0 .. Len(is) /\ i \in 0 .. Len(is)
    BY <1>1
  <2> QED BY <1>1, <2>1, WalkForward
<1>7. \A i \in 0 .. n : w[i].offs \in Near
  BY KeepsNear
<1>8. BytesOf(is) = q - p
  <2>3. n \in 0 .. n
    BY <1>1
  <2>4. BytesUpTo(is)[n] \in Nat
    BY <2>3, BytesSteps
  <2>1. n \in 0 .. n /\ BytesUpTo(is)[n] \in Nat /\ BytesOf(is) = BytesUpTo(is)[n]
    BY <2>3, <2>4 DEF BytesOf
  <2>2. w[n].pos = p + BytesUpTo(is)[n]
    BY <1>1, <2>1, WalkCounts
  <2>5. w[n].pos = q
    BY <1>2
  <2> DEFINE x == BytesUpTo(is)[n]
             y == w[n].pos
  <2>6. y = p + x /\ y = q /\ x \in Nat /\ BytesOf(is) = x
    BY <2>1, <2>2, <2>5
  <2> HIDE DEF n, w, x, y
  <2> QED BY <2>6
<1> HIDE DEF n, w
<1>9. \A i \in 0 .. n : /\ w[i].pos \in Int /\ p <= w[i].pos /\ w[i].pos <= q
                        /\ w[i] \in States(ds) /\ w[i].dists \in Nat
  <2> SUFFICES ASSUME NEW i \in 0 .. n
               PROVE  /\ w[i].pos \in Int /\ p <= w[i].pos /\ w[i].pos <= q
                      /\ w[i] \in States(ds) /\ w[i].dists \in Nat
    OBVIOUS
  <2>1. w[i] \in States(ds)
    BY <1>3
  <2>2. w[i].pos \in Int /\ w[i].dists \in Nat
    BY <2>1 DEF States
  <2>3. w[n].pos = q /\ w[0].pos = p
    BY <1>2, <1>3
  <2> QED BY <1>6, <2>1, <2>2, <2>3
\* One item.
<1>10. ASSUME NEW i \in 1 .. n
       PROVE  /\ k(i) \in Tokens /\ P(i) \in Places /\ P(i - 1) \in Places
              /\ <<P(i - 1), k(i), P(i)>> \in Gives(t)
              /\ is[i].n \in Nat \ {0} /\ w[i].pos = w[i - 1].pos + is[i].n
              /\ InChunk(w[i - 1].pos, is[i].n)
  <2> DEFINE s == w[i - 1]
             x == is[i]
             l == q - s.pos
             y == ds[s.dists + 1]
  <2>1. i - 1 \in 0 .. n /\ i \in 0 .. n
    BY <1>1
  <2>2. /\ s \in States(ds) /\ x \in Items /\ w[i] = Reads(s, x, ds) /\ SpellsIn(t, x, s, ds)
        /\ s.offs \in Near /\ s.pos \in Int /\ p <= s.pos /\ s.pos <= q
    BY <1>1, <1>2, <1>3, <1>7, <1>9, <2>1
  <2>3. x.n \in Nat \ {0} /\ InChunk(s.pos, x.n)
    BY <2>2 DEF Items, SpellsIn
  <2>4. /\ w[i].pos = s.pos + x.n /\ w[i].dists = s.dists + (IF IsMatch(x) THEN 1 ELSE 0)
    BY <2>2, ReadsMoves
  <2>5. w[i].pos \in Int /\ w[i].pos <= q /\ s.dists \in Nat /\ w[i].dists \in 0 .. Len(ds)
    BY <1>5, <1>9, <2>1
  <2>6. k(i) = Token(x, y)
    <3>1. CASE IsMatch(x)
      <4>1. Matches(SubSeq(is, 1, i)) = s.dists + 1
        BY <1>4, <2>1, <2>4, <2>5, <3>1
      <4> QED BY <4>1 DEF ItemToken
    <3>2. CASE ~IsMatch(x)
      BY <3>2 DEF Token, ItemToken
    <3> QED BY <3>1, <3>2
  <2>7. IsMatch(x) => s.dists + 1 \in 1 .. Len(ds)
    <3> DEFINE e == s.dists
    <3>1. IsMatch(x) => e + 1 \in 0 .. Len(ds)
      BY <2>4, <2>5
    <3>2. e \in Nat
      BY <2>5
    <3> HIDE DEF e
    <3>3. IsMatch(x) => e + 1 \in 1 .. Len(ds)
      BY <3>1, <3>2
    <3> QED BY <3>3 DEF e
  <2>8. First <= s.pos /\ s.pos + x.n <= First + Len(t) /\ l \in Nat /\ x.n <= l
        /\ q - w[i].pos = l - x.n
    <3> DEFINE u == s.pos
               v == w[i].pos
    <3>1. u \in Int /\ p <= u /\ u <= q /\ v = u + x.n /\ v <= q /\ x.n \in Nat
      BY <2>2, <2>3, <2>4, <2>5
    <3> HIDE DEF u, v, x
    <3>2. First <= u /\ u + x.n <= First + Len(t) /\ q - u \in Nat /\ x.n <= q - u
          /\ q - v = q - u - x.n
      BY <1>1, <3>1
    <3> QED BY <3>2 DEF u, v
  <2>9. P(i) = [pos |-> s.pos + x.n, offs |-> Reads(s, x, ds).offs, left |-> l - x.n]
    BY <2>2, <2>4, <2>8
  <2>10. P(i - 1) = [pos |-> s.pos, offs |-> s.offs, left |-> l]
    OBVIOUS
  <2>11. P(i - 1) \in Places
    BY <2>2, <2>8, <2>10 DEF Places
  <2> HIDE DEF P, s, x, k
  <2> DEFINE r == [pos |-> s.pos + x.n, offs |-> Reads(s, x, ds).offs, left |-> l - x.n]
  <2>12. /\ Token(x, y) \in Tokens /\ r \in Places
         /\ <<[pos |-> s.pos, offs |-> s.offs, left |-> l], Token(x, y), r>> \in Gives(t)
    BY <2>2, <2>3, <2>7, <2>8, ItemGives
  <2> HIDE DEF y, r
  <2>13. /\ k(i) \in Tokens /\ P(i) \in Places /\ <<P(i - 1), k(i), P(i)>> \in Gives(t)
    BY <2>6, <2>9, <2>10, <2>12 DEF r
  <2> QED BY <2>3, <2>4, <2>11, <2>13 DEF s, x
<1> HIDE DEF P
<1>11. PICK f : Encodes(f, S, o, is, ds)
  <2>1. ToTokens(is, ds)
    BY <1>10 DEF n, ToTokens
  <2> QED BY <2>1, EncodeSteps
<1>17. /\ f \in [0 .. n -> Outs(S)] /\ f[0] = o /\ f[n] = EncodeItems(o, is, ds)
       /\ \A i \in 1 .. n : f[i] = Out(f[i - 1], k(i), is[i].n)
  BY <1>11 DEF Encodes, n
<1> HIDE DEF k
<1> DEFINE X == {i \in Nat : i <= n => Writes(t, a, f[i], P(i))}
<1>12. 0 \in X
  <2>1. w[0].pos = p /\ w[0].offs = offs
    BY <1>3
  <2>2. P(0) = [pos |-> p, offs |-> offs, left |-> BytesOf(is)]
    BY <1>8, <2>1 DEF P
  <2> QED BY <1>17, <2>2
<1>13. ASSUME NEW i \in Nat, i \in X PROVE i + 1 \in X
  <2> SUFFICES ASSUME i + 1 <= n PROVE Writes(t, a, f[i + 1], P(i + 1))
    OBVIOUS
  <2> DEFINE j == i + 1
  <2>1. j \in 1 .. n /\ j - 1 = i /\ i <= n /\ i \in 0 .. n
    BY <1>1
  <2> HIDE DEF j
  <2>2. Writes(t, a, f[i], P(i)) /\ f[i] \in Outs(S)
    BY <1>17, <1>13, <2>1
  <2>3. /\ k(j) \in Tokens /\ P(j) \in Places /\ P(i) \in Places
        /\ <<P(i), k(j), P(j)>> \in Gives(t)
        /\ is[j].n \in Nat \ {0} /\ w[j].pos = w[i].pos + is[j].n
        /\ InChunk(w[i].pos, is[j].n)
    BY <1>10, <2>1
  <2>4. P(j).pos = w[j].pos /\ P(i).pos = w[i].pos
    BY DEF P
  <2>5. f[j] = Out(f[i], k(j), is[j].n)
    BY <1>17, <2>1
  <2>6. Writes(t, a, f[j], P(j))
    BY <2>2, <2>3, <2>4, <2>5, OutWrites, SMTT(30)
  <2> QED BY <2>6 DEF j
<1> HIDE DEF X
<1>14. n \in X
  BY <1>1, <1>12, <1>13, Induct
<1>15. Writes(t, a, f[n], P(n)) /\ f[n] \in Outs(S)
  BY <1>1, <1>17, <1>14 DEF X
<1>16. P(n) = [pos |-> q, offs |-> o2, left |-> 0]
  BY <1>2 DEF P
<1> QED BY <1>17, <1>15, <1>16

\* A block of bytes gives them.
LEMMA RawWrites ==
  ASSUME NEW S, 0 \in S, NEW t \in Seq(0 .. 255), NEW a, NEW p \in Int, First <= p,
         NEW offs \in Near, NEW n \in Nat, p + n <= First + Len(t),
         \A j \in p .. p + n - 1 : At(j) = ByteOf(t, j), NEW o \in Outs(S),
         Writes(t, a, o, [pos |-> p, offs |-> offs, left |-> n])
  PROVE  /\ CopyRaw(o, p, n) \in Outs(S)
         /\ Writes(t, a, CopyRaw(o, p, n), [pos |-> p + n, offs |-> offs, left |-> 0])
<1> DEFINE k(i) == RawToken(p, i)
           P(i) == [pos |-> p + i, offs |-> offs, left |-> n - i]
<1>1. First \in Int /\ Len(t) \in Nat /\ LZX_CHUNK_SIZE \in Nat \ {0}
  BY Sizes
<1>2. \A i \in 1 .. n : At(p + i - 1) = ByteOf(t, p + i - 1) /\ At(p + i - 1) \in 0 .. 255
  <2> SUFFICES ASSUME NEW i \in 1 .. n
               PROVE  At(p + i - 1) = ByteOf(t, p + i - 1) /\ At(p + i - 1) \in 0 .. 255
    OBVIOUS
  <2> DEFINE j == p + i - 1
             x == j - First + 1
  <2>1. j \in p .. p + n - 1 /\ x \in 1 .. Len(t)
    BY <1>1
  <2>2. At(j) = ByteOf(t, j) /\ ByteOf(t, j) = t[x]
    BY <2>1 DEF ByteOf
  <2> HIDE DEF x
  <2>3. t[x] \in 0 .. 255
    BY <2>1, ElementOfSeq
  <2> QED BY <2>2, <2>3
<1>3. \A i \in 0 .. n : P(i) \in Places
  BY DEF Places
<1>4. ASSUME NEW i \in 1 .. n
      PROVE  k(i) \in Tokens /\ <<P(i - 1), k(i), P(i)>> \in Gives(t) /\ InChunk(P(i - 1).pos, 1)
  <2>1. k(i) \in Tokens
    BY <1>2 DEF Tokens, RawToken
  <2>2. i - 1 \in 0 .. n /\ i \in 0 .. n
    OBVIOUS
  <2>3. P(i) = [pos |-> (p + i - 1) + 1, offs |-> offs, left |-> (n - (i - 1)) - 1]
        /\ P(i - 1) = [pos |-> p + i - 1, offs |-> offs, left |-> n - (i - 1)]
    OBVIOUS
  <2>4. p + i - 1 < First + Len(t) /\ 1 <= n - (i - 1)
    BY <1>1
  <2>5. k(i).kind = "raw" /\ k(i).byte = ByteOf(t, p + i - 1)
    BY <1>2 DEF RawToken
  <2>6. P(i - 1) \in Places /\ P(i) \in Places
    BY <1>3, <2>2
  <2> HIDE DEF P, k
  <2>7. P(i - 1).pos = p + i - 1 /\ P(i - 1).offs = offs /\ P(i - 1).left = n - (i - 1)
    BY <2>3
  <2>8. GivesByte(t, P(i - 1), k(i), P(i))
    BY <2>3, <2>4, <2>5, <2>7 DEF GivesByte
  <2>9. <<P(i - 1), k(i), P(i)>> \in Gives(t)
    BY <2>1, <2>6, <2>8 DEF Gives
  <2>10. InChunk(p + i - 1, 1)
    <3>1. (p + i - 1) % LZX_CHUNK_SIZE \in 0 .. LZX_CHUNK_SIZE - 1
      BY <1>1
    <3> QED BY <1>1, <3>1 DEF InChunk
  <2> QED BY <2>1, <2>7, <2>9, <2>10
<1>5. \A i \in 0 .. n : P(i).pos = p + i
  OBVIOUS
<1>6. P(0) = [pos |-> p, offs |-> offs, left |-> n]
      /\ P(n) = [pos |-> p + n, offs |-> offs, left |-> 0]
  OBVIOUS
<1> HIDE DEF P
<1>12. PICK f : CopiesRaw(f, S, o, p, n)
  <2>1. BytesAt(p, n)
    BY <1>2 DEF BytesAt
  <2> QED BY <2>1, CopySteps
<1>7. /\ f \in [0 .. n -> Outs(S)] /\ f[0] = o /\ f[n] = CopyRaw(o, p, n)
      /\ \A i \in 1 .. n : f[i] = Out(f[i - 1], k(i), 1)
  BY <1>12 DEF CopiesRaw
<1> HIDE DEF k
<1> DEFINE X == {i \in Nat : i <= n => Writes(t, a, f[i], P(i))}
<1>8. 0 \in X
  BY <1>6, <1>7
<1>9. ASSUME NEW i \in Nat, i \in X PROVE i + 1 \in X
  <2> SUFFICES ASSUME i + 1 <= n PROVE Writes(t, a, f[i + 1], P(i + 1))
    OBVIOUS
  <2> DEFINE j == i + 1
  <2>1. j \in 1 .. n /\ j - 1 = i /\ i <= n /\ i \in 0 .. n /\ j \in 0 .. n
    OBVIOUS
  <2>2. P(j).pos = P(i).pos + 1
    BY <1>5, <2>1
  <2> HIDE DEF j
  <2>3. Writes(t, a, f[i], P(i)) /\ f[i] \in Outs(S) /\ P(i) \in Places /\ P(j) \in Places
    BY <1>3, <1>7, <1>9, <2>1
  <2>4. k(j) \in Tokens /\ <<P(i), k(j), P(j)>> \in Gives(t) /\ InChunk(P(i).pos, 1)
    BY <1>4, <2>1
  <2>5. f[j] = Out(f[i], k(j), 1)
    BY <1>7, <2>1
  <2>6. Writes(t, a, f[j], P(j))
    BY <2>2, <2>3, <2>4, <2>5, OutWrites
  <2> QED BY <2>6 DEF j
<1> HIDE DEF X
<1>10. n \in X
  BY <1>8, <1>9, Induct
<1>11. Writes(t, a, f[n], P(n)) /\ f[n] \in Outs(S)
  BY <1>7, <1>10 DEF X
<1> QED BY <1>6, <1>7, <1>11


-----------------------------------------------------------------------------
\* What was written leads to the items that are kept back.
Kept == [pos |-> bufpos_at_last_block, offs |-> repeated_offset_at_literal_zero, left |-> 0]
OutNow(fs) == [frame |-> frame, total |-> input_running_total, frames |-> fs, splits |-> 0]

LEMMA WritesSame ==
  ASSUME NEW t, NEW a, NEW o, NEW s, Writes(t, a, o, s), NEW u,
         u.frame = o.frame, u.total = o.total, u.frames = o.frames
  PROVE  Writes(t, a, u, s)
BY DEF Writes

\* A token that stands for no byte.
LEMMA HeaderWrites ==
  ASSUME NEW S, NEW o \in Outs(S), NEW t, NEW a, NEW s \in Places, NEW r \in Places,
         Writes(t, a, o, s), NEW k \in Tokens, <<s, k, r>> \in Gives(t), r.pos = s.pos,
         NEW u, u.frame = Append(o.frame, k), u.total = o.total, u.frames = o.frames
  PROVE  Writes(t, a, u, r)
<1>1. o.frame \in Seq(Tokens)
  BY DEF Outs
<1>2. PICK c \in Places : /\ Linked(GivesFrame(t), a, o.frames, c)
                          /\ Linked(Gives(t), c, o.frame, s) /\ o.total = s.pos - c.pos
  BY DEF Writes
<1>3. Linked(Gives(t), c, Append(o.frame, k), r)
  BY <1>1, <1>2, LinkedLonger
<1> QED BY <1>2, <1>3 DEF Writes

\* A block: the header, and the items as tokens or the bytes they stand for.
LEMMA BlockWrites ==
  ASSUME EncInv, NEW where, NEW type \in BlockTypes, output_block(where, type),
         repeated_offset_at_literal_zero \in Near, frame \in Seq(Tokens),
         input_running_total \in Nat, frames \in Seq(Frames),
         NEW a, Writes(src, a, OutNow(frames), Kept)
  PROVE  /\ frame' \in Seq(Tokens) /\ input_running_total' \in Nat /\ frames' \in Seq(Frames)
         /\ repeated_offset_at_literal_zero' \in Near
         /\ Writes(src, a, OutNow(frames)', Kept')
<1> DEFINE p == bufpos_at_last_block
           r == repeated_offset_at_literal_zero
           is == SubSeq(items, 1, where)
           ds == SubSeq(dist_data, 1, Matches(is))
           size == BytesOf(is)
           offs == FinalOffsets(r, ds)
           q == BlockEnd(where).pos
           split == num_block_splits + IF where < Len(items) THEN 1 ELSE 0
           header == [kind |-> "block", type |-> type, size |-> size, offs |-> offs]
           start == [frame |-> Append(frame, header), total |-> input_running_total,
                     frames |-> frames, splits |-> split]
           S == {split, 0}
           s1 == [pos |-> p, offs |-> IF type = "uncompressed" THEN offs ELSE r, left |-> size]
           s2 == [pos |-> q, offs |-> offs, left |-> 0]
           out == IF type = "uncompressed" THEN CopyRaw(start, p, size)
                  ELSE EncodeItems(start, is, ds)
<1>1. /\ where \in Splits
      /\ type = "uncompressed" => p >= earliest_window_data_remaining
      /\ frame' = out.frame /\ input_running_total' = out.total /\ frames' = out.frames
      /\ repeated_offset_at_literal_zero' = offs
      /\ bufpos_at_last_block' = p + size
  BY DEF output_block, do_block_output
<1>2. /\ where \in 0 .. Len(items) /\ Matches(is) \in 0 .. Len(dist_data)
      /\ q \in Int /\ size \in Nat /\ q = p + size /\ BlockEnd(where).offs = offs
  BY <1>1, BlockEnds
<1>3. /\ p \in Int /\ items \in Seq(Items) /\ dist_data \in Seq(Nat) /\ r \in Triples
      /\ src \in Seq(0 .. 255) /\ buf_pos \in Int /\ First <= p
      /\ Keeps(src, p, r, items, dist_data, buf_pos, last_matchpos_offset)
  BY InputsAssumption DEF EncInv, EncTyped, FirstBlock, Spelled
<1>4. r \in Near
  OBVIOUS
<1>5. offs \in Near
  <2>1. Walk(p, r, items, dist_data)[where].offs \in Near
    BY <1>2, <1>3, <1>4, KeepsNear
  <2> QED BY <1>2, <2>1 DEF BlockEnd
<1>6. Keeps(src, p, r, is, ds, q, offs)
  <2>1. Keeps(src, p, r, is, ds, Walk(p, r, items, dist_data)[where].pos,
              Walk(p, r, items, dist_data)[where].offs)
    BY <1>2, <1>3, KeepsFirst
  <2> QED BY <1>2, <2>1 DEF BlockEnd
<1>7. q <= buf_pos /\ buf_pos <= First + Len(src)
  <2>1. q <= Walk(p, r, items, dist_data)[Len(items)].pos
    <3>1. Len(items) \in where .. Len(items)
      BY <1>2, <1>3
    <3> QED BY <1>2, <1>3, <3>1, WalkForward DEF BlockEnd
  <2>2. Walk(p, r, items, dist_data)[Len(items)].pos = buf_pos
    BY <1>3 DEF Keeps
  <2>3. buf_pos <= buf_pos_end /\ buf_pos_end = First + src_at /\ src_at \in 0 .. Len(src)
    BY DEF EncInv, EncTyped, MemoryHolds, InChunks, SrcSize
  <2> QED BY <1>3, <2>1, <2>2, <2>3, Sizes
<1>8. is \in Seq(Items) /\ ds \in Seq(Nat)
  <2>1. is \in Seq(Items)
    BY <1>2, <1>3
  <2> HIDE DEF is
  <2>2. ds \in Seq(Nat)
    BY <1>2, <1>3, SMTT(30)
  <2> QED BY <2>1, <2>2
<1> HIDE DEF is, ds, size, offs, q, split
<1>9. header \in Tokens
  BY <1>2, <1>5 DEF Tokens
<1>10. Kept \in Places /\ s1 \in Places /\ s2 \in Places
  BY <1>2, <1>3, <1>4, <1>5 DEF Places, Kept
<1>11. <<Kept, header, s1>> \in Gives(src)
  <2>1. header.kind = "block" /\ header.type = type /\ header.size = size /\ header.offs = offs
    OBVIOUS
  <2>2. Kept.left = 0 /\ Kept.pos = p /\ Kept.offs = r
    BY DEF Kept
  <2>3. s1 = [pos |-> Kept.pos, offs |-> IF header.type = "uncompressed" THEN header.offs
                                         ELSE Kept.offs, left |-> header.size]
    BY <2>1, <2>2
  <2> HIDE DEF header, s1
  <2>4. Heads(Kept, header, s1)
    BY <2>1, <2>2, <2>3 DEF Heads
  <2> QED BY <1>9, <1>10, <2>4 DEF Gives
<1>12. start \in Outs(S) /\ 0 \in S
  BY <1>9 DEF Outs
<1>13. Writes(src, a, start, s1)
  <2> DEFINE T == {0}
             o == OutNow(frames)
  <2>1. o \in Outs(T) /\ o.frame = frame /\ o.total = input_running_total /\ o.frames = frames
    BY DEF OutNow, Outs
  <2>2. s1.pos = Kept.pos
    BY DEF Kept
  <2>3. start.frame = Append(o.frame, header) /\ start.total = o.total /\ start.frames = o.frames
    BY <2>1
  <2>4. Writes(src, a, o, Kept)
    OBVIOUS
  <2> HIDE DEF o, T, start, header, s1
  <2> QED BY <1>9, <1>10, <1>11, <2>1, <2>2, <2>3, <2>4, HeaderWrites
<1>14. out \in Outs(S) /\ Writes(src, a, out, s2)
  <2> HIDE DEF start, S
  <2>1. CASE type = "uncompressed"
    <3>1. \A j \in p .. p + size - 1 : At(j) = ByteOf(src, j)
      <4>1. RawDataRemains
        BY RawRemains
      <4>2. \A j \in p .. buf_pos - 1 : At(j) = ByteOf(src, j)
        BY <1>1, <2>1, <4>1 DEF RawDataRemains, ByteOf
      <4>3. \A j \in p .. p + size - 1 : j \in p .. buf_pos - 1
        BY <1>2, <1>3, <1>7
      <4> QED BY <4>2, <4>3
    <3>2. s1 = [pos |-> p, offs |-> offs, left |-> size] /\ p + size <= First + Len(src)
      BY <1>2, <1>3, <1>7, <2>1, Sizes
    <3>3. out = CopyRaw(start, p, size)
      BY <2>1
    <3>4. Writes(src, a, start, [pos |-> p, offs |-> offs, left |-> size])
      BY <1>13, <3>2
    <3> HIDE DEF s1, out, p
    <3>5. /\ CopyRaw(start, p, size) \in Outs(S)
          /\ Writes(src, a, CopyRaw(start, p, size), [pos |-> p + size, offs |-> offs, left |-> 0])
      BY <1>2, <1>3, <1>5, <1>12, <3>1, <3>2, <3>4, RawWrites
    <3> QED BY <1>2, <3>3, <3>5
  <2>2. CASE type # "uncompressed"
    <3>2. s1 = [pos |-> p, offs |-> r, left |-> BytesOf(is)] /\ q <= First + Len(src)
      BY <1>2, <1>3, <1>7, <2>2, Sizes DEF size
    <3>3. out = EncodeItems(start, is, ds)
      BY <2>2
    <3>4. Writes(src, a, start, [pos |-> p, offs |-> r, left |-> BytesOf(is)])
      BY <1>13, <3>2
    <3> HIDE DEF s1, out, p, r
    <3>5. /\ EncodeItems(start, is, ds) \in Outs(S)
          /\ Writes(src, a, EncodeItems(start, is, ds), [pos |-> q, offs |-> offs, left |-> 0])
      BY <1>2, <1>3, <1>4, <1>6, <1>8, <1>12, <3>2, <3>4, ItemsWrite
    <3> QED BY <3>3, <3>5
  <2> QED BY <2>1, <2>2
<1> HIDE DEF out, S
<1>15. out.frame \in Seq(Tokens) /\ out.total \in Nat /\ out.frames \in Seq(Frames)
  BY <1>14 DEF Outs
<1>16. Kept' = s2
  BY <1>1, <1>2 DEF Kept
<1>17. /\ OutNow(frames)'.frame = out.frame /\ OutNow(frames)'.total = out.total
       /\ OutNow(frames)'.frames = out.frames
  BY <1>1 DEF OutNow
<1>18. Writes(src, a, OutNow(frames)', s2)
  <2> DEFINE u == OutNow(frames)'
  <2>1. u.frame = out.frame /\ u.total = out.total /\ u.frames = out.frames
    BY <1>17
  <2> HIDE DEF u
  <2>2. Writes(src, a, u, s2)
    BY <1>14, <2>1, WritesSame
  <2> QED BY <2>2 DEF u
<1> QED BY <1>1, <1>5, <1>15, <1>16, <1>18

-----------------------------------------------------------------------------
\* The decoder with its theorems, whatever sizes and distances the frames name.
DecP == INSTANCE LzxDecoderProofs WITH
          last_matchpos_offset <- dec_offsets,
          Bytes <- 0 .. 255, Truncated <- FALSE,
          BlockSizes <- Nat, Dists <- 1 .. LZX_WINDOW_SIZE, MaxFrames <- 0

LEMMA DecSizes == DecP!LzxSizes /\ DecP!LzxOthers
BY EncoderSizes, TripSizes DEF DecP!LzxSizes, DecP!LzxOthers

\* Where the decoder is, a match that it is copying counted as read, and the bytes that its
\* frame still has; DecP!Amount is what the run decodes.
Ahead == run.upto - run.at - match.left
DecPlace == [pos |-> First + Len(hist) + match.left,
             offs |-> <<dec_offsets[0], dec_offsets[1], dec_offsets[2]>>,
             left |-> IF pc \in DecP!Running THEN block.size - DecP!Amount + Ahead
                      ELSE block.size]
DecRest == IF pc \in DecP!Running THEN bytes_to_decode - DecP!Amount + Ahead
           ELSE IF pc = "data" THEN bytes_to_decode ELSE 0
Coming == IF pc \in {"frame", "done"} THEN frames ELSE Tail(frames)

\* The frames fs and the one that is being written lead from a to what is kept back; at the
\* end the offsets no longer matter.
Onward(a, fs) ==
  IF stage = "done"
  THEN \E r \in Places : Linked(GivesFrame(src), a, fs, r) /\ r.pos = bufpos_at_last_block
  ELSE Writes(src, a, OutNow(fs), Kept)

\* From the decoder through the rest of its frame, and onward.
Stream == \E a \in Places : /\ Linked(Gives(src), DecPlace, tokens, a)
                            /\ a.pos = DecPlace.pos + DecRest
                            /\ Onward(a, Coming)

TripTyped == /\ frame \in Seq(Tokens) /\ input_running_total \in Nat /\ frames \in Seq(Frames)
             /\ tokens \in Seq(Tokens) /\ repeated_offset_at_literal_zero \in Near
\* Nothing of the first block was written when it is parsed again.
Fresh == first_block => /\ frame = <<>> /\ input_running_total = 0
                        /\ repeated_offset_at_literal_zero = <<1, 1, 1>>
Reading == /\ pc \in {"frame", "done"} => tokens = <<>>
           /\ pc \notin {"frame", "done"} => frames # <<>>
           /\ pc # "undefined" /\ result = 0 /\ intact = TRUE
SoFar == /\ Len(hist) + match.left <= SrcSize
         /\ \A i \in 1 .. Len(hist) : hist[i] = src[i]
         /\ match.left > 0 => CopiesIn(src, First + Len(hist), match.dist, match.left)
AtEnd == /\ stage \in {"end", "done"} => src_at = SrcSize /\ buf_pos = buf_pos_end
         /\ stage = "done" => items = <<>>
         /\ pc = "done" => stage = "done" /\ frames = <<>>

TripInv == /\ EncInv /\ DecP!IInv /\ TripTyped /\ Fresh /\ Reading /\ SoFar /\ AtEnd /\ Stream

LEMMA FirstIsNear == <<1, 1, 1>> \in Near
<1>1. 1 \in 1 .. W
  BY EncoderSizes DEF W
<1> QED BY <1>1 DEF Near

LEMMA TripStarts == TripInit => TripInv
<1> SUFFICES ASSUME TripInit PROVE TripInv
  OBVIOUS
<1>1. EncInv
  BY EncoderStarts DEF TripInit
<1>2. DecP!LzxInit
  BY DEF TripInit, Dec!LzxInit, DecP!LzxInit, Dec!W, DecP!W, Dec!HEAD, DecP!HEAD, Dec!NoRun,
         DecP!NoRun, Dec!NoMatch, DecP!NoMatch
<1>3. DecP!IInv
  BY <1>2, DecSizes, DecP!InitInv
<1>4. /\ pc = "frame" /\ dec_offsets = [m \in 0 .. 2 |-> 1] /\ block.size = 0 /\ match.left = 0
      /\ bytes_to_decode = 0 /\ result = 0 /\ intact = TRUE /\ hist = <<>>
  BY <1>2 DEF DecP!LzxInit, DecP!NoMatch
<1>5. /\ tokens = <<>> /\ stage = "start" /\ first_block = TRUE /\ frame = <<>>
      /\ input_running_total = 0 /\ frames = <<>> /\ bufpos_at_last_block = First
      /\ repeated_offset_at_literal_zero = <<1, 1, 1>> /\ items = <<>> /\ src \in Inputs
  BY DEF TripInit, EncoderInit
<1>6. TripTyped /\ Fresh /\ Reading /\ AtEnd
  BY <1>4, <1>5, FirstIsNear DEF TripTyped, Fresh, Reading, AtEnd
<1>7. SoFar
  <2>1. SrcSize \in Nat
    BY <1>5, InputsAssumption DEF SrcSize
  <2> QED BY <1>4, <2>1 DEF SoFar
<1>8. Stream
  <2> DEFINE a == [pos |-> First, offs |-> <<1, 1, 1>>, left |-> 0]
  <2>1. First \in Int /\ Chunks(First)
    BY Sizes
  <2>2. a \in Places
    BY <2>1, FirstIsNear DEF Places
  <2>3. pc \notin DecP!Running
    BY <1>4 DEF DecP!Running, DecP!Loops
  <2>4. DecPlace = a
    BY <1>4, <2>1, <2>3 DEF DecPlace
  <2>5. DecRest = 0 /\ Coming = <<>>
    BY <1>4, <1>5, <2>3 DEF DecRest, Coming
  <2>6. Kept = a
    BY <1>5 DEF Kept
  <2>7. a.pos = First
    OBVIOUS
  <2> HIDE DEF a
  <2>8. Linked(Gives(src), a, <<>>, a) /\ Linked(GivesFrame(src), a, <<>>, a)
    BY <2>2, LinkedNone
  <2>9. Writes(src, a, OutNow(<<>>), a)
    <3> DEFINE o == OutNow(<<>>)
    <3>1. o.frame = <<>> /\ o.total = 0 /\ o.frames = <<>>
      BY <1>5 DEF OutNow
    <3> HIDE DEF o
    <3>2. 0 < LZX_CHUNK_SIZE /\ a.pos - 0 = First /\ a.pos - a.pos = 0
      BY <2>1, <2>7, EncoderSizes
    <3> QED BY <2>1, <2>2, <2>8, <3>1, <3>2 DEF Writes, o
  <2>10. a.pos = DecPlace.pos + DecRest
    BY <2>1, <2>4, <2>5, <2>7
  <2>11. Onward(a, Coming)
    BY <1>5, <2>5, <2>6, <2>9 DEF Onward
  <2> QED BY <1>5, <2>2, <2>4, <2>8, <2>10, <2>11 DEF Stream
<1> QED BY <1>1, <1>3, <1>6, <1>7, <1>8 DEF TripInv

-----------------------------------------------------------------------------
\* What the encoder's steps leave to the decoder.
LEMMA EncoderLeaves ==
  ASSUME EncoderNext
  PROVE  src' = src /\ stage # "done"
BY DEF EncoderNext, FirstFlush, ReadInput, InputOver, LastFrame, Literal, Commit, RedoEarly,
       ChunkEnd, LongMatch, Plan, FlushBlock, MakeRoom, WriteBlock, block_end, inputVars

\* It goes on between frames only: the decoder has read all there is.
LEMMA Between ==
  ASSUME TripInv, frames = <<>>, stage # "done"
  PROVE  /\ pc = "frame" /\ tokens = <<>> /\ Coming = frames
         /\ DecPlace \in Places /\ Writes(src, DecPlace, OutNow(frames), Kept)
<1>1. pc = "frame" /\ tokens = <<>>
  <2>1. Reading /\ AtEnd
    BY DEF TripInv
  <2> QED BY <2>1 DEF Reading, AtEnd
<1>2. Coming = frames
  BY <1>1 DEF Coming
<1>3. PICK a \in Places : Linked(Gives(src), DecPlace, tokens, a) /\ Onward(a, Coming)
  BY DEF TripInv, Stream
<1>4. a = DecPlace
  BY <1>1, <1>3, LinkedIs
<1>5. Writes(src, a, OutNow(frames), Kept)
  BY <1>2, <1>3 DEF Onward
<1> QED BY <1>1, <1>2, <1>4, <1>5

\* What is to be shown of a step of the encoder.
LEMMA EncoderGoesOn ==
  ASSUME TripInv, Encode, TripTyped', Fresh', AtEnd', Onward(DecPlace, frames)'
  PROVE  TripInv'
<1>1. /\ frames = <<>> /\ EncoderNext /\ UNCHANGED decoderVars /\ tokens' = tokens
  BY DEF Encode
<1>2. src' = src /\ stage # "done"
  BY <1>1, EncoderLeaves
<1>3. pc = "frame" /\ tokens = <<>> /\ DecPlace \in Places
  BY <1>1, <1>2, Between
<1>4. EncInv'
  BY <1>1, EncoderStep DEF TripInv
<1>5. DecP!IInv'
  <2>1. UNCHANGED DecP!lzxVars
    BY <1>1 DEF decoderVars, DecP!lzxVars
  <2> QED BY <2>1, DecSizes, DecP!StutterKeeps DEF TripInv
<1>6. Reading' /\ SoFar'
  BY <1>1, <1>2, <1>3 DEF TripInv, Reading, SoFar, SrcSize, CopiesIn, ByteOf, decoderVars
<1>7. Stream'
  <2>1. PICK a \in Places : a = DecPlace
    BY <1>3
  <2>2. DecPlace' = a /\ tokens' = <<>> /\ pc' = "frame"
    BY <1>1, <1>3, <2>1 DEF DecPlace, Ahead, DecP!Amount, DecP!Running, decoderVars
  <2>3. DecRest' = 0 /\ Coming' = frames'
    <3>1. pc' \notin DecP!Running
      BY <2>2 DEF DecP!Running, DecP!Loops
    <3> QED BY <2>2, <3>1 DEF DecRest, Coming
  <2>4. Onward(a, Coming)'
    BY <2>2, <2>3 DEF Onward, OutNow
  <2>5. Linked(Gives(src'), a, <<>>, a)
    BY LinkedNone
  <2>6. a.pos = DecPlace'.pos + DecRest'
    BY <2>2, <2>3 DEF Places
  <2> QED BY <2>2, <2>4, <2>5, <2>6 DEF Stream
<1> QED BY <1>4, <1>5, <1>6, <1>7 DEF TripInv

\* A step that writes nothing.
LEMMA QuietStep ==
  ASSUME TripInv, Encode,
         UNCHANGED <<bufpos_at_last_block, frame, frames, input_running_total,
                     repeated_offset_at_literal_zero>>,
         first_block' => first_block, stage' # "done",
         stage' = "end" => src_at' = SrcSize /\ buf_pos' = buf_pos_end'
  PROVE  TripInv'
<1>1. /\ frames = <<>> /\ EncoderNext /\ UNCHANGED decoderVars /\ tokens' = tokens
  BY DEF Encode
<1>2. src' = src /\ stage # "done"
  BY <1>1, EncoderLeaves
<1>3. pc = "frame" /\ DecPlace \in Places /\ Writes(src, DecPlace, OutNow(frames), Kept)
  BY <1>1, <1>2, Between
<1>4. TripTyped' /\ Fresh'
  BY <1>1 DEF TripInv, TripTyped, Fresh
<1>5. AtEnd'
  BY <1>1, <1>2, <1>3 DEF AtEnd, SrcSize, decoderVars
<1>6. Onward(DecPlace, frames)'
  <2>1. DecPlace' = DecPlace
    BY <1>1 DEF DecPlace, Ahead, DecP!Amount, DecP!Running, decoderVars
  <2>2. OutNow(frames)' = OutNow(frames) /\ Kept' = Kept
    BY DEF OutNow, Kept
  <2> QED BY <1>2, <1>3, <2>1, <2>2 DEF Onward
<1> QED BY <1>4, <1>5, <1>6, EncoderGoesOn

\* A block, on each of the three occasions.
LEMMA BlockGoesOn ==
  ASSUME TripInv, Encode, NEW where, NEW type \in BlockTypes,
         FlushBlock(where, type) \/ MakeRoom(where, type) \/ WriteBlock(where, type)
  PROVE  TripInv'
<1>1. /\ frames = <<>> /\ EncoderNext /\ UNCHANGED decoderVars /\ tokens' = tokens
  BY DEF Encode
<1>2. src' = src /\ stage # "done"
  BY <1>1, EncoderLeaves
<1>3. pc = "frame" /\ DecPlace \in Places /\ Writes(src, DecPlace, OutNow(frames), Kept)
  BY <1>1, <1>2, Between
<1>4. /\ output_block(where, type) /\ first_block' = FALSE /\ stage' # "done"
      /\ stage' = "end" => stage = "end"
      /\ UNCHANGED <<src_at, buf_pos, buf_pos_end>>
  BY DEF FlushBlock, MakeRoom, WriteBlock, block_end, output_block, inputVars
<1>5. /\ frame \in Seq(Tokens) /\ input_running_total \in Nat /\ frames \in Seq(Frames)
      /\ repeated_offset_at_literal_zero \in Near /\ EncInv /\ AtEnd /\ tokens \in Seq(Tokens)
  BY DEF TripInv, TripTyped
<1>6. PICK a \in Places : a = DecPlace
  BY <1>3
<1>7. /\ frame' \in Seq(Tokens) /\ input_running_total' \in Nat /\ frames' \in Seq(Frames)
      /\ repeated_offset_at_literal_zero' \in Near
      /\ Writes(src, a, OutNow(frames)', Kept')
  <2>1. Writes(src, a, OutNow(frames), Kept)
    BY <1>3, <1>6
  <2> QED BY <1>4, <1>5, <2>1, BlockWrites
<1>8. TripTyped' /\ Fresh'
  BY <1>1, <1>4, <1>5, <1>7 DEF TripTyped, Fresh
<1>9. AtEnd'
  BY <1>1, <1>2, <1>3, <1>4, <1>5 DEF AtEnd, SrcSize, decoderVars
<1>10. Onward(DecPlace, frames)'
  <2>1. DecPlace' = a
    BY <1>1, <1>6 DEF DecPlace, Ahead, DecP!Amount, DecP!Running, decoderVars
  <2> QED BY <1>2, <1>4, <1>7, <2>1 DEF Onward
<1> QED BY <1>8, <1>9, <1>10, EncoderGoesOn

\* The last frame: what follows it in the frame is nothing.
LEMMA LastGoesOn == ASSUME TripInv, Encode, LastFrame PROVE TripInv'
<1>1. /\ frames = <<>> /\ EncoderNext /\ UNCHANGED decoderVars /\ tokens' = tokens
  BY DEF Encode
<1>2. src' = src /\ stage # "done"
  BY <1>1, EncoderLeaves
<1>3. pc = "frame" /\ DecPlace \in Places /\ Writes(src, DecPlace, OutNow(frames), Kept)
  BY <1>1, <1>2, Between
<1>4. /\ stage = "end" /\ items = <<>> /\ stage' = "done" /\ frame' = <<>>
      /\ input_running_total' = 0
      /\ frames' = IF input_running_total > 0
                   THEN Append(frames, [size |-> input_running_total, tokens |-> frame])
                   ELSE frames
      /\ UNCHANGED <<src_at, buf_pos, buf_pos_end, items, repeated_offset_at_literal_zero,
                     bufpos_at_last_block, first_block>>
  BY DEF LastFrame, inputVars, itemVars
<1>5. /\ frame \in Seq(Tokens) /\ input_running_total \in Nat /\ frames \in Seq(Frames)
      /\ repeated_offset_at_literal_zero \in Near /\ AtEnd /\ tokens \in Seq(Tokens)
      /\ bufpos_at_last_block \in Int /\ (first_block => repeated_offset_at_literal_zero = <<1, 1, 1>>)
  BY DEF TripInv, TripTyped, Fresh, EncInv, EncTyped
<1>6. PICK a \in Places : a = DecPlace
  BY <1>3
<1> DEFINE o == OutNow(frames)
           fr == [size |-> input_running_total, tokens |-> frame]
<1>7. o.frame = frame /\ o.total = input_running_total /\ o.frames = frames
  BY DEF OutNow
<1>8. Kept.pos = bufpos_at_last_block
  BY DEF Kept
<1>9. Writes(src, a, o, Kept)
  BY <1>3, <1>6
<1> HIDE DEF o
<1>10. PICK c \in Places : /\ Linked(GivesFrame(src), a, frames, c)
                           /\ Linked(Gives(src), c, frame, Kept)
                           /\ input_running_total = Kept.pos - c.pos
                           /\ input_running_total < LZX_CHUNK_SIZE
  BY <1>7, <1>9 DEF Writes
<1>11. fr.size = input_running_total /\ fr.tokens = frame /\ fr \in Frames
  BY <1>5 DEF Frames
<1> HIDE DEF fr
<1>12. frames' \in Seq(Frames)
       /\ \E r \in Places : Linked(GivesFrame(src), a, frames', r) /\ r.pos = bufpos_at_last_block
  <2>1. CASE input_running_total > 0
    <3>1. fr.size \in 1 .. LZX_CHUNK_SIZE
      <4>1. LZX_CHUNK_SIZE \in Nat
        BY EncoderSizes
      <4> QED BY <1>5, <1>10, <1>11, <2>1, <4>1
    <3>2. Kept \in Places
      <4>1. Kept = [pos |-> bufpos_at_last_block, offs |-> repeated_offset_at_literal_zero,
                    left |-> 0]
        BY DEF Kept
      <4> QED BY <1>5, <4>1 DEF Places
    <3>3. <<c, fr, Kept>> \in GivesFrame(src)
      BY <1>10, <1>11, <3>1, <3>2 DEF GivesFrame
    <3>4. Linked(GivesFrame(src), a, Append(frames, fr), Kept)
      BY <1>5, <1>10, <1>11, <3>2, <3>3, LinkedLonger
    <3>5. frames' = Append(frames, fr)
      BY <1>4, <2>1 DEF fr
    <3> QED BY <1>5, <1>8, <1>11, <3>2, <3>4, <3>5
  <2>2. CASE ~(input_running_total > 0)
    <3>1. frames' = frames
      BY <1>4, <2>2
    <3>2. c.pos = bufpos_at_last_block
      <4> DEFINE x == input_running_total
      <4>1. x \in Nat /\ ~(x > 0) /\ x = bufpos_at_last_block - c.pos /\ c.pos \in Int
        BY <1>5, <1>8, <1>10, <2>2 DEF Places
      <4> HIDE DEF x
      <4> QED BY <1>5, <4>1
    <3> QED BY <1>5, <1>10, <3>1, <3>2
  <2> QED BY <2>1, <2>2
<1>13. TripTyped' /\ Fresh'
  BY <1>1, <1>4, <1>5, <1>12 DEF TripTyped, Fresh
<1>14. AtEnd'
  BY <1>1, <1>2, <1>3, <1>4, <1>5 DEF AtEnd, SrcSize, decoderVars
<1>15. Onward(DecPlace, frames)'
  <2>1. DecPlace' = a
    BY <1>1, <1>6 DEF DecPlace, Ahead, DecP!Amount, DecP!Running, decoderVars
  <2> QED BY <1>2, <1>4, <1>12, <2>1 DEF Onward
<1> QED BY <1>13, <1>14, <1>15, EncoderGoesOn

\* Every step of the encoder.
LEMMA EncodeKeeps == ASSUME TripInv, Encode PROVE TripInv'
<1>1. frames = <<>> /\ EncoderNext
  BY DEF Encode
<1>2. CASE FirstFlush \/ ReadInput \/ Literal \/ Commit
           \/ (\E m \in MatchesAt(buf_pos, last_matchpos_offset) : LongMatch(m[1], m[2]))
           \/ \E is \in Plans : Plan(is)
  <2>1. /\ UNCHANGED <<bufpos_at_last_block, frame, frames, input_running_total,
                       repeated_offset_at_literal_zero, first_block>>
        /\ stage' \notin {"end", "done"}
    BY <1>2 DEF FirstFlush, ReadInput, Literal, Commit, LongMatch, Plan, blockVars
  <2> QED BY <2>1, QuietStep
<1>3. CASE InputOver
  <2>1. /\ UNCHANGED <<bufpos_at_last_block, frame, frames, input_running_total,
                       repeated_offset_at_literal_zero, first_block>>
        /\ stage' = "end" /\ stage = "read" /\ src_at = SrcSize /\ src_at' = src_at
        /\ buf_pos' = buf_pos /\ buf_pos_end' = buf_pos_end
    BY <1>3 DEF InputOver, blockVars, inputVars
  <2>2. buf_pos = buf_pos_end
    BY <2>1 DEF TripInv, EncInv, MemoryHolds
  <2> QED BY <2>1, <2>2, QuietStep
<1>4. CASE RedoEarly \/ ChunkEnd
  <2>1. /\ UNCHANGED <<bufpos_at_last_block, frame, frames>>
        /\ stage' \notin {"end", "done"} /\ (first_block' => first_block)
        /\ \/ /\ first_block /\ repeated_offset_at_literal_zero' = <<1, 1, 1>>
              /\ input_running_total' = 0
           \/ UNCHANGED <<input_running_total, repeated_offset_at_literal_zero>>
    <3>1. CASE RedoEarly
      BY <3>1 DEF RedoEarly, Redo, blockVars
    <3>2. CASE ChunkEnd
      BY <3>2 DEF ChunkEnd, Redo, blockVars
    <3> QED BY <1>4, <3>1, <3>2
  <2>2. UNCHANGED <<input_running_total, repeated_offset_at_literal_zero>>
    BY <2>1 DEF TripInv, Fresh
  <2> QED BY <2>1, <2>2, QuietStep
<1>5. CASE LastFrame
  BY <1>5, LastGoesOn
<1>6. CASE \E w \in Splits, t \in BlockTypes :
             FlushBlock(w, t) \/ MakeRoom(w, t) \/ WriteBlock(w, t)
  BY <1>6, BlockGoesOn
<1> QED BY <1>1, <1>2, <1>3, <1>4, <1>5, <1>6 DEF EncoderNext

-----------------------------------------------------------------------------
(* The decoder reads them                                                  *)

\* No token goes back.
LEMMA GivesForward ==
  ASSUME NEW t, NEW s, NEW k, NEW q, <<s, k, q>> \in Gives(t)
  PROVE  /\ s \in Places /\ k \in Tokens /\ q \in Places /\ s.pos <= q.pos
         /\ Heads(s, k, q) \/ GivesByte(t, s, k, q) \/ GivesMatch(t, s, k, q)
<1>1. /\ s \in Places /\ k \in Tokens /\ q \in Places
      /\ Heads(s, k, q) \/ GivesByte(t, s, k, q) \/ GivesMatch(t, s, k, q)
  BY DEF Gives
<1>2. s.pos \in Int
  BY <1>1 DEF Places
<1>3. CASE Heads(s, k, q)
  <2>1. q.pos = s.pos
    BY <1>3 DEF Heads
  <2> QED BY <1>1, <1>2, <2>1
<1>4. CASE GivesByte(t, s, k, q)
  <2>1. q.pos = s.pos + 1
    BY <1>4 DEF GivesByte
  <2> QED BY <1>1, <1>2, <2>1
<1>5. CASE GivesMatch(t, s, k, q)
  <2>1. q.pos = s.pos + k.n /\ k.kind = "match"
    BY <1>5 DEF GivesMatch
  <2>2. k.n \in Nat
    BY <1>1, <2>1, EncoderSizes DEF Tokens
  <2> QED BY <1>1, <1>2, <2>1, <2>2
<1> QED BY <1>1, <1>3, <1>4, <1>5

LEMMA LinkedForward ==
  ASSUME NEW t, NEW s, NEW ks \in Seq(Tokens), NEW r, Linked(Gives(t), s, ks, r)
  PROVE  s \in Places /\ r \in Places /\ s.pos <= r.pos
<1> DEFINE n == Len(ks)
<1>1. n \in Nat
  OBVIOUS
<1>2. PICK f \in [0 .. n -> Places] :
        f[0] = s /\ f[n] = r /\ \A i \in 1 .. n : <<f[i - 1], ks[i], f[i]>> \in Gives(t)
  BY DEF Linked
<1> HIDE DEF n
<1> DEFINE S == {i \in Nat : i <= n => f[0].pos <= f[i].pos}
<1>3. \A i \in 0 .. n : f[i] \in Places /\ f[i].pos \in Int
  BY <1>2 DEF Places
<1>4. 0 \in S
  <2>1. 0 \in 0 .. n
    BY <1>1
  <2> QED BY <1>3, <2>1
<1>5. ASSUME NEW i \in Nat, i \in S PROVE i + 1 \in S
  <2> SUFFICES ASSUME i + 1 <= n PROVE f[0].pos <= f[i + 1].pos
    OBVIOUS
  <2>1. i + 1 \in 1 .. n /\ (i + 1) - 1 = i /\ i \in 0 .. n /\ i + 1 \in 0 .. n /\ 0 \in 0 .. n
    BY <1>1
  <2>2. <<f[i], ks[i + 1], f[i + 1]>> \in Gives(t)
    BY <1>2, <2>1
  <2>3. f[i].pos <= f[i + 1].pos
    BY <2>2, GivesForward
  <2>4. f[0].pos <= f[i].pos
    BY <1>5, <2>1
  <2> QED BY <1>3, <2>1, <2>3, <2>4
<1>6. Nat \subseteq S
  <2> HIDE DEF S
  <2> QED BY <1>4, <1>5, Induct
<1>7. f[0].pos <= f[n].pos
  BY <1>1, <1>6
<1>8. n \in 0 .. n /\ 0 \in 0 .. n
  BY <1>1
<1> QED BY <1>2, <1>3, <1>7, <1>8

\* What the decoder leaves alone.
written == <<src, src_at, stage, buf_pos, buf_pos_end, items, first_block, frame,
             input_running_total, repeated_offset_at_literal_zero, bufpos_at_last_block>>
LEMMA OnwardSame ==
  ASSUME UNCHANGED written, NEW a, NEW fs, Onward(a, fs)
  PROVE  Onward(a, fs)'
<1>1. OutNow(fs)' = OutNow(fs) /\ Kept' = Kept /\ src' = src /\ stage' = stage
      /\ bufpos_at_last_block' = bufpos_at_last_block
  BY DEF written, OutNow, Kept
<1> QED BY <1>1 DEF Onward

\* The next frame.
LEMMA OnwardRest ==
  ASSUME NEW a, NEW fs \in Seq(Frames), fs # <<>>, Onward(a, fs)
  PROVE  \E q \in Places : <<a, fs[1], q>> \in GivesFrame(src) /\ Onward(q, Tail(fs))
<1>1. CASE stage = "done"
  <2>1. PICK r \in Places : Linked(GivesFrame(src), a, fs, r) /\ r.pos = bufpos_at_last_block
    BY <1>1 DEF Onward
  <2>2. PICK q \in Places : <<a, fs[1], q>> \in GivesFrame(src) /\ Linked(GivesFrame(src), q, Tail(fs), r)
    BY <2>1, LinkedRest
  <2>3. Onward(q, Tail(fs))
    BY <1>1, <2>1, <2>2 DEF Onward
  <2> QED BY <2>2, <2>3
<1>2. CASE stage # "done"
  <2> DEFINE o == OutNow(fs)
             u == OutNow(Tail(fs))
  <2>1. Writes(src, a, o, Kept)
    BY <1>2 DEF Onward
  <2>2. o.frames = fs /\ u.frames = Tail(fs) /\ u.frame = o.frame /\ u.total = o.total
    BY DEF OutNow
  <2> HIDE DEF o, u
  <2>3. o.total < LZX_CHUNK_SIZE /\ Chunks(Kept.pos - o.total)
    BY <2>1 DEF Writes
  <2>4. PICK c \in Places : /\ Linked(GivesFrame(src), a, fs, c)
                            /\ Linked(Gives(src), c, o.frame, Kept) /\ o.total = Kept.pos - c.pos
    BY <2>1, <2>2 DEF Writes
  <2>5. PICK q \in Places : <<a, fs[1], q>> \in GivesFrame(src) /\ Linked(GivesFrame(src), q, Tail(fs), c)
    BY <2>4, LinkedRest
  <2>6. Writes(src, q, u, Kept)
    BY <2>2, <2>3, <2>4, <2>5 DEF Writes
  <2>7. Onward(q, Tail(fs))
    BY <1>2, <2>6 DEF Onward, u
  <2> QED BY <2>5, <2>7
<1> QED BY <1>1, <1>2

\* What the decoder's state is.
LEMMA DecIs ==
  ASSUME TripInv
  PROVE  /\ DecP!IInv /\ EncInv /\ intact = TRUE
         /\ hist \in Seq(0 .. 255) /\ Len(hist) \in Nat
         /\ src \in Seq(0 .. 255) /\ SrcSize \in Nat /\ SrcSize = Len(src)
         /\ match \in [dist : Nat, ptr : Nat, left : Nat]
         /\ run \in [at : Nat, end : Nat, upto : Nat]
         /\ dec_offsets \in [0 .. 2 -> 1 .. W]
         /\ block.size \in Nat /\ bytes_to_decode \in Nat /\ total_decoded \in Nat
         /\ DecP!Amount \in Nat /\ DecP!Amount <= bytes_to_decode /\ DecP!Amount <= block.size
         /\ pos \in 0 .. W - 1
         /\ frames \in Seq(Frames) /\ tokens \in Seq(Tokens)
<1>1. DecP!IInv /\ EncInv /\ TripTyped /\ Reading
  BY DEF TripInv
<1>2. DecP!LzxTypeOK
  BY <1>1 DEF DecP!IInv
<1>3. LZX_MAX_MATCH \in Nat /\ LZX_CHUNK_SIZE \in Nat
  BY EncoderSizes
<1>4. /\ hist \in Seq(0 .. 255)
      /\ match \in [dist : Nat, ptr : Nat, left : 0 .. LZX_MAX_MATCH]
      /\ run \in [at : Nat, end : Nat, upto : Nat]
      /\ dec_offsets \in [0 .. 2 -> 1 .. W]
      /\ block.size \in Nat /\ bytes_to_decode \in 0 .. LZX_CHUNK_SIZE
      /\ total_decoded \in 0 .. LZX_CHUNK_SIZE /\ pos \in 0 .. W - 1
  BY <1>2 DEF DecP!LzxTypeOK, DecP!W, W
<1>5. match \in [dist : Nat, ptr : Nat, left : Nat]
  BY <1>3, <1>4
<1>6. DecP!Amount \in Nat /\ DecP!Amount <= bytes_to_decode /\ DecP!Amount <= block.size
  BY <1>2, DecSizes, DecP!AmountIs
<1>7. src \in Seq(0 .. 255) /\ SrcSize = Len(src)
  BY <1>1, InputsAssumption DEF EncInv, EncTyped, SrcSize
<1>8. intact = TRUE
  BY <1>1 DEF Reading
<1>9. frames \in Seq(Frames) /\ tokens \in Seq(Tokens)
  BY <1>1 DEF TripTyped
<1> QED BY <1>1, <1>3, <1>4, <1>5, <1>6, <1>7, <1>8, <1>9, SMTT(30)

\* Where it is.
LEMMA PlaceIs ==
  ASSUME TripInv
  PROVE  DecPlace \in Places /\ Ahead \in Int /\ DecRest \in Int
<1>1. PICK a \in Places : Linked(Gives(src), DecPlace, tokens, a)
  BY DEF TripInv, Stream
<1>2. DecPlace \in Places
  BY <1>1, DecIs, LinkedForward
<1>3. Ahead \in Int
  <2>1. match.left \in Nat /\ run.at \in Nat /\ run.upto \in Nat
    BY DecIs
  <2> QED BY <2>1 DEF Ahead
<1>4. DecRest \in Int
  <2>1. bytes_to_decode \in Nat /\ DecP!Amount \in Nat
    BY DecIs
  <2> QED BY <1>3, <2>1 DEF DecRest
<1> QED BY <1>2, <1>3, <1>4

\* What is to be shown of a step of the decoder.
LEMMA DecoderKeeps ==
  ASSUME TripInv, TripNext, UNCHANGED written, DecP!IInv', Reading', SoFar', Stream',
         frames' \in Seq(Frames), tokens' \in Seq(Tokens),
         pc' = "done" => stage = "done" /\ frames' = <<>>
  PROVE  TripInv'
<1>1. EncInv'
  BY TripStep DEF TripInv
<1>2. TripTyped' /\ Fresh'
  BY DEF TripInv, TripTyped, Fresh, written
<1>3. AtEnd'
  <2>1. AtEnd
    BY DEF TripInv
  <2> QED BY <2>1 DEF AtEnd, SrcSize, written
<1> QED BY <1>1, <1>2, <1>3 DEF TripInv

\* Of one that reads nothing.
LEMMA ItGoesOn ==
  ASSUME TripInv, TripNext, UNCHANGED written, DecP!IInv', Reading', SoFar',
         frames' \in Seq(Frames), tokens' = tokens,
         pc' = "done" => stage = "done" /\ frames' = <<>>,
         DecPlace' = DecPlace, DecRest' = DecRest, Coming' = Coming
  PROVE  TripInv'
<1>1. PICK a \in Places : /\ Linked(Gives(src), DecPlace, tokens, a)
                          /\ a.pos = DecPlace.pos + DecRest /\ Onward(a, Coming)
  BY DEF TripInv, Stream
<1>2. PICK fs : fs = Coming
  OBVIOUS
<1>3. Onward(a, fs)'
  BY <1>1, <1>2, OnwardSame
<1>4. Onward(a, Coming)'
  <2>1. Coming' = fs
    BY <1>2
  <2> QED BY <1>3, <2>1 DEF Onward, OutNow
<1>5. Linked(Gives(src'), DecPlace', tokens', a) /\ a.pos = DecPlace'.pos + DecRest'
  BY <1>1 DEF written
<1>6. Stream'
  BY <1>4, <1>5 DEF Stream
<1>7. tokens' \in Seq(Tokens)
  BY DecIs
<1> QED BY <1>6, <1>7, DecoderKeeps

\* Of one that reads a token.
LEMMA TokenGoesOn ==
  ASSUME TripInv, TripNext, UNCHANGED encoderVars, DecP!IInv', SoFar',
         tokens # <<>>, tokens' = Tail(tokens), UNCHANGED <<pc, result, intact>>,
         \A q \in Places : <<DecPlace, tokens[1], q>> \in Gives(src) =>
                  DecPlace' = q /\ q.pos + DecRest' = DecPlace.pos + DecRest
  PROVE  TripInv'
<1>1. PICK a \in Places : /\ Linked(Gives(src), DecPlace, tokens, a)
                          /\ a.pos = DecPlace.pos + DecRest /\ Onward(a, Coming)
  BY DEF TripInv, Stream
<1>2. tokens \in Seq(Tokens)
  BY DecIs
<1>3. PICK q \in Places : /\ <<DecPlace, tokens[1], q>> \in Gives(src)
                          /\ Linked(Gives(src), q, Tail(tokens), a)
  BY <1>1, <1>2, LinkedRest
<1>4. DecPlace' = q /\ q.pos + DecRest' = DecPlace.pos + DecRest
  BY <1>3
<1>5. UNCHANGED written /\ frames' = frames
  BY DEF encoderVars, written, inputVars, itemVars, blockVars
<1>6. PICK fs : fs = Coming
  OBVIOUS
<1>7. Onward(a, fs)'
  BY <1>1, <1>5, <1>6, OnwardSame
<1>8. Onward(a, Coming)'
  <2>1. Coming' = fs
    BY <1>5, <1>6 DEF Coming
  <2> QED BY <1>7, <2>1 DEF Onward, OutNow
<1>9. Linked(Gives(src'), DecPlace', tokens', a) /\ a.pos = DecPlace'.pos + DecRest'
  BY <1>1, <1>3, <1>4, <1>5 DEF written
<1>10. Stream'
  BY <1>8, <1>9 DEF Stream
<1>11. Reading /\ AtEnd /\ frames \in Seq(Frames)
  BY DecIs DEF TripInv
<1>12. pc \notin {"frame", "done"}
  BY <1>11 DEF Reading
<1>13. Reading'
  BY <1>5, <1>11, <1>12 DEF Reading
<1>14. tokens' \in Seq(Tokens)
  BY <1>2
<1> QED BY <1>5, <1>10, <1>11, <1>12, <1>13, <1>14, DecoderKeeps

\* The decoder's own steps, as LzxDecoderProofs knows them.
LEMMA DecSteps ==
  /\ Dec!BeginRun => DecP!BeginRun
  /\ Dec!CopyByte => DecP!CopyByte
  /\ Dec!EndSpecial => DecP!EndSpecial
  /\ Dec!EndFast => DecP!EndFast
  /\ Dec!EndRaw => DecP!EndRaw
  /\ Dec!FrameEnd => DecP!FrameEnd
  /\ Dec!SrcEnds => DecP!SrcEnds
<1> USE DEF Dec!frameVars, DecP!frameVars
<1>1. Dec!BeginRun => DecP!BeginRun
  BY DEF Dec!BeginRun, DecP!BeginRun, Dec!HEAD, DecP!HEAD, Dec!Smaller, DecP!Smaller,
         Dec!Coded, DecP!Coded
<1>2. Dec!CopyByte => DecP!CopyByte
  BY DEF Dec!CopyByte, DecP!CopyByte, Dec!HEAD, DecP!HEAD, Dec!NoMatch, DecP!NoMatch,
         Dec!Loops, DecP!Loops, Dec!Decoded, DecP!Decoded, Dec!Mirrored, DecP!Mirrored,
         Dec!W, DecP!W
<1>3. Dec!RunOver => DecP!RunOver
  BY DEF Dec!RunOver, DecP!RunOver, Dec!Smaller, DecP!Smaller, Dec!NoRun, DecP!NoRun,
         Dec!NoMatch, DecP!NoMatch
<1>4. Dec!EndSpecial => DecP!EndSpecial
  BY <1>3 DEF Dec!EndSpecial, DecP!EndSpecial, Dec!LoopDone, DecP!LoopDone
<1>5. Dec!EndFast => DecP!EndFast
  BY <1>3 DEF Dec!EndFast, DecP!EndFast, Dec!LoopDone, DecP!LoopDone, Dec!W, DecP!W
<1>6. Dec!EndRaw => DecP!EndRaw
  BY <1>3 DEF Dec!EndRaw, DecP!EndRaw, Dec!Smaller, DecP!Smaller, Dec!HEAD, DecP!HEAD,
              Dec!W, DecP!W
<1>7. Dec!FrameEnd => DecP!FrameEnd
  BY DEF Dec!FrameEnd, DecP!FrameEnd, Dec!FrameTop, DecP!FrameTop, Dec!W, DecP!W
<1>8. Dec!SrcEnds => DecP!SrcEnds
  BY DEF Dec!SrcEnds, DecP!SrcEnds
<1> QED BY <1>1, <1>2, <1>4, <1>5, <1>6, <1>7, <1>8

\* Where nothing is decoded.
LEMMA SoFarSame ==
  ASSUME SoFar, src' = src, hist' = hist,
         match' = match \/ (match.left = 0 /\ match' = DecP!NoMatch)
  PROVE  SoFar'
<1>1. CASE match' = match
  BY <1>1 DEF SoFar, SrcSize, CopiesIn, ByteOf
<1>2. CASE match.left = 0 /\ match' = DecP!NoMatch
  <2>1. match'.left = 0
    BY <1>2 DEF DecP!NoMatch
  <2> QED BY <1>2, <2>1 DEF SoFar, SrcSize
<1> QED BY <1>1, <1>2

\* A frame, a run and the stream begin and end.
LEMMA BeginRunGoesOn == ASSUME TripInv, Decode, Dec!BeginRun PROVE TripInv'
<1>1. /\ pc = "data" /\ pc' \in DecP!Running /\ run'.at = pos /\ run'.upto = pos + DecP!Amount
      /\ bytes_to_decode > 0 /\ block.size > 0
      /\ UNCHANGED <<mem_window, pos, dec_offsets, block, match, bytes_to_decode, total_decoded,
                     result, intact, hist>>
  BY DecSteps DEF DecP!BeginRun, DecP!frameVars, DecP!Running, DecP!Loops, DecP!Amount
<1>2. DecP!IInv'
  BY DecSteps, DecSizes, DecP!BeginRunKeeps, DecIs
<1>3. UNCHANGED encoderVars /\ tokens' = tokens /\ TripNext
  BY DEF Decode, TripNext
<1>4. UNCHANGED written /\ frames' = frames
  BY <1>3 DEF encoderVars, written, inputVars, itemVars, blockVars
<1>5. pc \notin DecP!Running /\ pc \notin {"frame", "done"} /\ pc' \notin {"frame", "done"}
      /\ pc' # "undefined" /\ pc \notin DecP!Loops
  BY <1>1 DEF DecP!Running, DecP!Loops
<1>6. match.left = 0
  BY <1>5, DecIs DEF DecP!IInv, DecP!MatchOK
<1>7. DecP!Amount' = DecP!Amount
  BY <1>1 DEF DecP!Amount, DecP!Smaller
<1>8. Ahead' = DecP!Amount
  <2>1. Ahead' = (pos + DecP!Amount) - pos - 0
    BY <1>1, <1>6 DEF Ahead
  <2>2. pos \in Int /\ DecP!Amount \in Int
    BY DecIs
  <2> QED BY <2>1, <2>2
<1>9. block.size - DecP!Amount + DecP!Amount = block.size
      /\ bytes_to_decode - DecP!Amount + DecP!Amount = bytes_to_decode
  <2>1. block.size \in Nat /\ DecP!Amount \in Nat /\ bytes_to_decode \in Nat
    BY DecIs
  <2> QED BY <2>1
<1>10. DecPlace' = DecPlace
  BY <1>1, <1>5, <1>7, <1>8, <1>9 DEF DecPlace
<1>11. DecRest' = DecRest
  BY <1>1, <1>5, <1>7, <1>8, <1>9 DEF DecRest
<1>12. Coming' = Coming
  BY <1>4, <1>5 DEF Coming
<1>13. Reading /\ SoFar /\ frames \in Seq(Frames)
  BY DecIs DEF TripInv
<1>14. Reading'
  BY <1>1, <1>3, <1>4, <1>5, <1>13 DEF Reading
<1>15. SoFar'
  BY <1>1, <1>4, <1>13, SoFarSame DEF written
<1> QED BY <1>2, <1>3, <1>4, <1>5, <1>10, <1>11, <1>12, <1>13, <1>14, <1>15, ItGoesOn

LEMMA RunEndGoesOn ==
  ASSUME TripInv, TripNext, UNCHANGED encoderVars, tokens' = tokens, DecP!IInv',
         pc \in DecP!Running, DecP!RunOver, match.left = 0, run.at = run.upto,
         hist' = hist, intact' = intact
  PROVE  TripInv'
<1>1. /\ pc' = "data" /\ match' = DecP!NoMatch /\ match'.left = 0
      /\ block' = [block EXCEPT !.size = @ - DecP!Amount]
      /\ bytes_to_decode' = bytes_to_decode - DecP!Amount
      /\ UNCHANGED <<dec_offsets, result>>
  BY DEF DecP!RunOver, DecP!Amount, DecP!NoMatch
<1>2. block'.size = block.size - DecP!Amount
  <2>1. block \in [type : DecP!BlockTypes \cup {"invalid"}, size : Nat]
    BY DecIs DEF DecP!IInv, DecP!LzxTypeOK
  <2> QED BY <1>1, <2>1
<1>3. UNCHANGED written /\ frames' = frames
  BY DEF encoderVars, written, inputVars, itemVars, blockVars
<1>4. pc' \notin DecP!Running /\ pc \notin {"frame", "done"} /\ pc' \notin {"frame", "done"}
      /\ pc' # "undefined" /\ pc # "data"
  BY <1>1 DEF DecP!Running, DecP!Loops
<1>5. Ahead = 0
  <2>1. run.upto \in Nat
    BY DecIs
  <2> QED BY <2>1 DEF Ahead
<1>6. block.size - DecP!Amount + 0 = block.size - DecP!Amount
      /\ bytes_to_decode - DecP!Amount + 0 = bytes_to_decode - DecP!Amount
  <2>1. block.size \in Nat /\ DecP!Amount \in Nat /\ bytes_to_decode \in Nat
    BY DecIs
  <2> QED BY <2>1
<1>7. DecPlace' = DecPlace
  BY <1>1, <1>2, <1>4, <1>5, <1>6 DEF DecPlace
<1>8. DecRest' = DecRest
  BY <1>1, <1>4, <1>5, <1>6 DEF DecRest
<1>9. Coming' = Coming
  BY <1>3, <1>4 DEF Coming
<1>10. Reading /\ SoFar /\ frames \in Seq(Frames)
  BY DecIs DEF TripInv
<1>11. Reading'
  BY <1>1, <1>3, <1>4, <1>10 DEF Reading
<1>12. SoFar'
  BY <1>1, <1>3, <1>10, SoFarSame DEF written
<1> QED BY <1>3, <1>4, <1>7, <1>8, <1>9, <1>10, <1>11, <1>12, ItGoesOn

LEMMA EndGoesOn ==
  ASSUME TripInv, Decode, Dec!EndSpecial \/ Dec!EndFast \/ Dec!EndRaw
  PROVE  TripInv'
<1>1. UNCHANGED encoderVars /\ tokens' = tokens /\ TripNext
  BY DEF Decode, TripNext
<1>2. DecP!EndSpecial \/ DecP!EndFast \/ DecP!EndRaw
  BY DecSteps
<1>3. DecP!IInv /\ DecP!RunOK /\ DecP!MatchOK
  BY DecIs DEF DecP!IInv
<1>4. DecP!IInv'
  BY <1>2, <1>3, DecSizes, DecP!EndSpecialKeeps, DecP!EndFastKeeps, DecP!EndRawKeeps
<1>5. pc \in DecP!Running /\ match.left = 0 /\ hist' = hist /\ intact' = intact
  BY <1>2, <1>3 DEF DecP!EndSpecial, DecP!EndFast, DecP!EndRaw, DecP!LoopDone, DecP!MatchOK,
                    DecP!Running, DecP!Loops
<1>6. run.at \in 0 .. run.upto
  BY <1>3, <1>5, DecSizes, DecP!InRun
<1>7. run.at \in Nat /\ run.upto \in Nat /\ run.end \in Nat /\ run.at <= run.upto
  <2>1. run.at \in Nat /\ run.upto \in Nat /\ run.end \in Nat
    BY DecIs
  <2> QED BY <1>6, <2>1
<1>8. CASE DecP!RunOver
  <2>1. run.at = run.upto
    <3>1. CASE DecP!EndSpecial /\ run.at >= run.upto
      BY <1>7, <3>1
    <3>2. CASE DecP!EndSpecial /\ run.at < run.upto
      <4>1. ~(run.at >= run.upto)
        BY <1>7, <3>2
      <4>2. pc' = "fast" /\ pc' = "data"
        BY <1>8, <3>2, <4>1 DEF DecP!EndSpecial, DecP!RunOver
      <4> QED BY <4>2
    <3>3. CASE DecP!EndFast
      BY <1>3, <1>7, <3>3 DEF DecP!EndFast, DecP!LoopDone, DecP!RunOK
    <3>4. CASE DecP!EndRaw
      BY <1>3, <1>7, <3>4 DEF DecP!EndRaw, DecP!RunOK
    <3> QED BY <1>2, <1>7, <3>1, <3>2, <3>3, <3>4
  <2> QED BY <1>1, <1>4, <1>5, <1>8, <2>1, RunEndGoesOn
<1>9. CASE ~DecP!RunOver
  <2>1. /\ pc = "special" /\ pc' = "fast" /\ run' = [run EXCEPT !.end = run.upto]
        /\ UNCHANGED <<dec_offsets, block, match, bytes_to_decode, total_decoded, result>>
    BY <1>2, <1>9 DEF DecP!EndSpecial, DecP!EndFast, DecP!EndRaw, DecP!frameVars
  <2>2. run'.at = run.at /\ run'.upto = run.upto
    <3>1. run \in [at : Nat, end : Nat, upto : Nat]
      BY DecIs
    <3> QED BY <2>1, <3>1
  <2>3. pc' \in DecP!Running /\ pc \notin {"frame", "done"} /\ pc' \notin {"frame", "done"}
        /\ pc' # "undefined"
    BY <2>1 DEF DecP!Running, DecP!Loops
  <2>4. UNCHANGED written /\ frames' = frames
    BY <1>1 DEF encoderVars, written, inputVars, itemVars, blockVars
  <2>5. DecP!Amount' = DecP!Amount /\ Ahead' = Ahead
    BY <2>1, <2>2 DEF DecP!Amount, DecP!Smaller, Ahead
  <2>6. DecPlace' = DecPlace
    BY <1>5, <2>1, <2>3, <2>5 DEF DecPlace
  <2>7. DecRest' = DecRest
    BY <1>5, <2>1, <2>3, <2>5 DEF DecRest
  <2>8. Coming' = Coming
    BY <2>3, <2>4 DEF Coming
  <2>9. Reading /\ SoFar /\ frames \in Seq(Frames)
    BY DecIs DEF TripInv
  <2>10. Reading'
    BY <1>1, <1>5, <2>1, <2>3, <2>4, <2>9 DEF Reading
  <2>11. SoFar'
    BY <1>5, <2>1, <2>4, <2>9, SoFarSame DEF written
  <2> QED BY <1>1, <1>4, <2>3, <2>4, <2>6, <2>7, <2>8, <2>9, <2>10, <2>11, ItGoesOn
<1> QED BY <1>8, <1>9

\* A byte more that is the input's.
LEMMA SoFarByte ==
  ASSUME TripInv, src' = src, NEW b \in 0 .. 255, hist' = Append(hist, b),
         Len(hist) + 1 <= SrcSize, b = src[Len(hist) + 1],
         Len(hist) + 1 + match'.left <= SrcSize,
         match'.left > 0 => CopiesIn(src, First + (Len(hist) + 1), match'.dist, match'.left)
  PROVE  SoFar'
<1>1. hist \in Seq(0 .. 255) /\ Len(hist) \in Nat
  BY DecIs
<1>2. Len(hist') = Len(hist) + 1 /\ hist'[Len(hist) + 1] = b
      /\ \A i \in 1 .. Len(hist) : hist'[i] = hist[i]
  BY <1>1
<1>3. \A i \in 1 .. Len(hist) : hist[i] = src[i]
  BY DEF TripInv, SoFar
<1>4. ASSUME NEW i \in 1 .. Len(hist') PROVE hist'[i] = src[i]
  <2>1. CASE i = Len(hist) + 1
    BY <1>2, <2>1
  <2>2. CASE i # Len(hist) + 1
    <3>1. i \in 1 .. Len(hist)
      BY <1>1, <1>2, <2>2
    <3> QED BY <1>2, <1>3, <3>1
  <2> QED BY <2>1, <2>2
<1>5. SrcSize' = SrcSize
  BY DEF SrcSize
<1>6. match'.left > 0 => CopiesIn(src', First + Len(hist'), match'.dist, match'.left)
  BY <1>2
<1>7. Len(hist') + match'.left <= SrcSize'
  BY <1>2, <1>5
<1> QED BY <1>4, <1>6, <1>7 DEF SoFar

LEMMA CopyByteGoesOn == ASSUME TripInv, Decode, Dec!CopyByte PROVE TripInv'
<1>1. DecP!CopyByte /\ DecP!IInv /\ intact = TRUE
  BY DecSteps, DecIs
<1>2. DecP!IInv'
  BY <1>1, DecSizes, DecP!CopyByteKeeps
<1>3. UNCHANGED encoderVars /\ tokens' = tokens /\ TripNext
  BY DEF Decode, TripNext
<1>4. /\ pc \in DecP!Loops /\ match.left > 0
      /\ run' = [run EXCEPT !.at = @ + 1]
      /\ match' = IF match.left = 1 THEN DecP!NoMatch
                  ELSE [match EXCEPT !.left = @ - 1, !.ptr = IF pc = "fast" THEN @ + 1 ELSE @]
      /\ UNCHANGED <<pc, dec_offsets, block, bytes_to_decode, total_decoded, result, intact>>
  BY <1>1 DEF DecP!CopyByte, DecP!frameVars
<1>5. hist' = Append(hist, DecP!Copied)
  BY <1>1 DEF DecP!CopyByte, DecP!Copied, DecP!Decoded
<1>6. DecP!Copied \in 0 .. 255 /\ DecP!Copied = hist[Len(hist) + 1 - match.dist]
  BY <1>1, <1>4, DecSizes, DecP!CopiedIs
<1>7. run'.at = run.at + 1 /\ run'.upto = run.upto
  <2>1. run \in [at : Nat, end : Nat, upto : Nat]
    BY DecIs
  <2> QED BY <1>4, <2>1
<1>8. match'.left = match.left - 1 /\ (match'.left > 0 => match'.dist = match.dist)
  <2>1. match \in [dist : Nat, ptr : Nat, left : Nat]
    BY DecIs
  <2>2. CASE match.left = 1
    <3>1. match'.left = 0
      BY <1>4, <2>2 DEF DecP!NoMatch
    <3> QED BY <2>2, <3>1
  <2>3. CASE match.left # 1
    <3>1. match' = [match EXCEPT !.left = @ - 1, !.ptr = IF pc = "fast" THEN @ + 1 ELSE @]
      BY <1>4, <2>3
    <3> QED BY <2>1, <3>1
  <2> QED BY <2>2, <2>3
<1>9. UNCHANGED written /\ frames' = frames
  BY <1>3 DEF encoderVars, written, inputVars, itemVars, blockVars
<1>10. pc \in DecP!Running /\ pc' \in DecP!Running /\ pc \notin {"frame", "done"}
       /\ pc' \notin {"frame", "done"} /\ pc' # "undefined"
  BY <1>4 DEF DecP!Running, DecP!Loops
<1>11. /\ hist \in Seq(0 .. 255) /\ Len(hist) \in Nat /\ run.at \in Nat /\ run.upto \in Nat
       /\ match.left \in Nat /\ First \in Int /\ SrcSize \in Nat /\ match.dist \in Nat
  BY DecIs, Sizes
<1>12. DecP!Amount' = DecP!Amount
  BY <1>4 DEF DecP!Amount, DecP!Smaller
<1>13. Ahead' = Ahead
  <2>1. Ahead' = run.upto - (run.at + 1) - (match.left - 1)
    BY <1>7, <1>8 DEF Ahead
  <2>2. \A u, i, l \in Int : u - (i + 1) - (l - 1) = u - i - l
    OBVIOUS
  <2>3. run.upto \in Int /\ run.at \in Int /\ match.left \in Int
    BY <1>11
  <2>4. run.upto - (run.at + 1) - (match.left - 1) = run.upto - run.at - match.left
    BY <2>2, <2>3
  <2> QED BY <2>1, <2>4 DEF Ahead
<1>14. First + Len(hist') + match'.left = First + Len(hist) + match.left
  <2>1. Len(hist') = Len(hist) + 1
    BY <1>5, <1>6, <1>11
  <2> QED BY <1>8, <1>11, <2>1
<1>15. DecPlace' = DecPlace
  BY <1>4, <1>10, <1>12, <1>13, <1>14 DEF DecPlace
<1>16. DecRest' = DecRest
  BY <1>4, <1>10, <1>12, <1>13 DEF DecRest
<1>17. Coming' = Coming
  BY <1>9, <1>10 DEF Coming
<1>18. Reading /\ SoFar /\ frames \in Seq(Frames)
  BY DecIs DEF TripInv
<1>19. Reading'
  BY <1>1, <1>3, <1>4, <1>9, <1>10, <1>18 DEF Reading
<1>20. SoFar'
  <2> DEFINE p == First + Len(hist)
             d == match.dist
             l == match.left
             b == DecP!Copied
  <2>1. CopiesIn(src, p, d, l) /\ Len(hist) + l <= SrcSize
    BY <1>4, <1>18 DEF SoFar
  <2>2. \A i \in 1 .. Len(hist) : hist[i] = src[i]
    BY <1>18 DEF SoFar
  <2>3. d \in 1 .. Len(hist) /\ \A j \in 0 .. l - 1 : ByteOf(src, p + j) = ByteOf(src, p + j - d)
    <3>1. p - First = Len(hist)
      BY <1>11
    <3> QED BY <2>1, <3>1 DEF CopiesIn
  <2>4. b = src[Len(hist) + 1 - d]
    <3>1. Len(hist) + 1 - d \in 1 .. Len(hist)
      BY <1>11, <2>3
    <3> QED BY <1>6, <2>2, <3>1
  <2>5. ByteOf(src, p) = ByteOf(src, p - d)
    <3>1. 0 \in 0 .. l - 1 /\ p + 0 = p /\ p + 0 - d = p - d
      BY <1>4, <1>11
    <3> HIDE DEF p, d, l
    <3>2. ByteOf(src, p + 0) = ByteOf(src, p + 0 - d)
      BY <2>3, <3>1
    <3> QED BY <3>1, <3>2
  <2>6. p - First + 1 = Len(hist) + 1 /\ p - d - First + 1 = Len(hist) + 1 - d
    BY <1>11
  <2>7. b = src[Len(hist) + 1]
    <3> HIDE DEF p, d, b
    <3> QED BY <2>4, <2>5, <2>6 DEF ByteOf
  <2>8. ASSUME l - 1 > 0 PROVE CopiesIn(src, First + (Len(hist) + 1), d, l - 1)
    <3>1. First + (Len(hist) + 1) = p + 1 /\ d \in 1 .. (p + 1) - First
      BY <1>11, <2>3
    <3>3. p \in Int /\ d \in Int /\ l \in Int
      BY <1>11
    <3>2. ASSUME NEW j \in 0 .. (l - 1) - 1
          PROVE  ByteOf(src, (p + 1) + j) = ByteOf(src, (p + 1) + j - d)
      <4>1. j + 1 \in 0 .. l - 1 /\ p + (j + 1) = (p + 1) + j
            /\ p + (j + 1) - d = (p + 1) + j - d
        <5> HIDE DEF p, d, l
        <5> QED BY <3>3
      <4>2. ByteOf(src, p + (j + 1)) = ByteOf(src, p + (j + 1) - d)
        BY <2>3, <4>1
      <4> QED BY <4>1, <4>2
    <3> QED BY <3>1, <3>2 DEF CopiesIn
  <2>9. Len(hist) + 1 <= SrcSize /\ Len(hist) + 1 + (l - 1) <= SrcSize
    BY <1>4, <1>11, <2>1
  <2>10. match'.left = l - 1 /\ (match'.left > 0 => match'.dist = d)
    BY <1>8
  <2>11. src' = src /\ hist' = Append(hist, b) /\ b \in 0 .. 255
    BY <1>5, <1>6, <1>9 DEF written
  <2> HIDE DEF d, l, b
  <2> QED BY <2>7, <2>8, <2>9, <2>10, <2>11, SoFarByte
<1> QED BY <1>2, <1>3, <1>9, <1>10, <1>15, <1>16, <1>17, <1>18, <1>19, <1>20, ItGoesOn

LEMMA FrameReadGoesOn == ASSUME TripInv, FrameRead PROVE TripInv'
<1>1. DecP!FrameEnd /\ DecP!IInv /\ intact = TRUE
  BY DecSteps, DecIs DEF FrameRead
<1>2. DecP!IInv'
  BY <1>1, DecSizes, DecP!FrameEndKeeps
<1>3. frames # <<>> /\ tokens = <<>> /\ tokens' = tokens /\ frames' = Tail(frames)
      /\ UNCHANGED written /\ TripNext
  BY DEF FrameRead, TripNext, written, inputVars, itemVars
<1>4. /\ pc = "data" /\ bytes_to_decode = 0
      /\ UNCHANGED <<pos, dec_offsets, block, run, match, bytes_to_decode, total_decoded,
                     result, intact, hist>>
  BY <1>1 DEF DecP!FrameEnd
<1>5. pc' = "frame"
  <2>1. DecP!OutputOK
    BY <1>1 DEF DecP!IInv, DecP!Content
  <2>2. total_decoded <= pos \/ pos = 0
    BY <1>4, <2>1 DEF DecP!OutputOK
  <2>3. /\ total_decoded \in 0 .. LZX_CHUNK_SIZE /\ LZX_CHUNK_SIZE < W
        /\ LZX_CHUNK_SIZE \in Nat /\ W \in Nat
    BY <1>1, TripSizes, EncoderSizes DEF DecP!IInv, DecP!LzxTypeOK, W
  <2>4. pos \in 0 .. W - 1
    BY DecIs
  <2>5. DecP!FrameTop = IF pos = 0 THEN W ELSE pos
    BY DEF DecP!FrameTop, DecP!W, W
  <2>6. total_decoded <= DecP!FrameTop /\ DecP!FrameTop \in Nat
    BY <2>2, <2>3, <2>4, <2>5
  <2>7. ~(total_decoded > DecP!FrameTop)
    BY <2>3, <2>6
  <2> QED BY <1>1, <2>7 DEF DecP!FrameEnd
<1>6. pc \notin DecP!Running /\ pc' \notin DecP!Running
  BY <1>4, <1>5 DEF DecP!Running, DecP!Loops
<1>7. DecPlace' = DecPlace
  BY <1>4, <1>6 DEF DecPlace
<1>8. DecRest' = DecRest
  BY <1>4, <1>5, <1>6 DEF DecRest
<1>9. Coming' = Coming
  BY <1>3, <1>4, <1>5 DEF Coming
<1>10. Reading /\ SoFar /\ frames \in Seq(Frames)
  BY DecIs DEF TripInv
<1>11. Reading'
  BY <1>3, <1>4, <1>5, <1>10 DEF Reading
<1>12. SoFar'
  BY <1>3, <1>4, <1>10, SoFarSame DEF written
<1>13. frames' \in Seq(Frames) /\ pc' # "done"
  BY <1>3, <1>5, <1>10
<1> QED BY <1>2, <1>3, <1>7, <1>8, <1>9, <1>11, <1>12, <1>13, ItGoesOn

LEMMA AllReadGoesOn == ASSUME TripInv, AllRead PROVE TripInv'
<1>1. DecP!SrcEnds /\ DecP!IInv
  BY DecSteps, DecIs DEF AllRead
<1>2. DecP!IInv'
  BY <1>1, DecSizes, DecP!SrcEndsKeeps
<1>3. stage = "done" /\ frames = <<>> /\ UNCHANGED encoderVars /\ tokens' = tokens /\ TripNext
  BY DEF AllRead, TripNext
<1>4. UNCHANGED written /\ frames' = frames
  BY <1>3 DEF encoderVars, written, inputVars, itemVars, blockVars
<1>5. /\ pc = "frame" /\ pc' = "done" /\ result' = 0
      /\ UNCHANGED <<dec_offsets, block, run, match, intact, hist>>
  BY <1>1 DEF DecP!SrcEnds
<1>6. pc \notin DecP!Running /\ pc' \notin DecP!Running
  BY <1>5 DEF DecP!Running, DecP!Loops
<1>7. DecPlace' = DecPlace
  BY <1>5, <1>6 DEF DecPlace
<1>8. DecRest' = DecRest /\ Coming' = Coming
  BY <1>4, <1>5, <1>6 DEF DecRest, Coming
<1>9. Reading /\ SoFar /\ frames \in Seq(Frames)
  BY DecIs DEF TripInv
<1>10. Reading'
  BY <1>3, <1>5, <1>9 DEF Reading
<1>11. SoFar'
  BY <1>4, <1>5, <1>9, SoFarSame DEF written
<1> QED BY <1>2, <1>3, <1>4, <1>7, <1>8, <1>9, <1>10, <1>11, ItGoesOn

\* The next frame, as it was written.
LEMMA ReadFrameGoesOn == ASSUME TripInv, ReadFrame PROVE TripInv'
<1>1. /\ frames # <<>> /\ tokens = <<>> /\ tokens' = frames[1].tokens /\ UNCHANGED encoderVars
      /\ Dec!FrameBegin(frames[1].size) /\ TripNext
  BY DEF ReadFrame, TripNext
<1>2. UNCHANGED written /\ frames' = frames
  BY <1>1 DEF encoderVars, written, inputVars, itemVars, blockVars
<1>3. DecP!FrameBegin(frames[1].size)
  BY <1>1 DEF Dec!FrameBegin, DecP!FrameBegin, Dec!Resized, DecP!Resized
<1>4. /\ pc = "frame" /\ pc' = "data" /\ bytes_to_decode' = frames[1].size
      /\ UNCHANGED <<dec_offsets, block, run, match, result, intact, hist>>
  BY <1>3 DEF DecP!FrameBegin
<1>5. Reading /\ SoFar /\ frames \in Seq(Frames) /\ Coming = frames
  BY <1>4, DecIs DEF TripInv, Coming
<1>6. PICK a \in Places : /\ Linked(Gives(src), DecPlace, tokens, a)
                          /\ a.pos = DecPlace.pos + DecRest /\ Onward(a, Coming)
  BY DEF TripInv, Stream
<1>7. a = DecPlace
  BY <1>1, <1>6, LinkedIs
<1>8. PICK q \in Places : <<a, frames[1], q>> \in GivesFrame(src) /\ Onward(q, Tail(frames))
  BY <1>1, <1>5, <1>6, OnwardRest
<1>9. /\ Linked(Gives(src), a, frames[1].tokens, q)
      /\ frames[1].size = q.pos - a.pos /\ frames[1].size \in 1 .. LZX_CHUNK_SIZE
      /\ frames[1] \in Frames
  BY <1>8 DEF GivesFrame
<1>10. DecP!IInv'
  BY <1>3, <1>9, DecSizes, DecIs, DecP!FrameBeginKeeps
<1>11. pc \notin DecP!Running /\ pc' \notin DecP!Running
  BY <1>4 DEF DecP!Running, DecP!Loops
<1>12. DecPlace' = a /\ DecRest' = q.pos - a.pos
  <2>1. DecPlace' = DecPlace
    BY <1>4, <1>11 DEF DecPlace
  <2>2. DecRest' = bytes_to_decode'
    BY <1>4, <1>11 DEF DecRest
  <2> QED BY <1>4, <1>7, <1>9, <2>1, <2>2
<1>13. Onward(q, Coming)'
  <2>1. PICK fs : fs = Tail(frames)
    OBVIOUS
  <2>2. Onward(q, fs)'
    BY <1>2, <1>8, <2>1, OnwardSame
  <2>3. Coming' = fs
    BY <1>2, <1>4, <2>1 DEF Coming
  <2> QED BY <2>2, <2>3 DEF Onward, OutNow
<1>14. Stream'
  <2>1. q.pos = DecPlace'.pos + DecRest'
    <3>1. q.pos \in Int /\ a.pos \in Int
      BY DEF Places
    <3> QED BY <1>12, <3>1
  <2>2. Linked(Gives(src'), DecPlace', tokens', q)
    BY <1>1, <1>2, <1>9, <1>12 DEF written
  <2> QED BY <1>13, <2>1, <2>2 DEF Stream
<1>15. Reading'
  BY <1>1, <1>2, <1>4, <1>5 DEF Reading
<1>16. SoFar'
  BY <1>2, <1>4, <1>5, SoFarSame DEF written
<1>17. tokens' \in Seq(Tokens) /\ frames' \in Seq(Frames) /\ pc' # "done"
  BY <1>1, <1>2, <1>4, <1>5, <1>9 DEF Frames
<1> QED BY <1>1, <1>2, <1>10, <1>14, <1>15, <1>16, <1>17, DecoderKeeps

\* A token, by its kind.
LEMMA TokenIs ==
  ASSUME NEW k \in Tokens
  PROVE  /\ k.kind = "block" => k.type \in BlockTypes /\ k.size \in Nat /\ k.offs \in Near
         /\ k.kind \in {"literal", "raw"} => k.byte \in 0 .. 255
         /\ k.kind = "match" => /\ k.n \in LZX_MIN_MATCH .. LZX_MAX_MATCH
                                /\ k.m \in 0 .. 3 /\ k.off \in 0 .. Reach
BY DEF Tokens

LEMMA NextToken ==
  ASSUME TripInv, ReadToken
  PROVE  /\ tokens \in Seq(Tokens) /\ tokens # <<>> /\ tokens[1] \in Tokens
         /\ tokens' = Tail(tokens) /\ UNCHANGED encoderVars /\ UNCHANGED written /\ TripNext
         /\ \E q \in Places : <<DecPlace, tokens[1], q>> \in Gives(src)
<1>1. tokens # <<>> /\ tokens' = Tail(tokens) /\ UNCHANGED encoderVars /\ TripNext
  BY DEF ReadToken, TripNext
<1>2. UNCHANGED written
  BY <1>1 DEF encoderVars, written, inputVars, itemVars, blockVars
<1>3. tokens \in Seq(Tokens)
  BY DecIs
<1>4. tokens[1] \in Tokens
  <2>1. 1 \in 1 .. Len(tokens)
    BY <1>1, <1>3
  <2> QED BY <1>3, <2>1, ElementOfSeq
<1>5. PICK a \in Places : Linked(Gives(src), DecPlace, tokens, a)
  BY DEF TripInv, Stream
<1>6. \E q \in Places : <<DecPlace, tokens[1], q>> \in Gives(src)
  BY <1>1, <1>3, <1>5, LinkedRest
<1> QED BY <1>1, <1>2, <1>3, <1>4, <1>6

LEMMA HeaderGoesOn ==
  ASSUME TripInv, ReadToken, NEW k, k = tokens[1], k.kind = "block",
         Dec!NewBlock(k.type, k.size, Offsets(k.offs))
  PROVE  TripInv'
<1>1. /\ k \in Tokens /\ UNCHANGED encoderVars /\ UNCHANGED written /\ TripNext
      /\ tokens # <<>> /\ tokens' = Tail(tokens)
  BY NextToken
<1>2. k.type \in BlockTypes /\ k.size \in Nat /\ k.offs \in Near
  BY <1>1, TokenIs
<1>3. DecP!NewBlock(k.type, k.size, Offsets(k.offs))
  BY DEF Dec!NewBlock, DecP!NewBlock, Dec!frameVars, DecP!frameVars
<1>4. /\ pc = "data" /\ block.size = 0 /\ block' = [type |-> k.type, size |-> k.size]
      /\ dec_offsets' = IF k.type = "uncompressed" THEN Offsets(k.offs) ELSE dec_offsets
      /\ UNCHANGED <<pc, run, match, bytes_to_decode, result, intact, hist>>
  BY <1>3 DEF DecP!NewBlock, DecP!frameVars
<1>5. Offsets(k.offs) \in [0 .. 2 -> 1 .. W]
  BY <1>2 DEF Offsets, Near
<1>6. k.type \in DecP!BlockTypes
  BY <1>2 DEF BlockTypes, DecP!BlockTypes, DecP!Coded
<1>7. DecP!IInv'
  <2>1. PICK t, s, o : t = k.type /\ s = k.size /\ o = Offsets(k.offs)
    OBVIOUS
  <2>2. t \in DecP!BlockTypes /\ s \in Nat /\ o \in [0 .. 2 -> 1 .. LZX_WINDOW_SIZE]
        /\ DecP!NewBlock(t, s, o)
    BY <1>2, <1>3, <1>5, <1>6, <2>1 DEF W
  <2> QED BY <2>2, DecSizes, DecIs, DecP!NewBlockKeeps
<1>8. pc \notin DecP!Running /\ pc' \notin DecP!Running
  BY <1>4 DEF DecP!Running, DecP!Loops
<1>9. DecPlace.left = 0 /\ DecPlace.pos = First + Len(hist) + match.left
      /\ DecPlace.offs = <<dec_offsets[0], dec_offsets[1], dec_offsets[2]>>
  BY <1>4, <1>8 DEF DecPlace
<1>10. DecRest' = DecRest
  BY <1>4, <1>8 DEF DecRest
<1>11. DecPlace' = [pos |-> DecPlace.pos,
                    offs |-> IF k.type = "uncompressed" THEN k.offs ELSE DecPlace.offs,
                    left |-> k.size]
  <2>1. DecPlace' = [pos |-> First + Len(hist) + match.left,
                     offs |-> <<dec_offsets'[0], dec_offsets'[1], dec_offsets'[2]>>,
                     left |-> k.size]
    BY <1>4, <1>8 DEF DecPlace
  <2>2. CASE k.type = "uncompressed"
    <3>1. dec_offsets' = Offsets(k.offs)
      BY <1>4, <2>2
    <3>2. dec_offsets'[0] = k.offs[1] /\ dec_offsets'[1] = k.offs[2] /\ dec_offsets'[2] = k.offs[3]
      BY <3>1 DEF Offsets
    <3>3. k.offs = <<k.offs[1], k.offs[2], k.offs[3]>>
      BY <1>2 DEF Near
    <3> QED BY <1>9, <2>1, <2>2, <3>2, <3>3
  <2>3. CASE k.type # "uncompressed"
    BY <1>4, <1>9, <2>1, <2>3
  <2> QED BY <2>2, <2>3
<1>12. ASSUME NEW q \in Places, <<DecPlace, tokens[1], q>> \in Gives(src)
       PROVE  DecPlace' = q /\ q.pos + DecRest' = DecPlace.pos + DecRest
  <2>1. Heads(DecPlace, k, q) \/ GivesByte(src, DecPlace, k, q) \/ GivesMatch(src, DecPlace, k, q)
    BY <1>12, GivesForward
  <2>2. Heads(DecPlace, k, q)
    BY <2>1 DEF GivesByte, GivesMatch
  <2>3. q = [pos |-> DecPlace.pos,
             offs |-> IF k.type = "uncompressed" THEN k.offs ELSE DecPlace.offs,
             left |-> k.size]
    BY <2>2 DEF Heads
  <2> QED BY <1>10, <1>11, <2>3
<1>13. SoFar'
  BY <1>1, <1>4, SoFarSame DEF written, TripInv
<1> QED BY <1>1, <1>4, <1>7, <1>12, <1>13, TokenGoesOn

\* A literal, and a byte of an uncompressed block.
LEMMA ByteGoesOn ==
  ASSUME TripInv, ReadToken, NEW k, k = tokens[1],
         \/ k.kind = "literal" /\ Dec!Literal(k.byte)
         \/ k.kind = "raw" /\ Dec!RawByte(k.byte)
  PROVE  TripInv'
<1>1. /\ k \in Tokens /\ UNCHANGED encoderVars /\ UNCHANGED written /\ TripNext
      /\ tokens # <<>> /\ tokens' = Tail(tokens)
  BY NextToken
<1>2. k.byte \in 0 .. 255 /\ k.kind \in {"literal", "raw"}
  BY <1>1, TokenIs
<1>3. DecP!Literal(k.byte) \/ DecP!RawByte(k.byte)
  <2>1. Dec!Literal(k.byte) => DecP!Literal(k.byte)
    BY DEF Dec!Literal, DecP!Literal, Dec!AtItem, DecP!AtItem, Dec!Loops, DecP!Loops,
           Dec!frameVars, DecP!frameVars, Dec!Decoded, DecP!Decoded, Dec!Mirrored, DecP!Mirrored,
           Dec!W, DecP!W
  <2>2. Dec!RawByte(k.byte) => DecP!RawByte(k.byte)
    BY DEF Dec!RawByte, DecP!RawByte, Dec!frameVars, DecP!frameVars, Dec!Decoded, DecP!Decoded
  <2> QED BY <2>1, <2>2
<1>4. /\ pc \in DecP!Running /\ run' = [run EXCEPT !.at = @ + 1]
      /\ UNCHANGED <<pc, dec_offsets, block, match, bytes_to_decode, result, intact>>
  BY <1>3 DEF DecP!Literal, DecP!RawByte, DecP!AtItem, DecP!Running, DecP!frameVars
<1>5. hist' = Append(hist, k.byte)
  BY <1>3, DecIs DEF DecP!Literal, DecP!RawByte, DecP!Decoded
<1>6. match.left = 0
  <2>1. DecP!MatchOK
    BY DecIs DEF DecP!IInv
  <2> QED BY <1>3, <2>1 DEF DecP!Literal, DecP!RawByte, DecP!AtItem, DecP!MatchOK, DecP!Loops
<1>7. DecP!IInv'
  <2>1. PICK b : b = k.byte
    OBVIOUS
  <2>2. b \in 0 .. 255 /\ (DecP!Literal(b) \/ DecP!RawByte(b))
    BY <1>2, <1>3, <2>1
  <2> QED BY <2>2, DecSizes, DecIs, DecP!LiteralKeeps, DecP!RawByteKeeps, ZenonT(30)
<1>8. run'.at = run.at + 1 /\ run'.upto = run.upto
  <2>1. run \in [at : Nat, end : Nat, upto : Nat]
    BY DecIs
  <2> QED BY <1>4, <2>1
<1>9. /\ hist \in Seq(0 .. 255) /\ Len(hist) \in Nat /\ run.at \in Int /\ run.upto \in Int
      /\ First \in Int /\ SrcSize \in Nat /\ block.size \in Int /\ bytes_to_decode \in Int
      /\ DecP!Amount \in Int /\ SrcSize = Len(src)
  <2>1. run.at \in Nat /\ run.upto \in Nat /\ hist \in Seq(0 .. 255)
    BY DecIs
  <2>2. First \in Int
    BY Sizes
  <2>3. /\ block.size \in Nat /\ bytes_to_decode \in Nat /\ DecP!Amount \in Nat
        /\ SrcSize \in Nat /\ SrcSize = Len(src) /\ Len(hist) \in Nat
    BY DecIs
  <2> QED BY <2>1, <2>2, <2>3
<1>10. DecP!Amount' = DecP!Amount
  BY <1>4 DEF DecP!Amount, DecP!Smaller
<1>11. Ahead = run.upto - run.at /\ Ahead' = Ahead - 1 /\ Ahead \in Int
  <2>1. Ahead = run.upto - run.at - 0 /\ Ahead' = run.upto - (run.at + 1) - 0
    BY <1>4, <1>6, <1>8 DEF Ahead
  <2>2. \A u, i \in Int : u - i - 0 = u - i /\ u - (i + 1) - 0 = (u - i) - 1 /\ u - i \in Int
    OBVIOUS
  <2> QED BY <1>9, <2>1, <2>2
<1> DEFINE l == block.size - DecP!Amount + Ahead
           d == bytes_to_decode - DecP!Amount + Ahead
<1>12. /\ DecPlace.pos = First + Len(hist)
       /\ DecPlace.offs = <<dec_offsets[0], dec_offsets[1], dec_offsets[2]>>
       /\ DecPlace.left = l
  <2>1. First + Len(hist) + 0 = First + Len(hist)
    BY <1>9
  <2> QED BY <1>4, <1>6, <2>1 DEF DecPlace
<1>13. DecPlace' = [pos |-> DecPlace.pos + 1, offs |-> DecPlace.offs, left |-> DecPlace.left - 1]
  <2>1. DecPlace' = [pos |-> First + Len(hist') + 0,
                     offs |-> <<dec_offsets[0], dec_offsets[1], dec_offsets[2]>>,
                     left |-> block.size - DecP!Amount + (Ahead - 1)]
    BY <1>4, <1>6, <1>10, <1>11 DEF DecPlace
  <2>2. Len(hist') = Len(hist) + 1
    BY <1>2, <1>5, <1>9
  <2>3. First + Len(hist') + 0 = First + Len(hist) + 1
    BY <1>9, <2>2
  <2>4. block.size - DecP!Amount + (Ahead - 1) = l - 1
    BY <1>9, <1>11
  <2> QED BY <1>12, <2>1, <2>3, <2>4
<1>14. DecRest = d /\ DecRest' = d - 1 /\ d \in Int
  <2>1. DecRest = d
    BY <1>4 DEF DecRest
  <2>2. DecRest' = bytes_to_decode - DecP!Amount + (Ahead - 1)
    BY <1>4, <1>10, <1>11 DEF DecRest
  <2>3. bytes_to_decode - DecP!Amount + (Ahead - 1) = d - 1 /\ d \in Int
    BY <1>9, <1>11
  <2> QED BY <2>1, <2>2, <2>3
<1> HIDE DEF l, d
<1>15. ASSUME NEW q \in Places, <<DecPlace, tokens[1], q>> \in Gives(src)
       PROVE  GivesByte(src, DecPlace, k, q)
  <2>1. Heads(DecPlace, k, q) \/ GivesByte(src, DecPlace, k, q) \/ GivesMatch(src, DecPlace, k, q)
    BY <1>15, GivesForward
  <2> QED BY <1>2, <2>1 DEF Heads, GivesMatch
<1>16. ASSUME NEW q \in Places, <<DecPlace, tokens[1], q>> \in Gives(src)
       PROVE  DecPlace' = q /\ q.pos + DecRest' = DecPlace.pos + DecRest
  <2>1. GivesByte(src, DecPlace, k, q)
    BY <1>15, <1>16
  <2>2. q = [pos |-> DecPlace.pos + 1, offs |-> DecPlace.offs, left |-> DecPlace.left - 1]
    BY <2>1 DEF GivesByte
  <2>3. q.pos = First + Len(hist) + 1
    BY <1>12, <2>2
  <2>4. First + Len(hist) + 1 + (d - 1) = First + Len(hist) + d
    BY <1>9, <1>14
  <2> QED BY <1>12, <1>13, <1>14, <2>2, <2>3, <2>4
<1>17. SoFar'
  <2>1. PICK q \in Places : <<DecPlace, tokens[1], q>> \in Gives(src)
    BY NextToken
  <2>2. GivesByte(src, DecPlace, k, q)
    BY <1>15, <2>1
  <2>3. First + Len(hist) < First + Len(src) /\ k.byte = ByteOf(src, First + Len(hist))
    BY <1>12, <2>2 DEF GivesByte
  <2>4. Len(hist) + 1 <= SrcSize /\ Len(hist) + 1 + match'.left <= SrcSize
    BY <1>4, <1>6, <1>9, <2>3
  <2>5. k.byte = src[Len(hist) + 1]
    <3>1. PICK p : p = First + Len(hist)
      OBVIOUS
    <3>2. k.byte = src[p - First + 1]
      BY <2>3, <3>1 DEF ByteOf
    <3>3. p - First + 1 = Len(hist) + 1
      BY <1>9, <3>1
    <3> QED BY <3>2, <3>3
  <2>6. ~(match'.left > 0) /\ src' = src
    BY <1>1, <1>4, <1>6 DEF written
  <2>7. PICK b : b = k.byte
    OBVIOUS
  <2>8. b \in 0 .. 255 /\ hist' = Append(hist, b) /\ b = src[Len(hist) + 1]
    BY <1>2, <1>5, <2>5, <2>7
  <2> QED BY <2>4, <2>6, <2>8, SoFarByte
<1> QED BY <1>1, <1>4, <1>7, <1>16, <1>17, TokenGoesOn

\* The encoder and the decoder number the distances of a match, and move the repeated offsets,
\* alike.
LEMMA OffsetsAgree ==
  ASSUME dec_offsets \in [0 .. 2 -> 1 .. W], NEW k, k.m \in 0 .. 3, k.off \in Nat,
         k.m = 3 => k.off > 0
  PROVE  LET o == <<dec_offsets[0], dec_offsets[1], dec_offsets[2]>>
             d == DecP!OffsetsAfter(k.m, k.off) IN
         /\ Distance(Code(k), o) = DecP!MatchPos(k.m, k.off)
         /\ OffsetsAfter(o, Code(k)) = <<d[0], d[1], d[2]>>
<1> DEFINE o == <<dec_offsets[0], dec_offsets[1], dec_offsets[2]>>
           d == DecP!OffsetsAfter(k.m, k.off)
<1>1. o[1] = dec_offsets[0] /\ o[2] = dec_offsets[1] /\ o[3] = dec_offsets[2]
  OBVIOUS
<1>2. CASE k.m <= 2
  <2>1. Code(k) = k.m /\ k.m \in {0, 1, 2}
    BY <1>2 DEF Code
  <2>2. Distance(Code(k), o) = DecP!MatchPos(k.m, k.off)
    BY <1>1, <1>2, <2>1 DEF Distance, DecP!MatchPos
  <2>3. d = [dec_offsets EXCEPT ![k.m] = dec_offsets[0], ![0] = dec_offsets[k.m]]
    BY <1>2 DEF DecP!OffsetsAfter
  <2>4. OffsetsAfter(o, Code(k)) = <<d[0], d[1], d[2]>>
    <3>1. CASE k.m = 0
      <4>1. d[0] = dec_offsets[0] /\ d[1] = dec_offsets[1] /\ d[2] = dec_offsets[2]
        BY <2>3, <3>1
      <4> QED BY <2>1, <3>1, <4>1 DEF OffsetsAfter
    <3>2. CASE k.m = 1
      <4>1. d[0] = dec_offsets[1] /\ d[1] = dec_offsets[0] /\ d[2] = dec_offsets[2]
        BY <2>3, <3>2
      <4> QED BY <1>1, <2>1, <3>2, <4>1 DEF OffsetsAfter
    <3>3. CASE k.m = 2
      <4>1. d[0] = dec_offsets[2] /\ d[1] = dec_offsets[1] /\ d[2] = dec_offsets[0]
        BY <2>3, <3>3
      <4> QED BY <1>1, <2>1, <3>3, <4>1 DEF OffsetsAfter
    <3> QED BY <2>1, <3>1, <3>2, <3>3
  <2> QED BY <2>2, <2>4
<1>3. CASE ~(k.m <= 2)
  <2>1. Code(k) = k.off + 2 /\ k.off + 2 > 2 /\ k.off + 2 - 2 = k.off
    BY <1>3 DEF Code
  <2>2. Distance(Code(k), o) = DecP!MatchPos(k.m, k.off)
    BY <1>3, <2>1 DEF Distance, DecP!MatchPos
  <2>3. d = [i \in 0 .. 2 |-> IF i = 0 THEN k.off ELSE dec_offsets[i - 1]]
    BY <1>3 DEF DecP!OffsetsAfter
  <2>4. d[0] = k.off /\ d[1] = dec_offsets[0] /\ d[2] = dec_offsets[1]
    BY <2>3
  <2>5. OffsetsAfter(o, Code(k)) = <<k.off, dec_offsets[0], dec_offsets[1]>>
    BY <1>1, <2>1 DEF OffsetsAfter
  <2> QED BY <2>2, <2>4, <2>5
<1> QED BY <1>2, <1>3

\* A match fits in what the run decodes: it fits in its block and in its frame.
LEMMA MatchFits ==
  ASSUME TripInv, pc \in DecP!Running, NEW n \in Nat, n <= DecPlace.left, n <= DecRest
  PROVE  n <= Ahead
<1>1. DecPlace.left = block.size - DecP!Amount + Ahead
      /\ DecRest = bytes_to_decode - DecP!Amount + Ahead
  BY DEF DecPlace, DecRest
<1>2. DecP!Amount = block.size \/ DecP!Amount = bytes_to_decode
  BY DEF DecP!Amount, DecP!Smaller
<1>3. block.size \in Int /\ bytes_to_decode \in Int
  <2>1. block.size \in Nat /\ bytes_to_decode \in Nat
    BY DecIs
  <2> QED BY <2>1
<1>4. Ahead \in Int
  BY PlaceIs
<1>5. CASE DecP!Amount = block.size
  BY <1>1, <1>3, <1>4, <1>5
<1>6. CASE DecP!Amount = bytes_to_decode
  BY <1>1, <1>3, <1>4, <1>6
<1> QED BY <1>2, <1>5, <1>6

LEMMA MatchGoesOn ==
  ASSUME TripInv, ReadToken, NEW k, k = tokens[1], k.kind = "match", Dec!Match(k.m, k.off, k.n)
  PROVE  TripInv'
<1>1. /\ k \in Tokens /\ UNCHANGED encoderVars /\ UNCHANGED written /\ TripNext
      /\ tokens # <<>> /\ tokens' = Tail(tokens) /\ tokens \in Seq(Tokens)
  BY NextToken
<1>2. k.n \in LZX_MIN_MATCH .. LZX_MAX_MATCH /\ k.m \in 0 .. 3 /\ k.off \in 0 .. Reach
  BY <1>1, TokenIs
<1>3. k.n \in Nat \ {0} /\ k.off \in Nat /\ (k.off > 0 => k.off \in 1 .. W) /\ 1 \in 1 .. W
  BY <1>2, EncoderSizes DEF W
<1>4. DecP!Match(k.m, k.off, k.n)
  BY DEF Dec!Match, DecP!Match, Dec!AtItem, DecP!AtItem, Dec!Loops, DecP!Loops,
         Dec!frameVars, DecP!frameVars, Dec!MatchPos, DecP!MatchPos, Dec!OffsetsAfter,
         DecP!OffsetsAfter, Dec!W, DecP!W
<1>5. /\ pc \in DecP!Loops /\ pc \in DecP!Running /\ match.left = 0
      /\ match'.dist = DecP!MatchPos(k.m, k.off) /\ match'.left = k.n
      /\ dec_offsets' = DecP!OffsetsAfter(k.m, k.off)
      /\ UNCHANGED <<pc, pos, block, run, bytes_to_decode, result, intact, hist>>
  BY <1>4 DEF DecP!Match, DecP!AtItem, DecP!Running, DecP!frameVars
<1>6. /\ hist \in Seq(0 .. 255) /\ Len(hist) \in Nat /\ First \in Int
      /\ SrcSize = Len(src) /\ SrcSize \in Nat
  BY DecIs, Sizes
<1>7. block.size \in Nat /\ bytes_to_decode \in Nat /\ DecP!Amount \in Nat
      /\ run.at \in Nat /\ run.upto \in Nat
  <2>1. run.at \in Nat /\ run.upto \in Nat
    BY DecIs
  <2>2. block.size \in Nat /\ bytes_to_decode \in Nat /\ DecP!Amount \in Nat
    BY DecIs
  <2> QED BY <2>1, <2>2
<1>8. dec_offsets \in [0 .. 2 -> 1 .. W]
  BY DecIs
<1> DEFINE o == <<dec_offsets[0], dec_offsets[1], dec_offsets[2]>>
           p == First + Len(hist)
<1>9. p \in Int /\ p + 0 = p /\ p - First = Len(hist)
  BY <1>6
<1>10. DecPlace.pos = p /\ DecPlace.offs = o
  <2>1. DecPlace.pos = p + 0
    BY <1>5 DEF DecPlace
  <2> QED BY <1>9, <2>1 DEF DecPlace
<1>11. Ahead = run.upto - run.at /\ Ahead \in Int
  <2>1. Ahead = run.upto - run.at - 0
    BY <1>5 DEF Ahead
  <2>2. run.upto - run.at - 0 = run.upto - run.at /\ run.upto - run.at \in Int
    BY <1>7
  <2> QED BY <2>1, <2>2
<1> HIDE DEF o, p
<1>12. PICK a \in Places : /\ Linked(Gives(src), DecPlace, tokens, a)
                           /\ a.pos = DecPlace.pos + DecRest
  BY DEF TripInv, Stream
<1>13. PICK q \in Places : /\ <<DecPlace, k, q>> \in Gives(src)
                           /\ Linked(Gives(src), q, Tail(tokens), a)
  BY <1>1, <1>12, LinkedRest
<1>14. ASSUME NEW r \in Places, <<DecPlace, tokens[1], r>> \in Gives(src)
       PROVE  GivesMatch(src, DecPlace, k, r)
  <2>1. Heads(DecPlace, k, r) \/ GivesByte(src, DecPlace, k, r) \/ GivesMatch(src, DecPlace, k, r)
    BY <1>14, GivesForward
  <2> QED BY <2>1 DEF Heads, GivesByte
<1>15. GivesMatch(src, DecPlace, k, q)
  BY <1>13, <1>14
<1>16. /\ p + k.n <= First + Len(src) /\ k.n <= DecPlace.left
       /\ k.m = 3 => k.off > 0
       /\ CopiesIn(src, p, Distance(Code(k), o), k.n)
       /\ q.pos = p + k.n
  BY <1>10, <1>15 DEF GivesMatch
<1>17. k.n <= DecRest
  <2>1. q.pos <= a.pos
    <3>1. PICK ks : ks = Tail(tokens)
      OBVIOUS
    <3>2. ks \in Seq(Tokens) /\ Linked(Gives(src), q, ks, a)
      BY <1>1, <1>13, <3>1
    <3> QED BY <3>2, LinkedForward
  <2>2. a.pos = p + DecRest /\ DecRest \in Int
    BY <1>10, <1>12, PlaceIs
  <2> QED BY <1>3, <1>9, <1>16, <2>1, <2>2
<1>18. k.n <= Ahead
  BY <1>3, <1>5, <1>16, <1>17, MatchFits
<1>19. /\ Distance(Code(k), o) = DecP!MatchPos(k.m, k.off)
       /\ OffsetsAfter(o, Code(k)) = <<dec_offsets'[0], dec_offsets'[1], dec_offsets'[2]>>
  BY <1>2, <1>3, <1>5, <1>8, <1>16, OffsetsAgree DEF o
<1>20. DecP!IInv'
  <2>1. PICK m, n, d : m = k.m /\ n = k.n /\ d = IF k.m <= 2 THEN 1 ELSE k.off
    OBVIOUS
  <2>2. m \in 0 .. 3 /\ n \in LZX_MIN_MATCH .. LZX_MAX_MATCH /\ d \in 1 .. LZX_WINDOW_SIZE
    BY <1>2, <1>3, <1>16, <2>1 DEF W
  <2>3. DecP!MatchPos(m, d) = DecP!MatchPos(k.m, k.off)
        /\ DecP!OffsetsAfter(m, d) = DecP!OffsetsAfter(k.m, k.off)
    BY <2>1 DEF DecP!MatchPos, DecP!OffsetsAfter
  <2>4. DecP!Match(m, d, n)
    BY <1>4, <2>1, <2>3 DEF DecP!Match
  <2>5. DecP!MatchPos(m, d) <= Len(hist)
    <3>1. Distance(Code(k), o) \in 1 .. Len(hist)
      BY <1>9, <1>16 DEF CopiesIn
    <3> QED BY <1>6, <1>19, <2>3, <3>1
  <2>6. run.at + n <= run.upto
    BY <1>3, <1>7, <1>11, <1>18, <2>1
  <2>7. DecP!Reachable(DecP!MatchPos(m, d), n)
    BY <2>5, <2>6 DEF DecP!Reachable
  <2> QED BY <2>2, <2>4, <2>7, DecSizes, DecIs, DecP!MatchKeeps
<1>21. DecP!Amount' = DecP!Amount
  BY <1>5 DEF DecP!Amount, DecP!Smaller
<1>22. Ahead' = Ahead - k.n
  <2>1. Ahead' = run.upto - run.at - k.n
    BY <1>5 DEF Ahead
  <2> QED BY <1>11, <2>1
<1>23. DecPlace' = [pos |-> DecPlace.pos + k.n, offs |-> OffsetsAfter(DecPlace.offs, Code(k)),
                    left |-> DecPlace.left - k.n]
  <2>1. DecPlace' = [pos |-> p + k.n, offs |-> OffsetsAfter(o, Code(k)),
                     left |-> block.size - DecP!Amount + (Ahead - k.n)]
    BY <1>5, <1>19, <1>21, <1>22 DEF DecPlace, p
  <2>2. DecPlace.left = block.size - DecP!Amount + Ahead
    BY <1>5 DEF DecPlace
  <2>3. block.size - DecP!Amount + (Ahead - k.n) = DecPlace.left - k.n
    <3> DEFINE x == block.size - DecP!Amount
    <3>1. x \in Int /\ x + (Ahead - k.n) = (x + Ahead) - k.n
      BY <1>3, <1>7, <1>11
    <3>2. DecPlace.left = x + Ahead
      BY <2>2
    <3> HIDE DEF x
    <3>3. x + (Ahead - k.n) = DecPlace.left - k.n
      BY <3>1, <3>2
    <3> QED BY <3>3 DEF x
  <2>4. PICK oo : oo = OffsetsAfter(o, Code(k))
    OBVIOUS
  <2>5. OffsetsAfter(DecPlace.offs, Code(k)) = oo
    BY <1>10, <2>4
  <2>6. DecPlace' = [pos |-> p + k.n, offs |-> oo, left |-> DecPlace.left - k.n]
    BY <2>1, <2>3, <2>4
  <2> QED BY <1>10, <2>5, <2>6
<1>24. DecRest' = DecRest - k.n /\ DecRest \in Int
  <2>1. DecRest' = bytes_to_decode - DecP!Amount + (Ahead - k.n)
        /\ DecRest = bytes_to_decode - DecP!Amount + Ahead
    BY <1>5, <1>21, <1>22 DEF DecRest
  <2> QED BY <1>3, <1>7, <1>11, <2>1
<1>25. ASSUME NEW r \in Places, <<DecPlace, tokens[1], r>> \in Gives(src)
       PROVE  DecPlace' = r /\ r.pos + DecRest' = DecPlace.pos + DecRest
  <2>1. r = [pos |-> DecPlace.pos + k.n, offs |-> OffsetsAfter(DecPlace.offs, Code(k)),
             left |-> DecPlace.left - k.n]
    BY <1>14, <1>25 DEF GivesMatch
  <2>2. r.pos = p + k.n
    BY <1>10, <2>1
  <2>3. p + k.n + (DecRest - k.n) = p + DecRest
    BY <1>3, <1>9, <1>24
  <2> QED BY <1>10, <1>23, <1>24, <2>1, <2>2, <2>3
<1>26. SoFar'
  <2>1. \A i \in 1 .. Len(hist) : hist[i] = src[i]
    BY DEF TripInv, SoFar
  <2>2. Len(hist) + k.n <= SrcSize
    <3>1. p = First + Len(hist)
      BY DEF p
    <3> QED BY <1>3, <1>6, <1>16, <3>1
  <2>3. CopiesIn(src, First + Len(hist), match'.dist, match'.left)
    BY <1>5, <1>16, <1>19 DEF p
  <2>4. hist' = hist /\ src' = src /\ match'.left = k.n
    BY <1>1, <1>5 DEF written
  <2> QED BY <2>1, <2>2, <2>3, <2>4 DEF SoFar, SrcSize
<1> QED BY <1>1, <1>5, <1>20, <1>25, <1>26, TokenGoesOn

\* Every step of the two.
LEMMA TripInvStep == TripInv /\ [TripNext]_tripVars => TripInv'
<1> SUFFICES ASSUME TripInv, [TripNext]_tripVars PROVE TripInv'
  OBVIOUS
<1>1. CASE Encode
  BY <1>1, EncodeKeeps
<1>2. CASE ReadFrame
  BY <1>2, ReadFrameGoesOn
<1>3. CASE ReadToken
  <2>1. PICK k : k = tokens[1]
    OBVIOUS
  <2>2. CASE k.kind = "block" /\ Dec!NewBlock(k.type, k.size, Offsets(k.offs))
    BY <1>3, <2>1, <2>2, HeaderGoesOn
  <2>3. CASE \/ k.kind = "literal" /\ Dec!Literal(k.byte)
             \/ k.kind = "raw" /\ Dec!RawByte(k.byte)
    BY <1>3, <2>1, <2>3, ByteGoesOn
  <2>4. CASE k.kind = "match" /\ Dec!Match(k.m, k.off, k.n)
    BY <1>3, <2>1, <2>4, MatchGoesOn
  <2> QED BY <1>3, <2>1, <2>2, <2>3, <2>4 DEF ReadToken
<1>4. CASE Decode
  BY <1>4, BeginRunGoesOn, CopyByteGoesOn, EndGoesOn DEF Decode
<1>5. CASE FrameRead
  BY <1>5, FrameReadGoesOn
<1>6. CASE AllRead
  BY <1>6, AllReadGoesOn
<1>7. CASE UNCHANGED tripVars
  <2>1. UNCHANGED encoderVars /\ UNCHANGED decoderVars /\ tokens' = tokens
    BY <1>7 DEF tripVars
  <2>2. UNCHANGED written /\ frames' = frames
    BY <2>1 DEF encoderVars, written, inputVars, itemVars, blockVars
  <2>3. UNCHANGED <<pc, dec_offsets, block, run, match, bytes_to_decode, result, intact, hist>>
    BY <2>1 DEF decoderVars
  <2>4. DecP!IInv'
    <3>1. UNCHANGED DecP!lzxVars
      BY <2>1 DEF decoderVars, DecP!lzxVars
    <3> QED BY <3>1, DecSizes, DecIs, DecP!StutterKeeps
  <2>5. TripTyped' /\ Fresh' /\ AtEnd' /\ Reading'
    BY <2>1, <2>2, <2>3 DEF TripInv, TripTyped, Fresh, AtEnd, Reading, SrcSize, written
  <2>6. SoFar'
    BY <2>2, <2>3, SoFarSame DEF TripInv, written
  <2>7. EncInv'
    BY <1>7, TripStep DEF TripInv
  <2>8. Stream'
    <3>1. PICK a \in Places : /\ Linked(Gives(src), DecPlace, tokens, a)
                              /\ a.pos = DecPlace.pos + DecRest /\ Onward(a, Coming)
      BY DEF TripInv, Stream
    <3>2. DecPlace' = DecPlace /\ DecRest' = DecRest
      BY <2>3 DEF DecPlace, DecRest, Ahead, DecP!Amount, DecP!Smaller, DecP!Running, DecP!Loops
    <3>3. PICK fs : fs = Coming
      OBVIOUS
    <3>4. Onward(a, fs)'
      BY <2>2, <3>1, <3>3, OnwardSame
    <3>5. Onward(a, Coming)'
      <4>1. Coming' = fs
        BY <2>2, <2>3, <3>3 DEF Coming
      <4> QED BY <3>4, <4>1 DEF Onward, OutNow
    <3>6. Linked(Gives(src'), DecPlace', tokens', a) /\ a.pos = DecPlace'.pos + DecRest'
      BY <2>1, <2>2, <3>1, <3>2 DEF written
    <3> QED BY <3>5, <3>6 DEF Stream
  <2> QED BY <2>4, <2>5, <2>6, <2>7, <2>8 DEF TripInv
<1>8. CASE Over
  BY <1>7, <1>8 DEF Over
<1> QED BY <1>1, <1>2, <1>3, <1>4, <1>5, <1>6, <1>7, <1>8 DEF TripNext

\* At the end all of the input was read.
LEMMA EndIsReached ==
  ASSUME TripInv, pc = "done"
  PROVE  Len(hist) = SrcSize
<1>1. /\ stage = "done" /\ frames = <<>> /\ items = <<>> /\ tokens = <<>>
      /\ buf_pos = buf_pos_end /\ src_at = SrcSize
  <2>1. Reading /\ AtEnd
    BY DEF TripInv
  <2> QED BY <2>1 DEF Reading, AtEnd
<1>2. PICK a \in Places : Linked(Gives(src), DecPlace, tokens, a) /\ Onward(a, Coming)
  BY DEF TripInv, Stream
<1>3. a = DecPlace
  BY <1>1, <1>2, LinkedIs
<1>4. a.pos = bufpos_at_last_block
  <2>1. PICK r \in Places : Linked(GivesFrame(src), a, Coming, r) /\ r.pos = bufpos_at_last_block
    BY <1>1, <1>2 DEF Onward
  <2>2. Coming = <<>>
    BY <1>1 DEF Coming
  <2>3. a = r
    BY <2>1, <2>2, LinkedIs
  <2> QED BY <2>1, <2>3
<1>5. bufpos_at_last_block = buf_pos
  <2> DEFINE w == Walk(bufpos_at_last_block, repeated_offset_at_literal_zero, <<>>, dist_data)
  <2>1. w[Len(<<>>)] = [pos |-> buf_pos, offs |-> last_matchpos_offset, dists |-> Len(dist_data)]
    BY <1>1 DEF TripInv, EncInv, Spelled, Keeps
  <2>2. /\ bufpos_at_last_block \in Int /\ repeated_offset_at_literal_zero \in Triples
        /\ <<>> \in Seq(Items)
    BY DEF TripInv, EncInv, EncTyped
  <2>3. Steps(w, bufpos_at_last_block, repeated_offset_at_literal_zero, <<>>, dist_data)
    BY <2>2, WalkIs
  <2> HIDE DEF w
  <2>4. w[0] = [pos |-> bufpos_at_last_block, offs |-> repeated_offset_at_literal_zero, dists |-> 0]
    BY <2>3 DEF Steps
  <2>5. Len(<<>>) = 0
    OBVIOUS
  <2> QED BY <2>1, <2>4, <2>5
<1>6. buf_pos_end = First + SrcSize
  BY <1>1 DEF TripInv, EncInv, InChunks
<1>7. match.left = 0
  <2>1. DecP!MatchOK
    BY DecIs DEF DecP!IInv
  <2> QED BY <2>1 DEF DecP!MatchOK, DecP!Loops
<1>8. a.pos = First + Len(hist) + 0
  BY <1>3, <1>7 DEF DecPlace
<1>9. Len(hist) \in Nat /\ SrcSize \in Nat /\ First \in Int
  BY DecIs, Sizes
<1> QED BY <1>1, <1>4, <1>5, <1>6, <1>8, <1>9

LEMMA TripDecodes == TripInv => Decompresses
<1> SUFFICES ASSUME TripInv, pc \in {"frame", "done"}
             PROVE  /\ dest = SubSeq(src, 1, Len(dest))
                    /\ pc = "done" => result = 0 /\ dest = src
  BY DEF Decompresses
<1>1. /\ DecP!IInv /\ intact = TRUE /\ result = 0 /\ src \in Seq(0 .. 255)
      /\ hist \in Seq(0 .. 255) /\ SrcSize = Len(src) /\ SrcSize \in Nat /\ Len(hist) \in Nat
  BY DecIs DEF TripInv, Reading
<1>2. dest = hist
  <2>1. DecP!OutputIsHistory
    BY <1>1, DecSizes, DecP!OutputIs
  <2> QED BY <1>1, <2>1 DEF DecP!OutputIsHistory
<1>3. /\ Len(hist) <= Len(src) /\ \A i \in 1 .. Len(hist) : hist[i] = src[i]
  <2>1. SoFar
    BY DEF TripInv
  <2>2. match.left \in Nat
    BY DecIs
  <2> QED BY <1>1, <2>1, <2>2 DEF SoFar
<1>4. hist = SubSeq(src, 1, Len(hist))
  <2>1. PICK n, t : n = Len(hist) /\ t = src
    OBVIOUS
  <2>2. t \in Seq(0 .. 255) /\ n \in Nat /\ n <= Len(t)
    BY <1>1, <1>3, <2>1
  <2> DEFINE u == SubSeq(t, 1, n)
  <2>3. u \in Seq(0 .. 255) /\ Len(u) = n
    <3>1. PICK S : S = 0 .. 255
      OBVIOUS
    <3>2. t \in Seq(S) /\ 1 \in 1 .. Len(t) + 1 /\ n \in 1 - 1 .. Len(t)
      BY <2>2, <3>1
    <3>3. /\ u \in Seq(S)
          /\ Len(u) = IF 1 <= n THEN n - 1 + 1 ELSE 0
      BY <3>2, SubSeqProperties
    <3>4. Len(u) = n
      <4> HIDE DEF u
      <4> QED BY <2>2, <3>3
    <3> QED BY <3>1, <3>3, <3>4
  <2>4. \A i \in 1 .. n : u[i] = t[i]
    BY <2>2
  <2> HIDE DEF u
  <2>5. hist = u
    BY <1>1, <1>3, <2>1, <2>3, <2>4, SeqEqual
  <2> QED BY <2>1, <2>5 DEF u
<1>5. ASSUME pc = "done" PROVE hist = src
  <2>1. Len(hist) = Len(src)
    BY <1>1, <1>5, EndIsReached
  <2> QED BY <1>1, <1>3, <2>1, SeqEqual
<1> QED BY <1>1, <1>2, <1>4, <1>5

\* Wherever lzx_compress and lzx_decompress are, the decoder is at a place of the stream from
\* which what is left of its frame, the frames that are written, the one that is being
\* written and the items kept back lead on through the input.
THEOREM TripInvariant == TripSpec => []TripInv
<1>1. TripSpec => TripInit /\ [][TripNext]_tripVars
  BY DEF TripSpec
<1> QED BY <1>1, TripStarts, TripInvStep, PTL

\* What lzx_compress writes, lzx_decompress reads: after every frame a part of the input, at
\* the end all of it, for every input, every size of window, chunk, match and buffer, and
\* every choice of matches, look-aheads, splits and block types.
THEOREM TripDecompresses == TripSpec => []Decompresses
BY TripDecodes, TripInvariant, PTL
=============================================================================
