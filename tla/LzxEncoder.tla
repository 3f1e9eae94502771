---- MODULE LzxEncoder ----
(***************************************************************************)
(* lzx_compress (src/src/lzx_encoder.c) from the input to the items of its *)
(* frames: the memory that slides over the input, the items that are kept  *)
(* back until a block is written, the blocks, the frames they are cut      *)
(* into, and the first block, which is parsed twice.                       *)
(*                                                                         *)
(* What the parser chooses among the matches of LzxMatch, where a block is *)
(* split and of which type it is depend on estimates: here, any of them.   *)
(* The E8 translation of what is read is LzxE8, the coding of the items    *)
(* LzxTrees, LzxSlots and LzxBits.                                         *)
(***************************************************************************)
EXTENDS Integers, Sequences, FiniteSetsExt

CONSTANTS LZX_WINDOW_SIZE, LZX_CHUNK_SIZE, LZX_MIN_MATCH, LZX_MAX_MATCH,
          SECONDARY_PARTITION_SIZE,
          Reach,             \* how far back a match may start: 4 less than the window
          MAX_LITERAL_ITEMS, MAX_DIST_ITEMS,
          ItemMargin,        \* 8: a block is written when so much room is left
          RedoMargin,        \* 512: the first block is parsed again
          STEP_SIZE, MIN_LITERALS_REQUIRED, MIN_LITERALS_IN_BLOCK, MAX_BLOCK_SPLITS,
          AlignedAt,         \* 100: fewer distances make no aligned block
          LookAhead,         \* bound on the items of one look-ahead
          Inputs             \* the inputs

ASSUME EncoderSizes ==
  /\ LZX_WINDOW_SIZE \in Nat /\ LZX_CHUNK_SIZE \in Nat \ {0} /\ SECONDARY_PARTITION_SIZE \in Nat \ {0}
  /\ LZX_WINDOW_SIZE % LZX_CHUNK_SIZE = 0 /\ SECONDARY_PARTITION_SIZE % LZX_CHUNK_SIZE = 0
  /\ Reach \in Nat /\ Reach < LZX_WINDOW_SIZE
  /\ LZX_MIN_MATCH \in Nat \ {0, 1} /\ LZX_MAX_MATCH \in Nat /\ MIN_LITERALS_IN_BLOCK \in Nat
  /\ LookAhead + ItemMargin < MAX_LITERAL_ITEMS /\ LookAhead + ItemMargin < MAX_DIST_ITEMS

ASSUME InputsAssumption == Inputs \subseteq Seq(0 .. 255)

VARIABLES
  src, src_at,                 \* lzx_compress: the input, and what of it was passed on
  stage,                       \* start | read | parse | plan | block | redo | end | done
  real_mem_window, base,       \* the memory, and real_mem_window - mem_window
  buf_pos, buf_pos_end,
  plan,                        \* the items a look-ahead has chosen
  items, dist_data,            \* item_type with lit_data, and the distances of the matches
  last_matchpos_offset,        \* the parser's repeated offsets
  repeated_offset_at_literal_zero,  \* those at the first item kept back
  first_block, bufpos_last_output_block, bufpos_at_last_block,
  earliest_window_data_remaining, num_block_splits,
  frame, input_running_total,  \* the frame that is being written, and its bytes so far
  frames                       \* the frames written: [size, tokens]

inputVars == <<src, src_at>>
memVars == <<real_mem_window, base, earliest_window_data_remaining>>
itemVars == <<items, dist_data>>
blockVars == <<repeated_offset_at_literal_zero, bufpos_at_last_block, num_block_splits,
               frame, input_running_total, frames>>
encoderVars == <<inputVars, stage, memVars, buf_pos, buf_pos_end, plan, itemVars,
                 last_matchpos_offset, blockVars, first_block, bufpos_last_output_block>>

W == LZX_WINDOW_SIZE
First == W           \* init_compression_memory: bufpos = window_size
At(p) == real_mem_window[p - base]     \* mem_window[p]
SrcSize == Len(src)

EncoderInit ==
  /\ src \in Inputs /\ src_at = 0
  /\ stage = "start"
  /\ real_mem_window = [i \in 0 .. W + SECONDARY_PARTITION_SIZE - 1 |-> 0] /\ base = W
  /\ buf_pos = First /\ buf_pos_end = First /\ plan = <<>>
  /\ items = <<>> /\ dist_data = <<>>
  /\ last_matchpos_offset = <<1, 1, 1>> /\ repeated_offset_at_literal_zero = <<1, 1, 1>>
  /\ first_block = TRUE
  /\ bufpos_last_output_block = First /\ bufpos_at_last_block = First
  /\ earliest_window_data_remaining = First
  /\ num_block_splits = 0
  /\ frame = <<>> /\ input_running_total = 0 /\ frames = <<>>
-----------------------------------------------------------------------------
(* Items.  A match has the length n > 1 and a code c: 0, 1, 2 for a        *)
(* repeated offset, otherwise its distance + 2.                            *)

Lit(b) == [n |-> 1, byte |-> b]
Mat(n) == [n |-> n, byte |-> 0]
IsMatch(i) == i.n > 1
Matches(is) == Cardinality({i \in DOMAIN is : IsMatch(is[i])})
BytesUpTo(is) ==
  LET bytes[i \in 0 .. Len(is)] == IF i = 0 THEN 0 ELSE bytes[i - 1] + is[i].n IN bytes
BytesOf(is) == BytesUpTo(is)[Len(is)]

Distance(c, offs) == IF c <= 2 THEN offs[c + 1] ELSE c - 2
\* A bug: a repeated offset stays where it is.
OffsetsKept(offs, c) == IF c <= 2 THEN offs ELSE <<c - 2, offs[1], offs[2]>>
OffsetsAfter(offs, c) ==
  CASE c = 0 -> offs
    [] c = 1 -> <<offs[2], offs[1], offs[3]>>
    [] c = 2 -> <<offs[3], offs[2], offs[1]>>
    [] OTHER -> <<c - 2, offs[1], offs[2]>>
OffsetsUpTo(offs, cs) ==
  LET after[i \in 0 .. Len(cs)] ==
        IF i = 0 THEN offs ELSE OffsetsAfter(after[i - 1], cs[i]) IN
  after
OffsetsThrough(offs, cs) == OffsetsUpTo(offs, cs)[Len(cs)]

\* A legal match (LzxMatch!MatchesAreReal) that ends in what was read.
Real(p, c, n, offs) ==
  LET d == Distance(c, offs) IN
  /\ d <= Reach /\ p - d >= First
  /\ p + n <= buf_pos_end /\ n <= LZX_CHUNK_SIZE - 1 - (p % LZX_CHUNK_SIZE)
  /\ \A i \in 0 .. n - 1 : At(p + i) = At(p + i - d)

MatchesAt(p, offs) == {m \in (0 .. Reach + 2) \X (LZX_MIN_MATCH .. LZX_MAX_MATCH) :
                         Real(p, m[1], m[2], offs)}
-----------------------------------------------------------------------------
(* Blocks: get_final_repeated_offset_states, split_block, output_block     *)

\* A bug: the third of the three distances is passed over.
OffsetsFromLast(offs, ds) ==
  LET void == {d \in 1 .. Len(ds) - 2 : \A i \in d .. d + 2 : ds[i] > 2}
      from == IF void = {} THEN 1 ELSE Max(void) + 1 IN
  OffsetsThrough(offs, SubSeq(ds, from, Len(ds)))

\* Three distances in a row that are no repeated offsets make what was before them void.
FinalOffsets(offs, ds) ==
  LET void == {d \in 1 .. Len(ds) - 2 : \A i \in d .. d + 2 : ds[i] > 2}
      from == IF void = {} THEN 1 ELSE Max(void) IN
  OffsetsThrough(offs, SubSeq(ds, from, Len(ds)))

\* Where split_block may cut the items: at a step, or it does not.
MaySplit == Len(items) >= MIN_LITERALS_REQUIRED /\ num_block_splits < MAX_BLOCK_SPLITS
Splits == {Len(items)} \cup
          {w \in MIN_LITERALS_IN_BLOCK .. Len(items) - 1 : MaySplit /\ w % STEP_SIZE = 0}

\* What an item adds to the frame; the frame is flushed at exactly LZX_CHUNK_SIZE bytes.
Flushed(o) ==
  [o EXCEPT !.frames = Append(@, [size |-> o.total, tokens |-> o.frame]),
            !.frame = <<>>, !.total = 0, !.splits = 0]
Out(o, token, n) ==
  LET put == [o EXCEPT !.frame = Append(@, token), !.total = @ + n] IN
  IF put.total = LZX_CHUNK_SIZE THEN Flushed(put) ELSE put

\* encode_verbatim_block, encode_aligned_block: the distances are taken one after another.
Token(i, c) ==
  IF IsMatch(i) THEN [kind |-> "match", n |-> i.n, m |-> IF c <= 2 THEN c ELSE 3,
                      off |-> IF c <= 2 THEN 0 ELSE c - 2]
  ELSE [kind |-> "literal", byte |-> i.byte]
EncodeItems(o, is, ds) ==
  LET out[i \in 0 .. Len(is)] ==
        IF i = 0 THEN o
        ELSE Out(out[i - 1], Token(is[i], ds[Matches(SubSeq(is, 1, i))]), is[i].n) IN
  out[Len(is)]
\* encode_uncompressed_block: the bytes come from the memory again.
CopyRaw(o, p, size) ==
  LET out[i \in 0 .. size] ==
        IF i = 0 THEN o ELSE Out(out[i - 1], [kind |-> "raw", byte |-> At(p + i - 1)], 1) IN
  out[size]

do_block_output(where, type) ==
  LET is == SubSeq(items, 1, where)
      ds == SubSeq(dist_data, 1, Matches(is))
      size == BytesOf(is)
      offs == FinalOffsets(repeated_offset_at_literal_zero, ds)
      header == [kind |-> "block", type |-> type, size |-> size, offs |-> offs]
      start == [frame |-> Append(frame, header), total |-> input_running_total,
                frames |-> frames,
                splits |-> num_block_splits + IF where < Len(items) THEN 1 ELSE 0]
      out == IF type = "uncompressed"
             THEN CopyRaw(start, bufpos_at_last_block, size)
             ELSE EncodeItems(start, is, ds) IN
  /\ type = "uncompressed" => bufpos_at_last_block >= earliest_window_data_remaining
  /\ type = "aligned" => Matches(is) >= AlignedAt
  /\ frame' = out.frame /\ input_running_total' = out.total /\ frames' = out.frames
  /\ num_block_splits' = out.splits
  /\ repeated_offset_at_literal_zero' = offs
  /\ bufpos_at_last_block' = bufpos_at_last_block + size

\* The items behind the split stay, with their distances.
output_block(where, type) ==
  /\ where \in Splits
  /\ do_block_output(where, type)
  /\ items' = SubSeq(items, where + 1, Len(items))
  /\ dist_data' = SubSeq(dist_data, Matches(SubSeq(items, 1, where)) + 1, Len(dist_data))
  /\ first_block' = FALSE

\* Called when a buffer is nearly full; a look-ahead that waits is still in front of buf_pos.
block_end(where, type) ==
  /\ output_block(where, type)
  /\ bufpos_last_output_block' = buf_pos
  /\ UNCHANGED <<inputVars, memVars, buf_pos, buf_pos_end, plan, last_matchpos_offset>>
-----------------------------------------------------------------------------
(* redo_first_block: what was parsed is dropped and parsed again, with the *)
(* trees it gave.                                                          *)

RedoFits ==
  LET before == bufpos_last_output_block - W IN
  buf_pos - bufpos_last_output_block + (IF before < W THEN before ELSE W) <= buf_pos - base

\* A bug: the first block stays the first.
RedoAgain ==
  /\ first_block /\ RedoFits
  /\ UNCHANGED first_block
  /\ \E w \in Splits : num_block_splits' = num_block_splits + IF w < Len(items) THEN 1 ELSE 0
  /\ items' = <<>> /\ dist_data' = <<>>
  /\ last_matchpos_offset' = <<1, 1, 1>> /\ repeated_offset_at_literal_zero' = <<1, 1, 1>>
  /\ input_running_total' = 0
  /\ buf_pos' = bufpos_last_output_block
  /\ UNCHANGED <<bufpos_last_output_block, bufpos_at_last_block, frame, frames>>

\* split_block is called for its split only, but counts it.
Redo ==
  /\ first_block /\ RedoFits
  /\ first_block' = FALSE
  /\ \E w \in Splits : num_block_splits' = num_block_splits + IF w < Len(items) THEN 1 ELSE 0
  /\ items' = <<>> /\ dist_data' = <<>>
  /\ last_matchpos_offset' = <<1, 1, 1>> /\ repeated_offset_at_literal_zero' = <<1, 1, 1>>
  /\ input_running_total' = 0
  /\ buf_pos' = bufpos_last_output_block
  /\ UNCHANGED <<bufpos_last_output_block, bufpos_at_last_block, frame, frames>>
-----------------------------------------------------------------------------
(* lzx_compress, read_input                                                *)

\* The first lzx_flush_compression finds nothing to write.
FirstFlush == /\ stage = "start"
              /\ stage' = "read"
              /\ UNCHANGED <<inputVars, memVars, buf_pos, buf_pos_end, plan, itemVars,
                             last_matchpos_offset, blockVars, first_block,
                             bufpos_last_output_block>>

Smaller(a, b) == IF a < b THEN a ELSE b

ReadInput ==
  LET bytes_read == Smaller(LZX_CHUNK_SIZE, SrcSize - src_at)
      to == buf_pos - base IN
  /\ stage = "read" /\ src_at < SrcSize
  /\ real_mem_window' = [i \in DOMAIN real_mem_window |->
                           IF i \in to .. to + bytes_read - 1 THEN src[src_at + i - to + 1]
                           ELSE real_mem_window[i]]
  /\ src_at' = src_at + bytes_read
  /\ buf_pos_end' = buf_pos + bytes_read
  /\ stage' = "parse"
  /\ UNCHANGED <<src, base, earliest_window_data_remaining, buf_pos, plan, itemVars,
                 last_matchpos_offset, blockVars, first_block, bufpos_last_output_block>>

\* No input is left: the final lzx_flush_compression writes what was kept back.
InputOver == /\ stage = "read" /\ src_at = SrcSize
             /\ stage' = "end"
             /\ UNCHANGED <<inputVars, memVars, buf_pos, buf_pos_end, plan, itemVars,
                            last_matchpos_offset, blockVars, first_block,
                            bufpos_last_output_block>>

FlushBlock(where, type) ==
  /\ stage = "end" /\ items # <<>>
  /\ output_block(where, type)
  /\ UNCHANGED <<inputVars, stage, memVars, buf_pos, buf_pos_end, plan, last_matchpos_offset,
                 bufpos_last_output_block>>

\* encode_flush writes the last frame if it holds anything.
LastFrame ==
  /\ stage = "end" /\ items = <<>>
  /\ frames' = IF input_running_total > 0
               THEN Append(frames, [size |-> input_running_total, tokens |-> frame]) ELSE frames
  /\ frame' = <<>> /\ input_running_total' = 0
  /\ stage' = "done"
  /\ UNCHANGED <<inputVars, memVars, buf_pos, buf_pos_end, plan, itemVars,
                 last_matchpos_offset, repeated_offset_at_literal_zero, bufpos_at_last_block,
                 num_block_splits, first_block, bufpos_last_output_block>>
-----------------------------------------------------------------------------
(* opt_encode_top                                                          *)

NearlyFull(literals, distances) == \/ literals >= MAX_LITERAL_ITEMS - ItemMargin
                                   \/ distances >= MAX_DIST_ITEMS - ItemMargin
RedoDue == first_block /\ \/ Len(items') >= MAX_LITERAL_ITEMS - RedoMargin
                          \/ Len(dist_data') >= MAX_DIST_ITEMS - RedoMargin

\* A literal or a long match at once.
Literal ==
  /\ stage = "parse" /\ buf_pos < buf_pos_end
  /\ items' = Append(items, Lit(At(buf_pos)))
  /\ buf_pos' = buf_pos + 1
  /\ stage' = IF Len(items') >= MAX_LITERAL_ITEMS - ItemMargin THEN "block" ELSE "parse"
  /\ UNCHANGED <<inputVars, memVars, buf_pos_end, plan, dist_data, last_matchpos_offset,
                 blockVars, first_block, bufpos_last_output_block>>

LongMatch(c, n) ==
  /\ stage = "parse" /\ buf_pos < buf_pos_end
  /\ items' = Append(items, Mat(n)) /\ dist_data' = Append(dist_data, c)
  /\ buf_pos' = buf_pos + n
  /\ last_matchpos_offset' = OffsetsAfter(last_matchpos_offset, c)
  /\ stage' = IF NearlyFull(Len(items'), Len(dist_data')) THEN "block" ELSE "parse"
  /\ UNCHANGED <<inputVars, memVars, buf_pos_end, plan, blockVars, first_block,
                 bufpos_last_output_block>>

\* A look-ahead: a sequence of items, each chosen with the offsets the ones before it leave.
ItemChoices(p, offs) ==
  {[n |-> 1, c |-> 0]} \cup {[n |-> m[2], c |-> m[1]] : m \in MatchesAt(p, offs)}
After(offs, i) == IF i.n > 1 THEN OffsetsAfter(offs, i.c) ELSE offs
Plan(is) ==
  /\ stage = "parse" /\ buf_pos < buf_pos_end
  /\ plan' = is /\ stage' = "plan"
  /\ UNCHANGED <<inputVars, memVars, buf_pos, buf_pos_end, itemVars, last_matchpos_offset,
                 blockVars, first_block, bufpos_last_output_block>>

PlanFits == ~NearlyFull(Len(items) + Len(plan), Len(dist_data) + Len(plan))

\* block_end while the plan does not fit, and when a direct item has filled a buffer.
MakeRoom(where, type) == /\ stage = "plan" /\ ~PlanFits
                         /\ block_end(where, type)
                         /\ UNCHANGED stage
WriteBlock(where, type) == /\ stage = "block"
                           /\ block_end(where, type)
                           /\ stage' = "parse"

\* The plan's items, then the test whether the first block is to be done again.
Placed(i, p) == IF IsMatch(i) THEN Mat(i.n) ELSE Lit(At(p))
CodesUpTo(is) ==
  LET codes[i \in 0 .. Len(is)] ==
        IF i = 0 THEN <<>>
        ELSE IF IsMatch(is[i]) THEN Append(codes[i - 1], is[i].c) ELSE codes[i - 1] IN
  codes
CodesOf(is) == CodesUpTo(is)[Len(is)]
Commit ==
  /\ stage = "plan" /\ PlanFits
  /\ items' = items \o [i \in 1 .. Len(plan) |-> Placed(plan[i], buf_pos + BytesUpTo(plan)[i - 1])]
  /\ dist_data' = dist_data \o CodesOf(plan)
  /\ buf_pos' = buf_pos + BytesOf(plan)
  /\ last_matchpos_offset' = OffsetsThrough(last_matchpos_offset, CodesOf(plan))
  /\ plan' = <<>>
  /\ stage' = IF RedoDue THEN "redo" ELSE "parse"
  /\ UNCHANGED <<inputVars, memVars, buf_pos_end, blockVars, first_block,
                 bufpos_last_output_block>>

RedoEarly ==
  /\ stage = "redo"
  /\ IF RedoFits THEN Redo /\ stage' = "parse"
     ELSE /\ stage' = "block" /\ first_block' = FALSE
          /\ UNCHANGED <<itemVars, last_matchpos_offset, blockVars, buf_pos,
                         bufpos_last_output_block>>
  /\ UNCHANGED <<inputVars, memVars, buf_pos_end, plan>>

\* The input was short, or the memory is full.
ShortRead == src_at % LZX_CHUNK_SIZE # 0
MemoryFull == buf_pos - base >= W + SECONDARY_PARTITION_SIZE

\* A bug: what the memory still holds is not kept up.
ChunkEndSilent ==
  /\ stage = "parse" /\ buf_pos = buf_pos_end
  /\ \/ /\ ShortRead \/ MemoryFull
        /\ Redo /\ UNCHANGED <<stage, real_mem_window, base>>
     \/ /\ ~(first_block /\ RedoFits) \/ ~(ShortRead \/ MemoryFull)
        /\ stage' = "read"
        /\ first_block' = (first_block /\ ~(ShortRead \/ MemoryFull))
        /\ IF MemoryFull /\ ~ShortRead
           THEN /\ real_mem_window' = [i \in DOMAIN real_mem_window |->
                     IF i < W THEN real_mem_window[i + SECONDARY_PARTITION_SIZE]
                     ELSE real_mem_window[i]]
                /\ base' = base + SECONDARY_PARTITION_SIZE
           ELSE UNCHANGED <<real_mem_window, base>>
        /\ UNCHANGED <<buf_pos, itemVars, last_matchpos_offset, blockVars,
                       bufpos_last_output_block>>
  /\ UNCHANGED <<inputVars, earliest_window_data_remaining, buf_pos_end, plan>>

\* A chunk is over.  The first block is done again when its input was short, or before the
\* second part of a full memory is moved to its start.
ChunkEnd ==
  /\ stage = "parse" /\ buf_pos = buf_pos_end
  /\ earliest_window_data_remaining' = buf_pos - W
  /\ \/ /\ ShortRead \/ MemoryFull
        /\ Redo /\ UNCHANGED <<stage, real_mem_window, base>>
     \/ /\ ~(first_block /\ RedoFits) \/ ~(ShortRead \/ MemoryFull)
        /\ stage' = "read"
        /\ first_block' = (first_block /\ ~(ShortRead \/ MemoryFull))
        /\ IF MemoryFull /\ ~ShortRead
           THEN /\ real_mem_window' = [i \in DOMAIN real_mem_window |->
                     IF i < W THEN real_mem_window[i + SECONDARY_PARTITION_SIZE]
                     ELSE real_mem_window[i]]
                /\ base' = base + SECONDARY_PARTITION_SIZE
           ELSE UNCHANGED <<real_mem_window, base>>
        /\ UNCHANGED <<buf_pos, itemVars, last_matchpos_offset, blockVars,
                       bufpos_last_output_block>>
  /\ UNCHANGED <<inputVars, buf_pos_end, plan>>

Plans == LET one == ItemChoices(buf_pos, last_matchpos_offset)
             next(i) == IF buf_pos + i.n < buf_pos_end /\ LookAhead > 1
                        THEN ItemChoices(buf_pos + i.n, After(last_matchpos_offset, i)) ELSE {} IN
         {<<i>> : i \in one} \cup UNION {{<<i, j>> : j \in next(i)} : i \in one}
BlockTypes == {"verbatim", "aligned", "uncompressed"}

EncoderNext ==
  \/ FirstFlush \/ ReadInput \/ InputOver \/ LastFrame
  \/ Literal \/ Commit \/ RedoEarly \/ ChunkEnd
  \/ \E m \in MatchesAt(buf_pos, last_matchpos_offset) : LongMatch(m[1], m[2])
  \/ \E is \in Plans : Plan(is)
  \/ \E w \in Splits, t \in BlockTypes :
       FlushBlock(w, t) \/ MakeRoom(w, t) \/ WriteBlock(w, t)

EncoderSpec == EncoderInit /\ [][EncoderNext]_encoderVars
-----------------------------------------------------------------------------
\* Reading items from p on: where each begins, with which repeated offsets, and how many
\* distances were taken before it.
Walk(p, offs, is, ds) ==
  LET at[i \in 0 .. Len(is)] ==
        IF i = 0 THEN [pos |-> p, offs |-> offs, dists |-> 0]
        ELSE LET s == at[i - 1] IN
             IF IsMatch(is[i])
             THEN [pos |-> s.pos + is[i].n, offs |-> OffsetsAfter(s.offs, ds[s.dists + 1]),
                   dists |-> s.dists + 1]
             ELSE [s EXCEPT !.pos = @ + 1] IN
  at

\* An item of length n, read there, gives the input's bytes: a byte, or a copy of earlier ones.
Input(p) == src[p - First + 1]
Copies(p, d, n) == /\ d \in 1 .. p - First
                   /\ \A j \in 0 .. n - 1 : Input(p + j) = Input(p + j - d)
Spells(i, s, ds) == IF IsMatch(i) THEN Copies(s.pos, Distance(ds[s.dists + 1], s.offs), i.n)
                    ELSE i.byte = Input(s.pos)

\* The items that are kept back stand for the input from the last block to where the parser
\* is, and leave the repeated offsets it goes on with, when they are read with the offsets
\* that are kept for their start: after a split block, and after the first block was
\* dropped and is parsed again.
ItemsSpell ==
  LET at == Walk(bufpos_at_last_block, repeated_offset_at_literal_zero, items, dist_data) IN
  /\ at[Len(items)] = [pos |-> buf_pos, offs |-> last_matchpos_offset, dists |-> Len(dist_data)]
  /\ \A i \in 1 .. Len(items) : Spells(items[i], at[i - 1], dist_data)

\* Whenever a block may still be written uncompressed, the memory holds its bytes, although
\* they were moved, or overwritten, since they were parsed.
RawDataRemains ==
  bufpos_at_last_block >= earliest_window_data_remaining =>
    \A p \in bufpos_at_last_block .. buf_pos - 1 :
      p - base \in DOMAIN real_mem_window /\ At(p) = src[p - First + 1]
=============================================================================
