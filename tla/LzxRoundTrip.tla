---- MODULE LzxRoundTrip ----
(***************************************************************************)
(* What lzx_compress writes, lzx_decompress reads (XbTool's compressFile   *)
(* and decompressFile, and the kernels of the BIOS).  The decoder gets     *)
(* nothing but the frames, in order; it takes each as soon as it is there, *)
(* which is the same to it as after the last.                              *)
(***************************************************************************)
EXTENDS LzxEncoder

CONSTANTS None         \* what the decoder's window holds where nothing was written

\* The decoder knows the same sizes; the first bytes of its window have room in a chunk.
ASSUME TripSizes == /\ LZX_MIN_MATCH <= LZX_MAX_MATCH /\ LZX_MAX_MATCH < LZX_CHUNK_SIZE
                    /\ LZX_CHUNK_SIZE < LZX_WINDOW_SIZE
                    /\ None \notin 0 .. 255

VARIABLES pc, mem_window, pos, dec_offsets, block, run, match, bytes_to_decode,
          total_decoded, dest, allocated_size, result, intact, hist,
          tokens             \* what is left of the frame that is being read

decoderVars == <<pc, mem_window, pos, dec_offsets, block, run, match, bytes_to_decode,
                 total_decoded, dest, allocated_size, result, intact, hist>>
tripVars == <<encoderVars, decoderVars, tokens>>

Dec == INSTANCE LzxDecoder WITH
         last_matchpos_offset <- dec_offsets,
         Bytes <- 0 .. 255, Truncated <- FALSE,
         BlockSizes <- {}, Dists <- {}, MaxFrames <- 0   \* the frames say what comes

TripInit == EncoderInit /\ Dec!LzxInit /\ tokens = <<>>

\* The encoder goes on when its frames have been read.
Encode == frames = <<>> /\ EncoderNext /\ UNCHANGED <<decoderVars, tokens>>

ReadFrame == /\ frames # <<>> /\ tokens = <<>>
             /\ Dec!FrameBegin(frames[1].size)
             /\ tokens' = frames[1].tokens
             /\ UNCHANGED encoderVars

Offsets(o) == [m \in 0 .. 2 |-> o[m + 1]]
ReadToken ==
  /\ tokens # <<>>
  /\ LET t == tokens[1] IN
     \/ t.kind = "block" /\ Dec!NewBlock(t.type, t.size, Offsets(t.offs))
     \/ t.kind = "literal" /\ Dec!Literal(t.byte)
     \/ t.kind = "match" /\ Dec!Match(t.m, t.off, t.n)
     \/ t.kind = "raw" /\ Dec!RawByte(t.byte)
  /\ tokens' = Tail(tokens)
  /\ UNCHANGED encoderVars

\* Between items the decoder goes on by itself.
Decode == /\ \/ Dec!BeginRun \/ Dec!CopyByte \/ Dec!EndSpecial \/ Dec!EndFast \/ Dec!EndRaw
          /\ UNCHANGED <<encoderVars, tokens>>

FrameRead == /\ frames # <<>> /\ tokens = <<>> /\ Dec!FrameEnd
             /\ frames' = Tail(frames)
             /\ UNCHANGED <<inputVars, stage, memVars, buf_pos, buf_pos_end, plan, itemVars,
                            last_matchpos_offset, repeated_offset_at_literal_zero,
                            bufpos_at_last_block, num_block_splits, frame,
                            input_running_total, first_block, bufpos_last_output_block,
                            tokens>>

AllRead == /\ stage = "done" /\ frames = <<>>
           /\ Dec!SrcEnds
           /\ UNCHANGED <<encoderVars, tokens>>

Over == pc = "done" /\ UNCHANGED tripVars

TripNext == Encode \/ ReadFrame \/ ReadToken \/ Decode \/ FrameRead \/ AllRead \/ Over

\* Both are sequential programs: until the end, where alone there is no step, they take one.
Running == <>[](pc = "done") \/ []<><<TripNext>>_tripVars
TripSpec == TripInit /\ [][TripNext]_tripVars /\ Running
-----------------------------------------------------------------------------
\* The decoder hands out what was compressed: after every frame a part of the input, at the
\* end all of it.  No frame but the last is short, and no item is left over.
Decompresses ==
  /\ pc \in {"frame", "done"} => dest = SubSeq(src, 1, Len(dest))
  /\ pc = "done" => result = 0 /\ dest = src

\* Every input is compressed and decompressed in the end: blocks make room for a look-ahead,
\* and the first block is parsed no more than twice.
Finishes == <>(pc = "done")
=============================================================================
