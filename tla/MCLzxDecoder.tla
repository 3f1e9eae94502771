---- MODULE MCLzxDecoder ----
(* The decoder never looks at a byte: it is run on literals that are all different, so   *)
(* that a byte taken from the wrong place can never be the right one by chance.          *)
EXTENDS LzxDecoder

MCBytes == 0 .. LZX_CHUNK_SIZE * MaxFrames
MCOffsets == {[i \in 0 .. 2 |-> d] : d \in Dists}

MCNext ==
  \/ \E n \in {1, LZX_CHUNK_SIZE} : Len(dest) < MaxFrames * LZX_CHUNK_SIZE /\ FrameBegin(n)
  \/ FrameRefused
  \/ \E t \in BlockTypes \ {"aligned"}, size \in BlockSizes, offs \in MCOffsets :
       NewBlock(t, size, offs)
  \/ BadBlock
  \/ Literal(Len(hist))
  \/ RawByte(Len(hist))
  \/ \E m \in 0 .. 3, off \in Dists, n \in LZX_MIN_MATCH .. LZX_MAX_MATCH :
       /\ m <= 2 => off = CHOOSE d \in Dists : TRUE
       /\ Reachable(MatchPos(m, off), n) /\ Match(m, off, n)
  \/ Internal
  \/ InputEnds \/ InputEndsSpecial

MCSpec == LzxInit /\ [][MCNext]_lzxVars
====
