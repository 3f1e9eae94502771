---- MODULE MCLzxParts ----
(***************************************************************************)
(* The parts of LZX, each on its own: the codings of a stream, encoder     *)
(* against decoder, one job per input, chosen at the start; the bits of a  *)
(* stream; and the search for matches, in three chunks of a window two     *)
(* chunks long.                                                            *)
(***************************************************************************)
EXTENDS LzxTrees, LzxSlots, LzxE8, LzxBits, LzxMatch

VARIABLES job,   \* what is coded
          wire,  \* what the encoder makes of it
          read   \* what the decoder makes of that

RealWindow == 131072
PageSize == 1024

\* Repeated offsets: none yet, one of which may match a byte or two back, or three that differ.
MCOffsets == {<<1, 1, 1>>, <<4, 2, 5>>}

\* Frequencies: Fibonacci numbers make the deepest trees, deeper than MaxLen here.
Freqs == [0 .. 5 -> {0, 1, 3}] \cup [0 .. 6 -> {1, 2, 13}]
         \cup {[s \in 0 .. 6 |-> <<1, 1, 2, 3, 5, 8, 13>>[((s * k) % 7) + 1]] : k \in 1 .. 6}
\* Lengths of a block and of the block before, with runs long enough to be cut.
Lens == [0 .. 5 -> {0, 1, MaxLen}]
        \cup {[i \in 0 .. 15 |-> IF i >= a /\ i < b THEN v ELSE 2] :
                a \in 0 .. 6, b \in 2 .. 16, v \in {0, 2, 3}}
PrevLens(lens) == {[i \in DOMAIN lens |-> 0], [i \in DOMAIN lens |-> (i * i) % (MaxLen + 1)]}

\* Chunks: an opcode, its operand, what follows; after chunks of `at` bytes in all.
Operands == {<<a, b>> : a, b \in 0 .. Base - 1}
Chunks == {pre \o o \o post : pre \in {<<E8>>, <<0, E8>>, <<E8, E8>>}, o \in Operands,
                              post \in {<<>>, <<1, E8, 2>>, <<E8, 0, 1, 2, 3>>}}

Trees == [kind : {"tree"}, freq : Freqs]
Lengths == {[kind |-> "lens", lens |-> l, prev |-> p] : l \in Lens, p \in UNION {PrevLens(x) : x \in Lens}}
Slots == [kind : {"slots"}, page : 0 .. RealWindow \div PageSize - 1]
Calls == [kind : {"e8"}, chunk : Chunks, at : {0, 3, 11, 20}]

Bits == [kind |-> "bits"]
Search == [kind |-> "match"]
Nothing == <<>>

PartsInit == /\ job \in Trees \cup Slots \cup {c \in Calls : InScope(c.chunk, c.at)} \cup {Bits, Search}
                       \cup {j \in Lengths : DOMAIN j.prev = DOMAIN j.lens}
             /\ wire = Nothing /\ read = Nothing
             /\ BitsInit
             /\ MatchInit /\ (job # Search => mem[First] = 0)

\* The encoder's part of a job, then the decoder's part, from what the first left.
Encode == /\ job.kind \in {"tree", "lens", "e8"} /\ wire = Nothing
          /\ wire' = CASE job.kind = "tree" -> make_tree(job.freq)
                       [] job.kind = "lens" -> write_rep_tree(job.lens, job.prev)
                       [] job.kind = "e8" -> translate_e8(job.chunk, job.at, TRUE)
          /\ UNCHANGED <<job, read, bitsVars, matchVars>>
Decode == /\ wire # Nothing /\ read = Nothing
          /\ read' = CASE job.kind = "tree" -> [bits \in 1 .. MaxLen |-> make_table(wire, bits)]
                       [] job.kind = "lens" -> read_rep_tree(wire, job.prev, job.prev)
                       [] job.kind = "e8" -> translate_e8(wire, job.at, FALSE)
          /\ UNCHANGED <<job, wire, bitsVars, matchVars>>

PartsNext == \/ Encode \/ Decode
             \/ job = Bits /\ BitsNext /\ UNCHANGED <<job, wire, read, matchVars>>
             \/ job = Search /\ MatchNext /\ UNCHANGED <<job, wire, read, bitsVars>>
PartsSpec == PartsInit /\ [][PartsNext]_<<job, wire, read, bitsVars, matchVars>>

ReadBack(kind) == job.kind = kind /\ read # Nothing
-----------------------------------------------------------------------------
\* make_tree, for every frequency vector: a complete code within MaxLen, rarer is longer;
\* and make_table, with all, some and none of the codes longer than the table's index,
\* decodes it.
TablesDecode ==
  ReadBack("tree") =>
    /\ TreeIsComplete(job.freq, wire)
    /\ \A bits \in 1 .. MaxLen : TableDecodes(job.freq, wire, read[bits], bits)

\* write_rep_tree and read_rep_tree agree on the lengths and on their repetitions.
LengthsAgree == ReadBack("lens") => LengthsArrive(job.lens, wire, read)

\* Every distance of the window, through each of the decoder's four loops.
PositionsAgree ==
  job.kind = "slots" =>
    \A p \in job.page * PageSize .. (job.page + 1) * PageSize - 1 : PositionArrives(p, RealWindow)

\* The bytes handed out are the bytes put in: the decoder finds the operands where the
\* encoder found them, in a chunk that comes after others too, and undoes each, whether
\* it was an offset back in the file, forward, or one that was left alone.
CallsAgree == ReadBack("e8") => read = job.chunk
====
