---- MODULE LzxMatch ----
(***************************************************************************)
(* The match finder of src/src/lzx_encoder.c.  Every position of the       *)
(* window is a node of the tree of its first two bytes; a tree is ordered  *)
(* by the bytes that follow (`right` smaller, `left` greater) and by age   *)
(* (a parent is newer than its children).  A search inserts the position   *)
(* it searches for.  It never compares the bytes it takes to be equal from *)
(* the tree's order, so a tree built on bytes that were not read yet would *)
(* yield matches that are none: the last BREAK_LENGTH nodes of a chunk are *)
(* taken out at its end and put back when the next chunk is there.         *)
(***************************************************************************)
EXTENDS Integers, Sequences, FiniteSets, FiniteSetsExt

CONSTANTS LZX_WINDOW_SIZE, LZX_CHUNK_SIZE,
          LZX_MIN_MATCH, LZX_MAX_MATCH,
          BREAK_LENGTH,
          LongRun,     \* 16: a longer match of the byte before leaves its nodes out
          Reach,       \* how far back a match may start: 4 less than the window
          Bytes,
          OffsetSets,  \* the repeated offsets the parser may come with
          MaxChunks    \* bound on the chunks of an input

ASSUME MatchSizes == /\ LZX_MIN_MATCH = 2 /\ BREAK_LENGTH \in 3 .. LZX_MAX_MATCH
                     /\ LZX_WINDOW_SIZE % LZX_CHUNK_SIZE = 0
                     /\ Reach < LZX_WINDOW_SIZE

VARIABLES mem,         \* mem_window; what is not read yet holds what was there before
          end,         \* the end of the chunk that was read
          buf_pos,
          tree,        \* [root, left, right]: tree_root, left, right
          found,       \* what the last search found: [offs, length, table]
          stage        \* read | reinsert | search | choose | chunk | done

matchVars == <<mem, end, buf_pos, tree, found, stage>>

First == LZX_WINDOW_SIZE          \* init_compression_memory: bufpos = window_size
Last == First + MaxChunks * LZX_CHUNK_SIZE - 1
Positions == First .. Last + LZX_MAX_MATCH
Key(p) == <<mem[p], mem[p + 1]>>
NotFound == [offs |-> <<0, 0, 0>>, length |-> 0, table |-> <<>>]

MatchInit ==
  /\ \E stale \in Bytes : mem = [p \in Positions |-> stale]
  /\ end = First /\ buf_pos = First
  /\ tree = [root |-> [k \in Bytes \X Bytes |-> 0],
             left |-> [p \in Positions |-> 0], right |-> [p \in Positions |-> 0]]
  /\ found = NotFound /\ stage = "read"
-----------------------------------------------------------------------------
Smaller(a, b) == IF a < b THEN a ELSE b
Greater(a, b) == IF a > b THEN a ELSE b

\* How far the bytes at p and q agree, from n on and up to cap.
Agree(p, q, n, cap) ==
  Min({i \in n .. cap : i = cap \/ mem[p + i] # mem[q + i]})

\* *small_ptr = v: a slot is a side of a node.
Put(t, slot, v) == [t EXCEPT ![slot.side][slot.node] = v]
Slot(side, node) == [side |-> side, node |-> node]

\* matchpos_table[match_length + 1 .. same] = distance + 2
Longer(table, same, d) ==
  [n \in 2 .. Greater(same, Len(table) + 1) |-> IF n <= Len(table) + 1 THEN table[n - 1] ELSE d + 2]
AsTable(f) == [i \in 1 .. Cardinality(DOMAIN f) |-> f[i + 1]]   \* entry i is for length i + 1

\* The descent shared by binary_search_findmatch (cap = LZX_MAX_MATCH) and
\* quick_insert_bsearch_findmatch (cap = BREAK_LENGTH): p becomes the root, what is met
\* on the way is hung below it, and a node that agrees for BREAK_LENGTH bytes is dropped.
RECURSIVE Descend(_, _, _, _, _)
Descend(t, p, oldest, cap, w) ==
  LET same == Agree(w.ptr, p, Smaller(w.small_len, w.big_len), cap)
      table == IF same > Len(w.table) + 1 THEN AsTable(Longer(w.table, same, p - w.ptr))
               ELSE w.table IN
  IF w.ptr <= oldest
  THEN [tree |-> Put(Put(t, w.small, 0), w.big, 0), table |-> w.table]
  ELSE IF same >= BREAK_LENGTH
  THEN [tree |-> Put(Put(t, w.small, t.left[w.ptr]), w.big, t.right[w.ptr]), table |-> table]
  ELSE IF mem[w.ptr + same] < mem[p + same]
  THEN Descend(Put(t, w.big, w.ptr), p, oldest, cap,
               [w EXCEPT !.ptr = t.left[w.ptr], !.big = Slot("left", w.ptr),
                         !.big_len = Greater(@, same), !.table = table])
  ELSE Descend(Put(t, w.small, w.ptr), p, oldest, cap,
               [w EXCEPT !.ptr = t.right[w.ptr], !.small = Slot("right", w.ptr),
                         !.small_len = Greater(@, same), !.table = table])

\* Insert p; nodes that are not newer than `oldest` are out of reach.
Insert(t, p, oldest, cap) ==
  LET ptr == t.root[Key(p)]
      rooted == [t EXCEPT !.root[Key(p)] = p] IN
  IF ptr <= oldest
  THEN [tree |-> [rooted EXCEPT !.left[p] = 0, !.right[p] = 0], table |-> <<>>]
  ELSE Descend(rooted, p, oldest, cap,
               [ptr |-> ptr, small |-> Slot("left", p), big |-> Slot("right", p),
                small_len |-> 2, big_len |-> 2, table |-> <<p - ptr + 2>>])

quick_insert(t, p, oldest) == Insert(t, p, oldest, BREAK_LENGTH).tree

\* opt_encode_top puts the nodes of a chunk's end back with one bound for all of them, and
\* those of a match each with its own.
RECURSIVE InsertAll(_, _, _, _)
InsertAll(t, p, to, oldest) ==
  IF p > to THEN t ELSE InsertAll(quick_insert(t, p, oldest), p + 1, to, oldest)
RECURSIVE InsertEach(_, _, _)
InsertEach(t, p, to) ==
  IF p > to THEN t ELSE InsertEach(quick_insert(t, p, p - Reach), p + 1, to)

\* binary_search_remove_node: the root p of a tree goes, its subtrees are merged by age.
RECURSIVE Merge(_, _, _, _, _)
Merge(t, slot, l, r, oldest) ==
  LET newest == Greater(l, r) IN
  IF newest <= oldest THEN Put(t, slot, 0)
  ELSE IF l > r THEN Merge(Put(t, slot, l), Slot("right", l), t.right[l], r, oldest)
       ELSE Merge(Put(t, slot, r), Slot("left", r), l, t.left[r], oldest)

remove_node(t, p, oldest) ==
  IF t.root[Key(p)] # p THEN t
  ELSE IF p <= oldest THEN [t EXCEPT !.root[Key(p)] = 0, !.left[p] = 0, !.right[p] = 0]
  ELSE Merge(t, Slot("root", Key(p)), t.left[p], t.right[p], oldest)

\* A bug: the nodes of a chunk's end stay.
RemoveNone(t, p, n, oldest) == t

\* A bug: fewer nodes are taken out.
RECURSIVE RemoveFew(_, _, _, _)
RemoveFew(t, p, n, oldest) ==
  IF n <= 2 THEN t ELSE RemoveFew(remove_node(t, p, oldest), p - 1, n - 1, oldest)
RECURSIVE RemoveFrom(_, _, _, _)
RemoveFrom(t, p, n, oldest) ==
  IF n = 0 THEN t ELSE RemoveFrom(remove_node(t, p, oldest), p - 1, n - 1, oldest)
-----------------------------------------------------------------------------
\* The end of binary_search_findmatch: what a repeated offset matches too is said with it,
\* in the order of the offsets, and the chunk's last byte is kept out.
Repeated(p, d, length) == Min({i \in 0 .. length : i = length \/ mem[p + i] # mem[p - d + i]})
WithOffsets(p, offs, table) ==
  LET length == Len(table) + 1
      r1 == Repeated(p, offs[1], length)
      r2 == IF r1 > BREAK_LENGTH THEN 0 ELSE Repeated(p, offs[2], length)
      r3 == IF r1 > BREAK_LENGTH THEN 0 ELSE Repeated(p, offs[3], length) IN
  [i \in DOMAIN table |-> IF i + 1 <= r1 THEN 0 ELSE IF i + 1 <= r2 THEN 1
                          ELSE IF i + 1 <= r3 THEN 2 ELSE table[i]]
ToBoundary(p) == (LZX_CHUNK_SIZE - 1) - (p % LZX_CHUNK_SIZE)
Usable(p, table) ==
  LET n == Smaller(Len(table) + 1, ToBoundary(p)) IN
  IF table = <<>> \/ n < LZX_MIN_MATCH THEN 0 ELSE n
-----------------------------------------------------------------------------
(* opt_encode_top, as far as it moves the window                           *)

\* read_input: only the last chunk is short.
ReadChunk(bytes) ==
  /\ stage = "read" /\ end + Len(bytes) <= Last + 1
  /\ mem' = [p \in Positions |-> IF p >= end /\ p < end + Len(bytes) THEN bytes[p - end + 1]
                                 ELSE mem[p]]
  /\ end' = end + Len(bytes)
  /\ stage' = IF end = First THEN "search" ELSE "reinsert"
  /\ UNCHANGED <<buf_pos, tree, found>>

Reinsert == /\ stage = "reinsert"
            /\ tree' = InsertAll(tree, buf_pos - BREAK_LENGTH, buf_pos - 1, buf_pos - Reach)
            /\ stage' = "search"
            /\ UNCHANGED <<mem, end, buf_pos, found>>

\* The distances of the parser's repeated offsets: of matches it has made.
Known(offs) == \A i \in 1 .. 3 : offs[i] <= Greater(buf_pos - First, 1)

binary_search_findmatch(offs) ==
  LET in == Insert(tree, buf_pos, buf_pos - Reach, LZX_MAX_MATCH)
      table == WithOffsets(buf_pos, offs, in.table) IN
  /\ stage = "search" /\ Known(offs)
  /\ tree' = in.tree
  /\ found' = [offs |-> offs, length |-> Usable(buf_pos, table), table |-> table]
  /\ stage' = "choose"
  /\ UNCHANGED <<mem, end, buf_pos>>

\* The parser goes on by one byte, or by a match whose positions it inserts unsearched;
\* the nodes inside a long run are left out.
Advance(n, t) == /\ tree' = t
                 /\ buf_pos' = buf_pos + n
                 /\ stage' = IF buf_pos + n = end THEN "chunk" ELSE "search"
                 /\ found' = NotFound
                 /\ UNCHANGED <<mem, end>>
Step == stage = "choose" /\ Advance(1, tree)
Take(n) ==
  /\ stage = "choose" /\ n <= found.length /\ buf_pos + n <= end
  /\ IF found.table[n - 1] = 3 /\ n > LongRun
     THEN Advance(n, InsertAll(tree, buf_pos + 1, buf_pos + 1, buf_pos + 1 - Reach))
     ELSE Advance(n, InsertEach(tree, buf_pos + 1, buf_pos + n - 1))

\* A full chunk is over; a short one was the last.
ChunkEnd == /\ stage = "chunk"
            /\ \/ /\ (end - First) % LZX_CHUNK_SIZE = 0
                  /\ tree' = RemoveFrom(tree, buf_pos - 1, BREAK_LENGTH, buf_pos - (Reach - BREAK_LENGTH))
                  /\ stage' = "read"
               \/ /\ (end - First) % LZX_CHUNK_SIZE # 0
                  /\ stage' = "done" /\ UNCHANGED tree
            /\ UNCHANGED <<mem, end, buf_pos, found>>

ChunkSizes == {1, LZX_CHUNK_SIZE}
MatchNext == \/ \E n \in ChunkSizes : \E bytes \in [1 .. n -> Bytes] : ReadChunk(bytes)
             \/ Reinsert
             \/ \E offs \in OffsetSets : binary_search_findmatch(offs)
             \/ Step
             \/ \E n \in LZX_MIN_MATCH .. LZX_MAX_MATCH : Take(n)
             \/ ChunkEnd
MatchSpec == MatchInit /\ [][MatchNext]_matchVars
-----------------------------------------------------------------------------
\* The distance that an entry of the table stands for.
Distance(c, offs) == IF c <= 2 THEN offs[c + 1] ELSE c - 2

\* Every match that is offered is one: the bytes that many places back are the same, as
\* far as the input has been read, and they lie in the window and in the file; although
\* the search takes bytes to be equal from the order of a tree that was built before.
\* No match crosses the end of its chunk.
MatchesAreReal ==
  \A n \in LZX_MIN_MATCH .. found.length :
    LET d == Distance(found.table[n - 1], found.offs) IN
    /\ d \in 1 .. Reach /\ buf_pos - d >= First
    /\ \A i \in 0 .. n - 1 : buf_pos + i < end => mem[buf_pos + i] = mem[buf_pos + i - d]
    /\ (buf_pos + n - 1) \div LZX_CHUNK_SIZE = buf_pos \div LZX_CHUNK_SIZE

\* The nodes below p that are still in reach, p included; not past one that is no older.
RECURSIVE Below(_, _)
Below(p, oldest) ==
  IF p <= oldest THEN {}
  ELSE {p} \cup UNION {IF q < p THEN Below(q, oldest) ELSE {q} : q \in {tree.left[p], tree.right[p]}}

\* p's string is before q's, in their first BREAK_LENGTH bytes.
Before(p, q) == LET i == Agree(p, q, 0, BREAK_LENGTH) IN i < BREAK_LENGTH /\ mem[p + i] < mem[q + i]

\* While a search may come, each tree holds positions with the same first two bytes, a
\* node is newer than those below it, greater strings hang to its left and smaller ones
\* to its right, for all the bytes that order a tree: also after a chunk's end, when the
\* nodes that were compared with bytes not read yet are taken out and put back.
TreesOrdered ==
  stage \in {"search", "read"} =>
    \A k \in Bytes \X Bytes :
      LET oldest == buf_pos - Reach IN
      \A p \in Below(tree.root[k], oldest) :
        /\ p + BREAK_LENGTH <= end => Key(p) = k
        /\ \A q \in Below(tree.left[p], oldest) :
             q < p /\ (p + BREAK_LENGTH <= end => Before(p, q))
        /\ \A q \in Below(tree.right[p], oldest) :
             q < p /\ (p + BREAK_LENGTH <= end => Before(q, p))
=============================================================================
