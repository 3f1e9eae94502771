---- MODULE LzxTrees ----
(***************************************************************************)
(* The prefix codes of a block, on both sides: make_tree of                *)
(* src/src/lzx_encoder.c turns frequencies into code lengths and codes,    *)
(* make_table of src/src/lzx_decoder.c turns the lengths back into a       *)
(* decoding table, and write_rep_tree/read_rep_tree carry the lengths, as  *)
(* differences from those of the block before.  Symbols are 0 .. n-1.      *)
(***************************************************************************)
EXTENDS Integers, Sequences, FiniteSets, FiniteSetsExt, TLC
LOCAL INSTANCE SequencesExt

CONSTANTS MaxLen,       \* 16: the length of the longest code
          REP_MIN,      \* TREE_ENC_REP_MIN
          ZERO_FIRST,   \* TREE_ENC_REP_ZERO_FIRST
          ZERO_SECOND,  \* TREE_ENC_REP_ZERO_SECOND
          SAME_FIRST    \* TREE_ENC_REP_SAME_FIRST

ASSUME TreeSizes == /\ MaxLen \in Nat \ {0}
                    /\ {REP_MIN, ZERO_FIRST, ZERO_SECOND, SAME_FIRST} \subseteq Nat \ {0}

Symbols(f) == DOMAIN f
Count(lens, l) == Cardinality({s \in Symbols(lens) : lens[s] = l})
-----------------------------------------------------------------------------
(* The encoder: make_tree                                                  *)

\* down_heap: k sinks from slot i below the nodes that are rarer.
RECURSIVE Sink(_, _, _, _, _)
Sink(heap, size, freq, i, k) ==
  LET c == 2 * i
      j == IF c < size /\ freq[heap[c]] > freq[heap[c + 1]] THEN c + 1 ELSE c IN
  IF c <= size /\ freq[k] > freq[heap[j]]
  THEN Sink([heap EXCEPT ![i] = heap[j]], size, freq, j, k)
  ELSE [heap EXCEPT ![i] = k]
down_heap(heap, size, freq, i) == Sink(heap, size, freq, i, heap[i])

\* The first loop of make_tree2.
RECURSIVE Heapify(_, _, _)
Heapify(heap, freq, i) ==
  IF i = 0 THEN heap ELSE Heapify(down_heap(heap, Len(heap), freq, i), freq, i - 1)

\* The second: the two rarest nodes get a parent, until one node is left; `sorted`
\* lists the symbols as they leave the heap.
RECURSIVE Join(_, _, _, _, _)
Join(heap, size, freq, child, sorted) ==
  LET i == heap[1]
      rest == down_heap([heap EXCEPT ![1] = heap[size]], size - 1, freq, 1)
      j == rest[1]
      k == Cardinality(DOMAIN freq)
      joined == freq @@ (k :> freq[i] + freq[j])
      next == down_heap([rest EXCEPT ![1] = k], size - 1, joined, 1)
      leaves == sorted \o SelectSeq(<<i, j>>, LAMBDA x : x \notin DOMAIN child)
      tree == child @@ (k :> <<i, j>>) IN
  IF size > 2 THEN Join(next, size - 1, joined, tree, leaves)
  ELSE [child |-> tree, root |-> k, sorted |-> leaves]

\* count_len: how many symbols lie at each depth, those below MaxLen counted there.
RECURSIVE count_len(_, _, _, _)
count_len(cnt, child, node, depth) ==
  IF node \notin DOMAIN child THEN [cnt EXCEPT ![IF depth < MaxLen THEN depth ELSE MaxLen] = @ + 1]
  ELSE count_len(count_len(cnt, child, child[node][1], depth + 1), child, child[node][2], depth + 1)

\* The loop of make_len that repairs a tree that is too deep: `cum` is a 16 bit sum.
RECURSIVE Shorten(_, _)
Shorten(cnt, cum) ==
  IF cum = 0 THEN cnt
  ELSE LET i == Max({l \in 1 .. MaxLen - 1 : cnt[l] > 0}) IN
       Shorten([cnt EXCEPT ![MaxLen] = @ - 1, ![i] = @ - 1, ![i + 1] = @ + 2], cum - 1)

\* make_len: the rarest symbols get the longest codes.
make_len(tree) ==
  LET deep == count_len([l \in 0 .. MaxLen |-> 0], tree.child, tree.root, 0)
      cum == MapThenSumSet(LAMBDA l : deep[l] * 2 ^ (MaxLen - l), 1 .. MaxLen) % 2 ^ MaxLen
      cnt == Shorten(deep, cum)
      AtLeast(l) == MapThenSumSet(LAMBDA m : cnt[m], l .. MaxLen) IN
  [p \in 1 .. Len(tree.sorted) |-> Max({l \in 1 .. MaxLen : AtLeast(l) >= p})]

\* make_tree: the lengths; a code of one symbol gets a second one first (RedoTree).
RECURSIVE make_tree(_)
make_tree(freq) ==
  LET used == SetToSortSeq({s \in Symbols(freq) : freq[s] > 0}, <) IN
  CASE Len(used) = 0 -> [s \in Symbols(freq) |-> 0]
    [] Len(used) = 1 -> make_tree([freq EXCEPT ![IF used[1] = 0 THEN 1 ELSE 0] = 1])
    [] OTHER ->
       LET tree == Join(Heapify(used, freq, Len(used) \div 2), Len(used), freq, <<>>, <<>>)
           lens == make_len(tree) IN
       [s \in Symbols(freq) |->
          IF \E p \in DOMAIN lens : tree.sorted[p] = s
          THEN lens[CHOOSE p \in DOMAIN lens : tree.sorted[p] = s] ELSE 0]

\* make_code: the first code of each length, and the symbols of a length in order.
FirstCode(lens) ==
  LET f[l \in 1 .. MaxLen] == IF l = 1 THEN 0 ELSE 2 * (f[l - 1] + Count(lens, l - 1)) IN f
make_code(lens, s) ==
  FirstCode(lens)[lens[s]] + Cardinality({t \in 0 .. s - 1 : lens[t] = lens[s]})

\* The bits of a code, first bit first.
CodeBits(code, len) == [i \in 1 .. len |-> (code \div 2 ^ (len - i)) % 2]
-----------------------------------------------------------------------------
(* The decoder: make_table                                                 *)

\* start[l] before a symbol has been placed, in units of the longest code; the sum
\* that make_table compares with 65536 is start[MaxLen + 1].
Start(lens) ==
  LET f[l \in 1 .. MaxLen + 1] ==
        IF l = 1 THEN 0 ELSE f[l - 1] + Count(lens, l - 1) * 2 ^ (MaxLen - l + 1) IN f

\* A bug: a code is placed without the symbols of its length in front of it.
PlacedFirst(lens, s) == Start(lens)[lens[s]]

\* The code of a symbol, left-justified: start[len] after the symbols before it.
Placed(lens, s) ==
  Start(lens)[lens[s]]
    + Cardinality({t \in 0 .. s - 1 : lens[t] = lens[s]}) * 2 ^ (MaxLen - lens[s])

\* A long code: a path of nodes from the table's entry, made where there is none yet.
\* cell[i] with i < 2^bits is table[i], cell[2^bits + i] is leftright[i].
RECURSIVE Path(_, _, _, _, _)
Path(t, p, code, left, bits) ==
  IF left = 0 THEN [t EXCEPT !.cell = (p :> code.symbol) @@ @]
  ELSE LET node == 2 ^ bits + 2 * t.avail
           made == IF t.cell[p] = 0
                   THEN [cell |-> (p :> -t.avail) @@ (node :> 0) @@ (node + 1 :> 0) @@ t.cell,
                         avail |-> t.avail + 1]
                   ELSE t
           bit == (code.placed \div 2 ^ (MaxLen - code.len + left - 1)) % 2 IN
       Path(made, 2 ^ bits + 2 * (-made.cell[p]) + bit, code, left - 1, bits)

RECURSIVE Fill(_, _, _, _)
Fill(t, lens, s, bits) ==
  IF s \notin Symbols(lens) THEN t
  ELSE IF lens[s] = 0 THEN Fill(t, lens, s + 1, bits)
  ELSE LET placed == Placed(lens, s)
           entry == placed \div 2 ^ (MaxLen - bits)
           span == entry .. entry + 2 ^ (bits - lens[s]) - 1 IN
       IF lens[s] <= bits
       THEN Fill([t EXCEPT !.cell = [i \in span |-> s] @@ @], lens, s + 1, bits)
       ELSE Fill(Path(t, entry, [symbol |-> s, len |-> lens[s], placed |-> placed],
                      lens[s] - bits, bits), lens, s + 1, bits)

\* make_table accepts a complete code, and the empty one.
TableAccepts(lens) == Start(lens)[MaxLen + 1] \in {0, 2 ^ MaxLen}
make_table(lens, bits) ==
  Fill([cell |-> [i \in 0 .. 2 ^ bits - 1 |-> 0], avail |-> Cardinality(Symbols(lens))],
       lens, 0, bits).cell

\* make_table_8bit sums in 16 bits, so a complete code leaves 0; it has no long codes.
Table8Accepts(lens) == Start(lens)[MaxLen + 1] % 2 ^ MaxLen = 0

\* DECODE_MAIN_TREE, DECODE_LEN_TREE and decode_small: the table's entry, then bit by bit.
RECURSIVE Walk(_, _, _, _)
Walk(cell, x, word, bits) ==
  IF x >= 0 THEN x
  ELSE Walk(cell, cell[2 ^ bits + 2 * (-x) + word[1]], Tail(word), bits)
Number(word) == LET f[i \in 0 .. Len(word)] == IF i = 0 THEN 0 ELSE 2 * f[i - 1] + word[i]
                IN f[Len(word)]
DecodeSymbol(cell, word, bits) ==
  Walk(cell, cell[Number(SubSeq(word, 1, bits))], SubSeq(word, bits + 1, Len(word)), bits)

\* What a decoder sees when s was written: the code, and other bits after it.
Seen(lens, s, after) ==
  CodeBits(make_code(lens, s), lens[s]) \o [i \in 1 .. MaxLen - lens[s] |-> after]

\* Whatever the frequencies, the lengths make_tree chooses are those of a complete code
\* that fits MaxLen bits, also when the Huffman tree is deeper, and a symbol that occurs
\* more often never has a longer code than one that occurs less.
TreeIsComplete(freq, lens) ==
  /\ TableAccepts(lens) /\ Table8Accepts(lens)
  /\ \A s \in Symbols(freq) : lens[s] <= MaxLen /\ (freq[s] > 0 => lens[s] > 0)
  /\ \A s, t \in Symbols(freq) : freq[s] > freq[t] /\ freq[t] > 0 => lens[s] <= lens[t]

\* The decoder's table, short and long codes alike, takes every code of the encoder to
\* the symbol it was written for, whatever bits follow.
TableDecodes(freq, lens, cell, bits) ==
  \A s \in Symbols(freq), after \in 0 .. 1 :
    freq[s] > 0 => DecodeSymbol(cell, Seen(lens, s, after), bits) = s
-----------------------------------------------------------------------------
(* The lengths, as write_rep_tree writes and read_rep_tree reads them      *)

Modulus == MaxLen + 1
\* Symbols of the small tree: the differences 0 .. MaxLen, and three kinds of repetition.
FewZeros == MaxLen + 1    \* 17
ManyZeros == MaxLen + 2   \* 18
Same == MaxLen + 3        \* 19

Delta(prev, len) == (prev - len + Modulus) % Modulus
Capped(n, m) == IF n > m THEN m ELSE n

\* How many of the lengths after i are equal to it; the sentinel stops at the end.
Following(lens, i) ==
  Cardinality({j \in Symbols(lens) : j > i /\ \A k \in i .. j : lens[k] = lens[i]})

RECURSIVE RepFrom(_, _, _)
RepFrom(lens, prev, i) ==
  LET same == Following(lens, i)
      zeros == Capped(same, REP_MIN + ZERO_FIRST + ZERO_SECOND - 1)
      equal == Capped(same, REP_MIN + SAME_FIRST - 1)
      delta == Delta(prev[i], lens[i])
      Plain(k) == [symbol |-> k, extra |-> 0] IN
  IF i \notin Symbols(lens) THEN <<>>
  ELSE IF same < REP_MIN THEN <<Plain(delta)>> \o RepFrom(lens, prev, i + 1)
  ELSE IF lens[i] # 0
       THEN <<[symbol |-> Same, extra |-> equal - REP_MIN], Plain(delta)>>
              \o RepFrom(lens, prev, i + equal)
  ELSE IF zeros <= REP_MIN + ZERO_FIRST - 1
       THEN <<[symbol |-> FewZeros, extra |-> zeros - REP_MIN]>> \o RepFrom(lens, prev, i + zeros)
       ELSE <<[symbol |-> ManyZeros, extra |-> zeros - (REP_MIN + ZERO_FIRST)]>>
              \o RepFrom(lens, prev, i + zeros)
write_rep_tree(lens, prev) == RepFrom(lens, prev, 0)

\* A bug: a repetition leaves its last length out.
RunShorter(len, i, n, value) ==
  [j \in DOMAIN len |-> IF j >= i /\ j < i + n - 1 THEN value ELSE len[j]]

\* The decoder writes `value` over as many lengths as fit.
Run(len, i, n, value) ==
  [j \in DOMAIN len |-> IF j >= i /\ j < i + n THEN value ELSE len[j]]

RECURSIVE ReadFrom(_, _, _, _)
ReadFrom(tokens, prev, len, i) ==
  LET t == Head(tokens)
      Value(k) == (prev[i] - k + Modulus) % Modulus IN
  IF i \notin DOMAIN len \/ tokens = <<>> THEN len
  ELSE CASE t.symbol = FewZeros ->
              ReadFrom(Tail(tokens), prev, Run(len, i, t.extra + REP_MIN, 0), i + t.extra + REP_MIN)
         [] t.symbol = ManyZeros ->
              LET n == t.extra + REP_MIN + ZERO_FIRST IN
              ReadFrom(Tail(tokens), prev, Run(len, i, n, 0), i + n)
         [] t.symbol = Same ->
              LET n == t.extra + REP_MIN IN
              ReadFrom(Tail(Tail(tokens)), prev, Run(len, i, n, Value(tokens[2].symbol)), i + n)
         [] OTHER -> ReadFrom(Tail(tokens), prev, Run(len, i, 1, Value(t.symbol)), i + 1)
read_rep_tree(tokens, prev, len) == ReadFrom(tokens, prev, len, 0)

\* The lengths a block announces are the lengths its reader gets, from the same lengths
\* of the block before, though both sides cut them into repetitions; and each repetition
\* fits the extra bits it is written with.
LengthsArrive(lens, tokens, read) ==
  /\ read = lens
  /\ \A i \in DOMAIN tokens :
       tokens[i].extra < CASE tokens[i].symbol = FewZeros -> ZERO_FIRST
                           [] tokens[i].symbol = ManyZeros -> ZERO_SECOND
                           [] tokens[i].symbol = Same -> SAME_FIRST
                           [] OTHER -> 1
=============================================================================
