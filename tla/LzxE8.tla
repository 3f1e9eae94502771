---- MODULE LzxE8 ----
(***************************************************************************)
(* The translation of the operands of CALL instructions, which the encoder *)
(* does to each chunk before it compresses it (translate_e8 of             *)
(* src/src/lzx_encoder.c) and the decoder undoes on each frame it hands    *)
(* out (translate_e8 of src/src/lzx_decoder.c).  Operands become absolute  *)
(* addresses and back; `at` is instr_pos, counted over all chunks.         *)
(***************************************************************************)
EXTENDS Integers, Sequences

CONSTANTS Base,       \* 256: the values of a byte
          Operand,    \* 4: the bytes of an operand
          E8,         \* the opcode, a byte
          file_size   \* DEFAULT_FILE_XLAT_SIZE

ASSUME E8Sizes == Base \in Nat /\ Operand \in Nat /\ E8 \in 0 .. Base - 1 /\ file_size \in Nat

Guard == Operand + 2    \* 6: the last bytes of a chunk are not looked at
Word == Base ^ Operand
Unsigned(n) == n % Word
Signed(n) == IF Unsigned(n) >= Word \div 2 THEN Unsigned(n) - Word ELSE Unsigned(n)

RECURSIVE Value(_)
Value(bytes) == IF bytes = <<>> THEN 0 ELSE Head(bytes) + Base * Value(Tail(bytes))
BytesOf(n) == [i \in 1 .. Operand |-> (Unsigned(n) \div Base ^ (i - 1)) % Base]

\* What the operand at instruction position `at` becomes: `offset` is a long and
\* `absolute` too, compared as uint32_t once it is known not to be negative.
Encoded(n, at) ==
  LET offset == Signed(n)
      absolute == Signed(at + offset) IN
  IF absolute >= 0 /\ absolute < file_size + at
  THEN IF absolute >= file_size THEN Unsigned(offset - file_size) ELSE absolute
  ELSE n

\* A bug: an offset that leads back behind the file's start is not undone.
DecodedForward(n, at) == IF n < file_size THEN Unsigned(n - at) ELSE n

Decoded(n, at) ==
  IF n < file_size THEN Unsigned(n - at)
  ELSE IF Unsigned(-n) <= at THEN Unsigned(n + file_size)
  ELSE n

\* The scan: over the chunk with its last bytes replaced by E8, from byte i, which is at
\* instruction position `at`; it ends at the first E8 that is not before `end`.
RECURSIVE Scan(_, _, _, _, _)
Scan(mem, i, at, end, encode) ==
  IF mem[i] # E8 THEN Scan(mem, i + 1, at + 1, end, encode)
  ELSE IF at >= end THEN mem
  ELSE LET n == Value(SubSeq(mem, i + 1, i + Operand))
           new == BytesOf(IF encode THEN Encoded(n, at) ELSE Decoded(n, at)) IN
       Scan([j \in DOMAIN mem |-> IF j \in i + 1 .. i + Operand THEN new[j - i] ELSE mem[j]],
            i + Operand + 1, at + Operand + 1, end, encode)

\* Short chunks are only counted.  A first chunk with Guard < Len < Guard + Operand makes
\* end_instr_pos wrap below 0 and the scan leave the chunk: it is not a chunk of Chunks.
translate_e8(mem, at, encode) ==
  LET n == Len(mem)
      guarded == [j \in 1 .. n |-> IF j > n - Guard THEN E8 ELSE mem[j]]
      scanned == Scan(guarded, 1, at, at + n - Guard - Operand, encode) IN
  IF n <= Guard THEN mem
  ELSE SubSeq(scanned, 1, n - Guard) \o SubSeq(mem, n - Guard + 1, n)

InScope(mem, at) == Len(mem) <= Guard \/ at + Len(mem) >= Guard + Operand

=============================================================================
