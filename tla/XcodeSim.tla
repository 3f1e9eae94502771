----------------------------- MODULE XcodeSim -----------------------------
(***************************************************************************)
(* -x86-encode and -xcode-sim: machine code becomes xcodes that write it   *)
(* to RAM, word by word; those xcodes come to be in a table, and the       *)
(* simulator collects what a table writes to a window of the memory, which *)
(* it then gives out, with a length that is 0 (code_size).                 *)
(***************************************************************************)
EXTENDS Integers, Sequences

CONSTANTS
  WordSize,      \* bytes of a word: 4
  Wrap,          \* 2^32
  AllocXcodes,   \* how many xcodes the buffer grows by: 10
  Codes,         \* the machine codes, as sequences of bytes
  Bases,         \* values of -base for -x86-encode
  Others,        \* xcodes in front of the encoded ones in the table, as sequences
  Offsets,       \* values of -offset; 0 is no switch
  SimSizes       \* values of -simsize; validateArgs takes whole numbers of words

\* What is read or written in front of the encoded xcodes; its data is a word.
XCODE == [opcode : {"mem_write", "other"}, addr : 0..(Wrap - 1), data : [1..WordSize -> Nat]]

\* Code and tables are in memory: they take less than there is.
ASSUME SimAssumption ==
  /\ WordSize \in Nat \ {0} /\ AllocXcodes \in Nat \ {0} /\ Wrap \in Nat
  /\ \A c \in Codes : c \in Seq(Nat) /\ Len(c) + WordSize < Wrap
  /\ \A o \in Others : o \in Seq(XCODE) /\ \A c \in Codes : Len(o) + Len(c) + 1 < Wrap
  /\ Bases \subseteq 0..(Wrap - 1) /\ Offsets \subseteq 0..(Wrap - 1)
  /\ \A n \in SimSizes : n \in Nat \ {0} /\ n % WordSize = 0

VARIABLES
  code, base,    \* what -x86-encode is called with
  i,             \* how far it has come in the code
  buffer,        \* the xcodes
  nSize,         \* how many there is room for
  pc,
  table,         \* the table -xcode-sim reads, with an exit xcode
  offset, mem_size,
  interp,
  mem_sim,       \* the memory; bytes behind it that were written, too
  hasMemChanges_total,
  dump           \* what was dumped; NoDump before and when nothing has changed

encVars == <<code, base, i, buffer, nSize>>
vars == <<encVars, pc, table, offset, mem_size, interp, mem_sim, hasMemChanges_total, dump>>

NoDump == [none |-> TRUE]

\* An XCODE's data is a word, a sequence of bytes.  The table has one XCODE per index.
Interp == INSTANCE XcodeInterp WITH
            XcodeSize <- 1, Stray <- {}, size <- Len(table),
            xcodes <- [o \in 0..(Len(table) - 1) |-> table[o + 1]]

Zeros(n) == [a \in 0..(n - 1) |-> 0]

SimInit ==
  /\ code \in Codes /\ base \in Bases
  /\ i = 0 /\ buffer = <<>> /\ nSize = AllocXcodes
  /\ pc = "encode"
  /\ table = <<>> /\ offset = 0 /\ mem_size = 0
  /\ interp = Interp!reset
  /\ mem_sim = Zeros(0) /\ hasMemChanges_total = FALSE /\ dump = NoDump

-----------------------------------------------------------------------------
(* encodeX86AsMemWrites.                                                   *)
\* A bug: what the last word has too much comes from the word before.
WordFromEnd(at) ==
  LET from == IF at + WordSize > Len(code) THEN Len(code) - WordSize ELSE at
  IN [b \in 1..WordSize |-> IF from + b \in DOMAIN code THEN code[from + b] ELSE 0]

\* The word of the code at an index, with zeros where the code has ended.
WordAt(at) == [b \in 1..WordSize |-> IF at + b <= Len(code) THEN code[at + b] ELSE 0]

Grows == Len(buffer) + 1 > nSize

EncodeWord ==
  /\ pc = "encode" /\ i < Len(code)
  /\ nSize' = IF Grows THEN nSize + AllocXcodes ELSE nSize
  /\ buffer' = Append(buffer, [opcode |-> "mem_write", addr |-> (base + i) % Wrap, data |-> WordAt(i)])
  /\ i' = i + WordSize
  /\ UNCHANGED <<code, base, pc, table, offset, mem_size, interp, mem_sim, hasMemChanges_total, dump>>

\* The xcodes are in a table behind others, and it is simulated.
StartSim ==
  /\ pc = "encode" /\ i >= Len(code)
  /\ \E o \in Others : table' = o \o buffer \o <<[opcode |-> "exit", addr |-> 0, data |-> <<>>]>>
  /\ offset' \in Offsets /\ mem_size' \in SimSizes
  /\ mem_sim' = Zeros(mem_size')
  /\ interp' = Interp!reset
  /\ pc' = "sim"
  /\ UNCHANGED <<encVars, hasMemChanges_total, dump>>

-----------------------------------------------------------------------------
(* simulateXcodes.                                                         *)
\* A bug: an address that is a window behind is in range.
InRangeOrEnd(xc) ==
  xc.opcode = "mem_write" /\ xc.addr >= offset /\ xc.addr - offset <= mem_size

InRange(xc) ==
  xc.opcode = "mem_write" /\ xc.addr >= offset /\ xc.addr - offset < mem_size

\* memcpy of a word, which may end behind the memory.
Written(at, word) ==
  [a \in DOMAIN mem_sim \cup at..(at + WordSize - 1) |->
     IF a - at + 1 \in DOMAIN word THEN word[a - at + 1] ELSE mem_sim[a]]

SimXcode ==
  /\ pc = "sim" /\ Interp!HasNext(interp)
  /\ \E xc \in Interp!XcodesAt(interp.offset) :
       /\ interp' = Interp!AfterNext(interp, xc)
       /\ IF InRange(xc)
          THEN /\ mem_sim' = Written(xc.addr - offset, xc.data)
               /\ hasMemChanges_total' = TRUE
          ELSE UNCHANGED <<mem_sim, hasMemChanges_total>>
  /\ UNCHANGED <<encVars, pc, table, offset, mem_size, dump>>

\* code_size, the length of the dump, is 0 and nothing changes it.
code_size == 0

SimEnd ==
  /\ pc = "sim" /\ ~Interp!HasNext(interp)
  /\ dump' = IF hasMemChanges_total THEN [a \in 0..(code_size - 1) |-> mem_sim[a]] ELSE NoDump
  /\ pc' = "done"
  /\ UNCHANGED <<encVars, table, offset, mem_size, interp, mem_sim, hasMemChanges_total>>

SimNext == EncodeWord \/ StartSim \/ SimXcode \/ SimEnd
SimSpec == SimInit /\ [][SimNext]_vars

-----------------------------------------------------------------------------
SimTypeOK ==
  /\ i \in 0..(Len(code) + WordSize - 1)
  /\ nSize \in Nat
  /\ \A x \in DOMAIN buffer : buffer[x].data \in [1..WordSize -> Nat]
  /\ pc \in {"encode", "sim", "done"}
  /\ interp \in Interp!INTERP
  /\ 0..(mem_size - 1) \subseteq DOMAIN mem_sim
  /\ \A a \in DOMAIN mem_sim : mem_sim[a] \in Nat
  /\ hasMemChanges_total \in BOOLEAN

\* The window begins a whole number of words from every place that is written.
Aligned ==
  \A x \in DOMAIN table :
    table[x].opcode = "mem_write" => (table[x].addr - offset) % WordSize = 0

\* The xcodes that -x86-encode makes do write the machine code: when the table they are in
\* was run, here by simulateXcodes on its mem_sim, the memory at their addresses is the
\* code, as far as it is in the window and below the end of all addresses, and zeros to
\* the end of its last word, whatever else had been written there before; and the buffer
\* of xcodes was grown in time.  This says nothing of the dump.
EncodedWritesCode ==
  /\ SimTypeOK
  /\ Len(buffer) <= nSize
  /\ pc = "done" /\ Aligned =>
    \A a \in 0..(mem_size - 1) : offset + a < Wrap =>
      LET c == offset + a - base + 1
      IN /\ c \in DOMAIN code => mem_sim[a] = code[c]
         /\ c \in (Len(code) + 1)..i => mem_sim[a] = 0

\* The examples of -xcode-sim in src/README.md dump the code that the xcodes write, all 26
\* and 7 bytes of it: code at the window's begin that fits into the window is dumped.
DumpShowsCode ==
  pc = "done" /\ Aligned /\ base = offset /\ Len(code) \in 1..mem_size /\ base + Len(code) <= Wrap =>
    \A c \in DOMAIN code : c - 1 \in DOMAIN dump /\ dump[c - 1] = code[c]

\* No word that is collected ends behind the memory, when the window is aligned.
AlignedStaysInside == Aligned => DOMAIN mem_sim = 0..(mem_size - 1)
=============================================================================
