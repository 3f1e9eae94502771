--------------------------- MODULE XcodeSimProofs ---------------------------
(***************************************************************************)
(* Theorems about XcodeSim: for machine code of every length, at every     *)
(* base, the xcodes that were made of it write the code into the memory,   *)
(* as far as a window of the memory shows it.                              *)
(***************************************************************************)
EXTENDS XcodeSim, SequenceTheorems, TLAPS

\* Where the x-th word of the code begins, counted from 0, and its xcode.
Place(x) == x * WordSize
WordXcode(x) == [opcode |-> "mem_write", addr |-> (base + Place(x)) % Wrap, data |-> WordAt(Place(x))]
ExitXcode == [opcode |-> "exit", addr |-> 0, data |-> <<>>]

\* The words that have been encoded, and the room that there is for them.
Encoded ==
  /\ code \in Codes /\ base \in Bases
  /\ buffer \in Seq(XCODE)
  /\ \A x \in DOMAIN buffer : buffer[x] = WordXcode(x - 1)
  /\ i = Place(Len(buffer)) /\ i < Len(code) + WordSize
  /\ nSize \in Nat /\ Len(buffer) <= nSize /\ Len(buffer) <= Len(code)

\* Before the table is there, there is no memory.
Before ==
  pc = "encode" => /\ table = <<>> /\ offset = 0 /\ mem_size = 0
                   /\ interp = Interp!reset /\ mem_sim = Zeros(0)

\* The table: n xcodes from elsewhere, the encoded ones, and an exit.
TableOf(n) ==
  /\ table \in Seq(XCODE \cup {ExitXcode})
  /\ Len(table) = n + Len(buffer) + 1 /\ Len(table) < Wrap
  /\ \A k \in 1..n : table[k] \in XCODE
  /\ \A x \in DOMAIN buffer : table[n + x] = buffer[x]
  /\ table[Len(table)] = ExitXcode

\* The simulator has come to an xcode of the table, or to the end of it.
Simulating ==
  /\ interp \in [offset : 0..Len(table), status : {"ok", "exit_op_found"}]
  /\ interp.status = "exit_op_found" <=> interp.offset = Len(table)
  /\ pc = "done" => interp.offset = Len(table)

\* The part of a word that is in the window and below the end of all addresses is in the
\* memory.
Collected(x) ==
  \A a \in 0..(mem_size - 1), b \in 1..WordSize :
    offset + a = base + Place(x) + b - 1 /\ offset + a < Wrap => mem_sim[a] = WordAt(Place(x))[b]

CollectedSoFar(n) == \A x \in 0..(Len(buffer) - 1) : x + n < interp.offset => Collected(x)

After ==
  pc # "encode" =>
    /\ i >= Len(code) /\ offset \in Offsets /\ mem_size \in SimSizes /\ Simulating
    /\ \E n \in Nat : TableOf(n) /\ (Aligned => CollectedSoFar(n))

Memory ==
  /\ 0..(mem_size - 1) \subseteq DOMAIN mem_sim /\ DOMAIN mem_sim \subseteq Nat
  /\ \A a \in DOMAIN mem_sim : mem_sim[a] \in Nat
  /\ AlignedStaysInside
  /\ pc \in {"encode", "sim", "done"} /\ hasMemChanges_total \in BOOLEAN

SimInv == Encoded /\ Before /\ After /\ Memory
-----------------------------------------------------------------------------
(* Places and addresses                                                    *)

LEMMA PlaceFacts ==
  ASSUME NEW x \in Nat
  PROVE  /\ Place(x) \in Nat /\ x <= Place(x) /\ Place(0) = 0
         /\ Place(x + 1) = Place(x) + WordSize
<1>1. Place(0) = 0
  BY SimAssumption DEF Place
<1>2. Place(x) \in Nat
  BY SimAssumption DEF Place
<1>3. (x + 1) * WordSize = x * WordSize + WordSize
  BY SimAssumption
<1>4. x * (WordSize - 1) >= 0 /\ x * (WordSize - 1) = x * WordSize - x
  BY SimAssumption
<1> QED BY <1>1, <1>2, <1>3, <1>4, SimAssumption DEF Place

LEMMA PlaceMonotone ==
  ASSUME NEW x \in Nat, NEW y \in Nat, x < y
  PROVE  Place(x) + WordSize <= Place(y)
<1>1. (y - x - 1) * WordSize >= 0
  BY SimAssumption
<1>2. (y - x - 1) * WordSize = y * WordSize - x * WordSize - WordSize
  BY SimAssumption
<1>3. x * WordSize \in Int /\ y * WordSize \in Int /\ WordSize \in Int
  BY SimAssumption
<1> QED BY <1>1, <1>2, <1>3 DEF Place

\* Every byte of the code is in one of its words.
LEMMA PlaceOf ==
  ASSUME NEW c \in Nat
  PROVE  \E x \in Nat, b \in 1..WordSize : c = Place(x) + b - 1
<1> DEFINE q == c \div WordSize
           r == c % WordSize
<1>1. q \in Int /\ r \in 0..(WordSize - 1) /\ c = q * WordSize + r
  BY SimAssumption
<1>2. q \in Nat
  BY SimAssumption
<1> HIDE DEF q, r
<1>3. r + 1 \in 1..WordSize /\ c = Place(q) + (r + 1) - 1
  BY <1>1, SimAssumption DEF Place
<1> QED BY <1>2, <1>3

\* What is a whole number of words and more than -1 word is not negative; what is less
\* than another whole number is a word less.
LEMMA WholeWords ==
  ASSUME NEW a \in Int, a % WordSize = 0
  PROVE  /\ a > -WordSize => a >= 0
         /\ \A m \in Nat : m % WordSize = 0 /\ a < m => a + WordSize <= m
<1>1. PICK p \in Int : a = p * WordSize
  <2> DEFINE p == a \div WordSize
  <2>1. p \in Int /\ a = p * WordSize + (a % WordSize)
    BY SimAssumption
  <2> HIDE DEF p
  <2>2. p * WordSize \in Int
    BY <2>1, SimAssumption
  <2> QED BY <2>1, <2>2
<1>2. a > -WordSize => a >= 0
  <2> SUFFICES ASSUME a > -WordSize, p <= -1 PROVE FALSE
    BY <1>1, SimAssumption
  <2>1. p * WordSize <= (-1) * WordSize
    BY SimAssumption
  <2> QED BY <1>1, <2>1, SimAssumption
<1>3. ASSUME NEW m \in Nat, m % WordSize = 0, a < m
      PROVE  a + WordSize <= m
  <2>1. PICK q \in Int : m = q * WordSize
    <3> DEFINE q == m \div WordSize
    <3>1. q \in Int /\ m = q * WordSize + (m % WordSize)
      BY SimAssumption
    <3> HIDE DEF q
    <3>2. q * WordSize \in Int
      BY <3>1, SimAssumption
    <3> QED BY <1>3, <3>1, <3>2
  <2>2. p < q
    <3> SUFFICES ASSUME q <= p PROVE FALSE
      OBVIOUS
    <3>1. q * WordSize <= p * WordSize
      BY SimAssumption
    <3> QED BY <1>1, <1>3, <2>1, <3>1
  <2>3. (q - p - 1) * WordSize >= 0 /\ (q - p - 1) * WordSize = q * WordSize - p * WordSize - WordSize
    BY <2>2, SimAssumption
  <2>4. p * WordSize \in Int /\ q * WordSize \in Int /\ WordSize \in Int
    BY SimAssumption
  <2> QED BY <1>1, <2>1, <2>3, <2>4
<1> QED BY <1>2, <1>3

\* An address goes round the end of all addresses once.
LEMMA AddressIs ==
  ASSUME NEW a \in Nat, a < 2 * Wrap
  PROVE  a % Wrap = IF a < Wrap THEN a ELSE a - Wrap
<1> DEFINE q == a \div Wrap
<1>1. Wrap \in Nat \ {0}
  BY SimAssumption
<1>2. q \in Int /\ a = q * Wrap + (a % Wrap) /\ a % Wrap \in 0..(Wrap - 1)
  BY <1>1
<1> HIDE DEF q
<1>3. q = 0 \/ q = 1
  <2>1. CASE q >= 2
    <3>1. q * Wrap >= 2 * Wrap
      BY <1>1, <1>2, <2>1
    <3> QED BY <1>1, <1>2, <3>1
  <2>2. CASE q <= -1
    <3>1. q * Wrap <= (-1) * Wrap
      BY <1>1, <1>2, <2>2
    <3> QED BY <1>1, <1>2, <3>1
  <2> QED BY <1>2, <2>1, <2>2
<1>4. CASE q = 0
  BY <1>1, <1>2, <1>4
<1>5. CASE q = 1
  BY <1>1, <1>2, <1>5
<1> QED BY <1>3, <1>4, <1>5

-----------------------------------------------------------------------------
(* Encoding                                                                *)

LEMMA SimInitially == SimInit => SimInv
<1> SUFFICES ASSUME SimInit PROVE SimInv
  OBVIOUS
<1>1. code \in Seq(Nat) /\ Len(code) \in Nat
  BY SimAssumption DEF SimInit
<1>2. Encoded
  <2>1. buffer \in Seq(XCODE) /\ Len(buffer) = 0 /\ DOMAIN buffer = {}
    BY DEF SimInit
  <2> QED BY <1>1, <2>1, PlaceFacts, SimAssumption DEF SimInit, Encoded
<1>3. Before /\ After
  BY DEF SimInit, Before, After
<1>4. Memory
  <2>1. DOMAIN mem_sim = {} /\ mem_size = 0 /\ DOMAIN mem_sim = 0..(mem_size - 1)
    BY DEF SimInit, Zeros
  <2> QED BY <2>1 DEF Memory, AlignedStaysInside, SimInit
<1> QED BY <1>2, <1>3, <1>4 DEF SimInv

LEMMA WordTyped ==
  ASSUME NEW at \in Nat, code \in Seq(Nat)
  PROVE  /\ WordAt(at) \in [1..WordSize -> Nat]
         /\ \A b \in 1..WordSize : WordAt(at)[b] = IF at + b <= Len(code) THEN code[at + b] ELSE 0
<1>1. \A b \in 1..WordSize : at + b <= Len(code) => code[at + b] \in Nat
  BY SimAssumption
<1> QED BY <1>1 DEF WordAt

LEMMA EncodeWordKeeps ==
  ASSUME SimInv, EncodeWord
  PROVE  SimInv'
<1> USE DEF SimInv
<1>1. /\ pc = "encode" /\ i < Len(code) /\ i' = i + WordSize
      /\ nSize' = IF Grows THEN nSize + AllocXcodes ELSE nSize
      /\ UNCHANGED <<code, base, pc, table, offset, mem_size, interp, mem_sim, hasMemChanges_total>>
  BY DEF EncodeWord
<1>2. PICK n \in Nat : n = Len(buffer) /\ DOMAIN buffer = 1..n
  BY DEF Encoded
<1>3. /\ code \in Seq(Nat) /\ Len(code) \in Nat /\ base \in Nat
      /\ i = Place(n) /\ Place(n) \in Nat /\ n <= Place(n) /\ Place(n + 1) = Place(n) + WordSize
      /\ WordSize \in Nat \ {0}
  BY <1>2, PlaceFacts, SimAssumption DEF Encoded
<1>4. PICK w : w = WordXcode(n)
  OBVIOUS
<1>5. w \in XCODE
  <2>1. (base + Place(n)) % Wrap \in 0..(Wrap - 1)
    <3>1. base + Place(n) \in Nat /\ Wrap \in Nat \ {0}
      BY <1>3, SimAssumption DEF Encoded
    <3> QED BY <3>1
  <2>2. WordAt(Place(n)) \in [1..WordSize -> Nat]
    BY <1>3, WordTyped
  <2> QED BY <1>4, <2>1, <2>2 DEF WordXcode, XCODE
<1>6. buffer' = Append(buffer, w)
  BY <1>3, <1>4 DEF EncodeWord, WordXcode
<1>7. /\ buffer' \in Seq(XCODE) /\ Len(buffer') = n + 1 /\ DOMAIN buffer' = 1..(n + 1)
      /\ buffer'[n + 1] = w /\ \A x \in 1..n : buffer'[x] = buffer[x]
  BY <1>2, <1>5, <1>6 DEF Encoded
<1>8. nSize' \in Nat /\ n + 1 <= nSize'
  <2>1. CASE Grows
    BY <1>1, <1>2, <2>1, SimAssumption DEF Encoded
  <2>2. CASE ~Grows
    BY <1>1, <1>2, <2>2, SimAssumption DEF Encoded, Grows
  <2> QED BY <2>1, <2>2
<1>9. \A x \in 1..(n + 1) : buffer'[x] = WordXcode(x - 1)'
  <2> TAKE x \in 1..(n + 1)
  <2>1. PICK y \in 0..n : y = x - 1
    OBVIOUS
  <2>2. WordXcode(y)' = WordXcode(y)
    BY <1>1 DEF WordXcode, WordAt, Place
  <2>3. CASE x = n + 1
    BY <1>4, <1>7, <2>1, <2>2, <2>3
  <2>4. CASE x \in 1..n
    <3>1. buffer[x] = WordXcode(y)
      BY <1>2, <2>1, <2>4 DEF Encoded
    <3> QED BY <1>7, <2>1, <2>2, <2>4, <3>1
  <2> QED BY <2>3, <2>4
<1>10. Encoded'
  <2>1. i' = Place(n + 1) /\ i' < Len(code) + WordSize /\ n + 1 <= Len(code)
    BY <1>1, <1>3
  <2>2. i' = Place(Len(buffer))'
    BY <1>7, <2>1 DEF Place
  <2> QED BY <1>1, <1>7, <1>8, <1>9, <2>1, <2>2 DEF Encoded
<1>11. Before' /\ After' /\ Memory'
  BY <1>1 DEF Before, After, Memory, AlignedStaysInside, Aligned
<1> QED BY <1>10, <1>11

-----------------------------------------------------------------------------
(* The table                                                               *)

LEMMA TableMade ==
  ASSUME Encoded, NEW o \in Others, table' = o \o buffer \o <<ExitXcode>>, UNCHANGED buffer
  PROVE  TableOf(Len(o))'
<1> DEFINE S == XCODE \cup {ExitXcode}
           n == Len(o)
           m == Len(buffer)
           t == o \o buffer
<1>1. o \in Seq(XCODE) /\ buffer \in Seq(XCODE) /\ n \in Nat /\ m \in Nat
  BY SimAssumption DEF Encoded
<1>2. \A x \in Seq(XCODE) : x \in Seq(S)
  OBVIOUS
<1>3. o \in Seq(S) /\ buffer \in Seq(S) /\ <<ExitXcode>> \in Seq(S) /\ Len(<<ExitXcode>>) = 1
  BY <1>1, <1>2
<1> HIDE DEF S
<1>4. t \in Seq(S) /\ Len(t) = n + m /\ \A k \in 1..(n + m) : t[k] = IF k <= n THEN o[k] ELSE buffer[k - n]
  BY <1>3, ConcatProperties
<1> HIDE DEF t
<1>5. /\ t \o <<ExitXcode>> \in Seq(S) /\ Len(t \o <<ExitXcode>>) = n + m + 1
      /\ \A k \in 1..(n + m + 1) :
           (t \o <<ExitXcode>>)[k] = IF k <= n + m THEN t[k] ELSE <<ExitXcode>>[k - (n + m)]
  <2>1. /\ t \o <<ExitXcode>> \in Seq(S) /\ Len(t \o <<ExitXcode>>) = Len(t) + Len(<<ExitXcode>>)
        /\ \A k \in 1..(Len(t) + Len(<<ExitXcode>>)) :
             (t \o <<ExitXcode>>)[k] = IF k <= Len(t) THEN t[k] ELSE <<ExitXcode>>[k - Len(t)]
    BY <1>3, <1>4, ConcatProperties
  <2> QED BY <1>3, <1>4, <2>1
<1>6. table' = t \o <<ExitXcode>>
  BY DEF t
<1>7. \A k \in 1..n : table'[k] \in XCODE
  <2>1. \A k \in 1..n : o[k] \in XCODE
    BY <1>1
  <2> QED BY <1>1, <1>4, <1>5, <1>6, <2>1
<1>8. \A x \in DOMAIN buffer : table'[n + x] = buffer[x]
  <2>1. DOMAIN buffer = 1..m
    BY <1>1
  <2> QED BY <1>1, <1>4, <1>5, <1>6, <2>1
<1>9. table'[n + m + 1] = ExitXcode
  BY <1>1, <1>5, <1>6
<1>10. n + m + 1 < Wrap
  BY <1>1, SimAssumption DEF Encoded
<1> QED BY <1>5, <1>6, <1>7, <1>8, <1>9, <1>10 DEF TableOf, S, ExitXcode, XCODE

LEMMA StartSimKeeps ==
  ASSUME SimInv, StartSim
  PROVE  SimInv'
<1> USE DEF SimInv
<1>1. /\ pc = "encode" /\ i >= Len(code) /\ offset' \in Offsets /\ mem_size' \in SimSizes
      /\ mem_sim' = Zeros(mem_size') /\ interp' = Interp!reset /\ pc' = "sim"
      /\ UNCHANGED <<code, base, i, buffer, nSize, hasMemChanges_total>>
  BY DEF StartSim, encVars
<1>2. PICK o \in Others : table' = o \o buffer \o <<ExitXcode>>
  BY DEF StartSim, ExitXcode
<1>3. TableOf(Len(o))'
  BY <1>1, <1>2, TableMade
<1>4. Len(o) \in Nat /\ Len(buffer) \in Nat /\ Len(table') \in Nat /\ Len(table') > 0
  BY <1>1, <1>3, SimAssumption DEF TableOf, Encoded
<1>5. Encoded'
  BY <1>1 DEF Encoded, WordXcode, WordAt, Place
<1>6. interp' = [offset |-> 0, status |-> "ok"]
  BY <1>1 DEF Interp!reset
<1>7. Simulating'
  BY <1>1, <1>4, <1>6 DEF Simulating
<1>8. After'
  <2>1. CollectedSoFar(Len(o))'
    BY <1>1, <1>4, <1>6 DEF CollectedSoFar
  <2>2. \E n \in Nat : TableOf(n)' /\ CollectedSoFar(n)'
    BY <1>3, <1>4, <2>1
  <2> QED BY <1>1, <1>7, <2>2 DEF After
<1>9. Memory'
  <2>1. mem_size' \in Nat
    BY <1>1, SimAssumption
  <2>2. DOMAIN mem_sim' = 0..(mem_size' - 1) /\ \A a \in DOMAIN mem_sim' : mem_sim'[a] = 0
    <3>1. PICK m : m = mem_size'
      OBVIOUS
    <3>2. DOMAIN Zeros(m) = 0..(m - 1) /\ \A a \in 0..(m - 1) : Zeros(m)[a] = 0
      BY DEF Zeros
    <3> QED BY <1>1, <3>1, <3>2
  <2>3. DOMAIN mem_sim' \subseteq Nat
    <3>1. PICK m \in Nat : m = mem_size'
      BY <2>1
    <3>2. 0..(m - 1) \subseteq Nat
      OBVIOUS
    <3> QED BY <2>2, <3>1, <3>2
  <2>4. AlignedStaysInside'
    BY <2>2 DEF AlignedStaysInside
  <2>5. pc' \in {"encode", "sim", "done"} /\ hasMemChanges_total' \in BOOLEAN
    BY <1>1 DEF Memory
  <2> QED BY <2>2, <2>3, <2>4, <2>5 DEF Memory
<1> QED BY <1>1, <1>5, <1>8, <1>9 DEF Before

-----------------------------------------------------------------------------
(* Simulating                                                              *)

\* A word that is written changes its own bytes, those that lie behind the memory too.
LEMMA WordWritten ==
  ASSUME Memory, NEW at \in Nat, NEW word \in [1..WordSize -> Nat]
  PROVE  /\ DOMAIN Written(at, word) = DOMAIN mem_sim \cup at..(at + WordSize - 1)
         /\ \A a \in DOMAIN Written(at, word) :
              Written(at, word)[a] = IF a \in at..(at + WordSize - 1) THEN word[a - at + 1] ELSE mem_sim[a]
         /\ \A a \in DOMAIN Written(at, word) : Written(at, word)[a] \in Nat
         /\ DOMAIN Written(at, word) \subseteq Nat
<1>1. WordSize \in Nat \ {0} /\ DOMAIN mem_sim \subseteq Nat
  BY SimAssumption DEF Memory
<1>2. DOMAIN Written(at, word) = DOMAIN mem_sim \cup at..(at + WordSize - 1)
  BY DEF Written
<1>3. ASSUME NEW a \in DOMAIN Written(at, word)
      PROVE  Written(at, word)[a] = IF a \in at..(at + WordSize - 1) THEN word[a - at + 1] ELSE mem_sim[a]
  <2>1. a \in Nat
    BY <1>1, <1>2
  <2>2. a - at + 1 \in DOMAIN word <=> a \in at..(at + WordSize - 1)
    BY <1>1, <2>1
  <2>3. Written(at, word)[a] = IF a - at + 1 \in DOMAIN word THEN word[a - at + 1] ELSE mem_sim[a]
    BY <1>2 DEF Written
  <2> QED BY <2>2, <2>3
<1>4. ASSUME NEW a \in DOMAIN Written(at, word)
      PROVE  Written(at, word)[a] \in Nat
  <2>1. CASE a \in at..(at + WordSize - 1)
    <3>1. a - at + 1 \in 1..WordSize
      BY <1>1, <2>1
    <3> QED BY <1>3, <2>1, <3>1
  <2>2. CASE a \notin at..(at + WordSize - 1)
    <3>1. a \in DOMAIN mem_sim
      BY <1>2, <2>2
    <3> QED BY <1>3, <2>2, <3>1 DEF Memory
  <2> QED BY <2>1, <2>2
<1>5. DOMAIN Written(at, word) \subseteq Nat
  BY <1>1, <1>2
<1> QED BY <1>2, <1>3, <1>4, <1>5

\* The simulator reads what the table has next, until it has read the exit.
LEMMA ReadsTable ==
  ASSUME NEW n \in Nat, TableOf(n), Simulating
  PROVE  /\ Interp!HasNext(interp) <=> interp.offset < Len(table)
         /\ interp.offset < Len(table) =>
              Interp!XcodesAt(interp.offset) = {table[interp.offset + 1]}
         /\ interp.offset \in 0..Len(table) /\ Len(table) \in Nat
<1>1. /\ Len(table) \in Nat /\ interp.offset \in 0..Len(table) /\ Len(table) < Wrap
      /\ interp.status = "exit_op_found" <=> interp.offset = Len(table)
  BY DEF TableOf, Simulating
<1>2. interp.offset < Len(table) => (interp.offset + 1) % Wrap = interp.offset + 1
  BY <1>1, AddressIs, SimAssumption
<1>3. Interp!HasNext(interp) <=> interp.offset < Len(table)
  BY <1>1, <1>2 DEF Interp!HasNext
<1>4. interp.offset < Len(table) => Interp!XcodesAt(interp.offset) = {table[interp.offset + 1]}
  BY <1>1 DEF Interp!XcodesAt, Interp!InTable
<1> QED BY <1>1, <1>3, <1>4

\* Where a place of the window that belongs to a word, below the end of all addresses, is
\* in that word.
LEMMA WordHas ==
  ASSUME NEW s \in 0..(Wrap - 1), NEW o \in 0..(Wrap - 1), NEW x \in Nat, NEW a \in Nat,
         NEW b \in 1..WordSize, o + a = s + Place(x) + b - 1, o + a < Wrap,
         NEW d \in Int, d = ((s + Place(x)) % Wrap) - o
  PROVE  d > -WordSize /\ d <= a /\ a \in d..(d + WordSize - 1) /\ a - d + 1 = b
<1>1. Place(x) \in Nat /\ WordSize \in Nat \ {0} /\ Wrap \in Nat
  BY PlaceFacts, SimAssumption
<1>2. s + Place(x) \in Nat /\ s + Place(x) < Wrap
  BY <1>1
<1>3. (s + Place(x)) % Wrap = s + Place(x)
  BY <1>1, <1>2, AddressIs
<1>4. PICK p \in Nat : p = s + Place(x)
  BY <1>2
<1>5. d = p - o /\ o + a = p + b - 1
  BY <1>3, <1>4
<1> QED BY <1>1, <1>5, SMTT(30)

\* A later word does not touch what was collected of an earlier one, even when its address
\* has gone round the end of all addresses.
LEMMA WordsApart ==
  ASSUME NEW s \in 0..(Wrap - 1), NEW o \in 0..(Wrap - 1), NEW x \in Nat, NEW a \in Nat,
         NEW b \in 1..WordSize, o + a = s + Place(x) + b - 1, o + a < Wrap,
         NEW y \in Nat, x < y, Place(y) + WordSize <= Wrap,
         NEW d \in Int, d = ((s + Place(y)) % Wrap) - o
  PROVE  a \notin d..(d + WordSize - 1)
<1>1. /\ Place(x) \in Nat /\ Place(y) \in Nat /\ Place(x) + WordSize <= Place(y)
      /\ WordSize \in Nat \ {0} /\ Wrap \in Nat
  BY PlaceFacts, PlaceMonotone, SimAssumption
<1>2. (s + Place(y)) % Wrap = IF s + Place(y) < Wrap THEN s + Place(y) ELSE s + Place(y) - Wrap
  BY <1>1, AddressIs
<1>3. CASE s + Place(y) < Wrap
  BY <1>1, <1>2, <1>3
<1>4. CASE s + Place(y) >= Wrap
  BY <1>1, <1>2, <1>4
<1> QED BY <1>1, <1>3, <1>4

LEMMA SimXcodeKeeps ==
  ASSUME SimInv, SimXcode
  PROVE  SimInv'
<1> USE DEF SimInv
<1>1. /\ pc = "sim" /\ Interp!HasNext(interp)
      /\ UNCHANGED <<code, base, i, buffer, nSize, pc, table, offset, mem_size>>
  BY DEF SimXcode, encVars
<1>2. PICK n \in Nat : TableOf(n) /\ (Aligned => CollectedSoFar(n))
  BY <1>1 DEF After
<1>3. /\ i >= Len(code) /\ offset \in Offsets /\ mem_size \in SimSizes /\ Simulating
      /\ offset \in 0..(Wrap - 1) /\ base \in 0..(Wrap - 1)
      /\ mem_size \in Nat /\ mem_size % WordSize = 0 /\ Wrap \in Nat /\ WordSize \in Nat \ {0}
  <2>1. i >= Len(code) /\ offset \in Offsets /\ mem_size \in SimSizes /\ Simulating
    BY <1>1 DEF After
  <2>2. offset \in 0..(Wrap - 1) /\ base \in 0..(Wrap - 1)
    BY <2>1, SimAssumption DEF Encoded
  <2>3. mem_size \in Nat /\ mem_size % WordSize = 0
    BY <2>1, SimAssumption
  <2> QED BY <2>1, <2>2, <2>3, SimAssumption
<1>4. PICK k \in Nat : k = interp.offset /\ k < Len(table)
  BY <1>1, <1>2, <1>3, ReadsTable
<1>5. PICK m \in Nat : m = Len(buffer) /\ DOMAIN buffer = 1..m
  BY DEF Encoded
<1>6. PICK xc : xc = table[k + 1]
  OBVIOUS
<1>7. /\ interp' = Interp!AfterNext(interp, xc)
      /\ IF InRange(xc)
         THEN mem_sim' = Written(xc.addr - offset, xc.data) /\ hasMemChanges_total' = TRUE
         ELSE UNCHANGED <<mem_sim, hasMemChanges_total>>
  BY <1>2, <1>3, <1>4, <1>6, ReadsTable DEF SimXcode
<1>8. Len(table) = n + m + 1 /\ Len(table) < Wrap /\ k + 1 \in DOMAIN table
  BY <1>2, <1>4, <1>5 DEF TableOf
\* What is read is another's xcode, one of the code, or the exit.
<1>9. /\ k < n => xc \in XCODE
      /\ k >= n /\ k < n + m => xc = WordXcode(k - n) /\ xc \in XCODE
      /\ k = n + m => xc = ExitXcode
  <2>1. ASSUME k >= n, k < n + m
        PROVE  xc = WordXcode(k - n) /\ xc \in XCODE
    <3>1. PICK x \in 1..m : x = k - n + 1
      BY <2>1
    <3>2. table[n + x] = buffer[x] /\ buffer[x] = WordXcode(x - 1) /\ buffer[x] \in XCODE
      BY <1>2, <1>5, <3>1, SMTT(30) DEF TableOf, Encoded
    <3>3. n + x = k + 1 /\ x - 1 = k - n
      BY <3>1
    <3> QED BY <1>6, <3>2, <3>3
  <2> QED BY <1>2, <1>4, <1>6, <1>8, <2>1 DEF TableOf
<1>10. xc.opcode = "exit" <=> k = n + m
  BY <1>4, <1>8, <1>9 DEF XCODE, ExitXcode
<1>11. interp' = [offset |-> k + 1, status |-> IF xc.opcode = "exit" THEN "exit_op_found" ELSE "ok"]
  <2>1. k + 1 \in Nat /\ k + 1 < Wrap /\ Wrap \in Nat
    BY <1>4, <1>8, SimAssumption
  <2>2. (k + 1) % Wrap = k + 1
    BY <2>1, AddressIs
  <2> QED BY <1>4, <1>7, <2>2 DEF Interp!AfterNext
<1>12. Simulating'
  <2>1. k + 1 \in 0..(n + m + 1) /\ (k = n + m <=> k + 1 = n + m + 1)
    BY <1>4, <1>8
  <2>2. Len(table') = n + m + 1 /\ pc' = "sim"
    BY <1>1, <1>8
  <2> QED BY <1>10, <1>11, <2>1, <2>2 DEF Simulating
\* What is written, if anything is.
<1>13. ASSUME InRange(xc)
       PROVE  /\ xc.addr - offset \in 0..(mem_size - 1) /\ xc.data \in [1..WordSize -> Nat]
              /\ Aligned => (xc.addr - offset) % WordSize = 0
  <2>1. xc.opcode = "mem_write" /\ xc.addr >= offset /\ xc.addr - offset < mem_size
    BY <1>13 DEF InRange
  <2>2. xc \in XCODE
    BY <1>4, <1>8, <1>9, <2>1 DEF ExitXcode
  <2>3. Aligned => (xc.addr - offset) % WordSize = 0
    BY <1>6, <1>8, <2>1 DEF Aligned
  <2>4. xc.addr \in Int /\ offset \in Int /\ mem_size \in Int /\ xc.data \in [1..WordSize -> Nat]
    BY <1>3, <2>2, SimAssumption DEF XCODE
  <2> QED BY <2>1, <2>3, <2>4
<1>14. Memory'
  <2>1. CASE ~InRange(xc)
    BY <1>1, <1>7, <2>1 DEF Memory, AlignedStaysInside, Aligned
  <2>2. CASE InRange(xc)
    <3>1. PICK at \in 0..(mem_size - 1) : at = xc.addr - offset
      BY <1>13, <2>2
    <3>2. mem_sim' = Written(at, xc.data) /\ hasMemChanges_total' = TRUE
      BY <1>7, <2>2, <3>1
    <3>3. /\ DOMAIN mem_sim' = DOMAIN mem_sim \cup at..(at + WordSize - 1)
          /\ DOMAIN mem_sim' \subseteq Nat /\ \A a \in DOMAIN mem_sim' : mem_sim'[a] \in Nat
      <4>1. at \in Nat /\ xc.data \in [1..WordSize -> Nat]
        BY <1>3, <1>13, <2>2, <3>1
      <4> QED BY <3>2, <4>1, WordWritten
    <3>4. AlignedStaysInside'
      <4> SUFFICES ASSUME Aligned PROVE DOMAIN mem_sim' = 0..(mem_size - 1)
        BY <1>1 DEF AlignedStaysInside, Aligned
      <4>1. at + WordSize <= mem_size
        <5>1. mem_size \in Nat /\ mem_size % WordSize = 0
          BY <1>3, SimAssumption
        <5> QED BY <1>13, <2>2, <3>1, <5>1, WholeWords
      <4>2. DOMAIN mem_sim = 0..(mem_size - 1)
        BY DEF Memory, AlignedStaysInside
      <4>3. at..(at + WordSize - 1) \subseteq 0..(mem_size - 1)
        BY <3>1, <4>1, SimAssumption, <1>3
      <4> QED BY <3>3, <4>2, <4>3
    <3> QED BY <1>1, <3>2, <3>3, <3>4 DEF Memory
  <2> QED BY <2>1, <2>2
<1>15. ASSUME Aligned
       PROVE  CollectedSoFar(n)'
  <2> SUFFICES ASSUME NEW x \in 0..(m - 1), x + n < k + 1,
                      NEW a \in 0..(mem_size - 1), NEW b \in 1..WordSize,
                      offset + a = base + Place(x) + b - 1, offset + a < Wrap
               PROVE  mem_sim'[a] = WordAt(Place(x))[b]
    BY <1>1, <1>5, <1>11 DEF CollectedSoFar, Collected, WordAt, Place
  <2>1. x + n < k => mem_sim[a] = WordAt(Place(x))[b]
    BY <1>2, <1>4, <1>5, <1>15 DEF CollectedSoFar, Collected
  <2>2. /\ x \in Nat /\ a \in Nat /\ a < mem_size /\ a \in DOMAIN mem_sim
        /\ base \in 0..(Wrap - 1) /\ offset \in 0..(Wrap - 1) /\ mem_size \in Nat
    <3>1. x \in Nat /\ a \in Nat /\ a < mem_size
      BY <1>3, <1>5
    <3>2. a \in DOMAIN mem_sim
      BY DEF Memory
    <3> QED BY <1>3, <3>1, <3>2
  <2>3. CASE x + n = k
    <3>1. PICK d \in Int : d = ((base + Place(x)) % Wrap) - offset
      <4>1. Place(x) \in Nat
        BY <2>2, PlaceFacts
      <4>2. (base + Place(x)) % Wrap \in Int
        BY <1>3, <4>1
      <4>3. ((base + Place(x)) % Wrap) - offset \in Int
        BY <1>3, <4>2
      <4> QED BY <4>3
    <3>2. d > -WordSize /\ d <= a /\ a \in d..(d + WordSize - 1) /\ a - d + 1 = b
      BY <2>2, <3>1, WordHas
    <3>3. xc = WordXcode(x)
      <4>1. k - n = x /\ k >= n /\ k < n + m
        BY <2>3
      <4> QED BY <1>9, <4>1
    <3>4. xc.opcode = "mem_write" /\ xc.addr - offset = d /\ xc.data = WordAt(Place(x))
      BY <3>1, <3>3 DEF WordXcode
    <3>5. d % WordSize = 0
      BY <1>6, <1>8, <1>15, <3>4 DEF Aligned
    <3>6. d \in 0..(mem_size - 1)
      BY <2>2, <3>2, <3>5, WholeWords
    <3>7. InRange(xc)
      <4>1. Place(x) \in Nat
        BY <2>2, PlaceFacts
      <4>2. xc.addr \in Int
        BY <1>3, <3>3, <4>1 DEF WordXcode
      <4> QED BY <1>3, <3>4, <3>6, <4>2 DEF InRange
    <3>8. mem_sim' = Written(d, xc.data) /\ xc.data \in [1..WordSize -> Nat]
      BY <1>7, <1>13, <3>4, <3>7
    <3>9. mem_sim'[a] = xc.data[a - d + 1]
      <4>1. d \in Nat
        BY <1>3, <3>6
      <4> QED BY <2>2, <3>2, <3>8, <4>1, WordWritten
    <3> QED BY <3>2, <3>4, <3>9
  <2>4. CASE x + n # k /\ ~InRange(xc)
    BY <1>7, <2>1, <2>4, <1>4
  <2>5. CASE x + n # k /\ InRange(xc)
    <3>1. x + n < k
      BY <1>4, <2>5
    <3>2. PICK y \in 0..(m - 1) : y = k - n /\ xc = WordXcode(y)
      <4>1. k # n + m
        BY <1>10, <2>5 DEF InRange
      <4>2. k - n \in 0..(m - 1) /\ k >= n /\ k < n + m
        BY <1>4, <1>8, <3>1, <4>1, SMTT(30)
      <4> QED BY <1>9, <4>2
    <3>3. PICK d \in 0..(mem_size - 1) : d = xc.addr - offset
      BY <1>13, <2>5
    <3>4. d = ((base + Place(y)) % Wrap) - offset
      BY <3>2, <3>3 DEF WordXcode
    <3>5. Place(y) + WordSize <= Wrap
      <4>1. Place(y) + WordSize <= Place(m)
        BY <1>5, <3>2, PlaceMonotone
      <4>2. Place(m) < Len(code) + WordSize
        BY <1>5 DEF Encoded
      <4>3. Len(code) + WordSize < Wrap /\ Len(code) \in Nat
        BY SimAssumption DEF Encoded
      <4>4. Place(m) \in Nat /\ Place(y) \in Nat
        BY <1>5, <3>2, PlaceFacts
      <4> QED BY <1>3, <4>1, <4>2, <4>3, <4>4
    <3>6. a \notin d..(d + WordSize - 1)
      <4>1. x < y /\ y \in Nat /\ d \in Int
        BY <2>2, <3>1, <3>2, <3>3
      <4> QED BY <2>2, <3>4, <3>5, <4>1, WordsApart
    <3>7. mem_sim'[a] = mem_sim[a]
      <4>1. d \in Nat
        BY <1>3, <3>3
      <4>2. PICK w \in [1..WordSize -> Nat] : w = xc.data /\ mem_sim' = Written(d, w)
        BY <1>7, <1>13, <2>5, <3>3
      <4>3. /\ DOMAIN Written(d, w) = DOMAIN mem_sim \cup d..(d + WordSize - 1)
            /\ \A c \in DOMAIN Written(d, w) :
                 Written(d, w)[c] = IF c \in d..(d + WordSize - 1) THEN w[c - d + 1] ELSE mem_sim[c]
        BY <4>1, <4>2, WordWritten
      <4> QED BY <2>2, <3>6, <4>1, <4>2, <4>3
    <3> QED BY <2>1, <3>1, <3>7
  <2> QED BY <2>3, <2>4, <2>5
<1>16. TableOf(n)' /\ (Aligned' <=> Aligned)
  BY <1>1, <1>2 DEF TableOf, Aligned
<1>17. After'
  BY <1>1, <1>3, <1>12, <1>15, <1>16 DEF After
<1>18. Encoded' /\ Before'
  BY <1>1 DEF Encoded, Before, WordXcode, WordAt, Place
<1> QED BY <1>14, <1>17, <1>18

LEMMA SimEndKeeps ==
  ASSUME SimInv, SimEnd
  PROVE  SimInv'
<1> USE DEF SimInv
<1>1. /\ pc = "sim" /\ ~Interp!HasNext(interp) /\ pc' = "done"
      /\ UNCHANGED <<code, base, i, buffer, nSize, table, offset, mem_size, interp, mem_sim,
                      hasMemChanges_total>>
  BY DEF SimEnd, encVars
<1>2. PICK n \in Nat : TableOf(n) /\ (Aligned => CollectedSoFar(n))
  BY <1>1 DEF After
<1>3. i >= Len(code) /\ offset \in Offsets /\ mem_size \in SimSizes /\ Simulating
  BY <1>1 DEF After
<1>4. interp.offset = Len(table)
  BY <1>1, <1>2, <1>3, ReadsTable
<1>5. Simulating'
  BY <1>1, <1>3, <1>4 DEF Simulating
<1>6. TableOf(n)' /\ (Aligned' => CollectedSoFar(n)')
  BY <1>1, <1>2 DEF TableOf, Aligned, CollectedSoFar, Collected, WordAt, Place
<1>7. After'
  BY <1>1, <1>3, <1>5, <1>6 DEF After
<1> QED BY <1>1, <1>7 DEF Encoded, Before, Memory, AlignedStaysInside, Aligned, WordXcode, WordAt, Place

-----------------------------------------------------------------------------
(* The theorems                                                            *)

\* The xcodes in the buffer are the words of the code, each at its address, they stay those
\* of the table, and what has been simulated of them is in the memory.
THEOREM SimInvariant == SimSpec => []SimInv
<1>1. SimInv /\ [SimNext]_vars => SimInv'
  <2> SUFFICES ASSUME SimInv, [SimNext]_vars PROVE SimInv'
    OBVIOUS
  <2>1. CASE EncodeWord
    BY <2>1, EncodeWordKeeps
  <2>2. CASE StartSim
    BY <2>2, StartSimKeeps
  <2>3. CASE SimXcode
    BY <2>3, SimXcodeKeeps
  <2>4. CASE SimEnd
    BY <2>4, SimEndKeeps
  <2>5. CASE UNCHANGED vars
    <3>1. /\ UNCHANGED <<code, base, i, buffer, nSize, pc, table, offset, mem_size, interp, mem_sim>>
          /\ UNCHANGED hasMemChanges_total
      BY <2>5 DEF vars, encVars
    <3>2. Encoded' /\ Before' /\ Memory'
      BY <3>1 DEF SimInv, Encoded, Before, Memory, AlignedStaysInside, Aligned, WordXcode, WordAt, Place
    <3>3. After'
      <4> SUFFICES ASSUME pc # "encode" PROVE After'
        BY <3>1 DEF After
      <4>1. PICK n \in Nat : TableOf(n) /\ (Aligned => CollectedSoFar(n))
        BY DEF SimInv, After
      <4>2. TableOf(n)' /\ (Aligned' => CollectedSoFar(n)')
        <5>1. TableOf(n)'
          BY <3>1, <4>1 DEF TableOf
        <5>2. Aligned' <=> Aligned
          BY <3>1 DEF Aligned
        <5>3. CollectedSoFar(n)' <=> CollectedSoFar(n)
          BY <3>1 DEF CollectedSoFar, Collected, WordAt, Place
        <5> QED BY <4>1, <5>1, <5>2, <5>3
      <4>3. Simulating'
        BY <3>1 DEF SimInv, After, Simulating
      <4>4. i' >= Len(code') /\ offset' \in Offsets /\ mem_size' \in SimSizes
        BY <3>1 DEF SimInv, After
      <4> QED BY <4>2, <4>3, <4>4 DEF After
    <3> QED BY <3>2, <3>3 DEF SimInv
  <2> QED BY <2>1, <2>2, <2>3, <2>4, <2>5 DEF SimNext
<1> QED BY SimInitially, <1>1, PTL DEF SimSpec

\* A window of whole words that the code's words fit into is not overrun: no word that is
\* written begins in it and ends behind it.
THEOREM SimStaysInside == SimSpec => []AlignedStaysInside
<1>1. SimInv => AlignedStaysInside
  BY DEF SimInv, Memory
<1> QED BY <1>1, SimInvariant, PTL

\* The xcodes that encodeX86AsMemWrites makes write its machine code: after a table with
\* them was run, the memory has the code, and zeros to the end of its last word, wherever
\* the window shows them; and the buffer of xcodes is never overrun.
THEOREM EncodedXcodesWriteCode == SimSpec => []EncodedWritesCode
<1>1. SimInv => EncodedWritesCode
  <2> SUFFICES ASSUME SimInv PROVE EncodedWritesCode
    OBVIOUS
  <2> USE DEF SimInv
  <2>1. /\ code \in Seq(Nat) /\ Len(code) \in Nat /\ WordSize \in Nat \ {0}
        /\ base \in 0..(Wrap - 1) /\ Wrap \in Nat
    BY SimAssumption DEF Encoded
  <2>2. PICK m \in Nat : m = Len(buffer) /\ DOMAIN buffer = 1..m
    BY DEF Encoded
  <2>3. i = Place(m) /\ i \in Nat /\ i < Len(code) + WordSize
    BY <2>2, PlaceFacts DEF Encoded
  <2>4. SimTypeOK
    <3>1. i \in 0..(Len(code) + WordSize - 1)
      BY <2>1, <2>3
    <3>2. \A x \in DOMAIN buffer : buffer[x].data \in [1..WordSize -> Nat]
      <4>1. \A x \in DOMAIN buffer : buffer[x] \in XCODE
        BY DEF Encoded
      <4>2. \A xc \in XCODE : xc.data \in [1..WordSize -> Nat]
        BY DEF XCODE
      <4> QED BY <4>1, <4>2
    <3>3. interp \in Interp!INTERP
      <4>1. CASE pc = "encode"
        BY <2>1, <4>1 DEF Before, Interp!reset, Interp!INTERP
      <4>2. CASE pc # "encode"
        <5>1. PICK n \in Nat : TableOf(n)
          BY <4>2 DEF After
        <5>2. Simulating
          BY <4>2 DEF After
        <5>3. interp.offset \in 0..Len(table) /\ Len(table) \in Nat /\ Len(table) < Wrap
          BY <5>1, <5>2, ReadsTable DEF TableOf
        <5>4. interp.offset \in 0..(Wrap - 1)
          BY <2>1, <5>3
        <5> QED BY <5>2, <5>4 DEF Simulating, Interp!INTERP
      <4> QED BY <4>1, <4>2
    <3> QED BY <3>1, <3>2, <3>3 DEF SimTypeOK, Encoded, Memory
  <2>5. ASSUME pc = "done", Aligned, NEW a \in 0..(mem_size - 1), offset + a < Wrap,
               NEW c \in Int, c = offset + a - base + 1
        PROVE  /\ c \in DOMAIN code => mem_sim[a] = code[c]
               /\ c \in (Len(code) + 1)..i => mem_sim[a] = 0
    <3> SUFFICES ASSUME c >= 1, c <= Len(code) \/ c <= i
                 PROVE  mem_sim[a] = IF c <= Len(code) THEN code[c] ELSE 0
      BY <2>1, <2>3
    <3>1. PICK n \in Nat : TableOf(n) /\ CollectedSoFar(n)
      BY <2>5 DEF After
    <3>2. i >= Len(code) /\ offset \in 0..(Wrap - 1) /\ mem_size \in Nat /\ interp.offset = n + m + 1
      BY <2>2, <2>5, <3>1, SimAssumption DEF After, Simulating, TableOf
    <3>3. PICK x \in Nat, b \in 1..WordSize : c - 1 = Place(x) + b - 1
      <4>1. c - 1 \in Nat
        BY <2>5
      <4> QED BY <4>1, PlaceOf
    <3>0. Place(x) \in Nat /\ Place(m) \in Nat
      BY <2>2, PlaceFacts
    <3>4. x < m
      <4> SUFFICES ASSUME m <= x PROVE FALSE
        BY <2>2
      <4>1. Place(m) <= Place(x)
        <5>1. m = x \/ m < x
          OBVIOUS
        <5>2. m < x => Place(m) + WordSize <= Place(x)
          BY PlaceMonotone
        <5> QED BY <2>1, <3>0, <5>1, <5>2
      <4>2. c <= Place(m)
        BY <2>1, <2>3, <3>2, <3>0
      <4>3. c >= Place(x) + 1
        BY <2>1, <3>3, <3>0
      <4> QED BY <3>0, <4>1, <4>2, <4>3
    <3>5. Collected(x)
      <4>1. x \in 0..(Len(buffer) - 1) /\ x + n < interp.offset
        BY <2>2, <3>2, <3>4
      <4> QED BY <3>1, <4>1 DEF CollectedSoFar
    <3>6. offset + a = base + Place(x) + b - 1
      <4>1. a \in Int /\ offset \in Int /\ base \in Int
        BY <2>1, <3>2
      <4>2. c - 1 = offset + a - base
        BY <2>5, <4>1
      <4> QED BY <3>3, <3>0, <4>1, <4>2, SMTT(30)
    <3>7. mem_sim[a] = WordAt(Place(x))[b]
      BY <2>5, <3>5, <3>6, Zenon DEF Collected
    <3>8. Place(x) + b = c
      <4>1. b \in Int
        BY <2>1
      <4> QED BY <3>3, <3>0, <4>1
    <3> QED BY <2>1, <3>7, <3>8, <3>0, WordTyped
  <2>6. Len(buffer) <= nSize
    BY DEF Encoded
  <2>7. ASSUME pc = "done"
        PROVE  offset \in Int /\ mem_size \in Nat
    <3>1. offset \in Offsets /\ mem_size \in SimSizes
      BY <2>7 DEF After
    <3>2. offset \in Int
      BY <3>1, SimAssumption
    <3>3. mem_size \in Nat
      BY <3>1, SimAssumption
    <3> QED BY <3>2, <3>3
  <2> QED BY <2>1, <2>4, <2>5, <2>6, <2>7 DEF EncodedWritesCode
<1> QED BY <1>1, SimInvariant, PTL
=============================================================================
