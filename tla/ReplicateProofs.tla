-------------------------- MODULE ReplicateProofs --------------------------
(***************************************************************************)
(* bios_replicate_data makes every bank of the buffer the first one, for   *)
(* every size of the smallest image and whatever the words are.  The       *)
(* second half is about the commands -split, -combine and -replicate in    *)
(* any order: what -split has written, -combine makes whole again.         *)
(***************************************************************************)
EXTENDS Banks, SequenceTheorems, TLAPS

\* A word of one of the four banks a buffer can hold is that of the first, as far
\* as the copies have come.
InPlaceAt(a, r) == a < offset /\ a < to => buffer[a] = orig[r]

\* Why Copied holds when the loop ends: after each turn the words in front of
\* offset are in place, and there are as many banks of them as turns doubled.
CopyInv ==
  /\ ReplicateTypeOK
  /\ from < to
  /\ done => offset >= to
  /\ \A r \in 0..(from - 1) :
       /\ InPlaceAt(r, r)
       /\ InPlaceAt(from + r, r)
       /\ InPlaceAt(2 * from + r, r)
       /\ InPlaceAt(3 * from + r, r)

-----------------------------------------------------------------------------
\* The four sizes a buffer or a part of it can have.
LEMMA Sizes ==
  ASSUME CopyInv
  PROVE  /\ MIN_BIOS_SIZE \in Nat \ {0}
         /\ from \in Nat \ {0} /\ to \in Nat /\ offset \in Nat \ {0}
         /\ \/ from = MIN_BIOS_SIZE /\ to = 2 * MIN_BIOS_SIZE
            \/ from = MIN_BIOS_SIZE /\ to = 4 * MIN_BIOS_SIZE
            \/ from = 2 * MIN_BIOS_SIZE /\ to = 4 * MIN_BIOS_SIZE
         /\ offset \in {from, 2 * from, 4 * from}
BY SizeAssumption DEF CopyInv, ReplicateTypeOK, BiosSizes

LEMMA CopyInitInv == ReplicateInit => CopyInv
<1> SUFFICES ASSUME ReplicateInit PROVE CopyInv
    OBVIOUS
<1>1. from \in BiosSizes /\ to \in BiosSizes /\ from < to /\ from \in Nat
      BY SizeAssumption DEF ReplicateInit, BiosSizes
<1>2. offset = from /\ done = FALSE /\ orig = buffer
      /\ buffer \in [0..(to - 1) -> Content]
      BY DEF ReplicateInit
<1>3. ReplicateTypeOK
      BY <1>1, <1>2 DEF ReplicateTypeOK
<1>4. ASSUME NEW r \in 0..(from - 1), NEW a \in {r, from + r, 2 * from + r, 3 * from + r}
      PROVE  InPlaceAt(a, r)
      BY <1>1, <1>2 DEF InPlaceAt
<1>5. QED
      BY <1>1, <1>2, <1>3, <1>4 DEF CopyInv

\* What memcpy does to a word: it keeps those in front of offset and gives each
\* of the following ones that of an offset before.
LEMMA Prefix ==
  ASSUME CopyInv, NEW a \in 0..(to - 1)
  PROVE  /\ a < offset => CopyPrefix[a] = buffer[a]
         /\ a >= offset /\ a < 2 * offset =>
              CopyPrefix[a] = buffer[a - offset] /\ a - offset \in 0..(to - 1)
<1>1. DOMAIN buffer = 0..(to - 1)
      BY DEF CopyInv, ReplicateTypeOK
<1>2. CopyPrefix[a] = IF a >= offset /\ a < 2 * offset THEN buffer[a - offset] ELSE buffer[a]
      BY <1>1 DEF CopyPrefix
<1>3. a \in Int /\ offset \in Nat /\ to \in Nat
      BY Sizes
<1>4. QED
      BY <1>2, <1>3

LEMMA DoubleInv == CopyInv /\ Double => CopyInv'
<1> SUFFICES ASSUME CopyInv, Double PROVE CopyInv'
    OBVIOUS
<1>1. /\ offset < to /\ offset' = 2 * offset
      /\ UNCHANGED <<from, to, done, orig>> /\ ~done
      BY DEF Double, new_size
<1>2. HasRoom /\ buffer' = CopyPrefix
      BY <1>1, Sizes DEF Double, HasRoom
<1>3. buffer' \in [0..(to - 1) -> Content]
      BY <1>2, Prefix, Sizes DEF CopyInv, ReplicateTypeOK, CopyPrefix
<1>4. offset' \in {from, 2 * from, 4 * from}
      BY <1>1, Sizes
<1>5. ReplicateTypeOK'
      BY <1>1, <1>3, <1>4 DEF CopyInv, ReplicateTypeOK
<1>6. ASSUME NEW r \in 0..(from - 1)
      PROVE  /\ InPlaceAt(r, r)'
             /\ InPlaceAt(from + r, r)'
             /\ InPlaceAt(2 * from + r, r)'
             /\ InPlaceAt(3 * from + r, r)'
  <2>1. /\ InPlaceAt(r, r) /\ InPlaceAt(from + r, r)
        /\ InPlaceAt(2 * from + r, r) /\ InPlaceAt(3 * from + r, r)
        BY DEF CopyInv
  <2>2. CASE offset = from
        BY <1>1, <1>2, <2>1, <2>2, Sizes, Prefix DEF InPlaceAt
  <2>3. CASE offset = 2 * from
        BY <1>1, <1>2, <2>1, <2>3, Sizes, Prefix DEF InPlaceAt
  <2>4. QED
        BY <1>1, <2>2, <2>3, Sizes
<1>7. QED
      BY <1>1, <1>5, <1>6 DEF CopyInv

LEMMA ReturnInv == CopyInv /\ Return => CopyInv'
BY DEF CopyInv, Return, ReplicateTypeOK, InPlaceAt, BiosSizes

LEMMA StutterInv == CopyInv /\ UNCHANGED replVars => CopyInv'
BY DEF CopyInv, ReplicateTypeOK, InPlaceAt, BiosSizes, replVars

\* The inductive invariant: every word in front of offset is that of the first
\* bank at its place, and offset is one, two or four banks.
THEOREM ReplicateInvariant == ReplicateSpec => []CopyInv
<1>1. ReplicateInit => CopyInv
      BY CopyInitInv
<1>2. CopyInv /\ [ReplicateNext]_replVars => CopyInv'
      BY DoubleInv, ReturnInv, StutterInv DEF ReplicateNext
<1>3. QED
      BY <1>1, <1>2, PTL DEF ReplicateSpec

LEMMA CopyDone == CopyInv => Copied
<1> SUFFICES ASSUME CopyInv, done, NEW r \in 0..(from - 1), NEW k \in 0..3,
                    k * from + r < to
             PROVE  buffer[k * from + r] = orig[r]
    BY DEF Copied
<1>1. offset >= to
      BY DEF CopyInv
<1>2. /\ InPlaceAt(r, r) /\ InPlaceAt(from + r, r)
      /\ InPlaceAt(2 * from + r, r) /\ InPlaceAt(3 * from + r, r)
      BY DEF CopyInv
<1>3. CASE k = 0
      BY <1>1, <1>2, <1>3, Sizes DEF InPlaceAt
<1>4. CASE k = 1
      BY <1>1, <1>2, <1>4, Sizes DEF InPlaceAt
<1>5. CASE k = 2
      BY <1>1, <1>2, <1>5, Sizes DEF InPlaceAt
<1>6. CASE k = 3
      BY <1>1, <1>2, <1>6, Sizes DEF InPlaceAt
<1>7. QED
      BY <1>3, <1>4, <1>5, <1>6

\* When bios_replicate_data returns, every bank of the buffer is the first one:
\* no copy reads what is not in place yet and the last one ends where the buffer
\* does.
THEOREM ReplicateCopies == ReplicateSpec => [](ReplicateTypeOK /\ Copied)
<1>1. CopyInv => ReplicateTypeOK /\ Copied
      BY CopyDone DEF CopyInv
<1>2. QED
      BY <1>1, ReplicateInvariant, PTL

\* A copy never changes a word that is in place already.
THEOREM ReplicateKeepsPrefix == ReplicateSpec => PrefixKept
<1>1. CopyInv /\ [ReplicateNext]_replVars =>
        [\A a \in 0..(to - 1) : a < offset => buffer'[a] = buffer[a]]_replVars
  <2> SUFFICES ASSUME CopyInv, ReplicateNext, NEW a \in 0..(to - 1), a < offset
               PROVE  buffer'[a] = buffer[a]
      OBVIOUS
  <2>1. CASE Double
        BY <2>1, Prefix DEF Double
  <2>2. CASE Return
        BY <2>2 DEF Return
  <2>3. QED
        BY <2>1, <2>2 DEF ReplicateNext
<1>2. QED
      BY <1>1, ReplicateInvariant, PTL DEF ReplicateSpec, PrefixKept

-----------------------------------------------------------------------------
(* The commands.                                                           *)

\* Bank i of a BIOS that is split into banks of r words.
BankOf(d, r, i) == SubSeq(d, r * (i - 1) + 1, r * (i - 1) + r)

\* The files: each of a size the next command takes, if a command made it.
DiskInv ==
  /\ bios \in Seq(Content)
  /\ bios \in Dumps \/ bios_check_size(Len(bios))
  /\ bank \in [1..MAX_BANKS -> Seq(Content)]
  /\ \A i \in 1..MAX_BANKS : bank[i] = Absent \/ bios_check_size(Len(bank[i]))

\* A split on its way: the BIOS is as many whole banks as have been written and
\* what is left, so that what is left comes to 0 and to nothing below.
SplitInv ==
  cmd = "split" =>
    /\ split = NoSplit
    /\ bios_check_size(Len(bios))
    /\ romsize \in BiosSizes /\ romsize < Len(bios)
    /\ Len(bios) = left + loops * romsize
    /\ \A i \in 1..loops : bank[i] = BankOf(bios, romsize, i)

\* The bank files are those of the last split, until another one begins.
KeptInv ==
  split # NoSplit =>
    /\ split.data \in Seq(Content)
    /\ split.banks \in {2, 4}
    /\ \E r \in BiosSizes :
         /\ Len(split.data) = r * split.banks
         /\ \A i \in 1..split.banks : bank[i] = BankOf(split.data, r, i)

\* The copies of a -replicate, and what the last one has left.
ReplInv ==
  /\ cmd = "replicate" => CopyInv
  /\ cmd # "replicate" => Copied

BanksInv ==
  /\ cmd \in {"none", "split", "replicate"}
  /\ left \in Nat /\ loops \in 0..MAX_BANKS
  /\ DiskInv /\ SplitInv /\ KeptInv /\ ReplInv

-----------------------------------------------------------------------------
\* A size below another one is half or a quarter of it.
LEMMA Halves ==
  ASSUME NEW r \in BiosSizes, NEW n \in BiosSizes
  PROVE  /\ r \in Nat \ {0} /\ n \in Nat \ {0}
         /\ r < n => n = 2 * r \/ n = 4 * r
BY SizeAssumption DEF BiosSizes

\* A bank that lies in the BIOS is a file of its size.
LEMMA BankIsFile ==
  ASSUME NEW d \in Seq(Content), NEW r \in BiosSizes, NEW k \in 0..3,
         r * k + r <= Len(d)
  PROVE  /\ SubSeq(d, r * k + 1, r * k + r) \in Seq(Content)
         /\ Len(SubSeq(d, r * k + 1, r * k + r)) = r
<1>1. r \in Nat \ {0} /\ Len(d) \in Nat
      BY Halves, LenProperties
<1>2. r * k \in Nat
      BY <1>1
<1> DEFINE m == r * k + 1
           n == r * k + r
<1>3. m \in Int /\ n \in Int /\ m >= 1 /\ n <= Len(d) /\ m <= n /\ n - m + 1 = r
      BY <1>1, <1>2
<1>4. \A i \in m..n : d[i] \in Content
      BY <1>1, <1>3, ElementOfSeq
<1> HIDE DEF m, n
<1>5. SubSeq(d, m, n) \in Seq(Content) /\ Len(SubSeq(d, m, n)) = r
      BY <1>3, <1>4, SubSeqProperties
<1>6. QED
      BY <1>5 DEF m, n

LEMMA BanksInitInv == BanksInit => BanksInv
<1> SUFFICES ASSUME BanksInit PROVE BanksInv
    OBVIOUS
<1>1. cmd = "none" /\ left = 0 /\ loops = 0 /\ split = NoSplit
      BY DEF BanksInit
<1>2. DiskInv
  <2>1. bios \in Dumps /\ bios \in Seq(Content)
        BY BanksAssumption DEF BanksInit
  <2>2. bank = [i \in 1..MAX_BANKS |-> Absent] /\ Absent \in Seq(Content)
        BY EmptySeq DEF BanksInit, Absent
  <2>3. QED
        BY <2>1, <2>2 DEF DiskInv
<1>3. SplitInv /\ KeptInv
      BY <1>1 DEF SplitInv, KeptInv
<1>4. ReplInv
  <2>1. from = MIN_BIOS_SIZE /\ to = MIN_BIOS_SIZE /\ orig = buffer
        BY DEF BanksInit
  <2>2. ASSUME NEW r \in 0..(from - 1), NEW k \in 0..3, k * from + r < to
        PROVE  k * from + r = r
        BY <2>1, <2>2, SizeAssumption
  <2>3. Copied
        BY <2>1, <2>2 DEF Copied
  <2>4. QED
        BY <1>1, <2>3 DEF ReplInv
<1>5. QED
      BY <1>1, <1>2, <1>3, <1>4 DEF BanksInv, MAX_BANKS

-----------------------------------------------------------------------------
\* What a command leaves alone stays right.
LEMMA SameDisk == DiskInv /\ UNCHANGED disk => DiskInv'
BY DEF DiskInv, disk, bios_check_size, BiosSizes, Absent, MAX_BANKS

LEMMA SameKept == KeptInv /\ UNCHANGED <<bank, split>> => KeptInv'
BY DEF KeptInv, NoSplit, BankOf, BiosSizes

LEMMA SameRepl == ReplInv /\ cmd # "replicate" /\ cmd' # "replicate" /\ UNCHANGED replVars => ReplInv'
BY DEF ReplInv, Copied, replVars

LEMMA ImmediatelyInv ==
  ASSUME BanksInv, NEW code, Immediately(code)
  PROVE  BanksInv'
<1>1. cmd = "none" /\ UNCHANGED <<replVars, disk, cmd, splitVars, split>>
      BY DEF Immediately, Idle
<1>2. DiskInv' /\ KeptInv' /\ ReplInv'
      BY <1>1, SameDisk, SameKept, SameRepl DEF BanksInv, disk
<1>3. SplitInv'
      BY <1>1 DEF SplitInv
<1>4. QED
      BY <1>1, <1>2, <1>3 DEF BanksInv, splitVars, MAX_BANKS

LEMMA SplitBeginInv == BanksInv /\ SplitBegin => BanksInv'
<1> SUFFICES ASSUME BanksInv, SplitBegin PROVE BanksInv'
    OBVIOUS
<1>1. /\ cmd = "none" /\ cmd' = "split"
      /\ split' = NoSplit /\ UNCHANGED <<replVars, disk>>
      /\ left' = Len(bios) /\ loops' = 0
      /\ bios_check_size(Len(bios))
      /\ romsize' \in {r \in BiosSizes : r < Len(bios)}
      BY DEF SplitBegin, Begin, Idle
<1>2. DiskInv' /\ ReplInv'
      BY <1>1, SameDisk, SameRepl DEF BanksInv
<1>3. Len(bios) \in Nat /\ bios' = bios
      BY <1>1, LenProperties DEF BanksInv, DiskInv, disk
<1>4. romsize' \in BiosSizes /\ romsize' < Len(bios) /\ romsize' \in Nat
      BY <1>1, Halves DEF bios_check_size
<1>5. BiosSizes' = BiosSizes
      BY DEF BiosSizes
<1>6. SplitInv'
  <2>1. Len(bios)' = left' + loops' * romsize'
        BY <1>1, <1>3, <1>4
  <2>2. QED
        BY <1>1, <1>3, <1>4, <1>5, <2>1 DEF SplitInv, NoSplit, bios_check_size
<1>7. KeptInv'
      BY <1>1 DEF KeptInv, NoSplit
<1>8. QED
      BY <1>1, <1>2, <1>3, <1>6, <1>7 DEF BanksInv, MAX_BANKS

\* How far a split has come, in whole banks.
LEMMA SplitPlace ==
  ASSUME BanksInv, cmd = "split"
  PROVE  /\ bios \in Seq(Content) /\ Len(bios) \in Nat
         /\ romsize \in BiosSizes /\ romsize \in Nat \ {0}
         /\ Len(bios) = 2 * romsize \/ Len(bios) = 4 * romsize
         /\ loops \in 0..4 /\ left \in Nat
         /\ Len(bios) = left + loops * romsize
<1>1. /\ bios \in Seq(Content) /\ left \in Nat /\ loops \in 0..4
      /\ romsize \in BiosSizes /\ romsize < Len(bios) /\ Len(bios) \in BiosSizes
      /\ Len(bios) = left + loops * romsize
      BY DEF BanksInv, DiskInv, SplitInv, MAX_BANKS, bios_check_size
<1>2. QED
      BY <1>1, Halves

LEMMA SplitWriteInv == BanksInv /\ SplitWrite => BanksInv'
<1> SUFFICES ASSUME BanksInv, SplitWrite PROVE BanksInv'
    OBVIOUS
<1>1. /\ cmd = "split" /\ left > 0
      /\ bank' = [bank EXCEPT ![loops + 1] = BankData]
      /\ left' = left - romsize /\ loops' = loops + 1
      /\ UNCHANGED <<replVars, bios, cmd, romsize, split>>
      BY DEF SplitWrite
<1>2. /\ bios \in Seq(Content) /\ Len(bios) \in Nat
      /\ romsize \in BiosSizes /\ romsize \in Nat \ {0}
      /\ Len(bios) = 2 * romsize \/ Len(bios) = 4 * romsize
      /\ loops \in 0..4 /\ left \in Nat
      /\ Len(bios) = left + loops * romsize
      BY <1>1, SplitPlace
<1>3. loops \in 0..3 /\ left' \in Nat /\ romsize * loops + romsize <= Len(bios)
      /\ Len(bios) = left' + loops' * romsize
  <2>1. CASE loops = 0
        BY <1>1, <1>2, <2>1
  <2>2. CASE loops = 1
        BY <1>1, <1>2, <2>2
  <2>3. CASE loops = 2
        BY <1>1, <1>2, <2>3
  <2>4. CASE loops = 3
        BY <1>1, <1>2, <2>4
  <2>5. CASE loops = 4
        BY <1>1, <1>2, <2>5
  <2>6. QED
        BY <1>2, <2>1, <2>2, <2>3, <2>4, <2>5
<1>4. BankData \in Seq(Content) /\ Len(BankData) = romsize
      BY <1>2, <1>3, BankIsFile DEF BankData
<1>5. BankData = BankOf(bios, romsize, loops + 1)
  <2>1. (loops + 1) - 1 = loops
        BY <1>3
  <2>2. QED
        BY <2>1 DEF BankData, BankOf
<1>6. /\ bank \in [1..MAX_BANKS -> Seq(Content)]
      /\ \A i \in 1..MAX_BANKS : bank[i] = Absent \/ bios_check_size(Len(bank[i]))
      BY DEF BanksInv, DiskInv
<1>7. \A i \in 1..MAX_BANKS : bank'[i] = IF i = loops + 1 THEN BankData ELSE bank[i]
      BY <1>1, <1>6
<1>8. DiskInv'
  <2>1. bank' \in [1..MAX_BANKS -> Seq(Content)]
        BY <1>1, <1>4, <1>6
  <2>2. \A i \in 1..MAX_BANKS : bank'[i] = Absent \/ Len(bank'[i]) \in BiosSizes
        BY <1>2, <1>4, <1>6, <1>7 DEF bios_check_size
  <2>3. bios' \in Seq(Content) /\ (bios' \in Dumps \/ bios_check_size(Len(bios')))
        BY <1>1 DEF BanksInv, DiskInv
  <2>4. QED
        BY <2>1, <2>2, <2>3 DEF DiskInv, bios_check_size, BiosSizes, Absent, MAX_BANKS
<1>9. SplitInv'
  <2>1. /\ split = NoSplit /\ Len(bios) \in BiosSizes /\ romsize < Len(bios)
        /\ \A i \in 1..loops : bank[i] = BankOf(bios, romsize, i)
        BY <1>1 DEF BanksInv, SplitInv, bios_check_size
  <2>2. ASSUME NEW i \in 1..(loops + 1)
        PROVE  bank'[i] = BankOf(bios, romsize, i)
    <3>1. i \in 1..MAX_BANKS /\ (i = loops + 1 \/ i \in 1..loops)
          BY <1>3 DEF MAX_BANKS
    <3>2. CASE i = loops + 1
          BY <1>5, <1>7, <3>1, <3>2
    <3>3. CASE i \in 1..loops /\ i # loops + 1
          BY <1>7, <2>1, <3>1, <3>3
    <3>4. QED
          BY <3>1, <3>2, <3>3
  <2>3. QED
        BY <1>1, <1>2, <1>3, <2>1, <2>2 DEF SplitInv, NoSplit, bios_check_size, BiosSizes, BankOf
<1>10. KeptInv'
      BY <1>1 DEF BanksInv, SplitInv, KeptInv, NoSplit
<1>11. ReplInv'
      BY <1>1, SameRepl DEF BanksInv
<1>12. QED
      BY <1>1, <1>3, <1>8, <1>9, <1>10, <1>11 DEF BanksInv, MAX_BANKS

LEMMA SplitFailsInv == BanksInv /\ SplitFails => BanksInv'
<1> SUFFICES ASSUME BanksInv, SplitFails PROVE BanksInv'
    OBVIOUS
<1>1. /\ cmd = "split" /\ cmd' = "none" /\ left' = 0 /\ loops' = 0
      /\ UNCHANGED <<replVars, disk, split>>
      BY DEF SplitFails, Exit, FreeSplit
<1>2. DiskInv' /\ KeptInv' /\ ReplInv'
      BY <1>1, SameDisk, SameKept, SameRepl DEF BanksInv, disk
<1>3. SplitInv'
      BY <1>1 DEF SplitInv
<1>4. QED
      BY <1>1, <1>2, <1>3 DEF BanksInv, MAX_BANKS

LEMMA SplitEndInv == BanksInv /\ SplitEnd => BanksInv'
<1> SUFFICES ASSUME BanksInv, SplitEnd PROVE BanksInv'
    OBVIOUS
<1>1. /\ cmd = "split" /\ left = 0
      /\ cmd' = "none" /\ left' = 0 /\ loops' = 0
      /\ split' = [data |-> bios, banks |-> loops]
      /\ UNCHANGED <<replVars, disk>>
      BY DEF SplitEnd, Exit, FreeSplit
<1>2. DiskInv' /\ ReplInv'
      BY <1>1, SameDisk, SameRepl DEF BanksInv
<1>3. SplitInv'
      BY <1>1 DEF SplitInv
<1>4. KeptInv'
  <2>1. /\ bios \in Seq(Content) /\ Len(bios) \in Nat
        /\ romsize \in BiosSizes /\ romsize \in Nat \ {0}
        /\ Len(bios) = 2 * romsize \/ Len(bios) = 4 * romsize
        /\ loops \in 0..4 /\ Len(bios) = left + loops * romsize
        BY <1>1, SplitPlace
  <2>2. (loops = 2 \/ loops = 4) /\ Len(bios) = romsize * loops
    <3>1. CASE loops = 0
          BY <1>1, <2>1, <3>1
    <3>2. CASE loops = 1
          BY <1>1, <2>1, <3>2
    <3>3. CASE loops = 2
          BY <1>1, <2>1, <3>3
    <3>4. CASE loops = 3
          BY <1>1, <2>1, <3>4
    <3>5. CASE loops = 4
          BY <1>1, <2>1, <3>5
    <3>6. QED
          BY <2>1, <3>1, <3>2, <3>3, <3>4, <3>5
  <2>3. \A i \in 1..loops : bank[i] = BankOf(bios, romsize, i)
        BY <1>1 DEF BanksInv, SplitInv
  <2>4. split'.data = bios /\ split'.banks = loops /\ bank' = bank
        BY <1>1 DEF disk
  <2>5. \E r \in BiosSizes : Len(bios) = r * loops /\ \A i \in 1..loops : bank[i] = BankOf(bios, r, i)
        BY <2>1, <2>2, <2>3
  <2>6. QED
        BY <2>1, <2>2, <2>4, <2>5 DEF KeptInv, BankOf, BiosSizes
<1>5. QED
      BY <1>1, <1>2, <1>3, <1>4 DEF BanksInv, MAX_BANKS

-----------------------------------------------------------------------------
\* What a slot of -combine holds: a bank file, or nothing.
LEMMA SlotIsFile ==
  ASSUME BanksInv, NEW n \in NameChoices, NEW i \in 1..MAX_BANKS
  PROVE  n[i] \in 0..4 /\ BankAt(n, i) \in Seq(Content)
<1>1. n[i] \in 0..4
      BY BanksAssumption DEF MAX_BANKS
<1>2. CASE n[i] = 0
      BY <1>1, <1>2, EmptySeq DEF BankAt
<1>3. CASE n[i] # 0
  <2>1. n[i] \in 1..MAX_BANKS
        BY <1>1, <1>3 DEF MAX_BANKS
  <2>2. QED
        BY <1>1, <1>3, <2>1 DEF BankAt, BanksInv, DiskInv
<1>4. QED
      BY <1>2, <1>3

LEMMA CombineInv ==
  ASSUME BanksInv, NEW n \in NameChoices, Combine(n)
  PROVE  BanksInv'
<1>1. /\ cmd = "none" /\ bios_check_size(TotalSize(n))
      /\ bios' = BankAt(n, 1) \o BankAt(n, 2) \o BankAt(n, 3) \o BankAt(n, 4)
      /\ UNCHANGED <<replVars, bank, cmd, splitVars, split>>
      BY DEF Combine, Idle, Combinable
<1>2. \A i \in 1..MAX_BANKS : BankAt(n, i) \in Seq(Content)
      BY SlotIsFile
<1>3. bios' \in Seq(Content) /\ Len(bios') = TotalSize(n)
  <2> DEFINE b1 == BankAt(n, 1)
             b2 == BankAt(n, 2)
             b3 == BankAt(n, 3)
             b4 == BankAt(n, 4)
  <2>1. b1 \in Seq(Content) /\ b2 \in Seq(Content) /\ b3 \in Seq(Content) /\ b4 \in Seq(Content)
        BY <1>2 DEF MAX_BANKS
  <2>2. bios' = b1 \o b2 \o b3 \o b4 /\ TotalSize(n) = Len(b1) + Len(b2) + Len(b3) + Len(b4)
        BY <1>1 DEF TotalSize
  <2> HIDE DEF b1, b2, b3, b4
  <2>3. b1 \o b2 \in Seq(Content) /\ Len(b1 \o b2) = Len(b1) + Len(b2)
        BY <2>1, ConcatProperties
  <2>4. b1 \o b2 \o b3 \in Seq(Content) /\ Len(b1 \o b2 \o b3) = Len(b1 \o b2) + Len(b3)
        BY <2>1, <2>3, ConcatProperties
  <2>5. /\ b1 \o b2 \o b3 \o b4 \in Seq(Content)
        /\ Len(b1 \o b2 \o b3 \o b4) = Len(b1 \o b2 \o b3) + Len(b4)
        BY <2>1, <2>4, ConcatProperties
  <2>6. QED
        BY <2>2, <2>3, <2>4, <2>5
<1>4. DiskInv'
  <2>1. bank' = bank
        BY <1>1
  <2>2. /\ bank \in [1..MAX_BANKS -> Seq(Content)]
        /\ \A i \in 1..MAX_BANKS : bank[i] = Absent \/ bios_check_size(Len(bank[i]))
        BY DEF BanksInv, DiskInv
  <2>3. Len(bios') \in BiosSizes
        BY <1>1, <1>3 DEF bios_check_size
  <2>4. QED
        BY <1>3, <2>1, <2>2, <2>3 DEF DiskInv, bios_check_size, BiosSizes, Absent, MAX_BANKS
<1>5. KeptInv' /\ ReplInv'
      BY <1>1, SameKept, SameRepl DEF BanksInv
<1>6. SplitInv'
      BY <1>1 DEF SplitInv
<1>7. QED
      BY <1>1, <1>4, <1>5, <1>6 DEF BanksInv, splitVars, MAX_BANKS

-----------------------------------------------------------------------------
LEMMA ReplicateBeginInv == BanksInv /\ ReplicateBegin => BanksInv'
<1> SUFFICES ASSUME BanksInv, ReplicateBegin PROVE BanksInv'
    OBVIOUS
<1>1. /\ cmd = "none" /\ cmd' = "replicate"
      /\ bios_check_size(Len(bios))
      /\ UNCHANGED <<disk, splitVars, split>>
      BY DEF ReplicateBegin, Begin, Idle
<1>2. PICK t \in {n \in BiosSizes : Len(bios) < n}, rest \in Content :
        Call(Len(bios), t, [a \in 0..(t - 1) |-> IF a < Len(bios) THEN bios[a + 1] ELSE rest])
      BY DEF ReplicateBegin
<1> DEFINE f == Len(bios)
           b == [a \in 0..(t - 1) |-> IF a < f THEN bios[a + 1] ELSE rest]
<1>3. /\ bios \in Seq(Content) /\ f \in BiosSizes /\ t \in BiosSizes /\ f < t
      /\ f \in Nat \ {0} /\ t \in Nat \ {0}
      BY <1>1, <1>2, Halves DEF BanksInv, DiskInv, bios_check_size
<1>4. b \in [0..(t - 1) -> Content]
  <2>1. ASSUME NEW a \in 0..(t - 1), a < f
        PROVE  bios[a + 1] \in Content
    <3>1. a + 1 \in 1..f
          BY <1>3, <2>1
    <3>2. QED
          BY <1>3, <3>1, ElementOfSeq
  <2>2. QED
        BY <2>1
<1>5. /\ from' = f /\ to' = t /\ buffer' = b /\ orig' = b
      /\ offset' = f /\ done' = FALSE
      BY <1>2 DEF Call
<1> HIDE DEF f, b
<1>6. CopyInv'
  <2>1. ReplicateTypeOK'
        BY <1>3, <1>4, <1>5 DEF ReplicateTypeOK, BiosSizes
  <2>2. ASSUME NEW r \in 0..(f - 1), NEW a \in {r, f + r, 2 * f + r, 3 * f + r}
        PROVE  InPlaceAt(a, r)'
    <3>1. a < f => a = r
          BY <1>3
    <3>2. QED
          BY <1>5, <3>1 DEF InPlaceAt
  <2>3. \A r \in 0..(from - 1)' :
          /\ InPlaceAt(r, r)'
          /\ InPlaceAt(from + r, r)'
          /\ InPlaceAt(2 * from + r, r)'
          /\ InPlaceAt(3 * from + r, r)'
        BY <1>5, <2>2
  <2>4. QED
        BY <1>3, <1>5, <2>1, <2>3 DEF CopyInv
<1>7. DiskInv' /\ KeptInv'
      BY <1>1, SameDisk, SameKept DEF BanksInv, disk
<1>8. SplitInv' /\ ReplInv'
      BY <1>1, <1>6 DEF SplitInv, ReplInv
<1>9. QED
      BY <1>1, <1>7, <1>8 DEF BanksInv, splitVars, MAX_BANKS

LEMMA ReplicateStepInv == BanksInv /\ ReplicateStep => BanksInv'
<1> SUFFICES ASSUME BanksInv, ReplicateStep PROVE BanksInv'
    OBVIOUS
<1>1. /\ cmd = "replicate" /\ cmd' = "replicate" /\ ReplicateNext
      /\ UNCHANGED <<disk, splitVars, split>>
      BY DEF ReplicateStep
<1>2. CopyInv'
      BY <1>1, DoubleInv, ReturnInv DEF BanksInv, ReplInv, ReplicateNext
<1>3. DiskInv' /\ KeptInv'
      BY <1>1, SameDisk, SameKept DEF BanksInv, disk
<1>4. SplitInv' /\ ReplInv'
      BY <1>1, <1>2 DEF SplitInv, ReplInv
<1>5. QED
      BY <1>1, <1>3, <1>4 DEF BanksInv, splitVars, MAX_BANKS

LEMMA ReplicateEndInv == BanksInv /\ ReplicateEnd => BanksInv'
<1> SUFFICES ASSUME BanksInv, ReplicateEnd PROVE BanksInv'
    OBVIOUS
<1>1. /\ cmd = "replicate" /\ cmd' = "none"
      /\ bios' = [i \in 1..to |-> buffer[i - 1]]
      /\ UNCHANGED <<replVars, bank, splitVars, split>>
      BY DEF ReplicateEnd, Exit
<1>2. CopyInv
      BY <1>1 DEF BanksInv, ReplInv
<1>3. bios' \in Seq(Content) /\ Len(bios') = to
  <2>1. to \in Nat /\ buffer \in [0..(to - 1) -> Content]
        BY <1>2, Sizes DEF CopyInv, ReplicateTypeOK
  <2>2. \A i \in 1..to : buffer[i - 1] \in Content
    <3>1. \A i \in 1..to : i - 1 \in 0..(to - 1)
          BY <2>1
    <3>2. QED
          BY <2>1, <3>1
  <2>3. [i \in 1..to |-> buffer[i - 1]] \in Seq(Content)
        BY <2>1, <2>2, IsASeq
  <2>4. QED
        BY <1>1, <2>1, <2>3
<1>4. DiskInv'
  <2>1. bank' = bank
        BY <1>1
  <2>2. /\ bank \in [1..MAX_BANKS -> Seq(Content)]
        /\ \A i \in 1..MAX_BANKS : bank[i] = Absent \/ bios_check_size(Len(bank[i]))
        BY DEF BanksInv, DiskInv
  <2>3. Len(bios') \in BiosSizes
        BY <1>2, <1>3 DEF CopyInv, ReplicateTypeOK
  <2>4. QED
        BY <1>3, <2>1, <2>2, <2>3 DEF DiskInv, bios_check_size, BiosSizes, Absent, MAX_BANKS
<1>5. KeptInv'
      BY <1>1, SameKept DEF BanksInv
<1>6. SplitInv' /\ ReplInv'
  <2>1. Copied
        BY <1>2, CopyDone
  <2>2. Copied'
        BY <1>1, <2>1 DEF Copied, replVars
  <2>3. QED
        BY <1>1, <2>2 DEF SplitInv, ReplInv
<1>7. QED
      BY <1>1, <1>4, <1>5, <1>6 DEF BanksInv, splitVars, MAX_BANKS

-----------------------------------------------------------------------------
LEMMA BanksNextInv == BanksInv /\ [BanksNext]_allVars => BanksInv'
<1> SUFFICES ASSUME BanksInv, [BanksNext]_allVars PROVE BanksInv'
    OBVIOUS
<1>1. CASE SplitInvalid \/ SplitNothing \/ SplitNoExtension \/ CombineFails
           \/ ReplicateInvalid \/ ReplicateNothing
      BY <1>1, ImmediatelyInv
         DEF SplitInvalid, SplitNothing, SplitNoExtension, CombineFails,
             ReplicateInvalid, ReplicateNothing
<1>2. CASE SplitBegin
      BY <1>2, SplitBeginInv
<1>3. CASE SplitWrite
      BY <1>3, SplitWriteInv
<1>4. CASE SplitFails
      BY <1>4, SplitFailsInv
<1>5. CASE SplitEnd
      BY <1>5, SplitEndInv
<1>6. CASE \E n \in NameChoices : Combine(n)
      BY <1>6, CombineInv
<1>7. CASE ReplicateBegin
      BY <1>7, ReplicateBeginInv
<1>8. CASE ReplicateStep
      BY <1>8, ReplicateStepInv
<1>9. CASE ReplicateEnd
      BY <1>9, ReplicateEndInv
<1>10. CASE UNCHANGED allVars
  <2>1. UNCHANGED <<replVars, disk, cmd, splitVars, split>>
        BY <1>10 DEF allVars
  <2>2. DiskInv' /\ KeptInv'
        BY <2>1, SameDisk, SameKept DEF BanksInv, disk
  <2>3. SplitInv'
        BY <2>1 DEF BanksInv, SplitInv, disk, splitVars, NoSplit, bios_check_size, BiosSizes, BankOf
  <2>4. ReplInv'
    <3>1. CASE cmd = "replicate"
          BY <2>1, <3>1, StutterInv DEF BanksInv, ReplInv
    <3>2. CASE cmd # "replicate"
          BY <2>1, <3>2, SameRepl DEF BanksInv
    <3>3. QED
          BY <3>1, <3>2
  <2>5. QED
        BY <2>1, <2>2, <2>3, <2>4 DEF BanksInv, splitVars, MAX_BANKS
<1>11. QED
      BY <1>1, <1>2, <1>3, <1>4, <1>5, <1>6, <1>7, <1>8, <1>9, <1>10 DEF BanksNext

\* The inductive invariant of the three commands, in any order and any number:
\* the files, the split and the copies on their way, and what the bank files
\* hold from the last split.
THEOREM BanksInvariant == BanksSpec => []BanksInv
<1>1. BanksInit => BanksInv
      BY BanksInitInv
<1>2. BanksInv /\ [BanksNext]_allVars => BanksInv'
      BY BanksNextInv
<1>3. QED
      BY <1>1, <1>2, PTL DEF BanksSpec

\* dataLeft comes to 0 exactly, no fifth bank file is written, and no command
\* leaves a BIOS file or a bank file of a size that the next one refuses.
THEOREM BanksTyped == BanksSpec => []BanksTypeOK
<1>1. BanksInv => BanksTypeOK
      BY DEF BanksInv, DiskInv, BanksTypeOK
<1>2. QED
      BY <1>1, BanksInvariant, PTL

\* A -replicate that has returned, among other commands, has made every bank of
\* its buffer the first one.
THEOREM BanksCopied == BanksSpec => []Copied
<1>1. BanksInv => Copied
      BY CopyDone DEF BanksInv, ReplInv
<1>2. QED
      BY <1>1, BanksInvariant, PTL

-----------------------------------------------------------------------------
\* Two banks, or four, make the BIOS they were cut from.
LEMMA JoinBanks ==
  ASSUME NEW d \in Seq(Content), NEW r \in BiosSizes
  PROVE  /\ Len(d) = 2 * r => BankOf(d, r, 1) \o BankOf(d, r, 2) = d
         /\ Len(d) = 4 * r =>
              BankOf(d, r, 1) \o BankOf(d, r, 2) \o BankOf(d, r, 3) \o BankOf(d, r, 4) = d
<1>1. r \in Nat \ {0} /\ Len(d) \in Nat
      BY Halves, LenProperties
<1>2. /\ BankOf(d, r, 1) = SubSeq(d, 1, r)
      /\ BankOf(d, r, 2) = SubSeq(d, r + 1, 2 * r)
      /\ BankOf(d, r, 3) = SubSeq(d, 2 * r + 1, 3 * r)
      /\ BankOf(d, r, 4) = SubSeq(d, 3 * r + 1, 4 * r)
  <2>1. /\ r * (1 - 1) + 1 = 1 /\ r * (1 - 1) + r = r
        /\ r * (2 - 1) + 1 = r + 1 /\ r * (2 - 1) + r = 2 * r
        /\ r * (3 - 1) + 1 = 2 * r + 1 /\ r * (3 - 1) + r = 3 * r
        /\ r * (4 - 1) + 1 = 3 * r + 1 /\ r * (4 - 1) + r = 4 * r
        BY <1>1
  <2>2. QED
        BY <2>1 DEF BankOf
<1>3. ASSUME NEW k \in Nat, NEW n \in Nat, r <= k, k <= n, n <= Len(d)
      PROVE  SubSeq(d, 1, k) \o SubSeq(d, k + 1, n) = SubSeq(d, 1, n)
  <2>1. 1 \in 1..(Len(d) + 1) /\ k \in (1 - 1)..Len(d) /\ n \in k..Len(d)
        BY <1>1, <1>3
  <2>2. QED
        BY <2>1, ConcatAdjacentSubSeq
<1>4. SubSeq(d, 1, Len(d)) = d
      BY SubSeqFull
<1>5. ASSUME Len(d) = 2 * r
      PROVE  SubSeq(d, 1, r) \o SubSeq(d, r + 1, 2 * r) = d
      BY <1>1, <1>3, <1>4, <1>5
<1>6. ASSUME Len(d) = 4 * r
      PROVE  SubSeq(d, 1, r) \o SubSeq(d, r + 1, 2 * r) \o SubSeq(d, 2 * r + 1, 3 * r)
               \o SubSeq(d, 3 * r + 1, 4 * r) = d
  <2>1. /\ r <= 2 * r /\ 2 * r <= 3 * r /\ 3 * r <= 4 * r /\ r <= 3 * r
        /\ 2 * r <= Len(d) /\ 3 * r <= Len(d) /\ 4 * r <= Len(d)
        /\ 2 * r \in Nat /\ 3 * r \in Nat /\ 4 * r \in Nat
        BY <1>1, <1>6
  <2>2. SubSeq(d, 1, r) \o SubSeq(d, r + 1, 2 * r) = SubSeq(d, 1, 2 * r)
        BY <1>1, <1>3, <2>1
  <2>3. SubSeq(d, 1, 2 * r) \o SubSeq(d, 2 * r + 1, 3 * r) = SubSeq(d, 1, 3 * r)
        BY <1>1, <1>3, <2>1
  <2>4. SubSeq(d, 1, 3 * r) \o SubSeq(d, 3 * r + 1, 4 * r) = SubSeq(d, 1, 4 * r)
        BY <1>1, <1>3, <2>1
  <2>5. QED
        BY <1>4, <1>6, <2>2, <2>3, <2>4
<1>7. QED
      BY <1>2, <1>5, <1>6

\* The slots of a user who names the banks of the last split in their order.
LEMMA SlotsOf ==
  ASSUME NEW n \in NameChoices, AllBanks(n), split.banks \in {2, 4}
  PROVE  \/ /\ split.banks = 4
            /\ n[1] = 1 /\ n[2] = 2 /\ n[3] = 3 /\ n[4] = 4
         \/ /\ split.banks = 2
            /\ \/ n[1] = 1 /\ n[2] = 2 /\ n[3] = 0 /\ n[4] = 0
               \/ n[1] = 1 /\ n[2] = 0 /\ n[3] = 2 /\ n[4] = 0
               \/ n[1] = 1 /\ n[2] = 0 /\ n[3] = 0 /\ n[4] = 2
               \/ n[1] = 0 /\ n[2] = 1 /\ n[3] = 2 /\ n[4] = 0
               \/ n[1] = 0 /\ n[2] = 1 /\ n[3] = 0 /\ n[4] = 2
               \/ n[1] = 0 /\ n[2] = 0 /\ n[3] = 1 /\ n[4] = 2
<1> DEFINE k == split.banks
<1>1. n[1] \in 0..4 /\ n[2] \in 0..4 /\ n[3] \in 0..4 /\ n[4] \in 0..4
      BY BanksAssumption
<1>2. {n[s] : s \in 1..4} \ {0} = 1..k
      BY DEF AllBanks, MAX_BANKS
<1>3. /\ n[2] # 0 => n[1] < n[2]
      /\ n[3] # 0 => n[1] < n[3] /\ n[2] < n[3]
      /\ n[4] # 0 => n[1] < n[4] /\ n[2] < n[4] /\ n[3] < n[4]
      BY DEF AllBanks, MAX_BANKS
<1>4. \A i \in 1..k : n[1] = i \/ n[2] = i \/ n[3] = i \/ n[4] = i
  <2> SUFFICES ASSUME NEW i \in 1..k
               PROVE  n[1] = i \/ n[2] = i \/ n[3] = i \/ n[4] = i
      OBVIOUS
  <2>1. PICK s \in 1..4 : n[s] = i
        BY <1>2
  <2>2. QED
        BY <2>1
<1>5. \A s \in 1..4 : n[s] = 0 \/ n[s] \in 1..k
      BY <1>2
<1>6. CASE k = 2
  <2>1. (n[1] = 1 \/ n[2] = 1 \/ n[3] = 1 \/ n[4] = 1) /\ (n[1] = 2 \/ n[2] = 2 \/ n[3] = 2 \/ n[4] = 2)
        BY <1>4, <1>6
  <2>2. n[1] \in 0..2 /\ n[2] \in 0..2 /\ n[3] \in 0..2 /\ n[4] \in 0..2
        BY <1>5, <1>6
  <2>3. QED
        BY <1>3, <1>6, <2>1, <2>2
<1>7. CASE k = 4
  <2>1. /\ n[1] = 1 \/ n[2] = 1 \/ n[3] = 1 \/ n[4] = 1
        /\ n[1] = 2 \/ n[2] = 2 \/ n[3] = 2 \/ n[4] = 2
        /\ n[1] = 3 \/ n[2] = 3 \/ n[3] = 3 \/ n[4] = 3
        /\ n[1] = 4 \/ n[2] = 4 \/ n[3] = 4 \/ n[4] = 4
        BY <1>4, <1>7
  <2>2. QED
        BY <1>1, <1>3, <1>7, <2>1
<1>8. QED
      BY <1>6, <1>7

\* The banks of a split, combined in any slots but in their order, are the BIOS
\* that was split, whatever commands have run in between.
THEOREM BanksRestore == BanksSpec => CombineRestores
<1>1. ASSUME BanksInv, NEW n \in NameChoices, split # NoSplit, AllBanks(n), Combine(n)
      PROVE  bios' = split.data
  <2> DEFINE d == split.data
  <2>1. d \in Seq(Content) /\ split.banks \in {2, 4}
        BY <1>1 DEF BanksInv, KeptInv
  <2>2. PICK r \in BiosSizes :
          /\ Len(d) = r * split.banks
          /\ \A i \in 1..split.banks : bank[i] = BankOf(d, r, i)
        BY <1>1 DEF BanksInv, KeptInv
  <2>3. bios' = BankAt(n, 1) \o BankAt(n, 2) \o BankAt(n, 3) \o BankAt(n, 4)
        BY <1>1 DEF Combine
  <2>4. \A i \in 1..4 : n[i] = 0 => BankAt(n, i) = <<>>
        BY DEF BankAt
  <2>5. \A i \in 1..4 : n[i] # 0 => BankAt(n, i) = bank[n[i]]
        BY DEF BankAt
  <2>6. r \in Nat
        BY Halves
  <2> HIDE DEF d
  <2>7. CASE split.banks = 4
    <3>1. n[1] = 1 /\ n[2] = 2 /\ n[3] = 3 /\ n[4] = 4
          BY <1>1, <2>1, <2>7, SlotsOf
    <3>2. /\ BankAt(n, 1) = BankOf(d, r, 1) /\ BankAt(n, 2) = BankOf(d, r, 2)
          /\ BankAt(n, 3) = BankOf(d, r, 3) /\ BankAt(n, 4) = BankOf(d, r, 4)
          BY <2>2, <2>5, <2>7, <3>1
    <3>3. Len(d) = 4 * r
          BY <2>2, <2>6, <2>7
    <3>4. bios' = d
          BY <2>1, <2>3, <3>2, <3>3, JoinBanks
    <3>5. QED
          BY <3>4 DEF d
  <2>8. CASE split.banks = 2
    <3> DEFINE x == BankOf(d, r, 1)
               y == BankOf(d, r, 2)
    <3>1. Len(d) = 2 * r /\ bank[1] = x /\ bank[2] = y
      <4>1. Len(d) = 2 * r
            BY <2>2, <2>6, <2>8
      <4>2. 1 \in 1..split.banks /\ 2 \in 1..split.banks
            BY <2>8
      <4>3. QED
            BY <2>2, <4>1, <4>2
    <3>2. x \in Seq(Content) /\ y \in Seq(Content)
      <4>1. bank[1] \in Seq(Content) /\ bank[2] \in Seq(Content)
            BY <1>1 DEF BanksInv, DiskInv, MAX_BANKS
      <4>2. QED
            BY <3>1, <4>1
    <3>3. x \o y = d
          BY <2>1, <3>1, JoinBanks
    <3> HIDE DEF x, y
    <3> DEFINE e == <<>>
    <3>4. /\ x \o e = x /\ e \o x = x /\ y \o e = y
          /\ (x \o y) \o e = x \o y /\ e \o e = e
          BY <3>2, ConcatEmptySeq, ConcatProperties, EmptySeq
    <3>5. \A i \in 1..4 : /\ n[i] = 0 => BankAt(n, i) = e
                          /\ n[i] = 1 => BankAt(n, i) = x
                          /\ n[i] = 2 => BankAt(n, i) = y
          BY <2>4, <2>5, <3>1
    <3> HIDE DEF e
    <3>6. \/ n[1] = 1 /\ n[2] = 2 /\ n[3] = 0 /\ n[4] = 0
          \/ n[1] = 1 /\ n[2] = 0 /\ n[3] = 2 /\ n[4] = 0
          \/ n[1] = 1 /\ n[2] = 0 /\ n[3] = 0 /\ n[4] = 2
          \/ n[1] = 0 /\ n[2] = 1 /\ n[3] = 2 /\ n[4] = 0
          \/ n[1] = 0 /\ n[2] = 1 /\ n[3] = 0 /\ n[4] = 2
          \/ n[1] = 0 /\ n[2] = 0 /\ n[3] = 1 /\ n[4] = 2
          BY <1>1, <2>1, <2>8, SlotsOf
    <3> DEFINE b1 == BankAt(n, 1)
               b2 == BankAt(n, 2)
               b3 == BankAt(n, 3)
               b4 == BankAt(n, 4)
    <3>7. \/ b1 = x /\ b2 = y /\ b3 = e /\ b4 = e
          \/ b1 = x /\ b2 = e /\ b3 = y /\ b4 = e
          \/ b1 = x /\ b2 = e /\ b3 = e /\ b4 = y
          \/ b1 = e /\ b2 = x /\ b3 = y /\ b4 = e
          \/ b1 = e /\ b2 = x /\ b3 = e /\ b4 = y
          \/ b1 = e /\ b2 = e /\ b3 = x /\ b4 = y
      <4>1. /\ 1 \in 1..4 /\ 2 \in 1..4 /\ 3 \in 1..4 /\ 4 \in 1..4
            OBVIOUS
      <4>2. QED
            BY <3>5, <3>6, <4>1
    <3>8. bios' = x \o y
      <4>1. bios' = b1 \o b2 \o b3 \o b4
            BY <2>3
      <4> HIDE DEF b1, b2, b3, b4
      <4>2. CASE b1 = x /\ b2 = y /\ b3 = e /\ b4 = e
            BY <3>4, <4>1, <4>2
      <4>3. CASE b1 = x /\ b2 = e /\ b3 = y /\ b4 = e
            BY <3>4, <4>1, <4>3
      <4>4. CASE b1 = x /\ b2 = e /\ b3 = e /\ b4 = y
            BY <3>4, <4>1, <4>4
      <4>5. CASE b1 = e /\ b2 = x /\ b3 = y /\ b4 = e
            BY <3>4, <4>1, <4>5
      <4>6. CASE b1 = e /\ b2 = x /\ b3 = e /\ b4 = y
            BY <3>4, <4>1, <4>6
      <4>7. CASE b1 = e /\ b2 = e /\ b3 = x /\ b4 = y
            BY <3>4, <4>1, <4>7
      <4>8. QED
            BY <3>7, <4>2, <4>3, <4>4, <4>5, <4>6, <4>7
    <3>9. QED
          BY <3>3, <3>8 DEF d
  <2>9. QED
        BY <2>1, <2>7, <2>8
<1>2. BanksInv /\ [BanksNext]_allVars =>
        [\A n \in NameChoices :
           split # NoSplit /\ AllBanks(n) /\ Combine(n) => bios' = split.data]_allVars
      BY <1>1
<1>3. QED
      BY <1>2, BanksInvariant, PTL DEF BanksSpec, CombineRestores
=============================================================================
