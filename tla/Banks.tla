------------------------------- MODULE Banks -------------------------------
(***************************************************************************)
(* -split, -combine and -replicate, as a user runs them one after another  *)
(* on one BIOS file: -split writes its banks to bank files, -combine makes *)
(* it from bank files, -replicate makes it larger.                         *)
(***************************************************************************)
EXTENDS Replicate, Sequences, FiniteSets

CONSTANTS
  Dumps,        \* the BIOS files a session may start with, of any size
  NameChoices,  \* what -combine may be given: for each slot a bank file, or 0
  MaxCommands   \* bounds a session

ASSUME BanksAssumption ==
  /\ MaxCommands \in Nat
  /\ NameChoices \subseteq [1..4 -> 0..4]
  /\ Dumps \subseteq Seq(Content)

VARIABLES
  bios,      \* the BIOS file: a sequence of words
  bank,      \* the bank files 1 to 4, each a sequence of words, or Absent
  cmd,       \* the command that runs, or "none"
  result,    \* the exit code of the last command
  count,     \* how many commands there have been
  romsize, left, loops,   \* splitBios: params.romsize, dataLeft, loopCount
  split      \* history: the BIOS that was split last and how many banks it has

disk == <<bios, bank>>
shell == <<result, count>>
splitVars == <<romsize, left, loops>>
allVars == <<replVars, disk, cmd, shell, splitVars, split>>

Absent == <<>>
MAX_BANKS == 4
NoSplit == [data |-> <<>>, banks |-> 0]
bios_check_size(n) == n \in BiosSizes

-----------------------------------------------------------------------------
Idle == cmd = "none" /\ count < MaxCommands
Begin(c) == Idle /\ cmd' = c /\ count' = count + 1 /\ UNCHANGED result

\* The counters of a command go with it.
FreeSplit == romsize' = MIN_BIOS_SIZE /\ left' = 0 /\ loops' = 0
Exit(code) == cmd' = "none" /\ result' = code /\ UNCHANGED count

\* A command that is over as soon as its files have been looked at.
Immediately(code) ==
  /\ Idle /\ count' = count + 1 /\ result' = code
  /\ UNCHANGED <<replVars, disk, cmd, splitVars, split>>

-----------------------------------------------------------------------------
(* splitBios.                                                              *)
SplitInvalid == ~bios_check_size(Len(bios)) /\ Immediately(1)

SplitNothing ==
  /\ bios_check_size(Len(bios))
  /\ \E r \in BiosSizes : Len(bios) <= r
  /\ Immediately(0)

\* The name of the file has no extension to put the bank's number before.
SplitNoExtension ==
  /\ bios_check_size(Len(bios))
  /\ \E r \in BiosSizes : Len(bios) > r
  /\ Immediately(1)

SplitBegin ==
  /\ Begin("split")
  /\ bios_check_size(Len(bios))
  /\ romsize' \in {r \in BiosSizes : r < Len(bios)}
  /\ left' = Len(bios) /\ loops' = 0
  /\ split' = NoSplit
  /\ UNCHANGED <<replVars, disk>>

\* A bug: the banks are where they are in the smallest ROMs.
SmallBank == SubSeq(bios, MIN_BIOS_SIZE * loops + 1, MIN_BIOS_SIZE * loops + romsize)

BankData == SubSeq(bios, romsize * loops + 1, romsize * loops + romsize)

\* The banks are written one by one, under a safe guard that comes one too late.
SplitWrite ==
  /\ cmd = "split"
  /\ left > 0 /\ loops <= 4
  /\ bank' = [bank EXCEPT ![loops + 1] = BankData]
  /\ left' = left - romsize
  /\ loops' = loops + 1
  /\ UNCHANGED <<replVars, bios, cmd, shell, romsize, split>>

\* The file of a bank cannot be opened.  Those before it have been written.
SplitFails ==
  /\ cmd = "split" /\ left > 0
  /\ Exit(1) /\ FreeSplit
  /\ UNCHANGED <<replVars, disk, split>>

SplitEnd ==
  /\ cmd = "split" /\ left = 0
  /\ Exit(0) /\ FreeSplit
  /\ split' = [data |-> bios, banks |-> loops]
  /\ UNCHANGED <<replVars, disk>>

-----------------------------------------------------------------------------
(* combineBios.  The files that are given are read and checked, each and   *)
(* all together, before anything is copied.  A slot may name any bank file *)
(* or none.                                                                *)
BankAt(n, i) == IF n[i] = 0 THEN <<>> ELSE bank[n[i]]

\* A bug: the last slot is not counted.
SizeOfThree(n) == Len(BankAt(n, 1)) + Len(BankAt(n, 2)) + Len(BankAt(n, 3))

TotalSize(n) ==
  Len(BankAt(n, 1)) + Len(BankAt(n, 2)) + Len(BankAt(n, 3)) + Len(BankAt(n, 4))

Combinable(n) ==
  LET given == {i \in 1..MAX_BANKS : n[i] # 0} IN
  /\ \A i \in given : bios_check_size(Len(bank[n[i]]))
  /\ Cardinality(given) >= 2
  /\ bios_check_size(TotalSize(n))

CombineFails ==
  /\ \E n \in NameChoices : ~Combinable(n)
  /\ Immediately(1)

Combine(n) ==
  /\ Idle /\ count' = count + 1 /\ result' = 0
  /\ Combinable(n)
  /\ bios' = BankAt(n, 1) \o BankAt(n, 2) \o BankAt(n, 3) \o BankAt(n, 4)
  /\ UNCHANGED <<replVars, bank, cmd, splitVars, split>>

-----------------------------------------------------------------------------
(* replicateBios.  The buffer behind the image is what malloc has left.    *)
ReplicateInvalid == ~bios_check_size(Len(bios)) /\ Immediately(1)

ReplicateNothing ==
  /\ bios_check_size(Len(bios))
  /\ \E t \in BiosSizes : Len(bios) >= t
  /\ Immediately(0)

ReplicateBegin ==
  /\ Begin("replicate")
  /\ bios_check_size(Len(bios))
  /\ \E t \in {n \in BiosSizes : Len(bios) < n}, rest \in Content :
       Call(Len(bios), t, [a \in 0..(t - 1) |-> IF a < Len(bios) THEN bios[a + 1] ELSE rest])
  /\ UNCHANGED <<disk, splitVars, split>>

ReplicateStep ==
  /\ cmd = "replicate"
  /\ ReplicateNext
  /\ UNCHANGED <<disk, cmd, shell, splitVars, split>>

ReplicateEnd ==
  /\ cmd = "replicate" /\ done
  /\ bios' = [i \in 1..to |-> buffer[i - 1]]
  /\ Exit(0)
  /\ UNCHANGED <<replVars, bank, splitVars, split>>

-----------------------------------------------------------------------------
BanksInit ==
  /\ bios \in Dumps
  /\ bank = [i \in 1..MAX_BANKS |-> Absent]
  /\ cmd = "none" /\ result = 0 /\ count = 0
  /\ romsize = MIN_BIOS_SIZE /\ left = 0 /\ loops = 0
  /\ from = MIN_BIOS_SIZE /\ to = MIN_BIOS_SIZE /\ offset = from /\ done = TRUE
  /\ buffer = [a \in 0..(to - 1) |-> CHOOSE w \in Content : TRUE] /\ orig = buffer
  /\ split = NoSplit

BanksNext ==
  \/ SplitInvalid \/ SplitNothing \/ SplitNoExtension \/ SplitBegin \/ SplitWrite \/ SplitFails \/ SplitEnd
  \/ CombineFails \/ \E n \in NameChoices : Combine(n)
  \/ ReplicateInvalid \/ ReplicateNothing \/ ReplicateBegin \/ ReplicateStep \/ ReplicateEnd

BanksSpec == BanksInit /\ [][BanksNext]_allVars

-----------------------------------------------------------------------------
\* dataLeft is unsigned and comes to 0 exactly, no fifth bank file is ever
\* written, which the safe guard of the loop would allow, and no command makes a
\* BIOS file or a bank file of a size that the next one refuses.
BanksTypeOK ==
  /\ left \in Nat
  /\ loops \in 0..MAX_BANKS
  /\ bios \in Dumps \/ bios_check_size(Len(bios))
  /\ DOMAIN bank = 1..MAX_BANKS
  /\ \A i \in 1..MAX_BANKS : bank[i] = Absent \/ bios_check_size(Len(bank[i]))
  /\ cmd \in {"none", "split", "replicate"}

\* The slots a user fills by naming the banks of the last split in their order,
\* leaving any slots out.
AllBanks(n) ==
  /\ {n[s] : s \in 1..MAX_BANKS} \ {0} = 1..split.banks
  /\ \A s, t \in 1..MAX_BANKS : s < t /\ n[t] # 0 => n[s] < n[t]

\* The banks that a -split has written make the BIOS again when they are
\* combined, whatever other commands came in between and whatever became of the
\* BIOS file: no bank is shifted, cut short or left from an earlier split.
CombineRestores ==
  [][\A n \in NameChoices :
       split # NoSplit /\ AllBanks(n) /\ Combine(n) => bios' = split.data]_allVars
=============================================================================
