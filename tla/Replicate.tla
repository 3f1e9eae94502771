----------------------------- MODULE Replicate -----------------------------
(***************************************************************************)
(* bios_replicate_data: copy the first from words of a buffer over the     *)
(* rest of it, doubling what has been copied each time.                    *)
(***************************************************************************)
EXTENDS Integers

CONSTANTS
  MIN_BIOS_SIZE,   \* the smallest image; the others are 2 and 4 times it
  Content          \* what a word of an image may be

ASSUME SizeAssumption == MIN_BIOS_SIZE \in Nat \ {0}

VARIABLES
  from, to,        \* the parameters
  buffer,
  offset,          \* how much of the buffer is in place
  done,            \* whether it has returned, and with 0
  orig             \* history: the buffer it was called with

replVars == <<from, to, buffer, offset, done, orig>>

BiosSizes == {MIN_BIOS_SIZE, 2 * MIN_BIOS_SIZE, 4 * MIN_BIOS_SIZE}

-----------------------------------------------------------------------------
(* The call.  The buffer is as large as what it is to become; its words    *)
(* behind the first from are whatever is there.  Both callers make sure    *)
(* that from < to and that the buffer has to words, which it checks again. *)
Call(f, t, b) ==
  /\ from' = f /\ to' = t
  /\ buffer' = b /\ orig' = b
  /\ offset' = f
  /\ done' = FALSE

\* A bug: the last copy is skipped.
HasRoomStrictly == to > 2 * offset

new_size == 2 * offset
HasRoom == offset < 2 * offset /\ to >= 2 * offset

\* memcpy(buffer + offset, buffer, offset)
CopyPrefix ==
  [a \in DOMAIN buffer |->
     IF a >= offset /\ a < 2 * offset THEN buffer[a - offset] ELSE buffer[a]]

\* Copy what is in place, unless that is more than there is room for.
Double ==
  /\ ~done /\ offset < to
  /\ buffer' = IF HasRoom THEN CopyPrefix ELSE buffer
  /\ offset' = new_size
  /\ UNCHANGED <<from, to, done, orig>>

Return ==
  /\ ~done /\ offset >= to
  /\ done' = TRUE
  /\ UNCHANGED <<from, to, buffer, offset, orig>>

-----------------------------------------------------------------------------
(* On its own: any image size, any larger one, any buffer.                 *)
ReplicateInit ==
  /\ from \in BiosSizes /\ to \in BiosSizes /\ from < to
  /\ buffer \in [0..(to - 1) -> Content] /\ orig = buffer
  /\ offset = from /\ done = FALSE

ReplicateNext == Double \/ Return

ReplicateSpec == ReplicateInit /\ [][ReplicateNext]_replVars

-----------------------------------------------------------------------------
\* The sizes stay those of images and the doubling never leaves their scale.
ReplicateTypeOK ==
  /\ from \in BiosSizes /\ to \in BiosSizes
  /\ buffer \in [0..(to - 1) -> Content] /\ orig \in [0..(to - 1) -> Content]
  /\ offset \in {from, 2 * from, 4 * from}
  /\ done \in BOOLEAN

\* When it returns, every bank of the buffer is the first one: the copies ended
\* where the buffer ends, no word was left as it was and none was copied from
\* a place that was not in place yet.
Copied ==
  done =>
    \A r \in 0..(from - 1), k \in 0..3 :
      k * from + r < to => buffer[k * from + r] = orig[r]

\* It never copies what is behind the part that is in place, nor changes it.
PrefixKept == [][\A a \in 0..(to - 1) : a < offset => buffer'[a] = buffer[a]]_replVars
=============================================================================
