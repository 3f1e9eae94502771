---- MODULE LzxSlots ----
(***************************************************************************)
(* A match's position on the wire, with the real constants: the encoder    *)
(* (src/src/lzx_encoder.c) turns it into a slot and some extra bits, the   *)
(* decoder (src/src/lzx_decoder.c) adds the extra bits to the slot's base. *)
(* Positions 0 .. 2 name the repeated offsets, p > 2 is the distance p - 2.*)
(***************************************************************************)
EXTENDS Integers, Sequences

lzx_extra_bits ==
  <<0,0,0,0,1,1,2,2, 3,3,4,4,5,5,6,6, 7,7,8,8,9,9,10,10, 11,11,12,12,13,13,14,14,
    15,15,16,16,17,17,17,17, 17,17,17,17,17,17,17,17, 17,17,17>>
ExtraBits(slot) == lzx_extra_bits[slot + 1]

match_pos_minus2 ==
  <<0-2, 1-2, 2-2, 3-2, 4-2, 6-2, 8-2, 12-2,
    16-2, 24-2, 32-2, 48-2, 64-2, 96-2, 128-2, 192-2,
    256-2, 384-2, 512-2, 768-2, 1024-2, 1536-2, 2048-2, 3072-2,
    4096-2, 6144-2, 8192-2, 12288-2, 16384-2, 24576-2, 32768-2, 49152-2,
    65536-2, 98304-2, 131072-2, 196608-2, 262144-2, 393216-2, 524288-2, 655360-2,
    786432-2, 917504-2, 1048576-2, 1179648-2, 1310720-2, 1441792-2, 1572864-2, 1703936-2,
    1835008-2, 1966080-2, 2097152-2>>
MinusTwo(slot) == match_pos_minus2[slot + 1]

slot_mask(slot) == 2 ^ ExtraBits(slot) - 1

\* create_slot_lookup_table: two slots of n elements each, then n doubles.
RECURSIVE SlotsFrom(_, _, _)
SlotsFrom(table, slotnum, n) ==
  IF Len(table) >= 1024 THEN table
  ELSE SlotsFrom(table \o [j \in 1 .. n |-> slotnum] \o [j \in 1 .. n |-> slotnum + 1],
                 slotnum + 2, 2 * n)
slot_table == SlotsFrom(<<0, 1, 2, 3>>, 4, 2)

\* A bug: the table's second row begins a slot early.
SlotAheadByOne(p) == IF p < 1024 THEN slot_table[p + 1]
                     ELSE IF p < 524288 THEN 17 + slot_table[(p \div 512) + 1]
                     ELSE 34 + p \div 131072

MP_SLOT(p) == IF p < 1024 THEN slot_table[p + 1]
              ELSE IF p < 524288 THEN 18 + slot_table[(p \div 512) + 1]
              ELSE 34 + p \div 131072

\* decode_init and alloc_compress_memory: the slots a window of a size needs.
RECURSIVE SlotsUpTo(_, _, _)
SlotsUpTo(slots, start, size) ==
  LET next == start + 2 ^ ExtraBits(slots) IN
  IF next >= size THEN slots + 1 ELSE SlotsUpTo(slots + 1, next, size)
num_position_slots(size) == SlotsUpTo(4, 4, size)

-----------------------------------------------------------------------------
\* The two forms of a position: [slot, extra], or with the low three bits apart.
EncodeVerbatim(p) == [slot |-> MP_SLOT(p), extra |-> p % (slot_mask(MP_SLOT(p)) + 1)]
EncodeAligned(p) ==
  LET n == ExtraBits(MP_SLOT(p)) IN
  [slot |-> MP_SLOT(p),
   extra |-> IF n > 3 THEN (p \div 8) % 2 ^ (n - 3) ELSE IF n = 3 THEN 0
             ELSE p % (slot_mask(MP_SLOT(p)) + 1),
   lower |-> p % 8]

\* The special loops write 1 where the fast loops look slot 3 up.
DecodeVerbatim(c, special) ==
  IF c.slot > 3 THEN c.extra + MinusTwo(c.slot) ELSE IF special THEN 1 ELSE MinusTwo(3)
DecodeAligned(c, special) ==
  IF ExtraBits(c.slot) >= 3 THEN MinusTwo(c.slot) + c.extra * 8 + c.lower
  ELSE IF ExtraBits(c.slot) > 0 THEN c.extra + MinusTwo(c.slot)
  ELSE IF special THEN 1 ELSE MinusTwo(c.slot)

\* Every position a match may have comes back as its distance through each of the four
\* loops, its slot is one both sides have room for, and only slots 0 .. 2 are repeated
\* offsets.
PositionArrives(p, size) ==
  /\ MP_SLOT(p) < num_position_slots(size)
  /\ (p <= 2) = (MP_SLOT(p) <= 2)
  /\ p > 2 => \A special \in BOOLEAN :
                /\ DecodeVerbatim(EncodeVerbatim(p), special) = p - 2
                /\ DecodeAligned(EncodeAligned(p), special) = p - 2
=============================================================================
