----------------------------- MODULE MCBiosLoad -----------------------------
(***************************************************************************)
(* BiosLoad on genuine images, with and without an FBL, clear or encrypted,*)
(* and on damaged ones, under every combination of the switches.           *)
(***************************************************************************)
EXTENDS BiosLoad

\* A genuine image is as the record says; 20 and 21 are the boot keys of the
\* two MCPX revisions, 7 the kernel key of the 2BL, 8 one from elsewhere.
KernelKeys == {<<0, NoKey>>, <<7, NoKey>>, <<7, 7>>, <<0, 8>>, <<7, 8>>}

Described(n, fbl, key, kk, kd, it, ks) ==
  [size |-> n, fbl |-> fbl, bldr_key |-> key, bldr_kernel_key |-> kk[1], kernel_key |-> kk[2],
   kd |-> kd, it |-> it, ks |-> ks]

MCImages ==
  {Described(MIN_BIOS_SIZE, FALSE, key, kk, 1, 2, 2) : key \in {NoKey, 20}, kk \in KernelKeys} \cup
  {Described(MIN_BIOS_SIZE, TRUE, 21, kk, 1, 2, 2) : kk \in KernelKeys} \cup
  {Described(2 * MIN_BIOS_SIZE, fbl, IF fbl THEN 21 ELSE 20, <<7, 7>>, 3, 5, 20) : fbl \in BOOLEAN}

\* Boot parameters that pass the checks one by one and do not fit together.
Damaged ==
  {Described(MIN_BIOS_SIZE, fbl, IF fbl THEN 21 ELSE 20, <<7, NoKey>>, 20, 0, MIN_BIOS_SIZE) :
     fbl \in BOOLEAN}

\* An FBL whose word before it, the 2BL entry offset, is not a valid one.
BadEntry(im) ==
  LET a == BldrData(im.size) + PreldrOffset - BLDR_ENTRY_SIZE IN
  [Image(im) EXCEPT ![a] = [@ EXCEPT !.at = BLDR_BLOCK_SIZE + 1]]

MCFiles ==
  {Image(im) : im \in MCImages \cup Damaged} \cup
  {BadEntry(im) : im \in {i \in MCImages : i.fbl /\ i.size = MIN_BIOS_SIZE}}

DamagedFiles == {Image(im) : im \in Damaged}

\* The MCPX ROMs: revision and boot key, or none; and key files or none.
Mcpx == {<<0, 20>>, <<1, 21>>, <<-1, NoKey>>}

MCSwitches ==
  {[romsize |-> MIN_BIOS_SIZE, bldr_key |-> bk, kernel_key |-> kk, rev |-> m[1], sbkey |-> m[2],
    enc_bldr |-> eb, enc_kernel |-> ek, restore_boot_params |-> r] :
     bk \in {NoKey, 20}, kk \in {NoKey, 8}, m \in Mcpx, eb \in BOOLEAN, ek \in BOOLEAN,
     r \in BOOLEAN}

=============================================================================
