------------------------------ MODULE MCXbTool ------------------------------
(***************************************************************************)
(* Sessions of three commands, from genuine images or component files.     *)
(* Keys: 20 and 21 are the boot keys of the two MCPX revisions, 7 the      *)
(* kernel key of the 2BL and 8 one from elsewhere.                         *)
(***************************************************************************)
EXTENDS XbTool

Described(fbl, key, kk, kd, it, ks) ==
  [size |-> MIN_BIOS_SIZE, fbl |-> fbl, bldr_key |-> key, bldr_kernel_key |-> 7,
   kernel_key |-> kk, kd |-> kd, it |-> it, ks |-> ks]

MCImages == {Described(fbl, IF fbl THEN 21 ELSE 20, 7, 1, 2, 2) : fbl \in BOOLEAN}
MCFiles == {Image(im) : im \in MCImages}

\* Component files: a 2BL whole or cut short, a kernel that fits the smallest
\* ROM, fits exactly, fits the next or does not fit any; an FBL or none.
Parts(d, cut, fbl) ==
  [bldr |-> SubSeq(PlainBldr(d), 1, BLDR_BLOCK_SIZE - cut), krnl |-> Kernel(d),
   kdata |-> KernelData(d), inittbl |-> InitTbl(d), preldr |-> IF fbl THEN Fbl ELSE Absent]

MCComponents ==
  {Parts(Described(FALSE, NoKey, NoKey, 1, 2, 2), 0, fbl) : fbl \in BOOLEAN} \cup
  {Parts(Described(FALSE, NoKey, NoKey, s[1], s[2], s[3]), s[4], TRUE) :
     s \in {<<1, 2, 4, 0>>, <<1, 1, 5, 2>>, <<0, 3, 30, 0>>, <<2, 0, 3, 0>>}}

\* Files that do not go together, or not into any image.
OddComponents ==
  LET ok == Parts(Described(FALSE, NoKey, NoKey, 1, 2, 2), 0, TRUE) IN
  {[ok EXCEPT !.bldr = @ \o <<Zero>>], [ok EXCEPT !.preldr = @ \o <<Zero>>],
   [ok EXCEPT !.kdata = [i \in 1..9 |-> Clear("kdata", i)]],
   [ok EXCEPT !.krnl = [i \in 1..MAX_BIOS_SIZE |-> Clear("krnl", i)]],
   [ok EXCEPT !.inittbl = [i \in 1..MAX_BIOS_SIZE |-> Clear("init", i)]],
   [ok EXCEPT !.bldr = [i \in 1..BLDR_BLOCK_SIZE |-> Code(i)]]}

LoadParams(n, bk, kk, m, eb, ek, r) ==
  [romsize |-> n, bldr_key |-> bk, kernel_key |-> kk, rev |-> m[1], sbkey |-> m[2],
   enc_bldr |-> eb, enc_kernel |-> ek, restore_boot_params |-> r]

Mcpx == {<<0, 20>>, <<1, 21>>, <<-1, NoKey>>}

\* extractBios: the rom size plays no part.
MCSwitches ==
  {LoadParams(MIN_BIOS_SIZE, NoKey, kk, m, eb, ek, TRUE) :
     kk \in {NoKey, 8}, m \in Mcpx, eb \in BOOLEAN, ek \in BOOLEAN}

Flags(bfm, nbp, it, sig, ek, ck, fbl) ==
  [bfm |-> bfm, nobootparams |-> nbp, hackinittbl |-> it, hacksignature |-> sig,
   eeprom_key |-> ek, cert_key |-> ck, preldr |-> fbl]

\* buildBios leaves restore_boot_params as it is.
BuildSwitch(f, bin, p) ==
  [bfm |-> f.bfm, nobootparams |-> f.nobootparams, hackinittbl |-> f.hackinittbl,
   hacksignature |-> f.hacksignature, eeprom_key |-> f.eeprom_key, cert_key |-> f.cert_key,
   preldr |-> f.preldr, binsize |-> bin, params |-> p]

\* Every way to choose the keys, plain; and the flags, with some of them.
KeyChoices ==
  {LoadParams(MIN_BIOS_SIZE, NoKey, kk, m, eb, ek, TRUE) :
     kk \in {NoKey, 8}, m \in Mcpx, eb \in {FALSE}, ek \in BOOLEAN} \cup
  {LoadParams(MIN_BIOS_SIZE, 20, NoKey, <<1, 21>>, eb, TRUE, TRUE) : eb \in BOOLEAN}

MCBuildSwitches ==
  {BuildSwitch(Flags(FALSE, FALSE, FALSE, FALSE, NoKey, NoKey, TRUE), MIN_BIOS_SIZE, p) :
     p \in KeyChoices} \cup
  {BuildSwitch(f, n, p) :
     f \in {Flags(TRUE, FALSE, FALSE, FALSE, NoKey, NoKey, FALSE),
            Flags(FALSE, TRUE, FALSE, FALSE, 11, NoKey, TRUE),
            Flags(FALSE, FALSE, TRUE, TRUE, 11, 12, FALSE)},
     n \in {MIN_BIOS_SIZE, MAX_BIOS_SIZE},
     p \in {LoadParams(r, NoKey, kk, <<-1, NoKey>>, FALSE, TRUE, TRUE) :
              r \in {MIN_BIOS_SIZE, MAX_BIOS_SIZE}, kk \in {NoKey, 8}}}

AllComponents == MCComponents \cup OddComponents
=============================================================================
