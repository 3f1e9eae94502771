-------------------------------- MODULE Bios --------------------------------
(***************************************************************************)
(* The state of a Bios object and the member functions that load and build *)
(* share: init with getOffsets, validateBldrBootParams, getOffsets2 and    *)
(* the three RC4 functions.  They are state functions of the buffer here,  *)
(* so that the actions of BiosLoad and BiosBuild can chain them.           *)
(***************************************************************************)
EXTENDS BiosImage

VARIABLES
  pc,           \* the next step of the member function that runs
  data, size,   \* the buffer, a function on 0..size-1
  params,       \* BIOS_LOAD_PARAMS, with what is used of the MCPX
  bldr,         \* encryption_state, the boot_params pointer, the keys pointer
  preldr,       \* its status
  kernel,       \* encryption_state and the two pointers
  bp,           \* the sizes read through bldr.boot_params when validated
  bios_status

biosVars == <<pc, data, size, params, bldr, preldr, kernel, bp, bios_status>>

Statuses == {"success", "invalid_bldr", "failed"}
PreldrStatuses == {"bldr_decrypted", "found", "not_found", "error"}
NULL == -1 - MAX_BIOS_SIZE      \* no address of the model

-----------------------------------------------------------------------------
(* Bios::init with getOffsets.                                             *)

\* A bug: the offsets are taken from the ROM size, not from the buffer's.
InitBiosAtRomsize(buff, n, p, encBldr, encKernel) ==
  /\ data' = buff
  /\ size' = n
  /\ params' = p
  /\ bldr' = [enc |-> encBldr, boot_params |-> BldrData(p.romsize) + BootParamsOffset,
              keys |-> NULL, bfm_key |-> NULL]
  /\ kernel' = [enc |-> encKernel, compressed |-> NULL, uncompressed |-> NULL]

InitBios(buff, n, p, encBldr, encKernel) ==
  /\ data' = buff
  /\ size' = n
  /\ params' = [p EXCEPT !.romsize = IF @ > n THEN n ELSE @]
  /\ bldr' = [enc |-> encBldr, boot_params |-> BldrData(n) + BootParamsOffset,
              keys |-> NULL, bfm_key |-> NULL]
  /\ kernel' = [enc |-> encKernel, compressed |-> NULL, uncompressed |-> NULL]

\* The four words of boot parameters a pointer finds, if they are in the clear.
BootParamsAt(mem, ptr) ==
  {[kd |-> v[1], it |-> v[2], ks |-> v[3]] :
     v \in Values(mem[ptr]) \X Values(mem[ptr + 1]) \X Values(mem[ptr + 3])}

\* validateBldrBootParams: each size on its own, against the whole buffer.
ValidBootParams(b) == b.ks <= size /\ b.kd <= size /\ b.it <= size

(* getOffsets2: follow the entry point to the keys, and place the kernel   *)
(* below the 2BL.  ep and ko are what the two words it follows read as.    *)
EntryInBounds(ep) == InBounds(ep - BLDR_ENTRY_SIZE, BLDR_ENTRY_SIZE, BLDR_BLOCK_SIZE)

GetOffsets2(mem, b, bootParams) ==
  LET base == BldrData(size) IN
  \E ep \in Values(mem[base]) :
    \E ko \in IF EntryInBounds(ep) THEN Values(mem[base + ep - BLDR_ENTRY_SIZE]) ELSE {0} :
      /\ bldr' = [bldr EXCEPT
           !.boot_params = bootParams,
           !.keys = IF EntryInBounds(ep) /\ InBounds(ko, BLDR_KEYS_SIZE, BLDR_BLOCK_SIZE)
                    THEN base + ko ELSE NULL,
           !.bfm_key = IF EntryInBounds(ep) /\ InBounds(ko - 1, 1, BLDR_BLOCK_SIZE)
                       THEN base + ko - 1 ELSE NULL]
      /\ kernel' = [kernel EXCEPT !.uncompressed = base - b.kd,
                                  !.compressed = base - b.kd - b.ks]

-----------------------------------------------------------------------------
(* symmetricEncDecBldr: the whole 2BL.                                     *)
EncDecBldr(mem, k) == Rc4(mem, BldrData(size), BLDR_BLOCK_SIZE, k, 0)

\* A bug: the FBL is encrypted along with the 2BL.
MangleFbl(mem, k) == EncDecBldr(mem, k)

(* preldrSymmetricEncDecBldr: the 2BL up to the FBL and, with the keystream *)
(* kept in step, the parameters after it.                                  *)
PreldrEncDecBldr(mem, k) ==
  Rc4(Rc4(mem, BldrData(size), PreldrOffset, k, 0),
      BldrData(size) + ParamsOffset, PRELDR_PARAMS_SIZE, k, ParamsOffset)

(* symmetricEncDecKernel: the key is the one given or, unless it is all 0s *)
(* or all FFs, the one in the 2BL; a kernel out of bounds is left alone.   *)
KernelKey ==
  IF params.kernel_key # NoKey THEN params.kernel_key
  ELSE IF bldr.keys = NULL THEN NoKey
  ELSE LET k == KeyOf(data[bldr.keys + 2]) IN IF k \in {0, ONES} THEN NoKey ELSE k

KernelToggles == KernelKey # NoKey /\ InBounds(kernel.compressed, bp.ks, size)

\* A bug: the kernel's size is taken to be that of all that follows it.
EncDecToBldr(mem) == Rc4(mem, kernel.compressed, bp.ks + bp.kd, KernelKey, 0)

EncDecKernel(mem) == Rc4(mem, kernel.compressed, bp.ks, KernelKey, 0)

\* The key for the 2BL that both load and build look up first.
SbKey == IF params.bldr_key # NoKey THEN params.bldr_key ELSE params.sbkey

-----------------------------------------------------------------------------
Keys == Nat \cup {NoKey}

BIOS_LOAD_PARAMS ==
  [romsize : BiosSizes, bldr_key : Keys, kernel_key : Keys, rev : {-1, 0, 1}, sbkey : Keys,
   enc_bldr : BOOLEAN, enc_kernel : BOOLEAN, restore_boot_params : BOOLEAN]

BLDR == [enc : BOOLEAN, boot_params : Int, keys : Int, bfm_key : Int]
KERNEL == [enc : BOOLEAN, compressed : Int, uncompressed : Int]
BOOT_PARAMS == [kd : Nat, it : Nat, ks : Nat]

TypeOK ==
  /\ size \in BiosSizes
  /\ data \in [0..(size - 1) -> WordType]
  /\ params \in BIOS_LOAD_PARAMS
  /\ bldr \in BLDR
  /\ bldr.boot_params \in {NULL, BldrData(size) + BootParamsOffset,
                           BldrData(size) + BootParamsOffset - PRELDR_NONCE_SIZE}
  /\ preldr \in PreldrStatuses
  /\ kernel \in KERNEL
  /\ bp \in BOOT_PARAMS
  /\ bios_status \in Statuses
=============================================================================
