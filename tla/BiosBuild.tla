----------------------------- MODULE BiosBuild -----------------------------
(***************************************************************************)
(* Bios::build: choose the size of the ROM, lay the components out in a    *)
(* zeroed buffer, encrypt the kernel and the 2BL, put the FBL in place and *)
(* replicate the ROM over the rest of the buffer.                          *)
(***************************************************************************)
EXTENDS Bios

CONSTANTS
  INIT_TBL_IDENTIFIER   \* the word of the init table that takes the bfm flag

ASSUME IdentifierAssumption == INIT_TBL_IDENTIFIER \in Nat

VARIABLES
  build,       \* BIOS_BUILD_PARAMS; its files are sequences of words
  overrun,     \* whether a copy has gone outside of the buffer
  used         \* history: the keys the 2BL and the kernel were encrypted with

buildVars == <<build, overrun, used>>

-----------------------------------------------------------------------------
(* The sizes.                                                              *)

\* A bug: the kernel data is forgotten.
SpaceWithoutData(b) ==
  BLDR_BLOCK_SIZE + MCPX_BLOCK_SIZE + Len(b.krnl) + Len(b.inittbl)

RequiredSpace(b) ==
  BLDR_BLOCK_SIZE + MCPX_BLOCK_SIZE + Len(b.krnl) + Len(b.kdata) + Len(b.inittbl)

\* validate_required_space: double until it is enough or is the maximum.  The
\* result is a size bios_check_size accepts, enough or not: its error message
\* is never reached from a -romsize that was accepted.
Doubled(n, required) ==
  CHOOSE m \in {n, 2 * n, 4 * n} :
    /\ m >= required \/ m >= MAX_BIOS_SIZE
    /\ \A k \in {n, 2 * n, 4 * n} : k < m => k < required /\ k < MAX_BIOS_SIZE

RomSize(b, romsize) == Doubled(romsize, RequiredSpace(b))

Larger(m, n) == IF m < n THEN n ELSE m

\* build until init has set the buffer up.  The flags it then overrides are
\* those of what it has to do: FALSE is encrypt, TRUE is leave alone.
BuildBegin(b, binsize, p) ==
  LET rom == RomSize(b, p.romsize)
      bin == Larger(IF b.bfm THEN MAX_BIOS_SIZE ELSE binsize, rom)
  IN /\ InitBios([a \in 0..(bin - 1) |-> Zero], bin, [p EXCEPT !.romsize = rom],
                 p.enc_bldr, p.enc_kernel <=> p.kernel_key # NoKey)
     /\ build' = b
     /\ overrun' = FALSE
     /\ used' = [bldr |-> NoKey, kernel |-> NoKey]
     /\ preldr' = "error"
     /\ bp' = [kd |-> 0, it |-> 0, ks |-> 0]
     /\ bios_status' = "success"
     /\ pc' = "copy_bldr"

Fail == bios_status' = "failed" /\ pc' = "built"

-----------------------------------------------------------------------------
(* Laying out.                                                             *)

\* The boot parameters, unless they are to be left as the 2BL file has them.
UpdateBootParams(mem) ==
  IF build.nobootparams THEN mem
  ELSE CopyIn(mem, bldr.boot_params,
              <<Word(Len(build.kdata)),
                Word(IF build.hackinittbl THEN 0 ELSE Len(build.inittbl)),
                Word(IF build.hacksignature THEN ONES ELSE 1),
                Word(Len(build.krnl))>>)

BldrTooBig ==
  /\ pc = "copy_bldr"
  /\ Len(build.bldr) > BLDR_BLOCK_SIZE
  /\ Fail
  /\ UNCHANGED <<data, size, params, bldr, preldr, kernel, bp, buildVars>>

\* memcpy of the 2BL, boot params, validateBldrBootParams, getOffsets2.
CopyBldr ==
  /\ pc = "copy_bldr"
  /\ Len(build.bldr) <= BLDR_BLOCK_SIZE
  /\ data' = UpdateBootParams(CopyIn(data, BldrData(size), build.bldr))
  /\ \E b \in BootParamsAt(data', bldr.boot_params) :
       /\ bp' = b
       /\ IF ValidBootParams(b)
          THEN /\ GetOffsets2(data', b, bldr.boot_params)
               /\ pc' = "copy_kernel"
               /\ UNCHANGED bios_status
          ELSE /\ bios_status' = "invalid_bldr"
               /\ pc' = "built"
               /\ UNCHANGED <<bldr, kernel>>
  /\ UNCHANGED <<size, params, preldr, buildVars>>

\* A bug: the init table is compared with the buffer only.
InitTblLargerThanRom == Len(build.inittbl) > size

\* Where the kernel and the kernel data end up is what the boot parameters
\* say; how much is copied is what the files hold.  The init table is checked
\* against the kernel once that is in place.  The sizes are read again later,
\* and a copy that is too long may have changed them.
InitTblTooBig == Len(build.inittbl) >= kernel.compressed

Outside(first, len) == first < 0 \/ first + len > size

\* The keys that are given replace those of the 2BL.
UpdateKeys(mem) ==
  LET Set(m, i, k) == IF k = NoKey THEN m ELSE CopyIn(m, bldr.keys + i, <<Word(k)>>)
  IN Set(Set(mem, 0, build.eeprom_key), 1, build.cert_key)

\* KD_DELAY_FLAG, or-ed into the identifier of the init table.
BfmFlag(mem) == IF build.bfm THEN CopyIn(mem, INIT_TBL_IDENTIFIER, <<Clear("bfm", 0)>>) ELSE mem

CopyKernel ==
  /\ pc = "copy_kernel"
  /\ LET krnl == CopyIn(CopyIn(UpdateKeys(data), kernel.compressed, build.krnl),
                        kernel.uncompressed, build.kdata)
     IN IF InitTblTooBig
        THEN data' = krnl /\ Fail
        ELSE /\ data' = BfmFlag(CopyIn(krnl, 0, build.inittbl))
             /\ pc' = "encrypt_kernel"
             /\ UNCHANGED bios_status
  /\ overrun' = (\/ Outside(kernel.compressed, Len(build.krnl))
                  \/ Outside(kernel.uncompressed, Len(build.kdata))
                  \/ (bldr.keys = NULL /\ {build.eeprom_key, build.cert_key} # {NoKey}))
  /\ bp' \in IF Slice(data', bldr.boot_params, FIELDS_SIZE) = Slice(data, bldr.boot_params, FIELDS_SIZE)
             THEN {bp} ELSE BootParamsAt(data', bldr.boot_params)
  /\ UNCHANGED <<size, params, bldr, preldr, kernel, build, used>>

-----------------------------------------------------------------------------
(* Encrypting.                                                             *)

\* A bug: the kernel key goes where the cert key is.
SetCertKey(mem, k) ==
  IF bldr.keys # NULL /\ params.kernel_key # NoKey
  THEN CopyIn(mem, bldr.keys + 1, <<Word(k)>>) ELSE mem

SetKernelKey(mem, k) ==
  IF bldr.keys # NULL /\ params.kernel_key # NoKey
  THEN CopyIn(mem, bldr.keys + 2, <<Word(k)>>) ELSE mem

EncryptKernel ==
  /\ pc = "encrypt_kernel"
  /\ ~kernel.enc
  /\ IF KernelToggles
     THEN /\ data' = SetKernelKey(EncDecKernel(data), params.kernel_key)
          /\ kernel' = [kernel EXCEPT !.enc = TRUE]
          /\ used' = [used EXCEPT !.kernel = KernelKey]
     ELSE UNCHANGED <<data, kernel, used>>
  /\ pc' = "encrypt_bldr"
  /\ UNCHANGED <<size, params, bldr, preldr, bp, bios_status, build, overrun>>

\* zero_kernel_key is a field that bios_init_build_params does not set and no
\* switch does: it is whatever was on the stack.
KeepKernelClear ==
  /\ pc = "encrypt_kernel"
  /\ kernel.enc
  /\ \E zero_kernel_key \in BOOLEAN :
       data' = IF zero_kernel_key THEN SetKernelKey(data, 0) ELSE data
  /\ pc' = "encrypt_bldr"
  /\ UNCHANGED <<size, params, bldr, preldr, kernel, bp, bios_status, buildVars>>

\* A boot-from-media image without any other key is encrypted with its own.
BuildKey ==
  IF SbKey # NoKey THEN SbKey
  ELSE IF build.bfm /\ bldr.bfm_key # NULL THEN KeyOf(data[bldr.bfm_key]) ELSE NoKey

EncryptBldr ==
  /\ pc = "encrypt_bldr"
  /\ IF ~bldr.enc /\ BuildKey # NoKey
     THEN /\ data' = EncDecBldr(data, BuildKey)
          /\ bldr' = [bldr EXCEPT !.enc = TRUE]
          /\ used' = [used EXCEPT !.bldr = BuildKey]
     ELSE UNCHANGED <<data, bldr, used>>
  /\ pc' = "copy_preldr"
  /\ UNCHANGED <<size, params, preldr, kernel, bp, bios_status, build, overrun>>

-----------------------------------------------------------------------------
(* The FBL, over the encrypted 2BL, and the replication.                   *)
PreldrTooBig == Len(build.preldr) > PRELDR_SIZE

CopyPreldr ==
  /\ pc = "copy_preldr"
  /\ IF PreldrTooBig
     THEN Fail /\ UNCHANGED data
     ELSE /\ data' = CopyIn(data, BldrData(size) + PreldrOffset, build.preldr)
          /\ pc' = "replicate"
          /\ UNCHANGED bios_status
  /\ UNCHANGED <<size, params, bldr, preldr, kernel, bp, buildVars>>

\* bios_replicate_data, which Replicate models step by step.
ReplicateRom ==
  /\ pc = "replicate"
  /\ data' = IF size > params.romsize
             THEN [a \in DOMAIN data |-> data[a % params.romsize]] ELSE data
  /\ bios_status' = "success"
  /\ pc' = "built"
  /\ UNCHANGED <<size, params, bldr, preldr, kernel, bp, buildVars>>

BuildStep ==
  \/ BldrTooBig \/ CopyBldr \/ CopyKernel
  \/ EncryptKernel \/ KeepKernelClear \/ EncryptBldr
  \/ CopyPreldr \/ ReplicateRom
=============================================================================
