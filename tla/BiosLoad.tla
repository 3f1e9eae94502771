------------------------------ MODULE BiosLoad ------------------------------
(***************************************************************************)
(* Bios::load: find an FBL and let it decrypt the 2BL, decrypt the 2BL     *)
(* when that did not happen, read the boot parameters, place the kernel    *)
(* and decrypt it.  One action per outcome of each member function.        *)
(***************************************************************************)
EXTENDS Bios

CONSTANTS
  Mimic,     \* whether a word that is no FBL's may read as its jump opcode
  Files,     \* the files that may be loaded, of a size bios_check_size accepts
  Images,    \* genuine images, of which some of the files may be
  Switches   \* the BIOS_LOAD_PARAMS the command line may ask for

ASSUME LoadAssumption ==
  /\ Mimic \in BOOLEAN
  /\ \A f \in Files : \E n \in BiosSizes : f \in [0..(n - 1) -> WordType]
  /\ Switches \subseteq BIOS_LOAD_PARAMS

\* What makes an image genuine: its parts have room below the 2BL, and one with
\* an FBL is encrypted, with a key that is made from the nonce.
IMAGE ==
  [size : BiosSizes, fbl : BOOLEAN, bldr_key : Keys, bldr_kernel_key : Nat, kernel_key : Keys,
   kd : Nat, it : Nat, ks : Nat]

ASSUME ImagesAssumption ==
  \A im \in Images :
    /\ im \in IMAGE
    /\ im.it + im.ks + im.kd <= BldrData(im.size)
    /\ im.fbl => im.bldr_key # NoKey

VARIABLES
  file       \* what readFile returned; the buffer is this until load changes it

vars == <<biosVars, file>>

-----------------------------------------------------------------------------
(* The beginning of load, for a file and its switches.                     *)
LoadBegin(buff, n, p) ==
  /\ InitBios(buff, n, p, ~p.enc_bldr, ~p.enc_kernel)
  /\ preldr' = "error"
  /\ bp' = [kd |-> 0, it |-> 0, ks |-> 0]
  /\ bios_status' = "success"
  /\ pc' = "preldr"

-----------------------------------------------------------------------------
(* preldrValidateAndDecryptBldr.                                           *)
PreldrData == BldrData(size) + PreldrOffset

\* preldr.params->jmp_opcode == 0xE9
JmpOpcode(w) ==
  IF w.ks = {} /\ w.src = "fbl" THEN {TRUE}
  ELSE IF w.ks = {} /\ w.src = "word" THEN {FALSE}
  ELSE {FALSE, Mimic}

PreldrNotFound ==
  /\ pc = "preldr"
  /\ FALSE \in JmpOpcode(data[PreldrData])
  /\ preldr' = "not_found"
  /\ pc' = "bldr"
  /\ UNCHANGED <<data, size, params, bldr, kernel, bp, bios_status>>

\* preldrCreateKey: the key depends on the nonce, which must still be there.
NonceIntact(mem) ==
  \A o \in (BLDR_BLOCK_SIZE - PRELDR_NONCE_SIZE)..(BLDR_BLOCK_SIZE - 1) :
    mem[BldrData(size) + o] = Clear("nonce", o)

PreldrKey == IF NonceIntact(data) THEN DerivedKey(SbKey) ELSE JunkKey

PreldrUsed == params.rev # 0 /\ SbKey # NoKey /\ bldr.enc

\* The FBL is there and is not used: a rev. 0 MCPX, no key, or a clear 2BL.
PreldrIgnored ==
  /\ pc = "preldr"
  /\ TRUE \in JmpOpcode(data[PreldrData])
  /\ ~PreldrUsed
  /\ preldr' = "found"
  /\ pc' = "bldr"
  /\ UNCHANGED <<data, size, params, bldr, kernel, bp, bios_status>>

\* The words that the 2BL's entry offset is read from, in what was decrypted.
PreldrEntry(mem) == Values(mem[PreldrData - BLDR_ENTRY_SIZE])

PreldrEntryInvalid ==
  /\ pc = "preldr"
  /\ TRUE \in JmpOpcode(data[PreldrData])
  /\ PreldrUsed
  /\ \E off \in PreldrEntry(PreldrEncDecBldr(data, PreldrKey)) : off > BLDR_BLOCK_SIZE
  /\ data' = PreldrEncDecBldr(data, PreldrKey)
  /\ bldr' = [bldr EXCEPT !.enc = FALSE]
  /\ preldr' = "found"
  /\ pc' = "bldr"
  /\ UNCHANGED <<size, params, kernel, bp, bios_status>>

\* Head of the 2BL: 16 bytes zeroed, then the entry point.
RestoreHead(mem, off) ==
  CopyIn(ZeroOut(mem, BldrData(size), LDR_HEAD_SIZE), BldrData(size), <<Word(off)>>)

\* A bug: the words are zeroed before they are moved.
ZeroThenMove(mem) ==
  LET p == BldrData(size) + BootParamsOffset
      q == p - PRELDR_NONCE_SIZE
      zeroed == ZeroOut(mem, q, PRELDR_NONCE_SIZE)
  IN CopyIn(zeroed, p, Slice(zeroed, q, BOOT_PARAMS_SIZE))

\* Boot parameters moved right, over the nonce, and their first words zeroed.
RestoreBootParams(mem) ==
  LET p == BldrData(size) + BootParamsOffset
      q == p - PRELDR_NONCE_SIZE
  IN ZeroOut(CopyIn(mem, p, Slice(mem, q, BOOT_PARAMS_SIZE)), q, PRELDR_NONCE_SIZE)

PreldrDecrypt ==
  /\ pc = "preldr"
  /\ TRUE \in JmpOpcode(data[PreldrData])
  /\ PreldrUsed
  /\ LET clear == PreldrEncDecBldr(data, PreldrKey) IN
     \E off \in PreldrEntry(clear) :
       /\ off <= BLDR_BLOCK_SIZE
       /\ data' = IF params.restore_boot_params
                  THEN RestoreBootParams(RestoreHead(clear, off))
                  ELSE RestoreHead(clear, off)
  /\ bldr' = [bldr EXCEPT !.enc = FALSE,
                          !.boot_params = IF params.restore_boot_params THEN @
                                          ELSE @ - PRELDR_NONCE_SIZE]
  /\ preldr' = "bldr_decrypted"
  /\ pc' = "bldr"
  /\ UNCHANGED <<size, params, kernel, bp, bios_status>>

-----------------------------------------------------------------------------
(* load, after the FBL: the 2BL is still encrypted, or it is not.          *)

\* A bug: it is not asked whether the 2BL is encrypted.
DecryptsAgain == preldr # "bldr_decrypted" /\ SbKey # NoKey

LoadDecryptsBldr == preldr # "bldr_decrypted" /\ bldr.enc /\ SbKey # NoKey

DecryptBldr ==
  /\ pc = "bldr"
  /\ LoadDecryptsBldr
  /\ data' = IF preldr = "found" THEN PreldrEncDecBldr(data, SbKey)
             ELSE EncDecBldr(data, SbKey)
  /\ bldr' = [bldr EXCEPT !.enc = FALSE]
  /\ pc' = "validate"
  /\ UNCHANGED <<size, params, preldr, kernel, bp, bios_status>>

KeepBldr ==
  /\ pc = "bldr"
  /\ ~LoadDecryptsBldr
  /\ pc' = "validate"
  /\ UNCHANGED <<data, size, params, bldr, preldr, kernel, bp, bios_status>>

-----------------------------------------------------------------------------
(* validateBldrBootParams, and getOffsets2 when the sizes are valid.       *)
ValidateBldr ==
  /\ pc = "validate"
  /\ \E b \in BootParamsAt(data, bldr.boot_params) :
       /\ ValidBootParams(b)
       /\ bp' = b
       /\ GetOffsets2(data, b, bldr.boot_params)
  /\ pc' = "kernel"
  /\ UNCHANGED <<data, size, params, preldr, bios_status>>

InvalidBldr ==
  /\ pc = "validate"
  /\ \E b \in BootParamsAt(data, bldr.boot_params) : ~ValidBootParams(b) /\ bp' = b
  /\ bios_status' = "invalid_bldr"
  /\ pc' = "loaded"
  /\ UNCHANGED <<data, size, params, bldr, preldr, kernel>>

DecryptKernel ==
  /\ pc = "kernel"
  /\ kernel.enc /\ KernelToggles
  /\ data' = EncDecKernel(data)
  /\ kernel' = [kernel EXCEPT !.enc = FALSE]
  /\ bios_status' = "success"
  /\ pc' = "loaded"
  /\ UNCHANGED <<size, params, bldr, preldr, bp>>

KeepKernel ==
  /\ pc = "kernel"
  /\ ~(kernel.enc /\ KernelToggles)
  /\ bios_status' = "success"
  /\ pc' = "loaded"
  /\ UNCHANGED <<data, size, params, bldr, preldr, kernel, bp>>

LoadStep ==
  \/ PreldrNotFound \/ PreldrIgnored \/ PreldrEntryInvalid \/ PreldrDecrypt
  \/ DecryptBldr \/ KeepBldr
  \/ ValidateBldr \/ InvalidBldr
  \/ DecryptKernel \/ KeepKernel

-----------------------------------------------------------------------------
(* load on its own: one file, one set of switches.                         *)
LoadInit ==
  /\ pc = "read"
  /\ file \in Files
  /\ size \in BiosSizes /\ DOMAIN file = 0..(size - 1)
  /\ data = file
  /\ params \in Switches
  /\ bldr = [enc |-> FALSE, boot_params |-> NULL, keys |-> NULL, bfm_key |-> NULL]
  /\ preldr = "error"
  /\ kernel = [enc |-> FALSE, compressed |-> NULL, uncompressed |-> NULL]
  /\ bp = [kd |-> 0, it |-> 0, ks |-> 0]
  /\ bios_status = "success"

LoadNext ==
  /\ \/ pc = "read" /\ LoadBegin(data, size, params)
     \/ LoadStep
  /\ UNCHANGED file

LoadSpec == LoadInit /\ [][LoadNext]_vars

-----------------------------------------------------------------------------
(* Files that are genuine images, and the switches meant for them.         *)

ImageFile == [im \in Images |-> Image(im)]

\* The switches fit the image: the right 2BL key for it, or none needed, and
\* the kernel's key where the switches and the 2BL say it is.
BldrMatches(im, p) ==
  IF im.bldr_key = NoKey THEN p.enc_bldr \/ (p.bldr_key = NoKey /\ p.sbkey = NoKey)
  ELSE /\ ~p.enc_bldr
       /\ im.bldr_key = IF p.bldr_key # NoKey THEN p.bldr_key ELSE p.sbkey
       /\ im.fbl => p.rev # 0

KernelMatches(im, p) ==
  IF im.kernel_key = NoKey
  THEN p.enc_kernel \/ (p.kernel_key = NoKey /\ im.bldr_kernel_key \in {0, ONES})
  ELSE /\ ~p.enc_kernel
       /\ IF p.kernel_key # NoKey THEN im.kernel_key = p.kernel_key
          ELSE im.kernel_key = im.bldr_kernel_key /\ im.bldr_kernel_key \notin {0, ONES}

\* The offsets of the 2BL that load makes readable: of an image with an FBL
\* not the FBL block, and of its head only the entry point.
Readable(im, p) ==
  IF ~im.fbl THEN 0..(BLDR_BLOCK_SIZE - 1)
  ELSE {0} \cup LDR_HEAD_SIZE..(PreldrOffset - 1) \cup
       (IF p.restore_boot_params THEN BootParamsOffset..(BLDR_BLOCK_SIZE - 1) ELSE {})

-----------------------------------------------------------------------------
(* Safety.                                                                 *)

\* The words of the 2BL block, and of it what lies in front of the FBL.
InBldr(a) == a >= BldrData(size) /\ a < BldrData(size) + BLDR_BLOCK_SIZE
BeforeFbl(a) == a >= BldrData(size) + LDR_HEAD_SIZE /\ a < PreldrData

\* What the kernel's RC4 covers.
InKernel(a) ==
  /\ kernel.compressed # NULL
  /\ a >= kernel.compressed /\ a < kernel.compressed + bp.ks

\* An FBL that was found is never changed by load, whatever the file holds
\* and whichever keys are given ("dont mangle the FBL section of 2BL"): not
\* by its own decryption of the 2BL, not by the one load falls back to and
\* not by the kernel's, whose place comes from the file.
FblPreserved ==
  preldr \in {"found", "bldr_decrypted"} =>
    \A a \in PreldrData..(BldrData(size) + ParamsOffset - 1) : data[a] = file[a]

\* encryption_state tells the truth: while it says encrypted, or was told the
\* 2BL is clear, the 2BL is as in the file; once it has turned, one and only
\* one keystream has been applied to all of it.  The FBL's decryption and the
\* one in load never both happen, whatever the FBL's entry offset was.
BldrLayer ==
  pc # "read" =>
    IF bldr.enc = ~params.enc_bldr
    THEN \A a \in DOMAIN data : InBldr(a) => data[a] = file[a]
    ELSE \E k \in {SbKey, DerivedKey(SbKey), JunkKey} :
           \A a \in DOMAIN data :
             BeforeFbl(a) => data[a] = Xor(file[a], k, a - BldrData(size))

\* Below the 2BL load changes the kernel and nothing else, and the kernel
\* only when its encryption_state turns: then all of it, with the key it was
\* looked up with, under one keystream that starts at its first word.
KernelLayer ==
  /\ \A a \in DOMAIN data : a < BldrData(size) /\ ~InKernel(a) => data[a] = file[a]
  /\ pc # "read" =>
       IF kernel.enc = ~params.enc_kernel
       THEN \A a \in DOMAIN data : InKernel(a) => data[a] = file[a]
       ELSE \A a \in DOMAIN data :
              InKernel(a) => data[a] = Xor(file[a], KernelKey, a - kernel.compressed)

\* Given switches that fit, load ends with the 2BL, the boot parameters, the
\* keys and the kernel of the image in the clear and its pointers on them,
\* provided the FBL was recognised for what it is.
LoadRecovers ==
  pc = "loaded" =>
    \A im \in Images :
      file = ImageFile[im] /\ BldrMatches(im, params) /\ KernelMatches(im, params)
        /\ (preldr = "not_found" <=> ~im.fbl)
      => /\ bios_status = "success"
         /\ bp = [kd |-> im.kd, it |-> im.it, ks |-> im.ks]
         /\ \A o \in Readable(im, params) : data[BldrData(size) + o] = PlainBldr(im)[o + 1]
         /\ bldr.keys = BldrData(size) + KEYS_OFFSET
         /\ Slice(data, kernel.compressed, bp.ks) = Kernel(im)
         /\ Slice(data, kernel.uncompressed, bp.kd) = KernelData(im)
         /\ Slice(data, 0, bp.it) = InitTbl(im)
=============================================================================
