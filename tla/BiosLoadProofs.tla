--------------------------- MODULE BiosLoadProofs ---------------------------
(***************************************************************************)
(* Proofs for every layout of the image, every file and every switch.      *)
(* Bios::load: the types, and that the FBL, the 2BL and the kernel each    *)
(* get the keystream they should and no other.  Sessions of extractions    *)
(* and builds: load keeps that invariant in any session, and Bios::build   *)
(* copies nothing outside of its buffer and no component over another.     *)
(* Genuine images: load ends with what the image was made of in the clear, *)
(* and an extraction writes its components, in any session.                *)
(***************************************************************************)
EXTENDS XbTool, SequenceTheorems, TLAPS

-----------------------------------------------------------------------------
(* The layout.                                                             *)

\* Where things are: the 2BL is inside of the buffer with room behind it, its
\* FBL block and the parameters behind that are inside of the 2BL.
LEMMA Layout ==
  ASSUME NEW n \in BiosSizes
  PROVE  /\ n \in Nat /\ n <= MAX_BIOS_SIZE /\ MAX_BIOS_SIZE \in Nat /\ NULL \in Int /\ NULL < 0
         /\ BldrData(n) \in Nat /\ BldrData(n) + BLDR_BLOCK_SIZE < n
         /\ PreldrOffset \in Nat /\ ParamsOffset \in Nat /\ BootParamsOffset \in Nat
         /\ LDR_HEAD_SIZE + 2 <= PreldrOffset /\ PreldrOffset <= ParamsOffset
         /\ ParamsOffset + PRELDR_PARAMS_SIZE = BLDR_BLOCK_SIZE
         /\ ParamsOffset <= BootParamsOffset - PRELDR_NONCE_SIZE
         /\ BootParamsOffset + 4 <= BLDR_BLOCK_SIZE
         /\ BootParamsOffset + BOOT_PARAMS_SIZE = BLDR_BLOCK_SIZE
  BY LayoutAssumption, SMT
     DEF BiosSizes, MAX_BIOS_SIZE, NULL, BldrData, PreldrOffset, ParamsOffset, BootParamsOffset,
         BLDR_ENTRY_SIZE, FIELDS_SIZE

-----------------------------------------------------------------------------
(* What the memory functions do to a word, and that they keep its type.    *)

\* A layer of keystream changes a word into a word.
LEMMA XorType ==
  ASSUME NEW w \in WordType, NEW k \in Int, NEW p \in Int
  PROVE  Xor(w, k, p) \in WordType
  BY DEF Xor, WordType

\* A number in the clear is a word.
LEMMA WordOK == \A v \in Nat : Word(v) \in WordType
  BY DEF Word, Clear, WordType, Sources

\* RC4 changes the words of its range, each by its place in the keystream,
\* and no other; likewise memset and memcpy.
LEMMA Rc4OK ==
  ASSUME NEW hi \in Int, NEW mem \in [0..hi -> WordType],
         NEW first \in Int, NEW len \in Int, NEW k \in Int, NEW skip \in Int
  PROVE  /\ Rc4(mem, first, len, k, skip) \in [0..hi -> WordType]
         /\ \A a \in 0..hi :
              Rc4(mem, first, len, k, skip)[a] =
                IF a >= first /\ a < first + len THEN Xor(mem[a], k, a - first + skip) ELSE mem[a]
  <1>1. \A a \in 0..hi : mem[a] \in WordType /\ Xor(mem[a], k, a - first + skip) \in WordType
    BY XorType
  <1> QED BY <1>1 DEF Rc4

LEMMA ZeroOutOK ==
  ASSUME NEW hi \in Int, NEW mem \in [0..hi -> WordType], NEW first \in Int, NEW len \in Int
  PROVE  /\ ZeroOut(mem, first, len) \in [0..hi -> WordType]
         /\ \A a \in 0..hi : ~(a >= first /\ a < first + len) =>
              ZeroOut(mem, first, len)[a] = mem[a]
  BY WordOK DEF ZeroOut, Zero

LEMMA CopyInOK ==
  ASSUME NEW hi \in Int, NEW mem \in [0..hi -> WordType], NEW first \in Int,
         NEW f \in Seq(WordType)
  PROVE  /\ CopyIn(mem, first, f) \in [0..hi -> WordType]
         /\ \A a \in 0..hi : ~(a >= first /\ a < first + Len(f)) =>
              CopyIn(mem, first, f)[a] = mem[a]
  <1>1. \A a \in 0..hi : a >= first /\ a < first + Len(f) => f[a - first + 1] \in WordType
    OBVIOUS
  <1> QED BY <1>1 DEF CopyIn

\* What is read of a buffer is a sequence of words, of the length asked for.
LEMMA SliceOK ==
  ASSUME NEW hi \in Int, NEW mem \in [0..hi -> WordType], NEW first \in Int, NEW len \in Nat
  PROVE  Slice(mem, first, len) \in Seq(WordType) /\ Len(Slice(mem, first, len)) = len
  <1>1. Clear("outside", 0) \in WordType
    BY DEF Clear, WordType, Sources
  <1>2. \A i \in 1..len :
          (IF first + i - 1 \in DOMAIN mem THEN mem[first + i - 1] ELSE Clear("outside", 0))
            \in WordType
    BY <1>1
  <1> QED BY <1>2 DEF Slice

\* A word reads as a number.
LEMMA ValuesOK == \A w \in WordType : Values(w) \subseteq Nat
  BY GarbageAssumption DEF Values, WordType

-----------------------------------------------------------------------------
(* What the parts of load do to the buffer.                                *)

Buffer == [0..(size - 1) -> WordType]

\* RC4 over the whole 2BL leaves what is in front of it alone.
LEMMA EncDecBldrOK ==
  ASSUME size \in BiosSizes, NEW mem \in Buffer, NEW k \in Int
  PROVE  /\ EncDecBldr(mem, k) \in Buffer
         /\ \A a \in 0..(size - 1) :
              /\ a < BldrData(size) => EncDecBldr(mem, k)[a] = mem[a]
              /\ BeforeFbl(a) => EncDecBldr(mem, k)[a] = Xor(mem[a], k, a - BldrData(size))
  <1>1. size - 1 \in Int /\ BldrData(size) \in Int /\ BLDR_BLOCK_SIZE \in Int
    BY Layout, LayoutAssumption
  <1>2. EncDecBldr(mem, k) = Rc4(mem, BldrData(size), BLDR_BLOCK_SIZE, k, 0)
    BY DEF EncDecBldr
  <1>3. /\ Rc4(mem, BldrData(size), BLDR_BLOCK_SIZE, k, 0) \in Buffer
        /\ \A a \in 0..(size - 1) :
             Rc4(mem, BldrData(size), BLDR_BLOCK_SIZE, k, 0)[a] =
               IF a >= BldrData(size) /\ a < BldrData(size) + BLDR_BLOCK_SIZE
               THEN Xor(mem[a], k, a - BldrData(size) + 0) ELSE mem[a]
    BY <1>1, Rc4OK DEF Buffer
  <1>4. \A a \in 0..(size - 1) : BeforeFbl(a) =>
          /\ a >= BldrData(size) /\ a < BldrData(size) + BLDR_BLOCK_SIZE
          /\ a - BldrData(size) + 0 = a - BldrData(size)
    BY <1>1, Layout, LayoutAssumption DEF BeforeFbl, PreldrData
  <1> QED BY <1>1, <1>2, <1>3, <1>4

\* RC4 that keeps the FBL leaves it alone too.
LEMMA PreldrEncDecBldrOK ==
  ASSUME size \in BiosSizes, NEW mem \in Buffer, NEW k \in Int
  PROVE  /\ PreldrEncDecBldr(mem, k) \in Buffer
         /\ \A a \in 0..(size - 1) :
              /\ a < BldrData(size) => PreldrEncDecBldr(mem, k)[a] = mem[a]
              /\ BeforeFbl(a) => PreldrEncDecBldr(mem, k)[a] = Xor(mem[a], k, a - BldrData(size))
              /\ a >= PreldrData /\ a < BldrData(size) + ParamsOffset =>
                   PreldrEncDecBldr(mem, k)[a] = mem[a]
  <1> DEFINE first == Rc4(mem, BldrData(size), PreldrOffset, k, 0)
  <1>1. /\ size - 1 \in Int /\ BldrData(size) \in Int /\ PreldrOffset \in Int
        /\ ParamsOffset \in Int /\ BldrData(size) + ParamsOffset \in Int /\ PRELDR_PARAMS_SIZE \in Int
    BY Layout, LayoutAssumption
  <1>2. /\ first \in Buffer
        /\ \A a \in 0..(size - 1) :
             first[a] = IF a >= BldrData(size) /\ a < BldrData(size) + PreldrOffset
                        THEN Xor(mem[a], k, a - BldrData(size) + 0) ELSE mem[a]
    BY <1>1, Rc4OK DEF Buffer
  <1>3. /\ PreldrEncDecBldr(mem, k) \in Buffer
        /\ \A a \in 0..(size - 1) : a < BldrData(size) + ParamsOffset =>
             PreldrEncDecBldr(mem, k)[a] = first[a]
    <2> DEFINE tail == BldrData(size) + ParamsOffset
    <2>1. tail \in Int
      BY <1>1
    <2>2. PreldrEncDecBldr(mem, k) = Rc4(first, tail, PRELDR_PARAMS_SIZE, k, ParamsOffset)
      BY DEF PreldrEncDecBldr
    <2> HIDE DEF first, tail
    <2>3. /\ Rc4(first, tail, PRELDR_PARAMS_SIZE, k, ParamsOffset) \in Buffer
          /\ \A a \in 0..(size - 1) :
               Rc4(first, tail, PRELDR_PARAMS_SIZE, k, ParamsOffset)[a] =
                 IF a >= tail /\ a < tail + PRELDR_PARAMS_SIZE
                 THEN Xor(first[a], k, a - tail + ParamsOffset) ELSE first[a]
      BY <1>1, <1>2, <2>1, Rc4OK, SMTT(60) DEF Buffer
    <2> QED BY <1>1, <2>1, <2>2, <2>3 DEF tail
  <1>4. \A a \in 0..(size - 1) : BeforeFbl(a) =>
          /\ a >= BldrData(size) /\ a < BldrData(size) + PreldrOffset
          /\ a < BldrData(size) + ParamsOffset
          /\ a - BldrData(size) + 0 = a - BldrData(size)
    BY <1>1, Layout, LayoutAssumption DEF BeforeFbl, PreldrData
  <1>5. PreldrData = BldrData(size) + PreldrOffset /\ 0 <= PreldrOffset /\ 0 <= ParamsOffset
    BY Layout DEF PreldrData
  <1> HIDE DEF first
  <1> QED BY <1>1, <1>2, <1>3, <1>4, <1>5

\* Setting the entry point changes the head of the 2BL only.
LEMMA RestoreHeadOK ==
  ASSUME size \in BiosSizes, NEW mem \in Buffer, NEW off \in Nat
  PROVE  /\ RestoreHead(mem, off) \in Buffer
         /\ \A a \in 0..(size - 1) : a < BldrData(size) \/ a >= BldrData(size) + LDR_HEAD_SIZE =>
              RestoreHead(mem, off)[a] = mem[a]
  <1> DEFINE zeroed == ZeroOut(mem, BldrData(size), LDR_HEAD_SIZE)
  <1>1. size - 1 \in Int /\ BldrData(size) \in Int /\ LDR_HEAD_SIZE \in Int /\ LDR_HEAD_SIZE >= 1
    BY Layout, LayoutAssumption
  <1>2. /\ zeroed \in Buffer
        /\ \A a \in 0..(size - 1) :
             ~(a >= BldrData(size) /\ a < BldrData(size) + LDR_HEAD_SIZE) => zeroed[a] = mem[a]
    BY <1>1, ZeroOutOK DEF Buffer
  <1>3. <<Word(off)>> \in Seq(WordType) /\ Len(<<Word(off)>>) = 1
    BY WordOK
  <1> HIDE DEF zeroed
  <1>4. /\ CopyIn(zeroed, BldrData(size), <<Word(off)>>) \in Buffer
        /\ \A a \in 0..(size - 1) : ~(a >= BldrData(size) /\ a < BldrData(size) + 1) =>
             CopyIn(zeroed, BldrData(size), <<Word(off)>>)[a] = zeroed[a]
    BY <1>1, <1>2, <1>3, CopyInOK DEF Buffer
  <1>5. RestoreHead(mem, off) = CopyIn(zeroed, BldrData(size), <<Word(off)>>)
    BY DEF RestoreHead, zeroed
  <1> QED BY <1>1, <1>2, <1>4, <1>5

\* Moving the boot parameters changes nothing in front of the FBL's parameters.
LEMMA RestoreBootParamsOK ==
  ASSUME size \in BiosSizes, NEW mem \in Buffer
  PROVE  /\ RestoreBootParams(mem) \in Buffer
         /\ \A a \in 0..(size - 1) : a < BldrData(size) + ParamsOffset =>
              RestoreBootParams(mem)[a] = mem[a]
  <1> DEFINE p == BldrData(size) + BootParamsOffset
             q == p - PRELDR_NONCE_SIZE
             s == Slice(mem, q, BOOT_PARAMS_SIZE)
             moved == CopyIn(mem, p, s)
  <1>1. /\ size - 1 \in Int /\ p \in Int /\ q \in Int /\ BOOT_PARAMS_SIZE \in Nat
        /\ PRELDR_NONCE_SIZE \in Int /\ BldrData(size) + ParamsOffset \in Int
        /\ BldrData(size) + ParamsOffset <= q /\ q <= p
    BY Layout, LayoutAssumption
  <1> HIDE DEF p, q
  <1>2. s \in Seq(WordType) /\ Len(s) = BOOT_PARAMS_SIZE
    BY <1>1, SliceOK DEF Buffer
  <1> HIDE DEF s
  <1>3. /\ moved \in Buffer
        /\ \A a \in 0..(size - 1) : ~(a >= p /\ a < p + BOOT_PARAMS_SIZE) => moved[a] = mem[a]
    BY <1>1, <1>2, CopyInOK DEF Buffer
  <1> HIDE DEF moved
  <1>4. /\ ZeroOut(moved, q, PRELDR_NONCE_SIZE) \in Buffer
        /\ \A a \in 0..(size - 1) : ~(a >= q /\ a < q + PRELDR_NONCE_SIZE) =>
             ZeroOut(moved, q, PRELDR_NONCE_SIZE)[a] = moved[a]
    BY <1>1, <1>3, ZeroOutOK DEF Buffer
  <1>5. RestoreBootParams(mem) = ZeroOut(moved, q, PRELDR_NONCE_SIZE)
    BY DEF RestoreBootParams, moved, s, q, p
  <1> QED BY <1>1, <1>3, <1>4, <1>5

-----------------------------------------------------------------------------
(* The inductive invariant: what is known at each step of load, and the    *)
(* properties themselves.                                                  *)

Stages == {"read", "preldr", "bldr", "validate", "kernel", "loaded"}
BootParamsPlace == BldrData(size) + BootParamsOffset

\* Until the FBL has been looked at, nothing has happened to the file.
Unchanged ==
  /\ pc \in {"read", "preldr"} => data = file /\ preldr = "error"
  /\ pc = "preldr" => bldr.enc = ~params.enc_bldr /\ bldr.boot_params = BootParamsPlace

\* The 2BL is only taken for encrypted if the switches did not say it is clear,
\* and its boot parameters can be read.
BldrStage ==
  pc # "read" =>
    /\ bldr.enc => ~params.enc_bldr
    /\ bldr.boot_params \in {BootParamsPlace, BootParamsPlace - PRELDR_NONCE_SIZE}

\* The FBL's status is settled once it has been looked at.
StatusStage == pc \notin {"read", "preldr"} => preldr # "error"

\* The kernel has no place before the boot parameters were read; then its place
\* is below the 2BL, and the keys are in the 2BL.
KernelStage ==
  /\ pc \in {"read", "preldr", "bldr", "validate"} => kernel.compressed = NULL
  /\ pc \in {"preldr", "bldr", "validate", "kernel"} => kernel.enc = ~params.enc_kernel
  /\ pc = "kernel" =>
       /\ kernel.compressed = BldrData(size) - bp.kd - bp.ks
       /\ bldr.keys = NULL \/ bldr.keys \in BldrData(size)..(BldrData(size) + BLDR_BLOCK_SIZE - 3)

LoadInv ==
  /\ pc \in Stages
  /\ TypeOK
  /\ file \in Buffer
  /\ Unchanged
  /\ BldrStage
  /\ StatusStage
  /\ KernelStage
  /\ FblPreserved
  /\ BldrLayer
  /\ KernelLayer

\* load starts with the file as it is and all pointers and states at their first values.
LEMMA LoadInitInv == LoadInit => LoadInv
  <1> SUFFICES ASSUME LoadInit PROVE LoadInv
    OBVIOUS
  <1>1. /\ pc = "read" /\ file = data /\ size \in BiosSizes /\ preldr = "error"
        /\ kernel.compressed = NULL /\ bldr.boot_params = NULL
    BY DEF LoadInit
  <1>2. data \in Buffer
    <2>1. PICK n \in BiosSizes : file \in [0..(n - 1) -> WordType]
      BY LoadAssumption DEF LoadInit
    <2>2. 0..(n - 1) = 0..(size - 1)
      BY <2>1 DEF LoadInit
    <2> QED BY <1>1, <2>1, <2>2 DEF Buffer
  <1>3. TypeOK
    BY <1>1, <1>2, Layout, LoadAssumption
       DEF LoadInit, TypeOK, Buffer, BLDR, KERNEL, BOOT_PARAMS, PreldrStatuses, Statuses
  <1>4. Unchanged /\ BldrStage /\ StatusStage /\ KernelStage
    BY <1>1 DEF Unchanged, BldrStage, StatusStage, KernelStage
  <1>5. FblPreserved /\ BldrLayer /\ KernelLayer
    BY <1>1 DEF FblPreserved, BldrLayer, KernelLayer, InKernel
  <1> QED BY <1>1, <1>2, <1>3, <1>4, <1>5 DEF LoadInv, Stages

-----------------------------------------------------------------------------
(* The steps.                                                              *)

\* Bios::init keeps the buffer and sets the two encryption states.
LEMMA BeginInv ==
  ASSUME NEW n \in BiosSizes, file \in [0..(n - 1) -> WordType],
         NEW p \in BIOS_LOAD_PARAMS, LoadBegin(file, n, p), UNCHANGED file
  PROVE  LoadInv'
  <1>1. /\ pc' = "preldr" /\ data' = file /\ size' = n /\ file' = file /\ preldr' = "error"
        /\ bp' = [kd |-> 0, it |-> 0, ks |-> 0] /\ bios_status' = "success"
    BY DEF LoadBegin, InitBios
  <1>2. /\ params' \in BIOS_LOAD_PARAMS
        /\ params'.enc_bldr = p.enc_bldr /\ params'.enc_kernel = p.enc_kernel
    BY <1>1 DEF LoadBegin, InitBios, BIOS_LOAD_PARAMS
  <1> DEFINE place == BldrData(n) + BootParamsOffset
  <1>3. /\ bldr' = [enc |-> ~p.enc_bldr, boot_params |-> place,
                    keys |-> NULL, bfm_key |-> NULL]
        /\ kernel' = [enc |-> ~p.enc_kernel, compressed |-> NULL, uncompressed |-> NULL]
        /\ BootParamsPlace' = place
    BY <1>1 DEF LoadBegin, InitBios, BootParamsPlace
  <1>4. p.enc_bldr \in BOOLEAN /\ p.enc_kernel \in BOOLEAN /\ place \in Int /\ NULL \in Int
    BY Layout DEF BIOS_LOAD_PARAMS
  <1>5. TypeOK'
    <2>1. bldr' \in BLDR /\ kernel' \in KERNEL
      BY <1>3, <1>4 DEF BLDR, KERNEL
    <2>2. bldr'.boot_params = place /\ BldrData(size)' + BootParamsOffset = place
      BY <1>1, <1>3
    <2>3. bp' \in BOOT_PARAMS
      BY <1>1 DEF BOOT_PARAMS
    <2> HIDE DEF place
    <2>4. data' \in [0..(n - 1) -> WordType] /\ n \in BiosSizes
      BY <1>1
    <2> QED BY <1>1, <1>2, <2>1, <2>2, <2>3, <2>4
            DEF TypeOK, PreldrStatuses, Statuses, BiosSizes, BIOS_LOAD_PARAMS, BLDR, KERNEL, BOOT_PARAMS
  <1>6. Unchanged' /\ BldrStage' /\ StatusStage' /\ KernelStage'
    BY <1>1, <1>2, <1>3 DEF Unchanged, BldrStage, StatusStage, KernelStage
  <1>7. FblPreserved' /\ BldrLayer' /\ KernelLayer'
    BY <1>1, <1>2, <1>3 DEF FblPreserved, BldrLayer, KernelLayer, InKernel
  <1> QED BY <1>1, <1>5, <1>6, <1>7 DEF LoadInv, Stages, Buffer

\* The steps that only learn something: the FBL's status, or that there is
\* nothing to decrypt.
LEMMA IdleInv ==
  ASSUME LoadInv, UNCHANGED file,
         PreldrNotFound \/ PreldrIgnored \/ KeepBldr \/ KeepKernel
  PROVE  LoadInv'
  <1>1. /\ UNCHANGED <<data, size, params, bldr, kernel, bp, file>>
        /\ bios_status' \in Statuses /\ preldr' \in PreldrStatuses
        /\ <<pc, pc'>> \in {<<"preldr", "bldr">>, <<"bldr", "validate">>, <<"kernel", "loaded">>}
        /\ pc = "preldr" \/ preldr' = preldr
    BY DEF LoadInv, TypeOK, PreldrNotFound, PreldrIgnored, KeepBldr, KeepKernel, Statuses,
           PreldrStatuses
  <1>2. TypeOK'
    BY <1>1 DEF LoadInv, TypeOK
  <1>3. Unchanged' /\ BldrStage' /\ KernelStage'
    BY <1>1 DEF LoadInv, Unchanged, BldrStage, KernelStage, BootParamsPlace
  <1>6. StatusStage'
    BY <1>1 DEF LoadInv, StatusStage, PreldrNotFound, PreldrIgnored, KeepBldr, KeepKernel
  <1>4. FblPreserved'
    BY <1>1 DEF LoadInv, Unchanged, FblPreserved, PreldrData
  <1>5. BldrLayer' /\ KernelLayer'
    BY <1>1 DEF LoadInv, BldrLayer, KernelLayer, InBldr, BeforeFbl, InKernel, PreldrData, SbKey,
                KernelKey
  <1> QED BY <1>1, <1>2, <1>3, <1>4, <1>5, <1>6 DEF LoadInv, Stages, Buffer

\* One decryption of the 2BL that is still encrypted: of everything in front of
\* the FBL under one keystream, of nothing below the 2BL, and of an FBL that
\* was found not at all.
LEMMA BldrDecrypted ==
  ASSUME LoadInv, bldr.enc,
         UNCHANGED <<size, params, kernel, bp, bios_status, file>>,
         <<pc, pc'>> \in {<<"preldr", "bldr">>, <<"bldr", "validate">>},
         data' \in Buffer,
         \A a \in 0..(size - 1) : a < BldrData(size) => data'[a] = data[a],
         preldr' \in {"not_found", "found", "bldr_decrypted"},
         preldr' # "not_found" =>
           \A a \in 0..(size - 1) :
             a >= PreldrData /\ a < BldrData(size) + ParamsOffset => data'[a] = data[a],
         NEW k \in {SbKey, DerivedKey(SbKey), JunkKey},
         \A a \in 0..(size - 1) : BeforeFbl(a) => data'[a] = Xor(data[a], k, a - BldrData(size)),
         NEW ptr \in {BootParamsPlace, BootParamsPlace - PRELDR_NONCE_SIZE},
         bldr' = [bldr EXCEPT !.enc = FALSE, !.boot_params = ptr]
  PROVE  LoadInv'
  <1>1. /\ pc # "read" /\ pc \notin {"kernel", "loaded"}
        /\ pc' \in {"bldr", "validate"}
        /\ size \in BiosSizes /\ file \in Buffer /\ data \in Buffer
        /\ params \in BIOS_LOAD_PARAMS /\ bldr \in BLDR
        /\ kernel.compressed = NULL /\ kernel.enc = ~params.enc_kernel
        /\ ~params.enc_bldr
    BY DEF LoadInv, TypeOK, BldrStage, KernelStage, Buffer
  <1>2. /\ BldrData(size) \in Nat /\ BldrData(size) + BLDR_BLOCK_SIZE < size
        /\ PreldrOffset \in Nat /\ ParamsOffset \in Nat /\ BootParamsOffset \in Nat
        /\ size \in Nat /\ ParamsOffset <= BLDR_BLOCK_SIZE /\ PreldrOffset <= ParamsOffset
        /\ PreldrData = BldrData(size) + PreldrOffset
        /\ LDR_HEAD_SIZE \in Nat /\ BLDR_BLOCK_SIZE \in Nat /\ PRELDR_NONCE_SIZE \in Nat
    BY <1>1, Layout, LayoutAssumption DEF PreldrData
  <1>3. bldr' \in BLDR /\ bldr'.enc = FALSE /\ bldr'.boot_params = ptr
    <2>1. ptr \in Int
      BY <1>2 DEF BootParamsPlace
    <2>2. bldr' = [enc |-> FALSE, boot_params |-> ptr, keys |-> bldr.keys, bfm_key |-> bldr.bfm_key]
      BY <1>1 DEF BLDR
    <2> QED BY <1>1, <2>1, <2>2 DEF BLDR
  <1>4. /\ DOMAIN data = 0..(size - 1) /\ DOMAIN data' = 0..(size - 1)
        /\ \A a \in 0..(size - 1) : InBldr(a) => data[a] = file[a]
    BY <1>1 DEF LoadInv, BldrLayer, Buffer
  <1>5. TypeOK'
    BY <1>1, <1>2, <1>3 DEF LoadInv, TypeOK, Buffer, BootParamsPlace, PreldrStatuses
  <1>6. Unchanged' /\ BldrStage' /\ StatusStage' /\ KernelStage'
    BY <1>1, <1>3 DEF Unchanged, BldrStage, StatusStage, KernelStage, BootParamsPlace
  <1>7. FblPreserved'
    <2> SUFFICES ASSUME preldr' # "not_found",
                        NEW a \in PreldrData..(BldrData(size) + ParamsOffset - 1)
                 PROVE  data'[a] = file[a]
      BY DEF FblPreserved, PreldrData
    <2>1. a \in 0..(size - 1) /\ InBldr(a) /\ a < BldrData(size) + ParamsOffset /\ a >= PreldrData
      BY <1>2 DEF InBldr
    <2> QED BY <1>4, <2>1
  <1>8. BldrLayer'
    <2>1. \A a \in 0..(size - 1) : BeforeFbl(a) => InBldr(a)
      BY <1>2 DEF BeforeFbl, InBldr
    <2>2. \A a \in 0..(size - 1) :
            BeforeFbl(a) => data'[a] = Xor(file[a], k, a - BldrData(size))
      BY <1>4, <2>1
    <2>3. SbKey' = SbKey /\ \A a : BeforeFbl(a)' <=> BeforeFbl(a)
      BY DEF SbKey, BeforeFbl, PreldrData
    <2> QED BY <1>1, <1>3, <1>4, <2>2, <2>3, ZenonT(30) DEF BldrLayer
  <1>9. KernelLayer'
    <2>1. \A a : ~InKernel(a) /\ ~InKernel(a)'
      BY <1>1 DEF InKernel
    <2>2. \A a \in 0..(size - 1) : a < BldrData(size) => data[a] = file[a]
      BY <1>4, <2>1 DEF LoadInv, KernelLayer
    <2> QED BY <1>4, <2>1, <2>2 DEF KernelLayer
  <1> QED BY <1>1, <1>5, <1>6, <1>7, <1>8, <1>9 DEF LoadInv, Stages, Buffer

\* The keys the 2BL may be decrypted with.
LEMMA KeysOK ==
  ASSUME params \in BIOS_LOAD_PARAMS
  PROVE  SbKey \in Int /\ PreldrKey \in {SbKey, DerivedKey(SbKey), JunkKey} /\ PreldrKey \in Int
  BY DEF BIOS_LOAD_PARAMS, Keys, NoKey, SbKey, PreldrKey, DerivedKey, JunkKey

\* load's own decryption, of the whole 2BL or around the FBL.
LEMMA DecryptBldrInv ==
  ASSUME LoadInv, DecryptBldr, UNCHANGED file
  PROVE  LoadInv'
  <1>1. /\ size \in BiosSizes /\ data \in Buffer /\ params \in BIOS_LOAD_PARAMS /\ bldr \in BLDR
        /\ bldr.enc /\ pc = "bldr" /\ pc' = "validate"
        /\ preldr' = preldr /\ preldr \in {"not_found", "found", "error"}
        /\ bldr.boot_params \in {BootParamsPlace, BootParamsPlace - PRELDR_NONCE_SIZE}
        /\ UNCHANGED <<size, params, kernel, bp, bios_status, file>>
    BY DEF LoadInv, TypeOK, BldrStage, DecryptBldr, LoadDecryptsBldr, Buffer, PreldrStatuses
  <1>2. preldr # "error"
    BY <1>1 DEF LoadInv, StatusStage
  <1>3. bldr' = [bldr EXCEPT !.enc = FALSE, !.boot_params = bldr.boot_params]
    BY <1>1 DEF DecryptBldr, BLDR
  <1>4. SbKey \in Int /\ SbKey \in {SbKey, DerivedKey(SbKey), JunkKey}
    BY <1>1, KeysOK
  <1>5. CASE preldr = "found"
    <2>1. data' = PreldrEncDecBldr(data, SbKey)
      BY <1>5 DEF DecryptBldr
    <2>2. /\ data' \in Buffer
          /\ \A a \in 0..(size - 1) :
               /\ a < BldrData(size) => data'[a] = data[a]
               /\ BeforeFbl(a) => data'[a] = Xor(data[a], SbKey, a - BldrData(size))
               /\ a >= PreldrData /\ a < BldrData(size) + ParamsOffset => data'[a] = data[a]
      BY <1>1, <1>4, <2>1, PreldrEncDecBldrOK
    <2> QED BY <1>1, <1>2, <1>3, <1>4, <2>2, BldrDecrypted
  <1>6. CASE preldr = "not_found"
    <2>1. data' = EncDecBldr(data, SbKey)
      BY <1>6 DEF DecryptBldr
    <2>2. /\ data' \in Buffer
          /\ \A a \in 0..(size - 1) :
               /\ a < BldrData(size) => data'[a] = data[a]
               /\ BeforeFbl(a) => data'[a] = Xor(data[a], SbKey, a - BldrData(size))
      BY <1>1, <1>4, <2>1, EncDecBldrOK
    <2> QED BY <1>1, <1>3, <1>4, <1>6, <2>2, BldrDecrypted
  <1> QED BY <1>1, <1>2, <1>5, <1>6

\* The FBL's decryption, when the entry offset it leaves is not a valid one.
LEMMA PreldrEntryInvalidInv ==
  ASSUME LoadInv, PreldrEntryInvalid, UNCHANGED file
  PROVE  LoadInv'
  <1>1. /\ size \in BiosSizes /\ data \in Buffer /\ params \in BIOS_LOAD_PARAMS /\ bldr \in BLDR
        /\ bldr.enc /\ pc = "preldr" /\ pc' = "bldr" /\ preldr' = "found"
        /\ bldr.boot_params = BootParamsPlace
        /\ data' = PreldrEncDecBldr(data, PreldrKey)
        /\ UNCHANGED <<size, params, kernel, bp, bios_status, file>>
    BY DEF LoadInv, TypeOK, Unchanged, PreldrEntryInvalid, PreldrUsed, Buffer
  <1>2. bldr' = [bldr EXCEPT !.enc = FALSE, !.boot_params = BootParamsPlace]
    BY <1>1 DEF PreldrEntryInvalid, BLDR
  <1>3. /\ data' \in Buffer
        /\ \A a \in 0..(size - 1) :
             /\ a < BldrData(size) => data'[a] = data[a]
             /\ BeforeFbl(a) => data'[a] = Xor(data[a], PreldrKey, a - BldrData(size))
             /\ a >= PreldrData /\ a < BldrData(size) + ParamsOffset => data'[a] = data[a]
    BY <1>1, KeysOK, PreldrEncDecBldrOK
  <1> QED BY <1>1, <1>2, <1>3, KeysOK, BldrDecrypted

\* The FBL's decryption: the head and the boot parameters that are then written
\* lie on the two sides of what the FBL and the rest of the 2BL occupy.
LEMMA PreldrDecryptInv ==
  ASSUME LoadInv, PreldrDecrypt, UNCHANGED file
  PROVE  LoadInv'
  <1> DEFINE clear == PreldrEncDecBldr(data, PreldrKey)
  <1>1. /\ size \in BiosSizes /\ data \in Buffer /\ params \in BIOS_LOAD_PARAMS /\ bldr \in BLDR
        /\ bldr.enc /\ pc = "preldr" /\ pc' = "bldr" /\ preldr' = "bldr_decrypted"
        /\ bldr.boot_params = BootParamsPlace
        /\ UNCHANGED <<size, params, kernel, bp, bios_status, file>>
    BY DEF LoadInv, TypeOK, Unchanged, PreldrDecrypt, PreldrUsed, Buffer
  <1>2. /\ BldrData(size) \in Nat /\ PreldrOffset \in Nat /\ ParamsOffset \in Nat
        /\ PreldrData = BldrData(size) + PreldrOffset /\ size \in Nat
        /\ LDR_HEAD_SIZE \in Nat /\ LDR_HEAD_SIZE + 2 <= PreldrOffset
        /\ PreldrOffset <= ParamsOffset /\ BldrData(size) + BLDR_BLOCK_SIZE < size
        /\ PreldrOffset <= BLDR_BLOCK_SIZE /\ BLDR_BLOCK_SIZE \in Nat
    BY <1>1, Layout, LayoutAssumption DEF PreldrData
  <1>3. /\ clear \in Buffer
        /\ \A a \in 0..(size - 1) :
             /\ a < BldrData(size) => clear[a] = data[a]
             /\ BeforeFbl(a) => clear[a] = Xor(data[a], PreldrKey, a - BldrData(size))
             /\ a >= PreldrData /\ a < BldrData(size) + ParamsOffset => clear[a] = data[a]
    BY <1>1, KeysOK, PreldrEncDecBldrOK
  <1>4. PICK ptr \in {BootParamsPlace, BootParamsPlace - PRELDR_NONCE_SIZE} :
          bldr' = [bldr EXCEPT !.enc = FALSE, !.boot_params = ptr]
    BY <1>1 DEF PreldrDecrypt
  <1>5. PICK off \in PreldrEntry(clear) :
          data' = IF params.restore_boot_params THEN RestoreBootParams(RestoreHead(clear, off))
                  ELSE RestoreHead(clear, off)
    BY DEF PreldrDecrypt
  <1> HIDE DEF clear
  <1>6. off \in Nat
    <2>1. PreldrData - BLDR_ENTRY_SIZE \in 0..(size - 1)
      BY <1>2 DEF BLDR_ENTRY_SIZE
    <2>2. clear[PreldrData - BLDR_ENTRY_SIZE] \in WordType
      BY <1>3, <2>1 DEF Buffer
    <2> QED BY <1>5, <2>2, ValuesOK DEF PreldrEntry
  <1>7. /\ RestoreHead(clear, off) \in Buffer
        /\ \A a \in 0..(size - 1) : a < BldrData(size) \/ a >= BldrData(size) + LDR_HEAD_SIZE =>
             RestoreHead(clear, off)[a] = clear[a]
    BY <1>1, <1>3, <1>6, RestoreHeadOK
  <1>8. /\ data' \in Buffer
        /\ \A a \in 0..(size - 1) : a < BldrData(size) + ParamsOffset =>
             data'[a] = RestoreHead(clear, off)[a]
    BY <1>1, <1>5, <1>7, RestoreBootParamsOK
  <1>9. \A a \in 0..(size - 1) :
          /\ a < BldrData(size) => data'[a] = data[a]
          /\ BeforeFbl(a) => data'[a] = Xor(data[a], PreldrKey, a - BldrData(size))
          /\ a >= PreldrData /\ a < BldrData(size) + ParamsOffset => data'[a] = data[a]
    <2>1. \A a \in 0..(size - 1) : BeforeFbl(a) =>
            a >= BldrData(size) + LDR_HEAD_SIZE /\ a < BldrData(size) + ParamsOffset
      BY <1>2 DEF BeforeFbl
    <2>2. \A a \in 0..(size - 1) : a >= PreldrData => a >= BldrData(size) + LDR_HEAD_SIZE
      BY <1>2
    <2>3. \A a \in 0..(size - 1) : a < BldrData(size) => a < BldrData(size) + ParamsOffset
      BY <1>2
    <2> QED BY <1>3, <1>7, <1>8, <2>1, <2>2, <2>3
  <1> QED BY <1>1, <1>4, <1>8, <1>9, KeysOK, BldrDecrypted

\* The boot parameters are read from inside of the 2BL, as three numbers.
LEMMA BootParamsIn ==
  ASSUME size \in BiosSizes, NEW mem \in Buffer,
         NEW ptr \in {BootParamsPlace, BootParamsPlace - PRELDR_NONCE_SIZE}
  PROVE  BootParamsAt(mem, ptr) \subseteq BOOT_PARAMS
  <1>1. ptr \in 0..(size - 1) /\ ptr + 1 \in 0..(size - 1) /\ ptr + 3 \in 0..(size - 1)
    BY Layout, LayoutAssumption DEF BootParamsPlace
  <1>2. mem[ptr] \in WordType /\ mem[ptr + 1] \in WordType /\ mem[ptr + 3] \in WordType
    BY <1>1 DEF Buffer
  <1>3. Values(mem[ptr]) \subseteq Nat /\ Values(mem[ptr + 1]) \subseteq Nat
        /\ Values(mem[ptr + 3]) \subseteq Nat
    BY <1>2, ValuesOK
  <1> QED BY <1>3 DEF BootParamsAt, BOOT_PARAMS

LEMMA BootParamsOK ==
  ASSUME LoadInv, pc = "validate"
  PROVE  BootParamsAt(data, bldr.boot_params) \subseteq BOOT_PARAMS
  <1>1. size \in BiosSizes /\ data \in Buffer
        /\ bldr.boot_params \in {BootParamsPlace, BootParamsPlace - PRELDR_NONCE_SIZE}
    BY DEF LoadInv, TypeOK, BldrStage, Buffer
  <1> QED BY <1>1, BootParamsIn

\* getOffsets2 follows words of the 2BL that are numbers, and what it makes of
\* them are addresses; keys it accepts are in the 2BL.
LEMMA GetOffsets2OK ==
  ASSUME size \in BiosSizes, NEW mem \in Buffer, bldr \in BLDR, kernel \in KERNEL,
         NEW ptr \in Int, NEW b \in BOOT_PARAMS, GetOffsets2(mem, b, ptr)
  PROVE  /\ bldr' \in BLDR /\ bldr'.enc = bldr.enc /\ bldr'.boot_params = ptr
         /\ \/ bldr'.keys = NULL
            \/ bldr'.keys \in BldrData(size)..(BldrData(size) + BLDR_BLOCK_SIZE - 3)
         /\ kernel' \in KERNEL /\ kernel'.enc = kernel.enc
         /\ bldr'.bfm_key = NULL \/ bldr'.bfm_key \in 0..(size - 1)
         /\ kernel'.compressed = BldrData(size) - b.kd - b.ks
         /\ kernel'.uncompressed = BldrData(size) - b.kd
  <1> DEFINE base == BldrData(size)
  <1>1. size \in BiosSizes /\ mem \in Buffer /\ bldr \in BLDR /\ kernel \in KERNEL
    OBVIOUS
  <1>2. /\ base \in Nat /\ base + BLDR_BLOCK_SIZE < size /\ size \in Nat /\ NULL \in Int
        /\ BLDR_BLOCK_SIZE \in Nat
    BY <1>1, Layout, LayoutAssumption
  <1> HIDE DEF base
  <1>3. PICK ep \in Values(mem[base]) :
          \E ko \in IF EntryInBounds(ep) THEN Values(mem[base + ep - BLDR_ENTRY_SIZE]) ELSE {0} :
            /\ bldr' = [bldr EXCEPT
                 !.boot_params = ptr,
                 !.keys = IF EntryInBounds(ep) /\ InBounds(ko, BLDR_KEYS_SIZE, BLDR_BLOCK_SIZE)
                          THEN base + ko ELSE NULL,
                 !.bfm_key = IF EntryInBounds(ep) /\ InBounds(ko - 1, 1, BLDR_BLOCK_SIZE)
                             THEN base + ko - 1 ELSE NULL]
            /\ kernel' = [kernel EXCEPT !.uncompressed = base - b.kd,
                                        !.compressed = base - b.kd - b.ks]
    BY DEF GetOffsets2, base
  <1>4. PICK ko \in IF EntryInBounds(ep) THEN Values(mem[base + ep - BLDR_ENTRY_SIZE]) ELSE {0} :
          /\ bldr' = [bldr EXCEPT
               !.boot_params = ptr,
               !.keys = IF EntryInBounds(ep) /\ InBounds(ko, BLDR_KEYS_SIZE, BLDR_BLOCK_SIZE)
                        THEN base + ko ELSE NULL,
               !.bfm_key = IF EntryInBounds(ep) /\ InBounds(ko - 1, 1, BLDR_BLOCK_SIZE)
                           THEN base + ko - 1 ELSE NULL]
          /\ kernel' = [kernel EXCEPT !.uncompressed = base - b.kd,
                                      !.compressed = base - b.kd - b.ks]
    BY <1>3
  <1>5. ep \in Nat
    <2>1. base \in 0..(size - 1)
      BY <1>2
    <2> QED BY <1>1, <1>3, <2>1, ValuesOK DEF Buffer
  <1>6. ko \in Nat
    <2>1. CASE EntryInBounds(ep)
      <3>1. base + ep - BLDR_ENTRY_SIZE \in 0..(size - 1)
        BY <1>2, <1>5, <2>1 DEF EntryInBounds, InBounds, BLDR_ENTRY_SIZE
      <3>2. mem[base + ep - BLDR_ENTRY_SIZE] \in WordType
        BY <1>1, <3>1 DEF Buffer
      <3> QED BY <1>4, <2>1, <3>2, ValuesOK
    <2>2. CASE ~EntryInBounds(ep)
      BY <1>4, <2>2
    <2> QED BY <2>1, <2>2
  <1> DEFINE keys == IF EntryInBounds(ep) /\ InBounds(ko, BLDR_KEYS_SIZE, BLDR_BLOCK_SIZE)
                     THEN base + ko ELSE NULL
             bfm_key == IF EntryInBounds(ep) /\ InBounds(ko - 1, 1, BLDR_BLOCK_SIZE)
                        THEN base + ko - 1 ELSE NULL
  <1>7. /\ keys \in Int /\ bfm_key \in Int
        /\ keys = NULL \/ keys \in base..(base + BLDR_BLOCK_SIZE - 3)
        /\ bfm_key = NULL \/ bfm_key \in 0..(size - 1)
    BY <1>2, <1>6 DEF InBounds, BLDR_KEYS_SIZE
  <1>8. bldr' = [enc |-> bldr.enc, boot_params |-> ptr, keys |-> keys,
                 bfm_key |-> bfm_key]
    BY <1>1, <1>4 DEF BLDR
  <1>9. kernel' = [enc |-> kernel.enc, uncompressed |-> base - b.kd,
                   compressed |-> base - b.kd - b.ks]
    BY <1>1, <1>4 DEF KERNEL
  <1> HIDE DEF keys, bfm_key
  <1>10. kernel' \in KERNEL
    BY <1>1, <1>2, <1>9 DEF KERNEL, BOOT_PARAMS
  <1>11. bldr' \in BLDR
    BY <1>1, <1>7, <1>8 DEF BLDR
  <1> QED BY <1>7, <1>8, <1>9, <1>10, <1>11 DEF base

\* Reading the boot parameters places the kernel below the 2BL.
LEMMA ValidateBldrInv ==
  ASSUME LoadInv, ValidateBldr, UNCHANGED file
  PROVE  LoadInv'
  <1>1. PICK b \in BootParamsAt(data, bldr.boot_params) :
          bp' = b /\ GetOffsets2(data, b, bldr.boot_params)
    BY DEF ValidateBldr
  <1>2. /\ pc = "validate" /\ pc' = "kernel" /\ size \in BiosSizes /\ data \in Buffer
        /\ UNCHANGED <<data, size, params, preldr, bios_status, file>>
        /\ kernel.compressed = NULL /\ kernel.enc = ~params.enc_kernel
    BY DEF LoadInv, TypeOK, KernelStage, ValidateBldr, Buffer
  <1>3. bp' = b /\ b \in BOOT_PARAMS
    BY <1>1, <1>2, BootParamsOK
  <1>4. /\ bldr' \in BLDR /\ bldr'.enc = bldr.enc /\ bldr'.boot_params = bldr.boot_params
        /\ \/ bldr'.keys = NULL
           \/ bldr'.keys \in BldrData(size)..(BldrData(size) + BLDR_BLOCK_SIZE - 3)
        /\ kernel' \in KERNEL /\ kernel'.enc = kernel.enc
        /\ kernel'.compressed = BldrData(size) - b.kd - b.ks
    <2>1. /\ data \in Buffer /\ bldr \in BLDR /\ kernel \in KERNEL /\ bldr.boot_params \in Int
      BY DEF LoadInv, TypeOK, Buffer, BLDR
    <2> QED BY <1>1, <1>2, <1>3, <2>1, GetOffsets2OK
  <1>5. TypeOK'
    BY <1>2, <1>3, <1>4 DEF LoadInv, TypeOK
  <1>6. Unchanged' /\ BldrStage' /\ StatusStage' /\ KernelStage'
    BY <1>2, <1>3, <1>4
       DEF LoadInv, Unchanged, BldrStage, StatusStage, KernelStage, BootParamsPlace
  <1>7. FblPreserved' /\ BldrLayer'
    BY <1>2, <1>4 DEF LoadInv, FblPreserved, BldrLayer, InBldr, BeforeFbl, PreldrData, SbKey
  <1>8. KernelLayer'
    <2>1. \A a \in DOMAIN data : a < BldrData(size) => data[a] = file[a]
      BY <1>2 DEF LoadInv, KernelLayer, InKernel
    <2>2. \A a \in DOMAIN data : InKernel(a)' => a < BldrData(size)
      <3>1. BldrData(size) \in Nat /\ size \in Nat
        BY <1>2, Layout
      <3> QED BY <1>2, <1>3, <1>4, <3>1 DEF InKernel, BOOT_PARAMS, Buffer
    <2> QED BY <1>2, <1>4, <2>1, <2>2 DEF KernelLayer
  <1> QED BY <1>2, <1>5, <1>6, <1>7, <1>8 DEF LoadInv, Stages, Buffer

\* Sizes that are too large end load.
LEMMA InvalidBldrInv ==
  ASSUME LoadInv, InvalidBldr, UNCHANGED file
  PROVE  LoadInv'
  <1>1. /\ pc = "validate" /\ pc' = "loaded" /\ bios_status' = "invalid_bldr"
        /\ UNCHANGED <<data, size, params, bldr, preldr, kernel, file>>
        /\ kernel.compressed = NULL /\ kernel.enc = ~params.enc_kernel
    BY DEF LoadInv, KernelStage, InvalidBldr
  <1>2. bp' \in BOOT_PARAMS
    BY <1>1, BootParamsOK DEF InvalidBldr
  <1>3. TypeOK'
    BY <1>1, <1>2 DEF LoadInv, TypeOK, Statuses
  <1>4. Unchanged' /\ BldrStage' /\ StatusStage' /\ KernelStage'
    BY <1>1 DEF LoadInv, Unchanged, BldrStage, StatusStage, KernelStage, BootParamsPlace
  <1>5. FblPreserved' /\ BldrLayer' /\ KernelLayer'
    BY <1>1 DEF LoadInv, FblPreserved, BldrLayer, KernelLayer, InBldr, BeforeFbl, InKernel,
                PreldrData, SbKey
  <1> QED BY <1>1, <1>3, <1>4, <1>5 DEF LoadInv, Stages, Buffer

\* The key for the kernel is a key or junk, wherever it comes from.
LEMMA KernelKeyOK ==
  ASSUME size \in BiosSizes, data \in Buffer, params \in BIOS_LOAD_PARAMS,
         bldr.keys = NULL \/ bldr.keys \in BldrData(size)..(BldrData(size) + BLDR_BLOCK_SIZE - 3)
  PROVE  KernelKey \in Int
  <1>1. \A w \in WordType : KeyOf(w) \in Int
    BY DEF KeyOf, WordType, JunkKey
  <1>2. bldr.keys # NULL => bldr.keys + 2 \in 0..(size - 1)
    BY Layout, LayoutAssumption
  <1>3. bldr.keys # NULL => data[bldr.keys + 2] \in WordType
    BY <1>2 DEF Buffer
  <1>4. params.kernel_key \in Int /\ NoKey \in Int
    BY DEF BIOS_LOAD_PARAMS, Keys, NoKey
  <1> QED BY <1>1, <1>3, <1>4 DEF KernelKey

\* The kernel's decryption stays below the 2BL, where its key is.
LEMMA DecryptKernelInv ==
  ASSUME LoadInv, DecryptKernel, UNCHANGED file
  PROVE  LoadInv'
  <1> DEFINE first == kernel.compressed
  <1>1. /\ pc = "kernel" /\ pc' = "loaded" /\ kernel.enc /\ bios_status' = "success"
        /\ UNCHANGED <<size, params, bldr, preldr, bp, file>>
        /\ size \in BiosSizes /\ data \in Buffer /\ params \in BIOS_LOAD_PARAMS
        /\ bldr \in BLDR /\ kernel \in KERNEL /\ bp \in BOOT_PARAMS
        /\ kernel.enc = ~params.enc_kernel
        /\ first = BldrData(size) - bp.kd - bp.ks
        /\ bldr.keys = NULL \/ bldr.keys \in BldrData(size)..(BldrData(size) + BLDR_BLOCK_SIZE - 3)
        /\ data' = EncDecKernel(data)
    BY DEF LoadInv, TypeOK, KernelStage, DecryptKernel, Buffer
  <1>2. /\ BldrData(size) \in Nat /\ BldrData(size) + BLDR_BLOCK_SIZE < size /\ size \in Nat
        /\ BLDR_BLOCK_SIZE \in Nat /\ NULL < 0 /\ NULL \in Int
        /\ bp.kd \in Nat /\ bp.ks \in Nat /\ first \in Int
        /\ 0 <= PreldrOffset /\ PreldrOffset \in Nat /\ LDR_HEAD_SIZE \in Nat
        /\ ParamsOffset \in Nat /\ ParamsOffset <= BLDR_BLOCK_SIZE
    BY <1>1, Layout, LayoutAssumption DEF BOOT_PARAMS, KERNEL
  <1>3. /\ kernel' = [kernel EXCEPT !.enc = FALSE]
        /\ kernel' \in KERNEL /\ kernel'.enc = FALSE /\ kernel'.compressed = first
    BY <1>1 DEF DecryptKernel, KERNEL
  <1>4. KernelKey \in Int /\ first >= 0
    <2>1. first >= 0
      BY <1>2 DEF DecryptKernel, KernelToggles, InBounds
    <2> QED BY <1>1, <2>1, KernelKeyOK
  <1> HIDE DEF first
  <1>5. /\ data' \in Buffer
        /\ \A a \in 0..(size - 1) :
             data'[a] = IF a >= first /\ a < first + bp.ks
                        THEN Xor(data[a], KernelKey, a - first + 0) ELSE data[a]
    <2>1. data' = Rc4(data, first, bp.ks, KernelKey, 0)
      BY <1>1 DEF EncDecKernel, first
    <2>2. ASSUME NEW f \in Int, NEW len \in Int, NEW k \in Int
          PROVE  /\ Rc4(data, f, len, k, 0) \in Buffer
                 /\ \A a \in 0..(size - 1) :
                      Rc4(data, f, len, k, 0)[a] =
                        IF a >= f /\ a < f + len THEN Xor(data[a], k, a - f + 0) ELSE data[a]
      <3>1. size - 1 \in Int /\ data \in Buffer
        BY <1>1, <1>2
      <3> QED BY <3>1, Rc4OK DEF Buffer
    <2>3. first \in Int /\ bp.ks \in Int /\ KernelKey \in Int
      BY <1>2, <1>4
    <2>4. /\ Rc4(data, first, bp.ks, KernelKey, 0) \in Buffer
          /\ \A a \in 0..(size - 1) :
               Rc4(data, first, bp.ks, KernelKey, 0)[a] =
                 IF a >= first /\ a < first + bp.ks
                 THEN Xor(data[a], KernelKey, a - first + 0) ELSE data[a]
      BY <2>2, <2>3, Zenon
    <2> QED BY <2>1, <2>4, Zenon
  <1>6. \A a \in 0..(size - 1) :
          /\ a >= BldrData(size) => data'[a] = data[a]
          /\ a >= first /\ a < first + bp.ks => /\ data'[a] = Xor(data[a], KernelKey, a - first)
                                                /\ a < BldrData(size)
          /\ ~(a >= first /\ a < first + bp.ks) => data'[a] = data[a]
    BY <1>1, <1>2, <1>5
  <1>7. KernelKey' = KernelKey
    <2>1. bldr.keys # NULL => data'[bldr.keys + 2] = data[bldr.keys + 2]
      <3>1. bldr.keys # NULL =>
              bldr.keys + 2 \in 0..(size - 1) /\ bldr.keys + 2 >= BldrData(size)
        BY <1>1, <1>2
      <3> QED BY <1>6, <3>1
    <2> QED BY <1>1, <2>1 DEF KernelKey
  <1>8. TypeOK'
    BY <1>1, <1>3, <1>5 DEF LoadInv, TypeOK, Buffer, Statuses
  <1>9. Unchanged' /\ BldrStage' /\ StatusStage' /\ KernelStage'
    BY <1>1 DEF LoadInv, Unchanged, BldrStage, StatusStage, KernelStage, BootParamsPlace
  <1>10. DOMAIN data = 0..(size - 1) /\ DOMAIN data' = 0..(size - 1)
    BY <1>1, <1>5 DEF Buffer
  <1>11. FblPreserved'
    <2>1. \A a \in PreldrData..(BldrData(size) + ParamsOffset - 1) :
            a \in 0..(size - 1) /\ a >= BldrData(size)
      BY <1>2 DEF PreldrData
    <2> QED BY <1>1, <1>6, <2>1 DEF LoadInv, FblPreserved, PreldrData
  <1>12. BldrLayer'
    <2>1. \A a \in 0..(size - 1) : InBldr(a) \/ BeforeFbl(a) => a >= BldrData(size)
      BY <1>2 DEF InBldr, BeforeFbl
    <2> QED BY <1>1, <1>6, <1>10, <2>1
            DEF LoadInv, BldrLayer, InBldr, BeforeFbl, PreldrData, SbKey
  <1>13. KernelLayer'
    <2>1. \A a : (InKernel(a) <=> a >= first /\ a < first + bp.ks)
                 /\ (InKernel(a)' <=> a >= first /\ a < first + bp.ks)
      BY <1>1, <1>2, <1>3, <1>4 DEF InKernel, first
    <2>2. \A a \in 0..(size - 1) : a < BldrData(size) => data[a] = file[a]
      BY <1>1, <1>10 DEF LoadInv, KernelLayer
    <2>3. \A a \in 0..(size - 1) : InKernel(a) => data'[a] = Xor(file[a], KernelKey, a - first)
      BY <1>6, <2>1, <2>2
    <2>4. \A a \in 0..(size - 1) : a < BldrData(size) /\ ~InKernel(a) => data'[a] = file[a]
      BY <1>6, <2>1, <2>2
    <2> QED BY <1>1, <1>3, <1>7, <1>10, <2>1, <2>3, <2>4 DEF KernelLayer
  <1> QED BY <1>1, <1>5, <1>8, <1>9, <1>11, <1>12, <1>13 DEF LoadInv, Stages, Buffer

-----------------------------------------------------------------------------
(* The theorems.                                                           *)

\* The invariant holds at every step of load.
THEOREM Invariant == LoadSpec => []LoadInv
  <1>1. LoadInit => LoadInv
    BY LoadInitInv
  <1>2. LoadInv /\ [LoadNext]_vars => LoadInv'
    <2> SUFFICES ASSUME LoadInv, [LoadNext]_vars PROVE LoadInv'
      OBVIOUS
    <2>1. CASE pc = "read" /\ LoadBegin(data, size, params) /\ UNCHANGED file
      <3>1. /\ size \in BiosSizes /\ file \in [0..(size - 1) -> WordType]
            /\ params \in BIOS_LOAD_PARAMS /\ data = file
        BY <2>1 DEF LoadInv, TypeOK, Unchanged, Buffer
      <3> QED BY <2>1, <3>1, BeginInv
    <2>2. CASE LoadStep /\ UNCHANGED file
      BY <2>2, IdleInv, PreldrEntryInvalidInv, PreldrDecryptInv, DecryptBldrInv, ValidateBldrInv,
         InvalidBldrInv, DecryptKernelInv DEF LoadStep
    <2>3. CASE UNCHANGED vars
      BY <2>3 DEF vars, biosVars, LoadInv, TypeOK, Unchanged, BldrStage, StatusStage, KernelStage,
                  FblPreserved, BldrLayer, KernelLayer, InBldr, BeforeFbl, InKernel, PreldrData,
                  SbKey, KernelKey, BootParamsPlace, Buffer
    <2> QED BY <2>1, <2>2, <2>3 DEF LoadNext
  <1> QED BY <1>1, <1>2, PTL DEF LoadSpec

\* The types of the Bios object: in particular a 2BL whose size fields are any
\* words at all leaves its pointers where they can be.
THEOREM LoadTypeOK == LoadSpec => []TypeOK
  <1>1. LoadInv => TypeOK
    BY DEF LoadInv
  <1> QED BY <1>1, Invariant, PTL

\* load never changes an FBL it has found.
THEOREM LoadPreservesFbl == LoadSpec => []FblPreserved
  <1>1. LoadInv => FblPreserved
    BY DEF LoadInv
  <1> QED BY <1>1, Invariant, PTL

\* load applies one keystream to the 2BL or none, and its state says which.
THEOREM LoadBldrLayer == LoadSpec => []BldrLayer
  <1>1. LoadInv => BldrLayer
    BY DEF LoadInv
  <1> QED BY <1>1, Invariant, PTL

\* Below the 2BL load changes the kernel only, under one keystream or none, and
\* its state says which.
THEOREM LoadKernelLayer == LoadSpec => []KernelLayer
  <1>1. LoadInv => KernelLayer
    BY DEF LoadInv
  <1> QED BY <1>1, Invariant, PTL

-----------------------------------------------------------------------------
(* Sessions: load and build in any order, from any files.                  *)

BuildStages == {"copy_bldr", "copy_kernel", "encrypt_kernel", "encrypt_bldr", "copy_preldr",
                "replicate", "built"}

BUILD ==
  [bldr : Seq(WordType), preldr : Seq(WordType), inittbl : Seq(WordType), krnl : Seq(WordType),
   kdata : Seq(WordType), bfm : BOOLEAN, nobootparams : BOOLEAN, hackinittbl : BOOLEAN,
   hacksignature : BOOLEAN, eeprom_key : Keys, cert_key : Keys]

\* The pointers getOffsets2 has followed are NULL or in the buffer.
KeysPlaced ==
  /\ bldr.keys = NULL \/ bldr.keys \in BldrData(size)..(BldrData(size) + BLDR_BLOCK_SIZE - 3)
  /\ bldr.bfm_key = NULL \/ bldr.bfm_key \in 0..(size - 1)

\* The size that was chosen is enough, if any is.
RoomEnough == RequiredSpace(build) <= MAX_BIOS_SIZE => RequiredSpace(build) <= size

\* A word that reads as one number.
IsNumber(w) == w.src = "word" /\ w.ks = {}

\* When the 2BL is in place, its boot parameters are those of the files, the
\* kernel's place is what they make it, and the rest of it is as in its file.
BldrPlaced ==
  pc = "copy_kernel" =>
    /\ kernel.compressed = BldrData(size) - bp.kd - bp.ks
    /\ kernel.uncompressed = BldrData(size) - bp.kd
    /\ ~build.nobootparams =>
         /\ bp.kd = Len(build.kdata) /\ bp.ks = Len(build.krnl)
         /\ \A i \in {0, 1, 3} : IsNumber(data[BootParamsPlace + i])
         /\ BootParamsAt(data, BootParamsPlace) = {bp}
    /\ \A o \in 0..(BootParamsOffset - 1) :
         o < Len(build.bldr) => data[BldrData(size) + o] = build.bldr[o + 1]

BuildInv ==
  /\ pc \in BuildStages /\ TypeOK
  /\ build \in BUILD
  /\ bldr.boot_params = BootParamsPlace
  /\ KeysPlaced /\ RoomEnough
  /\ pc \in {"copy_bldr", "copy_kernel"} => overrun = FALSE
  /\ BldrPlaced /\ NoOverrun /\ LaidOut

\* Between two commands only the files matter; an extraction is load's invariant.
SessionInv ==
  /\ cmd \in {"none", "extract", "build"}
  /\ file = NoBios \/ \E n \in BiosSizes : file \in [0..(n - 1) -> WordType]
  /\ files \in COMPONENTS
  /\ cmd = "none" => pc \in {"idle", "loaded", "extracted", "built"}
  /\ cmd = "extract" => LoadInv
  /\ cmd = "build" => BuildInv

-----------------------------------------------------------------------------
\* validate_required_space: an image size, and enough unless none is.
LEMMA DoubledOK ==
  ASSUME NEW n \in BiosSizes, NEW r \in Nat
  PROVE  /\ Doubled(n, r) \in BiosSizes
         /\ r <= MAX_BIOS_SIZE => r <= Doubled(n, r)
  <1> DEFINE Sizes3 == {n, 2 * n, 4 * n}
             Enough(m) == /\ m >= r \/ m >= MAX_BIOS_SIZE
                          /\ \A k \in Sizes3 : k < m => k < r /\ k < MAX_BIOS_SIZE
  <1>1. /\ MIN_BIOS_SIZE \in Nat \ {0} /\ MAX_BIOS_SIZE = 4 * MIN_BIOS_SIZE
        /\ n \in Nat \ {0}
        /\ n \in {MIN_BIOS_SIZE, 2 * MIN_BIOS_SIZE, 4 * MIN_BIOS_SIZE}
    BY LayoutAssumption, SMT DEF BiosSizes, MAX_BIOS_SIZE
  <1>2. \E m \in Sizes3 : Enough(m)
    <2>1. 4 * n >= MAX_BIOS_SIZE
      BY <1>1
    <2>2. CASE n >= r \/ n >= MAX_BIOS_SIZE
      BY <1>1, <2>2
    <2>3. CASE ~(n >= r \/ n >= MAX_BIOS_SIZE) /\ (2 * n >= r \/ 2 * n >= MAX_BIOS_SIZE)
      BY <1>1, <2>3
    <2>4. CASE ~(n >= r \/ n >= MAX_BIOS_SIZE) /\ ~(2 * n >= r \/ 2 * n >= MAX_BIOS_SIZE)
      BY <1>1, <2>1, <2>4
    <2> QED BY <2>2, <2>3, <2>4
  <1>3. Doubled(n, r) = CHOOSE m \in Sizes3 : Enough(m)
    BY DEF Doubled
  <1> HIDE DEF Enough
  <1>4. Doubled(n, r) \in Sizes3 /\ Enough(Doubled(n, r))
    BY <1>2, <1>3, Zenon
  <1> DEFINE m == Doubled(n, r)
  <1>5. /\ m \in {n, 2 * n, 4 * n} /\ (m >= r \/ m >= MAX_BIOS_SIZE)
        /\ n < m => n < MAX_BIOS_SIZE
        /\ 2 * n < m => 2 * n < MAX_BIOS_SIZE
    BY <1>4 DEF Enough
  <1> HIDE DEF m
  <1>6. m \in {MIN_BIOS_SIZE, 2 * MIN_BIOS_SIZE, 4 * MIN_BIOS_SIZE}
    BY <1>1, <1>5
  <1>7. r <= MAX_BIOS_SIZE => r <= m
    BY <1>1, <1>5, <1>6
  <1> QED BY <1>6, <1>7 DEF m, BiosSizes

LEMMA BuildFilesOK ==
  ASSUME files \in COMPONENTS, NEW s \in BUILD_SWITCHES
  PROVE  BuildFiles(s) \in BUILD
  <1>1. /\ files.bldr \in Seq(WordType) /\ files.preldr \in Seq(WordType)
        /\ files.inittbl \in Seq(WordType) /\ files.krnl \in Seq(WordType)
        /\ files.kdata \in Seq(WordType)
    BY DEF COMPONENTS
  <1>2. <<>> \in Seq(WordType)
    OBVIOUS
  <1>3. /\ s.bfm \in BOOLEAN /\ s.nobootparams \in BOOLEAN /\ s.hackinittbl \in BOOLEAN
        /\ s.hacksignature \in BOOLEAN /\ s.eeprom_key \in Keys /\ s.cert_key \in Keys
    BY DEF BUILD_SWITCHES
  <1>4. (IF s.preldr /\ files.preldr # Absent THEN files.preldr ELSE <<>>) \in Seq(WordType)
    BY <1>1, <1>2
  <1> QED BY <1>1, <1>3, <1>4 DEF BuildFiles, BUILD

LEMMA RequiredSpaceOK ==
  ASSUME NEW b \in BUILD
  PROVE  /\ RequiredSpace(b) \in Nat
         /\ Len(b.bldr) \in Nat /\ Len(b.krnl) \in Nat /\ Len(b.kdata) \in Nat
         /\ Len(b.inittbl) \in Nat /\ Len(b.preldr) \in Nat
  <1>1. /\ Len(b.bldr) \in Nat /\ Len(b.krnl) \in Nat /\ Len(b.kdata) \in Nat
        /\ Len(b.inittbl) \in Nat /\ Len(b.preldr) \in Nat
    BY LenProperties DEF BUILD
  <1>2. BLDR_BLOCK_SIZE \in Nat /\ MCPX_BLOCK_SIZE \in Nat
    BY LayoutAssumption
  <1>3. \A c, d, k, m, n \in Nat : c + d + k + m + n \in Nat
    OBVIOUS
  <1>4. RequiredSpace(b) \in Nat
    BY <1>1, <1>2, <1>3, Zenon DEF RequiredSpace
  <1> QED BY <1>1, <1>4

\* build up to where init has set the buffer up.
LEMMA BuildBeginsInv == SessionInv /\ BuildBegins => SessionInv'
  <1> SUFFICES ASSUME SessionInv, BuildBegins PROVE SessionInv'
    OBVIOUS
  <1>1. PICK s \in BuildSwitches : BuildBegin(BuildFiles(s), s.binsize, s.params)
    BY DEF BuildBegins
  <1>2. cmd' = "build" /\ UNCHANGED <<file, files>>
    BY DEF BuildBegins, Begin
  <1> DEFINE b == BuildFiles(s)
             p == s.params
             rom == RomSize(b, p.romsize)
             bin == Larger(IF b.bfm THEN MAX_BIOS_SIZE ELSE s.binsize, rom)
  <1>3. s \in BUILD_SWITCHES /\ s.binsize \in BiosSizes /\ p \in BIOS_LOAD_PARAMS
        /\ p.romsize \in BiosSizes
    BY SessionAssumption DEF BUILD_SWITCHES, BIOS_LOAD_PARAMS
  <1>4. b \in BUILD
    BY <1>3, BuildFilesOK DEF SessionInv
  <1>5. RequiredSpace(b) \in Nat
    BY <1>4, RequiredSpaceOK
  <1>6. /\ rom \in BiosSizes
        /\ RequiredSpace(b) <= MAX_BIOS_SIZE => RequiredSpace(b) <= rom
    BY <1>3, <1>5, DoubledOK DEF RomSize
  <1>7. bin \in BiosSizes /\ rom <= bin
    <2>1. MAX_BIOS_SIZE \in BiosSizes
      BY DEF BiosSizes, MAX_BIOS_SIZE
    <2>2. (IF b.bfm THEN MAX_BIOS_SIZE ELSE s.binsize) \in BiosSizes
      BY <1>3, <2>1
    <2> HIDE DEF rom, b
    <2> QED BY <1>6, <2>2, Layout DEF Larger
  <1>8. /\ data' = [a \in 0..(bin - 1) |-> Zero] /\ size' = bin /\ build' = b
        /\ params' = [[p EXCEPT !.romsize = rom] EXCEPT !.romsize = IF @ > bin THEN bin ELSE @]
        /\ bldr' = [enc |-> p.enc_bldr, boot_params |-> BldrData(bin) + BootParamsOffset,
                    keys |-> NULL, bfm_key |-> NULL]
        /\ kernel' = [enc |-> (p.enc_kernel <=> p.kernel_key # NoKey),
                      compressed |-> NULL, uncompressed |-> NULL]
        /\ overrun' = FALSE /\ preldr' = "error" /\ bp' = [kd |-> 0, it |-> 0, ks |-> 0]
        /\ bios_status' = "success" /\ pc' = "copy_bldr"
    BY <1>1 DEF BuildBegin, InitBios
  <1> HIDE DEF b, p, rom, bin
  <1>9. TypeOK'
    <2>1. data' \in [0..(bin - 1) -> WordType]
      BY <1>8, WordOK DEF Zero
    <2>2. params' \in BIOS_LOAD_PARAMS
      BY <1>3, <1>6, <1>7, <1>8 DEF BIOS_LOAD_PARAMS
    <2>3. /\ BldrData(bin) + BootParamsOffset \in Int /\ NULL \in Int
          /\ p.enc_bldr \in BOOLEAN /\ (p.enc_kernel <=> p.kernel_key # NoKey) \in BOOLEAN
      BY <1>3, <1>7, Layout DEF BIOS_LOAD_PARAMS
    <2>4. bldr' \in BLDR /\ kernel' \in KERNEL
      BY <1>8, <2>3 DEF BLDR, KERNEL
    <2>5. bldr'.boot_params = BldrData(size)' + BootParamsOffset
      BY <1>8
    <2>6. bp' \in BOOT_PARAMS
      BY <1>8 DEF BOOT_PARAMS
    <2> QED BY <1>7, <1>8, <2>1, <2>2, <2>4, <2>5, <2>6
            DEF TypeOK, PreldrStatuses, Statuses, BiosSizes, BIOS_LOAD_PARAMS, BLDR, KERNEL,
                BOOT_PARAMS
  <1>10. bldr'.boot_params = BootParamsPlace'
    BY <1>8 DEF BootParamsPlace
  <1>11. KeysPlaced' /\ RoomEnough'
    <2>1. KeysPlaced'
      BY <1>8 DEF KeysPlaced
    <2>2. (RequiredSpace(b) <= MAX_BIOS_SIZE => RequiredSpace(b) <= bin)
      BY <1>5, <1>6, <1>7, Layout
    <2>3. RoomEnough'
      BY <1>8, <2>2 DEF RoomEnough, RequiredSpace, MAX_BIOS_SIZE
    <2> QED BY <2>1, <2>3
  <1>12. BldrPlaced' /\ NoOverrun' /\ LaidOut'
    BY <1>8 DEF BldrPlaced, NoOverrun, LaidOut
  <1>13. BuildInv'
    BY <1>4, <1>8, <1>9, <1>10, <1>11, <1>12 DEF BuildInv, BuildStages, BUILD
  <1> QED BY <1>2, <1>13 DEF SessionInv, COMPONENTS, BiosSizes, NoBios

-----------------------------------------------------------------------------
(* What a copy leaves in its place.                                        *)

LEMMA CopyInAt ==
  ASSUME NEW hi \in Int, NEW mem \in [0..hi -> WordType], NEW first \in Int,
         NEW f \in Seq(WordType)
  PROVE  \A a \in 0..hi :
           CopyIn(mem, first, f)[a] =
             IF a >= first /\ a < first + Len(f) THEN f[a - first + 1] ELSE mem[a]
  BY DEF CopyIn

\* A file that is in place word for word is the slice of its place.
LEMMA SliceIs ==
  ASSUME NEW hi \in Int, NEW mem \in [0..hi -> WordType], NEW first \in Int,
         NEW f \in Seq(WordType), first >= 0, first + Len(f) <= hi + 1,
         \A i \in 1..Len(f) : mem[first + i - 1] = f[i]
  PROVE  Slice(mem, first, Len(f)) = f
  <1> DEFINE s == Slice(mem, first, Len(f))
  <1>1. Len(f) \in Nat
    BY LenProperties
  <1>2. s \in Seq(WordType) /\ Len(s) = Len(f)
    BY <1>1, SliceOK
  <1>3. ASSUME NEW i \in 1..Len(f)
        PROVE  s[i] = f[i]
    <2>1. first + i - 1 \in 0..hi
      BY <1>1
    <2>2. s[i] = mem[first + i - 1]
      BY <2>1 DEF Slice
    <2> QED BY <2>2
  <1> HIDE DEF s
  <1>4. s = f
    BY <1>2, <1>3, SeqEqual
  <1> QED BY <1>4 DEF s

LEMMA NumberOK ==
  /\ \A v \in Nat : IsNumber(Word(v)) /\ Values(Word(v)) = {v}
  /\ \A w \in WordType : IsNumber(w) => Values(w) = {w.at} /\ w.at \in Nat
BY DEF IsNumber, Values, Word, Clear, WordType

\* Boot parameters that are numbers read as one record.
LEMMA BootParamsRead ==
  ASSUME NEW mem, NEW ptr \in Int, NEW kd, NEW it, NEW ks,
         Values(mem[ptr]) = {kd}, Values(mem[ptr + 1]) = {it}, Values(mem[ptr + 3]) = {ks}
  PROVE  BootParamsAt(mem, ptr) = {[kd |-> kd, it |-> it, ks |-> ks]}
  <1> DEFINE V == Values(mem[ptr]) \X Values(mem[ptr + 1]) \X Values(mem[ptr + 3])
  <1>1. V = {<<kd, it, ks>>}
    OBVIOUS
  <1> HIDE DEF V
  <1>2. BootParamsAt(mem, ptr) = {[kd |-> v[1], it |-> v[2], ks |-> v[3]] : v \in V}
    BY DEF BootParamsAt, V
  <1> QED BY <1>1, <1>2

\* What the build writes into the boot parameters reads as the sizes of its files.
LEMMA UpdateBootParamsOK ==
  ASSUME size \in BiosSizes, NEW mem \in Buffer, build \in BUILD,
         bldr.boot_params = BootParamsPlace
  PROVE  /\ UpdateBootParams(mem) \in Buffer
         /\ \A a \in 0..(size - 1) : a < BootParamsPlace => UpdateBootParams(mem)[a] = mem[a]
         /\ ~build.nobootparams =>
              /\ \A i \in {0, 1, 3} : IsNumber(UpdateBootParams(mem)[BootParamsPlace + i])
              /\ \E it \in Nat : BootParamsAt(UpdateBootParams(mem), BootParamsPlace) =
                   {[kd |-> Len(build.kdata), it |-> it, ks |-> Len(build.krnl)]}
  <1> DEFINE p == BootParamsPlace
             kd == Len(build.kdata)
             it == IF build.hackinittbl THEN 0 ELSE Len(build.inittbl)
             sig == IF build.hacksignature THEN ONES ELSE 1
             ks == Len(build.krnl)
             f == <<Word(kd), Word(it), Word(sig), Word(ks)>>
             new == CopyIn(mem, p, f)
  <1>1. kd \in Nat /\ it \in Nat /\ sig \in Nat /\ ks \in Nat
    <2>1. Len(build.kdata) \in Nat /\ Len(build.inittbl) \in Nat /\ Len(build.krnl) \in Nat
      BY RequiredSpaceOK
    <2>2. 0 \in Nat /\ 1 \in Nat /\ ONES \in Nat
      BY DEF ONES
    <2> QED BY <2>1, <2>2, Zenon
  <1>2. p \in Nat /\ p + 4 <= size /\ size - 1 \in Int /\ size \in Nat
    <2>1. /\ size \in Nat /\ BldrData(size) \in Nat /\ BootParamsOffset \in Nat
          /\ BldrData(size) + BLDR_BLOCK_SIZE < size /\ BootParamsOffset + 4 <= BLDR_BLOCK_SIZE
          /\ BLDR_BLOCK_SIZE \in Nat
      BY Layout, LayoutAssumption
    <2> QED BY <2>1 DEF BootParamsPlace
  <1>3. UpdateBootParams(mem) = IF build.nobootparams THEN mem ELSE new
    BY DEF UpdateBootParams
  <1> HIDE DEF p, kd, it, sig, ks
  <1>4. f \in Seq(WordType) /\ Len(f) = 4
    BY <1>1, WordOK
  <1>5. f[1] = Word(kd) /\ f[2] = Word(it) /\ f[4] = Word(ks)
    OBVIOUS
  <1> HIDE DEF f
  <1>6. /\ new \in Buffer
        /\ \A a \in 0..(size - 1) : ~(a >= p /\ a < p + 4) => new[a] = mem[a]
    <2>1. mem \in [0..(size - 1) -> WordType] /\ p \in Int
      BY <1>2 DEF Buffer
    <2>2. /\ new \in [0..(size - 1) -> WordType]
          /\ \A a \in 0..(size - 1) : ~(a >= p /\ a < p + Len(f)) => new[a] = mem[a]
      BY <1>2, <1>4, <2>1, CopyInOK
    <2> QED BY <1>4, <2>2 DEF Buffer
  <1>7. \A a \in 0..(size - 1) : a >= p /\ a < p + 4 => new[a] = f[a - p + 1]
    <2>1. mem \in [0..(size - 1) -> WordType] /\ p \in Int
      BY <1>2 DEF Buffer
    <2> QED BY <1>2, <1>4, <2>1, CopyInAt
  <1> HIDE DEF new
  <1>8. new[p] = Word(kd) /\ new[p + 1] = Word(it) /\ new[p + 3] = Word(ks)
    <2>1. /\ p \in 0..(size - 1) /\ p + 1 \in 0..(size - 1) /\ p + 3 \in 0..(size - 1)
          /\ p - p + 1 = 1 /\ (p + 1) - p + 1 = 2 /\ (p + 3) - p + 1 = 4
      BY <1>2
    <2>2. new[p] = f[1]
      BY <1>2, <1>7, <2>1
    <2>3. new[p + 1] = f[2]
      BY <1>2, <1>7, <2>1
    <2>4. new[p + 3] = f[4]
      BY <1>2, <1>7, <2>1
    <2> QED BY <1>5, <2>2, <2>3, <2>4
  <1>9. \A i \in {0, 1, 3} : IsNumber(new[p + i])
    BY <1>1, <1>2, <1>8, NumberOK
  <1>10. BootParamsAt(new, p) = {[kd |-> kd, it |-> it, ks |-> ks]}
    <2>1. /\ Values(new[p]) = {kd} /\ Values(new[p + 1]) = {it} /\ Values(new[p + 3]) = {ks}
          /\ p \in Int
      BY <1>1, <1>2, <1>8, NumberOK
    <2> QED BY <2>1, BootParamsRead, SMTT(30)
  <1>11. \A a \in 0..(size - 1) : a < p => new[a] = mem[a]
    BY <1>2, <1>6
  <1> QED
    <2>1. CASE build.nobootparams
      BY <1>3, <2>1 DEF p
    <2>2. CASE ~build.nobootparams
      <3>1. UpdateBootParams(mem) = new
        BY <1>3, <2>2
      <3> QED BY <1>1, <1>6, <1>9, <1>10, <1>11, <3>1 DEF p, kd, ks
    <2> QED BY <2>1, <2>2

-----------------------------------------------------------------------------
(* The steps of build.                                                     *)

\* What stays as it is when a step does not touch what it is about.
LEMMA StaysPlaced ==
  ASSUME BuildInv, UNCHANGED <<size, build, bldr>>
  PROVE  /\ KeysPlaced' /\ RoomEnough' /\ BootParamsPlace' = BootParamsPlace
         /\ bldr'.boot_params = BootParamsPlace' /\ build' \in BUILD
  BY DEF BuildInv, KeysPlaced, RoomEnough, RequiredSpace, BootParamsPlace

LEMMA BldrTooBigInv ==
  ASSUME cmd = "build", BuildInv, BldrTooBig, UNCHANGED cmd
  PROVE  BuildInv'
  <1>1. /\ pc' = "built" /\ bios_status' = "failed"
        /\ UNCHANGED <<data, size, params, bldr, preldr, kernel, bp, build, overrun>>
        /\ pc = "copy_bldr"
    BY DEF BldrTooBig, Fail, buildVars
  <1>2. TypeOK'
    BY <1>1 DEF BuildInv, TypeOK, Statuses, BIOS_LOAD_PARAMS, BLDR, KERNEL, BOOT_PARAMS, BiosSizes
  <1>3. overrun = FALSE
    BY <1>1 DEF BuildInv
  <1>4. BldrPlaced' /\ NoOverrun' /\ LaidOut'
    BY <1>1, <1>3 DEF BldrPlaced, NoOverrun, LaidOut
  <1> QED BY <1>1, <1>2, <1>4, StaysPlaced DEF BuildInv, BuildStages

LEMMA CopyBldrInv ==
  ASSUME cmd = "build", BuildInv, CopyBldr, UNCHANGED cmd
  PROVE  BuildInv'
  <1> DEFINE base == BldrData(size)
             copied == CopyIn(data, base, build.bldr)
             mem == UpdateBootParams(copied)
  <1>1. /\ pc = "copy_bldr" /\ data' = mem
        /\ UNCHANGED <<size, params, preldr, build, overrun>>
    BY DEF CopyBldr, buildVars
  <1>2. /\ size \in BiosSizes /\ data \in Buffer /\ build \in BUILD /\ TypeOK
        /\ bldr \in BLDR /\ kernel \in KERNEL /\ bldr.boot_params = BootParamsPlace
        /\ overrun = FALSE
    BY <1>1 DEF BuildInv, TypeOK, Buffer
  <1>3. /\ base \in Nat /\ size \in Nat /\ base + BLDR_BLOCK_SIZE < size
        /\ BootParamsOffset \in Nat /\ BootParamsOffset + 4 <= BLDR_BLOCK_SIZE
        /\ BootParamsPlace = base + BootParamsOffset /\ BLDR_BLOCK_SIZE \in Nat
    BY <1>2, Layout, LayoutAssumption DEF BootParamsPlace
  <1>4. build.bldr \in Seq(WordType) /\ Len(build.bldr) \in Nat
    BY <1>2, RequiredSpaceOK DEF BUILD
  <1> HIDE DEF base
  <1>5. /\ copied \in Buffer
        /\ \A a \in 0..(size - 1) : copied[a] =
             IF a >= base /\ a < base + Len(build.bldr) THEN build.bldr[a - base + 1] ELSE data[a]
    <2>1. data \in [0..(size - 1) -> WordType] /\ base \in Int /\ size - 1 \in Int
      BY <1>2, <1>3 DEF Buffer
    <2>2. copied \in [0..(size - 1) -> WordType]
      BY <1>4, <2>1, CopyInOK
    <2>3. \A a \in 0..(size - 1) : copied[a] =
            IF a >= base /\ a < base + Len(build.bldr) THEN build.bldr[a - base + 1] ELSE data[a]
      BY <1>4, <2>1, CopyInAt
    <2> QED BY <2>2, <2>3 DEF Buffer
  <1> HIDE DEF copied
  <1>6. /\ mem \in Buffer
        /\ \A a \in 0..(size - 1) : a < BootParamsPlace => mem[a] = copied[a]
        /\ ~build.nobootparams =>
             /\ \A i \in {0, 1, 3} : IsNumber(mem[BootParamsPlace + i])
             /\ \E it \in Nat : BootParamsAt(mem, BootParamsPlace) =
                  {[kd |-> Len(build.kdata), it |-> it, ks |-> Len(build.krnl)]}
    BY <1>2, <1>5, UpdateBootParamsOK
  <1> HIDE DEF mem
  <1>7. PICK b \in BootParamsAt(mem, BootParamsPlace) :
          /\ bp' = b
          /\ IF ValidBootParams(b)
             THEN /\ GetOffsets2(mem, b, BootParamsPlace)
                  /\ pc' = "copy_kernel"
                  /\ UNCHANGED bios_status
             ELSE /\ bios_status' = "invalid_bldr"
                  /\ pc' = "built"
                  /\ UNCHANGED <<bldr, kernel>>
    <2>1. PICK m : m = data'
      OBVIOUS
    <2>2. m = mem
      BY <1>1, <2>1
    <2>3. \E b \in BootParamsAt(m, bldr.boot_params) :
            /\ bp' = b
            /\ IF ValidBootParams(b)
               THEN /\ GetOffsets2(m, b, bldr.boot_params)
                    /\ pc' = "copy_kernel"
                    /\ UNCHANGED bios_status
               ELSE /\ bios_status' = "invalid_bldr"
                    /\ pc' = "built"
                    /\ UNCHANGED <<bldr, kernel>>
      BY <2>1 DEF CopyBldr, GetOffsets2
    <2> QED BY <1>2, <2>2, <2>3
  <1>8. b \in BOOT_PARAMS
    BY <1>2, <1>6, <1>7, BootParamsIn
  <1>9. data' \in [0..(size - 1) -> WordType] /\ bp' \in BOOT_PARAMS
    BY <1>1, <1>6, <1>7, <1>8 DEF Buffer
  <1>10. CASE ~ValidBootParams(b)
    <2>1. /\ pc' = "built" /\ bios_status' = "invalid_bldr"
          /\ UNCHANGED <<size, params, preldr, build, overrun, bldr, kernel>>
      BY <1>1, <1>7, <1>10
    <2>2. TypeOK'
      BY <1>2, <1>9, <2>1
         DEF TypeOK, Statuses, BIOS_LOAD_PARAMS, BLDR, KERNEL, BOOT_PARAMS, BiosSizes
    <2>3. BldrPlaced' /\ NoOverrun' /\ LaidOut'
      BY <1>2, <2>1 DEF BldrPlaced, NoOverrun, LaidOut
    <2> QED BY <2>1, <2>2, <2>3, StaysPlaced DEF BuildInv, BuildStages
  <1>11. CASE ValidBootParams(b)
    <2>1. /\ pc' = "copy_kernel" /\ UNCHANGED bios_status /\ GetOffsets2(mem, b, BootParamsPlace)
      BY <1>7, <1>11
    <2>2. BootParamsPlace \in Int
      BY <1>3
    <2>3. /\ bldr' \in BLDR /\ bldr'.boot_params = BootParamsPlace
          /\ \/ bldr'.keys = NULL
             \/ bldr'.keys \in BldrData(size)..(BldrData(size) + BLDR_BLOCK_SIZE - 3)
          /\ bldr'.bfm_key = NULL \/ bldr'.bfm_key \in 0..(size - 1)
          /\ kernel' \in KERNEL
          /\ kernel'.compressed = BldrData(size) - b.kd - b.ks
          /\ kernel'.uncompressed = BldrData(size) - b.kd
      BY <1>2, <1>6, <1>8, <2>1, <2>2, GetOffsets2OK
    <2>4. TypeOK'
      BY <1>1, <1>2, <1>9, <2>1, <2>3
         DEF TypeOK, Statuses, BIOS_LOAD_PARAMS, BLDR, KERNEL, BOOT_PARAMS, BiosSizes, BootParamsPlace
    <2>5. KeysPlaced' /\ RoomEnough' /\ bldr'.boot_params = BootParamsPlace' /\ build' \in BUILD
      BY <1>1, <1>2, <2>3 DEF BuildInv, KeysPlaced, RoomEnough, RequiredSpace, BootParamsPlace
    <2>6. BldrPlaced'
      <3>1. kernel'.compressed = BldrData(size) - bp'.kd - bp'.ks
            /\ kernel'.uncompressed = BldrData(size) - bp'.kd
        BY <1>7, <2>3
      <3>2. ASSUME ~build.nobootparams
            PROVE  /\ bp'.kd = Len(build.kdata) /\ bp'.ks = Len(build.krnl)
                   /\ \A i \in {0, 1, 3} : IsNumber(mem[BootParamsPlace + i])
                   /\ BootParamsAt(mem, BootParamsPlace) = {bp'}
        <4>1. PICK it \in Nat : BootParamsAt(mem, BootParamsPlace) =
                {[kd |-> Len(build.kdata), it |-> it, ks |-> Len(build.krnl)]}
          BY <1>6, <3>2
        <4>2. b = [kd |-> Len(build.kdata), it |-> it, ks |-> Len(build.krnl)]
          BY <1>7, <4>1
        <4> QED BY <1>6, <1>7, <3>2, <4>1, <4>2
      <3>3. ASSUME NEW o \in 0..(BootParamsOffset - 1), o < Len(build.bldr)
            PROVE  mem[base + o] = build.bldr[o + 1]
        <4>1. base + o \in 0..(size - 1) /\ base + o < BootParamsPlace
              /\ base + o >= base /\ base + o < base + Len(build.bldr)
              /\ (base + o) - base + 1 = o + 1
          BY <1>3, <1>4, <3>3
        <4> QED BY <1>5, <1>6, <4>1
      <3>4. \A o \in 0..(BootParamsOffset - 1) :
              o < Len(build.bldr) => mem[BldrData(size) + o] = build.bldr[o + 1]
        BY <3>3 DEF base
      <3>5. /\ data' = mem /\ size' = size /\ build' = build
            /\ BootParamsPlace' = BootParamsPlace
        BY <1>1 DEF BootParamsPlace
      <3>6. PICK v : v = bp'
        OBVIOUS
      <3> QED BY <3>1, <3>2, <3>4, <3>5, <3>6 DEF BldrPlaced, BootParamsAt
    <2>7. NoOverrun' /\ LaidOut'
      BY <1>1, <1>2, <2>1 DEF NoOverrun, LaidOut
    <2> QED BY <1>1, <1>2, <2>1, <2>4, <2>5, <2>6, <2>7 DEF BuildInv, BuildStages
  <1> QED BY <1>10, <1>11

\* A copy within a buffer, as a step of build uses it.
LEMMA CopyOK ==
  ASSUME size \in BiosSizes, NEW mem \in Buffer, NEW first \in Int, NEW f \in Seq(WordType)
  PROVE  /\ CopyIn(mem, first, f) \in Buffer
         /\ \A a \in 0..(size - 1) :
              CopyIn(mem, first, f)[a] =
                IF a >= first /\ a < first + Len(f) THEN f[a - first + 1] ELSE mem[a]
  <1>1. size - 1 \in Int
    BY Layout
  <1>2. mem \in [0..(size - 1) -> WordType]
    BY DEF Buffer
  <1> QED BY <1>1, <1>2, CopyInOK, CopyInAt DEF Buffer

LEMMA CopyWordOK ==
  ASSUME size \in BiosSizes, NEW mem \in Buffer, NEW first \in Int, NEW w \in WordType
  PROVE  /\ CopyIn(mem, first, <<w>>) \in Buffer
         /\ \A a \in 0..(size - 1) :
              CopyIn(mem, first, <<w>>)[a] = IF a = first THEN w ELSE mem[a]
  <1> DEFINE f == <<w>>
  <1>1. f \in Seq(WordType) /\ Len(f) = 1 /\ f[1] = w
    OBVIOUS
  <1> HIDE DEF f
  <1> DEFINE new == CopyIn(mem, first, f)
  <1>2. /\ new \in Buffer
        /\ \A a \in 0..(size - 1) :
             new[a] = IF a >= first /\ a < first + Len(f) THEN f[a - first + 1] ELSE mem[a]
    BY <1>1, CopyOK
  <1> HIDE DEF new
  <1>3. ASSUME NEW a \in 0..(size - 1)
        PROVE  new[a] = IF a = first THEN w ELSE mem[a]
    <2>1. new[a] = IF a >= first /\ a < first + 1 THEN f[a - first + 1] ELSE mem[a]
      BY <1>1, <1>2
    <2>2. CASE a = first
      <3>1. a - first + 1 = 1 /\ a >= first /\ a < first + 1
        BY <2>2
      <3> QED BY <1>1, <2>1, <2>2, <3>1
    <2>3. CASE a # first
      <3>1. ~(a >= first /\ a < first + 1)
        BY <2>3
      <3> QED BY <2>1, <2>3, <3>1
    <2> QED BY <2>2, <2>3
  <1> QED BY <1>2, <1>3 DEF f, new

\* The keys go into the 2BL, as numbers, or nowhere.
LEMMA UpdateKeysOK ==
  ASSUME size \in BiosSizes, NEW mem \in Buffer, build \in BUILD, KeysPlaced
  PROVE  /\ UpdateKeys(mem) \in Buffer
         /\ \A a \in 0..(size - 1) :
              \/ UpdateKeys(mem)[a] = mem[a]
              \/ /\ bldr.keys # NULL /\ a \in bldr.keys..(bldr.keys + 1)
                 /\ IsNumber(UpdateKeys(mem)[a])
  <1> DEFINE k0 == build.eeprom_key
             k1 == build.cert_key
             at == bldr.keys
             m0 == IF k0 = NoKey THEN mem ELSE CopyIn(mem, at + 0, <<Word(k0)>>)
             m1 == IF k1 = NoKey THEN m0 ELSE CopyIn(m0, at + 1, <<Word(k1)>>)
  <1>1. UpdateKeys(mem) = m1
    BY DEF UpdateKeys
  <1>2. k0 \in Nat \cup {NoKey} /\ k1 \in Nat \cup {NoKey}
    BY DEF BUILD, Keys
  <1>3. at \in Int /\ size \in Nat /\ (at = NULL => at + 1 < 0)
    <2>1. /\ size \in Nat /\ BldrData(size) \in Nat /\ NULL \in Int /\ BLDR_BLOCK_SIZE \in Nat
      BY Layout, LayoutAssumption
    <2>2. NULL + 1 < 0
      BY LayoutAssumption, SMT DEF NULL, MAX_BIOS_SIZE
    <2> QED BY <2>1, <2>2 DEF KeysPlaced
  <1> HIDE DEF k0, k1, at
  <1>4. /\ m0 \in Buffer
        /\ \A a \in 0..(size - 1) :
             m0[a] = mem[a] \/ (a = at /\ IsNumber(m0[a]))
    <2>1. CASE k0 = NoKey
      BY <2>1
    <2>2. CASE k0 # NoKey
      <3>1. Word(k0) \in WordType /\ IsNumber(Word(k0)) /\ at + 0 = at
        BY <1>2, <1>3, <2>2, WordOK, NumberOK
      <3>2. m0 = CopyIn(mem, at, <<Word(k0)>>)
        BY <2>2, <3>1
      <3> QED BY <1>3, <3>1, <3>2, CopyWordOK
    <2> QED BY <2>1, <2>2
  <1> HIDE DEF m0
  <1>5. /\ m1 \in Buffer
        /\ \A a \in 0..(size - 1) :
             m1[a] = m0[a] \/ (a = at + 1 /\ IsNumber(m1[a]))
    <2>1. CASE k1 = NoKey
      BY <1>4, <2>1
    <2>2. CASE k1 # NoKey
      <3>1. Word(k1) \in WordType /\ IsNumber(Word(k1)) /\ at + 1 \in Int
        BY <1>2, <1>3, <2>2, WordOK, NumberOK
      <3>2. m1 = CopyIn(m0, at + 1, <<Word(k1)>>)
        BY <2>2
      <3> QED BY <1>4, <3>1, <3>2, CopyWordOK
    <2> QED BY <2>1, <2>2
  <1> HIDE DEF m1
  <1>6. ASSUME NEW a \in 0..(size - 1)
        PROVE  \/ m1[a] = mem[a]
               \/ /\ at # NULL /\ a \in at..(at + 1)
                  /\ IsNumber(m1[a])
    <2>1. CASE m1[a] = m0[a] /\ m0[a] = mem[a]
      BY <2>1
    <2>2. CASE m1[a] = m0[a] /\ m0[a] # mem[a]
      <3>1. a = at /\ IsNumber(m1[a])
        BY <1>4, <2>2
      <3>2. at # NULL /\ a \in at..(at + 1)
        BY <1>3, <3>1
      <3> QED BY <3>1, <3>2
    <2>3. CASE m1[a] # m0[a]
      <3>1. a = at + 1 /\ IsNumber(m1[a])
        BY <1>5, <2>3
      <3>2. at # NULL /\ a \in at..(at + 1)
        BY <1>3, <3>1
      <3> QED BY <3>1, <3>2
    <2> QED BY <2>1, <2>2, <2>3
  <1> QED BY <1>1, <1>5, <1>6 DEF at

\* A copy runs outside of the buffer only where NoOverrun says so.
LEMMA CopyKernelOverrun ==
  ASSUME cmd = "build", BuildInv, CopyKernel, UNCHANGED cmd
  PROVE  NoOverrun'
  <1>1. /\ pc = "copy_kernel" /\ UNCHANGED <<size, bldr, kernel, build, cmd>>
        /\ overrun' = (\/ Outside(kernel.compressed, Len(build.krnl))
                       \/ Outside(kernel.uncompressed, Len(build.kdata))
                       \/ (bldr.keys = NULL /\ {build.eeprom_key, build.cert_key} # {NoKey}))
    BY DEF CopyKernel
  <1> SUFFICES ASSUME overrun',
                      ~build.nobootparams, ~(RequiredSpace(build) > MAX_BIOS_SIZE), bldr.keys # NULL
               PROVE  FALSE
    <2>1. build' = build /\ bldr' = bldr
      BY <1>1
    <2> QED BY <2>1 DEF NoOverrun, RequiredSpace
  <1> DEFINE kd == Len(build.kdata)
             ks == Len(build.krnl)
             it == Len(build.inittbl)
  <1>2. /\ kernel.compressed = BldrData(size) - bp.kd - bp.ks
        /\ kernel.uncompressed = BldrData(size) - bp.kd
        /\ bp.kd = kd /\ bp.ks = ks
    BY <1>1 DEF BuildInv, BldrPlaced
  <1>3. RequiredSpace(build) <= size
    <2>1. RequiredSpace(build) \in Nat /\ MAX_BIOS_SIZE \in Nat
      BY RequiredSpaceOK, Layout DEF BuildInv, TypeOK
    <2>2. RequiredSpace(build) <= MAX_BIOS_SIZE
      BY <2>1
    <2> QED BY <2>2 DEF BuildInv, RoomEnough
  <1>4. kd \in Nat /\ ks \in Nat /\ it \in Nat /\ size \in Nat
        /\ BLDR_BLOCK_SIZE \in Nat /\ MCPX_BLOCK_SIZE \in Nat
    <2>1. build \in BUILD /\ size \in BiosSizes
      BY DEF BuildInv, TypeOK
    <2> QED BY <2>1, RequiredSpaceOK, Layout, LayoutAssumption
  <1>5. /\ BLDR_BLOCK_SIZE + MCPX_BLOCK_SIZE + ks + kd + it <= size
        /\ BldrData(size) = size - BLDR_BLOCK_SIZE - MCPX_BLOCK_SIZE
    BY <1>3 DEF RequiredSpace, BldrData
  <1> HIDE DEF kd, ks, it
  <1>6. /\ kernel.compressed >= 0 /\ kernel.compressed + ks <= size
        /\ kernel.uncompressed >= 0 /\ kernel.uncompressed + kd <= size
    BY <1>2, <1>4, <1>5
  <1>7. ~Outside(kernel.compressed, ks) /\ ~Outside(kernel.uncompressed, kd)
    <2>1. kernel.compressed \in Int /\ kernel.uncompressed \in Int
      BY <1>2, <1>4, <1>5
    <2> QED BY <1>4, <1>6, <2>1 DEF Outside
  <1> QED BY <1>1, <1>7 DEF ks, kd

LEMMA SliceAt ==
  ASSUME NEW hi \in Int, NEW mem \in [0..hi -> WordType], NEW first \in Nat, NEW i \in Nat,
         first + 4 <= hi + 1, i < 4
  PROVE  Slice(mem, first, 4)[i + 1] = mem[first + i]
  <1>1. i + 1 \in 1..4 /\ first + (i + 1) - 1 = first + i /\ first + i \in 0..hi
    OBVIOUS
  <1>2. Slice(mem, first, 4)[i + 1] =
          IF first + (i + 1) - 1 \in DOMAIN mem THEN mem[first + (i + 1) - 1] ELSE Clear("outside", 0)
    BY <1>1 DEF Slice
  <1> QED BY <1>1, <1>2

\* The kernel, its data and the init table are copied next to each other below
\* the 2BL, once the init table is known to end in front of the kernel.
LEMMA CopiedBelow ==
  ASSUME size \in BiosSizes, build \in BUILD, NEW mem \in Buffer,
         NEW c \in Int, NEW u \in Int, u = c + Len(build.krnl),
         u + Len(build.kdata) = BldrData(size), Len(build.inittbl) < c, BfmFits(build),
         NEW m \in Buffer,
         m = BfmFlag(CopyIn(CopyIn(CopyIn(mem, c, build.krnl), u, build.kdata), 0, build.inittbl))
  PROVE  /\ Slice(m, 0, Len(build.inittbl)) = WithFlag(build)
         /\ Slice(m, c, Len(build.krnl)) = build.krnl
         /\ Slice(m, u, Len(build.kdata)) = build.kdata
         /\ \A a \in 0..(size - 1) : a >= BldrData(size) => m[a] = mem[a]
  <1> DEFINE base == BldrData(size)
             kd == build.kdata
             ks == build.krnl
             it == build.inittbl
             m1 == CopyIn(mem, c, ks)
             m2 == CopyIn(m1, u, kd)
             m3 == CopyIn(m2, 0, it)
             flag == Clear("bfm", 0)
  <1>1. /\ kd \in Seq(WordType) /\ ks \in Seq(WordType) /\ it \in Seq(WordType)
        /\ Len(kd) \in Nat /\ Len(ks) \in Nat /\ Len(it) \in Nat
    BY RequiredSpaceOK DEF BUILD
  <1>2. base \in Nat /\ base < size /\ size \in Nat
    <2>1. BldrData(size) \in Nat /\ size \in Nat /\ BldrData(size) + BLDR_BLOCK_SIZE < size
          /\ BLDR_BLOCK_SIZE \in Nat
      BY Layout, LayoutAssumption
    <2> QED BY <2>1
  <1>3. /\ c \in Int /\ u = c + Len(ks) /\ u + Len(kd) = base /\ Len(it) < c /\ u \in Int
    OBVIOUS
  <1>4. flag \in WordType
    BY DEF Clear, WordType, Sources
  <1>5. m = IF build.bfm THEN CopyIn(m3, INIT_TBL_IDENTIFIER, <<flag>>) ELSE m3
    BY DEF BfmFlag
  <1>6. build.bfm => INIT_TBL_IDENTIFIER < Len(it)
    BY <1>1, IdentifierAssumption DEF BfmFits
  <1>7. WithFlag(build) = IF build.bfm THEN [it EXCEPT ![INIT_TBL_IDENTIFIER + 1] = flag] ELSE it
    BY DEF WithFlag
  <1> HIDE DEF base, kd, ks, it, flag
  <1>8. /\ m1 \in Buffer
        /\ \A a \in 0..(size - 1) :
             m1[a] = IF a >= c /\ a < c + Len(ks) THEN ks[a - c + 1] ELSE mem[a]
    BY <1>1, CopyOK
  <1> HIDE DEF m1
  <1>9. /\ m2 \in Buffer
        /\ \A a \in 0..(size - 1) :
             m2[a] = IF a >= u /\ a < u + Len(kd) THEN kd[a - u + 1] ELSE m1[a]
    BY <1>1, <1>8, CopyOK
  <1> HIDE DEF m2
  <1>10. /\ m3 \in Buffer
         /\ \A a \in 0..(size - 1) :
              m3[a] = IF a >= 0 /\ a < 0 + Len(it) THEN it[a - 0 + 1] ELSE m2[a]
    BY <1>1, <1>9, CopyOK
  <1> HIDE DEF m3
  <1>11. \A a \in 0..(size - 1) :
           m[a] = IF build.bfm /\ a = INIT_TBL_IDENTIFIER THEN flag ELSE m3[a]
    <2>1. CASE build.bfm
      BY <1>4, <1>5, <1>10, <2>1, CopyWordOK, IdentifierAssumption
    <2>2. CASE ~build.bfm
      BY <1>5, <2>2
    <2> QED BY <2>1, <2>2
  <1>12. INIT_TBL_IDENTIFIER \in Nat
    BY IdentifierAssumption
  <1>13. \A a \in 0..(size - 1) : a >= Len(it) => m[a] = m2[a]
    <2> SUFFICES ASSUME NEW a \in 0..(size - 1), a >= Len(it) PROVE m[a] = m2[a]
      OBVIOUS
    <2>1. ~(build.bfm /\ a = INIT_TBL_IDENTIFIER) /\ ~(a >= 0 /\ a < 0 + Len(it))
      BY <1>1, <1>2, <1>6, <1>12
    <2> QED BY <1>10, <1>11, <2>1
  <1>14. m \in [0..(size - 1) -> WordType] /\ size - 1 \in Int
    BY <1>2 DEF Buffer
  <1>15. Slice(m, 0, Len(it)) = WithFlag(build)
    <2> DEFINE w == WithFlag(build)
    <2>1. /\ w \in Seq(WordType) /\ Len(w) = Len(it)
          /\ \A i \in 1..Len(it) :
               w[i] = IF build.bfm /\ i = INIT_TBL_IDENTIFIER + 1 THEN flag ELSE it[i]
      <3>1. CASE build.bfm
        <4>1. INIT_TBL_IDENTIFIER + 1 \in 1..Len(it)
          BY <1>1, <1>6, <1>12, <3>1
        <4> QED BY <1>1, <1>4, <1>7, <3>1, <4>1, ExceptSeq
      <3>2. CASE ~build.bfm
        BY <1>1, <1>7, <3>2
      <3> QED BY <3>1, <3>2
    <2> HIDE DEF w
    <2>2. ASSUME NEW i \in 1..Len(w)
          PROVE  m[0 + i - 1] = w[i]
      <3>1. /\ i \in 1..Len(it) /\ 0 + i - 1 = i - 1 /\ i - 1 \in 0..(size - 1)
            /\ i - 1 >= 0 /\ i - 1 < 0 + Len(it) /\ (i - 1) - 0 + 1 = i
            /\ (i - 1 = INIT_TBL_IDENTIFIER <=> i = INIT_TBL_IDENTIFIER + 1)
        BY <1>1, <1>2, <1>3, <1>12, <2>1
      <3>2. m3[i - 1] = it[i]
        BY <1>10, <3>1
      <3>3. m[i - 1] = IF build.bfm /\ i = INIT_TBL_IDENTIFIER + 1 THEN flag ELSE it[i]
        BY <1>11, <3>1, <3>2
      <3> QED BY <2>1, <3>1, <3>3
    <2>3. 0 >= 0 /\ 0 + Len(w) <= (size - 1) + 1 /\ 0 \in Int
      BY <1>1, <1>2, <1>3, <2>1
    <2>4. Slice(m, 0, Len(w)) = w
      BY <1>14, <2>1, <2>2, <2>3, SliceIs
    <2> QED BY <2>1, <2>4 DEF w
  <1>16. Slice(m, c, Len(ks)) = ks
    <2>1. ASSUME NEW i \in 1..Len(ks)
          PROVE  m[c + i - 1] = ks[i]
      <3>1. /\ c + i - 1 \in 0..(size - 1) /\ c + i - 1 >= Len(it)
            /\ ~(c + i - 1 >= u /\ c + i - 1 < u + Len(kd))
            /\ c + i - 1 >= c /\ c + i - 1 < c + Len(ks) /\ (c + i - 1) - c + 1 = i
        BY <1>1, <1>2, <1>3, SMTT(30)
      <3>2. m1[c + i - 1] = ks[i]
        BY <1>8, <3>1
      <3>3. m2[c + i - 1] = m1[c + i - 1]
        BY <1>9, <3>1
      <3> QED BY <1>13, <3>1, <3>2, <3>3
    <2>2. c >= 0 /\ c + Len(ks) <= (size - 1) + 1
      BY <1>1, <1>2, <1>3
    <2> QED BY <1>1, <1>3, <1>14, <2>1, <2>2, SliceIs
  <1>17. Slice(m, u, Len(kd)) = kd
    <2>1. ASSUME NEW i \in 1..Len(kd)
          PROVE  m[u + i - 1] = kd[i]
      <3>1. /\ u + i - 1 \in 0..(size - 1) /\ u + i - 1 >= Len(it)
            /\ u + i - 1 >= u /\ u + i - 1 < u + Len(kd) /\ (u + i - 1) - u + 1 = i
        BY <1>1, <1>2, <1>3, SMTT(30)
      <3>2. m2[u + i - 1] = kd[i]
        BY <1>9, <3>1
      <3> QED BY <1>13, <3>1, <3>2
    <2>2. u >= 0 /\ u + Len(kd) <= (size - 1) + 1
      BY <1>1, <1>2, <1>3
    <2> QED BY <1>1, <1>3, <1>14, <2>1, <2>2, SliceIs
  <1>18. ASSUME NEW a \in 0..(size - 1), a >= base
         PROVE  m[a] = mem[a]
    <2>1. /\ a >= Len(it) /\ ~(a >= u /\ a < u + Len(kd)) /\ ~(a >= c /\ a < c + Len(ks))
      BY <1>1, <1>2, <1>3, <1>18
    <2>2. m1[a] = mem[a]
      BY <1>8, <2>1
    <2>3. m2[a] = m1[a]
      BY <1>9, <2>1
    <2> QED BY <1>13, <2>1, <2>2, <2>3
  <1> QED BY <1>15, <1>16, <1>17, <1>18 DEF base, kd, ks, it

\* What a buffer whose boot parameters are numbers makes of them.
LEMMA NumbersRead ==
  ASSUME NEW hi \in Int, NEW mem \in [0..hi -> WordType], NEW ptr \in Nat, ptr + 4 <= hi + 1,
         \A i \in {0, 1, 3} : IsNumber(mem[ptr + i])
  PROVE  \E r : BootParamsAt(mem, ptr) = {r}
  <1>1. /\ mem[ptr + 0] \in WordType /\ mem[ptr + 1] \in WordType /\ mem[ptr + 3] \in WordType
        /\ ptr + 0 = ptr
    OBVIOUS
  <1>2. /\ Values(mem[ptr]) = {mem[ptr].at}
        /\ Values(mem[ptr + 1]) = {mem[ptr + 1].at}
        /\ Values(mem[ptr + 3]) = {mem[ptr + 3].at}
    BY <1>1, NumberOK
  <1>3. PICK kd, it, ks :
          Values(mem[ptr]) = {kd} /\ Values(mem[ptr + 1]) = {it} /\ Values(mem[ptr + 3]) = {ks}
    BY <1>2
  <1>4. BootParamsAt(mem, ptr) = {[kd |-> kd, it |-> it, ks |-> ks]}
    <2> DEFINE V == Values(mem[ptr]) \X Values(mem[ptr + 1]) \X Values(mem[ptr + 3])
    <2>1. V = {<<kd, it, ks>>}
      BY <1>3
    <2> HIDE DEF V
    <2>2. BootParamsAt(mem, ptr) = {[kd |-> v[1], it |-> v[2], ks |-> v[3]] : v \in V}
      BY DEF BootParamsAt, V
    <2> QED BY <2>1, <2>2
  <1> QED BY <1>4

\* The boot parameters are still in place, and are what was read of them last.
LEMMA BootParamsKept ==
  ASSUME size \in BiosSizes, NEW mem \in Buffer, NEW m \in Buffer, NEW r, NEW b,
         BootParamsAt(mem, BootParamsPlace) = {b},
         \A i \in {0, 1, 3} : IsNumber(m[BootParamsPlace + i]),
         r \in IF Slice(m, BootParamsPlace, FIELDS_SIZE) = Slice(mem, BootParamsPlace, FIELDS_SIZE)
               THEN {b} ELSE BootParamsAt(m, BootParamsPlace)
  PROVE  BootParamsAt(m, BootParamsPlace) = {r}
  <1> DEFINE p == BootParamsPlace
  <1>1. /\ p \in Nat /\ p + 4 <= (size - 1) + 1 /\ size - 1 \in Int
    <2>1. /\ size \in Nat /\ BldrData(size) \in Nat /\ BootParamsOffset \in Nat
          /\ BldrData(size) + BLDR_BLOCK_SIZE < size /\ BootParamsOffset + 4 <= BLDR_BLOCK_SIZE
          /\ BLDR_BLOCK_SIZE \in Nat
      BY Layout, LayoutAssumption
    <2> QED BY <2>1 DEF BootParamsPlace
  <1>2. mem \in [0..(size - 1) -> WordType] /\ m \in [0..(size - 1) -> WordType]
    BY DEF Buffer
  <1>3. PICK x : BootParamsAt(m, p) = {x}
    BY <1>1, <1>2, NumbersRead
  <1>4. CASE Slice(m, p, FIELDS_SIZE) = Slice(mem, p, FIELDS_SIZE)
    <2>1. r = b
      BY <1>4
    <2>2. ASSUME NEW i \in Nat, i < 4
          PROVE  m[p + i] = mem[p + i]
      <3>1. Slice(m, p, 4) = Slice(mem, p, 4)
        BY <1>4 DEF FIELDS_SIZE
      <3>2. Slice(m, p, 4)[i + 1] = m[p + i]
        BY <1>1, <1>2, <2>2, SliceAt
      <3>3. Slice(mem, p, 4)[i + 1] = mem[p + i]
        BY <1>1, <1>2, <2>2, SliceAt
      <3> QED BY <3>1, <3>2, <3>3
    <2>3. m[p] = mem[p] /\ m[p + 1] = mem[p + 1] /\ m[p + 3] = mem[p + 3]
      <3>1. p + 0 = p
        BY <1>1
      <3> QED BY <2>2, <3>1
    <2>4. BootParamsAt(m, p) = BootParamsAt(mem, p)
      BY <2>3 DEF BootParamsAt
    <2> QED BY <2>1, <2>4
  <1>5. CASE Slice(m, p, FIELDS_SIZE) # Slice(mem, p, FIELDS_SIZE)
    BY <1>3, <1>5
  <1> QED BY <1>4, <1>5

LEMMA CopyKernelInv ==
  ASSUME cmd = "build", BuildInv, CopyKernel, UNCHANGED cmd
  PROVE  BuildInv'
  <1> DEFINE base == BldrData(size)
             c == kernel.compressed
             u == kernel.uncompressed
             mem == UpdateKeys(data)
             below == CopyIn(CopyIn(mem, c, build.krnl), u, build.kdata)
             whole == BfmFlag(CopyIn(below, 0, build.inittbl))
  <1>1. /\ pc = "copy_kernel" /\ UNCHANGED <<size, params, bldr, preldr, kernel, build, cmd>>
        /\ IF InitTblTooBig
           THEN data' = below /\ bios_status' = "failed" /\ pc' = "built"
           ELSE data' = whole /\ pc' = "encrypt_kernel" /\ UNCHANGED bios_status
        /\ bp' \in IF Slice(data', bldr.boot_params, FIELDS_SIZE) = Slice(data, bldr.boot_params, FIELDS_SIZE)
                   THEN {bp} ELSE BootParamsAt(data', bldr.boot_params)
    BY DEF CopyKernel, Fail
  <1>2. /\ size \in BiosSizes /\ data \in Buffer /\ build \in BUILD /\ TypeOK /\ KeysPlaced
        /\ bp \in BOOT_PARAMS /\ kernel \in KERNEL /\ bldr.boot_params = BootParamsPlace
    BY DEF BuildInv, TypeOK, Buffer
  <1>3. /\ build.krnl \in Seq(WordType) /\ build.kdata \in Seq(WordType)
        /\ build.inittbl \in Seq(WordType)
        /\ Len(build.krnl) \in Nat /\ Len(build.kdata) \in Nat /\ Len(build.inittbl) \in Nat
    BY <1>2, RequiredSpaceOK DEF BUILD
  <1>4. c \in Int /\ u \in Int /\ base \in Nat /\ base + BLDR_BLOCK_SIZE < size /\ size \in Nat
        /\ BootParamsOffset \in Nat /\ BootParamsOffset + 4 <= BLDR_BLOCK_SIZE
        /\ BLDR_BLOCK_SIZE \in Nat /\ LDR_HEAD_SIZE \in Nat
        /\ BootParamsPlace = base + BootParamsOffset
    BY <1>2, Layout, LayoutAssumption DEF KERNEL, BootParamsPlace
  <1>5. /\ mem \in Buffer
        /\ \A a \in 0..(size - 1) :
             \/ mem[a] = data[a]
             \/ /\ bldr.keys # NULL /\ a \in bldr.keys..(bldr.keys + 1)
                /\ IsNumber(mem[a])
    BY <1>2, UpdateKeysOK
  <1> HIDE DEF mem, c, u, base
  <1>6. below \in Buffer /\ whole \in Buffer
    <2>1. CopyIn(mem, c, build.krnl) \in Buffer
      BY <1>2, <1>3, <1>4, <1>5, CopyOK
    <2>2. below \in Buffer
      BY <1>2, <1>3, <1>4, <2>1, CopyOK
    <2> HIDE DEF below
    <2> DEFINE x == CopyIn(below, 0, build.inittbl)
               flag == Clear("bfm", 0)
    <2>3. x \in Buffer
      BY <1>2, <1>3, <2>2, CopyOK
    <2>4. flag \in WordType /\ INIT_TBL_IDENTIFIER \in Int
      BY IdentifierAssumption DEF Clear, WordType, Sources
    <2>5. whole = IF build.bfm THEN CopyIn(x, INIT_TBL_IDENTIFIER, <<flag>>) ELSE x
      BY DEF BfmFlag
    <2> HIDE DEF x, flag, whole
    <2>6. CopyIn(x, INIT_TBL_IDENTIFIER, <<flag>>) \in Buffer
      BY <1>2, <2>3, <2>4, CopyWordOK
    <2> QED BY <2>2, <2>3, <2>5, <2>6
  <1> HIDE DEF below, whole
  <1>7. data' \in Buffer
    BY <1>1, <1>6
  <1>8. bp' \in BOOT_PARAMS
    <2>1. PICK m : m = data'
      OBVIOUS
    <2>2. BootParamsAt(m, BootParamsPlace) \subseteq BOOT_PARAMS
      BY <1>2, <1>7, <2>1, BootParamsIn
    <2>3. bp' \in {bp} \cup BootParamsAt(m, BootParamsPlace)
      BY <1>1, <1>2, <2>1 DEF BootParamsAt
    <2> QED BY <1>2, <2>2, <2>3
  <1>9. TypeOK'
    <2>1. data' \in [0..(size - 1) -> WordType]
      BY <1>7 DEF Buffer
    <2>2. bios_status' \in Statuses
      BY <1>1, <1>2 DEF TypeOK, Statuses
    <2> QED BY <1>1, <1>2, <1>8, <2>1, <2>2
            DEF TypeOK, Statuses, BIOS_LOAD_PARAMS, BLDR, KERNEL, BOOT_PARAMS, BiosSizes
  <1>10. BldrPlaced'
    BY <1>1 DEF BldrPlaced
  <1>11. ASSUME pc' = "encrypt_kernel", ~build.nobootparams, BfmFits(build)
         PROVE  /\ Slice(data', 0, Len(build.inittbl)) = WithFlag(build)
                /\ Slice(data', c, Len(build.krnl)) = build.krnl
                /\ Slice(data', u, Len(build.kdata)) = build.kdata
                /\ BootParamsAt(data', BootParamsPlace) = {bp'}
                /\ \A o \in LDR_HEAD_SIZE..(BootParamsOffset - 1) :
                     o < Len(build.bldr) =>
                       \/ data'[base + o] = build.bldr[o + 1]
                       \/ bldr.keys # NULL /\ base + o \in bldr.keys..(bldr.keys + 1)
    <2>1. data' = whole /\ Len(build.inittbl) < c
      <3>1. data' = whole /\ ~InitTblTooBig
        BY <1>1, <1>11
      <3> QED BY <1>3, <1>4, <3>1 DEF InitTblTooBig, c
    <2>2. /\ c = base - Len(build.kdata) - Len(build.krnl) /\ u = base - Len(build.kdata)
          /\ \A i \in {0, 1, 3} : IsNumber(data[BootParamsPlace + i])
          /\ BootParamsAt(data, BootParamsPlace) = {bp}
          /\ \A o \in 0..(BootParamsOffset - 1) :
               o < Len(build.bldr) => data[base + o] = build.bldr[o + 1]
      BY <1>1, <1>11 DEF BuildInv, BldrPlaced, c, u, base
    <2> DEFINE lk == Len(build.krnl)
               ld == Len(build.kdata)
    <2>13. lk \in Nat /\ ld \in Nat /\ c = base - ld - lk /\ u = base - ld /\ base \in Nat
      BY <1>3, <1>4, <2>2
    <2> HIDE DEF lk, ld
    <2>3. u = c + lk /\ u + ld = base
      BY <2>13
    <2>4. whole = BfmFlag(CopyIn(CopyIn(CopyIn(mem, c, build.krnl), u, build.kdata), 0, build.inittbl))
      BY DEF whole, below
    <2>5. /\ Slice(whole, 0, Len(build.inittbl)) = WithFlag(build)
          /\ Slice(whole, c, Len(build.krnl)) = build.krnl
          /\ Slice(whole, u, Len(build.kdata)) = build.kdata
          /\ \A a \in 0..(size - 1) : a >= BldrData(size) => whole[a] = mem[a]
      <3>1. u = c + Len(build.krnl) /\ u + Len(build.kdata) = BldrData(size)
        BY <2>3 DEF lk, ld, base
      <3>2. size \in BiosSizes /\ build \in BUILD /\ mem \in Buffer /\ whole \in Buffer
            /\ c \in Int /\ u \in Int /\ Len(build.inittbl) < c /\ BfmFits(build)
        BY <1>2, <1>4, <1>5, <1>6, <1>11, <2>1
      <3>3. \A x, y \in Buffer : \A k, n \in Int :
              /\ n = k + Len(build.krnl) /\ n + Len(build.kdata) = BldrData(size)
              /\ Len(build.inittbl) < k
              /\ y = BfmFlag(CopyIn(CopyIn(CopyIn(x, k, build.krnl), n, build.kdata), 0, build.inittbl))
              => /\ Slice(y, 0, Len(build.inittbl)) = WithFlag(build)
                 /\ Slice(y, k, Len(build.krnl)) = build.krnl
                 /\ Slice(y, n, Len(build.kdata)) = build.kdata
                 /\ \A a \in 0..(size - 1) : a >= BldrData(size) => y[a] = x[a]
        BY <3>2, CopiedBelow
      <3>4. \A k, n \in Int :
              /\ n = k + Len(build.krnl) /\ n + Len(build.kdata) = BldrData(size)
              /\ Len(build.inittbl) < k
              /\ whole = BfmFlag(CopyIn(CopyIn(CopyIn(mem, k, build.krnl), n, build.kdata), 0, build.inittbl))
              => /\ Slice(whole, 0, Len(build.inittbl)) = WithFlag(build)
                 /\ Slice(whole, k, Len(build.krnl)) = build.krnl
                 /\ Slice(whole, n, Len(build.kdata)) = build.kdata
                 /\ \A a \in 0..(size - 1) : a >= BldrData(size) => whole[a] = mem[a]
        BY <3>2, <3>3, Zenon
      <3> QED BY <2>4, <3>1, <3>2, <3>4
    <2>6. \A a \in 0..(size - 1) : a >= base =>
            \/ whole[a] = data[a]
            \/ /\ bldr.keys # NULL /\ a \in bldr.keys..(bldr.keys + 1)
               /\ IsNumber(whole[a])
      BY <1>5, <2>5 DEF base
    <2>7. \A i \in {0, 1, 3} : IsNumber(whole[BootParamsPlace + i])
      <3> SUFFICES ASSUME NEW i \in {0, 1, 3} PROVE IsNumber(whole[BootParamsPlace + i])
        OBVIOUS
      <3>1. BootParamsPlace + i \in 0..(size - 1) /\ BootParamsPlace + i >= base
        BY <1>4
      <3> QED BY <2>2, <2>6, <3>1
    <2>8. bp' \in IF Slice(whole, BootParamsPlace, FIELDS_SIZE) = Slice(data, BootParamsPlace, FIELDS_SIZE)
                  THEN {bp} ELSE BootParamsAt(whole, BootParamsPlace)
      <3>1. PICK m : m = data'
        OBVIOUS
      <3>2. bp' \in IF Slice(m, bldr.boot_params, FIELDS_SIZE) = Slice(data, bldr.boot_params, FIELDS_SIZE)
                    THEN {bp} ELSE BootParamsAt(m, bldr.boot_params)
        BY <1>1, <3>1 DEF BootParamsAt, Slice
      <3> QED BY <1>2, <2>1, <3>1, <3>2
    <2>9. BootParamsAt(whole, BootParamsPlace) = {bp'}
      <3>1. PICK r : r = bp'
        OBVIOUS
      <3>2. r \in IF Slice(whole, BootParamsPlace, FIELDS_SIZE) = Slice(data, BootParamsPlace, FIELDS_SIZE)
                  THEN {bp} ELSE BootParamsAt(whole, BootParamsPlace)
        BY <2>8, <3>1
      <3>3. BootParamsAt(whole, BootParamsPlace) = {r}
        <4>1. \A x, y \in Buffer : \A b :
                /\ BootParamsAt(x, BootParamsPlace) = {b}
                /\ \A i \in {0, 1, 3} : IsNumber(y[BootParamsPlace + i])
                /\ r \in IF Slice(y, BootParamsPlace, FIELDS_SIZE) = Slice(x, BootParamsPlace, FIELDS_SIZE)
                         THEN {b} ELSE BootParamsAt(y, BootParamsPlace)
                => BootParamsAt(y, BootParamsPlace) = {r}
          BY <1>2, BootParamsKept
        <4> QED BY <1>2, <1>6, <2>2, <2>7, <3>2, <4>1, Zenon
      <3> QED BY <3>1, <3>3
    <2>10. ASSUME NEW o \in LDR_HEAD_SIZE..(BootParamsOffset - 1), o < Len(build.bldr)
           PROVE  \/ whole[base + o] = build.bldr[o + 1]
                  \/ bldr.keys # NULL /\ base + o \in bldr.keys..(bldr.keys + 1)
      <3>1. base + o \in 0..(size - 1) /\ base + o >= base /\ o \in 0..(BootParamsOffset - 1)
        BY <1>4
      <3> QED BY <2>2, <2>6, <2>10, <3>1
    <2>11. PICK m, r : m = data' /\ r = bp'
      OBVIOUS
    <2>12. /\ Slice(m, 0, Len(build.inittbl)) = WithFlag(build)
           /\ Slice(m, c, Len(build.krnl)) = build.krnl
           /\ Slice(m, u, Len(build.kdata)) = build.kdata
           /\ BootParamsAt(m, BootParamsPlace) = {r}
           /\ \A o \in LDR_HEAD_SIZE..(BootParamsOffset - 1) :
                o < Len(build.bldr) =>
                  \/ m[base + o] = build.bldr[o + 1]
                  \/ bldr.keys # NULL /\ base + o \in bldr.keys..(bldr.keys + 1)
      BY <2>1, <2>5, <2>9, <2>10, <2>11
    <2> QED BY <2>11, <2>12 DEF Slice, BootParamsAt
  <1>12. LaidOut'
    <2>1. /\ size' = size /\ bldr' = bldr /\ kernel' = kernel /\ build' = build
          /\ bldr.boot_params = BootParamsPlace
      BY <1>1, <1>2
    <2> QED BY <1>11, <2>1 DEF LaidOut, c, u, base, Slice, BootParamsAt, WithFlag, BfmFits
  <1>13. pc' \in BuildStages /\ pc' \notin {"copy_bldr", "copy_kernel"}
    BY <1>1 DEF BuildStages
  <1>14. UNCHANGED <<size, build, bldr>>
    BY <1>1
  <1>15. NoOverrun'
    BY CopyKernelOverrun
  <1> QED BY <1>9, <1>10, <1>12, <1>13, <1>14, <1>15, StaysPlaced DEF BuildInv

\* From the encryption on the buffer may hold anything: nothing is laid out
\* any more, and the pointers and the sizes stay.
LEMMA LateStepInv ==
  ASSUME cmd = "build", BuildInv, UNCHANGED cmd,
         pc' \in {"encrypt_bldr", "copy_preldr", "replicate", "built"},
         UNCHANGED <<size, params, preldr, bp, build, overrun>>,
         bldr' \in BLDR, bldr'.boot_params = bldr.boot_params, bldr'.keys = bldr.keys,
         bldr'.bfm_key = bldr.bfm_key,
         kernel' \in KERNEL, data' \in Buffer, bios_status' \in Statuses
  PROVE  BuildInv'
  <1>1. TypeOK'
    <2>1. data' \in [0..(size - 1) -> WordType]
      BY DEF Buffer
    <2> QED BY <2>1 DEF BuildInv, TypeOK, Statuses, BIOS_LOAD_PARAMS, BLDR, KERNEL, BOOT_PARAMS,
                        BiosSizes
  <1>2. /\ KeysPlaced' /\ RoomEnough' /\ bldr'.boot_params = BootParamsPlace' /\ build' \in BUILD
    BY DEF BuildInv, KeysPlaced, RoomEnough, RequiredSpace, BootParamsPlace
  <1>3. BldrPlaced' /\ LaidOut'
    BY DEF BldrPlaced, LaidOut
  <1>4. NoOverrun'
    BY DEF BuildInv, NoOverrun, RequiredSpace
  <1> QED BY <1>1, <1>2, <1>3, <1>4 DEF BuildInv, BuildStages

\* What the steps of the encryption find.
LEMMA BuildTypes ==
  ASSUME BuildInv
  PROVE  /\ size \in BiosSizes /\ data \in Buffer /\ params \in BIOS_LOAD_PARAMS
         /\ bldr \in BLDR /\ kernel \in KERNEL /\ bp \in BOOT_PARAMS /\ build \in BUILD
         /\ bios_status \in Statuses /\ bldr.keys \in Int
         /\ bldr.keys = NULL \/ bldr.keys \in BldrData(size)..(BldrData(size) + BLDR_BLOCK_SIZE - 3)
         /\ bldr.bfm_key = NULL \/ bldr.bfm_key \in 0..(size - 1)
  BY DEF BuildInv, TypeOK, KeysPlaced, BLDR, Buffer

\* RC4 of a part of the buffer, as a step of build uses it.
LEMMA Rc4InBuffer ==
  ASSUME size \in BiosSizes, NEW mem \in Buffer, NEW first \in Int, NEW len \in Int, NEW k \in Int
  PROVE  Rc4(mem, first, len, k, 0) \in Buffer
  <1>1. size - 1 \in Int /\ 0 \in Int
    BY Layout
  <1> QED BY <1>1, Rc4OK DEF Buffer

LEMMA SetKernelKeyOK ==
  ASSUME BuildInv, NEW mem \in Buffer, NEW k, k \in Nat \/ params.kernel_key = NoKey
  PROVE  SetKernelKey(mem, k) \in Buffer
  <1>1. CASE bldr.keys # NULL /\ params.kernel_key # NoKey
    <2>1. Word(k) \in WordType /\ bldr.keys + 2 \in Int
      BY <1>1, BuildTypes, WordOK
    <2>2. SetKernelKey(mem, k) = CopyIn(mem, bldr.keys + 2, <<Word(k)>>)
      BY <1>1 DEF SetKernelKey
    <2>3. \A i \in Int : \A w \in WordType : CopyIn(mem, i, <<w>>) \in Buffer
      BY BuildTypes, CopyWordOK
    <2> QED BY <2>1, <2>2, <2>3, Zenon
  <1>2. CASE ~(bldr.keys # NULL /\ params.kernel_key # NoKey)
    BY <1>2 DEF SetKernelKey
  <1> QED BY <1>1, <1>2

LEMMA EncryptKernelInv ==
  ASSUME cmd = "build", BuildInv, EncryptKernel, UNCHANGED cmd
  PROVE  BuildInv'
  <1>1. /\ pc' = "encrypt_bldr"
        /\ UNCHANGED <<size, params, bldr, preldr, bp, bios_status, build, overrun>>
        /\ IF KernelToggles
           THEN /\ data' = SetKernelKey(EncDecKernel(data), params.kernel_key)
                /\ kernel' = [kernel EXCEPT !.enc = TRUE]
           ELSE UNCHANGED <<data, kernel>>
    BY DEF EncryptKernel
  <1>2. EncDecKernel(data) \in Buffer
    <2>1. KernelKey \in Int
      BY BuildTypes, KernelKeyOK
    <2>2. kernel.compressed \in Int /\ bp.ks \in Int
      BY BuildTypes DEF KERNEL, BOOT_PARAMS
    <2>3. \A first, len, k \in Int : Rc4(data, first, len, k, 0) \in Buffer
      BY BuildTypes, Rc4InBuffer
    <2> QED BY <2>1, <2>2, <2>3, Zenon DEF EncDecKernel
  <1>3. params.kernel_key \in Nat \/ params.kernel_key = NoKey
    BY BuildTypes DEF BIOS_LOAD_PARAMS, Keys
  <1>4. SetKernelKey(EncDecKernel(data), params.kernel_key) \in Buffer
    BY <1>2, <1>3, SetKernelKeyOK
  <1>5. data' \in Buffer
    BY <1>1, <1>4, BuildTypes
  <1>6. kernel' \in KERNEL
    BY <1>1, BuildTypes DEF KERNEL
  <1> QED BY <1>1, <1>5, <1>6, BuildTypes, LateStepInv

LEMMA KeepKernelClearInv ==
  ASSUME cmd = "build", BuildInv, KeepKernelClear, UNCHANGED cmd
  PROVE  BuildInv'
  <1>1. /\ pc' = "encrypt_bldr"
        /\ UNCHANGED <<size, params, bldr, preldr, kernel, bp, bios_status, build, overrun>>
        /\ data' = SetKernelKey(data, 0) \/ data' = data
    BY DEF KeepKernelClear, buildVars
  <1>2. SetKernelKey(data, 0) \in Buffer
    BY BuildTypes, SetKernelKeyOK
  <1>3. data' \in Buffer
    BY <1>1, <1>2, BuildTypes
  <1> QED BY <1>1, <1>3, BuildTypes, LateStepInv

LEMMA EncryptBldrInv ==
  ASSUME cmd = "build", BuildInv, EncryptBldr, UNCHANGED cmd
  PROVE  BuildInv'
  <1>1. /\ pc' = "copy_preldr"
        /\ UNCHANGED <<size, params, preldr, kernel, bp, bios_status, build, overrun>>
        /\ IF ~bldr.enc /\ BuildKey # NoKey
           THEN /\ data' = EncDecBldr(data, BuildKey)
                /\ bldr' = [bldr EXCEPT !.enc = TRUE]
           ELSE UNCHANGED <<data, bldr>>
    BY DEF EncryptBldr
  <1>2. BuildKey \in Int
    <2>1. SbKey \in Int /\ NoKey \in Int
      BY BuildTypes, KeysOK DEF NoKey
    <2>2. \A w \in WordType : KeyOf(w) \in Int
      BY DEF KeyOf, WordType, JunkKey
    <2>3. bldr.bfm_key # NULL => data[bldr.bfm_key] \in WordType
      BY BuildTypes DEF Buffer
    <2> QED BY <2>1, <2>2, <2>3 DEF BuildKey
  <1>3. EncDecBldr(data, BuildKey) \in Buffer
    BY <1>2, BuildTypes, EncDecBldrOK
  <1>4. data' \in Buffer
    BY <1>1, <1>3, BuildTypes
  <1>5. /\ bldr' \in BLDR /\ bldr'.boot_params = bldr.boot_params /\ bldr'.keys = bldr.keys
        /\ bldr'.bfm_key = bldr.bfm_key
    BY <1>1, BuildTypes DEF BLDR
  <1> QED BY <1>1, <1>4, <1>5, BuildTypes, LateStepInv

LEMMA CopyPreldrInv ==
  ASSUME cmd = "build", BuildInv, CopyPreldr, UNCHANGED cmd
  PROVE  BuildInv'
  <1>1. /\ pc' \in {"replicate", "built"}
        /\ UNCHANGED <<size, params, bldr, preldr, kernel, bp, build, overrun>>
        /\ bios_status' \in {"failed", bios_status}
        /\ data' \in {data, CopyIn(data, BldrData(size) + PreldrOffset, build.preldr)}
    BY DEF CopyPreldr, Fail, buildVars
  <1>2. CopyIn(data, BldrData(size) + PreldrOffset, build.preldr) \in Buffer
    <2>1. BldrData(size) + PreldrOffset \in Int /\ build.preldr \in Seq(WordType)
      BY BuildTypes, Layout DEF BUILD
    <2>2. \A i \in Int : \A f \in Seq(WordType) : CopyIn(data, i, f) \in Buffer
      BY BuildTypes, CopyOK
    <2> QED BY <2>1, <2>2, Zenon
  <1>3. data' \in Buffer /\ bios_status' \in Statuses
    BY <1>1, <1>2, BuildTypes DEF Statuses
  <1> QED BY <1>1, <1>3, BuildTypes, LateStepInv

LEMMA ReplicateRomInv ==
  ASSUME cmd = "build", BuildInv, ReplicateRom, UNCHANGED cmd
  PROVE  BuildInv'
  <1>1. /\ pc' = "built" /\ bios_status' = "success"
        /\ UNCHANGED <<size, params, bldr, preldr, kernel, bp, build, overrun>>
        /\ data' = IF size > params.romsize
                   THEN [a \in DOMAIN data |-> data[a % params.romsize]] ELSE data
    BY DEF ReplicateRom, buildVars
  <1>2. data' \in Buffer
    <2>1. CASE size > params.romsize
      <3>1. data \in [0..(size - 1) -> WordType]
        BY BuildTypes DEF Buffer
      <3>2. params.romsize \in Nat \ {0} /\ size \in Nat
        <4>1. params.romsize \in BiosSizes /\ size \in BiosSizes
          BY BuildTypes DEF BIOS_LOAD_PARAMS
        <4> QED BY <4>1, LayoutAssumption, SMT DEF BiosSizes
      <3>3. \A a \in 0..(size - 1) : (a % params.romsize) \in 0..(size - 1)
        BY <2>1, <3>2, Z3
      <3> QED BY <1>1, <2>1, <3>1, <3>3 DEF Buffer
    <2>2. CASE ~(size > params.romsize)
      BY <1>1, <2>2, BuildTypes
    <2> QED BY <2>1, <2>2
  <1>3. bios_status' \in Statuses
    BY <1>1 DEF Statuses
  <1> QED BY <1>1, <1>2, <1>3, BuildTypes, LateStepInv

\* build's invariant holds at every step of build.
LEMMA BuildStepInv ==
  ASSUME cmd = "build", BuildInv, BuildStep, UNCHANGED cmd
  PROVE  BuildInv'
  BY BldrTooBigInv, CopyBldrInv, CopyKernelInv, EncryptKernelInv, KeepKernelClearInv,
     EncryptBldrInv, CopyPreldrInv, ReplicateRomInv DEF BuildStep

-----------------------------------------------------------------------------
(* The steps between.                                                      *)

\* What the other commands leave behind: a BIOS file, and component files.
LEMMA FilesKept ==
  ASSUME SessionInv, UNCHANGED file, UNCHANGED files
  PROVE  /\ file' = NoBios \/ \E n \in BiosSizes : file' \in [0..(n - 1) -> WordType]
         /\ files' \in COMPONENTS
  BY DEF SessionInv, COMPONENTS, BiosSizes, NoBios

\* -extr loads the file that is there.
LEMMA ExtractBeginInv == SessionInv /\ ExtractBegin => SessionInv'
  <1> SUFFICES ASSUME SessionInv, ExtractBegin PROVE SessionInv'
    OBVIOUS
  <1>1. PICK p \in Switches : LoadBegin(file, FileSize, p)
    BY DEF ExtractBegin
  <1>2. cmd' = "extract" /\ UNCHANGED <<file, files>> /\ file # NoBios
    BY DEF ExtractBegin, Begin
  <1>3. PICK n \in BiosSizes : file \in [0..(n - 1) -> WordType]
    BY <1>2 DEF SessionInv
  <1>4. FileSize \in BiosSizes /\ DOMAIN file = 0..(FileSize - 1)
    <2>1. DOMAIN file = 0..(n - 1)
      BY <1>3
    <2> QED BY <2>1, Zenon DEF FileSize
  <1> DEFINE m == FileSize
  <1>5. file \in [0..(m - 1) -> WordType]
    BY <1>3, <1>4
  <1>6. p \in BIOS_LOAD_PARAMS
    BY LoadAssumption
  <1> HIDE DEF m
  <1>7. m \in BiosSizes /\ LoadBegin(file, m, p)
    BY <1>1, <1>4 DEF m
  <1>8. LoadInv'
    BY <1>2, <1>5, <1>6, <1>7, BeginInv
  <1> QED BY <1>2, <1>8, FilesKept DEF SessionInv

\* What is zeroed for the 2BL file are words of the buffer.
LEMMA CleanBldrOK ==
  ASSUME size \in BiosSizes, NEW mem \in Buffer
  PROVE  CleanBldr(mem) \in Buffer
  <1>1. /\ size - 1 \in Int /\ PreldrData \in Int /\ PRELDR_SIZE \in Nat /\ ROM_DIGEST_SIZE \in Int
        /\ PRELDR_PARAMS_SIZE - BOOT_PARAMS_SIZE \in Int
    BY Layout, LayoutAssumption DEF PreldrData, PRELDR_SIZE
  <1>2. ASSUME NEW m \in Buffer, NEW first \in Int, NEW len \in Int
        PROVE  ZeroOut(m, first, len) \in Buffer
    BY <1>1, ZeroOutOK DEF Buffer
  <1> DEFINE a == PreldrData + PRELDR_SIZE
             d == ZeroOut(mem, a, ROM_DIGEST_SIZE)
             e == ZeroOut(d, PreldrData, PRELDR_SIZE)
             c == ZeroOut(e, a + ROM_DIGEST_SIZE, PRELDR_PARAMS_SIZE - BOOT_PARAMS_SIZE)
  <1>3. CleanBldr(mem) = IF PreldrFound THEN c ELSE d
    BY DEF CleanBldr
  <1>4. a \in Int /\ a + ROM_DIGEST_SIZE \in Int /\ PRELDR_SIZE \in Int
    BY <1>1
  <1> HIDE DEF a
  <1>5. d \in Buffer
    BY <1>1, <1>2, <1>4
  <1> HIDE DEF d
  <1>6. e \in Buffer
    BY <1>1, <1>2, <1>4, <1>5
  <1> HIDE DEF e
  <1>7. c \in Buffer
    BY <1>1, <1>2, <1>4, <1>6
  <1> HIDE DEF c
  <1> QED BY <1>3, <1>5, <1>7

\* What -extr writes are component files.
LEMMA ExtractedOK ==
  ASSUME TypeOK, files \in COMPONENTS, NEW mem \in Buffer
  PROVE  Extracted(mem) \in COMPONENTS
  <1> DEFINE kd == Reread(mem, 0, bp.kd)
             it == Reread(mem, 1, bp.it)
             ks == Reread(mem, 3, bp.ks)
             b == Slice(mem, BldrData(size), BLDR_BLOCK_SIZE)
             p == IF PreldrFound THEN Slice(data, PreldrData, PRELDR_SIZE) ELSE files.preldr
             i == IF it > 0 THEN Slice(mem, 0, it) ELSE files.inittbl
             k == Slice(mem, kernel.compressed, ks)
             u == Slice(mem, kernel.uncompressed, kd)
  <1>1. /\ size \in BiosSizes /\ data \in Buffer /\ bp.kd \in Nat /\ bp.it \in Nat /\ bp.ks \in Nat
        /\ kernel.compressed \in Int /\ kernel.uncompressed \in Int
    BY DEF TypeOK, Buffer, BOOT_PARAMS, KERNEL
  <1>2. kd \in Nat /\ it \in Nat /\ ks \in Nat
    BY <1>1 DEF Reread
  <1>3. /\ BldrData(size) \in Int /\ BLDR_BLOCK_SIZE \in Nat /\ PreldrData \in Int
        /\ PRELDR_SIZE \in Nat /\ size - 1 \in Int /\ 0 \in Int
    BY <1>1, Layout, LayoutAssumption DEF PreldrData, PRELDR_SIZE
  <1>4. ASSUME NEW m \in Buffer, NEW first \in Int, NEW len \in Nat
        PROVE  Slice(m, first, len) \in Seq(WordType)
    BY <1>3, SliceOK DEF Buffer
  <1>5. /\ files.preldr \in Seq(WordType) /\ files.inittbl \in Seq(WordType)
    BY DEF COMPONENTS
  <1>6. Extracted(mem) = [bldr |-> b, preldr |-> p, inittbl |-> i, krnl |-> k, kdata |-> u]
    BY DEF Extracted
  <1> HIDE DEF kd, it, ks
  <1>7. b \in Seq(WordType)
    BY <1>3, <1>4
  <1>8. p \in Seq(WordType)
    BY <1>1, <1>3, <1>4, <1>5
  <1>9. i \in Seq(WordType)
    BY <1>2, <1>3, <1>4, <1>5
  <1>10. k \in Seq(WordType) /\ u \in Seq(WordType)
    BY <1>1, <1>2, <1>4
  <1> HIDE DEF b, p, i, k, u
  <1> QED BY <1>6, <1>7, <1>8, <1>9, <1>10 DEF COMPONENTS

LEMMA ExtractWritesInv == SessionInv /\ ExtractWrites => SessionInv'
  <1> SUFFICES ASSUME SessionInv, ExtractWrites PROVE SessionInv'
    OBVIOUS
  <1>1. /\ cmd' = "none" /\ pc' = "extracted" /\ UNCHANGED file /\ cmd = "extract"
        /\ files' = Extracted(CleanBldr(data))
    BY DEF ExtractWrites, Exit
  <1>2. TypeOK /\ data \in Buffer /\ size \in BiosSizes /\ files \in COMPONENTS
    BY <1>1 DEF SessionInv, LoadInv, TypeOK, Buffer
  <1>3. Extracted(CleanBldr(data)) \in COMPONENTS
    BY <1>2, CleanBldrOK, ExtractedOK
  <1>4. files' \in [{"bldr", "preldr", "inittbl", "krnl", "kdata"} -> Seq(WordType)]
    BY <1>1, <1>3 DEF COMPONENTS
  <1>5. file' = NoBios \/ \E n \in BiosSizes : file' \in [0..(n - 1) -> WordType]
    BY <1>1 DEF SessionInv
  <1> QED BY <1>1, <1>4, <1>5 DEF SessionInv, COMPONENTS, BiosSizes, NoBios

\* -bld writes the buffer it has filled.
LEMMA BuildWritesInv == SessionInv /\ BuildWrites => SessionInv'
  <1> SUFFICES ASSUME SessionInv, BuildWrites PROVE SessionInv'
    OBVIOUS
  <1>1. /\ cmd' = "none" /\ pc' = "built" /\ UNCHANGED files /\ cmd = "build" /\ file' = data
    BY DEF BuildWrites, Exit, biosVars
  <1>2. data \in Buffer /\ size \in BiosSizes
    BY <1>1, BuildTypes DEF SessionInv
  <1>3. \E n \in BiosSizes : file' \in [0..(n - 1) -> WordType]
    BY <1>1, <1>2 DEF Buffer
  <1> QED BY <1>1, <1>3 DEF SessionInv, COMPONENTS, BiosSizes, NoBios

LEMMA CommandFailsInv == SessionInv /\ (ExtractFails \/ BuildFails) => SessionInv'
  <1> SUFFICES ASSUME SessionInv, ExtractFails \/ BuildFails PROVE SessionInv'
    OBVIOUS
  <1>1. cmd' = "none" /\ pc' \in {"loaded", "built"} /\ UNCHANGED file /\ UNCHANGED files
    BY DEF ExtractFails, BuildFails, Exit, vars, biosVars
  <1> QED BY <1>1, FilesKept DEF SessionInv

\* A step of load within an extraction, and one of build within a build.
LEMMA WithinInv ==
  SessionInv /\ (\/ cmd = "extract" /\ LoadStep /\ UNCHANGED <<file, buildVars, sessionVars>>
                 \/ cmd = "build" /\ BuildStep /\ UNCHANGED <<file, sessionVars>>) => SessionInv'
  <1>1. ASSUME SessionInv, cmd = "extract", LoadStep, UNCHANGED <<file, buildVars, sessionVars>>
        PROVE  SessionInv'
    <2>1. UNCHANGED cmd /\ UNCHANGED file /\ UNCHANGED files
      BY <1>1 DEF sessionVars
    <2>2. LoadInv
      BY <1>1 DEF SessionInv
    <2>3. LoadInv'
      BY <1>1, <2>1, <2>2, IdleInv, PreldrEntryInvalidInv, PreldrDecryptInv, DecryptBldrInv,
         ValidateBldrInv, InvalidBldrInv, DecryptKernelInv DEF LoadStep
    <2> QED BY <1>1, <2>1, <2>3, FilesKept DEF SessionInv
  <1>2. ASSUME SessionInv, cmd = "build", BuildStep, UNCHANGED <<file, sessionVars>>
        PROVE  SessionInv'
    <2>1. UNCHANGED cmd /\ UNCHANGED file /\ UNCHANGED files
      BY <1>2 DEF sessionVars
    <2>2. BuildInv
      BY <1>2 DEF SessionInv
    <2>3. BuildInv'
      BY <1>2, <2>1, <2>2, BuildStepInv
    <2> QED BY <1>2, <2>1, <2>3, FilesKept DEF SessionInv
  <1> QED BY <1>1, <1>2

\* A session starts with one file or the other.
LEMMA SessionInitInv == SessionInit => SessionInv
  <1> SUFFICES ASSUME SessionInit PROVE SessionInv
    OBVIOUS
  <1>1. cmd = "none" /\ pc = "idle"
    BY DEF SessionInit
  <1>2. file \in Files \/ file = NoBios
    BY DEF SessionInit
  <1>3. file = NoBios \/ \E n \in BiosSizes : file \in [0..(n - 1) -> WordType]
    BY <1>2, LoadAssumption
  <1>4. files = NoFiles \/ files \in Components
    BY DEF SessionInit
  <1>5. NoFiles \in COMPONENTS
    <2>1. Clear("absent", 0) \in WordType
      BY DEF Clear, WordType, Sources
    <2>2. Absent \in Seq(WordType)
      BY <2>1 DEF Absent
    <2> QED BY <2>2 DEF NoFiles, COMPONENTS
  <1> QED BY <1>1, <1>3, <1>4, <1>5, SessionAssumption DEF SessionInv

LEMMA SessionStutterInv == SessionInv /\ UNCHANGED allVars => SessionInv'
  <1> SUFFICES ASSUME SessionInv, UNCHANGED allVars PROVE SessionInv'
    OBVIOUS
  <1>1. UNCHANGED <<vars, buildVars>> /\ UNCHANGED cmd /\ UNCHANGED file /\ UNCHANGED files
    BY DEF allVars, sessionVars, vars
  <1>2. LoadInv => LoadInv'
    BY <1>1 DEF vars, biosVars, LoadInv, TypeOK, Unchanged, BldrStage, StatusStage, KernelStage,
                FblPreserved, BldrLayer, KernelLayer, InBldr, BeforeFbl, InKernel, PreldrData,
                SbKey, KernelKey, BootParamsPlace, Buffer
  <1>3. BuildInv => BuildInv'
    <2>1. UNCHANGED <<pc, data, size, params, bldr, preldr, kernel, bp, bios_status>>
          /\ UNCHANGED <<build, overrun>>
      BY <1>1 DEF vars, biosVars, buildVars
    <2>2. TypeOK => TypeOK'
      BY <2>1 DEF TypeOK
    <2>3. BldrPlaced => BldrPlaced'
      BY <2>1 DEF BldrPlaced, BootParamsPlace, BootParamsAt
    <2>4. NoOverrun => NoOverrun'
      BY <1>1, <2>1 DEF NoOverrun, RequiredSpace
    <2>5. LaidOut => LaidOut'
      BY <2>1 DEF LaidOut, Slice, BootParamsAt, WithFlag, BfmFits
    <2> QED BY <2>1, <2>2, <2>3, <2>4, <2>5, StaysPlaced DEF BuildInv, BuildStages, BUILD
  <1>4. UNCHANGED pc
    BY <1>1 DEF vars, biosVars
  <1> QED BY <1>1, <1>2, <1>3, <1>4, FilesKept DEF SessionInv

-----------------------------------------------------------------------------
(* The theorems about sessions.                                            *)

\* Whatever the commands of a session are, load and build each run under
\* their invariant, and the files on disk are files.
THEOREM SessionInvariant == SessionSpec => []SessionInv
  <1>1. SessionInit => SessionInv
    BY SessionInitInv
  <1>2. SessionInv /\ [SessionNext]_allVars => SessionInv'
    <2> SUFFICES ASSUME SessionInv, [SessionNext]_allVars PROVE SessionInv'
      OBVIOUS
    <2>1. CASE ExtractBegin
      BY <2>1, ExtractBeginInv
    <2>2. CASE ExtractFails \/ BuildFails
      BY <2>2, CommandFailsInv
    <2>3. CASE ExtractWrites
      BY <2>3, ExtractWritesInv
    <2>4. CASE BuildBegins
      BY <2>4, BuildBeginsInv
    <2>5. CASE BuildWrites
      BY <2>5, BuildWritesInv
    <2>6. CASE \/ cmd = "extract" /\ LoadStep /\ UNCHANGED <<file, buildVars, sessionVars>>
               \/ cmd = "build" /\ BuildStep /\ UNCHANGED <<file, sessionVars>>
      BY <2>6, WithinInv
    <2>7. CASE UNCHANGED allVars
      BY <2>7, SessionStutterInv
    <2> QED BY <2>1, <2>2, <2>3, <2>4, <2>5, <2>6, <2>7 DEF SessionNext
  <1> QED BY <1>1, <1>2, PTL DEF SessionSpec

\* A build that writes the boot parameters itself copies nothing outside of its
\* buffer when the largest image is large enough and the keys it replaces are
\* found: for every layout, every component file and every switch.
THEOREM BuildNoOverrun == SessionSpec => []NoOverrun
  <1>1. SessionInv => NoOverrun
    BY DEF SessionInv, BuildInv, NoOverrun
  <1> QED BY <1>1, SessionInvariant, PTL

\* In that build no component has overwritten another when everything is in
\* place: for every layout, every component file and every switch.
THEOREM BuildLaidOut == SessionSpec => []LaidOut
  <1>1. SessionInv => LaidOut
    <2> SUFFICES ASSUME SessionInv, pc = "encrypt_kernel" PROVE LaidOut
      BY DEF LaidOut
    <2>1. cmd = "build"
      BY DEF SessionInv, LoadInv, Stages
    <2> QED BY <2>1 DEF SessionInv, BuildInv
  <1> QED BY <1>1, SessionInvariant, PTL

-----------------------------------------------------------------------------
(* What a genuine image holds, word for word.                              *)

\* A word in the clear, as every word is before a layer of keystream.
IsClear(w) == w \in WordType /\ w.ks = {}

LEMMA ClearOK ==
  /\ \A v \in Nat : IsClear(Word(v)) /\ IsClear(Code(v)) /\ IsClear(Clear("krnl", v))
                    /\ IsClear(Clear("kdata", v)) /\ IsClear(Clear("init", v))
                    /\ IsClear(Clear("fbl", v)) /\ IsClear(Clear("nonce", v))
  /\ IsClear(Zero)
BY DEF IsClear, Word, Code, Zero, Clear, WordType, Sources

\* Two layers of the same keystream are none.
LEMMA XorTwice ==
  ASSUME NEW w, IsClear(w), NEW k \in Int, NEW p \in Int
  PROVE  Xor(Xor(w, k, p), k, p) = w
  <1>1. w = [src |-> w.src, at |-> w.at, ks |-> {}]
    BY DEF IsClear, WordType
  <1>2. Xor(w, k, p) = [src |-> w.src, at |-> w.at, ks |-> {<<k, p>>}]
    BY <1>1 DEF Xor
  <1> DEFINE v == [src |-> w.src, at |-> w.at, ks |-> {<<k, p>>}]
  <1>3. Xor(v, k, p) = [src |-> w.src, at |-> w.at, ks |-> {<<k, p>>} \ {<<k, p>>}]
    BY DEF Xor
  <1>4. {<<k, p>>} \ {<<k, p>>} = {}
    OBVIOUS
  <1> HIDE DEF v
  <1> QED BY <1>1, <1>2, <1>3, <1>4 DEF v

\* Where a genuine 2BL keeps what: all apart, and in front of the FBL block but
\* for the boot parameters.
LEMMA GenuinePlaces ==
  /\ BLDR_BLOCK_SIZE \in Nat /\ PreldrOffset \in Nat /\ BootParamsOffset \in Nat
  /\ ParamsOffset \in Nat /\ LDR_HEAD_SIZE \in Nat \ {0} /\ PRELDR_NONCE_SIZE \in Nat \ {0}
  /\ KEYS_OFFSET \in Nat /\ ENTRY_OFFSET \in Nat
  /\ LDR_HEAD_SIZE < KEYS_OFFSET /\ LDR_HEAD_SIZE <= ENTRY_OFFSET
  /\ KEYS_OFFSET + 3 <= PreldrOffset - 2 /\ ENTRY_OFFSET + 2 <= PreldrOffset - 2
  /\ ENTRY_OFFSET < KEYS_OFFSET - 1 \/ ENTRY_OFFSET > KEYS_OFFSET + 2
  /\ PreldrOffset < ParamsOffset /\ ParamsOffset <= BootParamsOffset - PRELDR_NONCE_SIZE
  /\ BootParamsOffset + FIELDS_SIZE <= BLDR_BLOCK_SIZE /\ FIELDS_SIZE = 4
  /\ BOOT_PARAMS_SIZE \in Nat /\ BootParamsOffset + BOOT_PARAMS_SIZE = BLDR_BLOCK_SIZE
  /\ ParamsOffset + PRELDR_PARAMS_SIZE = BLDR_BLOCK_SIZE /\ PRELDR_PARAMS_SIZE \in Nat
  /\ ROM_DIGEST_SIZE \in Nat /\ PRELDR_SIZE \in Nat
  /\ PreldrOffset + PRELDR_SIZE + ROM_DIGEST_SIZE = ParamsOffset
  /\ BldrData(MIN_BIOS_SIZE) \in Nat
BY LayoutAssumption, GenuineAssumption, SMT
   DEF PreldrOffset, ParamsOffset, BootParamsOffset, FIELDS_SIZE, BLDR_KEYS_SIZE, BLDR_ENTRY_SIZE,
       PRELDR_SIZE, BldrData

\* The words of a 2BL in the clear, and those that are followed or read.
LEMMA PlainWords ==
  ASSUME NEW im \in IMAGE
  PROVE  /\ PlainBldr(im) \in Seq(WordType) /\ Len(PlainBldr(im)) = BLDR_BLOCK_SIZE
         /\ \A o \in 0..(BLDR_BLOCK_SIZE - 1) : IsClear(PlainBldr(im)[o + 1])
         /\ PlainBldr(im)[1] = Word(ENTRY_OFFSET + 2)
         /\ PlainBldr(im)[KEYS_OFFSET + 2 + 1] = Word(im.bldr_kernel_key)
         /\ PlainBldr(im)[ENTRY_OFFSET + 1] = Word(KEYS_OFFSET)
         /\ PlainBldr(im)[PreldrOffset - 2 + 1] = Word(ENTRY_OFFSET + 2)
         /\ PlainBldr(im)[BootParamsOffset + 1] = Word(im.kd)
         /\ PlainBldr(im)[BootParamsOffset + 1 + 1] = Word(im.it)
         /\ PlainBldr(im)[BootParamsOffset + 3 + 1] = Word(im.ks)
  <1> DEFINE W(o) == CASE o = 0 -> Word(ENTRY_OFFSET + BLDR_ENTRY_SIZE)
                       [] o = KEYS_OFFSET - 1 -> Word(4)
                       [] o = KEYS_OFFSET -> Word(5)
                       [] o = KEYS_OFFSET + 1 -> Word(6)
                       [] o = KEYS_OFFSET + 2 -> Word(im.bldr_kernel_key)
                       [] o = ENTRY_OFFSET -> Word(KEYS_OFFSET)
                       [] o = PreldrOffset - BLDR_ENTRY_SIZE -> Word(ENTRY_OFFSET + BLDR_ENTRY_SIZE)
                       [] o = BootParamsOffset -> Word(im.kd)
                       [] o = BootParamsOffset + 1 -> Word(im.it)
                       [] o = BootParamsOffset + 2 -> Word(1)
                       [] o = BootParamsOffset + 3 -> Word(im.ks)
                       [] OTHER -> Code(o)
  <1>1. PlainBldr(im) = [i \in 1..BLDR_BLOCK_SIZE |-> W(i - 1)]
    BY DEF PlainBldr
  <1>2. im.bldr_kernel_key \in Nat /\ im.kd \in Nat /\ im.it \in Nat /\ im.ks \in Nat
    BY DEF IMAGE
  <1>3. \A o \in 0..(BLDR_BLOCK_SIZE - 1) : IsClear(W(o))
    <2> SUFFICES ASSUME NEW o \in 0..(BLDR_BLOCK_SIZE - 1) PROVE IsClear(W(o))
      OBVIOUS
    <2>1. /\ ENTRY_OFFSET + BLDR_ENTRY_SIZE \in Nat /\ KEYS_OFFSET \in Nat /\ o \in Nat
          /\ 1 \in Nat /\ 4 \in Nat /\ 5 \in Nat /\ 6 \in Nat
      BY GenuinePlaces DEF BLDR_ENTRY_SIZE
    <2>2. /\ IsClear(Word(ENTRY_OFFSET + BLDR_ENTRY_SIZE)) /\ IsClear(Word(KEYS_OFFSET))
          /\ IsClear(Word(1)) /\ IsClear(Word(4)) /\ IsClear(Word(5)) /\ IsClear(Word(6))
          /\ IsClear(Word(im.bldr_kernel_key)) /\ IsClear(Word(im.kd)) /\ IsClear(Word(im.it))
          /\ IsClear(Word(im.ks)) /\ IsClear(Code(o))
      BY <1>2, <2>1, ClearOK
    <2> QED BY <2>2
  <1>4. /\ W(0) = Word(ENTRY_OFFSET + 2)
        /\ W(KEYS_OFFSET + 2) = Word(im.bldr_kernel_key)
        /\ W(ENTRY_OFFSET) = Word(KEYS_OFFSET)
        /\ W(PreldrOffset - 2) = Word(ENTRY_OFFSET + 2)
        /\ W(BootParamsOffset) = Word(im.kd)
        /\ W(BootParamsOffset + 1) = Word(im.it)
        /\ W(BootParamsOffset + 3) = Word(im.ks)
    BY GenuinePlaces DEF BLDR_ENTRY_SIZE
  <1> HIDE DEF W
  <1>5. \A o \in 0..(BLDR_BLOCK_SIZE - 1) : PlainBldr(im)[o + 1] = W(o)
    <2> SUFFICES ASSUME NEW o \in 0..(BLDR_BLOCK_SIZE - 1) PROVE PlainBldr(im)[o + 1] = W(o)
      OBVIOUS
    <2>1. o + 1 \in 1..BLDR_BLOCK_SIZE /\ (o + 1) - 1 = o
      BY GenuinePlaces
    <2> QED BY <1>1, <2>1
  <1>6. /\ 0 \in 0..(BLDR_BLOCK_SIZE - 1) /\ KEYS_OFFSET + 2 \in 0..(BLDR_BLOCK_SIZE - 1)
        /\ ENTRY_OFFSET \in 0..(BLDR_BLOCK_SIZE - 1)
        /\ PreldrOffset - 2 \in 0..(BLDR_BLOCK_SIZE - 1)
        /\ BootParamsOffset \in 0..(BLDR_BLOCK_SIZE - 1)
        /\ BootParamsOffset + 1 \in 0..(BLDR_BLOCK_SIZE - 1)
        /\ BootParamsOffset + 3 \in 0..(BLDR_BLOCK_SIZE - 1)
    BY GenuinePlaces
  <1>7. PlainBldr(im) \in Seq(WordType) /\ Len(PlainBldr(im)) = BLDR_BLOCK_SIZE
    <2>1. \A i \in 1..BLDR_BLOCK_SIZE : W(i - 1) \in WordType
      <3>1. \A i \in 1..BLDR_BLOCK_SIZE : i - 1 \in 0..(BLDR_BLOCK_SIZE - 1)
        BY GenuinePlaces
      <3> QED BY <1>3, <3>1 DEF IsClear
    <2>2. BLDR_BLOCK_SIZE \in Nat
      BY GenuinePlaces
    <2> QED BY <1>1, <2>1, <2>2
  <1>8. PlainBldr(im)[1] = W(0)
    <2>1. 0 + 1 = 1
      OBVIOUS
    <2> QED BY <1>5, <1>6, <2>1
  <1> QED BY <1>3, <1>4, <1>5, <1>6, <1>7, <1>8

\* The words of a 2BL with an FBL in it: its head is zero, the boot parameters
\* are in front of the nonce, and the rest is as without an FBL.
LEMMA FblWords ==
  ASSUME NEW im \in IMAGE
  PROVE  /\ FblBldr(im) \in Seq(WordType) /\ Len(FblBldr(im)) = BLDR_BLOCK_SIZE
         /\ \A o \in 0..(BLDR_BLOCK_SIZE - 1) : IsClear(FblBldr(im)[o + 1])
         /\ \A o \in LDR_HEAD_SIZE..(PreldrOffset - 1) :
              FblBldr(im)[o + 1] = PlainBldr(im)[o + 1]
         /\ \A o \in PreldrOffset..(ParamsOffset - 1) : FblBldr(im)[o + 1] = Clear("fbl", o)
         /\ \A o \in BootParamsOffset..(BLDR_BLOCK_SIZE - 1) :
              FblBldr(im)[o - PRELDR_NONCE_SIZE + 1] = PlainBldr(im)[o + 1]
         /\ \A o \in (BLDR_BLOCK_SIZE - PRELDR_NONCE_SIZE)..(BLDR_BLOCK_SIZE - 1) :
              FblBldr(im)[o + 1] = Clear("nonce", o)
  <1> DEFINE q == BootParamsOffset - PRELDR_NONCE_SIZE
             e == BLDR_BLOCK_SIZE - PRELDR_NONCE_SIZE
             P(o) == PlainBldr(im)[o + 1]
             W(o) == CASE o < LDR_HEAD_SIZE -> Zero
                       [] o \in LDR_HEAD_SIZE..(PreldrOffset - 1) -> P(o)
                       [] o \in PreldrOffset..(q - 1) -> Clear("fbl", o)
                       [] o \in q..(e - 1) -> P(o + PRELDR_NONCE_SIZE)
                       [] OTHER -> Clear("nonce", o)
  <1>1. /\ q \in Int /\ e \in Int /\ LDR_HEAD_SIZE <= PreldrOffset /\ ParamsOffset <= q /\ q <= e
        /\ PreldrOffset < ParamsOffset /\ e + PRELDR_NONCE_SIZE = BLDR_BLOCK_SIZE
        /\ q + PRELDR_NONCE_SIZE = BootParamsOffset /\ BootParamsOffset <= BLDR_BLOCK_SIZE
        /\ LDR_HEAD_SIZE \in Nat /\ PreldrOffset \in Nat /\ ParamsOffset \in Nat
        /\ PRELDR_NONCE_SIZE \in Nat /\ BLDR_BLOCK_SIZE \in Nat /\ BootParamsOffset \in Nat
    BY GenuinePlaces
  <1> HIDE DEF q, e
  <1>2. ASSUME NEW o \in 0..(BLDR_BLOCK_SIZE - 1)
        PROVE  FblBldr(im)[o + 1] = W(o)
    <2>1. o + 1 \in 1..BLDR_BLOCK_SIZE /\ (o + 1) - 1 = o
          /\ (o + 1) + PRELDR_NONCE_SIZE = (o + PRELDR_NONCE_SIZE) + 1
      BY <1>1
    <2>2. FblBldr(im) = [i \in 1..BLDR_BLOCK_SIZE |->
            CASE i - 1 < LDR_HEAD_SIZE -> Zero
              [] i - 1 \in LDR_HEAD_SIZE..(PreldrOffset - 1) -> PlainBldr(im)[i]
              [] i - 1 \in PreldrOffset..(q - 1) -> Clear("fbl", i - 1)
              [] i - 1 \in q..(e - 1) -> PlainBldr(im)[i + PRELDR_NONCE_SIZE]
              [] OTHER -> Clear("nonce", i - 1)]
      BY DEF FblBldr, q, e
    <2> QED BY <2>1, <2>2
  <1>3. ASSUME NEW o \in 0..(BLDR_BLOCK_SIZE - 1)
        PROVE  IsClear(W(o))
    <2>1. \A i \in 0..(BLDR_BLOCK_SIZE - 1) : IsClear(P(i))
      BY PlainWords
    <2>2. IsClear(Zero) /\ IsClear(Clear("fbl", o)) /\ IsClear(Clear("nonce", o)) /\ IsClear(P(o))
      BY <2>1, ClearOK
    <2>3. o \in q..(e - 1) => IsClear(P(o + PRELDR_NONCE_SIZE))
      <3>1. o \in q..(e - 1) => o + PRELDR_NONCE_SIZE \in 0..(BLDR_BLOCK_SIZE - 1)
        BY <1>1
      <3> QED BY <2>1, <3>1
    <2> HIDE DEF P
    <2> QED BY <2>2, <2>3
  <1>4. FblBldr(im) \in Seq(WordType) /\ Len(FblBldr(im)) = BLDR_BLOCK_SIZE
    <2>1. FblBldr(im) = [i \in 1..BLDR_BLOCK_SIZE |-> FblBldr(im)[i]]
      BY DEF FblBldr
    <2>2. \A i \in 1..BLDR_BLOCK_SIZE : FblBldr(im)[i] \in WordType
      <3> SUFFICES ASSUME NEW i \in 1..BLDR_BLOCK_SIZE PROVE FblBldr(im)[i] \in WordType
        OBVIOUS
      <3>1. i - 1 \in 0..(BLDR_BLOCK_SIZE - 1) /\ (i - 1) + 1 = i
        BY <1>1
      <3>2. FblBldr(im)[i] = W(i - 1) /\ IsClear(W(i - 1))
        BY <1>2, <1>3, <3>1
      <3> HIDE DEF W
      <3> QED BY <3>2 DEF IsClear
    <2> HIDE DEF W
    <2> QED BY <1>1, <2>1, <2>2
  <1>5. \A o \in LDR_HEAD_SIZE..(PreldrOffset - 1) : o \in 0..(BLDR_BLOCK_SIZE - 1) /\ W(o) = P(o)
    <2> HIDE DEF P
    <2> QED BY <1>1
  <1>6. \A o \in PreldrOffset..(ParamsOffset - 1) :
          o \in 0..(BLDR_BLOCK_SIZE - 1) /\ W(o) = Clear("fbl", o)
    <2> HIDE DEF P
    <2> QED BY <1>1
  <1>7. \A o \in BootParamsOffset..(BLDR_BLOCK_SIZE - 1) :
          o - PRELDR_NONCE_SIZE \in 0..(BLDR_BLOCK_SIZE - 1) /\ W(o - PRELDR_NONCE_SIZE) = P(o)
    <2> HIDE DEF P
    <2>1. SUFFICES ASSUME NEW o \in BootParamsOffset..(BLDR_BLOCK_SIZE - 1)
          PROVE /\ o - PRELDR_NONCE_SIZE \in 0..(BLDR_BLOCK_SIZE - 1)
                /\ W(o - PRELDR_NONCE_SIZE) = P(o)
      OBVIOUS
    <2>2. /\ o - PRELDR_NONCE_SIZE \in q..(e - 1) /\ (o - PRELDR_NONCE_SIZE) + PRELDR_NONCE_SIZE = o
          /\ o - PRELDR_NONCE_SIZE \in 0..(BLDR_BLOCK_SIZE - 1)
      BY <1>1
    <2> DEFINE r == o - PRELDR_NONCE_SIZE
    <2>3. r \in q..(e - 1) /\ r + PRELDR_NONCE_SIZE = o
      BY <2>2
    <2> HIDE DEF r
    <2>4. W(r) = P(r + PRELDR_NONCE_SIZE)
      BY <1>1, <2>3
    <2> HIDE DEF W
    <2> QED BY <2>2, <2>3, <2>4 DEF r
  <1>8. \A o \in (BLDR_BLOCK_SIZE - PRELDR_NONCE_SIZE)..(BLDR_BLOCK_SIZE - 1) :
          o \in 0..(BLDR_BLOCK_SIZE - 1) /\ W(o) = Clear("nonce", o)
    <2> HIDE DEF P
    <2> QED BY <1>1 DEF e
  <1> HIDE DEF W
  <1> QED BY <1>2, <1>3, <1>4, <1>5, <1>6, <1>7, <1>8

\* What an image in Images may be taken to be.
LEMMA GenuineOK ==
  ASSUME NEW im \in Images
  PROVE  /\ im \in IMAGE /\ im.size \in BiosSizes /\ im.size \in Nat
         /\ im.kd \in Nat /\ im.it \in Nat /\ im.ks \in Nat
         /\ BldrData(im.size) \in Nat /\ BldrData(im.size) + BLDR_BLOCK_SIZE < im.size
         /\ im.it + im.ks + im.kd <= BldrData(im.size)
         /\ im.fbl \in BOOLEAN
         /\ im.fbl => im.bldr_key # NoKey
         /\ im.bldr_key \in Int /\ im.kernel_key \in Int /\ DerivedKey(im.bldr_key) \in Int
         /\ im.bldr_kernel_key \in Nat
  <1>1. /\ im \in IMAGE /\ im.it + im.ks + im.kd <= BldrData(im.size)
        /\ im.fbl => im.bldr_key # NoKey
    BY ImagesAssumption
  <1>2. /\ im.size \in BiosSizes /\ im.kd \in Nat /\ im.it \in Nat /\ im.ks \in Nat
        /\ im.bldr_key \in Keys /\ im.kernel_key \in Keys /\ im.fbl \in BOOLEAN
        /\ im.bldr_kernel_key \in Nat
    BY <1>1 DEF IMAGE
  <1>3. im.bldr_key \in Int /\ im.kernel_key \in Int /\ DerivedKey(im.bldr_key) \in Int
    BY <1>2 DEF Keys, NoKey, DerivedKey
  <1> QED BY <1>1, <1>2, <1>3, Layout

\* The parts of an image, as sequences of words.
LEMMA PartsOK ==
  ASSUME NEW im \in Images
  PROVE  /\ Kernel(im) \in Seq(WordType) /\ Len(Kernel(im)) = im.ks
         /\ KernelData(im) \in Seq(WordType) /\ Len(KernelData(im)) = im.kd
         /\ InitTbl(im) \in Seq(WordType) /\ Len(InitTbl(im)) = im.it
         /\ \A i \in 1..im.ks : Kernel(im)[i] = Clear("krnl", i)
         /\ \A i \in 1..im.ks : IsClear(Kernel(im)[i])
  <1>1. \A i \in Nat : /\ Clear("krnl", i) \in WordType /\ Clear("kdata", i) \in WordType
                       /\ Clear("init", i) \in WordType
    BY ClearOK DEF IsClear
  <1>2. im.kd \in Nat /\ im.it \in Nat /\ im.ks \in Nat
    BY GenuineOK
  <1>3. Kernel(im) \in Seq(WordType) /\ Len(Kernel(im)) = im.ks
    BY <1>1, <1>2 DEF Kernel
  <1>4. KernelData(im) \in Seq(WordType) /\ Len(KernelData(im)) = im.kd
    BY <1>1, <1>2 DEF KernelData
  <1>5. InitTbl(im) \in Seq(WordType) /\ Len(InitTbl(im)) = im.it
    BY <1>1, <1>2 DEF InitTbl
  <1>6. \A i \in 1..im.ks : Kernel(im)[i] = Clear("krnl", i) /\ i \in Nat
    BY <1>2 DEF Kernel
  <1> QED BY <1>3, <1>4, <1>5, <1>6, ClearOK

\* An image before anything is encrypted, and with its kernel encrypted.
Bldr(im) == IF im.fbl THEN FblBldr(im) ELSE PlainBldr(im)
KernelPlace(im) == BldrData(im.size) - im.kd - im.ks
Assembled(im) ==
  CopyIn(CopyIn(CopyIn(CopyIn([a \in 0..(im.size - 1) |-> Zero], BldrData(im.size), Bldr(im)),
                       BldrData(im.size) - im.kd, KernelData(im)),
                KernelPlace(im), Kernel(im)),
         0, InitTbl(im))
Halfway(im) ==
  IF im.kernel_key = NoKey THEN Assembled(im)
  ELSE Rc4(Assembled(im), KernelPlace(im), im.ks, im.kernel_key, 0)

LEMMA AssembledOK ==
  ASSUME NEW im \in Images
  PROVE  /\ Assembled(im) \in [0..(im.size - 1) -> WordType]
         /\ \A i \in 1..im.it : Assembled(im)[0 + i - 1] = InitTbl(im)[i]
         /\ \A i \in 1..im.ks : Assembled(im)[KernelPlace(im) + i - 1] = Kernel(im)[i]
         /\ \A i \in 1..im.kd : Assembled(im)[BldrData(im.size) - im.kd + i - 1] = KernelData(im)[i]
         /\ \A o \in 0..(BLDR_BLOCK_SIZE - 1) : Assembled(im)[BldrData(im.size) + o] = Bldr(im)[o + 1]
  <1> DEFINE hi == im.size - 1
             b == BldrData(im.size)
             u == b - im.kd
             c == KernelPlace(im)
             m0 == [a \in 0..hi |-> Zero]
             m1 == CopyIn(m0, b, Bldr(im))
             m2 == CopyIn(m1, u, KernelData(im))
             m3 == CopyIn(m2, c, Kernel(im))
             m4 == CopyIn(m3, 0, InitTbl(im))
  <1>1. /\ hi \in Int /\ b \in Nat /\ u \in Int /\ c \in Int /\ u + im.kd = b /\ c + im.ks = u
        /\ im.it <= c /\ b + BLDR_BLOCK_SIZE <= hi
        /\ im.kd \in Nat /\ im.it \in Nat /\ im.ks \in Nat /\ BLDR_BLOCK_SIZE \in Nat
    BY GenuineOK, LayoutAssumption DEF KernelPlace
  <1>2. Bldr(im) \in Seq(WordType) /\ Len(Bldr(im)) = BLDR_BLOCK_SIZE
    BY GenuineOK, PlainWords, FblWords DEF Bldr
  <1>3. Assembled(im) = m4
    BY DEF Assembled
  <1> HIDE DEF hi, b, u, c
  <1>4. ASSUME NEW m \in [0..hi -> WordType], NEW first \in Int, NEW f \in Seq(WordType)
        PROVE  /\ CopyIn(m, first, f) \in [0..hi -> WordType]
               /\ \A a \in 0..hi :
                    CopyIn(m, first, f)[a] =
                      IF a >= first /\ a < first + Len(f) THEN f[a - first + 1] ELSE m[a]
    <2>1. CopyIn(m, first, f) \in [0..hi -> WordType]
      BY <1>1, CopyInOK
    <2>2. \A a \in 0..hi :
            CopyIn(m, first, f)[a] =
              IF a >= first /\ a < first + Len(f) THEN f[a - first + 1] ELSE m[a]
      BY <1>1, CopyInAt
    <2> QED BY <2>1, <2>2
  <1>5. m0 \in [0..hi -> WordType]
    BY ClearOK DEF IsClear
  <1> HIDE DEF m0
  <1>6. /\ m1 \in [0..hi -> WordType]
        /\ \A a \in 0..hi : m1[a] = IF a >= b /\ a < b + BLDR_BLOCK_SIZE THEN Bldr(im)[a - b + 1]
                                    ELSE m0[a]
    <2>1. Bldr(im) \in Seq(WordType) /\ Len(Bldr(im)) = BLDR_BLOCK_SIZE /\ b \in Int
      BY <1>1, <1>2
    <2>2. /\ m1 \in [0..hi -> WordType]
          /\ \A a \in 0..hi : m1[a] = IF a >= b /\ a < b + Len(Bldr(im))
                                      THEN Bldr(im)[a - b + 1] ELSE m0[a]
      BY <1>4, <1>5, <2>1, Zenon
    <2> QED BY <2>1, <2>2, Zenon
  <1> HIDE DEF m1
  <1>7. /\ m2 \in [0..hi -> WordType]
        /\ \A a \in 0..hi : m2[a] = IF a >= u /\ a < u + im.kd THEN KernelData(im)[a - u + 1]
                                    ELSE m1[a]
    <2>1. KernelData(im) \in Seq(WordType) /\ Len(KernelData(im)) = im.kd /\ u \in Int
      BY <1>1, PartsOK
    <2>2. /\ m2 \in [0..hi -> WordType]
          /\ \A a \in 0..hi : m2[a] = IF a >= u /\ a < u + Len(KernelData(im))
                                      THEN KernelData(im)[a - u + 1] ELSE m1[a]
      BY <1>4, <1>6, <2>1, Zenon
    <2> QED BY <2>1, <2>2, Zenon
  <1> HIDE DEF m2
  <1>8. /\ m3 \in [0..hi -> WordType]
        /\ \A a \in 0..hi : m3[a] = IF a >= c /\ a < c + im.ks THEN Kernel(im)[a - c + 1]
                                    ELSE m2[a]
    <2>1. Kernel(im) \in Seq(WordType) /\ Len(Kernel(im)) = im.ks /\ c \in Int
      BY <1>1, PartsOK
    <2>2. /\ m3 \in [0..hi -> WordType]
          /\ \A a \in 0..hi : m3[a] = IF a >= c /\ a < c + Len(Kernel(im))
                                      THEN Kernel(im)[a - c + 1] ELSE m2[a]
      BY <1>4, <1>7, <2>1, Zenon
    <2> QED BY <2>1, <2>2, Zenon
  <1> HIDE DEF m3
  <1>9. /\ m4 \in [0..hi -> WordType]
        /\ \A a \in 0..hi : m4[a] = IF a >= 0 /\ a < 0 + im.it THEN InitTbl(im)[a - 0 + 1]
                                    ELSE m3[a]
    <2>1. 0 \in Int /\ Len(InitTbl(im)) = im.it /\ InitTbl(im) \in Seq(WordType)
      BY PartsOK
    <2>2. /\ m4 \in [0..hi -> WordType]
          /\ \A a \in 0..hi : m4[a] = IF a >= 0 /\ a < 0 + Len(InitTbl(im))
                                      THEN InitTbl(im)[a - 0 + 1] ELSE m3[a]
      BY <1>4, <1>8, <2>1, Zenon
    <2> QED BY <2>1, <2>2, Zenon
  <1> HIDE DEF m4
  <1>10. \A i \in 1..im.it : m4[0 + i - 1] = InitTbl(im)[i]
    <2> SUFFICES ASSUME NEW i \in 1..im.it PROVE m4[0 + i - 1] = InitTbl(im)[i]
      OBVIOUS
    <2> DEFINE a == 0 + i - 1
    <2>1. a \in 0..hi /\ a >= 0 /\ a < 0 + im.it /\ a - 0 + 1 = i
      BY <1>1
    <2> HIDE DEF a
    <2> QED BY <1>9, <2>1 DEF a
  <1>11. \A i \in 1..im.ks : m4[c + i - 1] = Kernel(im)[i]
    <2> SUFFICES ASSUME NEW i \in 1..im.ks PROVE m4[c + i - 1] = Kernel(im)[i]
      OBVIOUS
    <2> DEFINE a == c + i - 1
    <2>1. a \in 0..hi /\ a >= c /\ a < c + im.ks /\ a - c + 1 = i /\ ~(a < 0 + im.it)
      BY <1>1
    <2> HIDE DEF a
    <2> QED BY <1>8, <1>9, <2>1 DEF a
  <1>12. \A i \in 1..im.kd : m4[u + i - 1] = KernelData(im)[i]
    <2> SUFFICES ASSUME NEW i \in 1..im.kd PROVE m4[u + i - 1] = KernelData(im)[i]
      OBVIOUS
    <2> DEFINE a == u + i - 1
    <2>1. /\ a \in 0..hi /\ a >= u /\ a < u + im.kd /\ a - u + 1 = i
          /\ ~(a < 0 + im.it) /\ ~(a < c + im.ks)
      BY <1>1
    <2> HIDE DEF a
    <2> QED BY <1>7, <1>8, <1>9, <2>1 DEF a
  <1>13. \A o \in 0..(BLDR_BLOCK_SIZE - 1) : m4[b + o] = Bldr(im)[o + 1]
    <2> SUFFICES ASSUME NEW o \in 0..(BLDR_BLOCK_SIZE - 1) PROVE m4[b + o] = Bldr(im)[o + 1]
      OBVIOUS
    <2> DEFINE a == b + o
    <2>1. /\ a \in 0..hi /\ a >= b /\ a < b + BLDR_BLOCK_SIZE /\ a - b + 1 = o + 1
          /\ ~(a < 0 + im.it) /\ ~(a < c + im.ks) /\ ~(a < u + im.kd)
      BY <1>1
    <2> HIDE DEF a
    <2> QED BY <1>6, <1>7, <1>8, <1>9, <2>1 DEF a
  <1> QED BY <1>3, <1>9, <1>10, <1>11, <1>12, <1>13 DEF hi, b, u, c

\* The kernel's layer is on the kernel only.
LEMMA HalfwayOK ==
  ASSUME NEW im \in Images
  PROVE  /\ Halfway(im) \in [0..(im.size - 1) -> WordType]
         /\ \A a \in 0..(im.size - 1) :
              Halfway(im)[a] =
                IF /\ im.kernel_key # NoKey
                   /\ a >= KernelPlace(im) /\ a < KernelPlace(im) + im.ks
                THEN Xor(Assembled(im)[a], im.kernel_key, a - KernelPlace(im))
                ELSE Assembled(im)[a]
  <1> DEFINE hi == im.size - 1
             c == KernelPlace(im)
             m == Assembled(im)
             h == Rc4(m, c, im.ks, im.kernel_key, 0)
  <1>1. hi \in Int /\ c \in Int /\ im.ks \in Int /\ im.kernel_key \in Int
    BY GenuineOK DEF KernelPlace
  <1>2. m \in [0..hi -> WordType]
    BY AssembledOK
  <1>3. Halfway(im) = IF im.kernel_key = NoKey THEN m ELSE h
    BY DEF Halfway
  <1> HIDE DEF hi, c, m
  <1>4. /\ h \in [0..hi -> WordType]
        /\ \A a \in 0..hi :
             h[a] = IF a >= c /\ a < c + im.ks THEN Xor(m[a], im.kernel_key, a - c + 0) ELSE m[a]
    BY <1>1, <1>2, Rc4OK
  <1>5. \A a \in 0..hi : a - c + 0 = a - c
    BY <1>1
  <1> HIDE DEF h
  <1> QED BY <1>2, <1>3, <1>4, <1>5 DEF hi, c, m

\* The 2BL's layer is on the 2BL only: without an FBL on all of it, with one on
\* what is in front of the FBL and on the boot parameters, not on the nonce.
LEMMA ImageOK ==
  ASSUME NEW im \in Images
  PROVE  /\ Image(im) \in [0..(im.size - 1) -> WordType]
         /\ \A a \in 0..(im.size - 1) : a < BldrData(im.size) => Image(im)[a] = Halfway(im)[a]
         /\ ~im.fbl =>
              \A o \in 0..(BLDR_BLOCK_SIZE - 1) :
                Image(im)[BldrData(im.size) + o] =
                  IF im.bldr_key = NoKey THEN PlainBldr(im)[o + 1]
                  ELSE Xor(PlainBldr(im)[o + 1], im.bldr_key, o)
         /\ im.fbl =>
              \A o \in 0..(BLDR_BLOCK_SIZE - 1) :
                Image(im)[BldrData(im.size) + o] =
                  IF \/ o < PreldrOffset
                     \/ o >= ParamsOffset /\ o < BLDR_BLOCK_SIZE - PRELDR_NONCE_SIZE
                  THEN Xor(FblBldr(im)[o + 1], DerivedKey(im.bldr_key), o)
                  ELSE FblBldr(im)[o + 1]
  <1> DEFINE hi == im.size - 1
             b == BldrData(im.size)
             h == Halfway(im)
             k == im.bldr_key
             d == DerivedKey(im.bldr_key)
             len == PRELDR_PARAMS_SIZE - PRELDR_NONCE_SIZE
             p == b + ParamsOffset
             r0 == Rc4(h, b, BLDR_BLOCK_SIZE, k, 0)
             r1 == Rc4(h, b, PreldrOffset, d, 0)
             r2 == Rc4(r1, p, len, d, ParamsOffset)
  <1>1. /\ hi \in Int /\ b \in Nat /\ k \in Int /\ d \in Int /\ len \in Int /\ p \in Int
        /\ BLDR_BLOCK_SIZE \in Nat /\ PreldrOffset \in Nat /\ ParamsOffset \in Nat
        /\ PreldrOffset < ParamsOffset /\ b + BLDR_BLOCK_SIZE <= hi
        /\ p = b + ParamsOffset /\ p + len = b + (BLDR_BLOCK_SIZE - PRELDR_NONCE_SIZE)
        /\ PRELDR_NONCE_SIZE \in Nat /\ im.fbl \in BOOLEAN /\ 0 \in Int
        /\ im.fbl => k # NoKey
    <2>1. /\ hi \in Int /\ b \in Nat /\ k \in Int /\ d \in Int /\ b + BLDR_BLOCK_SIZE <= hi
          /\ im.fbl \in BOOLEAN
          /\ im.fbl => k # NoKey
      <3>1. im.size \in Nat /\ b \in Nat /\ b + BLDR_BLOCK_SIZE < im.size /\ BLDR_BLOCK_SIZE \in Nat
        BY GenuineOK, GenuinePlaces
      <3>2. hi \in Int /\ b + BLDR_BLOCK_SIZE <= hi
        BY <3>1
      <3> QED BY <3>1, <3>2, GenuineOK
    <2>2. /\ BLDR_BLOCK_SIZE \in Nat /\ PreldrOffset \in Nat /\ ParamsOffset \in Nat
          /\ PreldrOffset < ParamsOffset /\ PRELDR_NONCE_SIZE \in Nat /\ PRELDR_PARAMS_SIZE \in Nat
          /\ ParamsOffset + PRELDR_PARAMS_SIZE = BLDR_BLOCK_SIZE
      BY GenuinePlaces
    <2> HIDE DEF hi, b, k, d
    <2>3. /\ len \in Int /\ p \in Int /\ p = b + ParamsOffset
          /\ p + len = b + (BLDR_BLOCK_SIZE - PRELDR_NONCE_SIZE)
      BY <2>1, <2>2
    <2> HIDE DEF p, len
    <2> QED BY <2>1, <2>2, <2>3
  <1>2. h \in [0..hi -> WordType]
    BY HalfwayOK
  <1>3. \A o \in 0..(BLDR_BLOCK_SIZE - 1) : h[b + o] = Bldr(im)[o + 1]
    <2> SUFFICES ASSUME NEW o \in 0..(BLDR_BLOCK_SIZE - 1) PROVE h[b + o] = Bldr(im)[o + 1]
      OBVIOUS
    <2> DEFINE a == b + o
    <2>1. a \in 0..hi
      BY <1>1
    <2>2. ~(a < KernelPlace(im) + im.ks)
      BY <1>1, GenuineOK DEF KernelPlace
    <2>3. Assembled(im)[a] = Bldr(im)[o + 1]
      BY AssembledOK
    <2> HIDE DEF a
    <2>4. h[a] = Assembled(im)[a]
      BY <2>1, <2>2, HalfwayOK
    <2> QED BY <2>3, <2>4 DEF a
  <1>4. Image(im) = IF k = NoKey THEN h ELSE IF im.fbl THEN r2 ELSE r0
    BY DEF Image, Halfway, Assembled, KernelPlace, Bldr
  <1> HIDE DEF hi, b, h, k, d, len, p
  <1>5. ASSUME NEW m \in [0..hi -> WordType], NEW f \in Int, NEW l \in Int, NEW x \in Int, NEW s \in Int
        PROVE  Rc4(m, f, l, x, s) \in [0..hi -> WordType]
    BY <1>1, Rc4OK
  <1>6. /\ r0 \in [0..hi -> WordType]
        /\ \A a \in 0..hi : r0[a] = IF a >= b /\ a < b + BLDR_BLOCK_SIZE
                                    THEN Xor(h[a], k, a - b + 0) ELSE h[a]
    <2>1. b \in Int /\ BLDR_BLOCK_SIZE \in Int /\ k \in Int /\ 0 \in Int
      BY <1>1
    <2>2. r0 \in [0..hi -> WordType]
      BY <1>2, <1>5, <2>1
    <2>3. \A a \in 0..hi : r0[a] = IF a >= b /\ a < b + BLDR_BLOCK_SIZE
                            THEN Xor(h[a], k, a - b + 0) ELSE h[a]
      BY <1>2 DEF Rc4
    <2> QED BY <2>2, <2>3
  <1>7. /\ r1 \in [0..hi -> WordType]
        /\ \A a \in 0..hi : r1[a] = IF a >= b /\ a < b + PreldrOffset
                                    THEN Xor(h[a], d, a - b + 0) ELSE h[a]
    <2>1. b \in Int /\ PreldrOffset \in Int /\ d \in Int /\ 0 \in Int
      BY <1>1
    <2>2. r1 \in [0..hi -> WordType]
      BY <1>2, <1>5, <2>1
    <2>3. \A a \in 0..hi : r1[a] = IF a >= b /\ a < b + PreldrOffset
                            THEN Xor(h[a], d, a - b + 0) ELSE h[a]
      BY <1>2 DEF Rc4
    <2> QED BY <2>2, <2>3
  <1> HIDE DEF r0, r1
  <1>8. /\ r2 \in [0..hi -> WordType]
        /\ \A a \in 0..hi : r2[a] = IF a >= p /\ a < p + len
                                    THEN Xor(r1[a], d, a - p + ParamsOffset) ELSE r1[a]
    <2>1. ParamsOffset \in Int /\ p \in Int /\ len \in Int /\ d \in Int
      BY <1>1
    <2>2. r2 \in [0..hi -> WordType]
      BY <1>7, <1>5, <2>1
    <2>3. \A a \in 0..hi : r2[a] = IF a >= p /\ a < p + len
                            THEN Xor(r1[a], d, a - p + ParamsOffset) ELSE r1[a]
      BY <1>7 DEF Rc4
    <2> QED BY <2>2, <2>3
  <1> HIDE DEF r2
  <1>9. Image(im) \in [0..hi -> WordType]
    BY <1>2, <1>4, <1>6, <1>8
  <1>10. \A a \in 0..hi : a < b => Image(im)[a] = h[a]
    <2>1. \A a \in 0..hi : a < b => ~(a >= b) /\ ~(a >= p)
      BY <1>1
    <2> QED BY <1>4, <1>6, <1>7, <1>8, <2>1
  <1>11. ASSUME NEW o \in 0..(BLDR_BLOCK_SIZE - 1)
         PROVE  /\ ~im.fbl => Image(im)[b + o] = IF k = NoKey THEN PlainBldr(im)[o + 1]
                                                 ELSE Xor(PlainBldr(im)[o + 1], k, o)
                /\ im.fbl => Image(im)[b + o] =
                     IF \/ o < PreldrOffset
                        \/ o >= ParamsOffset /\ o < BLDR_BLOCK_SIZE - PRELDR_NONCE_SIZE
                     THEN Xor(FblBldr(im)[o + 1], d, o) ELSE FblBldr(im)[o + 1]
    <2> DEFINE a == b + o
    <2>1. /\ a \in 0..hi /\ a >= b /\ a < b + BLDR_BLOCK_SIZE
          /\ a - b + 0 = o /\ a - p + ParamsOffset = o
          /\ a < b + PreldrOffset <=> o < PreldrOffset
          /\ a >= p <=> o >= ParamsOffset
          /\ a < p + len <=> o < BLDR_BLOCK_SIZE - PRELDR_NONCE_SIZE
          /\ o < PreldrOffset => ~(o >= ParamsOffset)
      BY <1>1
    <2>2. h[a] = Bldr(im)[o + 1]
      BY <1>3
    <2> HIDE DEF a
    <2>3. CASE ~im.fbl
      <3>1. h[a] = PlainBldr(im)[o + 1]
        BY <2>2, <2>3 DEF Bldr
      <3>2. r0[a] = Xor(h[a], k, o)
        BY <1>6, <2>1
      <3> QED BY <1>4, <2>3, <3>1, <3>2 DEF a
    <2>4. CASE im.fbl
      <3>1. h[a] = FblBldr(im)[o + 1]
        BY <2>2, <2>4 DEF Bldr
      <3>2. r1[a] = IF o < PreldrOffset THEN Xor(h[a], d, o) ELSE h[a]
        BY <1>7, <2>1
      <3>3. r2[a] = IF o >= ParamsOffset /\ o < BLDR_BLOCK_SIZE - PRELDR_NONCE_SIZE
                    THEN Xor(r1[a], d, o) ELSE r1[a]
        BY <1>8, <2>1
      <3> QED BY <1>1, <1>4, <2>1, <2>4, <3>1, <3>2, <3>3 DEF a
    <2> QED BY <2>3, <2>4
  <1> QED BY <1>9, <1>10, <1>11 DEF hi, b, h, k, d

\* The parts below the 2BL, of which the kernel may be encrypted.
LEMMA ImageParts ==
  ASSUME NEW im \in Images
  PROVE  /\ \A i \in 1..im.it : Image(im)[0 + i - 1] = InitTbl(im)[i]
         /\ \A i \in 1..im.ks :
              Image(im)[KernelPlace(im) + i - 1] =
                IF im.kernel_key = NoKey THEN Kernel(im)[i]
                ELSE Xor(Kernel(im)[i], im.kernel_key, i - 1)
         /\ \A i \in 1..im.kd : Image(im)[BldrData(im.size) - im.kd + i - 1] = KernelData(im)[i]
  <1> DEFINE hi == im.size - 1
             b == BldrData(im.size)
             u == b - im.kd
             c == KernelPlace(im)
  <1>1. /\ hi \in Int /\ b \in Nat /\ u \in Int /\ c \in Int /\ u + im.kd = b /\ c + im.ks = u
        /\ im.it <= c /\ b <= hi /\ im.kd \in Nat /\ im.it \in Nat /\ im.ks \in Nat
    BY GenuineOK, LayoutAssumption DEF KernelPlace
  <1>2. \A a \in 0..hi : a < b =>
          Image(im)[a] = IF im.kernel_key # NoKey /\ a >= c /\ a < c + im.ks
                         THEN Xor(Assembled(im)[a], im.kernel_key, a - c) ELSE Assembled(im)[a]
    BY ImageOK, HalfwayOK
  <1>3. /\ \A i \in 1..im.it : Assembled(im)[0 + i - 1] = InitTbl(im)[i]
        /\ \A i \in 1..im.ks : Assembled(im)[c + i - 1] = Kernel(im)[i]
        /\ \A i \in 1..im.kd : Assembled(im)[u + i - 1] = KernelData(im)[i]
    BY AssembledOK
  <1> HIDE DEF hi, b, u, c
  <1>4. ASSUME NEW i \in 1..im.it PROVE Image(im)[0 + i - 1] = InitTbl(im)[i]
    <2> DEFINE a == 0 + i - 1
    <2>1. a \in 0..hi /\ a < b /\ ~(a >= c)
      BY <1>1
    <2>2. Assembled(im)[a] = InitTbl(im)[i]
      BY <1>3
    <2> HIDE DEF a
    <2> QED BY <1>2, <2>1, <2>2 DEF a
  <1>5. ASSUME NEW i \in 1..im.ks
        PROVE  Image(im)[c + i - 1] = IF im.kernel_key = NoKey THEN Kernel(im)[i]
                                      ELSE Xor(Kernel(im)[i], im.kernel_key, i - 1)
    <2> DEFINE a == c + i - 1
    <2>1. a \in 0..hi /\ a < b /\ a >= c /\ a < c + im.ks /\ a - c = i - 1
      BY <1>1
    <2>2. Assembled(im)[a] = Kernel(im)[i]
      BY <1>3
    <2> HIDE DEF a
    <2> QED BY <1>2, <2>1, <2>2 DEF a
  <1>6. ASSUME NEW i \in 1..im.kd PROVE Image(im)[u + i - 1] = KernelData(im)[i]
    <2> DEFINE a == u + i - 1
    <2>1. a \in 0..hi /\ a < b /\ ~(a < c + im.ks)
      BY <1>1
    <2>2. Assembled(im)[a] = KernelData(im)[i]
      BY <1>3
    <2> HIDE DEF a
    <2> QED BY <1>2, <2>1, <2>2 DEF a
  <1> QED BY <1>4, <1>5, <1>6 DEF b, u, c

-----------------------------------------------------------------------------
(* load of a genuine image.                                                *)

\* An image that is loaded with switches that fit it, its FBL, if any, having
\* been taken for one.
Meant(im) ==
  /\ file = Image(im) /\ BldrMatches(im, params) /\ KernelMatches(im, params)
  /\ preldr = "not_found" <=> ~im.fbl

\* The 2BL is in the clear, and its boot parameters where the pointer to them is.
BldrClear(im) ==
  /\ \A o \in Readable(im, params) : data[BldrData(size) + o] = PlainBldr(im)[o + 1]
  /\ \A i \in 0..(FIELDS_SIZE - 1) :
       data[bldr.boot_params + i] = PlainBldr(im)[BootParamsOffset + i + 1]
  /\ params.restore_boot_params => bldr.boot_params = BootParamsPlace

\* The boot parameters, the keys and the kernel have been found.
Found(im) ==
  /\ bp = [kd |-> im.kd, it |-> im.it, ks |-> im.ks]
  /\ bldr.keys = BldrData(size) + KEYS_OFFSET
  /\ kernel.compressed = BldrData(size) - im.kd - im.ks
  /\ kernel.uncompressed = BldrData(size) - im.kd

\* What load has made of the image: without an FBL it is as in the file until
\* load decrypts the 2BL, with one the FBL has done that; the kernel's
\* encryption_state has turned if the kernel was encrypted.
Recovering(im) ==
  Meant(im) =>
    /\ pc = "bldr" => IF im.fbl THEN preldr = "bldr_decrypted" /\ BldrClear(im)
                      ELSE /\ data = file /\ bldr.enc = ~params.enc_bldr
                           /\ bldr.boot_params = BootParamsPlace
    /\ pc \in {"validate", "kernel", "loaded"} => BldrClear(im)
    /\ pc \in {"kernel", "loaded"} => Found(im)
    /\ pc = "loaded" => /\ bios_status = "success"
                        /\ kernel.enc = (im.kernel_key = NoKey /\ ~params.enc_kernel)

LEMMA MeantSize ==
  ASSUME LoadInv, NEW im \in Images, file = Image(im)
  PROVE  /\ size = im.size /\ size \in BiosSizes /\ size \in Nat /\ BldrData(size) \in Nat
         /\ BldrData(size) + BLDR_BLOCK_SIZE < size /\ data \in Buffer /\ file \in Buffer
         /\ params \in BIOS_LOAD_PARAMS /\ bldr \in BLDR /\ kernel \in KERNEL
  <1>1. /\ size \in BiosSizes /\ data \in Buffer /\ params \in BIOS_LOAD_PARAMS /\ bldr \in BLDR
        /\ kernel \in KERNEL /\ file \in Buffer
    BY DEF LoadInv, TypeOK, Buffer
  <1>2. size \in Nat /\ BldrData(size) \in Nat /\ BldrData(size) + BLDR_BLOCK_SIZE < size
    BY <1>1, Layout
  <1>3. DOMAIN file = 0..(size - 1) /\ DOMAIN file = 0..(im.size - 1)
    BY <1>1, ImageOK DEF Buffer
  <1>4. im.size \in Nat /\ BldrData(im.size) \in Nat /\ BldrData(im.size) + BLDR_BLOCK_SIZE < im.size
    BY GenuineOK
  <1>5. size - 1 \in 0..(size - 1) /\ im.size - 1 \in 0..(im.size - 1)
    BY <1>2, <1>4, LayoutAssumption
  <1>6. size - 1 \in 0..(im.size - 1) /\ im.size - 1 \in 0..(size - 1)
    BY <1>3, <1>5
  <1>7. size = im.size
    BY <1>2, <1>4, <1>6
  <1> QED BY <1>1, <1>2, <1>7

\* What the two decryptions do to the words of the 2BL, by their offset in it.
LEMMA EncDecBldrAt ==
  ASSUME size \in BiosSizes, NEW mem \in Buffer, NEW k \in Int, NEW o \in 0..(BLDR_BLOCK_SIZE - 1)
  PROVE  EncDecBldr(mem, k)[BldrData(size) + o] = Xor(mem[BldrData(size) + o], k, o)
  <1> DEFINE a == BldrData(size) + o
  <1>1. /\ a \in 0..(size - 1) /\ a >= BldrData(size) /\ a < BldrData(size) + BLDR_BLOCK_SIZE
        /\ a - BldrData(size) + 0 = o
    BY Layout, LayoutAssumption
  <1> HIDE DEF a
  <1>2. EncDecBldr(mem, k)[a] = Xor(mem[a], k, a - BldrData(size) + 0)
    BY <1>1 DEF EncDecBldr, Rc4, Buffer
  <1> QED BY <1>1, <1>2 DEF a

LEMMA PreldrEncDecBldrAt ==
  ASSUME size \in BiosSizes, NEW mem \in Buffer, NEW k \in Int, NEW o \in 0..(BLDR_BLOCK_SIZE - 1)
  PROVE  PreldrEncDecBldr(mem, k)[BldrData(size) + o] =
           IF o < PreldrOffset \/ o >= ParamsOffset THEN Xor(mem[BldrData(size) + o], k, o)
           ELSE mem[BldrData(size) + o]
  <1> DEFINE b == BldrData(size)
             a == b + o
             p == b + ParamsOffset
             first == Rc4(mem, b, PreldrOffset, k, 0)
  <1>1. /\ b \in Nat /\ b + BLDR_BLOCK_SIZE < size /\ size \in Nat
    BY Layout
  <1>2. /\ a \in 0..(size - 1) /\ a >= b /\ a - b + 0 = o /\ a - p + ParamsOffset = o
        /\ a < b + PreldrOffset <=> o < PreldrOffset
        /\ a >= p <=> o >= ParamsOffset
        /\ a < p + PRELDR_PARAMS_SIZE
        /\ o < PreldrOffset => ~(o >= ParamsOffset)
    BY <1>1, GenuinePlaces
  <1>3. PreldrEncDecBldr(mem, k) = Rc4(first, p, PRELDR_PARAMS_SIZE, k, ParamsOffset)
    BY DEF PreldrEncDecBldr
  <1> HIDE DEF a, p, b
  <1>4. DOMAIN first = 0..(size - 1)
    BY DEF Rc4, Buffer
  <1>5. first[a] = IF a >= b /\ a < b + PreldrOffset THEN Xor(mem[a], k, a - b + 0) ELSE mem[a]
    BY <1>2 DEF Rc4, Buffer
  <1> HIDE DEF first
  <1>6. PreldrEncDecBldr(mem, k)[a] =
          IF a >= p /\ a < p + PRELDR_PARAMS_SIZE THEN Xor(first[a], k, a - p + ParamsOffset)
          ELSE first[a]
    BY <1>2, <1>3, <1>4 DEF Rc4
  <1> QED BY <1>2, <1>5, <1>6 DEF a, b

\* The 2BL is not touched when what changes is in front of it.
LEMMA BldrStays ==
  ASSUME LoadInv, NEW im \in Images, BldrClear(im), pc # "read",
         UNCHANGED <<size, params>>, bldr'.boot_params = bldr.boot_params,
         \A a \in 0..(size - 1) : a >= BldrData(size) => data'[a] = data[a]
  PROVE  BldrClear(im)'
  <1>1. /\ BldrData(size) \in Nat /\ BldrData(size) + BLDR_BLOCK_SIZE < size /\ size \in Nat
    BY Layout DEF LoadInv, TypeOK
  <1>2. bldr.boot_params \in {BootParamsPlace, BootParamsPlace - PRELDR_NONCE_SIZE}
    BY DEF LoadInv, BldrStage
  <1>3. \A o \in Readable(im, params) : o \in 0..(BLDR_BLOCK_SIZE - 1)
    BY GenuinePlaces DEF Readable
  <1>4. \A o \in Readable(im, params) : data'[BldrData(size) + o] = data[BldrData(size) + o]
    <2> SUFFICES ASSUME NEW o \in Readable(im, params)
                 PROVE  data'[BldrData(size) + o] = data[BldrData(size) + o]
      OBVIOUS
    <2>1. o \in 0..(BLDR_BLOCK_SIZE - 1)
      BY <1>3
    <2>2. BldrData(size) + o \in 0..(size - 1) /\ BldrData(size) + o >= BldrData(size)
      BY <1>1, <2>1, GenuinePlaces
    <2> QED BY <2>2
  <1>5. \A i \in 0..(FIELDS_SIZE - 1) : data'[bldr.boot_params + i] = data[bldr.boot_params + i]
    <2> SUFFICES ASSUME NEW i \in 0..(FIELDS_SIZE - 1)
                 PROVE  data'[bldr.boot_params + i] = data[bldr.boot_params + i]
      OBVIOUS
    <2>1. /\ bldr.boot_params + i \in 0..(size - 1) /\ bldr.boot_params + i >= BldrData(size)
      BY <1>1, <1>2, GenuinePlaces DEF BootParamsPlace
    <2> QED BY <2>1
  <1> QED BY <1>4, <1>5 DEF BldrClear, Readable, BootParamsPlace

-----------------------------------------------------------------------------
(* Its steps.                                                              *)

\* An image without an FBL goes on as it is.
LEMMA NotFoundRecovers ==
  ASSUME LoadInv, PreldrNotFound, UNCHANGED file, NEW im \in Images
  PROVE  Recovering(im)'
  <1>1. /\ pc = "preldr" /\ pc' = "bldr" /\ preldr' = "not_found"
        /\ UNCHANGED <<data, size, params, bldr>>
    BY DEF PreldrNotFound
  <1>2. data = file /\ bldr.enc = ~params.enc_bldr /\ bldr.boot_params = BootParamsPlace
    BY <1>1 DEF LoadInv, Unchanged
  <1>3. BootParamsPlace' = BootParamsPlace
    BY <1>1 DEF BootParamsPlace
  <1>4. Meant(im)' => ~im.fbl
    BY <1>1 DEF Meant
  <1> QED BY <1>1, <1>2, <1>3, <1>4 DEF Recovering

\* The FBL of an image is used, with the key its 2BL is encrypted with, and
\* decrypts it in front of the FBL and at the boot parameters.
LEMMA FblDecrypts ==
  ASSUME LoadInv, pc = "preldr", NEW im \in Images, im.fbl, file = Image(im),
         BldrMatches(im, params)
  PROVE  /\ PreldrUsed
         /\ PreldrEncDecBldr(data, PreldrKey) \in Buffer
         /\ \A o \in 0..(BLDR_BLOCK_SIZE - PRELDR_NONCE_SIZE - 1) :
              PreldrEncDecBldr(data, PreldrKey)[BldrData(size) + o] = FblBldr(im)[o + 1]
  <1>1. /\ size = im.size /\ size \in BiosSizes /\ data \in Buffer /\ params \in BIOS_LOAD_PARAMS
        /\ data = Image(im) /\ bldr.enc = ~params.enc_bldr
    BY MeantSize DEF LoadInv, Unchanged
  <1>2. im.bldr_key # NoKey /\ im.bldr_key \in Int /\ im \in IMAGE
    BY GenuineOK
  <1>3. ~params.enc_bldr /\ SbKey = im.bldr_key /\ params.rev # 0
    BY <1>2 DEF BldrMatches, SbKey
  <1>4. PreldrUsed
    BY <1>1, <1>2, <1>3 DEF PreldrUsed
  <1> DEFINE d == DerivedKey(im.bldr_key)
             e == BLDR_BLOCK_SIZE - PRELDR_NONCE_SIZE
  <1>5. \A o \in 0..(BLDR_BLOCK_SIZE - 1) :
          data[BldrData(size) + o] =
            IF o < PreldrOffset \/ (o >= ParamsOffset /\ o < e)
            THEN Xor(FblBldr(im)[o + 1], d, o) ELSE FblBldr(im)[o + 1]
    BY <1>1, ImageOK
  <1>6. d \in Int
    BY GenuineOK
  <1> HIDE DEF d
  <1>7. /\ e \in 0..BLDR_BLOCK_SIZE /\ PreldrOffset < e /\ ParamsOffset < e
        /\ PreldrOffset \in Nat /\ ParamsOffset \in Nat /\ BLDR_BLOCK_SIZE \in Nat
    BY GenuinePlaces
  <1>8. NonceIntact(data)
    <2> SUFFICES ASSUME NEW o \in (BLDR_BLOCK_SIZE - PRELDR_NONCE_SIZE)..(BLDR_BLOCK_SIZE - 1)
                 PROVE  data[BldrData(size) + o] = Clear("nonce", o)
      BY DEF NonceIntact
    <2>1. FblBldr(im)[o + 1] = Clear("nonce", o)
      BY <1>2, FblWords
    <2>2. o \in 0..(BLDR_BLOCK_SIZE - 1) /\ ~(o < PreldrOffset) /\ ~(o < e)
      BY <1>7
    <2> HIDE DEF e
    <2> QED BY <1>5, <2>1, <2>2
  <1>9. PreldrKey = d
    BY <1>3, <1>8 DEF PreldrKey, d
  <1>10. PreldrEncDecBldr(data, d) \in Buffer
    BY <1>1, <1>6, PreldrEncDecBldrOK
  <1>11. ASSUME NEW o \in 0..(e - 1)
         PROVE  PreldrEncDecBldr(data, d)[BldrData(size) + o] = FblBldr(im)[o + 1]
    <2>1. o \in 0..(BLDR_BLOCK_SIZE - 1) /\ o < e /\ o \in Int
      BY <1>7
    <2>2. PreldrEncDecBldr(data, d)[BldrData(size) + o] =
            IF o < PreldrOffset \/ o >= ParamsOffset THEN Xor(data[BldrData(size) + o], d, o)
            ELSE data[BldrData(size) + o]
      BY <1>1, <1>6, <2>1, PreldrEncDecBldrAt
    <2>3. IsClear(FblBldr(im)[o + 1])
      BY <1>2, <2>1, FblWords
    <2>4. Xor(Xor(FblBldr(im)[o + 1], d, o), d, o) = FblBldr(im)[o + 1]
      BY <1>6, <2>1, <2>3, XorTwice
    <2> HIDE DEF e
    <2> QED BY <1>5, <2>1, <2>2, <2>4
  <1> QED BY <1>4, <1>9, <1>10, <1>11

\* So it is neither ignored nor left with an entry offset that is not valid.
LEMMA FblEntry ==
  ASSUME LoadInv, pc = "preldr", NEW im \in Images, im.fbl, file = Image(im),
         BldrMatches(im, params)
  PROVE  PreldrEntry(PreldrEncDecBldr(data, PreldrKey)) = {ENTRY_OFFSET + 2}
  <1> DEFINE c == PreldrEncDecBldr(data, PreldrKey)
             o == PreldrOffset - 2
  <1>1. /\ o \in 0..(BLDR_BLOCK_SIZE - PRELDR_NONCE_SIZE - 1)
        /\ o \in LDR_HEAD_SIZE..(PreldrOffset - 1)
        /\ PreldrData - BLDR_ENTRY_SIZE = BldrData(size) + o
    <2>1. BldrData(size) \in Nat
      BY MeantSize
    <2> QED BY <2>1, GenuinePlaces DEF PreldrData, BLDR_ENTRY_SIZE
  <1>2. im \in IMAGE
    BY GenuineOK
  <1>3. c[BldrData(size) + o] = FblBldr(im)[o + 1]
    BY <1>1, FblDecrypts
  <1>4. FblBldr(im)[o + 1] = PlainBldr(im)[o + 1]
    BY <1>1, <1>2, FblWords
  <1>5. PlainBldr(im)[o + 1] = Word(ENTRY_OFFSET + 2)
    BY <1>2, PlainWords
  <1>6. ENTRY_OFFSET + 2 \in Nat
    BY GenuinePlaces
  <1> HIDE DEF c, o
  <1>7. PreldrEntry(c) = Values(Word(ENTRY_OFFSET + 2))
    BY <1>1, <1>3, <1>4, <1>5 DEF PreldrEntry
  <1> QED BY <1>6, <1>7, NumberOK DEF c

LEMMA FblNotIgnored ==
  ASSUME LoadInv, PreldrIgnored \/ PreldrEntryInvalid, UNCHANGED file, NEW im \in Images
  PROVE  Recovering(im)'
  <1>1. pc = "preldr" /\ preldr' = "found" /\ UNCHANGED <<params, file>>
    BY DEF PreldrIgnored, PreldrEntryInvalid
  <1> SUFFICES ASSUME Meant(im)' PROVE FALSE
    BY DEF Recovering
  <1>2. im.fbl /\ file = Image(im) /\ BldrMatches(im, params)
    <2>1. im.fbl \in BOOLEAN
      BY GenuineOK
    <2> QED BY <1>1, <2>1 DEF Meant, BldrMatches
  <1>3. PreldrUsed /\ PreldrEntry(PreldrEncDecBldr(data, PreldrKey)) = {ENTRY_OFFSET + 2}
    BY <1>1, <1>2, FblDecrypts, FblEntry
  <1>4. ~(ENTRY_OFFSET + 2 > BLDR_BLOCK_SIZE)
    BY GenuinePlaces
  <1> QED BY <1>3, <1>4 DEF PreldrIgnored, PreldrEntryInvalid

\* The entry point is written to the start of the 2BL.
LEMMA RestoreHeadAt ==
  ASSUME size \in BiosSizes, NEW mem \in Buffer, NEW off \in Nat
  PROVE  RestoreHead(mem, off)[BldrData(size)] = Word(off)
  <1> DEFINE a == BldrData(size)
             zeroed == ZeroOut(mem, a, LDR_HEAD_SIZE)
  <1>1. a \in 0..(size - 1) /\ a \in Int
    BY Layout, LayoutAssumption
  <1>2. RestoreHead(mem, off) = CopyIn(zeroed, a, <<Word(off)>>)
    BY DEF RestoreHead
  <1> HIDE DEF a
  <1>3. DOMAIN zeroed = 0..(size - 1)
    BY DEF ZeroOut, Buffer
  <1>4. Len(<<Word(off)>>) = 1 /\ <<Word(off)>>[1] = Word(off) /\ a - a + 1 = 1
    BY <1>1
  <1> HIDE DEF zeroed
  <1>5. CopyIn(zeroed, a, <<Word(off)>>)[a] = <<Word(off)>>[a - a + 1]
    BY <1>1, <1>3, <1>4 DEF CopyIn
  <1> QED BY <1>2, <1>4, <1>5 DEF a

\* The boot parameters arrive where they are moved to.
LEMMA RestoreBootParamsAt ==
  ASSUME size \in BiosSizes, NEW mem \in Buffer, NEW i \in 0..(BOOT_PARAMS_SIZE - 1)
  PROVE  RestoreBootParams(mem)[BldrData(size) + BootParamsOffset + i] =
           mem[BldrData(size) + (BootParamsOffset + i - PRELDR_NONCE_SIZE)]
  <1> DEFINE b == BldrData(size)
             p == b + BootParamsOffset
             q == p - PRELDR_NONCE_SIZE
             a == p + i
             r == b + (BootParamsOffset + i - PRELDR_NONCE_SIZE)
             s == Slice(mem, q, BOOT_PARAMS_SIZE)
             moved == CopyIn(mem, p, s)
  <1>1. b \in Nat /\ b + BLDR_BLOCK_SIZE < size /\ size \in Nat
    BY Layout
  <1>2. /\ a \in 0..(size - 1) /\ a >= p /\ a < p + BOOT_PARAMS_SIZE /\ a - p + 1 = i + 1
        /\ ~(a < q + PRELDR_NONCE_SIZE) /\ i + 1 \in 1..BOOT_PARAMS_SIZE
        /\ q + (i + 1) - 1 = r /\ r \in 0..(size - 1) /\ q \in Int /\ p \in Int
        /\ BOOT_PARAMS_SIZE \in Nat
    BY <1>1, GenuinePlaces
  <1>3. RestoreBootParams(mem) = ZeroOut(moved, q, PRELDR_NONCE_SIZE)
    BY DEF RestoreBootParams
  <1> HIDE DEF a, p, q, r, b
  <1>4. s[i + 1] = mem[r]
    BY <1>2 DEF Slice, Buffer
  <1>5. Len(s) = BOOT_PARAMS_SIZE
    BY <1>2 DEF Slice
  <1> HIDE DEF s
  <1>6. moved[a] = s[i + 1] /\ DOMAIN moved = 0..(size - 1)
    BY <1>2, <1>5 DEF CopyIn, Buffer
  <1> HIDE DEF moved
  <1>7. ZeroOut(moved, q, PRELDR_NONCE_SIZE)[a] = moved[a]
    BY <1>2, <1>6 DEF ZeroOut
  <1>8. RestoreBootParams(mem)[a] = mem[r]
    BY <1>3, <1>4, <1>6, <1>7
  <1> QED BY <1>8 DEF a, p, r, b

\* The FBL leaves a 2BL in the clear, with its entry point, and the boot
\* parameters where the pointer is.
LEMMA FblRecovers ==
  ASSUME LoadInv, PreldrDecrypt, UNCHANGED file, NEW im \in Images
  PROVE  Recovering(im)'
  <1> DEFINE c == PreldrEncDecBldr(data, PreldrKey)
             b == BldrData(size)
             off == ENTRY_OFFSET + 2
             h == RestoreHead(c, off)
             restore == params.restore_boot_params
  <1>1. /\ pc = "preldr" /\ pc' = "bldr" /\ preldr' = "bldr_decrypted"
        /\ UNCHANGED <<size, params, file>>
    BY DEF PreldrDecrypt
  <1> SUFFICES ASSUME Meant(im)' PROVE BldrClear(im)'
    BY <1>1 DEF Recovering, Meant
  <1>2. im.fbl /\ file = Image(im) /\ BldrMatches(im, params)
    <2>1. im.fbl \in BOOLEAN
      BY GenuineOK
    <2> QED BY <1>1, <2>1 DEF Meant, BldrMatches
  <1>3. /\ size = im.size /\ size \in BiosSizes /\ size \in Nat /\ b \in Nat
        /\ b + BLDR_BLOCK_SIZE < size /\ bldr \in BLDR /\ im \in IMAGE
    BY <1>2, MeantSize, GenuineOK
  <1>4. bldr.boot_params = BootParamsPlace
    BY <1>1 DEF LoadInv, Unchanged
  <1>5. /\ c \in Buffer
        /\ \A o \in 0..(BLDR_BLOCK_SIZE - PRELDR_NONCE_SIZE - 1) : c[b + o] = FblBldr(im)[o + 1]
    BY <1>1, <1>2, FblDecrypts
  <1>6. PreldrEntry(c) = {off}
    BY <1>1, <1>2, FblEntry
  <1>7. data' = IF restore THEN RestoreBootParams(h) ELSE h
    BY <1>6 DEF PreldrDecrypt
  <1>8. bldr'.boot_params = IF restore THEN BootParamsPlace ELSE BootParamsPlace - PRELDR_NONCE_SIZE
    BY <1>3, <1>4 DEF PreldrDecrypt, BLDR
  <1>9. off \in Nat
    BY GenuinePlaces
  <1> HIDE DEF c, b, off
  <1>10. /\ h \in Buffer
         /\ \A a \in 0..(size - 1) : a >= b + LDR_HEAD_SIZE => h[a] = c[a]
         /\ h[b] = Word(off)
    BY <1>3, <1>5, <1>9, RestoreHeadOK, RestoreHeadAt DEF b
  <1> HIDE DEF h
  <1>11. ASSUME NEW o \in LDR_HEAD_SIZE..(BLDR_BLOCK_SIZE - PRELDR_NONCE_SIZE - 1)
         PROVE  h[b + o] = FblBldr(im)[o + 1]
    <2>1. /\ b + o \in 0..(size - 1) /\ b + o >= b + LDR_HEAD_SIZE
          /\ o \in 0..(BLDR_BLOCK_SIZE - PRELDR_NONCE_SIZE - 1)
      BY <1>3, GenuinePlaces
    <2> QED BY <1>5, <1>10, <2>1
  <1>12. ASSUME NEW o \in {0} \cup LDR_HEAD_SIZE..(PreldrOffset - 1)
         PROVE  data'[b + o] = PlainBldr(im)[o + 1]
    <2>1. h[b + o] = PlainBldr(im)[o + 1]
      <3>1. CASE o = 0
        <4>1. PlainBldr(im)[0 + 1] = Word(off)
          BY <1>3, PlainWords DEF off
        <4>2. b + 0 = b
          BY <1>3
        <4> QED BY <1>10, <3>1, <4>1, <4>2
      <3>2. CASE o \in LDR_HEAD_SIZE..(PreldrOffset - 1)
        <4>1. o \in LDR_HEAD_SIZE..(BLDR_BLOCK_SIZE - PRELDR_NONCE_SIZE - 1)
          BY <3>2, GenuinePlaces
        <4>2. FblBldr(im)[o + 1] = PlainBldr(im)[o + 1]
          BY <1>3, <3>2, FblWords
        <4> QED BY <1>11, <4>1, <4>2
      <3> QED BY <3>1, <3>2
    <2>2. b + o \in 0..(size - 1) /\ b + o < b + ParamsOffset
      BY <1>3, GenuinePlaces
    <2>3. RestoreBootParams(h)[b + o] = h[b + o]
      BY <1>3, <1>10, <2>2, RestoreBootParamsOK DEF b
    <2> QED BY <1>7, <2>1, <2>3
  <1>13. ASSUME NEW i \in 0..(BOOT_PARAMS_SIZE - 1)
         PROVE  h[b + (BootParamsOffset + i - PRELDR_NONCE_SIZE)] = PlainBldr(im)[BootParamsOffset + i + 1]
    <2> DEFINE o == BootParamsOffset + i
               q == o - PRELDR_NONCE_SIZE
    <2>1. /\ o \in BootParamsOffset..(BLDR_BLOCK_SIZE - 1)
          /\ q \in LDR_HEAD_SIZE..(BLDR_BLOCK_SIZE - PRELDR_NONCE_SIZE - 1)
      BY GenuinePlaces
    <2>2. FblBldr(im)[q + 1] = PlainBldr(im)[o + 1]
      BY <1>3, <2>1, FblWords
    <2>3. h[b + q] = FblBldr(im)[q + 1]
      BY <1>11, <2>1
    <2>4. q = BootParamsOffset + i - PRELDR_NONCE_SIZE
      BY GenuinePlaces
    <2> HIDE DEF q
    <2> QED BY <2>2, <2>3, <2>4
  <1>14. ASSUME NEW i \in 0..(BOOT_PARAMS_SIZE - 1), restore
         PROVE  data'[b + BootParamsOffset + i] = PlainBldr(im)[BootParamsOffset + i + 1]
    <2>1. RestoreBootParams(h)[b + BootParamsOffset + i] =
            h[b + (BootParamsOffset + i - PRELDR_NONCE_SIZE)]
      BY <1>3, <1>10, RestoreBootParamsAt DEF b
    <2> QED BY <1>7, <1>13, <1>14, <2>1
  <1>15. ASSUME NEW o \in Readable(im, params)
         PROVE  data'[b + o] = PlainBldr(im)[o + 1]
    <2>1. CASE o \in {0} \cup LDR_HEAD_SIZE..(PreldrOffset - 1)
      BY <1>12, <2>1
    <2>2. CASE o \notin {0} \cup LDR_HEAD_SIZE..(PreldrOffset - 1)
      <3>1. restore /\ o \in BootParamsOffset..(BLDR_BLOCK_SIZE - 1)
        BY <1>2, <2>2 DEF Readable
      <3> DEFINE i == o - BootParamsOffset
      <3>2. /\ i \in 0..(BOOT_PARAMS_SIZE - 1) /\ BootParamsOffset + i = o
            /\ b + BootParamsOffset + i = b + o
        BY <1>3, <3>1, GenuinePlaces
      <3> HIDE DEF i
      <3> QED BY <1>14, <3>1, <3>2
    <2> QED BY <2>1, <2>2
  <1>16. ASSUME NEW i \in 0..(FIELDS_SIZE - 1)
         PROVE  data'[bldr'.boot_params + i] = PlainBldr(im)[BootParamsOffset + i + 1]
    <2>1. i \in 0..(BOOT_PARAMS_SIZE - 1)
      BY GenuinePlaces
    <2>2. CASE restore
      BY <1>8, <1>14, <2>1, <2>2 DEF BootParamsPlace, b
    <2>3. CASE ~restore
      <3>1. bldr'.boot_params + i = b + (BootParamsOffset + i - PRELDR_NONCE_SIZE)
        BY <1>3, <1>8, <2>3, GenuinePlaces DEF BootParamsPlace, b
      <3> QED BY <1>7, <1>13, <2>1, <2>3, <3>1
    <2> QED BY <2>2, <2>3
  <1>17. restore => bldr'.boot_params = BootParamsPlace
    BY <1>8
  <1> QED BY <1>1, <1>15, <1>16, <1>17 DEF BldrClear, Readable, BootParamsPlace, b

\* load decrypts a 2BL without an FBL, if it is encrypted; all of it is clear.
LEMMA BldrRecovers ==
  ASSUME LoadInv, DecryptBldr \/ KeepBldr, UNCHANGED file, NEW im \in Images, Recovering(im)
  PROVE  Recovering(im)'
  <1>1. /\ pc = "bldr" /\ pc' = "validate" /\ UNCHANGED <<size, params, preldr, file>>
        /\ bldr'.boot_params = bldr.boot_params
    BY DEF DecryptBldr, KeepBldr, LoadInv, TypeOK, BLDR
  <1> SUFFICES ASSUME Meant(im)' PROVE BldrClear(im)'
    BY <1>1 DEF Recovering, Meant
  <1>2. Meant(im)
    BY <1>1 DEF Meant, BldrMatches, KernelMatches
  <1>3. /\ size = im.size /\ size \in BiosSizes /\ size \in Nat /\ BldrData(size) \in Nat
        /\ BldrData(size) + BLDR_BLOCK_SIZE < size /\ data \in Buffer
        /\ params \in BIOS_LOAD_PARAMS /\ im \in IMAGE /\ file = Image(im)
    BY <1>2, MeantSize, GenuineOK DEF Meant
  <1>4. CASE im.fbl
    <2>1. preldr = "bldr_decrypted" /\ BldrClear(im)
      BY <1>1, <1>2, <1>4 DEF Recovering
    <2>2. UNCHANGED data
      BY <2>1 DEF DecryptBldr, KeepBldr, LoadDecryptsBldr
    <2> QED BY <1>1, <2>1, <2>2, BldrStays
  <1>5. CASE ~im.fbl
    <2>1. /\ data = file /\ bldr.enc = ~params.enc_bldr /\ bldr.boot_params = BootParamsPlace
          /\ preldr = "not_found"
      BY <1>1, <1>2, <1>5 DEF Recovering, Meant
    <2>2. SbKey \in Int
      BY <1>3, KeysOK
    <2>3. ASSUME NEW o \in 0..(BLDR_BLOCK_SIZE - 1)
          PROVE  data'[BldrData(size) + o] = PlainBldr(im)[o + 1]
      <3>1. data[BldrData(size) + o] =
              IF im.bldr_key = NoKey THEN PlainBldr(im)[o + 1]
              ELSE Xor(PlainBldr(im)[o + 1], im.bldr_key, o)
        BY <1>3, <1>5, <2>1, ImageOK
      <3>2. CASE im.bldr_key = NoKey
        <4>1. ~LoadDecryptsBldr
          BY <1>2, <2>1, <3>2 DEF Meant, BldrMatches, LoadDecryptsBldr, SbKey
        <4>2. UNCHANGED data
          BY <4>1 DEF DecryptBldr, KeepBldr
        <4> QED BY <3>1, <3>2, <4>2
      <3>3. CASE im.bldr_key # NoKey
        <4>1. ~params.enc_bldr /\ SbKey = im.bldr_key
          BY <1>2, <3>3 DEF Meant, BldrMatches, SbKey
        <4>2. data' = EncDecBldr(data, SbKey)
          BY <2>1, <3>3, <4>1 DEF DecryptBldr, KeepBldr, LoadDecryptsBldr
        <4>3. data'[BldrData(size) + o] = Xor(data[BldrData(size) + o], SbKey, o)
          BY <1>3, <2>2, <4>2, EncDecBldrAt
        <4>4. IsClear(PlainBldr(im)[o + 1])
          BY <1>3, PlainWords
        <4>5. Xor(Xor(PlainBldr(im)[o + 1], SbKey, o), SbKey, o) = PlainBldr(im)[o + 1]
          BY <2>2, <4>4, XorTwice
        <4> QED BY <3>1, <3>3, <4>1, <4>3, <4>5
      <3> QED BY <3>2, <3>3
    <2>4. \A o \in Readable(im, params) : o \in 0..(BLDR_BLOCK_SIZE - 1)
      BY <1>5 DEF Readable
    <2>5. \A i \in 0..(FIELDS_SIZE - 1) :
            /\ BootParamsOffset + i \in 0..(BLDR_BLOCK_SIZE - 1)
            /\ bldr.boot_params + i = BldrData(size) + (BootParamsOffset + i)
      BY <1>3, <2>1, GenuinePlaces DEF BootParamsPlace
    <2> QED BY <1>1, <2>1, <2>3, <2>4, <2>5 DEF BldrClear, Readable, BootParamsPlace
  <1> QED BY <1>4, <1>5

\* The boot parameters of a 2BL in the clear are read as the sizes of the image.
LEMMA ParamsRead ==
  ASSUME LoadInv, pc = "validate", NEW im \in Images, Meant(im), BldrClear(im)
  PROVE  /\ BootParamsAt(data, bldr.boot_params) = {[kd |-> im.kd, it |-> im.it, ks |-> im.ks]}
         /\ ValidBootParams([kd |-> im.kd, it |-> im.it, ks |-> im.ks])
  <1> DEFINE ptr == bldr.boot_params
  <1>1. /\ size = im.size /\ size \in Nat /\ BldrData(size) \in Nat
        /\ BldrData(size) + BLDR_BLOCK_SIZE < size /\ BLDR_BLOCK_SIZE \in Nat
    BY MeantSize, GenuinePlaces DEF Meant
  <1>2. /\ im \in IMAGE /\ im.kd \in Nat /\ im.it \in Nat /\ im.ks \in Nat
        /\ im.it + im.ks + im.kd <= BldrData(size)
    BY <1>1, GenuineOK
  <1>3. ptr \in Int
    BY DEF LoadInv, TypeOK, BLDR
  <1>4. /\ data[ptr + 0] = PlainBldr(im)[BootParamsOffset + 0 + 1]
        /\ data[ptr + 1] = PlainBldr(im)[BootParamsOffset + 1 + 1]
        /\ data[ptr + 3] = PlainBldr(im)[BootParamsOffset + 3 + 1]
    <2>1. 0 \in 0..(FIELDS_SIZE - 1) /\ 1 \in 0..(FIELDS_SIZE - 1) /\ 3 \in 0..(FIELDS_SIZE - 1)
      BY DEF FIELDS_SIZE
    <2> QED BY <2>1, Zenon DEF BldrClear
  <1>5. ptr + 0 = ptr /\ BootParamsOffset + 0 + 1 = BootParamsOffset + 1
    BY <1>3, GenuinePlaces
  <1> HIDE DEF ptr
  <1>6. /\ data[ptr] = Word(im.kd) /\ data[ptr + 1] = Word(im.it) /\ data[ptr + 3] = Word(im.ks)
    BY <1>2, <1>4, <1>5, PlainWords
  <1>7. /\ Values(data[ptr]) = {im.kd} /\ Values(data[ptr + 1]) = {im.it}
        /\ Values(data[ptr + 3]) = {im.ks}
    BY <1>2, <1>6, NumberOK
  <1>8. BootParamsAt(data, ptr) = {[kd |-> im.kd, it |-> im.it, ks |-> im.ks]}
    <2> DEFINE kd == im.kd
               it == im.it
               ks == im.ks
    <2>1. Values(data[ptr]) = {kd} /\ Values(data[ptr + 1]) = {it} /\ Values(data[ptr + 3]) = {ks}
      BY <1>7
    <2> HIDE DEF kd, it, ks
    <2>2. BootParamsAt(data, ptr) = {[kd |-> kd, it |-> it, ks |-> ks]}
      BY <1>3, <2>1, BootParamsRead
    <2> QED BY <2>2 DEF kd, it, ks
  <1>9. im.ks <= size /\ im.kd <= size /\ im.it <= size
    BY <1>1, <1>2
  <1> QED BY <1>8, <1>9 DEF ValidBootParams, ptr

\* So they are valid, and the entry point leads to the keys.
LEMMA ValidateRecovers ==
  ASSUME LoadInv, ValidateBldr \/ InvalidBldr, UNCHANGED file, NEW im \in Images, Recovering(im)
  PROVE  Recovering(im)'
  <1>1. pc = "validate" /\ UNCHANGED <<data, size, params, preldr, file>>
    BY DEF ValidateBldr, InvalidBldr
  <1> SUFFICES ASSUME Meant(im)' PROVE Recovering(im)'
    BY DEF Recovering
  <1>2. Meant(im)
    BY <1>1 DEF Meant, BldrMatches, KernelMatches
  <1>3. BldrClear(im)
    BY <1>1, <1>2 DEF Recovering
  <1>4. /\ BootParamsAt(data, bldr.boot_params) = {[kd |-> im.kd, it |-> im.it, ks |-> im.ks]}
        /\ ValidBootParams([kd |-> im.kd, it |-> im.it, ks |-> im.ks])
    BY <1>1, <1>2, <1>3, ParamsRead
  <1> DEFINE b == [kd |-> im.kd, it |-> im.it, ks |-> im.ks]
             base == BldrData(size)
  <1>5. /\ pc' = "kernel" /\ bp' = b /\ GetOffsets2(data, b, bldr.boot_params)
    BY <1>4 DEF ValidateBldr, InvalidBldr
  <1>6. b.kd = im.kd /\ b.ks = im.ks
    OBVIOUS
  <1> HIDE DEF b
  <1>7. /\ size = im.size /\ size \in Nat /\ base \in Nat /\ base + BLDR_BLOCK_SIZE < size
        /\ bldr \in BLDR /\ kernel \in KERNEL /\ im \in IMAGE /\ im.fbl \in BOOLEAN
    BY <1>2, MeantSize, GenuineOK DEF Meant
  <1>8. /\ data[base + 0] = PlainBldr(im)[0 + 1]
        /\ data[base + ENTRY_OFFSET] = PlainBldr(im)[ENTRY_OFFSET + 1]
    <2>1. 0 \in Readable(im, params) /\ ENTRY_OFFSET \in Readable(im, params)
      BY <1>7, GenuinePlaces DEF Readable
    <2> QED BY <1>3, <2>1, Zenon DEF BldrClear
  <1>9. /\ base + 0 = base /\ 0 + 1 = 1 /\ ENTRY_OFFSET + 2 \in Nat /\ KEYS_OFFSET \in Nat
        /\ base + (ENTRY_OFFSET + 2) - BLDR_ENTRY_SIZE = base + ENTRY_OFFSET
        /\ EntryInBounds(ENTRY_OFFSET + 2)
        /\ InBounds(KEYS_OFFSET, BLDR_KEYS_SIZE, BLDR_BLOCK_SIZE)
    BY <1>7, GenuinePlaces DEF EntryInBounds, InBounds, BLDR_ENTRY_SIZE, BLDR_KEYS_SIZE
  <1>10. /\ Values(data[base]) = {ENTRY_OFFSET + 2}
         /\ Values(data[base + (ENTRY_OFFSET + 2) - BLDR_ENTRY_SIZE]) = {KEYS_OFFSET}
    <2>1. data[base] = Word(ENTRY_OFFSET + 2) /\ data[base + ENTRY_OFFSET] = Word(KEYS_OFFSET)
      BY <1>7, <1>8, <1>9, PlainWords
    <2> QED BY <1>9, <2>1, NumberOK
  <1>11. /\ bldr'.keys = base + KEYS_OFFSET /\ bldr'.boot_params = bldr.boot_params
         /\ kernel'.uncompressed = base - im.kd /\ kernel'.compressed = base - im.kd - im.ks
    <2>1. PICK ep \in Values(data[base]) :
            \E ko \in IF EntryInBounds(ep) THEN Values(data[base + ep - BLDR_ENTRY_SIZE]) ELSE {0} :
              /\ bldr' = [bldr EXCEPT
                   !.boot_params = bldr.boot_params,
                   !.keys = IF EntryInBounds(ep) /\ InBounds(ko, BLDR_KEYS_SIZE, BLDR_BLOCK_SIZE)
                            THEN base + ko ELSE NULL,
                   !.bfm_key = IF EntryInBounds(ep) /\ InBounds(ko - 1, 1, BLDR_BLOCK_SIZE)
                               THEN base + ko - 1 ELSE NULL]
              /\ kernel' = [kernel EXCEPT !.uncompressed = base - b.kd,
                                          !.compressed = base - b.kd - b.ks]
      BY <1>5 DEF GetOffsets2
    <2>2. ep = ENTRY_OFFSET + 2
      BY <1>10, <2>1
    <2>3. PICK ko \in {KEYS_OFFSET} :
            /\ bldr' = [bldr EXCEPT
                 !.boot_params = bldr.boot_params,
                 !.keys = IF EntryInBounds(ep) /\ InBounds(ko, BLDR_KEYS_SIZE, BLDR_BLOCK_SIZE)
                          THEN base + ko ELSE NULL,
                 !.bfm_key = IF EntryInBounds(ep) /\ InBounds(ko - 1, 1, BLDR_BLOCK_SIZE)
                             THEN base + ko - 1 ELSE NULL]
            /\ kernel' = [kernel EXCEPT !.uncompressed = base - b.kd,
                                        !.compressed = base - b.kd - b.ks]
      BY <1>9, <1>10, <2>1, <2>2
    <2>4. bldr'.keys = base + KEYS_OFFSET /\ bldr'.boot_params = bldr.boot_params
      <3>1. EntryInBounds(ep) /\ InBounds(ko, BLDR_KEYS_SIZE, BLDR_BLOCK_SIZE) /\ ko = KEYS_OFFSET
        BY <1>9, <2>2, <2>3
      <3> QED BY <1>7, <2>3, <3>1 DEF BLDR
    <2>5. kernel'.uncompressed = base - im.kd /\ kernel'.compressed = base - im.kd - im.ks
      BY <1>6, <1>7, <2>3 DEF KERNEL
    <2> QED BY <2>4, <2>5
  <1>12. BldrClear(im)'
    BY <1>1, <1>3, <1>11, BldrStays
  <1>13. Found(im)'
    BY <1>1, <1>5, <1>11 DEF Found, b
  <1> QED BY <1>5, <1>12, <1>13 DEF Recovering

\* The kernel's key is the one it is encrypted with, if it is, and none if not.
LEMMA KernelKeyFits ==
  ASSUME LoadInv, NEW im \in Images, Meant(im), BldrClear(im), Found(im)
  PROVE  IF im.kernel_key = NoKey THEN params.enc_kernel \/ KernelKey = NoKey
         ELSE ~params.enc_kernel /\ KernelKey = im.kernel_key
  <1>1. /\ size = im.size /\ BldrData(size) \in Nat /\ im \in IMAGE /\ im.fbl \in BOOLEAN
        /\ bldr.keys = BldrData(size) + KEYS_OFFSET /\ KernelMatches(im, params)
    BY MeantSize, GenuineOK DEF Meant, Found
  <1>2. /\ bldr.keys # NULL /\ bldr.keys + 2 = BldrData(size) + (KEYS_OFFSET + 2)
        /\ KEYS_OFFSET + 2 \in Readable(im, params)
    <2>1. size \in BiosSizes
      BY DEF LoadInv, TypeOK
    <2>2. NULL \in Int /\ NULL < 0
      BY <2>1, Layout
    <2>3. bldr.keys # NULL /\ bldr.keys + 2 = BldrData(size) + (KEYS_OFFSET + 2)
      BY <1>1, <2>2, GenuinePlaces
    <2> QED BY <1>1, <2>3, GenuinePlaces DEF Readable
  <1>3. data[bldr.keys + 2] = Word(im.bldr_kernel_key)
    <2>1. data[BldrData(size) + (KEYS_OFFSET + 2)] = PlainBldr(im)[(KEYS_OFFSET + 2) + 1]
      BY <1>2, Zenon DEF BldrClear
    <2>2. PlainBldr(im)[(KEYS_OFFSET + 2) + 1] = Word(im.bldr_kernel_key)
      BY <1>1, PlainWords
    <2> QED BY <1>2, <2>1, <2>2
  <1>4. KeyOf(data[bldr.keys + 2]) = im.bldr_kernel_key
    BY <1>3 DEF KeyOf, Word, Clear
  <1>5. KernelKey = IF params.kernel_key # NoKey THEN params.kernel_key
                    ELSE IF im.bldr_kernel_key \in {0, ONES} THEN NoKey ELSE im.bldr_kernel_key
    BY <1>2, <1>4 DEF KernelKey
  <1> QED BY <1>1, <1>5 DEF KernelMatches

\* The kernel is decrypted if and only if it is encrypted.
LEMMA KernelRecovers ==
  ASSUME LoadInv, DecryptKernel \/ KeepKernel, UNCHANGED file, NEW im \in Images, Recovering(im)
  PROVE  Recovering(im)'
  <1>1. /\ pc = "kernel" /\ pc' = "loaded" /\ bios_status' = "success"
        /\ UNCHANGED <<size, params, bldr, preldr, bp, file>>
    BY DEF DecryptKernel, KeepKernel
  <1> SUFFICES ASSUME Meant(im)' PROVE Recovering(im)'
    BY DEF Recovering
  <1>2. Meant(im)
    BY <1>1 DEF Meant, BldrMatches, KernelMatches
  <1>3. BldrClear(im) /\ Found(im)
    BY <1>1, <1>2 DEF Recovering
  <1>4. /\ size = im.size /\ size \in Nat /\ BldrData(size) \in Nat /\ kernel \in KERNEL
        /\ BldrData(size) + BLDR_BLOCK_SIZE < size /\ BLDR_BLOCK_SIZE \in Nat /\ data \in Buffer
        /\ im.kd \in Nat /\ im.ks \in Nat /\ im.it \in Nat
        /\ im.it + im.ks + im.kd <= BldrData(size) /\ params \in BIOS_LOAD_PARAMS
    BY <1>2, MeantSize, GenuineOK, GenuinePlaces DEF Meant
  <1>5. /\ kernel.compressed = BldrData(size) - im.kd - im.ks /\ bp.ks = im.ks
        /\ kernel.enc = ~params.enc_kernel
    BY <1>1, <1>3 DEF Found, LoadInv, KernelStage
  <1>6. InBounds(kernel.compressed, bp.ks, size)
    BY <1>4, <1>5 DEF InBounds
  <1>7. IF im.kernel_key = NoKey THEN params.enc_kernel \/ KernelKey = NoKey
        ELSE ~params.enc_kernel /\ KernelKey = im.kernel_key
    BY <1>1, <1>2, <1>3, KernelKeyFits
  <1>8. /\ kernel'.compressed = kernel.compressed /\ kernel'.uncompressed = kernel.uncompressed
        /\ kernel'.enc = (im.kernel_key = NoKey /\ ~params.enc_kernel)
    <2>1. params.enc_kernel \in BOOLEAN
      BY <1>4 DEF BIOS_LOAD_PARAMS
    <2>2. CASE DecryptKernel
      <3>1. kernel' = [kernel EXCEPT !.enc = FALSE] /\ kernel.enc /\ KernelKey # NoKey
        BY <2>2 DEF DecryptKernel, KernelToggles
      <3>2. im.kernel_key # NoKey
        BY <1>5, <1>7, <3>1
      <3> QED BY <1>4, <3>1, <3>2 DEF KERNEL
    <2>3. CASE KeepKernel
      <3>1. kernel' = kernel /\ ~(kernel.enc /\ KernelKey # NoKey)
        BY <1>6, <2>3 DEF KeepKernel, KernelToggles
      <3>2. im.kernel_key = NoKey
        BY <1>5, <1>7, <3>1
      <3> QED BY <1>5, <2>1, <3>1, <3>2
    <2> QED BY <2>2, <2>3
  <1>9. \A a \in 0..(size - 1) : a >= BldrData(size) => data'[a] = data[a]
    <2>1. CASE DecryptKernel
      <3> DEFINE first == kernel.compressed
      <3>1. data' = Rc4(data, first, bp.ks, KernelKey, 0)
        BY <2>1 DEF DecryptKernel, EncDecKernel
      <3>2. \A a \in 0..(size - 1) : a >= BldrData(size) => ~(a < first + bp.ks)
        BY <1>4, <1>5
      <3> HIDE DEF first
      <3> QED BY <1>4, <3>1, <3>2 DEF Rc4, Buffer
    <2>2. CASE KeepKernel
      BY <2>2 DEF KeepKernel
    <2> QED BY <1>1, <2>1, <2>2
  <1>10. BldrClear(im)'
    BY <1>1, <1>3, <1>9, BldrStays
  <1>11. Found(im)'
    BY <1>1, <1>3, <1>8 DEF Found
  <1> QED BY <1>1, <1>8, <1>10, <1>11 DEF Recovering

\* Every step of load, and its beginning.
LEMMA RecoveringStep ==
  ASSUME LoadInv, LoadStep, UNCHANGED file, NEW im \in Images, Recovering(im)
  PROVE  Recovering(im)'
BY NotFoundRecovers, FblNotIgnored, FblRecovers, BldrRecovers, ValidateRecovers, KernelRecovers
   DEF LoadStep

LEMMA RecoveringBegin ==
  ASSUME NEW n, NEW p, NEW f, LoadBegin(f, n, p), NEW im \in Images
  PROVE  Recovering(im)'
BY DEF LoadBegin, Recovering

-----------------------------------------------------------------------------
(* What load and -extr give back.                                          *)

\* What a loaded image holds below the 2BL.
LEMMA PartsRecovered ==
  ASSUME LoadInv, pc = "loaded", NEW im \in Images, Meant(im), Recovering(im)
  PROVE  /\ \A i \in 1..im.ks : data[kernel.compressed + i - 1] = Kernel(im)[i]
         /\ \A i \in 1..im.kd : data[kernel.uncompressed + i - 1] = KernelData(im)[i]
         /\ \A i \in 1..im.it : data[0 + i - 1] = InitTbl(im)[i]
         /\ kernel.compressed >= 0 /\ kernel.compressed + im.ks <= BldrData(size)
         /\ kernel.uncompressed >= 0 /\ kernel.uncompressed + im.kd <= BldrData(size)
         /\ kernel.compressed \in Int /\ kernel.uncompressed \in Int
  <1> DEFINE b == BldrData(size)
             c == kernel.compressed
             u == kernel.uncompressed
  <1>1. /\ size = im.size /\ size \in Nat /\ b \in Nat /\ b + BLDR_BLOCK_SIZE < size
        /\ BLDR_BLOCK_SIZE \in Nat /\ im.kd \in Nat /\ im.ks \in Nat /\ im.it \in Nat
        /\ im.it + im.ks + im.kd <= b /\ data \in Buffer /\ file = Image(im)
        /\ im.kernel_key \in Int /\ params \in BIOS_LOAD_PARAMS /\ NULL < 0 /\ NULL \in Int
    BY MeantSize, GenuineOK, GenuinePlaces, Layout DEF Meant
  <1>2. /\ c = b - im.kd - im.ks /\ u = b - im.kd /\ bp.ks = im.ks
        /\ kernel.enc = (im.kernel_key = NoKey /\ ~params.enc_kernel)
        /\ BldrClear(im) /\ Found(im)
    BY DEF Recovering, Found
  <1>3. /\ c \in Int /\ u \in Int /\ c >= 0 /\ u >= 0 /\ c + im.ks = u /\ u + im.kd = b /\ im.it <= c
        /\ KernelPlace(im) = c /\ BldrData(im.size) - im.kd = u /\ c # NULL
    BY <1>1, <1>2 DEF KernelPlace
  <1> HIDE DEF b, c, u
  <1>4. /\ \A a \in 0..(size - 1) : a < b /\ ~(a >= c /\ a < c + im.ks) => data[a] = file[a]
        /\ \A a \in 0..(size - 1) : a >= c /\ a < c + im.ks =>
             data[a] = IF kernel.enc = ~params.enc_kernel THEN file[a]
                       ELSE Xor(file[a], KernelKey, a - c)
    <2>1. \A a : InKernel(a) <=> a >= c /\ a < c + im.ks
      BY <1>2, <1>3 DEF InKernel, c
    <2>2. DOMAIN data = 0..(size - 1)
      BY <1>1 DEF Buffer
    <2> QED BY <2>1, <2>2 DEF LoadInv, KernelLayer, b, c
  <1>5. ASSUME NEW i \in 1..im.ks PROVE data[c + i - 1] = Kernel(im)[i]
    <2> DEFINE a == c + i - 1
    <2>1. a \in 0..(size - 1) /\ a >= c /\ a < c + im.ks /\ a - c = i - 1 /\ i - 1 \in Int
      BY <1>1, <1>3
    <2>2. file[a] = IF im.kernel_key = NoKey THEN Kernel(im)[i]
                    ELSE Xor(Kernel(im)[i], im.kernel_key, i - 1)
      BY <1>1, <1>3, ImageParts
    <2> HIDE DEF a
    <2>3. params.enc_kernel \in BOOLEAN
      BY <1>1 DEF BIOS_LOAD_PARAMS
    <2>4. CASE im.kernel_key = NoKey
      <3>1. kernel.enc = ~params.enc_kernel
        BY <1>2, <2>3, <2>4
      <3> QED BY <1>4, <2>1, <2>2, <2>4, <3>1 DEF a
    <2>5. CASE im.kernel_key # NoKey
      <3>1. kernel.enc = FALSE /\ ~params.enc_kernel /\ KernelKey = im.kernel_key
        BY <1>2, <2>5, KernelKeyFits
      <3>2. data[a] = Xor(Xor(Kernel(im)[i], im.kernel_key, i - 1), im.kernel_key, i - 1)
        BY <1>4, <2>1, <2>2, <2>5, <3>1
      <3>3. IsClear(Kernel(im)[i])
        BY PartsOK
      <3> QED BY <1>1, <2>1, <3>2, <3>3, XorTwice DEF a
    <2> QED BY <2>4, <2>5
  <1>6. ASSUME NEW i \in 1..im.kd PROVE data[u + i - 1] = KernelData(im)[i]
    <2> DEFINE a == u + i - 1
    <2>1. a \in 0..(size - 1) /\ a < b /\ ~(a < c + im.ks)
      BY <1>1, <1>3
    <2>2. file[a] = KernelData(im)[i]
      BY <1>1, <1>3, ImageParts
    <2> HIDE DEF a
    <2> QED BY <1>4, <2>1, <2>2 DEF a
  <1>7. ASSUME NEW i \in 1..im.it PROVE data[0 + i - 1] = InitTbl(im)[i]
    <2> DEFINE a == 0 + i - 1
    <2>1. a \in 0..(size - 1) /\ a < b /\ ~(a >= c)
      BY <1>1, <1>3
    <2>2. file[a] = InitTbl(im)[i]
      BY <1>1, ImageParts
    <2> HIDE DEF a
    <2> QED BY <1>4, <2>1, <2>2 DEF a
  <1>8. c + im.ks <= b /\ u + im.kd <= b
    BY <1>1, <1>3
  <1> QED BY <1>3, <1>5, <1>6, <1>7, <1>8 DEF c, u, b

\* Below the 2BL and behind its FBL block nothing is cleaned.
LEMMA CleanBldrAt ==
  ASSUME size \in BiosSizes, NEW mem \in Buffer, NEW a \in 0..(size - 1),
         a < PreldrData \/ a >= BootParamsPlace
  PROVE  CleanBldr(mem)[a] = mem[a]
  <1> DEFINE p == PreldrData
             g == p + PRELDR_SIZE
             t == g + ROM_DIGEST_SIZE
             len == PRELDR_PARAMS_SIZE - BOOT_PARAMS_SIZE
             d == ZeroOut(mem, g, ROM_DIGEST_SIZE)
             e == ZeroOut(d, p, PRELDR_SIZE)
             c == ZeroOut(e, t, len)
  <1>1. /\ ~(a >= g /\ a < g + ROM_DIGEST_SIZE) /\ ~(a >= p /\ a < p + PRELDR_SIZE)
        /\ ~(a >= t /\ a < t + len)
    <2>1. BldrData(size) \in Nat /\ a \in Int
      BY Layout
    <2>2. /\ p = BldrData(size) + PreldrOffset /\ t = BldrData(size) + ParamsOffset
          /\ t + len = BootParamsPlace
      BY <2>1, GenuinePlaces DEF PreldrData, BootParamsPlace
    <2>3. /\ p \in Int /\ PRELDR_SIZE \in Nat /\ ROM_DIGEST_SIZE \in Nat /\ g = p + PRELDR_SIZE
          /\ t = g + ROM_DIGEST_SIZE /\ t <= BootParamsPlace /\ BootParamsPlace \in Int
      BY <2>1, <2>2, GenuinePlaces DEF BootParamsPlace
    <2> HIDE DEF p, g, t, len
    <2>4. a < p \/ a >= BootParamsPlace
      BY DEF p
    <2> QED BY <2>1, <2>2, <2>3, <2>4
  <1>2. CleanBldr(mem) = IF PreldrFound THEN c ELSE d
    BY DEF CleanBldr
  <1> HIDE DEF p, g, t, len
  <1>3. d[a] = mem[a] /\ DOMAIN d = 0..(size - 1)
    BY <1>1 DEF ZeroOut, Buffer
  <1> HIDE DEF d
  <1>4. e[a] = d[a] /\ DOMAIN e = 0..(size - 1)
    BY <1>1, <1>3 DEF ZeroOut
  <1> HIDE DEF e
  <1>5. c[a] = e[a]
    BY <1>1, <1>4 DEF ZeroOut
  <1> HIDE DEF c
  <1> QED BY <1>2, <1>3, <1>4, <1>5

\* The sizes are read again as they were, from boot parameters that are kept.
LEMMA RereadOK ==
  ASSUME LoadInv, pc = "loaded", NEW im \in Images, Meant(im), Recovering(im),
         params.restore_boot_params
  PROVE  /\ Reread(CleanBldr(data), 0, bp.kd) = im.kd
         /\ Reread(CleanBldr(data), 1, bp.it) = im.it
         /\ Reread(CleanBldr(data), 3, bp.ks) = im.ks
  <1> DEFINE mem == CleanBldr(data)
             ptr == bldr.boot_params
  <1>1. /\ size \in BiosSizes /\ size \in Nat /\ data \in Buffer /\ BldrData(size) \in Nat
        /\ BldrData(size) + BLDR_BLOCK_SIZE < size
    BY MeantSize DEF Meant
  <1>2. BldrClear(im) /\ Found(im) /\ ptr = BootParamsPlace
    BY DEF Recovering, BldrClear
  <1>3. im \in IMAGE /\ bp.kd = im.kd /\ bp.it = im.it /\ bp.ks = im.ks
    BY <1>2, GenuineOK DEF Found
  <1>4. ASSUME NEW i \in {0, 1, 3}
        PROVE  mem[ptr + i] = PlainBldr(im)[BootParamsOffset + i + 1]
    <2>1. /\ i \in 0..(FIELDS_SIZE - 1) /\ ptr + i \in 0..(size - 1)
          /\ ptr + i < PreldrData \/ ptr + i >= BootParamsPlace
      BY <1>1, <1>2, GenuinePlaces DEF BootParamsPlace
    <2>2. data[ptr + i] = PlainBldr(im)[BootParamsOffset + i + 1]
      BY <1>2, <2>1 DEF BldrClear
    <2>3. mem[ptr + i] = data[ptr + i]
      BY <1>1, <2>1, CleanBldrAt
    <2> QED BY <2>2, <2>3
  <1>5. /\ mem[ptr + 0] = Word(im.kd) /\ mem[ptr + 1] = Word(im.it) /\ mem[ptr + 3] = Word(im.ks)
    <2>1. BootParamsOffset + 0 + 1 = BootParamsOffset + 1
      BY GenuinePlaces
    <2> HIDE DEF mem, ptr
    <2>2. mem[ptr + 0] = PlainBldr(im)[BootParamsOffset + 1]
      BY <1>4, <2>1
    <2> QED BY <1>3, <1>4, <2>2, PlainWords
  <1>6. \A v : Word(v) = Zero => v = 0
    BY DEF Word, Zero, Clear
  <1> HIDE DEF mem, ptr
  <1> QED BY <1>3, <1>5, <1>6 DEF Reread, mem, ptr

\* A slice of what was not cleaned is what the image has there.
LEMMA SliceCleaned ==
  ASSUME size \in BiosSizes, data \in Buffer, NEW first \in Int, NEW f \in Seq(WordType),
         first >= 0, first + Len(f) <= BldrData(size),
         \A i \in 1..Len(f) : data[first + i - 1] = f[i]
  PROVE  Slice(CleanBldr(data), first, Len(f)) = f /\ Slice(data, first, Len(f)) = f
  <1>1. /\ size \in Nat /\ BldrData(size) \in Nat /\ BldrData(size) + BLDR_BLOCK_SIZE < size
        /\ Len(f) \in Nat /\ BLDR_BLOCK_SIZE \in Nat
    BY Layout, LenProperties, GenuinePlaces
  <1>2. CleanBldr(data) \in Buffer
    BY CleanBldrOK
  <1>3. ASSUME NEW i \in 1..Len(f) PROVE CleanBldr(data)[first + i - 1] = f[i]
    <2>1. first + i - 1 \in 0..(size - 1) /\ first + i - 1 < PreldrData
      BY <1>1, GenuinePlaces DEF PreldrData
    <2> QED BY <2>1, CleanBldrAt
  <1>4. size - 1 \in Int /\ first + Len(f) <= (size - 1) + 1
    BY <1>1
  <1> DEFINE m == CleanBldr(data)
  <1> HIDE DEF m
  <1>5. m \in [0..(size - 1) -> WordType] /\ \A i \in 1..Len(f) : m[first + i - 1] = f[i]
    BY <1>2, <1>3 DEF m, Buffer
  <1>6. Slice(m, first, Len(f)) = f
    BY <1>4, <1>5, SliceIs
  <1>7. Slice(data, first, Len(f)) = f
    BY <1>4, SliceIs DEF Buffer
  <1> QED BY <1>6, <1>7 DEF m

\* The FBL that was found is the image's.
LEMMA FblExtracted ==
  ASSUME LoadInv, pc = "loaded", NEW im \in Images, Meant(im), im.fbl
  PROVE  PreldrFound /\ Slice(data, PreldrData, PRELDR_SIZE) = Fbl
  <1>1. /\ size = im.size /\ size \in Nat /\ data \in Buffer /\ BldrData(size) \in Nat
        /\ BldrData(size) + BLDR_BLOCK_SIZE < size /\ file = Image(im) /\ im \in IMAGE
    BY MeantSize, GenuineOK DEF Meant
  <1>2. PreldrFound
    BY DEF PreldrFound, Meant, LoadInv, TypeOK, PreldrStatuses, StatusStage
  <1>3. \A a \in PreldrData..(BldrData(size) + ParamsOffset - 1) : data[a] = file[a]
    BY <1>2 DEF LoadInv, FblPreserved, PreldrFound
  <1>4. ASSUME NEW i \in 1..PRELDR_SIZE
        PROVE  /\ PreldrData + i - 1 \in DOMAIN data
               /\ data[PreldrData + i - 1] = Clear("fbl", PreldrOffset + i - 1)
    <2> DEFINE o == PreldrOffset + i - 1
    <2>1. /\ o \in PreldrOffset..(ParamsOffset - 1) /\ o \in 0..(BLDR_BLOCK_SIZE - 1)
          /\ PreldrData + i - 1 = BldrData(size) + o /\ ~(o < PreldrOffset) /\ ~(o >= ParamsOffset)
          /\ BldrData(size) + o \in PreldrData..(BldrData(size) + ParamsOffset - 1)
          /\ BldrData(size) + o \in 0..(size - 1)
      BY <1>1, GenuinePlaces DEF PreldrData
    <2> HIDE DEF o
    <2>2. file[BldrData(size) + o] = FblBldr(im)[o + 1]
      BY <1>1, <2>1, ImageOK
    <2>3. FblBldr(im)[o + 1] = Clear("fbl", o)
      BY <1>1, <2>1, FblWords
    <2>4. DOMAIN data = 0..(size - 1)
      BY <1>1 DEF Buffer
    <2> QED BY <1>3, <2>1, <2>2, <2>3, <2>4 DEF o
  <1>5. Slice(data, PreldrData, PRELDR_SIZE) = Fbl
    BY <1>4 DEF Slice, Fbl
  <1> QED BY <1>2, <1>5

\* So an image that was loaded comes apart into its components.
LEMMA ExtractGives ==
  ASSUME LoadInv, pc = "loaded", NEW im \in Images, Meant(im), Recovering(im),
         params.restore_boot_params, NEW x, x = Extracted(CleanBldr(data))
  PROVE  /\ x.krnl = Kernel(im) /\ x.kdata = KernelData(im)
         /\ im.it > 0 => x.inittbl = InitTbl(im)
         /\ im.fbl => x.preldr = Fbl
         /\ \A o \in (LDR_HEAD_SIZE..(PreldrOffset - 1)) \cup
                    (BootParamsOffset..(BLDR_BLOCK_SIZE - 1)) :
              x.bldr[o + 1] = PlainBldr(im)[o + 1]
  <1> DEFINE mem == CleanBldr(data)
  <1>1. /\ size \in BiosSizes /\ size \in Nat /\ data \in Buffer /\ BldrData(size) \in Nat
        /\ BldrData(size) + BLDR_BLOCK_SIZE < size /\ size = im.size
    BY MeantSize DEF Meant
  <1>2. /\ im.it \in Nat /\ im.ks \in Nat /\ im.kd \in Nat /\ im.fbl \in BOOLEAN
        /\ im.it + im.ks + im.kd <= BldrData(size) /\ im.it <= BldrData(size)
    BY <1>1, GenuineOK
  <1>3. /\ x.bldr = Slice(mem, BldrData(size), BLDR_BLOCK_SIZE)
        /\ im.fbl => x.preldr = Fbl
        /\ im.it > 0 => x.inittbl = Slice(mem, 0, im.it)
        /\ x.krnl = Slice(mem, kernel.compressed, im.ks)
        /\ x.kdata = Slice(mem, kernel.uncompressed, im.kd)
    <2>1. im.fbl => PreldrFound /\ Slice(data, PreldrData, PRELDR_SIZE) = Fbl
      BY FblExtracted
    <2>2. /\ Reread(mem, 0, bp.kd) = im.kd /\ Reread(mem, 1, bp.it) = im.it
          /\ Reread(mem, 3, bp.ks) = im.ks
      BY RereadOK
    <2> HIDE DEF mem
    <2>3. x = Extracted(mem)
      BY DEF mem
    <2> QED BY <2>1, <2>2, <2>3 DEF Extracted
  <1>4. x.krnl = Kernel(im)
    <2>1. Kernel(im) \in Seq(WordType) /\ Len(Kernel(im)) = im.ks
      BY PartsOK
    <2>2. /\ kernel.compressed \in Int /\ kernel.compressed >= 0
          /\ kernel.compressed + Len(Kernel(im)) <= BldrData(size)
          /\ \A i \in 1..Len(Kernel(im)) : data[kernel.compressed + i - 1] = Kernel(im)[i]
      BY <2>1, PartsRecovered
    <2>3. Slice(CleanBldr(data), kernel.compressed, Len(Kernel(im))) = Kernel(im)
      BY <1>1, <2>1, <2>2, SliceCleaned
    <2> QED BY <1>3, <2>1, <2>3
  <1>5. x.kdata = KernelData(im)
    <2>1. KernelData(im) \in Seq(WordType) /\ Len(KernelData(im)) = im.kd
      BY PartsOK
    <2>2. /\ kernel.uncompressed \in Int /\ kernel.uncompressed >= 0
          /\ kernel.uncompressed + Len(KernelData(im)) <= BldrData(size)
          /\ \A i \in 1..Len(KernelData(im)) : data[kernel.uncompressed + i - 1] = KernelData(im)[i]
      BY <2>1, PartsRecovered
    <2>3. Slice(CleanBldr(data), kernel.uncompressed, Len(KernelData(im))) = KernelData(im)
      BY <1>1, <2>1, <2>2, SliceCleaned
    <2> QED BY <1>3, <2>1, <2>3
  <1>6. im.it > 0 => x.inittbl = InitTbl(im)
    <2>1. InitTbl(im) \in Seq(WordType) /\ Len(InitTbl(im)) = im.it
      BY PartsOK
    <2>2. /\ 0 \in Int /\ 0 >= 0 /\ 0 + Len(InitTbl(im)) <= BldrData(size)
          /\ \A i \in 1..Len(InitTbl(im)) : data[0 + i - 1] = InitTbl(im)[i]
      BY <1>2, <2>1, PartsRecovered
    <2>3. Slice(CleanBldr(data), 0, Len(InitTbl(im))) = InitTbl(im)
      BY <1>1, <2>1, <2>2, SliceCleaned
    <2> QED BY <1>3, <2>1, <2>3
  <1>7. ASSUME NEW o \in (LDR_HEAD_SIZE..(PreldrOffset - 1)) \cup
                         (BootParamsOffset..(BLDR_BLOCK_SIZE - 1))
        PROVE  x.bldr[o + 1] = PlainBldr(im)[o + 1]
    <2> DEFINE a == BldrData(size) + o
    <2>1. /\ o \in Readable(im, params)
      BY <1>2, GenuinePlaces DEF Readable
    <2>2. BldrClear(im)
      BY DEF Recovering
    <2>3. data[a] = PlainBldr(im)[o + 1]
      BY <2>1, <2>2 DEF BldrClear
    <2>4. /\ a \in 0..(size - 1) /\ o + 1 \in 1..BLDR_BLOCK_SIZE
          /\ BldrData(size) + (o + 1) - 1 = a
          /\ a < PreldrData \/ a >= BootParamsPlace
      BY <1>1, GenuinePlaces DEF PreldrData, BootParamsPlace
    <2> HIDE DEF a
    <2>5. mem[a] = data[a]
      BY <1>1, <2>4, CleanBldrAt
    <2>6. DOMAIN mem = 0..(size - 1)
      BY <1>1, CleanBldrOK DEF Buffer
    <2> HIDE DEF mem
    <2>7. Slice(mem, BldrData(size), BLDR_BLOCK_SIZE)[o + 1] = mem[a]
      BY <2>4, <2>6 DEF Slice
    <2> QED BY <1>3, <2>3, <2>5, <2>7
  <1> QED BY <1>3, <1>4, <1>5, <1>6, <1>7

\* The conditions of the two properties are Meant's.
LEMMA MeantFits ==
  ASSUME NEW im \in Images, file = ImageFile[im], BldrMatches(im, params), KernelMatches(im, params),
         preldr = "not_found" <=> ~im.fbl
  PROVE  Meant(im)
BY DEF ImageFile, Meant

\* What load leaves is what LoadRecovers asks for.
LEMMA LoadGives ==
  ASSUME LoadInv, pc = "loaded", NEW im \in Images, Meant(im), Recovering(im)
  PROVE  /\ bios_status = "success"
         /\ bp = [kd |-> im.kd, it |-> im.it, ks |-> im.ks]
         /\ \A o \in Readable(im, params) : data[BldrData(size) + o] = PlainBldr(im)[o + 1]
         /\ bldr.keys = BldrData(size) + KEYS_OFFSET
         /\ Slice(data, kernel.compressed, bp.ks) = Kernel(im)
         /\ Slice(data, kernel.uncompressed, bp.kd) = KernelData(im)
         /\ Slice(data, 0, bp.it) = InitTbl(im)
  <1>1. bios_status = "success" /\ BldrClear(im) /\ Found(im)
    BY DEF Recovering
  <1>2. bp = [kd |-> im.kd, it |-> im.it, ks |-> im.ks] /\ bldr.keys = BldrData(size) + KEYS_OFFSET
    BY <1>1 DEF Found
  <1>3. \A o \in Readable(im, params) : data[BldrData(size) + o] = PlainBldr(im)[o + 1]
    BY <1>1 DEF BldrClear
  <1>4. size \in BiosSizes /\ data \in Buffer /\ size = im.size /\ BldrData(size) \in Nat
    BY MeantSize DEF Meant
  <1>5. /\ im.it \in Nat /\ im.ks \in Nat /\ im.kd \in Nat
        /\ im.it + im.ks + im.kd <= BldrData(size)
    BY <1>4, GenuineOK
  <1>6. /\ Kernel(im) \in Seq(WordType) /\ Len(Kernel(im)) = im.ks
        /\ KernelData(im) \in Seq(WordType) /\ Len(KernelData(im)) = im.kd
        /\ InitTbl(im) \in Seq(WordType) /\ Len(InitTbl(im)) = im.it
    BY PartsOK
  <1>7. /\ \A i \in 1..im.ks : data[kernel.compressed + i - 1] = Kernel(im)[i]
        /\ \A i \in 1..im.kd : data[kernel.uncompressed + i - 1] = KernelData(im)[i]
        /\ \A i \in 1..im.it : data[0 + i - 1] = InitTbl(im)[i]
        /\ kernel.compressed >= 0 /\ kernel.compressed + im.ks <= BldrData(size)
        /\ kernel.uncompressed >= 0 /\ kernel.uncompressed + im.kd <= BldrData(size)
        /\ kernel.compressed \in Int /\ kernel.uncompressed \in Int
    BY PartsRecovered
  <1>8. Slice(data, kernel.compressed, im.ks) = Kernel(im)
    <2>1. \A i \in 1..Len(Kernel(im)) : data[kernel.compressed + i - 1] = Kernel(im)[i]
      BY <1>6, <1>7
    <2>2. Slice(data, kernel.compressed, Len(Kernel(im))) = Kernel(im)
      BY <1>4, <1>6, <1>7, <2>1, SliceCleaned
    <2> QED BY <1>6, <2>2
  <1>9. Slice(data, kernel.uncompressed, im.kd) = KernelData(im)
    <2>1. \A i \in 1..Len(KernelData(im)) : data[kernel.uncompressed + i - 1] = KernelData(im)[i]
      BY <1>6, <1>7
    <2>2. Slice(data, kernel.uncompressed, Len(KernelData(im))) = KernelData(im)
      BY <1>4, <1>6, <1>7, <2>1, SliceCleaned
    <2> QED BY <1>6, <2>2
  <1>10. Slice(data, 0, im.it) = InitTbl(im)
    <2>1. \A i \in 1..Len(InitTbl(im)) : data[0 + i - 1] = InitTbl(im)[i]
      BY <1>6, <1>7
    <2>2. 0 \in Int /\ 0 >= 0 /\ 0 + Len(InitTbl(im)) <= BldrData(size)
      BY <1>4, <1>5, <1>6
    <2>3. Slice(data, 0, Len(InitTbl(im))) = InitTbl(im)
      BY <1>4, <1>6, <2>1, <2>2, SliceCleaned
    <2> QED BY <1>6, <2>3
  <1> QED BY <1>1, <1>2, <1>3, <1>8, <1>9, <1>10

LEMMA RecoveringStutter ==
  ASSUME NEW im \in Images, Recovering(im), UNCHANGED vars
  PROVE  Recovering(im)'
BY DEF Recovering, Meant, BldrClear, Found, BldrMatches, KernelMatches, Readable,
       BootParamsPlace, vars, biosVars

\* Whatever stage load is in, it is on the way to what the image was made of.
THEOREM LoadRecovering == LoadSpec => [](LoadInv /\ \A im \in Images : Recovering(im))
  <1> DEFINE Rec == \A im \in Images : Recovering(im)
  <1>1. LoadInit => Rec
    BY DEF LoadInit, Recovering
  <1>2. LoadInv /\ Rec /\ [LoadNext]_vars => Rec'
    <2> SUFFICES ASSUME LoadInv, Rec, [LoadNext]_vars, NEW im \in Images PROVE Recovering(im)'
      OBVIOUS
    <2>1. CASE LoadBegin(data, size, params)
      BY <2>1, RecoveringBegin
    <2>2. CASE LoadStep /\ UNCHANGED file
      BY <2>2, RecoveringStep
    <2>3. CASE UNCHANGED vars
      BY <2>3, RecoveringStutter
    <2> QED BY <2>1, <2>2, <2>3 DEF LoadNext
  <1> HIDE DEF Rec
  <1>3. LoadSpec => [](LoadInv /\ Rec)
    BY <1>1, <1>2, Invariant, PTL DEF LoadSpec
  <1> QED BY <1>3 DEF Rec

\* A genuine image, loaded with switches that fit it, ends with its 2BL, boot
\* parameters, keys and kernel in the clear and the pointers on them.
THEOREM LoadRecoversImage == LoadSpec => []LoadRecovers
  <1>1. LoadInv /\ (\A im \in Images : Recovering(im)) => LoadRecovers
    <2> SUFFICES ASSUME LoadInv, \A im \in Images : Recovering(im), pc = "loaded", NEW im \in Images,
                        file = ImageFile[im], BldrMatches(im, params), KernelMatches(im, params),
                        preldr = "not_found" <=> ~im.fbl
                 PROVE  /\ bios_status = "success"
                        /\ bp = [kd |-> im.kd, it |-> im.it, ks |-> im.ks]
                        /\ \A o \in Readable(im, params) :
                             data[BldrData(size) + o] = PlainBldr(im)[o + 1]
                        /\ bldr.keys = BldrData(size) + KEYS_OFFSET
                        /\ Slice(data, kernel.compressed, bp.ks) = Kernel(im)
                        /\ Slice(data, kernel.uncompressed, bp.kd) = KernelData(im)
                        /\ Slice(data, 0, bp.it) = InitTbl(im)
      BY Zenon DEF LoadRecovers
    <2>1. Meant(im) /\ Recovering(im)
      BY MeantFits
    <2> QED BY <2>1, LoadGives
  <1> QED BY <1>1, LoadRecovering, PTL

-----------------------------------------------------------------------------
(* -extr of a genuine image, in any session.                               *)

\* While an extraction runs it is on the way to the components; those on disk
\* after it are the image's.
Extracting == /\ cmd = "extract" => \A im \in Images : Recovering(im)
              /\ ExtractRecovers

\* Nothing is said of the component files unless an extraction has just ended.
LEMMA NotExtracted ==
  ASSUME pc' # "extracted", cmd' # "extract"
  PROVE  Extracting'
BY DEF Extracting, ExtractRecovers

\* An extraction that ends has written what ExtractGives says.
LEMMA ExtractWritesRecovers ==
  ASSUME SessionInv, Extracting, ExtractWrites
  PROVE  Extracting'
  <1>1. /\ cmd = "extract" /\ pc = "loaded" /\ files' = Extracted(CleanBldr(data)) /\ cmd' = "none"
        /\ UNCHANGED <<file, params, preldr>>
    BY DEF ExtractWrites, Exit
  <1>2. LoadInv /\ \A im \in Images : Recovering(im)
    BY <1>1 DEF SessionInv, Extracting
  <1>3. ExtractRecovers'
    <2> DEFINE x == files'
    <2> SUFFICES ASSUME params'.restore_boot_params, NEW im \in Images, file' = ImageFile[im],
                        BldrMatches(im, params'), KernelMatches(im, params'),
                        preldr' = "not_found" <=> ~im.fbl
                 PROVE  /\ x.krnl = Kernel(im) /\ x.kdata = KernelData(im)
                        /\ im.it > 0 => x.inittbl = InitTbl(im)
                        /\ im.fbl => x.preldr = Fbl
                        /\ \A o \in (LDR_HEAD_SIZE..(PreldrOffset - 1)) \cup
                                   (BootParamsOffset..(BLDR_BLOCK_SIZE - 1)) :
                             x.bldr[o + 1] = PlainBldr(im)[o + 1]
      BY DEF ExtractRecovers, BldrMatches, KernelMatches, ImageFile
    <2>1. params.restore_boot_params /\ Meant(im)
      BY <1>1, MeantFits
    <2>2. Recovering(im) /\ x = Extracted(CleanBldr(data))
      BY <1>1, <1>2
    <2> HIDE DEF x
    <2> QED BY <1>1, <1>2, <2>1, <2>2, ExtractGives
  <1> QED BY <1>1, <1>3 DEF Extracting

LEMMA WithinRecovers ==
  ASSUME SessionInv, SessionInv', Extracting,
         \/ cmd = "extract" /\ LoadStep /\ UNCHANGED <<file, buildVars, sessionVars>>
         \/ cmd = "build" /\ BuildStep /\ UNCHANGED <<file, sessionVars>>
  PROVE  Extracting'
  <1>1. CASE cmd = "extract" /\ LoadStep /\ UNCHANGED <<file, buildVars, sessionVars>>
    <2>1. cmd' = "extract" /\ UNCHANGED file
      BY <1>1 DEF sessionVars
    <2>2. pc' # "extracted"
      BY <2>1 DEF SessionInv, LoadInv, Stages
    <2>3. LoadInv /\ \A im \in Images : Recovering(im)
      BY <1>1 DEF SessionInv, Extracting
    <2>4. ASSUME NEW im \in Images PROVE Recovering(im)'
      BY <1>1, <2>1, <2>3, RecoveringStep
    <2> QED BY <2>2, <2>4 DEF Extracting, ExtractRecovers
  <1>2. CASE cmd = "build" /\ BuildStep /\ UNCHANGED <<file, sessionVars>>
    <2>1. cmd' = "build"
      BY <1>2 DEF sessionVars
    <2>2. pc' # "extracted"
      BY <2>1 DEF SessionInv, BuildInv, BuildStages
    <2> QED BY <2>1, <2>2, NotExtracted
  <1> QED BY <1>1, <1>2

LEMMA ExtractingStutter ==
  ASSUME Extracting, UNCHANGED allVars
  PROVE  Extracting'
  <1>1. /\ UNCHANGED vars /\ UNCHANGED <<cmd, files>>
        /\ UNCHANGED <<pc, params, preldr, file>>
    BY DEF allVars, sessionVars, vars, biosVars
  <1>2. ExtractRecovers'
    BY <1>1 DEF Extracting, ExtractRecovers, BldrMatches, KernelMatches
  <1>3. ASSUME cmd = "extract", NEW im \in Images PROVE Recovering(im)'
    BY <1>1, <1>3, RecoveringStutter DEF Extracting
  <1> QED BY <1>1, <1>2, <1>3 DEF Extracting

\* In any session, after an extraction with switches that fit, the component
\* files of a genuine image are its components.
THEOREM SessionExtractRecovers == SessionSpec => []ExtractRecovers
  <1>1. SessionInit => Extracting
    BY DEF SessionInit, Extracting, ExtractRecovers
  <1>2. SessionInv /\ SessionInv' /\ Extracting /\ [SessionNext]_allVars => Extracting'
    <2> SUFFICES ASSUME SessionInv, SessionInv', Extracting, [SessionNext]_allVars
                 PROVE  Extracting'
      OBVIOUS
    <2>1. CASE ExtractBegin
      <3>1. PICK p \in Switches : LoadBegin(file, FileSize, p)
        BY <2>1 DEF ExtractBegin
      <3>2. ASSUME NEW im \in Images PROVE Recovering(im)'
        BY <3>1, RecoveringBegin
      <3>3. pc' # "extracted"
        BY <3>1 DEF LoadBegin
      <3> QED BY <3>2, <3>3 DEF Extracting, ExtractRecovers
    <2>2. CASE ExtractFails \/ BuildFails
      <3>1. cmd' = "none" /\ pc' # "extracted"
        BY <2>2 DEF ExtractFails, BuildFails, Exit, vars, biosVars
      <3> QED BY <3>1, NotExtracted
    <2>3. CASE ExtractWrites
      BY <2>3, ExtractWritesRecovers
    <2>4. CASE BuildBegins
      <3>1. cmd' = "build"
        BY <2>4 DEF BuildBegins, Begin
      <3>2. pc' # "extracted"
        BY <3>1 DEF SessionInv, BuildInv, BuildStages
      <3> QED BY <3>1, <3>2, NotExtracted
    <2>5. CASE BuildWrites
      <3>1. cmd' = "none" /\ pc' # "extracted"
        BY <2>5 DEF BuildWrites, Exit, biosVars
      <3> QED BY <3>1, NotExtracted
    <2>6. CASE \/ cmd = "extract" /\ LoadStep /\ UNCHANGED <<file, buildVars, sessionVars>>
               \/ cmd = "build" /\ BuildStep /\ UNCHANGED <<file, sessionVars>>
      BY <2>6, WithinRecovers
    <2>7. CASE UNCHANGED allVars
      BY <2>7, ExtractingStutter
    <2> QED BY <2>1, <2>2, <2>3, <2>4, <2>5, <2>6, <2>7 DEF SessionNext
  <1>3. Extracting => ExtractRecovers
    BY DEF Extracting
  <1> QED BY <1>1, <1>2, <1>3, SessionInvariant, PTL DEF SessionSpec
=============================================================================
