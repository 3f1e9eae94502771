------------------------------ MODULE BiosImage ------------------------------
(***************************************************************************)
(* The flash image xbios works on: a buffer of 32-bit words, the places of *)
(* the 2BL and of the FBL (preldr) in it, and RC4 as what it does to a     *)
(* word, which is to add or to remove a layer of keystream.                *)
(***************************************************************************)
EXTENDS Integers, Sequences

CONSTANTS
  MIN_BIOS_SIZE,       \* the smallest image; the others are 2 and 4 times it
  MCPX_BLOCK_SIZE,     \* the words after the 2BL, hidden by the MCPX ROM
  BLDR_BLOCK_SIZE,     \* the 2BL
  PRELDR_BLOCK_SIZE,   \* the FBL block, the last part of the 2BL
  ROM_DIGEST_SIZE,     \* the digest, in the FBL block
  PRELDR_PARAMS_SIZE,  \* the end of the FBL block and of the 2BL
  PRELDR_NONCE_SIZE,   \* the end of that, in an image with an FBL
  BOOT_PARAMS_SIZE,    \* four sizes and a digest, the end of the 2BL without
  LDR_HEAD_SIZE,       \* the words at the start of the 2BL an FBL image zeroes
  KEYS_OFFSET,         \* where a genuine 2BL keeps its keys ...
  ENTRY_OFFSET,        \* ... and its BLDR_ENTRY
  Garbage              \* what a word that is not in the clear may read as

MAX_BIOS_SIZE == 4 * MIN_BIOS_SIZE
BiosSizes == {MIN_BIOS_SIZE, 2 * MIN_BIOS_SIZE, 4 * MIN_BIOS_SIZE}
BLDR_ENTRY_SIZE == 2
BLDR_KEYS_SIZE == 3    \* eeprom, cert and kernel key, a word each
FIELDS_SIZE == 4       \* kernel data size, init table size, signature, kernel size
PRELDR_SIZE == PRELDR_BLOCK_SIZE - ROM_DIGEST_SIZE - PRELDR_PARAMS_SIZE

ASSUME LayoutAssumption ==
  /\ MIN_BIOS_SIZE \in Nat /\ MCPX_BLOCK_SIZE \in Nat \ {0} /\ BLDR_BLOCK_SIZE \in Nat
  /\ PRELDR_BLOCK_SIZE \in Nat /\ ROM_DIGEST_SIZE \in Nat /\ PRELDR_PARAMS_SIZE \in Nat
  /\ PRELDR_NONCE_SIZE \in Nat \ {0} /\ BOOT_PARAMS_SIZE \in Nat /\ LDR_HEAD_SIZE \in Nat \ {0}
  /\ BLDR_BLOCK_SIZE + MCPX_BLOCK_SIZE < MIN_BIOS_SIZE
  /\ LDR_HEAD_SIZE + BLDR_ENTRY_SIZE <= BLDR_BLOCK_SIZE - PRELDR_BLOCK_SIZE
  /\ ROM_DIGEST_SIZE + PRELDR_PARAMS_SIZE < PRELDR_BLOCK_SIZE
  /\ FIELDS_SIZE <= BOOT_PARAMS_SIZE
  /\ BOOT_PARAMS_SIZE + PRELDR_NONCE_SIZE <= PRELDR_PARAMS_SIZE

\* A genuine 2BL has its keys and its BLDR_ENTRY behind the head and in front of
\* the FBL block and the entry offset before that.
ASSUME GenuineAssumption ==
  /\ KEYS_OFFSET \in Nat /\ LDR_HEAD_SIZE < KEYS_OFFSET
  /\ ENTRY_OFFSET \in Nat /\ LDR_HEAD_SIZE <= ENTRY_OFFSET
  /\ ENTRY_OFFSET \notin (KEYS_OFFSET - 1)..(KEYS_OFFSET + BLDR_KEYS_SIZE - 1)
  /\ KEYS_OFFSET + BLDR_KEYS_SIZE + BLDR_ENTRY_SIZE <= BLDR_BLOCK_SIZE - PRELDR_BLOCK_SIZE
  /\ ENTRY_OFFSET + 2 * BLDR_ENTRY_SIZE <= BLDR_BLOCK_SIZE - PRELDR_BLOCK_SIZE

ASSUME GarbageAssumption == Garbage \subseteq Nat /\ Garbage # {}

-----------------------------------------------------------------------------
(* Words.  A word is what it holds when it is in the clear and the set of  *)
(* keystream words it is XORed with: the key and the position in its       *)
(* stream.  XORing twice with the same keystream word removes it.          *)

NoKey == -1
ONES == 15             \* a key of all FFs, as the key of all 0s is 0
JunkKey == 99          \* whatever words that are no key read as
DerivedKey(k) == 100 + k

Sources == {"word", "code", "fbl", "nonce", "krnl", "kdata", "init", "bfm", "outside", "absent"}
WordType == [src : Sources, at : Nat, ks : SUBSET (Int \X Int)]

Clear(s, v) == [src |-> s, at |-> v, ks |-> {}]
Word(v) == Clear("word", v)
Zero == Word(0)
Code(i) == Clear("code", i)

Xor(w, k, p) ==
  [w EXCEPT !.ks = IF <<k, p>> \in @ THEN @ \ {<<k, p>>} ELSE @ \cup {<<k, p>>}]

\* The numbers a word can read as: what it holds, or garbage.
Values(w) == IF w.src = "word" /\ w.ks = {} THEN {w.at} ELSE Garbage

\* The key that words at a place make: the stored key, or junk.
KeyOf(w) == IF w.src = "word" /\ w.ks = {} THEN w.at ELSE JunkKey

\* rc4(context, ptr, len): the keystream starts at ptr, offset by skip.
Rc4(mem, first, len, k, skip) ==
  [a \in DOMAIN mem |->
     IF a >= first /\ a < first + len THEN Xor(mem[a], k, a - first + skip) ELSE mem[a]]

\* memset(ptr, 0, len) and memcpy(ptr, file, len).
ZeroOut(mem, first, len) ==
  [a \in DOMAIN mem |-> IF a >= first /\ a < first + len THEN Zero ELSE mem[a]]

CopyIn(mem, first, file) ==
  [a \in DOMAIN mem |->
     IF a >= first /\ a < first + Len(file) THEN file[a - first + 1] ELSE mem[a]]

\* len words of mem from first on; those outside of it are whatever is there.
Slice(mem, first, len) ==
  [i \in 1..len |->
     IF first + i - 1 \in DOMAIN mem THEN mem[first + i - 1] ELSE Clear("outside", 0)]

BldrData(n) == n - BLDR_BLOCK_SIZE - MCPX_BLOCK_SIZE
PreldrOffset == BLDR_BLOCK_SIZE - PRELDR_BLOCK_SIZE
ParamsOffset == BLDR_BLOCK_SIZE - PRELDR_PARAMS_SIZE
BootParamsOffset == BLDR_BLOCK_SIZE - BOOT_PARAMS_SIZE
InBounds(first, len, n) == first >= 0 /\ first + len < n

-----------------------------------------------------------------------------
(* Genuine images, as the tool expects to find them.  An image is          *)
(* described by a record: size; fbl, whether it has an FBL; bldr_key, the  *)
(* key its 2BL is encrypted with (or NoKey); bldr_kernel_key, the kernel   *)
(* key stored in the 2BL; kernel_key, the key its kernel is encrypted with *)
(* (or NoKey); and the sizes kd, it and ks of kernel data, init table and  *)
(* kernel.                                                                 *)

\* A 2BL in the clear, with its boot parameters where the kernel wants them.
PlainBldr(im) ==
  [i \in 1..BLDR_BLOCK_SIZE |->
     LET o == i - 1 IN
     CASE o = 0 -> Word(ENTRY_OFFSET + BLDR_ENTRY_SIZE)
       [] o = KEYS_OFFSET - 1 -> Word(4)                      \* bfm key
       [] o = KEYS_OFFSET -> Word(5)                          \* eeprom key
       [] o = KEYS_OFFSET + 1 -> Word(6)                      \* cert key
       [] o = KEYS_OFFSET + 2 -> Word(im.bldr_kernel_key)
       [] o = ENTRY_OFFSET -> Word(KEYS_OFFSET)
       [] o = PreldrOffset - BLDR_ENTRY_SIZE -> Word(ENTRY_OFFSET + BLDR_ENTRY_SIZE)
       [] o = BootParamsOffset -> Word(im.kd)
       [] o = BootParamsOffset + 1 -> Word(im.it)
       [] o = BootParamsOffset + 2 -> Word(1)                 \* signature
       [] o = BootParamsOffset + 3 -> Word(im.ks)
       [] OTHER -> Code(o)]

\* The same 2BL with an FBL in it: the head is zeroed, the FBL block is in
\* place, and the boot parameters make room for the nonce.
FblBldr(im) ==
  [i \in 1..BLDR_BLOCK_SIZE |->
     LET o == i - 1 IN
     CASE o < LDR_HEAD_SIZE -> Zero
       [] o \in LDR_HEAD_SIZE..(PreldrOffset - 1) -> PlainBldr(im)[i]
       [] o \in PreldrOffset..(BootParamsOffset - PRELDR_NONCE_SIZE - 1) -> Clear("fbl", o)
       [] o \in (BootParamsOffset - PRELDR_NONCE_SIZE)..(BLDR_BLOCK_SIZE - PRELDR_NONCE_SIZE - 1) ->
            PlainBldr(im)[i + PRELDR_NONCE_SIZE]
       [] OTHER -> Clear("nonce", o)]

\* The FBL itself, without the digest and the parameters behind it.
Fbl == [i \in 1..PRELDR_SIZE |-> Clear("fbl", PreldrOffset + i - 1)]

Kernel(im) == [i \in 1..im.ks |-> Clear("krnl", i)]
KernelData(im) == [i \in 1..im.kd |-> Clear("kdata", i)]
InitTbl(im) == [i \in 1..im.it |-> Clear("init", i)]

\* The file: init table at the start, kernel and kernel data up to the 2BL,
\* each encrypted as described.  An FBL leaves itself and the nonce clear.
Image(im) ==
  LET b == BldrData(im.size)
      blank == [a \in 0..(im.size - 1) |-> Zero]
      clear == CopyIn(CopyIn(CopyIn(CopyIn(blank, b, IF im.fbl THEN FblBldr(im) ELSE PlainBldr(im)),
                                    b - im.kd, KernelData(im)),
                             b - im.kd - im.ks, Kernel(im)),
                      0, InitTbl(im))
      krnl == IF im.kernel_key = NoKey THEN clear
              ELSE Rc4(clear, b - im.kd - im.ks, im.ks, im.kernel_key, 0)
  IN IF im.bldr_key = NoKey THEN krnl
     ELSE IF im.fbl
          THEN Rc4(Rc4(krnl, b, PreldrOffset, DerivedKey(im.bldr_key), 0),
                   b + ParamsOffset, PRELDR_PARAMS_SIZE - PRELDR_NONCE_SIZE,
                   DerivedKey(im.bldr_key), ParamsOffset)
          ELSE Rc4(krnl, b, BLDR_BLOCK_SIZE, im.bldr_key, 0)
=============================================================================
