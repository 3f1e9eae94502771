------------------------------- MODULE XbTool -------------------------------
(***************************************************************************)
(* A user's session with xbios: -extr takes the BIOS file apart, -bld puts *)
(* one together from the component files, any number of times, in any      *)
(* order and with any switches.  The state between two commands is what is *)
(* on disk.                                                                *)
(***************************************************************************)
EXTENDS BiosLoad, BiosBuild

CONSTANTS
  Components,      \* the sets of component files there may be at first
  BuildSwitches,   \* binsize, BIOS_LOAD_PARAMS and the flags of a -bld
  MaxCommands      \* bounds a session

COMPONENTS == [{"bldr", "preldr", "inittbl", "krnl", "kdata"} -> Seq(WordType)]

BUILD_SWITCHES ==
  [bfm : BOOLEAN, nobootparams : BOOLEAN, hackinittbl : BOOLEAN, hacksignature : BOOLEAN,
   preldr : BOOLEAN, eeprom_key : Keys, cert_key : Keys,
   binsize : BiosSizes, params : BIOS_LOAD_PARAMS]

ASSUME SessionAssumption ==
  /\ MaxCommands \in Nat
  /\ Components \subseteq COMPONENTS
  /\ BuildSwitches \subseteq BUILD_SWITCHES

VARIABLES
  files,     \* the component files on disk
  cmd,       \* the command that runs, or "none"
  result,    \* the exit code of the last command
  count,     \* how many commands there have been
  made       \* history: how the BIOS file on disk was built, if it was

sessionVars == <<files, cmd, result, count, made>>
allVars == <<vars, buildVars, sessionVars>>

\* No such file; a file may well be empty.
Absent == <<Clear("absent", 0)>>
NoFiles == [bldr |-> Absent, preldr |-> Absent, inittbl |-> Absent, krnl |-> Absent,
            kdata |-> Absent]
NoBios == <<>>
FileSize == CHOOSE n \in BiosSizes : DOMAIN file = 0..(n - 1)

-----------------------------------------------------------------------------
Begin(c) ==
  /\ cmd = "none"
  /\ count < MaxCommands
  /\ cmd' = c
  /\ count' = count + 1

Exit(code) == cmd' = "none" /\ result' = code

-----------------------------------------------------------------------------
(* extractBios.                                                            *)
ExtractBegin ==
  /\ Begin("extract")
  /\ file # NoBios
  /\ \E p \in Switches : LoadBegin(file, FileSize, p)
  /\ UNCHANGED <<file, files, result, made, buildVars>>

ExtractFails ==
  /\ cmd = "extract" /\ pc = "loaded"
  /\ bios_status # "success"
  /\ Exit(1)
  /\ UNCHANGED <<vars, files, count, made, buildVars>>

\* A bug: the FBL is only found if it was not used.
PreldrUnused == preldr = "found"

\* The digest is zeroed in any image, the FBL and its parameters up to the
\* boot parameters where an FBL was found.
PreldrFound == preldr \in {"bldr_decrypted", "found"}

CleanBldr(mem) ==
  LET d == ZeroOut(mem, PreldrData + PRELDR_SIZE, ROM_DIGEST_SIZE) IN
  IF PreldrFound
  THEN ZeroOut(ZeroOut(d, PreldrData, PRELDR_SIZE),
               PreldrData + PRELDR_SIZE + ROM_DIGEST_SIZE, PRELDR_PARAMS_SIZE - BOOT_PARAMS_SIZE)
  ELSE d

\* A size is read again through bldr.boot_params when its file is written.
Reread(mem, i, v) == IF mem[bldr.boot_params + i] = Zero THEN 0 ELSE v

\* An init table of size 0 is not written; every other file is, whatever its
\* size.  The results of the writes are not looked at.
Extracted(mem) ==
  LET kd == Reread(mem, 0, bp.kd)
      it == Reread(mem, 1, bp.it)
      ks == Reread(mem, 3, bp.ks)
  IN [bldr |-> Slice(mem, BldrData(size), BLDR_BLOCK_SIZE),
      preldr |-> IF PreldrFound THEN Slice(data, PreldrData, PRELDR_SIZE) ELSE files.preldr,
      inittbl |-> IF it > 0 THEN Slice(mem, 0, it) ELSE files.inittbl,
      krnl |-> Slice(mem, kernel.compressed, ks),
      kdata |-> Slice(mem, kernel.uncompressed, kd)]

ExtractWrites ==
  /\ cmd = "extract" /\ pc = "loaded"
  /\ bios_status = "success"
  /\ files' = Extracted(CleanBldr(data))
  /\ data' = CleanBldr(data)
  /\ Exit(0)
  /\ pc' = "extracted"
  /\ UNCHANGED <<size, params, bldr, preldr, kernel, bp, bios_status, file, count, made, buildVars>>

-----------------------------------------------------------------------------
(* buildBios.                                                              *)
BuildFiles(s) ==
  [bldr |-> files.bldr, inittbl |-> files.inittbl, krnl |-> files.krnl, kdata |-> files.kdata,
   preldr |-> IF s.preldr /\ files.preldr # Absent THEN files.preldr ELSE <<>>,
   bfm |-> s.bfm, nobootparams |-> s.nobootparams, hackinittbl |-> s.hackinittbl,
   hacksignature |-> s.hacksignature, eeprom_key |-> s.eeprom_key, cert_key |-> s.cert_key]

\* The 2BL, init table, kernel and kernel data must be there.
BuildBegins ==
  /\ Begin("build")
  /\ Absent \notin {files.bldr, files.inittbl, files.krnl, files.kdata}
  /\ \E s \in BuildSwitches : BuildBegin(BuildFiles(s), s.binsize, s.params)
  /\ UNCHANGED <<file, files, result, made>>

BuildFails ==
  /\ cmd = "build" /\ pc = "built"
  /\ bios_status # "success"
  /\ Exit(IF bios_status = "invalid_bldr" THEN 1 ELSE 2)
  /\ UNCHANGED <<vars, files, count, made, buildVars>>

BuildWrites ==
  /\ cmd = "build" /\ pc = "built"
  /\ bios_status = "success"
  /\ file' = data
  /\ made' = <<[build |-> build, params |-> params, size |-> size, bp |-> bp,
                keys |-> bldr.keys, used |-> used]>>
  /\ Exit(0)
  /\ UNCHANGED <<biosVars, files, count, buildVars>>

-----------------------------------------------------------------------------
NothingBuilt ==
  [bldr |-> <<>>, inittbl |-> <<>>, krnl |-> <<>>, kdata |-> <<>>, preldr |-> <<>>,
   bfm |-> FALSE, nobootparams |-> FALSE, hackinittbl |-> FALSE, hacksignature |-> FALSE,
   eeprom_key |-> NoKey, cert_key |-> NoKey]

\* A session starts with a BIOS file, or with component files.
SessionInit ==
  /\ \/ file \in Files /\ files = NoFiles
     \/ file = NoBios /\ files \in Components
  /\ size = MIN_BIOS_SIZE /\ data = [a \in 0..(size - 1) |-> Zero]
  /\ params = CHOOSE p \in Switches : TRUE
  /\ bldr = [enc |-> FALSE, boot_params |-> NULL, keys |-> NULL, bfm_key |-> NULL]
  /\ preldr = "error"
  /\ kernel = [enc |-> FALSE, compressed |-> NULL, uncompressed |-> NULL]
  /\ bp = [kd |-> 0, it |-> 0, ks |-> 0] /\ bios_status = "success" /\ pc = "idle"
  /\ build = NothingBuilt /\ overrun = FALSE /\ used = [bldr |-> NoKey, kernel |-> NoKey]
  /\ cmd = "none" /\ result = 0 /\ made = <<>>
  /\ count = IF file = NoBios THEN 1 ELSE 0   \* a command before has left the components

SessionNext ==
  \/ ExtractBegin \/ ExtractFails \/ ExtractWrites
  \/ BuildBegins \/ BuildFails \/ BuildWrites
  \/ cmd = "extract" /\ LoadStep /\ UNCHANGED <<file, buildVars, sessionVars>>
  \/ cmd = "build" /\ BuildStep /\ UNCHANGED <<file, sessionVars>>

SessionSpec == SessionInit /\ [][SessionNext]_allVars

-----------------------------------------------------------------------------
(* Building.                                                               *)

\* The bfm flag has a place in the init table, and not behind its end.
BfmFits(b) == b.bfm => Len(b.inittbl) > INIT_TBL_IDENTIFIER

WithFlag(b) ==
  IF b.bfm THEN [b.inittbl EXCEPT ![INIT_TBL_IDENTIFIER + 1] = Clear("bfm", 0)] ELSE b.inittbl

\* A build that writes the boot parameters itself copies nothing outside of
\* its buffer, as long as the largest image is large enough and the keys to be
\* replaced were found in the 2BL: the size it chooses is enough, and what it
\* checks of the init table comes too late to matter.
NoOverrun ==
  cmd = "build" /\ overrun =>
    \/ build.nobootparams
    \/ RequiredSpace(build) > MAX_BIOS_SIZE
    \/ bldr.keys = NULL

\* When everything is in place and nothing is encrypted yet, no component has
\* overwritten another, in a ROM of whichever size: the components share one
\* buffer and each is placed by a rule of its own.
LaidOut ==
  pc = "encrypt_kernel" /\ ~build.nobootparams /\ BfmFits(build) =>
    /\ Slice(data, 0, Len(build.inittbl)) = WithFlag(build)
    /\ Slice(data, kernel.compressed, Len(build.krnl)) = build.krnl
    /\ Slice(data, kernel.uncompressed, Len(build.kdata)) = build.kdata
    /\ BootParamsAt(data, bldr.boot_params) = {bp}
    /\ \A o \in LDR_HEAD_SIZE..(BootParamsOffset - 1) :
         o < Len(build.bldr) =>
           \/ data[BldrData(size) + o] = build.bldr[o + 1]
           \/ bldr.keys # NULL /\ BldrData(size) + o \in bldr.keys..(bldr.keys + 1)

\* "A bios is replicate upto the binsize ( binsize / romsize =
\* num_of_replications )": every bank of what is built holds the bios, so the
\* last one ends with the 2BL.  It does not: the 2BL and the kernel are laid out
\* at the end of the buffer and then the first bank is copied over them.
Replicated ==
  pc = "built" /\ bios_status = "success" =>
    \A o \in LDR_HEAD_SIZE..(KEYS_OFFSET - 1) :
      o < Len(build.bldr) =>
        LET w == data[BldrData(size) + o] IN
        w.src = build.bldr[o + 1].src /\ w.at = build.bldr[o + 1].at

-----------------------------------------------------------------------------
(* Extracting.                                                             *)

\* "Extract components from a BIOS": with switches that fit and an FBL that was
\* taken for what it is, a genuine image comes apart into its 2BL, FBL, init
\* table, kernel and kernel data, and the boot parameters in the 2BL, which are
\* restored unless -nobootparams says not to, are those a build would need.
ExtractRecovers ==
  pc = "extracted" /\ params.restore_boot_params =>
    \A im \in Images :
      file = ImageFile[im] /\ BldrMatches(im, params) /\ KernelMatches(im, params)
        /\ (preldr = "not_found" <=> ~im.fbl)
      => /\ files.krnl = Kernel(im) /\ files.kdata = KernelData(im)
         /\ im.it > 0 => files.inittbl = InitTbl(im)
         /\ im.fbl => files.preldr = Fbl
         /\ \A o \in (LDR_HEAD_SIZE..(PreldrOffset - 1)) \cup
                    (BootParamsOffset..(BLDR_BLOCK_SIZE - 1)) :
              files.bldr[o + 1] = PlainBldr(im)[o + 1]

-----------------------------------------------------------------------------
(* Building, then extracting.                                              *)
Sizes(b) == [kd |-> Len(b.kdata), it |-> IF b.hackinittbl THEN 0 ELSE Len(b.inittbl),
             ks |-> Len(b.krnl)]

\* What was built is one ROM, and its 2BL describes what is in it.
Whole(m) ==
  LET b == m.build IN
  /\ m.size = m.params.romsize
  /\ m.bp = Sizes(b)
  /\ \A i \in DOMAIN b.bldr : b.bldr[i].ks = {}
  /\ b.nobootparams => /\ Len(b.bldr) = BLDR_BLOCK_SIZE
                       /\ \A i \in 1..FIELDS_SIZE : b.bldr[BootParamsOffset + i].src = "word"
  /\ BfmFits(b)

\* The switches of the extraction are those that the image needs.  An FBL that
\* was put in by hand does not fit the 2BL's encryption, and only a rev. 0 MCPX
\* leaves it alone.
FitsBldr(m) ==
  /\ IF m.used.bldr = NoKey THEN params.enc_bldr \/ SbKey = NoKey
     ELSE ~params.enc_bldr /\ SbKey = m.used.bldr
  /\ m.build.preldr # <<>> => params.rev = 0 \/ m.used.bldr = NoKey

FitsKernel(m) ==
  IF m.used.kernel = NoKey THEN params.enc_kernel \/ KernelKey = NoKey
  ELSE ~params.enc_kernel /\ KernelKey = m.used.kernel

Digest == (PreldrOffset + PRELDR_SIZE)..(PreldrOffset + PRELDR_SIZE + ROM_DIGEST_SIZE - 1)
Cleaned == Digest \cup IF PreldrFound THEN PreldrOffset..(BootParamsOffset - 1) ELSE {}

\* The words of the 2BL that the build has set.
SetByBuild(m) ==
  (IF m.build.nobootparams THEN {} ELSE BootParamsOffset..(BootParamsOffset + FIELDS_SIZE - 1))
  \cup {m.keys - BldrData(m.size) + i : i \in 0..(BLDR_KEYS_SIZE - 1)}

\* What was built can be taken apart again, with the switches the image needs:
\* every component comes out as it went in, but for the digest and FBL that are
\* cleaned away and the words the build has set.  So the size choice, the
\* places, the order of the copies and of the two encryptions, and the key
\* lookups of build are the ones that load undoes, in any session.
RoundTrip ==
  \A i \in DOMAIN made :
    LET m == made[i]
        b == m.build
    IN /\ pc = "loaded" /\ cmd = "extract" /\ Whole(m) /\ FitsBldr(m) => bios_status = "success"
       /\ pc = "extracted" /\ Whole(m) /\ FitsBldr(m) /\ m.keys = bldr.keys /\ FitsKernel(m) =>
            /\ files.krnl = b.krnl
            /\ files.kdata = b.kdata
            /\ b.inittbl # <<>> /\ ~b.hackinittbl => files.inittbl = WithFlag(b)
            /\ \A o \in 0..(BLDR_BLOCK_SIZE - 1) :
                 \/ o \in SetByBuild(m)
                 \/ files.bldr[o + 1] =
                      IF o \in Cleaned \/ o >= Len(b.bldr) THEN Zero ELSE b.bldr[o + 1]
            /\ b.preldr # <<>> => files.preldr = b.preldr
            /\ m.keys # NULL =>
                 LET key(k) == files.bldr[m.keys - BldrData(m.size) + k + 1] IN
                 /\ b.eeprom_key # NoKey => key(0) = Word(b.eeprom_key)
                 /\ b.cert_key # NoKey => key(1) = Word(b.cert_key)
                 /\ NoKey \notin {m.params.kernel_key, m.used.kernel} =>
                      key(2) = Word(m.params.kernel_key)
=============================================================================
