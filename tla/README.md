# XboxBiosTool: models, checks and proofs

A verification development of `xbios`, the command line tool that takes original
Xbox BIOS images apart and puts them together again. Paths such as
`src/Bios.cpp` are relative to the repository.

## 1. The system

The tool is one sequential program. `main` (`src/XbTool.cpp`) parses the command
line, reads key files and the MCPX ROM and runs one command; a command reads
files, works on one buffer and writes files. There are no threads and no
callbacks. What makes it hard to get right is elsewhere: everything lives in one
buffer that is addressed with pointers computed from the buffer's own content,
parts of it are encrypted under keys found in other parts, the same RC4 pass
encrypts and decrypts, and what one command leaves on disk is what the next one
starts from.

| Component | State | Operations | Hard behaviour | What makes it correct |
|---|---|---|---|---|
| `Bios` load (`src/Bios.cpp`) | buffer, size, 2BL/kernel pointers, two `encryption_state` flags, FBL status | `load`, `init`, `getOffsets`, `getOffsets2`, `preldrValidateAndDecryptBldr`, `symmetricEncDec*`, `validateBldrBootParams` | which of two decryptions applies, early returns between them, pointers from decrypted data, boot parameters moved over the key's nonce | each part decrypted at most once, with one keystream; flags and status tell the truth; nothing else changes |
| `Bios` build (`src/Bios.cpp`) | the same, plus component buffers | `build`, `validate_required_space`, `bios_replicate_data` | sizes and order of the copies, keys changed between lookups, buffer larger than the ROM | components do not overlap, `load` undoes it |
| Commands (`src/XbTool.cpp`) | files on disk, exit code | `extractBios`, `buildBios`, `splitBios`, `combineBios`, `replicateBios`, `listBios`, `decodeXcodes`, `simulateXcodes`, `encodeX86`, `inject_xcodes`, `compressFile`, `decompressFile` | files of an earlier command, partial failures | round trips between the commands |
| `XcodeInterp` (`src/XcodeInterp.cpp`) | table, offset, status | `load`, `reset`, `interpretNext` | exit opcode against end of table | every entry once, in order |
| `XcodeDecoder` (`src/XcodeDecoder.cpp`) | labels, jumps, context | `load`, `decodeXcodes`, `walkBranch` | backward jumps, labels without a target | a label for every jump |
| LZX decoder (`src/lzx_decoder.c`) | window with a mirror of its first 257 bytes, position, repeated offsets, block, bit buffer, tree tables, output buffer | `lzx_decompress`, `decode_data`, the special, fast and uncompressed loops | three counters (frame, block, loop) that end in any order; a window that wraps without a mask | the output is copying from all that was output |
| LZX encoder (`src/lzx_encoder.c`) | memory that slides over the input, search trees, items kept back, repeated offsets of parser and writer | `lzx_compress`, `opt_encode_top`, `binary_search_findmatch`, `output_block`, `redo_first_block` | items parsed long before they are written, a first block that is parsed twice, bytes that move meanwhile, trees of bytes not read yet | matches are real, items spell the input, what was compressed comes out |
| Command line (`src/cli_tbl.cpp`) | flags and values | `parseCli` | switches, values and bare arguments in any order | a value belongs to its switch; help runs nothing |
| `main` (`src/XbTool.cpp`), MCPX (`src/Mcpx.c`), files (`src/file.c`) | exit code, files | `validateArgs`, `read_keys`, `read_mcpx`, one command | failures in the middle | what an exit code says |
| RC4, SHA-1, TEA, RSA | contexts | primitives | none | taken as functions |
| Settings (`src/loadini.c`), printing, help, PE header dump, memory tracking | none | | | |

`buildBios` and `extractBios` call `Bios`; `Bios` calls RC4, SHA-1 and the LZX
decoder; `build` and `replicateBios` share `bios_replicate_data`; the XCODE
commands take a buffer and start at its init table. Encoder and decoder of LZX share
no state but the stream: they agree when each keeps its window, repeated offsets, code
lengths and place in the bits as the other does.

## 2. The modules

| Module | Models | Notes |
|---|---|---|
| `BiosImage` | the buffer, words, RC4, the layout; genuine images | a word is what it holds and the set of keystream words it is XORed with |
| `Bios` | the fields of a `Bios` object and the functions `load` and `build` share | state functions of the buffer, which the two modules below chain |
| `BiosLoad` | `Bios::load` | one action per outcome of each function it calls |
| `BiosBuild` | `Bios::build` | one action per stage; every early return is an outcome |
| `XbTool` | `extractBios`, `buildBios` and a session of them; composes `BiosLoad` and `BiosBuild` | the files on disk are the state between two commands |
| `BiosLoadProofs` | theorems on `BiosLoad`, then on the sessions of `XbTool` with `BiosBuild` | |
| `Replicate` | `bios_replicate_data` | copy by copy |
| `Banks` | `splitBios`, `combineBios`, `replicateBios` in a session; composes `Replicate` | the BIOS file and four bank files |
| `ReplicateProofs` | theorems on `Replicate`, then on `Banks` | |
| `XcodeInterp` | the XCODE interpreter's cursor | no specification of its own; the next three read a table through it |
| `XcodeDecoder` | `XcodeDecoder::load`, `decodeXcodes`, `decode`, `walkBranch` | one action per xcode and pass |
| `XcodeDecoderProofs` | theorems on `XcodeDecoder` | |
| `XcodeInject` | `inject_xcodes`, then the console that runs the table | one action per byte of the search |
| `XcodeInjectProofs` | theorems on `XcodeInject` | |
| `XcodeSim` | `encodeX86AsMemWrites`, `simulateXcodes` | what one writes the other reads |
| `XcodeSimProofs` | theorems on `XcodeSim` | |
| `Lz77` | what decoding promises: new bytes, and matches copied from the history | abstract; no window, blocks or frames |
| `LzxDecoder` | `lzx_decompress`, `decode_data` and the loops it runs, item by item | implements `Lz77` |
| `LzxDecoderProofs` | theorems on `LzxDecoder` | |
| `LzxTrees` | `make_tree`, `make_table` and its reading, `write_rep_tree`, `read_rep_tree` | functions, both sides of each |
| `LzxSlots` | position slots and extra bits, in the encoder's two and the decoder's four loops | functions, with the real tables |
| `LzxE8` | `translate_e8`, encoding and decoding | a function |
| `LzxBits` | both bit buffers, over words, frames and uncompressed blocks | counts bits, not their values |
| `LzxMatch` | `binary_search_findmatch`, its quick variant, `binary_search_remove_node` and the chunks around them | one action per insertion, search, choice |
| `LzxEncoder` | `lzx_compress`, `opt_encode_top`, blocks, splits, frames, `redo_first_block` | one action per stage and outcome |
| `LzxRoundTrip` | `compressFile`, then `decompressFile`; composes `LzxEncoder` and `LzxDecoder` | the decoder reads the items the encoder has written |
| `LzxEncoderProofs` | theorems on `LzxBits`, on `LzxEncoder`, and on `LzxRoundTrip` | |
| `Cli` | `parseCli` with the tables of `XbTool.cpp` | a word at a time |
| `XbMain` | `main`, with `validateArgs`, `read_keys`, `read_mcpx` and the ends of all commands; extends `Cli` | |
| `XbMainProofs` | theorems on `XbMain` and `Cli` | |
| `MC*` | the constants' values for TLC; `MCLzxParts` the machines of LZX that stand alone, with a job per input of the codings | |

**Data.** The buffer is a function on `0..size-1` of 32-bit *words*: one word of
the model stands for as many bytes as the smallest field that is addressed on its
own, a whole key is one word, the rest of the layout (blocks, parameters, digest,
nonce) keeps its order and its overlaps with fewer words. A word records where it
came from (`src`, `at`) and the keystream words it carries (`ks`, pairs of key
and position). `rc4` adds the pair or, when it is there already, removes it, so
that a wrong key, a second pass or a keystream out of step all leave a trace.
Reading a number from a word that is not a clear number yields any value of the
constant `Garbage`; a word that is not in the clear may read as the FBL's jump
opcode when `Mimic` is true. Keys are integers; `DerivedKey(k)` is what SHA-1
makes of `k` and the FBL's nonce, and `JunkKey` what any other words make.
Pointers are indices; they may be negative, and `NULL` is an index no buffer has.

**Control.** `pc` names the stage that `load` or `build` has reached. The loads'
stages are `preldr`, `bldr`, `validate`, `kernel`, `loaded`; the builds'
`copy_bldr`, `copy_kernel`, `encrypt_kernel`, `encrypt_bldr`, `copy_preldr`,
`replicate`, `built`. The decoder's are its loops: `count`, `label`, `decode`, and in
a line `branch`, `walk` and `write`. Memory allocation does not fail in the models.

Out of `Bios`, the hash of the FBL (`preldr_hash`) and its pointer block are left
out: they are only printed. `Bios::load` has a way out with status FAILED when the
FBL's status is ERROR; the inductive invariant of `BiosLoadProofs` (conjunct
`StatusStage`) shows that it is never taken, and there is no action for it.
`bios_replicate_data` and `validate_required_space` each have an error return no
caller can reach; the comments at `Call` and `Doubled` say why.

**XCODE tables.** `XcodeInterp` takes the table as a function from every offset,
aligned or not, to the XCODE that would be read there; what lies in front of or
behind the table is any member of `Stray`. Offsets wrap at `Wrap`, and so does the sum in
`interpretNext`'s bounds check, as `size_t` has 32 bits in the only build there is
(`vc/XboxBiosTools.vcxproj`, Win32). `XcodeInject` changes the table it reads, so
its buffer is made of cells, three to an XCODE: the 1, 4 and 4 bytes of opcode,
address and data. `XcodeSim` keeps the bytes of a word and of the memory. What
`mem_sim` holds outside `0..mem_size-1` are bytes written behind the allocation.
The decoder's `lines` are what the listing says (offset, label, operand), and with
it where each line's xcode was really read; layout and comments are left out.
The check of `-offset` in `simulateXcodes` compares a 0 and never fails.

**LZX.** A byte is a number, an item a literal or a match. `LzxDecoder` takes items,
not bits, and accepts what `lzx_compress` can write: a match ends inside its run and
starts in the history (`Reachable`; `LzxEncoder` writes no other, and `LzxRoundTrip`
reads what it has written), and every frame but the last is full. Inputs that end inside
a frame are in (`Truncated`): from then on `intact` is false. From the
special loop the -1 of such an end becomes the window's position (`src/lzx_decoder.c:701`), and
`pc = "undefined"` says that nothing more is known. `hist` and `intact` are history.
The window is a function on its indices with the mirror and the slack bytes behind;
a byte that nobody has written is `None`. Verbatim and aligned blocks differ only in
how items are coded, which `LzxSlots` has.

`LzxEncoder` has all of `opt_encode_top`'s control and none of its costs: which match is
taken, what a look-ahead chooses, where `split_block` cuts and which type a block has are
any choice the limits in the code allow. It finds matches by looking (`Real`); that
the search trees find only such is `LzxMatch`, whose parser takes any match it is
offered. `LzxMatch` leaves out the memory's move, which only changes a base, and
`redo_first_block`, which empties the trees. Tree codes are sequences of bits, tables
functions with links for what is longer than the index. Numbers in `LzxE8` keep their
width, with digits in base `Base` instead of 256 and operands of `Operand` of them.

**Command line.** A word of the line is a switch (`sw`) or an argument; `""` is the lone
switch character. `XbMain` follows flags, values, files and the exit code. A command's
own work comes to `done` or `failed`, which the other modules are about. One file of the
line is missing, or none, and a missing MCPX ROM is also one that is not known. Of what is
written `out` says nothing, part or whole: a file may not be opened, and a write may be
cut short. `size` is that of the file behind `-in`, in kilobytes: a size that `bios_check_size`
refuses fails `-split`, `-replicate`, `-extr` and `-ls`, and against `romsize` and `binsize` it
decides whether there is anything to split or to replicate (`NothingToDo`), as it does on the
data in `Banks`.

Operators whose comment begins *A bug* are variants of the definition that follows
them. No specification uses them: they show that a property is sensitive to the
code it is about.

## 3. What the runs check

| Run | Question | Properties |
|---|---|---|
| `load` (`MCBiosLoad`) | what may `load` do to an image, and does it recover one? | `TypeOK`. `FblPreserved`: an FBL that was found is never changed. `BldrLayer`: the 2BL has been through exactly as many RC4 passes as its flag says, never the FBL's and `load`'s own. `KernelLayer`: below the 2BL only the kernel changes, as a whole, under the key that was looked up. `LoadRecovers`: with fitting switches, 2BL, boot parameters, keys and kernel of the image are in the clear and the pointers on them |
| `build_extract` (`MCXbTool`) | do components of any size and any flags make an image that can be taken apart, also with files of earlier commands? | `NoOverrun`: no copy leaves the buffer, but for the three cases named. `LaidOut`: no component overwrites another. `RoundTrip`: extraction gives back what the build was given. `ExtractRecovers`: a genuine image comes apart into its components |
| `banks` (`MCBanks`) | do the bank files make the BIOS again, and is a replica filled from what is in place? | `CombineRestores`; `Copied`; `BanksTypeOK` includes that `dataLeft` never wraps and that there is no fifth bank |
| `xcode_decode` (`MCXcodeDecoder`) | is a listing complete, and does the decoder end? | `ArraysFit`: what the second pass stores fits what the first counted, a label per target. `WrittenInOrder`, `JumpsNameLines`: without `-branch` every xcode has its line and every jump names the line it goes to. `NothingSkipped`: with `-branch` and forward jumps, what may run after a line is a line. `Terminates` |
| `inject` (`MCXcodeInject`) | do old and new xcodes run, and what is lost? | `InjectedRun`: the console runs the old xcodes, then the new ones, and stops, when neither have a jump among them. `LittleIsLost`: no more than the end of the new exit xcode overwrites something. `SpaceIsFound`: the buffer is overrun only when there is no space, or when the file is shorter than an xcode |
| `encode_sim` (`MCXcodeSim`) | do encoded xcodes write the code, and does the simulator stay in its memory? | `EncodedWritesCode`: run from a table, the xcodes of `-x86-encode` write the code, in every window of the memory, up to the end of all addresses. `AlignedStaysInside`. What is given out of that memory is `sim_dump` |
| `lzx_decode` (`MCLzxDecoder`) | is the window what was decoded, in every loop and over its end? | `LzxTypeOK`. `WindowHolds`: window and mirror are the end of the history. `OutputIsHistory`: so is each frame handed out. `ImplementsLz77`: every step is one of `Lz77` or none |
| `lzx_parts` (`MCLzxParts`) | do encoder and decoder agree on each coding, and are the matches that the trees offer matches? | `TablesDecode`: codes are complete and within the limit, and tables of every index width decode them. `LengthsAgree`: code lengths with repetitions arrive. `PositionsAgree`: so does every distance, in each loop. `CallsAgree`: translation is undone. `SamePlace`: both count the same bits, and no item is taken for the input's end. `MatchesAreReal`. `TreesOrdered`: strings and ages along each tree, also where nodes were taken out and put back |
| `lzx_round_trip` (`MCLzxRoundTrip`) | does what was compressed come out? | `ItemsSpell`: the items kept back stand for the input since the last block, with the offsets kept for it. `RawDataRemains`: the bytes of a block that may be written raw are still there. `Decompresses`: what is decoded is a part of the input, in the end all of it. `Finishes` |
| `main` (`MCXbMain`) | what does a command line run, and what does an exit code say? | `HelpRunsNothing`: with `-?` anywhere no command runs. `ValuesAsGiven`: a command has its required values, each from behind its switch. `ExitCodeTells`: an error has written nothing whole; 0 means that the needed files were read and the work is done, but for the cases named, and that there is a file where the command promises one: of `-split` and `-replicate`, exactly when there was something to do |
| `replicated` (`MCXbTool`) | section 4 | `Replicated` is violated |
| `sim_dump` (`MCXcodeSim`) | section 4 | `DumpShowsCode` is violated |

Most modules' type invariants are conjuncts of the first invariant listed for them.

**Bounds.** The layout of the `MC` configurations has 32 words in the smallest
image, 24 of them the 2BL, 13 of these the FBL block: the smallest numbers that
keep all parts apart, keep the boot parameters' move overlapping (5 words moved by
4), and leave room below the 2BL for a kernel, data and init table that fit, fit
exactly, or do not. All three image sizes occur. `load` runs on 19 files: genuine
images with and without an FBL, with five combinations of the kernel's key and the
key in the 2BL, images with sizes that do not fit together, FBL images with a bad
entry offset; under all 96 switch combinations. `build_extract` starts from two
genuine images or twelve sets of component files, among them ones that are too big in each
way there is, and has three commands: enough for extract, build, extract and for files of
one image to be mixed with those of the next. Garbage has two values, one that is a small
number and one that is larger than any size. `banks` uses words that all differ, which is enough
because these commands only copy, three commands, and slots that name each file at
most once or one file four times.

`xcode_decode` has every table of up to three XCODEs of 2 bytes from 15 kinds (jumps of
either kind on, over one and two, back, to themselves, into the middle), with and
without half an XCODE behind, and longer ones of fewer kinds; five are enough for a
jump that is spanned by another that is spanned by a conditional one. `MaxLines` (6)
is above the five lines a listing without loops can have. `inject` has every pattern of
zeros on ten cells behind the exit, one or two injected xcodes, files that are no xcodes
(none at all, a cell too few, an exit), a data table that
begins in, next to or behind the space; its cells are not zero where the pattern says
so. `encode_sim` has codes of 0 to 7 bytes with words of 2, a buffer that grows
twice, and code and windows that go over the end of all addresses.

`lzx_decode` has a window of 8 bytes in chunks of 4, matches and a mirror of 2, and three
frames: the third is decoded over the first, with matches that reach behind the window's
end. Blocks of 2, 4 and 7 bytes end inside a frame, with it and beyond it; at distances 1, 3
and 6 a match overlaps itself, does not, and comes from the frame before. All literals are
different, so that no wrong byte is right by chance. `lzx_parts` limits codes to 4 bits,
so that Fibonacci frequencies of 7 symbols need shortening; repetitions are 2 to 3 or 4 to
7 zeros and 2 to 3 other lengths, among 16 lengths, so that runs are in each range, at
its ends and cut by the next; positions have the real constants, all 131072 of them; call
operands take all values of two digits in base 8, with a file size of 9 between them, in chunks
at four places; a frame has up to 4 items of 1 to 17 bits and block headers.
The search trees take every input of two letters in three chunks of 5 bytes, window 10, so that
nodes leave the window, with 3 nodes taken out at each chunk's end. `lzx_round_trip`
has seven inputs from none to 19 bytes, memory of three chunks (it moves twice), room for
9 items and 6 distances (blocks are also written because it is used up), look-aheads
of 2 and one split. `main` has lines of every kind: each command given rightly, with up to two
more words behind it or one in between; and other beginnings with up to three more words, among
them values that are spelled like a switch or a command; and `-split` and `-replicate` with two
sizes. The file behind `-in` has the smallest size, the next one or one that is refused, so that
both commands have something to do and have nothing, by default and by either switch.

Deadlock is checked in `lzx_round_trip`, whose end has a step of its own (`Over`). In the
others it is not: a decoder, a load, a table, `main`, and a session at its bound, end.

**Fairness.** `DecoderSpec` has weak fairness of its next-state action, for
`Terminates`; `TripSpec` has `Running`, for `Finishes`: until it is over, a step that
changes something comes again and again. Both say that the program is one thread that
waits for nothing and takes its next step as long as there is one. `Running` is weak
fairness of `TripNext` without its `ENABLED`: that there is a next step until the end is
what deadlock checking shows. The
other properties are safety properties and the other specifications have no fairness.

## 4. Where the code and its words disagree

Two runs check a statement of a document each and end with a counterexample.

`replicated`: a build with a buffer larger than the ROM lays out at the end of the buffer and then
replicates its start, which is only the init table (`src/Bios.cpp:239`); the image has
no 2BL. `-bfm` always builds this way unless the ROM has the maximum size.

`sim_dump`: `-xcode-sim` gives out none of the memory that it has collected. The length of the
dump is `code_size`, which is 0 and never assigned (`src/XbTool.cpp:857`, used at `:933` for the file
and at `:941` for the listing); the examples show dumps of 26 and 7 bytes (`src/README.md:305`,
`:324`). That the memory does hold the code is `EncodedWritesCode`, which therefore speaks of
the memory and not of the command's result.

Three more statements are definitions that no run checks, because they do not hold:

* `OffsetsShown` (`XcodeDecoder`): with `-branch`, the line of a taken jump is written after the
  interpreter has been moved (`src/XcodeDecoder.cpp:522`): it shows another xcode's
  offset and label and names no label of its own (`src/DecodeSettings.md:13`).
* `OnlyFreeSpace` (`XcodeInject`): the space that is looked for has no room for the exit xcode
  (`src/XbTool.cpp:1389`, `src/README.md:188`).
* `CutIsReported` (`LzxDecoder`): `src/inc/lzx.h:201` promises an error, but an input that ends
  inside a frame gives 0 and bytes that mean nothing (`src/lzx_decoder.c:1005`).

Seen while modelling: `-extr -nobootparams` of an FBL image zeroes the sizes it then
reads (`src/XbTool.cpp:305`) and writes an empty kernel, with exit code 0; boot parameters are each compared
with the whole buffer, so that a load that succeeds can have the kernel in front of
it (`src/Bios.cpp:334`); components larger than the largest image are accepted
(`src/Bios.cpp:779`) and the copies that follow leave the buffer, which are the cases
that `NoOverrun` names; with `-branch`, a jump to in front of the table passes the bounds
check, whose sum wraps (`src/XcodeInterp.cpp:92`); with an `-offset` that is not a multiple of
four `-xcode-sim` writes behind its memory (`src/XbTool.cpp:902`; `Aligned` in `XcodeSim`); `zero_kernel_key` is never initialised
(`src/Bios.cpp:723`; the model leaves it open); the ROM digest's place is zeroed in
every extracted 2BL, FBL or not; an FBL placed by `-preldr` is not matched by the
2BL's encryption, so that only a revision 0 MCPX extracts the result; a kernel
that was stored in the clear is RC4'd by a default extraction when the 2BL holds a
key; `listBios` returns 0 for an invalid 2BL, so that the listing in
`tests/test.bat` passes on such an image; with `-branch` an unconditional jump back
makes the decoder write the same lines for ever (`Terminates` excludes it); when no
space for injected xcodes is found, the code goes on and writes behind the buffer
(`PlaceOverrun`); `encodeX86` returns 0 when it has failed, and `extractBios`
when a write has; a failed `-bld` with `-xcodes` goes on, and if the injection succeeds it
writes its image and exits with 0; key files or an MCPX ROM that cannot be read end `main`
with 0 (`src/XbTool.cpp:1907`); behind `-?` a switch loses its value without an error, so that
`-ls -? -romsize 256` ends with an invalid ROM size and not with help; a first chunk of 7 to
9 bytes is translated by one side of `translate_e8` and not by the other (`InScope` in
`LzxE8`); an overflow of the output in the encoder's last flush is not looked at
(`src/lzx_encoder.c:2037`).

## 5. What is proved

TLAPS checks these for every value of the constants that satisfies the assumptions named:

| Module | Invariants of runs, as theorems | Inductive invariant | Assumptions |
|---|---|---|---|
| `BiosLoadProofs` | `TypeOK`, `FblPreserved`, `BldrLayer`, `KernelLayer` | `LoadInv` | `LayoutAssumption`, `LoadAssumption` |
| | `NoOverrun`, `LaidOut` | `SessionInv` | and `SessionAssumption` |
| | `LoadRecovers`, `ExtractRecovers` | `Recovering` for each image, beside these two | and `GenuineAssumption`, `ImagesAssumption` |
| `ReplicateProofs` | `Copied`, `PrefixKept` | `CopyInv` | `SizeAssumption` |
| | `BanksTypeOK`, `Copied`, `CombineRestores` | `BanksInv` | and `BanksAssumption` |
| `XcodeDecoderProofs` | `ArraysFit`, `WrittenInOrder`, `JumpsNameLines` | `DecoderInv` | `DecoderAssumption`, `InterpAssumption` |
| | `NothingSkipped` | and `Branching` | the same |
| `XcodeInjectProofs` | `SpaceIsFound`, `LittleIsLost`, `InjectedRun` | `InjectInv` | `InjectAssumption` |
| `XcodeSimProofs` | `EncodedWritesCode`, `AlignedStaysInside` | `SimInv` | `SimAssumption` |
| `LzxDecoderProofs` | `LzxTypeOK`, `WindowHolds`, `OutputIsHistory`, `ImplementsLz77` | `IInv` | `LzxSizes`, `LzxOthers` |
| `LzxEncoderProofs` | `SamePlace` | `BitsInv` | `BitBounds` |
| | `ItemsSpell`, `RawDataRemains` | `EncInv` | `EncoderSizes`, `InputsAssumption` |
| | `Decompresses` | `TripInv` | and `TripSizes` |
| `XbMainProofs` | `HelpRunsNothing`, `ValuesAsGiven`, `ExitCodeTells` | `MainInv` | `LinesAssumption` |

Each module states its inductive invariant as conjuncts with names, proves that the initial
states have it and, in a lemma for each action, that a step keeps it; lemmas about the
operators (what `Rc4`, `CopyIn`, `Slice`, a table's xcodes, a bank return and keep) come
first.

**`load`.** None of its three properties is inductive: `BldrLayer` depends on which
combinations of FBL status and flag are possible at each stage (`StatusStage`), `FblPreserved`
on the 2BL being what `BldrStage` says when `load`'s own decryption runs, and on the kernel's
RC4 staying below the 2BL, which is the bounds of `ValidBootParams` and of
`KernelToggles`; `KernelLayer` on the pointers being those of the boot parameters in
`bp` (`KernelStage`) and on the key's place not being in the kernel. The layout's assumptions
are that blocks nest and do not overlap, and that nonce and head are not empty; files have one of
the three sizes, and garbage is a number. The values of `src/inc/Bios.h` satisfy them.

**`build`.** `SessionInv` says that an extraction is under `LoadInv`, that component files are
sequences of words between commands, and that a build is under `BuildInv`: the size chosen is
enough, if any is (`RoomEnough`); the pointers are NULL or in the buffer (`KeysPlaced`); and once
the 2BL is in place its boot parameters are those of the files and put the kernel where
there is room for it (`BldrPlaced`), which is what makes `NoOverrun` and `LaidOut` true of the
copies that follow. Components are any sequences of words, of any length; `SessionAssumption`
gives the switches their types and nothing else.

**Genuine images.** `Images` describes them: the size, the parts below the 2BL, the key and
the kernel key, with an FBL or without; `Image` puts one together. `GenuineAssumption` says where the
2BL has its keys and its entry, `ImagesAssumption` that the parts fit below it and that the 2BL of an
image with an FBL is encrypted, as is every one the FBL finds. `Recovering` says of each stage of
`load` what of the image is in the clear: without an FBL nothing has happened until `load`'s own
decryption, with one the FBL has done it and has moved the boot parameters back (`BldrClear`, which
is where `RestoreBootParams` and the nonce that the key was made from come in); then the pointers
are those of the image (`Found`); at the end the kernel's flag has turned if the image's kernel was
encrypted. That a keystream applied twice is none (`XorTwice`) gives the contents. `ExtractRecovers`
needs more of the end than `LoadRecovers`: what `CleanBldr` zeroes lies between the FBL's place
and the boot parameters (`CleanBldrAt`), so that the sizes that are read again are the same
(`RereadOK`). With `-nobootparams` they are not, and the property does not speak of that.

**Banks and copies.** `CopyInv`: every word in front of `offset` is the first bank's at its place,
and `offset` is one, two or four banks. `BanksInv` adds how a split is on its way (what is left
and the banks written make up the BIOS, `SplitInv`) and what the bank files still hold of the last
one (`KeptInv`). A dump may have any size, also one that the commands refuse.

**XCODE decoder.** `DecoderInv` says of each pass over the table what it has read (`Counting`,
`Loading`, and `Writing` for a listing without `-branch`), of the labels and jumps that each jump was recorded
once and each label has as many references as there are jumps to it (`LabelsMatchJumps`), and of the
lines which label each shows. `DecoderAssumption` wants tables that leave room for one XCODE
below 2^32, so that `interpretNext`'s sum does not wrap in front of the end.
With `-branch` and forward jumps, `Branching` says that the places with lines are `Closed`: what may run
after one has a line, or the decoder comes to it, having no jump in front of it that it would take
past it (`Awaits`). During a walk it says which jumps of the way were found to stay in front of the target
(`Stays`), and that the interpreter comes back to where it was: that is what makes taking a jump safe.

**Injection.** `InjectInv` carries the first exit (`FirstExit` is a `CHOOSE`; that it is the
interpreter's is a lemma), what the count of zeros stands for (`Counted`: they are zeros, and began where the
search did or behind a cell that is none), and that no space in front of the cell was passed over
(`NoSpaceBelow`); of the end of the search (`SpaceFound`, `SearchEnded`) that only the first can
become a jump that fits; of the buffer what was written and what was not; and of the console how far it
has run. `InjectAssumption` says that image and file are in the memory of a 32-bit program
together. `InjectedRun` has `RunInOrder` as a precondition: xcodes with jumps among them
need not run in the order of the table. Nothing is assumed of the other cells, nor of the
place of the data table.

**Simulator.** `SimInv`: the buffer is the code's words at their addresses, the table has them
in order among others, and the memory holds those that were simulated, the last
one not overwritten by an earlier (`WordsApart`). `EncodedWritesCode` stops at the end of the addresses:
what the code has behind it wraps to addresses in front of the window (`offset + a < Wrap`).
`SimAssumption` gives windows of whole words, and codes and tables that are shorter than 2^32.

**LZX decoder.** For every window, chunk and match size that satisfies `LzxSizes` (chunks divide the
window, matches are shorter than a chunk), every set of bytes, distances and block sizes, and with inputs
that may be cut (`LzxOthers`). `WindowHolds` is not inductive: that the byte
read is the right one needs the run's end to be inside window and frame (`RunOK`), and the
pointer to be `dist` behind, or as far in front as the window is longer, and never behind the
mirror (`MatchOK`); the bytes at their places (`Filled`, `Placed`), the mirror as new as what
it mirrors (`MirrorOK`), and what of the history has been handed out (`OutputOK`, which is
`OutputIsHistory` during a frame). `RoomOK` is that a frame was only begun with room for
it. The parts about content hold while the input was intact, the others always.
`LzxImplementsLz77` is `LzxSpec => Lz!LzSpec`, by step simulation:
in the special and the fast loop an item adds a byte or begins a match, `CopyByte` is
`Continue`, an uncompressed block adds bytes, and every other step stutters.

**Bit buffers.** `BitsInv`: in a coded block the decoder is 4 bytes ahead of what was written, the two
words it has read, and each side needs a new word when the other does (`InStep`); in a raw block both
count bytes; each kind of end leads from one to the other (`Coupled`, `BlockOfPhase`).

**LZX encoder.** For every window, chunk, memory and buffer size that satisfies `EncoderSizes` (chunks
divide the window and what the memory moves by, a match starts less than a window back), all inputs that
are sequences of bytes, and whatever the estimates choose. `ItemsSpell` is inductive only with what makes the
choices right: the memory holds the input from its start to what was read, and that start is the
input's or at least a window behind the parser (`MemoryHolds`); input and moves come in whole chunks,
so that the next chunk has room (`InChunks`); the plan was chosen where the parser is
(`Planned`); and as long as `first_block` is set neither the memory nor the last block has moved, so
that the parser can go back to the start (`FirstBlock`). The rest of the items behind a split are
read with the offsets that `get_final_repeated_offset_states` leaves; that it may begin at the last
three distances that are no repeated offsets is `FinalIsThrough`. The functions over items are
recursive functions; `PathExists` and `PathUnique` give their values one after another, by an
induction that is done once, in `Induct`, over the cardinality of the first numbers of a set.

**Round trip of LZX.** `Decompresses` says that what `lzx_decompress` has handed out after each frame is the start
of what `lzx_compress` was given, and at the end all of it. `TripInv` joins `EncInv` with the decoder's
`IInv` by a path (`Stream`). A place is a position in the input, three repeated offsets and the bytes left
in a block (`Places`); a token leads from one place to the next if it gives the bytes of the input
between them, a copy out of what is behind it, with the offsets it leaves (`Gives`), and the header of a
block only follows where nothing of a block is left. From where the decoder is, the rest of its frame
leads to that frame's end, the written frames onward, the frame being written after them, and where
that ends the items kept back begin (`Onward`). The encoder makes the path longer at its
far end: `output_block` turns the items of `Keeps` into tokens, frame for frame
(`ItemsWrite`, `RawWrites`, `HeaderWrites`, `BlockWrites`), and a block written from the memory relies on
`RawDataRemains`. The decoder takes the path's first token, and its step is the one the token
stands for: its three offsets are the place's (`OffsetsAgree`), a match ends inside the frame and
starts inside what was decoded (`MatchFits`), so that it finds neither a bad distance nor a bad size
(`Reading`), and what it has put into `hist` is the input (`SoFar`). `Fresh` is that nothing has been
written when the first block is parsed again. `TripSizes` says that the decoder's sizes are the
encoder's, and that what its window holds before anything is written is no byte. As
`Stream` speaks of places among all integers, TLC does not evaluate `TripInv`; it checks `Decompresses`.

**Command line and `main`.** `MainInv` says of the words that have been read which switches and
values they made (`HelpSeen`, `NothingPending`, `ValuesSoFar`), and of `main` what has run and been written at
each of its places (`MainStage`), with the files that a command needs read before it writes; that the
exit's files are what `ExitCodeTells` says needs the size and the switches to be those that
the command was run with (`SameCommand`). Of the tables the proofs use which switches want a value and
which are required; `LinesAssumption` is that a line is a sequence of words.

**Only model-checked.** `RoundTrip`, whose two commands undo each other for the files of the
run but not for all that the types allow (an FBL file that is too short comes back longer, one whose
first word is no jump is not found, and keys in the model may be the same as a derived one);
the codings and the search trees (`LzxTrees`, `LzxSlots`, `LzxE8`, `LzxMatch`) are written with
recursive operators, for which TLAPS has no backend, and their properties are by induction over
data. So the proof of `Decompresses` is about items and tokens, and that the codes of a token are read as
they were written is `MCLzxParts`. The liveness properties `Terminates` and `Finishes` are beyond
TLAPS as well.

## 6. Not modelled

Printing, the PE header dump, help's text and memory tracking change
nothing that could be stated. The cryptographic primitives are arithmetic on words and
are functions here. The settings files (`src/loadini.c`) are string handling for the layout
of a listing. File names, `-keys` and the decompressed kernel of `-extr` are left out.
Allocations do not fail. Of MCPX recognition there is only its outcome.

Of LZX: the estimates by which the encoder chooses (they decide how short the output is,
not what it means), the number of bytes it writes and so the output buffer that may be
too small (`src/lzx_encoder.c:1994`), and the decoder on streams `lzx_compress` cannot
write, but for ones that were cut.

## 7. Plan

1. Done: `Bios` load and build, `-extr`, `-bld`, `-split`, `-combine`,
   `-replicate`; proofs for `load` and `bios_replicate_data`.
2. Done: `XcodeInterp`, `XcodeDecoder`, `XcodeInject`, `XcodeSim`.
3. Done: LZX decoder with its refinement and proofs, codings, search trees, encoder,
   round trip.
4. Done: command line, `main`, exit codes, files that cannot be read or written.
5. Done, proofs: sessions and `build`, banks, XCODE decoder, injection, simulator,
   bit buffers, command line and `main`.
   Then `NothingSkipped`, `LoadRecovers`, `ExtractRecovers`, `ItemsSpell`, `RawDataRemains`
   and `Decompresses`.
   Left: `RoundTrip` for components it is true of, on the way of `Recovering`.
6. Left, models: the decompressed kernel of `-extr`, as `LzxDecoder` in `XbTool`; the settings.
