------------------------------- MODULE XbMain -------------------------------
(***************************************************************************)
(* main of src/src/XbTool.cpp around its commands: the command line, the   *)
(* checks of its values, help, the key files and the MCPX ROM, then one    *)
(* command, of which only the files and the exit code are followed here.   *)
(* What the commands do to the data is BiosLoad, BiosBuild, XbTool, Banks, *)
(* XcodeDecoder, XcodeInject, XcodeSim and LzxRoundTrip.                   *)
(***************************************************************************)
EXTENDS Cli

CONSTANTS Number,        \* the words that are numbers, with their values
          BiosKilobytes, \* the sizes bios_check_size accepts, in kilobytes
          FileSizes,     \* the sizes a file behind -in may have, in kilobytes
          SimSizes       \* the sizes -simsize accepts

VARIABLES pc,       \* parse | validate | help | keys | mcpx | run | write | exit
          result,   \* main's: the exit code
          ran,      \* the command whose function was called, "help", or None
          readable, \* the files on the line that can be read, by their switch
          size,     \* of the file behind -in, in kilobytes, once it was read
          work,     \* none | done | failed: what the command's own work came to
          out       \* nothing | whole | part: what it has put on disk

mainVars == <<cliVars, pc, result, ran, readable, size, work, out>>

ERROR_FAILED == 1
\* "dir" is where -extr goes before it writes.
InputFiles == {"in", "key-krnl", "key-bldr", "mcpx", "bldr", "krnl", "krnldata", "inittbl",
               "xcodes", "ini", "dir"}

MainInit == /\ CliInit
            /\ pc = "parse" /\ result = 0 /\ ran = None
            \* one file is not there, or of a wrong size, or none is
            /\ \E bad \in {{}} \cup {{f} : f \in InputFiles} : readable = InputFiles \ bad
            /\ size = 0 /\ work = "none" /\ out = "nothing"

Exit(code) == pc' = "exit" /\ result' = code

Parse == /\ pc = "parse" /\ parsed = "reading"
         /\ CliNext
         /\ UNCHANGED <<pc, result, ran, readable, size, work, out>>

\* A line that asks for help gets it, with errors or without.
ParseEnd == /\ pc = "parse" /\ parsed # "reading"
            /\ \/ /\ parsed # "success" /\ "?" \notin cli_flags
                  /\ Exit(ERROR_FAILED)
               \/ /\ parsed = "success" \/ "?" \in cli_flags
                  /\ pc' = "validate" /\ UNCHANGED result
            /\ UNCHANGED <<cliVars, ran, readable, size, work, out>>

\* setParamValue: what is no number is 0, and so is a size whose switch was seen but not
\* its value.
Atoi(word) == IF word \in DOMAIN Number THEN Number[word] ELSE 0
ValidSize(s) == \/ s \notin cli_flags
                \/ Atoi(vals[s]) \in BiosKilobytes
ValidSim == \/ "simsize" \notin cli_flags
            \/ Atoi(vals["simsize"]) \in SimSizes
validateArgs ==
  /\ pc = "validate"
  /\ \/ /\ ~(ValidSize("romsize") /\ ValidSize("binsize") /\ ValidSim)
        /\ Exit(1)
     \/ /\ ValidSize("romsize") /\ ValidSize("binsize") /\ ValidSim
        /\ pc' = IF "?" \in cli_flags THEN "help" ELSE "keys"
        /\ UNCHANGED result
  /\ UNCHANGED <<cliVars, ran, readable, size, work, out>>

help == /\ pc = "help"
        /\ ran' = "help" /\ Exit(0)
        /\ UNCHANGED <<cliVars, readable, size, work, out>>

Given(s) == vals[s] # None
Missing(s) == Given(s) /\ s \notin readable

\* read_keys and read_mcpx: main goes to its end, and result is still 0.
read_keys == /\ pc = "keys"
             /\ IF Missing("key-bldr") \/ Missing("key-krnl") THEN Exit(result)
                ELSE pc' = "mcpx" /\ UNCHANGED result
             /\ UNCHANGED <<cliVars, ran, readable, size, work, out>>
\* The ROM is not there or is none that is known.
read_mcpx == /\ pc = "mcpx"
             /\ IF Missing("mcpx") THEN Exit(result)
                ELSE pc' = "run" /\ UNCHANGED result
             /\ UNCHANGED <<cliVars, ran, readable, size, work, out>>
-----------------------------------------------------------------------------
(* The commands                                                            *)

\* The files a command cannot do without, once it has begun.
Needed(c) == CASE c = "bld" -> {"inittbl", "bldr", "krnl", "krnldata"}
               [] c = "xcode-decode" -> {"in", "ini"}
               [] c = "combine" -> {}    \* Banks has its files
               [] c = "extr" -> {"in", "dir"}
               [] OTHER -> {"in"}
Reads(c) == \A s \in Needed(c) : ~Missing(s)

\* The commands that write what their work came to: always, or with -d.
Writes(c) == \/ c \in {"extr", "bld", "x86-encode", "compress", "decompress", "split",
                       "combine", "replicate"}
             \/ c \in {"xcode-sim", "xcode-decode"} /\ "d" \in cli_flags

\* In kilobytes, after validateArgs.  -replicate takes -romsize where it has no -binsize.
MIN_BIOS_SIZE == 256
romsize == IF "romsize" \in cli_flags THEN Atoi(vals["romsize"]) ELSE MIN_BIOS_SIZE
binsize == IF "binsize" \in cli_flags THEN Atoi(vals["binsize"]) ELSE romsize

\* "Nothing to split" and "Nothing to replicate", for a file of n kilobytes.
NothingToDo(c, n) == \/ c = "split" /\ n <= romsize
                     \/ c = "replicate" /\ n >= binsize

\* What may come of a command's own work on a file of n kilobytes, but for memory that
\* cannot be had.  -split may fail at a name without an extension.
Outcomes(c, n) ==
  IF c \in {"split", "replicate", "extr", "ls"} /\ n \notin BiosKilobytes THEN {"failed"}
  ELSE {"done"} \cup (IF c = "replicate" \/ NothingToDo(c, n) THEN {} ELSE {"failed"})

Run == /\ pc = "run" /\ cmd \notin {"?", "info"}
       /\ ran' = cmd
       /\ \/ /\ ~Reads(cmd)
             /\ Exit(1) /\ UNCHANGED <<size, work>>
          \/ /\ Reads(cmd)
             /\ size' \in IF "in" \in Needed(cmd) THEN FileSizes ELSE {size}
             /\ work' \in Outcomes(cmd, size')
             /\ pc' = "write" /\ UNCHANGED result
       /\ UNCHANGED <<cliVars, readable, out>>

\* -info and -?: print and return 0.
RunInfo == /\ pc = "run" /\ cmd \in {"?", "info"}
           /\ ran' = cmd /\ work' = "done" /\ Exit(0)
           /\ UNCHANGED <<cliVars, readable, size, out>>

\* A bug: the image is written without a look at the result of the build.
Unchecked == {IF cmd = "bld" THEN "done" ELSE work}
\* buildBios injects xcodes into what it has, and their result replaces the build's.
Injected == IF cmd = "bld" /\ "xcodes" \in cli_flags
            THEN IF Missing("xcodes") THEN {"failed"} ELSE {"done", "failed"}
            ELSE {work}

\* Work that failed writes nothing, but for a listing that ends early.
WorkFails == /\ pc = "write" /\ "failed" \in Injected
             /\ out' \in {out} \cup (IF cmd = "xcode-decode" /\ Writes(cmd) THEN {"part"} ELSE {})
             /\ \/ cmd = "x86-encode" /\ Exit(0)
                \/ cmd = "ls" /\ size \in BiosKilobytes /\ Exit(0)   \* the 2BL is invalid
                \/ cmd # "x86-encode" /\ Exit(1)
             /\ UNCHANGED <<cliVars, ran, readable, size, work>>

\* -xcode-sim has nothing to dump when no xcode writes into its range.
NothingToWrite == /\ pc = "write" /\ "done" \in Injected
                  /\ ~Writes(cmd) \/ cmd = "xcode-sim" \/ NothingToDo(cmd, size)
                  /\ Exit(0)
                  /\ UNCHANGED <<cliVars, ran, readable, size, work, out>>

\* writeFile: the file is opened or it is not; what fwrite returns is not looked at.  The
\* file of -xcode-sim is whole with 0 bytes (XcodeSim).
WriteFile == /\ pc = "write" /\ "done" \in Injected
             /\ Writes(cmd) /\ ~NothingToDo(cmd, size)
             /\ \/ out' \in {"whole", "part"} /\ Exit(0)
                \* encodeX86 and extractBios do not pass on that a write failed
                \/ out' = "nothing" /\ Exit(IF cmd \in {"x86-encode", "extr"} THEN 0 ELSE 1)
                \* the banks before the one that failed
                \/ cmd = "split" /\ out' = "part" /\ Exit(1)
             /\ UNCHANGED <<cliVars, ran, readable, size, work>>

MainNext == Parse \/ ParseEnd \/ validateArgs \/ help \/ read_keys \/ read_mcpx
            \/ Run \/ RunInfo \/ WorkFails \/ NothingToWrite \/ WriteFile
MainSpec == MainInit /\ [][MainNext]_mainVars
-----------------------------------------------------------------------------
Commands == CMD_TBL \ {"?", "info"}

\* Who asks for help, wherever on the line, before, behind or instead of a command, and
\* however wrong the rest of the line is, does not run a command.
HelpRunsNothing == (\E i \in DOMAIN argv : argv[i] = [sw |-> TRUE, word |-> "?"]) =>
                     ran \notin Commands

\* A command runs only with a value behind every switch it requires; the value is a bare
\* argument of the line that stands behind its switch, and behind no later occurrence of
\* it, or one that no switch stands in front of.
Behind(s) == {i \in 2 .. Len(argv) - 1 : argv[i] = [sw |-> TRUE, word |-> s]}
ValuesAsGiven ==
  ran \in Commands =>
    /\ \A s \in requiredSwitches(ran) : Given(s)
    /\ \A s \in ValueSwitches :
         /\ Given(s) <=> s \in cli_flags
         /\ Given(s) => \E i \in 2 .. Len(argv) :
              /\ argv[i] = [sw |-> FALSE, word |-> vals[s]]
              /\ IF Behind(s) # {} THEN \A j \in Behind(s) : j < i
                 ELSE ~(argv[i - 1].sw /\ argv[i - 1].word \in ValueSwitches)

\* What the exit code says of the files.  An error means that no file was written whole.
\* 0 means, unless keys or ROM could not be read, that the files the command needs were
\* read and its work was done, but for -x86-encode and -ls, which return 0 anyway, and for
\* -bld with xcodes, whose result is that of the injection.  What came of the work is then
\* in a file, but for -extr and -x86-encode, which ignore a write that fails; -split and
\* -replicate write none exactly when the image has the size it should be brought to.
ExitCodeTells ==
  pc = "exit" =>
    /\ result # 0 => out # "whole"
    /\ result = 0 =>
         \/ ran = "help"
         \/ ran = None /\ \E s \in {"key-bldr", "key-krnl", "mcpx"} : Missing(s)
         \/ /\ ran \in Commands => Reads(ran)
            /\ \/ work = "done" \/ ran \in {"x86-encode", "ls"}
               \/ ran = "bld" /\ "xcodes" \in cli_flags
            /\ ran \in {"bld", "compress", "decompress", "combine"} => out # "nothing"
            /\ ran \in {"split", "replicate"} => (out = "nothing" <=> NothingToDo(ran, size))
=============================================================================
