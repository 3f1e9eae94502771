-------------------------------- MODULE Cli --------------------------------
(***************************************************************************)
(* parseCli (src/src/cli_tbl.cpp) over the tables of src/src/XbTool.cpp:   *)
(* one command, and switches in any order, given with their value, given   *)
(* by a bare argument, or given as a request for help anywhere.            *)
(*                                                                         *)
(* An argument of the line is [sw, word]: whether it starts with a dash,   *)
(* and what is written behind it.                                          *)
(***************************************************************************)
EXTENDS Naturals, Sequences, FiniteSets

CONSTANTS Lines,       \* the command lines: sequences of arguments
          ShortWords,  \* the words of fewer than two characters
          None         \* the value of a switch that has none

\* cmd_tbl: the switches a command requires and those that bare arguments stand for.
CMD_TBL == {"?", "info", "ls", "extr", "bld", "split", "combine", "xcode-sim", "xcode-decode",
            "x86-encode", "dump-img", "replicate", "compress", "decompress"}
WithInFile == CMD_TBL \ {"?", "info", "bld", "combine"}
requiredSwitches(c) ==
  CASE c = "bld" -> {"bldr", "krnl", "krnldata", "inittbl"}
    [] c \in {"compress", "decompress"} -> {"in", "out"}
    [] c \in WithInFile -> {"in"}
    [] OTHER -> {}
inferredSwitches(c) == CASE c = "combine" -> <<"bank1", "bank2", "bank3", "bank4">>
                         [] c \in WithInFile -> <<"in">>
                         [] OTHER -> <<>>

\* param_tbl: switches with a value (STR, INT) and without one (FLAG).
ValueSwitches == {"in", "out", "romsize", "binsize", "key-krnl", "key-bldr", "mcpx", "bldr",
                  "preldr", "krnl", "krnldata", "inittbl", "pubkey", "certkey", "eepromkey",
                  "simsize", "bank1", "bank2", "bank3", "bank4", "ini", "base", "dir", "xcodes",
                  "offset"}
FlagSwitches == {"enc-bldr", "enc-krnl", "nv2a", "datatbl", "img", "bfm", "d", "nomaxsize", "?",
                 "keys", "hackinittbl", "hacksignature", "nobootparams", "help-all", "help-enc",
                 "branch"}
PARAM_TBL == ValueSwitches \cup FlagSwitches

\* What is missing is no word of a line and no command.
ASSUME LinesAssumption ==
  /\ \A l \in Lines : /\ l \in Seq([sw : BOOLEAN, word : STRING])
                      /\ \A i \in DOMAIN l : l[i].word # None
  /\ None \notin CMD_TBL

Errors == {"no_cmd", "invalid_cmd", "unknown_cmd", "missing_sw", "unknown_sw", "missing_arg",
           "invalid_arg"}

VARIABLES argv,       \* the arguments behind the program's name
          at,         \* which of them is read next
          cmd,        \* the command, or None
          cli_flags,  \* the switches that were seen
          vals,       \* params: the argument behind a switch, or None
          parsed      \* reading | success | an error

cliVars == <<argv, at, cmd, cli_flags, vals, parsed>>

CliInit == /\ argv \in Lines
           /\ at = 1 /\ cmd = None
           /\ cli_flags = {} /\ vals = [s \in ValueSwitches |-> None]
           /\ parsed = "reading"

ParseError(e) == parsed' = e /\ UNCHANGED <<argv, at, cmd, cli_flags, vals>>
-----------------------------------------------------------------------------
OneCharacter(a) == a.word \in IF a.sw THEN {""} ELSE ShortWords

\* The first argument names the command, with a dash or without.
ReadCommand ==
  /\ parsed = "reading" /\ at = 1
  /\ \/ argv = <<>> /\ ParseError("no_cmd")
     \/ argv # <<>> /\ OneCharacter(argv[1]) /\ ParseError("invalid_cmd")
     \/ /\ argv # <<>> /\ ~OneCharacter(argv[1]) /\ argv[1].word \notin CMD_TBL
        /\ ParseError("unknown_cmd")
     \/ /\ argv # <<>> /\ ~OneCharacter(argv[1]) /\ argv[1].word \in CMD_TBL
        /\ cmd' = argv[1].word /\ at' = 2
        /\ UNCHANGED <<argv, cli_flags, vals, parsed>>

Reading == parsed = "reading" /\ at > 1 /\ at <= Len(argv)
Bare == Reading /\ ~argv[at].sw

\* A bare argument is the value of the first switch it may stand for that was not seen.
Free == {j \in DOMAIN inferredSwitches(cmd) : inferredSwitches(cmd)[j] \notin cli_flags}
InferSwitch ==
  /\ Bare /\ Free # {}
  /\ LET s == inferredSwitches(cmd)[CHOOSE j \in Free : \A k \in Free : j <= k] IN
     /\ cli_flags' = cli_flags \cup {s}
     /\ vals' = [vals EXCEPT ![s] = argv[at].word]
  /\ at' = at + 1
  /\ UNCHANGED <<argv, cmd, parsed>>

\* '-? <command>' is taken as '<command> -?'.
Converted(word) == cmd' = IF word \in CMD_TBL THEN word ELSE cmd
\* A bug: the command is converted, the request for help forgotten.
InferForgetful == /\ Bare /\ Free = {} /\ cmd = "?"
                  /\ Converted(argv[at].word)
                  /\ at' = at + 1
                  /\ UNCHANGED <<argv, cli_flags, vals, parsed>>
InferCommand == /\ Bare /\ Free = {} /\ cmd = "?"
                /\ Converted(argv[at].word)
                /\ cli_flags' = cli_flags \cup {"?"}
                /\ at' = at + 1
                /\ UNCHANGED <<argv, vals, parsed>>

BareError == /\ Bare /\ Free = {} /\ cmd # "?"
             /\ ParseError("invalid_arg")

\* A switch.  Once help was asked for, no value is looked for behind it.
Explicit == Reading /\ argv[at].sw
Flagged == cli_flags \cup ({argv[at].word} \cap PARAM_TBL)
WantsValue == argv[at].word \in ValueSwitches /\ "?" \notin Flagged
\* A bug: a switch is taken for the value of the one in front of it.
AnyThere == at < Len(argv)
ValueThere == at < Len(argv) /\ ~argv[at + 1].sw

ValueError == /\ Explicit /\ WantsValue /\ ~ValueThere
              /\ parsed' = IF at = Len(argv) THEN "missing_arg" ELSE "invalid_arg"
              /\ cli_flags' = Flagged
              /\ UNCHANGED <<argv, at, cmd, vals>>

UnknownSwitch == /\ Explicit /\ argv[at].word \notin PARAM_TBL
                 /\ cmd # "?" /\ "?" \notin cli_flags
                 /\ ParseError("unknown_sw")

ReadSwitch ==
  LET taken == IF WantsValue THEN 2 ELSE 1 IN
  /\ Explicit /\ (WantsValue => ValueThere)
  /\ argv[at].word \in PARAM_TBL \/ cmd = "?" \/ "?" \in cli_flags
  /\ vals' = IF WantsValue THEN [vals EXCEPT ![argv[at].word] = argv[at + 1].word] ELSE vals
  /\ IF cmd = "?"   \* and the argument behind is skipped
     THEN /\ Converted(argv[at].word)
          /\ cli_flags' = Flagged \cup {"?"}
          /\ at' = at + taken + 1
     ELSE /\ cli_flags' = Flagged
          /\ at' = at + taken
          /\ UNCHANGED cmd
  /\ UNCHANGED <<argv, parsed>>

\* The end: without a request for help, what the command requires must be there.
ReadEnd ==
  /\ parsed = "reading" /\ at > 1 /\ at > Len(argv)
  /\ parsed' = IF "?" \in cli_flags \/ requiredSwitches(cmd) \subseteq cli_flags
               THEN "success" ELSE "missing_sw"
  /\ UNCHANGED <<argv, at, cmd, cli_flags, vals>>

CliNext == \/ ReadCommand \/ InferSwitch \/ InferCommand \/ BareError
           \/ ValueError \/ UnknownSwitch \/ ReadSwitch \/ ReadEnd
=============================================================================
