---- MODULE XbMainProofs ----
(***************************************************************************)
(* Theorems about XbMain: which lines run a command, the values it runs    *)
(* with, and what the exit code says of its files.                         *)
(***************************************************************************)
EXTENDS XbMain, TLAPS

Arguments == [sw : BOOLEAN, word : STRING]

CliTyped ==
  /\ argv \in Seq(Arguments) /\ \A i \in DOMAIN argv : argv[i].word # None
  /\ at \in Nat \ {0}
  /\ at > 1 => cmd \in CMD_TBL
  /\ cli_flags \subseteq PARAM_TBL
  /\ vals \in [ValueSwitches -> STRING \cup {None}]
  /\ parsed \in Errors \cup {"reading", "success"}

\* A request for help that was read is remembered: the command is "?" or the flag is set.
IsHelp(a) == a.sw /\ a.word = "?"
HelpSeen == \A i \in DOMAIN argv : i < at /\ IsHelp(argv[i]) => cmd = "?" \/ "?" \in cli_flags

\* As long as nobody asked for help, no argument was skipped, and none that was read last
\* still waits for its value.
NoHelp == parsed \in {"reading", "success"} /\ "?" \notin cli_flags
Names(a, s) == a.sw /\ a.word = s
NothingPending ==
  NoHelp => /\ at <= Len(argv) + 1
            /\ at > 1 => \A s \in ValueSwitches : ~Names(argv[at - 1], s)

\* ValuesAsGiven, for the arguments in front of `at`.
Named(s) == {j \in DOMAIN argv : 1 < j /\ j < at /\ Names(argv[j], s)}
IsValue(s, i) == ~argv[i].sw /\ argv[i].word = vals[s]
ValueSoFar(s) ==
  /\ vals[s] # None <=> s \in cli_flags
  /\ Named(s) # {} => s \in cli_flags
  /\ s \in cli_flags =>
       \E i \in DOMAIN argv :
         /\ 1 < i /\ i < at /\ IsValue(s, i)
         /\ \A j \in Named(s) : j < i
         /\ Named(s) = {} => \A t \in ValueSwitches : ~Names(argv[i - 1], t)
ValuesSoFar == NoHelp => \A s \in ValueSwitches : ValueSoFar(s)

\* A line was read to its end, and what its command requires was there.
LineRead ==
  parsed = "success" =>
    /\ at > 1 /\ at > Len(argv)
    /\ "?" \in cli_flags \/ requiredSwitches(cmd) \subseteq cli_flags

CliInv == CliTyped /\ HelpSeen /\ NothingPending /\ ValuesSoFar /\ LineRead

\* main, by its place: nothing is run before the line was read without a request for help,
\* nothing written before the command was run.
Begun == {"run", "keys", "mcpx", "write"}
Quiet == ran = None /\ work = "none" /\ out = "nothing" /\ result = 0
MainStage ==
  /\ pc \in {"parse", "validate", "help", "exit"} \cup Begun
  /\ pc \in {"parse", "validate", "help", "keys", "mcpx", "run"} => Quiet
  /\ pc \in Begun => parsed = "success" /\ "?" \notin cli_flags
  /\ pc = "validate" => parsed = "success" \/ "?" \in cli_flags
  /\ pc = "write" => /\ ran = cmd /\ cmd \in Commands /\ Reads(cmd)
                     /\ work \in {"done", "failed"} /\ out = "nothing" /\ result = 0
  /\ pc # "parse" => parsed # "reading"
  /\ ran \in Commands => parsed = "success" /\ "?" \notin cli_flags /\ ran = cmd

MainInv == CliInv /\ MainStage /\ ExitCodeTells

-----------------------------------------------------------------------------
\* What the tables say of each other.
LEMMA Tables ==
  /\ ValueSwitches \subseteq PARAM_TBL /\ "?" \in PARAM_TBL /\ "?" \notin ValueSwitches
  /\ "?" \in CMD_TBL /\ \A c \in CMD_TBL : c \notin ValueSwitches
  /\ inferredSwitches("?") = <<>>
  /\ \A c \in CMD_TBL : requiredSwitches(c) \subseteq ValueSwitches
<1>1. "?" \in PARAM_TBL /\ "?" \notin ValueSwitches /\ ValueSwitches \subseteq PARAM_TBL
  BY DEF PARAM_TBL, ValueSwitches, FlagSwitches
<1>2. "?" \in CMD_TBL /\ \A c \in CMD_TBL : c \notin ValueSwitches
  BY DEF CMD_TBL, ValueSwitches
<1>3. inferredSwitches("?") = <<>>
  BY DEF inferredSwitches, WithInFile
<1>4. ASSUME NEW c \in CMD_TBL
      PROVE  requiredSwitches(c) \subseteq ValueSwitches
  BY DEF requiredSwitches, WithInFile, ValueSwitches
<1> QED BY <1>1, <1>2, <1>3, <1>4

\* A bare argument stands for a switch with a value that was not seen before.
LEMMA FreeSwitch ==
  ASSUME NEW c \in CMD_TBL, NEW F, F \subseteq DOMAIN inferredSwitches(c), F # {}
  PROVE  LET j == CHOOSE j \in F : \A k \in F : j <= k IN
         j \in F /\ inferredSwitches(c)[j] \in ValueSwitches
<1> DEFINE l == inferredSwitches(c)
<1>1. l \in {<<>>, <<"in">>, <<"bank1", "bank2", "bank3", "bank4">>}
  BY DEF inferredSwitches
<1>2. DOMAIN l \subseteq {1, 2, 3, 4} /\ \A j \in DOMAIN l : l[j] \in ValueSwitches
  <2>1. CASE l = <<>>
    BY <2>1
  <2>2. CASE l = <<"in">>
    BY <2>2 DEF ValueSwitches
  <2>3. CASE l = <<"bank1", "bank2", "bank3", "bank4">>
    BY <2>3 DEF ValueSwitches
  <2> QED BY <1>1, <2>1, <2>2, <2>3
<1> HIDE DEF l
<1>3. \E j \in F : \A k \in F : j <= k
  <2>1. F \subseteq {1, 2, 3, 4}
    BY <1>2 DEF l
  <2>2. \A j, k \in F : j \in Nat /\ k \in Nat
    BY <2>1
  <2>3. 1 \in F \/ 2 \in F \/ 3 \in F \/ 4 \in F
    BY <2>1
  <2> QED BY <2>1, <2>3
<1> QED BY <1>2, <1>3 DEF l

LEMMA ArgumentsTyped ==
  ASSUME CliTyped, NEW i \in DOMAIN argv
  PROVE  /\ argv[i].sw \in BOOLEAN /\ argv[i].word \in STRING /\ argv[i].word # None
         /\ i \in 1 .. Len(argv) /\ Len(argv) \in Nat
<1>1. argv \in Seq(Arguments) /\ argv[i].word # None
  BY DEF CliTyped
<1>2. i \in 1 .. Len(argv) /\ Len(argv) \in Nat /\ argv[i] \in Arguments
  BY <1>1
<1> QED BY <1>1, <1>2 DEF Arguments

LEMMA AtInside ==
  ASSUME CliTyped, Reading
  PROVE  at \in DOMAIN argv /\ at \in Nat /\ at > 1 /\ cmd \in CMD_TBL /\ parsed = "reading"
BY DEF CliTyped, Reading

\* What was said of a switch stays true while nothing names it.
LEMMA ValueKept ==
  ASSUME CliTyped, NEW s \in ValueSwitches, ValueSoFar(s),
         argv' = argv, vals'[s] = vals[s], s \in cli_flags' <=> s \in cli_flags,
         at' \in Nat, at <= at',
         \A j \in DOMAIN argv : 1 < j /\ at <= j /\ j < at' => ~Names(argv[j], s)
  PROVE  ValueSoFar(s)'
<1>1. Named(s)' = Named(s)
  BY DEF Named, CliTyped
<1> QED BY <1>1 DEF ValueSoFar, IsValue, CliTyped

-----------------------------------------------------------------------------
LEMMA CliInitially == CliInit => CliInv
<1> SUFFICES ASSUME CliInit PROVE CliInv
  OBVIOUS
<1>1. CliTyped
  BY LinesAssumption DEF CliInit, CliTyped, Arguments
<1>2. at = 1 /\ parsed = "reading" /\ cli_flags = {} /\ \A s \in ValueSwitches : vals[s] = None
  BY DEF CliInit
<1>3. HelpSeen /\ NothingPending /\ LineRead
  BY <1>1, <1>2, ArgumentsTyped DEF CliTyped, HelpSeen, NothingPending, LineRead
<1>4. ASSUME NEW s \in ValueSwitches
      PROVE  ValueSoFar(s)
  <2>1. Named(s) = {}
    BY <1>1, <1>2, ArgumentsTyped DEF Named
  <2> QED BY <1>2, <2>1 DEF ValueSoFar
<1> QED BY <1>1, <1>3, <1>4 DEF CliInv, ValuesSoFar

\* An error is met: nothing more is read.
LEMMA ErrorKeeps ==
  ASSUME CliInv, UNCHANGED <<argv, at, cmd, vals>>, parsed' \in Errors,
         cli_flags \subseteq cli_flags', cli_flags' \subseteq PARAM_TBL
  PROVE  CliInv'
<1>1. parsed' \notin {"reading", "success"}
  BY DEF Errors
<1> QED BY <1>1 DEF CliInv, CliTyped, HelpSeen, NothingPending, ValuesSoFar, LineRead, NoHelp, IsHelp

\* Help is asked for: the line's values are of no use any more.
LEMMA HelpKeeps ==
  ASSUME CliInv, UNCHANGED <<argv, parsed>>, parsed = "reading", at' \in Nat \ {0},
         cmd' \in CMD_TBL, cli_flags' \subseteq PARAM_TBL, "?" \in cli_flags',
         vals' \in [ValueSwitches -> STRING \cup {None}]
  PROVE  CliInv'
BY DEF CliInv, CliTyped, HelpSeen, NothingPending, ValuesSoFar, LineRead, NoHelp

LEMMA ReadCommandKeeps ==
  ASSUME CliInv, ReadCommand
  PROVE  CliInv'
<1>1. CASE ParseError("no_cmd") \/ ParseError("invalid_cmd") \/ ParseError("unknown_cmd")
  <2>1. parsed' \in Errors
    BY <1>1 DEF ParseError, Errors
  <2> QED BY <1>1, <2>1, ErrorKeeps DEF ParseError, CliInv, CliTyped
<1>2. CASE /\ argv # <<>> /\ argv[1].word \in CMD_TBL /\ cmd' = argv[1].word /\ at' = 2
           /\ UNCHANGED <<argv, cli_flags, vals, parsed>>
  <2> USE DEF CliInv
  <2>1. at = 1 /\ parsed = "reading" /\ 1 \in DOMAIN argv
    BY <1>2 DEF ReadCommand, CliTyped
  <2>2. CliTyped'
    BY <1>2, <2>1 DEF CliTyped
  <2>3. HelpSeen'
    BY <1>2, <2>1, ArgumentsTyped DEF HelpSeen, IsHelp
  <2>4. NothingPending'
    BY <1>2, <2>1, ArgumentsTyped, Tables DEF NothingPending, NoHelp, Names
  <2>5. ValuesSoFar'
    <3> SUFFICES ASSUME NoHelp', NEW s \in ValueSwitches
                 PROVE  ValueSoFar(s)'
      BY DEF ValuesSoFar
    <3>1. ValueSoFar(s)
      BY <1>2, <2>1 DEF ValuesSoFar, NoHelp
    <3> QED BY <1>2, <2>1, <3>1, ValueKept, ArgumentsTyped
  <2>6. LineRead'
    BY <1>2, <2>1 DEF LineRead
  <2> QED BY <2>2, <2>3, <2>4, <2>5, <2>6
<1> QED BY <1>1, <1>2 DEF ReadCommand

LEMMA InferSwitchKeeps ==
  ASSUME CliInv, InferSwitch
  PROVE  CliInv'
<1> USE DEF CliInv
<1> DEFINE j0 == CHOOSE j \in Free : \A k \in Free : j <= k
           s0 == inferredSwitches(cmd)[j0]
<1>1. /\ at \in DOMAIN argv /\ at \in Nat /\ at > 1 /\ cmd \in CMD_TBL /\ parsed = "reading"
      /\ ~argv[at].sw /\ argv[at].word \in STRING /\ argv[at].word # None
  BY AtInside, ArgumentsTyped DEF InferSwitch, Bare
<1>2. j0 \in Free /\ s0 \in ValueSwitches
  <2>1. Free \subseteq DOMAIN inferredSwitches(cmd) /\ Free # {}
    BY DEF InferSwitch, Free
  <2> QED BY <1>1, <2>1, FreeSwitch
<1>3. s0 \notin cli_flags /\ s0 # "?" /\ s0 \in PARAM_TBL
  BY <1>2, Tables DEF Free
<1>4. /\ cli_flags' = cli_flags \cup {s0} /\ vals' = [vals EXCEPT ![s0] = argv[at].word]
      /\ at' = at + 1 /\ UNCHANGED <<argv, cmd, parsed>>
  BY DEF InferSwitch
<1> HIDE DEF j0, s0
<1>5. CliTyped'
  BY <1>1, <1>2, <1>3, <1>4 DEF CliTyped
<1>6. HelpSeen'
  BY <1>1, <1>4, ArgumentsTyped DEF HelpSeen, IsHelp
<1>7. NothingPending'
  BY <1>1, <1>3, <1>4, ArgumentsTyped DEF NothingPending, NoHelp, Names
<1>8. ValuesSoFar'
  <2> SUFFICES ASSUME NoHelp', NEW s \in ValueSwitches
               PROVE  ValueSoFar(s)'
    BY DEF ValuesSoFar
  <2>1. NoHelp /\ ValueSoFar(s)
    BY <1>3, <1>4 DEF NoHelp, ValuesSoFar
  <2>2. \A t : ~Names(argv[at], t)
    BY <1>1 DEF Names
  <2>3. CASE s # s0
    <3>1. vals'[s] = vals[s] /\ (s \in cli_flags' <=> s \in cli_flags) /\ at' \in Nat /\ at <= at'
      BY <1>1, <1>4, <2>3 DEF CliTyped
    <3>2. \A j \in DOMAIN argv : 1 < j /\ at <= j /\ j < at' => ~Names(argv[j], s)
      BY <1>1, <1>4, <2>2, ArgumentsTyped
    <3> QED BY <1>4, <2>1, <3>1, <3>2, ValueKept
  <2>4. CASE s = s0
    <3>1. Named(s) = {}
      BY <1>3, <2>1, <2>4 DEF ValueSoFar
    <3>2. Named(s)' = {}
      BY <1>1, <1>4, <2>2, <3>1, ArgumentsTyped DEF Named
    <3>3. vals'[s] = argv[at].word /\ s \in cli_flags'
      BY <1>2, <1>4, <2>4 DEF CliTyped
    <3>4. \A t \in ValueSwitches : ~Names(argv[at - 1], t)
      BY <1>1, <2>1 DEF NothingPending
    <3>5. \E i \in DOMAIN argv :
            /\ 1 < i /\ i < at' /\ ~argv[i].sw /\ argv[i].word = vals'[s]
            /\ \A t \in ValueSwitches : ~Names(argv[i - 1], t)
      BY <1>1, <1>4, <3>3, <3>4
    <3>6. vals'[s] # None /\ argv' = argv
      BY <1>1, <1>4, <3>3
    <3> QED BY <3>2, <3>3, <3>5, <3>6 DEF ValueSoFar, IsValue
  <2> QED BY <2>3, <2>4
<1>9. LineRead'
  BY <1>1, <1>4 DEF LineRead
<1> QED BY <1>5, <1>6, <1>7, <1>8, <1>9

LEMMA InferCommandKeeps ==
  ASSUME CliInv, InferCommand
  PROVE  CliInv'
<1>1. at' \in Nat \ {0} /\ cmd \in CMD_TBL /\ parsed = "reading"
  BY AtInside DEF InferCommand, Bare, CliInv
<1>2. cmd' \in CMD_TBL
  BY <1>1 DEF InferCommand, Converted
<1>3. "?" \in cli_flags' /\ cli_flags' \subseteq PARAM_TBL
  BY Tables DEF InferCommand, CliInv, CliTyped
<1>4. UNCHANGED <<argv, vals, parsed>>
  BY DEF InferCommand
<1> QED BY <1>1, <1>2, <1>3, <1>4, HelpKeeps DEF CliInv, CliTyped

LEMMA ErrorsKeep ==
  ASSUME CliInv, BareError \/ ValueError \/ UnknownSwitch
  PROVE  CliInv'
<1>1. CASE BareError \/ UnknownSwitch
  <2>1. parsed' \in Errors /\ UNCHANGED <<argv, at, cmd, cli_flags, vals>>
    BY <1>1 DEF BareError, UnknownSwitch, ParseError, Errors
  <2> QED BY <2>1, ErrorKeeps DEF CliInv, CliTyped
<1>2. CASE ValueError
  <2>1. parsed' \in Errors /\ UNCHANGED <<argv, at, cmd, vals>>
    BY <1>2 DEF ValueError, Errors
  <2>2. cli_flags \subseteq cli_flags' /\ cli_flags' \subseteq PARAM_TBL
    BY <1>2 DEF ValueError, Flagged, CliInv, CliTyped
  <2> QED BY <2>1, <2>2, ErrorKeeps
<1> QED BY <1>1, <1>2

\* A switch and, where it wants one, its value.
LEMMA ReadSwitchKeeps ==
  ASSUME CliInv, ReadSwitch
  PROVE  CliInv'
<1> USE DEF CliInv
<1> DEFINE w == argv[at].word
           taken == IF WantsValue THEN 2 ELSE 1
<1>1. /\ at \in DOMAIN argv /\ at \in Nat /\ at > 1 /\ cmd \in CMD_TBL /\ parsed = "reading"
      /\ argv[at].sw /\ w \in STRING
      /\ WantsValue => w \in ValueSwitches /\ at + 1 \in DOMAIN argv /\ ~argv[at + 1].sw
  BY AtInside, ArgumentsTyped DEF ReadSwitch, Explicit, ValueThere, WantsValue, CliTyped
<1>2. /\ vals' = (IF WantsValue THEN [vals EXCEPT ![w] = argv[at + 1].word] ELSE vals)
      /\ UNCHANGED <<argv, parsed>>
      /\ cmd = "?" => /\ Converted(w)
                      /\ cli_flags' = Flagged \cup {"?"} /\ at' = at + taken + 1
      /\ cmd # "?" => cli_flags' = Flagged /\ at' = at + taken /\ cmd' = cmd
  BY DEF ReadSwitch
<1>3. vals' \in [ValueSwitches -> STRING \cup {None}]
  <2>1. WantsValue => argv[at + 1].word \in STRING
    BY <1>1, ArgumentsTyped
  <2> QED BY <1>1, <1>2, <2>1 DEF CliTyped
<1>4. Flagged \subseteq PARAM_TBL
  BY DEF Flagged, CliTyped
<1>5. CASE cmd = "?" \/ "?" \in Flagged
  <2>1. at' \in Nat \ {0}
    BY <1>1, <1>2
  <2>2. cmd' \in CMD_TBL /\ cli_flags' \subseteq PARAM_TBL /\ "?" \in cli_flags'
    BY <1>1, <1>2, <1>4, <1>5, Tables DEF Converted
  <2> QED BY <1>1, <1>2, <1>3, <2>1, <2>2, HelpKeeps
<1>6. CASE cmd # "?" /\ "?" \notin Flagged
  <2>1. /\ cli_flags' = cli_flags \cup {w} /\ w \in PARAM_TBL /\ w # "?"
        /\ at' = at + taken /\ UNCHANGED cmd /\ (WantsValue <=> w \in ValueSwitches)
    BY <1>2, <1>6 DEF Flagged, ReadSwitch, WantsValue
  <2>2. at' \in Nat \ {0} /\ at < at' /\ at' <= Len(argv) + 1
    BY <1>1, <2>1, ArgumentsTyped DEF CliTyped
  <2>3. CliTyped'
    BY <1>1, <1>2, <1>3, <2>1, <2>2 DEF CliTyped
  <2>4. \A j \in DOMAIN argv : at <= j /\ j < at' => j = at \/ (j = at + 1 /\ WantsValue)
    BY <1>1, <2>1, ArgumentsTyped
  <2>5. \A j \in DOMAIN argv : at <= j /\ j < at' => ~IsHelp(argv[j])
    BY <1>1, <2>1, <2>4 DEF IsHelp
  <2>6. HelpSeen'
    <3> SUFFICES ASSUME NEW i \in DOMAIN argv, i < at', IsHelp(argv[i])
                 PROVE  cmd = "?" \/ "?" \in cli_flags
      BY <1>2, <2>1 DEF HelpSeen
    <3>1. i < at
      BY <1>1, <2>5, ArgumentsTyped
    <3> QED BY <3>1 DEF HelpSeen
  <2>7. at' - 1 \in DOMAIN argv /\ at <= at' - 1 /\ at' - 1 < at'
    BY <1>1, <2>1, <2>2, ArgumentsTyped DEF CliTyped
  <2>8. \A s \in ValueSwitches : ~Names(argv[at' - 1], s)
    <3>1. CASE WantsValue
      <4>1. at' - 1 = at + 1 /\ ~argv[at + 1].sw
        BY <1>1, <2>1, <3>1
      <4> QED BY <4>1 DEF Names
    <3>2. CASE ~WantsValue
      <4>1. at' - 1 = at /\ w \notin ValueSwitches
        BY <1>1, <2>1, <3>2
      <4> QED BY <4>1 DEF Names
    <3> QED BY <3>1, <3>2
  <2>9. NothingPending'
    BY <1>2, <2>2, <2>8 DEF NothingPending
  <2>10. ValuesSoFar'
    <3> SUFFICES ASSUME NoHelp', NEW s \in ValueSwitches
                 PROVE  ValueSoFar(s)'
      BY DEF ValuesSoFar
    <3>1. NoHelp /\ ValueSoFar(s)
      BY <1>2, <2>1 DEF NoHelp, ValuesSoFar
    <3>2. CASE s # w
      <4>1. vals'[s] = vals[s] /\ (s \in cli_flags' <=> s \in cli_flags)
        BY <1>1, <1>2, <2>1, <3>2 DEF CliTyped
      <4>2. \A j \in DOMAIN argv : 1 < j /\ at <= j /\ j < at' => ~Names(argv[j], s)
        BY <1>1, <2>4, <3>2 DEF Names
      <4>3. at' \in Nat /\ at <= at'
        BY <1>1, <2>2
      <4> QED BY <1>2, <3>1, <4>1, <4>2, <4>3, ValueKept
    <3>3. CASE s = w
      <4>1. WantsValue /\ at' = at + 2
        BY <2>1, <3>3
      <4>2. at + 1 \in DOMAIN argv /\ argv[at + 1].word # None /\ ~argv[at + 1].sw
        BY <1>1, <4>1, ArgumentsTyped
      <4>3. vals'[s] = argv[at + 1].word /\ s \in cli_flags'
        BY <1>1, <1>2, <2>1, <3>3, <4>1 DEF CliTyped
      <4>4. at \in Named(s)'
        BY <1>1, <1>2, <2>2, <3>3 DEF Named, Names
      <4>5. \A j \in Named(s)' : j < at + 1
        BY <1>1, <1>2, <4>1, <4>2, ArgumentsTyped DEF Named, Names
      <4>6. \E i \in DOMAIN argv :
              /\ 1 < i /\ i < at' /\ ~argv[i].sw /\ argv[i].word = vals'[s]
              /\ \A j \in Named(s)' : j < i
        BY <1>1, <4>1, <4>2, <4>3, <4>5
      <4>7. vals'[s] # None /\ argv' = argv /\ Named(s)' # {}
        BY <1>2, <4>2, <4>3, <4>4
      <4> QED BY <4>3, <4>6, <4>7 DEF ValueSoFar, IsValue
    <3> QED BY <3>2, <3>3
  <2>11. LineRead'
    BY <1>1, <1>2 DEF LineRead
  <2> QED BY <2>3, <2>6, <2>9, <2>10, <2>11
<1> QED BY <1>5, <1>6

LEMMA ReadEndKeeps ==
  ASSUME CliInv, ReadEnd
  PROVE  CliInv'
<1> USE DEF CliInv
<1>1. parsed = "reading" /\ parsed' \in {"success", "missing_sw"} /\ UNCHANGED <<argv, at, cmd, cli_flags, vals>>
  BY DEF ReadEnd
<1>2. CASE parsed' = "missing_sw"
  <2>1. parsed' \in Errors
    BY <1>2 DEF Errors
  <2> QED BY <1>1, <2>1, ErrorKeeps DEF CliTyped
<1>3. CASE parsed' = "success"
  <2>1. LineRead'
    BY <1>1, <1>3 DEF ReadEnd, LineRead
  <2>2. CliTyped' /\ HelpSeen' /\ NothingPending'
    BY <1>1, <1>3 DEF CliTyped, HelpSeen, NothingPending, NoHelp
  <2>3. ValuesSoFar'
    BY <1>1, <1>3 DEF ValuesSoFar, NoHelp, ValueSoFar, Named, IsValue
  <2> QED BY <2>1, <2>2, <2>3
<1> QED BY <1>1, <1>2, <1>3

LEMMA CliKeeps ==
  ASSUME CliInv, CliNext
  PROVE  CliInv'
BY ReadCommandKeeps, InferSwitchKeeps, InferCommandKeeps, ErrorsKeep, ReadSwitchKeeps,
   ReadEndKeeps DEF CliNext

LEMMA CliUnchanged ==
  ASSUME CliInv, UNCHANGED cliVars
  PROVE  CliInv'
BY DEF cliVars, CliInv, CliTyped, HelpSeen, NothingPending, NoHelp, ValuesSoFar, ValueSoFar,
       Named, IsValue, LineRead

-----------------------------------------------------------------------------
LEMMA MainInitially == MainInit => MainInv
<1> SUFFICES ASSUME MainInit PROVE MainInv
  OBVIOUS
<1>1. CliInv
  BY CliInitially DEF MainInit
<1>2. pc = "parse" /\ Quiet /\ ran \notin Commands
  <2>1. None \notin Commands
    BY LinesAssumption DEF Commands
  <2> QED BY <2>1 DEF MainInit, Quiet
<1> QED BY <1>1, <1>2 DEF MainInv, MainStage, ExitCodeTells, Begun

LEMMA NoCommands == None \notin Commands /\ "help" \notin Commands
<1>1. "help" \notin Commands
  BY DEF Commands, CMD_TBL
<1> QED BY <1>1, LinesAssumption DEF Commands

LEMMA ParseKeeps ==
  ASSUME MainInv, Parse
  PROVE  MainInv'
<1>1. CliInv'
  BY CliKeeps DEF MainInv, Parse
<1>2. /\ pc = "parse" /\ ran = None /\ Quiet
      /\ UNCHANGED <<pc, result, ran, readable, work, out>>
  BY DEF MainInv, MainStage, Parse, Quiet
<1>3. MainStage'
  BY <1>2, NoCommands DEF MainStage, Quiet, Begun
<1> QED BY <1>1, <1>2, <1>3 DEF MainInv, ExitCodeTells

LEMMA ParseEndKeeps ==
  ASSUME MainInv, ParseEnd
  PROVE  MainInv'
<1>1. CliInv' /\ UNCHANGED <<cli_flags, parsed, cmd>>
  BY CliUnchanged DEF MainInv, ParseEnd, cliVars
<1>2. /\ pc = "parse" /\ parsed # "reading" /\ Quiet
      /\ UNCHANGED <<ran, readable, work, out>>
      /\ \/ pc' = "exit" /\ result' = ERROR_FAILED
         \/ /\ parsed = "success" \/ "?" \in cli_flags
            /\ pc' = "validate" /\ UNCHANGED result
  BY DEF MainInv, MainStage, ParseEnd, Exit
<1>3. MainStage'
  BY <1>1, <1>2, NoCommands DEF MainStage, Quiet, Begun
<1>4. ExitCodeTells'
  BY <1>2 DEF ExitCodeTells, Quiet, ERROR_FAILED
<1> QED BY <1>1, <1>3, <1>4 DEF MainInv

LEMMA validateArgsKeeps ==
  ASSUME MainInv, validateArgs
  PROVE  MainInv'
<1>1. CliInv' /\ UNCHANGED <<cli_flags, parsed, cmd>>
  BY CliUnchanged DEF MainInv, validateArgs, cliVars
<1>2. /\ pc = "validate" /\ Quiet /\ parsed # "reading"
      /\ parsed = "success" \/ "?" \in cli_flags
      /\ UNCHANGED <<ran, readable, work, out>>
      /\ \/ pc' = "exit" /\ result' = 1
         \/ "?" \in cli_flags /\ pc' = "help" /\ UNCHANGED result
         \/ "?" \notin cli_flags /\ pc' = "keys" /\ UNCHANGED result
  BY DEF MainInv, MainStage, validateArgs, Exit
<1>3. MainStage'
  BY <1>1, <1>2, NoCommands DEF MainStage, Quiet, Begun
<1>4. ExitCodeTells'
  BY <1>2 DEF ExitCodeTells, Quiet
<1> QED BY <1>1, <1>3, <1>4 DEF MainInv

LEMMA helpKeeps ==
  ASSUME MainInv, help
  PROVE  MainInv'
<1>1. CliInv'
  BY CliUnchanged DEF MainInv, help
<1>2. /\ pc = "help" /\ Quiet /\ parsed' # "reading"
      /\ UNCHANGED <<readable, work, out>>
      /\ ran' = "help" /\ pc' = "exit" /\ result' = 0
  BY DEF MainInv, MainStage, help, Exit, cliVars
<1>3. MainStage'
  BY <1>2, NoCommands DEF MainStage, Begun
<1>4. ExitCodeTells'
  BY <1>2 DEF ExitCodeTells
<1> QED BY <1>1, <1>3, <1>4 DEF MainInv

\* read_keys and read_mcpx: one of the files is missing, or the next step is taken.
LEMMA FilesKeep ==
  ASSUME MainInv, read_keys \/ read_mcpx
  PROVE  MainInv'
<1>1. CliInv' /\ UNCHANGED <<cli_flags, parsed, cmd, vals, readable>>
  BY CliUnchanged DEF MainInv, read_keys, read_mcpx, cliVars
<1>2. /\ pc \in Begun /\ Quiet /\ parsed = "success" /\ "?" \notin cli_flags
      /\ UNCHANGED <<ran, work, out>>
      /\ \/ pc' = "exit" /\ result' = result /\ \E s \in {"key-bldr", "key-krnl", "mcpx"} : Missing(s)
         \/ pc' \in {"mcpx", "run"} /\ UNCHANGED result
  BY DEF MainInv, MainStage, read_keys, read_mcpx, Exit, Begun
<1>3. MainStage'
  BY <1>1, <1>2, NoCommands DEF MainStage, Quiet, Begun
<1>4. ExitCodeTells'
  <2>1. (\E s \in {"key-bldr", "key-krnl", "mcpx"} : Missing(s)) =>
          (\E s \in {"key-bldr", "key-krnl", "mcpx"} : Missing(s)')
    BY <1>1 DEF Missing, Given
  <2> QED BY <1>2, <2>1 DEF ExitCodeTells, Quiet
<1> QED BY <1>1, <1>3, <1>4 DEF MainInv

LEMMA CommandOnLine ==
  ASSUME MainInv, parsed = "success"
  PROVE  cmd \in CMD_TBL
BY DEF MainInv, CliInv, LineRead, CliTyped

\* What the command needs, and whether it has something to do, is not changed by it.
LEMMA SameCommand ==
  ASSUME UNCHANGED <<cliVars, readable, size>>
  PROVE  /\ Reads(cmd)' <=> Reads(cmd)
         /\ NothingToDo(cmd, size)' <=> NothingToDo(cmd, size)
<1>1. UNCHANGED <<cmd, vals, cli_flags, readable, size>>
  BY DEF cliVars
<1>2. Reads(cmd)' <=> Reads(cmd)
  BY <1>1 DEF Reads, Missing, Given
<1>3. NothingToDo(cmd, size)' <=> NothingToDo(cmd, size)
  BY <1>1 DEF NothingToDo, romsize, binsize, Atoi
<1> QED BY <1>2, <1>3

LEMMA RunKeeps ==
  ASSUME MainInv, Run \/ RunInfo
  PROVE  MainInv'
<1>1. CliInv' /\ UNCHANGED <<cli_flags, parsed, cmd, vals, readable>>
  BY CliUnchanged DEF MainInv, Run, RunInfo, cliVars
<1>2. /\ pc = "run" /\ Quiet /\ parsed = "success" /\ "?" \notin cli_flags
      /\ ran' = cmd /\ out' = out
  BY DEF MainInv, MainStage, Run, RunInfo, Begun
<1>3. cmd \in CMD_TBL
  BY <1>2, CommandOnLine
<1>4. CASE RunInfo
  <2>1. cmd \in {"?", "info"} /\ pc' = "exit" /\ result' = 0 /\ work' = "done"
    BY <1>4 DEF RunInfo, Exit
  <2>2. MainStage'
    BY <1>1, <1>2, <2>1, NoCommands DEF MainStage, Begun, Commands
  <2>3. ExitCodeTells'
    BY <1>2, <2>1 DEF ExitCodeTells, Commands
  <2> QED BY <1>1, <2>2, <2>3 DEF MainInv
<1>5. CASE Run
  <2>1. /\ cmd \in Commands
        /\ \/ pc' = "exit" /\ result' = 1
           \/ Reads(cmd) /\ work' \in {"done", "failed"} /\ pc' = "write" /\ result' = result
    BY <1>3, <1>5 DEF Run, Exit, Commands, Outcomes
  <2>2. Reads(cmd) => Reads(cmd)'
    BY <1>1 DEF Reads, Missing, Given
  <2>3. MainStage'
    BY <1>1, <1>2, <2>1, <2>2 DEF MainStage, Begun, Quiet
  <2>4. ExitCodeTells'
    BY <1>2, <2>1 DEF ExitCodeTells, Quiet
  <2> QED BY <1>1, <2>3, <2>4 DEF MainInv
<1> QED BY <1>4, <1>5

\* What a command has done is done, or buildBios has the injection's result instead.
LEMMA DoneInjected ==
  ASSUME "done" \in Injected
  PROVE  work = "done" \/ (cmd = "bld" /\ "xcodes" \in cli_flags)
BY DEF Injected

LEMMA WriteKeeps ==
  ASSUME MainInv, WorkFails \/ NothingToWrite \/ WriteFile
  PROVE  MainInv'
<1>1. CliInv' /\ UNCHANGED <<cli_flags, parsed, cmd>>
  BY CliUnchanged DEF MainInv, WorkFails, NothingToWrite, WriteFile, cliVars
<1>2. /\ pc = "write" /\ ran = cmd /\ out = "nothing" /\ cmd \in Commands /\ Reads(cmd)
      /\ parsed = "success" /\ "?" \notin cli_flags
      /\ UNCHANGED <<ran, work, size>> /\ pc' = "exit"
  BY DEF MainInv, MainStage, WorkFails, NothingToWrite, WriteFile, Begun, Exit
<1>3. MainStage'
  BY <1>1, <1>2 DEF MainStage, Begun
<1>4. UNCHANGED <<cliVars, readable, size>>
  BY DEF WorkFails, NothingToWrite, WriteFile
<1>5. Reads(ran)' /\ (NothingToDo(ran, size)' <=> NothingToDo(cmd, size))
  <2>1. Reads(cmd)' /\ (NothingToDo(cmd, size)' <=> NothingToDo(cmd, size))
    BY <1>2, <1>4, SameCommand
  <2> QED BY <1>1, <1>2, <2>1
<1>6. CASE WorkFails
  <2>1. out' \in {"nothing", "part"} /\ (cmd \in {"x86-encode", "ls"} \/ result' = 1)
    BY <1>2, <1>6 DEF WorkFails, Exit
  <2>2. ExitCodeTells'
    BY <1>2, <1>5, <2>1 DEF ExitCodeTells
  <2> QED BY <1>1, <1>3, <2>2 DEF MainInv
<1>7. CASE NothingToWrite
  <2>1. /\ out' = "nothing" /\ result' = 0
        /\ work = "done" \/ (cmd = "bld" /\ "xcodes" \in cli_flags)
    BY <1>2, <1>7, DoneInjected DEF NothingToWrite, Exit
  <2>2. /\ cmd \notin {"bld", "compress", "decompress", "combine"}
        /\ cmd \in {"split", "replicate"} => NothingToDo(cmd, size)
    BY <1>7 DEF NothingToWrite, Writes, NothingToDo
  <2>3. ExitCodeTells'
    BY <1>1, <1>2, <1>5, <2>1, <2>2 DEF ExitCodeTells
  <2> QED BY <1>1, <1>3, <2>3 DEF MainInv
<1>8. CASE WriteFile
  <2>1. /\ work = "done" \/ (cmd = "bld" /\ "xcodes" \in cli_flags)
        /\ ~NothingToDo(cmd, size)
    BY <1>8, DoneInjected DEF WriteFile
  <2>2. \/ out' \in {"whole", "part"} /\ result' = 0
        \/ out' = "nothing" /\ (cmd \in {"x86-encode", "extr"} \/ result' = 1)
        \/ out' = "part" /\ result' = 1
    BY <1>8 DEF WriteFile, Exit
  <2>3. result' # 0 => out' # "whole"
    <3>1. CASE out' \in {"whole", "part"} /\ result' = 0
      BY <3>1
    <3>2. CASE out' # "whole"
      BY <3>2
    <3> QED BY <2>2, <3>1, <3>2
  <2>4. result' = 0 => out' # "nothing" \/ cmd \in {"x86-encode", "extr"}
    BY <2>2
  <2>5. ExitCodeTells'
    BY <1>1, <1>2, <1>5, <2>1, <2>3, <2>4 DEF ExitCodeTells
  <2> QED BY <1>1, <1>3, <2>5 DEF MainInv
<1> QED BY <1>6, <1>7, <1>8

LEMMA MainUnchanged ==
  ASSUME MainInv, UNCHANGED mainVars
  PROVE  MainInv'
<1>1. CliInv' /\ UNCHANGED <<cli_flags, parsed, cmd, vals, pc, result, ran, readable, size, work, out>>
  BY CliUnchanged DEF MainInv, mainVars, cliVars
<1>2. /\ Reads(cmd)' <=> Reads(cmd)
      /\ Reads(ran)' <=> Reads(ran)
      /\ NothingToDo(ran, size)' <=> NothingToDo(ran, size)
  BY <1>1 DEF Reads, Missing, Given, NothingToDo, romsize, binsize, Atoi
<1>3. MainStage'
  BY <1>1, <1>2 DEF MainInv, MainStage, Quiet, Begun
<1>4. ExitCodeTells'
  BY <1>1, <1>2 DEF MainInv, ExitCodeTells, Missing, Given
<1> QED BY <1>1, <1>3, <1>4 DEF MainInv

-----------------------------------------------------------------------------
\* The inductive invariant of the command line and of main: what was read so far, and what
\* main has done at each of its places.
THEOREM MainInvariant == MainSpec => []MainInv
<1>1. ASSUME MainInv, [MainNext]_mainVars
      PROVE  MainInv'
  BY <1>1, ParseKeeps, ParseEndKeeps, validateArgsKeeps, helpKeeps, FilesKeep, RunKeeps,
     WriteKeeps, MainUnchanged DEF MainNext
<1> QED BY <1>1, MainInitially, PTL DEF MainSpec

\* A line on which somebody asks for help runs no command, wherever on it the request
\* stands and whatever else is wrong with it (parseCli, main).
THEOREM MainHelpRunsNothing == MainSpec => []HelpRunsNothing
<1>1. ASSUME MainInv PROVE HelpRunsNothing
  <2> SUFFICES ASSUME NEW i \in DOMAIN argv, argv[i] = [sw |-> TRUE, word |-> "?"],
                      ran \in Commands
               PROVE  FALSE
    BY DEF HelpRunsNothing
  <2>1. parsed = "success" /\ "?" \notin cli_flags /\ cmd \in Commands
    BY <1>1 DEF MainInv, MainStage
  <2>2. at > Len(argv) /\ CliTyped /\ HelpSeen
    BY <1>1, <2>1 DEF MainInv, CliInv, LineRead
  <2>3. i < at
    BY <2>2, ArgumentsTyped DEF CliTyped
  <2>4. cmd = "?"
    BY <2>1, <2>2, <2>3 DEF HelpSeen, IsHelp
  <2> QED BY <2>1, <2>4 DEF Commands
<1> QED BY <1>1, MainInvariant, PTL

\* A command runs with the values of its line: each stands behind the last occurrence of its
\* switch, or bare, behind no switch that wants a value, and the required ones are there.
THEOREM MainValuesAsGiven == MainSpec => []ValuesAsGiven
<1>1. ASSUME MainInv PROVE ValuesAsGiven
  <2> SUFFICES ASSUME ran \in Commands
               PROVE  /\ \A s \in requiredSwitches(ran) : Given(s)
                      /\ \A s \in ValueSwitches :
                           /\ Given(s) <=> s \in cli_flags
                           /\ Given(s) => \E i \in 2 .. Len(argv) :
                                /\ argv[i] = [sw |-> FALSE, word |-> vals[s]]
                                /\ IF Behind(s) # {} THEN \A j \in Behind(s) : j < i
                                   ELSE ~(argv[i - 1].sw /\ argv[i - 1].word \in ValueSwitches)
    BY DEF ValuesAsGiven
  <2>1. parsed = "success" /\ "?" \notin cli_flags /\ cmd \in Commands /\ ran = cmd /\ cmd \in CMD_TBL
    BY <1>1 DEF MainInv, MainStage, Commands
  <2>2. /\ at > Len(argv) /\ CliTyped /\ requiredSwitches(cmd) \subseteq cli_flags
        /\ \A s \in ValueSwitches : ValueSoFar(s)
    BY <1>1, <2>1 DEF MainInv, CliInv, LineRead, ValuesSoFar, NoHelp
  <2>3. ASSUME NEW s \in ValueSwitches
        PROVE  Given(s) <=> s \in cli_flags
    BY <2>2 DEF ValueSoFar, Given
  <2>4. \A s \in requiredSwitches(ran) : Given(s)
    BY <2>1, <2>2, <2>3, Tables
  <2>5. ASSUME NEW s \in ValueSwitches, Given(s)
        PROVE  \E i \in 2 .. Len(argv) :
                 /\ argv[i] = [sw |-> FALSE, word |-> vals[s]]
                 /\ IF Behind(s) # {} THEN \A j \in Behind(s) : j < i
                    ELSE ~(argv[i - 1].sw /\ argv[i - 1].word \in ValueSwitches)
    <3>1. PICK i \in DOMAIN argv :
            /\ 1 < i /\ i < at /\ IsValue(s, i)
            /\ \A j \in Named(s) : j < i
            /\ Named(s) = {} => \A t \in ValueSwitches : ~Names(argv[i - 1], t)
      BY <2>2, <2>3, <2>5 DEF ValueSoFar
    <3>2. i \in 2 .. Len(argv) /\ i - 1 \in DOMAIN argv
      BY <2>2, <3>1, ArgumentsTyped DEF CliTyped
    <3>3. argv[i] = [sw |-> FALSE, word |-> vals[s]]
      <4>1. argv[i] \in Arguments
        BY <2>2, <3>2 DEF CliTyped
      <4> QED BY <3>1, <4>1 DEF IsValue, Arguments
    <3>4. Behind(s) \subseteq Named(s)
      <4> SUFFICES ASSUME NEW j \in Behind(s) PROVE j \in Named(s)
        OBVIOUS
      <4>1. j \in 2 .. Len(argv) - 1 /\ argv[j] = [sw |-> TRUE, word |-> s]
        BY DEF Behind
      <4>2. j \in DOMAIN argv /\ 1 < j /\ j < at
        BY <2>2, <4>1 DEF CliTyped
      <4> QED BY <4>1, <4>2 DEF Named, Names
    <3>5. Named(s) \subseteq Behind(s)
      <4> SUFFICES ASSUME NEW j \in Named(s) PROVE j \in Behind(s)
        OBVIOUS
      <4>1. j \in DOMAIN argv /\ 1 < j /\ j < i /\ argv[j].sw /\ argv[j].word = s
        BY <3>1 DEF Named, Names
      <4>2. argv[j] \in Arguments /\ j \in 1 .. Len(argv) /\ Len(argv) \in Nat
        BY <2>2, <4>1 DEF CliTyped
      <4>3. argv[j] = [sw |-> TRUE, word |-> s]
        BY <4>1, <4>2 DEF Arguments
      <4> QED BY <3>2, <4>1, <4>2, <4>3 DEF Behind
    <3>6. Behind(s) = Named(s)
      BY <3>4, <3>5
    <3> QED BY <3>1, <3>2, <3>3, <3>6 DEF Names
  <2> QED BY <2>3, <2>4, <2>5
<1> QED BY <1>1, MainInvariant, PTL

\* What the exit code says of the files: an error, that none was written whole; 0, that the
\* command's files were read, its work was done and its result is in a file, but for the
\* cases the property names; for -split and -replicate, that there is no file exactly when
\* there was nothing to split or to replicate (main and the commands' results).
THEOREM MainExitCode == MainSpec => []ExitCodeTells
<1>1. MainInv => ExitCodeTells
  BY DEF MainInv
<1> QED BY <1>1, MainInvariant, PTL
====
