---------------------------- MODULE XcodeDecoder ----------------------------
(***************************************************************************)
(* XcodeDecoder: one pass over the table counts the jumps, one makes a     *)
(* label for each target and a record of each jump, and one writes a line  *)
(* for each xcode.  With -branch the last pass leaves the linear order: it *)
(* walks what a conditional jump spans and takes the other jumps.          *)
(***************************************************************************)
EXTENDS XcodeInterp, Sequences, FiniteSets

CONSTANTS
  Tables,      \* the tables that may be decoded: records of size and xcodes
  MaxLines     \* bound on the lines written, for a decoder that never ends

\* The interpreter has a copy of its table: it takes less than the memory there is.
ASSUME DecoderAssumption ==
  /\ \A t \in Tables :
       /\ t.size \in 0..(Wrap - 1 - XcodeSize)
       /\ t.xcodes \in [0..(t.size - XcodeSize) -> XCODE]
  /\ Stray \subseteq XCODE
  /\ MaxLines \in Nat

VARIABLES
  branch,      \* the switch -branch
  pc,          \* the loop the decoder is in
  jmpCount,    \* what the first pass counted: the size of both arrays
  labels,      \* context->labels
  jmps,        \* context->jmps
  xcode,       \* context->xcode, and (history) where it was read
  walk,        \* what walkBranch saved, and where it ends
  lines        \* what has been written; of is where its xcode was read (history)

loadVars == <<jmpCount, labels, jmps>>
vars == <<size, xcodes, interp, branch, pc, loadVars, xcode, walk, lines>>

IsJump(xc) == xc.opcode \in {"jmp", "jne"}
Target(o, xc) == (o + XcodeSize + xc.data) % Wrap

LABEL == [offset : 0..(Wrap - 1), references : Nat, defined : BOOLEAN]
JMP_XCODE == [xcodeOffset : 0..(Wrap - 1), branchable : BOOLEAN]

\* The first of a set of indices of an array, or 0.
First(I) == IF I = {} THEN 0 ELSE CHOOSE i \in I : \A j \in I : i <= j

searchLabel(o) == First({i \in DOMAIN labels : labels[i].offset = o})
searchJmp(o) == First({i \in DOMAIN jmps : jmps[i].xcodeOffset = o})

NoXcode == [at |-> 0, xc |-> [opcode |-> "other", addr |-> 0, data |-> 0]]
NoWalk == [saved |-> reset, end |-> 0]

DecoderInit ==
  /\ \E t \in Tables : size = t.size /\ xcodes = t.xcodes
  /\ branch \in BOOLEAN
  /\ interp = reset /\ pc = "count"
  /\ jmpCount = 0 /\ labels = <<>> /\ jmps = <<>>
  /\ xcode = NoXcode /\ walk = NoWalk /\ lines = <<>>

-----------------------------------------------------------------------------
(* load.                                                                   *)
\* A bug: only unconditional jumps are counted.
CountsJmpOnly ==
  /\ pc = "count" /\ HasNext(interp)
  /\ \E xc \in XcodesAt(interp.offset) :
       /\ interp' = AfterNext(interp, xc)
       /\ jmpCount' = IF xc.opcode = "jmp" THEN jmpCount + 1 ELSE jmpCount
  /\ UNCHANGED <<size, xcodes, branch, pc, labels, jmps, xcode, walk, lines>>

CountXcode ==
  /\ pc = "count" /\ HasNext(interp)
  /\ \E xc \in XcodesAt(interp.offset) :
       /\ interp' = AfterNext(interp, xc)
       /\ jmpCount' = IF IsJump(xc) THEN jmpCount + 1 ELSE jmpCount
  /\ UNCHANGED <<size, xcodes, branch, pc, labels, jmps, xcode, walk, lines>>

\* The end of one pass is the reset of the interpreter for the next one.
EndPass(from, to) ==
  /\ pc = from /\ ~HasNext(interp)
  /\ interp' = reset
  /\ pc' = to
  /\ UNCHANGED <<size, xcodes, branch, loadVars, xcode, walk, lines>>

\* A reference more for the target's label, or a label for the target.
Referenced(o) ==
  IF searchLabel(o) # 0
  THEN [labels EXCEPT ![searchLabel(o)].references = @ + 1]
  ELSE Append(labels, [offset |-> o, references |-> 1, defined |-> FALSE])

createJmp(o) == Append(jmps, [xcodeOffset |-> o, branchable |-> FALSE])

LoadXcode ==
  /\ pc = "label" /\ HasNext(interp)
  /\ \E xc \in XcodesAt(interp.offset) :
       /\ interp' = AfterNext(interp, xc)
       /\ IF IsJump(xc)
          THEN /\ labels' = Referenced(Target(interp.offset, xc))
               /\ jmps' = createJmp(interp.offset)
          ELSE UNCHANGED <<labels, jmps>>
  /\ UNCHANGED <<size, xcodes, branch, pc, jmpCount, xcode, walk, lines>>

-----------------------------------------------------------------------------
(* decodeXcodes and decode.                                                *)
NextXcode ==
  /\ pc = "decode" /\ HasNext(interp)
  /\ Len(lines) < MaxLines
  /\ \E xc \in XcodesAt(interp.offset) :
       /\ interp' = AfterNext(interp, xc)
       /\ xcode' = [at |-> interp.offset, xc |-> xc]
       /\ pc' = IF branch /\ IsJump(xc) THEN "branch" ELSE "write"
  /\ UNCHANGED <<size, xcodes, branch, loadVars, walk, lines>>

\* The record of the jump that is being decoded, looked up by where the
\* interpreter stands.  A jump that load did not come across has none.
Jmp == searchJmp((interp.offset - XcodeSize) % Wrap)

\* A bug: a conditional jump is not walked.
WalksNoJne == xcode.xc.opcode = "jmp" /\ Jmp # 0 /\ jmps[Jmp].branchable

Walks ==
  \/ xcode.xc.opcode = "jne"
  \/ xcode.xc.opcode = "jmp" /\ Jmp # 0 /\ jmps[Jmp].branchable

Takes == xcode.xc.opcode = "jmp" /\ Jmp # 0 /\ ~jmps[Jmp].branchable

TakeJmp ==
  /\ pc = "branch" /\ Takes
  /\ interp' = Moved(interp, xcode.xc.data)
  /\ pc' = "write"
  /\ UNCHANGED <<size, xcodes, branch, loadVars, xcode, walk, lines>>

PassJmp ==
  /\ pc = "branch" /\ ~Takes /\ ~Walks
  /\ pc' = "write"
  /\ UNCHANGED <<size, xcodes, interp, branch, loadVars, xcode, walk, lines>>

\* A bug: the xcode's own offset is saved, and not that of the next one.
SavesJump ==
  /\ pc = "branch" /\ Walks
  /\ walk' = [saved |-> [interp EXCEPT !.offset = xcode.at], end |-> interp.offset + xcode.xc.data]
  /\ pc' = "walk"
  /\ UNCHANGED <<size, xcodes, interp, branch, loadVars, xcode, lines>>

\* walkBranch: what lies between the jump and its target, whichever is first.
WalkBranch ==
  /\ pc = "branch" /\ Walks
  /\ LET jmpOffset == (interp.offset + xcode.xc.data) % Wrap
         down == jmpOffset > interp.offset
     IN /\ walk' = [saved |-> interp, end |-> IF down THEN jmpOffset ELSE interp.offset]
        /\ interp' = IF down THEN interp ELSE [interp EXCEPT !.offset = jmpOffset]
  /\ pc' = "walk"
  /\ UNCHANGED <<size, xcodes, branch, loadVars, xcode, lines>>

\* The jump at o, if load came across it, becomes branchable.
Marked(o) ==
  IF searchJmp(o) # 0 THEN [jmps EXCEPT ![searchJmp(o)].branchable = TRUE] ELSE jmps

WalkXcode ==
  /\ pc = "walk" /\ HasNext(interp) /\ interp.offset # walk.end
  /\ \E xc \in XcodesAt(interp.offset) :
       /\ interp' = AfterNext(interp, xc)
       /\ jmps' = IF xc.opcode = "jmp" THEN Marked(interp.offset) ELSE jmps
  /\ UNCHANGED <<size, xcodes, branch, pc, jmpCount, labels, xcode, walk, lines>>

WalkEnd ==
  /\ pc = "walk" /\ (~HasNext(interp) \/ interp.offset = walk.end)
  /\ interp' = walk.saved
  /\ pc' = "write"
  /\ UNCHANGED <<size, xcodes, branch, loadVars, xcode, walk, lines>>

\* A bug: the label is looked up where the next xcode is.
OffsetOfNext == interp.offset

\* The offset that a line shows and whose label it gets.
LineOffset == (interp.offset - XcodeSize) % Wrap

\* The label in front of the line is written and defined.
Defined ==
  IF searchLabel(LineOffset) # 0
  THEN [labels EXCEPT ![searchLabel(LineOffset)].defined = TRUE]
  ELSE labels

\* The label that a jump's operand names.
Operand ==
  IF IsJump(xcode.xc) THEN searchLabel((interp.offset + xcode.xc.data) % Wrap) ELSE 0

WriteLine ==
  /\ pc = "write" /\ xcode.xc.opcode # "unknown"
  /\ labels' = Defined
  /\ lines' = Append(lines, [offset |-> LineOffset, label |-> searchLabel(LineOffset),
                             operand |-> Operand, of |-> xcode.at, xc |-> xcode.xc])
  /\ pc' = "decode"
  /\ UNCHANGED <<size, xcodes, interp, branch, jmpCount, jmps, xcode, walk>>

\* getOpcodeStr finds no name: no line, and decodeXcodes gives up.
UnknownOpcode ==
  /\ pc = "write" /\ xcode.xc.opcode = "unknown"
  /\ labels' = Defined
  /\ pc' = "failed"
  /\ UNCHANGED <<size, xcodes, interp, branch, jmpCount, jmps, xcode, walk, lines>>

DecodeEnd ==
  /\ pc = "decode" /\ ~HasNext(interp)
  /\ interp' = AfterLast(interp)
  /\ pc' = "done"
  /\ UNCHANGED <<size, xcodes, branch, loadVars, xcode, walk, lines>>

-----------------------------------------------------------------------------
DecoderNext ==
  \/ CountXcode \/ EndPass("count", "label")
  \/ LoadXcode \/ EndPass("label", "decode")
  \/ NextXcode \/ TakeJmp \/ PassJmp \/ WalkBranch \/ WalkXcode \/ WalkEnd
  \/ WriteLine \/ UnknownOpcode \/ DecodeEnd

\* The program runs until it returns.
DecoderSpec == DecoderInit /\ [][DecoderNext]_vars /\ WF_vars(DecoderNext)

-----------------------------------------------------------------------------
LINE == [offset : 0..(Wrap - 1), label : Nat, operand : Nat,
         of : 0..(Wrap - 1), xc : XCODE]

DecoderTypeOK ==
  /\ interp \in INTERP
  /\ branch \in BOOLEAN
  /\ pc \in {"count", "label", "decode", "branch", "walk", "write", "done", "failed"}
  /\ jmpCount \in Nat
  /\ labels \in Seq(LABEL)
  /\ jmps \in Seq(JMP_XCODE)
  /\ xcode \in [at : 0..(Wrap - 1), xc : XCODE]
  /\ walk \in [saved : INTERP, end : 0..(Wrap - 1)]
  /\ lines \in Seq(LINE)

\* Every jump that load came across has a label, no two labels are for one
\* place, and a label's references are the jumps to it.
LabelsMatchJumps ==
  LET JumpsTo(o) == {i \in DOMAIN jmps : Target(jmps[i].xcodeOffset, xcodes[jmps[i].xcodeOffset]) = o}
  IN /\ \A i, j \in DOMAIN labels : labels[i].offset = labels[j].offset => i = j
     /\ \A i \in DOMAIN labels : labels[i].references = Cardinality(JumpsTo(labels[i].offset))
     /\ \A i \in DOMAIN jmps : searchLabel(Target(jmps[i].xcodeOffset, xcodes[jmps[i].xcodeOffset])) # 0

\* The second pass of load never has more to store than the first one counted,
\* and in the end as many jumps: the arrays are full and not overrun, and the
\* labels in them are the jumps' own.
ArraysFit ==
  /\ DecoderTypeOK
  /\ pc # "count" => Len(labels) <= jmpCount /\ Len(jmps) <= jmpCount
  /\ pc \notin {"count", "label"} => Len(jmps) = jmpCount
  /\ LabelsMatchJumps

Done == pc = "done"

\* Without -branch the table comes out whole and in order: every xcode up to
\* the first exit or the end of the table has one line, at its offset.
WrittenInOrder ==
  ~branch =>
    /\ \A i \in DOMAIN lines :
         /\ lines[i].of = (i - 1) * XcodeSize /\ lines[i].offset = lines[i].of
         /\ lines[i].xc.opcode = "exit" => i = Len(lines)
    /\ Done => \/ Len(lines) > 0 /\ lines[Len(lines)].xc.opcode = "exit"
               \/ ~InTable(Len(lines) * XcodeSize)

\* Without -branch a jump names a label, and when its target has a line then that
\* line, and no other, has the label in front of it.
JumpsNameLines ==
  Done /\ ~branch =>
    \A i \in DOMAIN lines : IsJump(lines[i].xc) =>
      /\ lines[i].operand # 0
      /\ \A j \in DOMAIN lines :
           lines[j].label = lines[i].operand <=> lines[j].of = Target(lines[i].of, lines[i].xc)

\* A table whose jumps all go forward, to xcodes of it.
Forward ==
  \A o \in DOMAIN xcodes : IsJump(xcodes[o]) =>
    /\ xcodes[o].data + o + XcodeSize < size
    /\ xcodes[o].data % XcodeSize = 0

\* What may run after the xcode of a line.
Successors(l) ==
  CASE l.xc.opcode = "exit" -> {}
    [] l.xc.opcode = "jmp"  -> {Target(l.of, l.xc)}
    [] l.xc.opcode = "jne"  -> {Target(l.of, l.xc), l.of + XcodeSize}
    [] OTHER                -> {l.of + XcodeSize}

\* With -branch, and jumps that go forward, jumps that are taken never skip what
\* another way leads to: whatever may run after an xcode that was written is
\* written too, unless it lies behind the exit that ended the listing.
NothingSkipped ==
  Done /\ branch /\ Forward =>
    \A i \in DOMAIN lines : \A s \in Successors(lines[i]) :
      \/ \E j \in DOMAIN lines : lines[j].of = s
      \/ \A j \in DOMAIN lines : lines[j].of < s

\* The decoder ends, unless it takes a jump back.
Terminates == (~branch \/ Forward) ~> pc \in {"done", "failed"}

-----------------------------------------------------------------------------
(* What the code's words say of it, and is not so.                          *)
\* The {offset} of a line is the offset of its xcode: with -branch, decode has moved on
\* when it writes the line of a jump that is taken.
OffsetsShown == \A i \in DOMAIN lines : lines[i].offset = lines[i].of
=============================================================================
