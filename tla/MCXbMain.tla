------------------------------ MODULE MCXbMain ------------------------------
(* Short lines of every kind, and for each command a line that is right, with up to two    *)
(* more arguments behind it or one in front of its switches.                               *)
EXTENDS XbMain

Sw(w) == [sw |-> TRUE, word |-> w]
Arg(w) == [sw |-> FALSE, word |-> w]

Files == {Arg("f"), Arg("g")}
Tokens == {Sw("?"), Sw("in"), Sw("out"), Sw("romsize"), Sw("key-bldr"), Sw("mcpx"), Sw("xcodes"),
           Sw("d"), Sw("zz"), Sw("extr"), Arg("f"), Arg("256"), Arg("512"), Arg("bld"), Arg("extr"),
           Arg("in")}
UpTo(n, S) == UNION {[1 .. k -> S] : k \in 0 .. n}

Right == {<<Sw(c), Arg("f")>> : c \in WithInFile \ {"compress", "decompress"}}
         \cup {<<Sw(c), Arg("f"), Sw("out"), Arg("g")>> : c \in {"compress", "decompress"}}
         \cup {<<Sw("bld"), Sw("bldr"), Arg("f"), Sw("krnl"), Arg("g"), Sw("krnldata"), Arg("f"),
                 Sw("inittbl"), Arg("g")>>,
               <<Arg("combine"), Arg("f"), Arg("g")>>, <<Sw("info")>>}
MCLines == {<<>>, <<Sw("")>>, <<Arg("?")>>, <<Arg("f")>>, <<Arg("zz")>>}
           \cup {<<c>> \o l : c \in {Sw("?"), Sw("extr"), Arg("bld"), Sw("zz")}, l \in UpTo(3, Tokens)}
           \cup {r \o l : r \in Right, l \in UpTo(2, Tokens)}
           \cup {<<r[1], t>> \o Tail(r) : r \in Right, t \in Tokens}
           \cup {<<Sw("extr"), Arg("f"), Sw("simsize"), w>> : w \in {Arg("4"), Arg("f")}}
           \cup {<<c, Arg("f"), s, Arg("512"), t, w>> :
                   c \in {Sw("split"), Sw("replicate")}, s \in {Sw("romsize"), Sw("binsize")},
                   t \in {Sw("romsize"), Sw("binsize"), Sw("d")}, w \in {Arg("256"), Arg("512")}}

MCNumber == [w \in {"512", "256", "4"} |-> CASE w = "512" -> 512
                                              [] w = "256" -> 256
                                              [] w = "4" -> 4]
=============================================================================
