------------------------------ MODULE MCConfig ------------------------------
(***************************************************************************)
(* Config on two kinds of files: every file of a few lines with headings   *)
(* and pairs, and files with one pair whose value is any short text, or a  *)
(* number written in one of the ways stoi tells apart.  An int has 8 bits. *)
(***************************************************************************)
EXTENDS Config

CONSTANTS sp, cr, eq, lb, rb, semi, dq, sq, plus, minus, x, a, b

MCGlobal == <<a>>
HOST     == <<b>>
PRIORITY == <<a, b>>
MCPort   == <<b, a>>

MCTexts   == {HOST}
MCNumbers == {PRIORITY, MCPort}
MCDefault == (HOST :> <<a>>) @@ (PRIORITY :> 1) @@ (MCPort :> 77)
MCSize    == HOST :> 1

Pair(k, v) == k \o <<eq>> \o v

\* Headings with and without blanks, ']', a name, and pairs of one key.
StructureLines ==
  {<<lb, a, rb, a, cr>>, <<sp, lb, sp, a, sp>>, <<lb, b, rb>>, <<lb, sp>>,
   Pair(HOST, <<a>>), Pair(HOST, <<b>>)}

TextLines ==
  {Pair(HOST, v) : v \in UNION {[1..n -> {sp, semi, dq, a}] : n \in 0..4}}
    \cup {Pair(HOST, v) : v \in [1..3 -> {sp, dq, sq}]}
    \cup {<<>>, <<sp, cr>>, <<semi, eq>>, <<b>>, <<eq, a>>, <<b, sp>>,
          <<sp, b, sp, eq, sp, a, sp, semi, a, cr, cr>>, <<b, eq, a, cr, sp>>}

NumberTexts ==
  {<<0, 1, 0>>, <<0, 8, 0>>, <<0, x, 1, 15>>, <<minus, 1>>, <<9, 9, 9>>,
   <<1, 2, 7>>, <<1, 2, 8>>, <<minus, 1, 2, 8>>, <<plus, 5, a>>, <<a>>, <<>>,
   <<minus>>, <<0, x>>, <<dq, sp, 5, dq>>, <<cr, 0, x, 1>>, <<0>>, <<15>>}

NumberLines ==
  {Pair(PRIORITY, v) : v \in NumberTexts}
    \cup {Pair(MCPort, v) : v \in {<<minus, 1>>, <<0, 1, 0>>, <<1, 2, 8>>}}

MCFiles ==
  UNION {[1..n -> StructureLines] : n \in 0..4}
    \cup {<<(<<lb, a, rb>>), l>> : l \in TextLines \cup NumberLines}

=============================================================================
