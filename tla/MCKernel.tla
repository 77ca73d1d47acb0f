------------------------------ MODULE MCKernel ------------------------------
(***************************************************************************)
(* The lab 5 kernel on small archives and trees.  Characters are numbers.  *)
(* The table has two entries instead of ten, everything else its own size. *)
(***************************************************************************)
EXTENDS KernelMain

a == 97
b == 98
c == 99

MCLs    == <<108, 115>>
MCCat   == <<99, 97, 116>>
MCVerbs ==
  [ls |-> MCLs, cat |-> MCCat, malloc |-> <<109>>, dtb |-> <<100>>, exec |-> <<101>>,
   timer |-> <<116>>, settimeout |-> <<115>>]

MCTrailer == <<84, 82, 33>>
MCLow     == {<<>>, <<c>>}
MCUnset   == {<<>>, <<a>>}

File(n, s) == [name |-> n, size |-> s]

\* Names and contents of lengths with every remainder; a program that fills its
\* region and one that does not fit; an archive of more than seven pages; one
\* that fills the table, and one that is larger.
MCArchives ==
  {<<>>,
   <<File(<<a>>, 18)>>,
   <<File(<<a, b>>, 393216)>>,
   <<File(<<a, b, c>>, 393217)>>,
   <<File(<<a, b, c, a>>, 29500)>>,
   <<File(<<a>>, 0), File(<<a, b, c, a, b>>, 35)>>,
   <<File(<<a>>, 16), File(<<b>>, 46), File(<<c>>, 3)>>}

MCBase        == 134217728
MCDtbAt       == 268435456 - 65536
MCInitrd      == <<105, 115>>
MCPropNames   == <<<<114, 101, 103>>, <<>>, MCInitrd>>
Reg           == MCPropNames[1]

\* Values that look like tokens, of lengths with every remainder; nodes without
\* a name; the archive named twice, in eight bytes, not at all; a wrong magic;
\* a word that is no token.
Good ==
  <<Begin(<<>>), Prop(Reg, <<0, 0, 0, 9, 0>>), Begin(<<a, b, c>>), Nop,
    Prop(MCInitrd, BigEndian(MCBase)), Prop(<<>>, <<>>), EndNode,
    Begin(<<a, b, c, a>>), Prop(Reg, <<0, 0, 0, 2, 0, 1>>), EndNode, EndNode, End>>
MCBlobs ==
  {[magic |-> TRUE, tree |-> t] :
     t \in {Good,
            <<Begin(<<>>), Prop(MCInitrd, BigEndian(16)), Begin(MCInitrd),
              Prop(MCInitrd, BigEndian(MCBase)), Prop(Reg, <<1, 2, 3>>), EndNode, EndNode, End>>,
            <<Begin(<<>>), Prop(MCInitrd, <<0, 0, 0, 0>> \o BigEndian(MCBase)), EndNode, End>>,
            <<Begin(<<>>), Prop(MCInitrd, BigEndian(MCBase)), Damage, EndNode, End>>}}
    \cup {[magic |-> FALSE, tree |-> Good]}

\* A command, with a name that is there, that is not, without one, with too many.
MCLines ==
  {MCLs, <<Blank>>, <<109>>, <<100>>, <<116>>,
   MCCat \o <<Blank, a>>, MCCat \o <<Blank, a, b, c, a, b>>, MCCat \o <<Blank, c, Blank, a>>,
   MCCat, <<101, Blank, a, b>>, <<101, Blank, a, b, c>>, <<101, Blank, b>>, <<115, Blank, a, Blank, 49, 48>>,
   MCCat \o [i \in 1 .. 7 |-> Blank]}
=============================================================================
