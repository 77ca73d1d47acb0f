------------------------------ MODULE MCPolled ------------------------------
(***************************************************************************)
(* The polled shells, with commands of one character.  FIFOs hold two      *)
(* characters, and the texts are longer than both together.                *)
(***************************************************************************)
EXTENDS PolledShell

MCHelp   == <<104>>
MCHello  == <<101>>
MCInfo   == <<105>>
MCReboot == <<114>>
MCLs     == <<108>>
MCCat    == <<99>>
MCMalloc == <<109>>
MCDtb    == <<100>>
MCKeys   == {104, 105, 114, 99, 13}
MCStrays == {<<>>, <<"other">>}
=============================================================================
