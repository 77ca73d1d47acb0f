------------------------------- MODULE MCBins -------------------------------
(***************************************************************************)
(* Units that fill the page, as those of 16 bytes do, of two sizes; units  *)
(* whose last one begins in the last cell of the page, so that its payload *)
(* is the next page, as those of 64 and 256 do; and a unit that is all the *)
(* page, so that each request for one needs a page.                        *)
(***************************************************************************)
EXTENDS NodeBins

MCBinSize == <<2, 3, 10, 11>>

\* Two pages are free, with pages of the bins around them.
MCInit == Init /\ head = <<3 * PageSize, 0, PageSize, 5 * PageSize>>

MCSpec == MCInit /\ [][Next]_vars

\* Both invariants of bins end at the first loan of a unit that leaves its page: the
\* run does not go on from there, bins_spill does.
Unspilt == ~spilt
=============================================================================
