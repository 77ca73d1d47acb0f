------------------------------ MODULE MCBuddy ------------------------------
(***************************************************************************)
(* Instances of Buddy for TLC.  MCLayouts leave runs of one page between   *)
(* reservations, as the archive and the device tree do.  With {2, 4, 6, 7} *)
(* every block gets a node and the two large ones are buddies, which merge *)
(* past MaxOrder; with {2, 4, 6, 8} the last page is given up; with {0}    *)
(* and {1, 3} the boot runs out of nodes.  MCLowLayout reserves the low    *)
(* pages only, as a kernel without an archive would, and its blocks start  *)
(* at multiples of their size.                                             *)
(***************************************************************************)
EXTENDS BuddyFrames, BuddyInv

MCSize      == [k \in Orders |-> 2 ^ k]
MCUnits3    == [b \in Bins |-> 3]
MCUnits4    == [b \in Bins |-> 4]
MCLayouts   == {{2, 4, 6, 7}, {2, 4, 6, 8}, {0}, {1, 3}}
MCLowLayout == {{0, 1, 2}}
=============================================================================
