----------------------------- MODULE PageFrames -----------------------------
(***************************************************************************)
(* What a page frame allocator promises its callers: a page is free, or    *)
(* granted to one caller as part of one grant, or kept by the kernel for   *)
(* good.  Blocks, orders, lists and nodes do not appear.                   *)
(***************************************************************************)
CONSTANT Page

VARIABLES free, grants

Init == free \subseteq Page /\ grants = {}

\* A caller is granted free pages that nobody else holds.
Take ==
  \E S \in grants' :
    /\ S \subseteq free /\ S # {}
    /\ free' = free \ S
    /\ grants' = grants \cup {S}

\* A grant comes back whole.
GiveBack ==
  \E S \in grants :
    /\ free' = free \cup S
    /\ grants' = grants \ {S}

\* The kernel takes free pages and never returns them.
Keep ==
  /\ free' \subseteq free
  /\ UNCHANGED grants

Next == Take \/ GiveBack \/ Keep

Spec == Init /\ [][Next]_<<free, grants>>

\* No page is in two grants, and no granted page is free.
Exclusive ==
  /\ \A S \in grants : S \cap free = {}
  /\ \A S, T \in grants : S = T \/ S \cap T = {}

=============================================================================
