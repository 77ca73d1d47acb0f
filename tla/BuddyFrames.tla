---------------------------- MODULE BuddyFrames ----------------------------
(* The buddy allocator as an implementation of PageFrames. *)
EXTENDS Buddy

PagesOf(i, k) == i .. i + Size[k] - 1

\* Pages on a list, pages on their way back to one, and during the boot the
\* pages not carved yet.
FreePages ==
  (UNION {UNION {PagesOf(i, k) : i \in Range(freelist[k])} : k \in Orders})
    \cup (IF pc \in Freeing \cup {"lostmerge"} THEN PagesOf(cur.idx, cur.order) ELSE {})
    \cup {p \in frame .. NPages - 1 : entries[p] >= 0}

Grants == {PagesOf(b.idx, b.order) : b \in Owned("user")}

Frames == INSTANCE PageFrames WITH Page <- Pages, free <- FreePages, grants <- Grants

\* Every step of buddy_alloc_init, buddy_alloc and buddy_free is a grant, a
\* return, pages taken for the allocator itself, or invisible to callers.
FramesSpec == Frames!Spec

=============================================================================
