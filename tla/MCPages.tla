------------------------------ MODULE MCPages -------------------------------
(***************************************************************************)
(* ManagedSpace on a page or two, for TLC.                                 *)
(***************************************************************************)
EXTENDS ManagedSpace

CONSTANTS p1, p2, m1, k1

Setting(swap, pages, maps, copies, flags) ==
  [swap |-> swap, pages |-> pages, maps |-> maps, copies |-> copies,
   readahead |-> "readahead" \in flags, fences |-> "fences" \in flags,
   invalidates |-> "invalidates" \in flags, detached |-> "detached" \in flags]

\* A file that is mapped and written to; one that is fenced while its driver serves
\* notifications concurrently; one that is mapped and invalidated; one of two pages
\* that are read ahead.  A swap space that is mapped, and one of two pages that
\* compete for its budget.
AllSettings ==
  {Setting(FALSE, {p1}, {m1}, {k1}, {}),
   Setting(FALSE, {p1}, {}, {k1}, {"fences", "detached"}),
   Setting(FALSE, {p1}, {m1}, {}, {"invalidates"}),
   Setting(FALSE, {p1, p2}, {}, {k1}, {"readahead", "detached"}),
   Setting(TRUE, {p1}, {m1}, {}, {}),
   Setting(TRUE, {p1, p2}, {}, {k1}, {})}

\* Nobody invalidates pages: a file that is mapped, one that is fenced while its driver
\* serves one notification after the other or several at once, one of two pages that
\* are read ahead; and a swap space that is written to.
SteadySettings ==
  {Setting(FALSE, {p1}, {m1}, {}, {}),
   Setting(FALSE, {p1}, {}, {k1}, {"fences"}),
   Setting(FALSE, {p1}, {}, {k1}, {"fences", "detached"}),
   Setting(FALSE, {p1, p2}, {}, {k1}, {"readahead"}),
   Setting(TRUE, {p1}, {}, {k1}, {})}

InvalidatedFile == {Setting(FALSE, {p1}, {m1}, {k1}, {"invalidates"})}
=============================================================================
