------------------------------- MODULE Lists -------------------------------
(***************************************************************************)
(* The C++ algorithm the lists of this program are shortened with.         *)
(***************************************************************************)
EXTENDS Naturals, Sequences

\* The elements std::remove moves to the front: those that differ from x, in
\* order.  kept[n] is what is left of the first n.
Without(list, x) ==
  LET kept[n \in 0 .. Len(list)] ==
        IF n = 0 THEN <<>>
        ELSE IF list[n] = x THEN kept[n - 1]
        ELSE Append(kept[n - 1], list[n])
  IN  kept[Len(list)]
=============================================================================
