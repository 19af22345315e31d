------------------------------ MODULE Sublists ------------------------------
(***************************************************************************)
(* What a comprehension with a condition keeps of a list.  SelectSeq says  *)
(* the same, but the provers know nothing of it.                           *)
(***************************************************************************)
EXTENDS Integers, Sequences

\* The elements of s at the given places, in their order.
Sublist(s, places) ==
    LET kept[n \in 0 .. Len(s)] ==
            IF n = 0 THEN << >>
            ELSE IF n \in places THEN Append(kept[n - 1], s[n])
            ELSE kept[n - 1]
    IN  kept[Len(s)]

=============================================================================
