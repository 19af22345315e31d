----------------------------- MODULE HashChain -----------------------------
(***************************************************************************)
(* Receipts linked by previous_receipt_hash.  A hash is the place of the   *)
(* receipt it is the hash of in the list of all that were created, and 0   *)
(* is no receipt (None).                                                   *)
(***************************************************************************)
EXTENDS Naturals, Sequences

\* ChainOf(s)[n]: the receipts from n back to the first, along the links.
ChainOf(s) ==
    LET chain[n \in 0 .. Len(s)] == IF n = 0 THEN {} ELSE {n} \union chain[s[n].prev]
    IN  chain

\* Every receipt links to one created before it.
Linked(s) == \A n \in DOMAIN s : s[n].prev \in 0 .. n - 1

=============================================================================
