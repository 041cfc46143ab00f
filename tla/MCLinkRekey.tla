---------------------------- MODULE MCLinkRekey ----------------------------
(* Small instances of LinkRekey for TLC. *)
EXTENDS LinkRekey

\* Session indices are random and only compared for equality.
IndexSymmetry == Permutations(Index)

\* Which nodes have rekeying enabled.
Both == {{Small, Large}}
BothOrOne == {{Small, Large}, {Small}, {Large}}

=============================================================================
