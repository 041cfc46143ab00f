------------------------- MODULE MCStreamTransport -------------------------
(* Small instances of StreamTransport for TLC. *)
EXTENDS StreamTransport, TLC

\* One node dials, or both do.
OneOrBoth == {{1}, {1, 2}}
Both == {{1, 2}}

ResendsForOne == 0 :> 0 @@ 1 :> 1 @@ 2 :> 0
FaultsForOne == 0 :> 0 @@ 1 :> 2 @@ 2 :> 0
=============================================================================
