----------------------------- MODULE MCPathMtu -----------------------------
(* Small instances of PathMtu for TLC. *)
EXTENDS PathMtu, TLC

\* A wide link; behind it a narrower one; behind it one narrower still.  The way back
\* is one link.
Wide == <<4>>
Narrower == <<4, 3>>
Narrowest == <<4, 2>>
Back == <<3>>
SomeRoutes == 1 :> {Wide, Narrower, Narrowest} @@ 2 :> {Back}

Transport == 1 :> 4 @@ 2 :> 3
Intervals == 1 :> 1 @@ 2 :> 1
=============================================================================
