--------------------------- MODULE MCReviewQueue ---------------------------
(***************************************************************************)
(* The queue for TLC: a review with two jobs of one signal and two reviews *)
(* with one each, so that a review may be passed over by two others; three *)
(* jobs share a provider.                                                  *)
(***************************************************************************)
EXTENDS ReviewQueue, TLC

CONSTANTS a1, a2, b1, c1, A, B, C, p, q, x, y, z

GroupOfDef == a1 :> A @@ a2 :> A @@ b1 :> B @@ c1 :> C
SignalOfDef == a1 :> x @@ a2 :> x @@ b1 :> y @@ c1 :> z
ProviderOfDef == a1 :> p @@ a2 :> q @@ b1 :> q @@ c1 :> q

=============================================================================
