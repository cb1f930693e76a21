------------------------ MODULE QuoteUpdateWorkersMC ------------------------
(***************************************************************************)
(* Instances of QuoteUpdateWorkers for TLC.                                *)
(***************************************************************************)
EXTENDS QuoteUpdateWorkers, TLC

CONSTANTS w1, w2, i1, i2, p1, p2

\* Two application instances with a worker each.
MCHost == (w1 :> i1) @@ (w2 :> i2)
=============================================================================
