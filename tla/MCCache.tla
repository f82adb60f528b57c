------------------------------- MODULE MCCache -------------------------------
(* Small instances of Cache for TLC.                                       *)
EXTENDS Cache, TLC

CONSTANTS x, y

(* Budget 2 holds both tracks, budget 1 only the first one in the queue.   *)
MCSize == x :> 1 @@ y :> 1
=============================================================================
