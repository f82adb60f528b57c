-------------------------------- MODULE MCHls --------------------------------
(* Small instances of Hls for TLC.                                         *)
EXTENDS Hls, TLC
=============================================================================
