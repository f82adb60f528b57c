-------------------------------- MODULE Sums --------------------------------
(* Running totals, as a recursive function so that they can be proved about. *)
EXTENDS Integers

(* PrefixSums(f, N)[n] is f[1] + ... + f[n].                               *)
PrefixSums(f, N) ==
    LET sum[n \in 0..N] == IF n = 0 THEN 0 ELSE sum[n-1] + f[n] IN sum
=============================================================================
