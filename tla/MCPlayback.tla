----------------------------- MODULE MCPlayback -----------------------------
(* Small instances of Playback for TLC.  One time unit is about a second.  *)
EXTENDS Playback, TLC

CONSTANTS u1, u2, a, b

MCUsers == {u1, u2}
OneUser == {u1}
MCTracks == {a, b}
OneTrack == {a}
MCDuration == a :> 1 @@ b :> 0    \* b is a track of unknown length
OneDuration == a :> 2
MCSeeks == {-1, 1, 3}             \* before the start, inside, past the end

Interchangeable == Permutations(MCUsers)

(* A bound: one readyTimer of a track skipped while being prepared.        *)
OneOrphan == Cardinality({tm \in timers : ~tm.own}) <= 1
=============================================================================
