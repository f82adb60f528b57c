---------------------------- MODULE MCMembership ----------------------------
(* Small instances of Membership for TLC.                                  *)
EXTENDS Membership, TLC

(* Connections are interchangeable, and so are tokens.                     *)
Interchangeable == Permutations(Conns) \cup Permutations(Tokens)

(* A bound for three fresh members: the room is never reaped, and at most  *)
(* one resume callback is waiting to run.                                  *)
NotReaped ==
    /\ reaping = 0
    /\ \A i, j \in Conns : expiring[i] <= 1 /\ (expiring[i] + expiring[j] <= 1 \/ i = j)
=============================================================================
