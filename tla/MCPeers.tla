------------------------------- MODULE MCPeers -------------------------------
(* Small instances of Peers for TLC.                                       *)
EXTENDS Peers, TLC

(* Connections are interchangeable, and so are peer connections.           *)
Interchangeable == Permutations(Readers) \cup Permutations(PCs)
=============================================================================
