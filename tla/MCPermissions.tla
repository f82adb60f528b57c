---------------------------- MODULE MCPermissions ----------------------------
(* Small instances of Permissions, with the bounds of MCMembership.        *)
EXTENDS Permissions, MCMembership

(* One request at a time, and joins up to a fifth seniority: enough for a  *)
(* client to join again under an ID that has a slot, with somebody else in *)
(* the room to take the host role.                                         *)
MaxSeq == 5
OneRequest ==
    /\ NotReaped /\ seqCounter <= MaxSeq
    /\ \A c, d \in Conns : asking[c] # Quiet /\ asking[d] # Quiet => c = d
=============================================================================
