----------------------------- MODULE Permissions -----------------------------
(***************************************************************************)
(* Settings and permissions of a room on top of its membership: IsAllowed, *)
(* IsHost and SetSettings of internal/room/room.go, as the reader of a     *)
(* connection calls them (internal/wsapi/handler.go).                      *)
(*                                                                         *)
(* A request is checked in one critical section of room.mu and carried out *)
(* in another; other connections join, resume, leave and say bye between   *)
(* the two.  The connection itself is busy until then.  The four scopes    *)
(* are alike, so one policy stands for the scope of the request; what an   *)
(* allowed request does to the queue and the playback is in the modules    *)
(* about them.                                                             *)
(***************************************************************************)
EXTENDS Membership

VARIABLES
    policy,  \* room.settings.PolicyFor of the scope
    asking   \* asking[c]: the request c has passed the check for

permissionVars == <<policy, asking>>
allVars == <<vars, permissionVars>>

(* A request that is granted, and whether as one of everyone or as host;   *)
(* slot is history: a slot of that ID was still to expire at the check.    *)
Quiet == [req |-> "none", as |-> "none", slot |-> FALSE]
Granted(r, as, c) == [req |-> r, as |-> as, slot |-> HasSlot(id[c])]

Policies == {"everyone", "host"}
PermissionInit == Init /\ policy = "everyone" /\ asking = [c \in Conns |-> Quiet]

-----------------------------------------------------------------------------
Reads(c) == current[c] = "room" /\ asking[c] = Quiet

(* The policy for the scope of the request.                                *)
PolicyFor == policy

AllowAnybody(i) == {"host"}                            \* mutant of the next
IsAllowed(i) ==
    IF PolicyFor = "everyone" THEN {"everyone"} ELSE IF i = hostID THEN {"host"} ELSE {}

(* enqueue, skip, remove, control: past the check, or refused.             *)
AskGated(c) ==
    /\ Reads(c)
    /\ \E as \in IsAllowed(id[c]) : asking' = [asking EXCEPT ![c] = Granted("act", as, c)]
    /\ UNCHANGED <<vars, policy>>

Act(c) ==
    /\ asking[c].req = "act" /\ asking' = [asking EXCEPT ![c] = Quiet]
    /\ UNCHANGED <<vars, policy>>

IsHost(i) == i = hostID
AskSettings(c) ==
    /\ Reads(c) /\ IsHost(id[c])
    /\ asking' = [asking EXCEPT ![c] = Granted("settings", "host", c)]
    /\ UNCHANGED <<vars, policy>>

SetSettings(c, p) ==
    /\ asking[c].req = "settings" /\ policy' = p
    /\ asking' = [asking EXCEPT ![c] = Quiet]
    /\ UNCHANGED vars

(* A step of Membership; no reader does anything else while it is busy.    *)
MembershipStep ==
    /\ Next /\ \A c \in Conns : asking[c] # Quiet => current'[c] = current[c]
    /\ UNCHANGED permissionVars

PermissionNext ==
    \/ \E c \in Conns : \/ AskGated(c) \/ Act(c) \/ AskSettings(c)
                        \/ \E p \in Policies : SetSettings(c, p)
    \/ MembershipStep

PermissionSpec == PermissionInit /\ [][PermissionNext]_allVars

-----------------------------------------------------------------------------
(* What was allowed as host is done as host: between the check and the     *)
(* change the role can move on only if the connection has lost its place   *)
(* in the room, to another connection that resumed its identity, or if the *)
(* slot of an earlier connection of its ID was still to expire when it     *)
(* asked: finalizeLeave passes the role on although the ID is connected    *)
(* again.  A drop or a bye of somebody else does not do it, nor a late     *)
(* callback for a slot that is gone.                                       *)
GrantHolds ==
    \A c \in Conns : asking[c].as = "host" =>
      \/ id[c] = hostID /\ ~HasSlot(id[c])
      \/ clients[id[c]] # c \/ asking[c].slot
=============================================================================
