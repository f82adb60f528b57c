----------------------------- MODULE Membership -----------------------------
(***************************************************************************)
(* Who is in a room, who is its host and when the room goes away:          *)
(* internal/room/room.go, driven by the handler of internal/wsapi.         *)
(*                                                                         *)
(* One room.  A websocket connection is a handler goroutine; it carries a  *)
(* *room.Client, whose ID is a fresh uuid that a resume replaces by the    *)
(* ID of an earlier connection.  Each region under room.mu or Registry.mu  *)
(* is one step; a time.AfterFunc callback is a step of its own that may    *)
(* run long after its timer fired, for Timer.Stop does not recall it.      *)
(*                                                                         *)
(* Left out: nicknames, health telemetry and the room_state broadcast that *)
(* ends every handler (none of them changes what is modelled here), and    *)
(* the playback started by recheckReady and catchUp (module Playback).     *)
(***************************************************************************)
EXTENDS Naturals

CONSTANTS
    Conns,   \* the websocket connections; also the uuids, one per connection
    Tokens,  \* the values genToken can return
    Nil      \* Go's nil, "" or a missing map entry

ASSUME NilAssumption == Nil \notin Conns /\ Nil \notin Tokens

VARIABLES
    current,     \* current[c]: the handler's phase (see Phases)
    id,          \* id[c], seq[c], tok[c]: Client.ID, Client.Seq, Client.Token
    seq,
    tok,
    want,        \* want[c]: the resumeToken of the join being handled
    clients,     \* room.clients: id -> the connection registered under it
    pending,     \* room.pending: id -> slot of a dropped member
    tokens,      \* room.tokens: token -> id
    issued,      \* every token genToken has returned so far
    hostID,      \* room.hostID
    seqCounter,  \* room.seqCounter
    emptyTimer,  \* room.emptyTimer
    expiring,    \* expiring[i]: finalizeLeave(i) callbacks fired and not yet run
    reaping,     \* empty-room callbacks fired and not yet run
    removing,    \* those that saw an empty room and will call Registry.remove
    registry,    \* whether Registry.rooms holds the room
    cleaning     \* Registry.remove has dropped the room; cleanupMedia is next

handlerVars == <<current, id, seq, tok, want>>
roomVars == <<clients, pending, tokens, issued, hostID, seqCounter>>
timerVars == <<emptyTimer, expiring, reaping, removing>>
registryVars == <<registry, cleaning>>
vars == <<handlerVars, roomVars, timerVars, registryVars>>

(* "none": current == nil.  "joining": the registry handed the room over,  *)
(* Join not yet run.  "room": current != nil.  "closed": handler returned. *)
Phases == {"none", "joining", "room", "closed"}

(* A slot's timer: "none" means no slot; "fired" that its callback has     *)
(* been started; "stopped" that cleanupMedia stopped it.                   *)
Slots == [timer : {"none", "armed", "fired", "stopped"},
          seq : Nat, token : Tokens \cup {Nil}]
NoSlot == [timer |-> "none", seq |-> 0, token |-> Nil]

TypeOK ==
    /\ current \in [Conns -> Phases] /\ id \in [Conns -> Conns]
    /\ seq \in [Conns -> Nat] /\ tok \in [Conns -> Tokens \cup {Nil}]
    /\ want \in [Conns -> Tokens \cup {Nil}]
    /\ clients \in [Conns -> Conns \cup {Nil}] /\ pending \in [Conns -> Slots]
    /\ tokens \in [Tokens -> Conns \cup {Nil}] /\ issued \in SUBSET Tokens
    /\ hostID \in Conns \cup {Nil} /\ seqCounter \in Nat
    /\ emptyTimer \in {"nil", "armed", "fired"}
    /\ expiring \in [Conns -> Nat] /\ reaping \in Nat /\ removing \in Nat
    /\ registry \in {"absent", "live", "removed"} /\ cleaning \in BOOLEAN

Init ==
    /\ current = [c \in Conns |-> "none"] /\ id = [c \in Conns |-> c]
    /\ seq = [c \in Conns |-> 0] /\ tok = [c \in Conns |-> Nil]
    /\ want = [c \in Conns |-> Nil] /\ clients = [i \in Conns |-> Nil]
    /\ pending = [i \in Conns |-> NoSlot] /\ tokens = [t \in Tokens |-> Nil]
    /\ issued = {} /\ hostID = Nil /\ seqCounter = 0
    /\ emptyTimer = "nil" /\ expiring = [i \in Conns |-> 0]
    /\ reaping = 0 /\ removing = 0 /\ registry = "absent" /\ cleaning = FALSE

-----------------------------------------------------------------------------
HasSlot(i) == pending[i].timer # "none"
NoClients(cl) == \A i \in Conns : cl[i] = Nil

(* Revoke: delete(room.tokens, t) for each t; which tokens go with an ID.  *)
Revoke(gone) == [t \in Tokens |-> IF t \in gone THEN Nil ELSE tokens[t]]
ClientTokens(i) == {t \in Tokens : clients[i] # Nil /\ t = tok[clients[i]]}
SlotTokensByID(i) == {t \in Tokens : tokens[t] = i}   \* mutant of the next
SlotTokens(i) == {t \in Tokens : HasSlot(i) /\ t = pending[i].token}

(* The slot Leave makes for a connection, its AfterFunc started.           *)
SlotWithoutTimer(c) ==                                 \* mutant of the next
    [timer |-> "stopped", seq |-> seq[c], token |-> tok[c]]
SlotOf(c) == [timer |-> "armed", seq |-> seq[c], token |-> tok[c]]

(* The Seq of a resumed identity: its slot's, or a new one.                *)
ResumedSeqNotCounted(i) ==                             \* mutant of the next
    IF HasSlot(i) THEN pending[i].seq ELSE seqCounter
ResumedSeq(i) == IF HasSlot(i) THEN pending[i].seq ELSE seqCounter + 1

(* scheduleEmptyTimerLocked, called with the clients left after the step.  *)
NeverSchedule(cl) ==                                   \* mutant of the next
    emptyTimer' = IF ~NoClients(cl) THEN "nil" ELSE emptyTimer
scheduleEmptyTimerLocked(cl) ==
    emptyTimer' = IF ~NoClients(cl) THEN "nil"
                  ELSE IF emptyTimer = "nil" THEN "armed" ELSE emptyTimer

(* j has been in the room for longer than anybody else connected.          *)
IsOldest(j, cl) ==
    cl[j] # Nil /\ \A k \in Conns : cl[k] # Nil => seq[cl[j]] <= seq[cl[k]]

(* promoteIfHostGone: the least Seq among the connected members takes over; *)
(* with nobody connected hostID stays what it was.                          *)
NeverPromote(i, cl) == UNCHANGED hostID                \* mutant of the next
promoteIfHostGone(i, cl) ==
    \/ (hostID # i \/ NoClients(cl)) /\ UNCHANGED hostID
    \/ hostID = i /\ \E j \in Conns : IsOldest(j, cl) /\ hostID' = j

-----------------------------------------------------------------------------
(* Registry.Create: the creating handler then calls Join with no token.    *)
Create(c) ==
    /\ registry = "absent" /\ current[c] = "none"
    /\ registry' = "live"
    /\ current' = [current EXCEPT ![c] = "joining"]
    /\ UNCHANGED <<id, seq, tok, want, roomVars, timerVars, cleaning>>

(* Registry.Get succeeds; the join message carries a token issued earlier,  *)
(* or none.  Registry.mu is released before Join takes room.mu.            *)
Get(c) ==
    /\ registry = "live" /\ current[c] = "none"
    /\ \E t \in issued \cup {Nil} : want' = [want EXCEPT ![c] = t]
    /\ current' = [current EXCEPT ![c] = "joining"]
    /\ UNCHANGED <<id, seq, tok, roomVars, timerVars, registryVars>>

(* What both branches of Join end with.                                    *)
Register(c, i) ==
    /\ clients' = [clients EXCEPT ![i] = c]
    /\ hostID' = IF hostID = Nil THEN i ELSE hostID
    /\ current' = [current EXCEPT ![c] = "room"]
    /\ want' = [want EXCEPT ![c] = Nil]
    /\ emptyTimer' = "nil"
    /\ UNCHANGED <<expiring, reaping, removing, registryVars>>

(* Join with a token room.tokens knows: the connection takes over the old  *)
(* ID, from its slot if it has one, else from a connection still open.     *)
JoinResume(c) ==
    /\ current[c] = "joining" /\ want[c] # Nil /\ tokens[want[c]] # Nil
    /\ LET i == tokens[want[c]] IN
         /\ id' = [id EXCEPT ![c] = i]
         /\ tok' = [tok EXCEPT ![c] = want[c]]
         /\ seqCounter' = IF HasSlot(i) THEN seqCounter ELSE seqCounter + 1
         /\ seq' = [seq EXCEPT ![c] = ResumedSeq(i)]
         /\ pending' = [pending EXCEPT ![i] = NoSlot]
         /\ Register(c, i)
    /\ UNCHANGED <<tokens, issued>>

(* genToken returns a random value that was never returned before.         *)
genToken == Tokens \ issued

(* Join without a token, or with one the room no longer knows.             *)
JoinFresh(c) ==
    /\ current[c] = "joining"
    /\ want[c] # Nil => tokens[want[c]] = Nil
    /\ \E t \in genToken :
         /\ issued' = issued \cup {t}
         /\ tokens' = [tokens EXCEPT ![t] = id[c]]
         /\ tok' = [tok EXCEPT ![c] = t]
    /\ seqCounter' = seqCounter + 1
    /\ seq' = [seq EXCEPT ![c] = seqCounter + 1]
    /\ Register(c, id[c])
    /\ UNCHANGED <<id, pending>>

-----------------------------------------------------------------------------
(* room.clients has this very connection under its ID.                     *)
IsAnybody(c) == clients[id[c]] # Nil                   \* mutant of the next
IsNobody(c) == FALSE                                   \* mutant of the next
IsRegistered(c) == clients[id[c]] = c

LeaveWithoutGrace(c) ==                                \* mutant of the next
    /\ current[c] = "room" /\ IsRegistered(c)
    /\ LET left == [clients EXCEPT ![id[c]] = Nil] IN
         /\ clients' = left /\ tokens' = Revoke(ClientTokens(id[c]))
         /\ promoteIfHostGone(id[c], left) /\ scheduleEmptyTimerLocked(left)
    /\ current' = [current EXCEPT ![c] = "closed"]
    /\ UNCHANGED <<id, seq, tok, want, pending, issued, seqCounter, expiring,
                   reaping, removing, registryVars>>

(* The socket dies; ServeHTTP's deferred Leave finds the connection        *)
(* registered and turns its entry into a slot with a resume timer.  A slot *)
(* already there is overwritten, and its timer will still fire.            *)
Leave(c) ==
    /\ current[c] = "room" /\ IsRegistered(c)
    /\ LET i == id[c]
           left == [clients EXCEPT ![i] = Nil] IN
         /\ clients' = left
         /\ pending' = [pending EXCEPT ![i] = SlotOf(c)]
         /\ expiring' = IF pending[i].timer = "armed"
                        THEN [expiring EXCEPT ![i] = @ + 1] ELSE expiring
         /\ scheduleEmptyTimerLocked(left)
    /\ current' = [current EXCEPT ![c] = "closed"]
    /\ UNCHANGED <<id, seq, tok, want, tokens, issued, hostID, seqCounter,
                   reaping, removing, registryVars>>

(* The socket dies when its ID is registered to another connection or to   *)
(* none (Leave returns early), or before it joined.                        *)
LeaveStale(c) ==
    /\ current[c] = "none" \/ (current[c] = "room" /\ ~IsRegistered(c))
    /\ current' = [current EXCEPT ![c] = "closed"]
    /\ UNCHANGED <<id, seq, tok, want, roomVars, timerVars, registryVars>>

(* "bye": HardLeave by client ID, whichever connection holds that ID now.  *)
HardLeave(c) ==
    /\ current[c] = "room"
    /\ LET i == id[c]
           left == [clients EXCEPT ![i] = Nil] IN
         /\ clients' = left
         /\ tokens' = Revoke(ClientTokens(i) \cup SlotTokens(i))
         /\ pending' = [pending EXCEPT ![i] = NoSlot]
         /\ promoteIfHostGone(i, left)
         /\ scheduleEmptyTimerLocked(left)
    /\ current' = [current EXCEPT ![c] = "none"]
    /\ UNCHANGED <<id, seq, tok, want, issued, seqCounter,
                   expiring, reaping, removing, registryVars>>

-----------------------------------------------------------------------------
(* resumeTTL has passed.                                                   *)
ResumeTimerFires(i) ==
    /\ pending[i].timer = "armed"
    /\ pending' = [pending EXCEPT ![i].timer = "fired"]
    /\ expiring' = [expiring EXCEPT ![i] = @ + 1]
    /\ UNCHANGED <<handlerVars, clients, tokens, issued, hostID, seqCounter,
                   emptyTimer, reaping, removing, registryVars>>

(* The callback of a resume timer.  It knows the ID only: it removes the   *)
(* slot it finds, and does not stop that slot's timer.                     *)
finalizeLeave(i) ==
    /\ expiring[i] > 0
    /\ IF HasSlot(i)
       THEN /\ pending' = [pending EXCEPT ![i] = NoSlot]
            /\ tokens' = Revoke(SlotTokens(i))
            /\ promoteIfHostGone(i, clients)
            /\ scheduleEmptyTimerLocked(clients)
            /\ expiring' = IF pending[i].timer = "armed" THEN expiring
                           ELSE [expiring EXCEPT ![i] = @ - 1]
       ELSE /\ expiring' = [expiring EXCEPT ![i] = @ - 1]
            /\ UNCHANGED <<pending, tokens, hostID, emptyTimer>>
    /\ UNCHANGED <<handlerVars, clients, issued, seqCounter,
                   reaping, removing, registryVars>>

(* emptyRoomTTL (2 min) has passed since the last client went.  Every slot *)
(* is older than that, and resumeTTL is 60 s: their timers fired before.   *)
EmptyTimerFires ==
    /\ emptyTimer = "armed"
    /\ \A i \in Conns : pending[i].timer # "armed"
    /\ emptyTimer' = "fired"
    /\ reaping' = reaping + 1
    /\ UNCHANGED <<handlerVars, roomVars, expiring, removing, registryVars>>

(* The callback's critical section: it looks at the clients and unlocks.   *)
ReapCheck ==
    /\ reaping > 0
    /\ reaping' = reaping - 1
    /\ removing' = IF NoClients(clients) THEN removing + 1 ELSE removing
    /\ UNCHANGED <<handlerVars, roomVars, emptyTimer, expiring, registryVars>>

(* Registry.remove, under Registry.mu.                                     *)
Remove ==
    /\ removing > 0
    /\ removing' = removing - 1
    /\ registry' = "removed"
    /\ cleaning' = (cleaning \/ registry = "live")
    /\ UNCHANGED <<handlerVars, roomVars, emptyTimer, expiring, reaping>>

(* cleanupMedia, under room.mu: every timer of the room is stopped.        *)
cleanupMedia ==
    /\ cleaning
    /\ cleaning' = FALSE
    /\ emptyTimer' = "nil"
    /\ pending' = [i \in Conns |->
                     IF pending[i].timer = "armed"
                     THEN [pending[i] EXCEPT !.timer = "stopped"]
                     ELSE pending[i]]
    /\ UNCHANGED <<handlerVars, clients, tokens, issued, hostID, seqCounter,
                   expiring, reaping, removing, registry>>

-----------------------------------------------------------------------------
Next ==
    \/ \E c \in Conns : \/ Create(c) \/ Get(c)
                        \/ JoinResume(c) \/ JoinFresh(c)
                        \/ Leave(c) \/ LeaveStale(c) \/ HardLeave(c)
                        \/ ResumeTimerFires(c) \/ finalizeLeave(c)
    \/ EmptyTimerFires \/ ReapCheck \/ Remove \/ cleanupMedia

Spec == Init /\ [][Next]_vars

(* Timers fire and their goroutines run; a handler that began a join ends  *)
(* it.  Nothing forces a user to join, to say bye or to lose its socket.   *)
Fairness ==
    /\ \A c \in Conns : /\ WF_vars(JoinResume(c) \/ JoinFresh(c))
                        /\ WF_vars(ResumeTimerFires(c))
                        /\ WF_vars(finalizeLeave(c))
    /\ WF_vars(EmptyTimerFires) /\ WF_vars(ReapCheck)
    /\ WF_vars(Remove) /\ WF_vars(cleanupMedia)

FairSpec == Spec /\ Fairness

-----------------------------------------------------------------------------
(* SAFETY                                                                  *)

(* The room sends to, counts and promotes only open connections, each      *)
(* under the ID its handler holds: a handler that returned, said bye or is *)
(* about to join is in room.clients under no ID, although bye and resume   *)
(* go by ID and several sockets may share one.                             *)
RegisteredIsLive ==
    \A i, c \in Conns : clients[i] = c => current[c] = "room" /\ id[c] = i

(* Seniority is a strict order: no two members, connected or in grace,     *)
(* share a Seq, so promoteIfHostGone has one possible outcome whatever     *)
(* order Go iterates room.clients in.                                      *)
SeniorityIsStrict ==
    /\ \A i, j \in Conns :
         /\ clients[i] # Nil /\ clients[j] # Nil /\ i # j
              => seq[clients[i]] # seq[clients[j]]
         /\ HasSlot(i) /\ HasSlot(j) /\ i # j
              => pending[i].seq # pending[j].seq
         /\ clients[i] # Nil /\ HasSlot(j)
              => seq[clients[i]] # pending[j].seq
    /\ \A i \in Conns :
         /\ clients[i] # Nil => seq[clients[i]] <= seqCounter
         /\ HasSlot(i) => pending[i].seq <= seqCounter

(* Whoever is connected or in grace holds a token that resumes exactly its *)
(* identity: no bye, expiry or takeover of another ID invalidates it.      *)
TokenResumesMember ==
    \A i \in Conns :
      /\ clients[i] # Nil =>
           tok[clients[i]] # Nil /\ tokens[tok[clients[i]]] = i
      /\ HasSlot(i) => pending[i].token # Nil /\ tokens[pending[i].token] = i

(* No slot is held for ever: while the room is registered, a slot has a    *)
(* running timer or a finalizeLeave callback on its way, also when earlier *)
(* callbacks for the same ID came late.                                    *)
SlotWillExpire ==
    \A i \in Conns :
      /\ pending[i].timer = "fired" => expiring[i] > 0
      /\ pending[i].timer = "stopped" => registry = "removed"

(* A registered room that somebody joined and nobody is connected to has   *)
(* its removal under way, and no timer runs against an occupied room.      *)
EmptyRoomIsScheduled ==
    /\ registry = "live" /\ seqCounter > 0 /\ NoClients(clients) =>
         \/ emptyTimer = "armed"
         \/ emptyTimer = "fired" /\ reaping + removing > 0
    /\ ~NoClients(clients) => emptyTimer = "nil"

(* A token in use was issued, so genToken never returns it again.          *)
TokensAreIssued == \A t \in Tokens : tokens[t] # Nil => t \in issued

(* An ID with both a connection and a slot (a rejoin after a bye of that   *)
(* ID) uses two tokens: the slot's expiry leaves the connection's alone.   *)
SlotTokenIsItsOwn ==
    \A i \in Conns : clients[i] # Nil /\ HasSlot(i) =>
      pending[i].token # tok[clients[i]]

(* Only a room taken out of the registry is cleaned up; a room that does   *)
(* not exist yet has been handed to no handler.                            *)
RegistryOrder ==
    /\ cleaning => registry = "removed"
    /\ registry = "absent" =>
         seqCounter = 0 /\ \A c \in Conns : current[c] \in {"none", "closed"}

(* A slot, and a resume callback on its way, is left by a connection of    *)
(* that ID that is gone; a callback can meet a slot whose own timer has    *)
(* not fired only if two connections of that ID are.                       *)
Gone(i) == {c \in Conns : current[c] = "closed" /\ id[c] = i}
SlotsComeFromDrops ==
    \A i \in Conns :
      /\ HasSlot(i) \/ expiring[i] > 0 => Gone(i) # {}
      /\ pending[i].timer \in {"armed", "stopped"} /\ expiring[i] > 0
           => \E c, d \in Gone(i) : c # d

(* The inductive invariant of MembershipProofs: every invariant above      *)
(* needs some of the others to survive a join, a bye or a late callback.   *)
IInv ==
    /\ TypeOK /\ RegisteredIsLive /\ SeniorityIsStrict /\ TokenResumesMember
    /\ SlotWillExpire /\ EmptyRoomIsScheduled
    /\ TokensAreIssued /\ SlotTokenIsItsOwn /\ RegistryOrder
    /\ SlotsComeFromDrops

(* The host says bye, or is away and its resume timer has run out.         *)
SaysBye(i) ==
    \E c \in Conns : id[c] = i /\ current[c] = "room" /\ current'[c] = "none"
GraceIsOver(i) == clients[i] = Nil /\ pending[i].timer = "fired"

(* The host role leaves a host who did not say bye only after its resume   *)
(* grace, and then for the connected member with the least Seq.  Timer.Stop *)
(* does not recall a callback and finalizeLeave knows only the ID, so a    *)
(* grace may be cut short and a host who is back may be deposed, but not   *)
(* at a host's first drop: the first takes two dropped connections of the  *)
(* same identity, the second one besides the one connected.                *)
HostKeepsGrace ==
    [][hostID # Nil /\ hostID' # hostID =>
         /\ \/ SaysBye(hostID) \/ GraceIsOver(hostID)
            \/ clients[hostID] = Nil /\ \E c, d \in Gone(hostID) : c # d
            \/ clients[hostID] # Nil /\ Gone(hostID) # {}
         /\ clients'[hostID'] # Nil
         /\ \A k \in Conns : clients'[k] # Nil =>
              seq[clients'[hostID']] <= seq[clients'[k]]]_vars

(* What the protocol document says of a host that drops: the role is held  *)
(* for the whole grace, whatever happened before.                          *)
HostRoleIsHeld ==
    [][hostID # Nil /\ hostID' # hostID =>
         SaysBye(hostID) \/ GraceIsOver(hostID)]_vars

(* The role is orphaned, with hostID naming nobody in the room, only by a  *)
(* step that leaves no connection to promote.  (Join does not look at it   *)
(* again, so whoever comes then finds a room without a host.)              *)
HostLostOnlyWhenEmpty ==
    [][hostID # Nil /\ (clients[hostID] # Nil \/ HasSlot(hostID)) =>
         clients'[hostID'] # Nil \/ pending'[hostID'].timer # "none"
           \/ NoClients(clients')]_vars

(* A connection loses its place in room.clients only by its own socket     *)
(* dropping, by a bye for its ID or by a join under its ID.  The drop of   *)
(* an old socket whose identity was resumed elsewhere evicts nobody.       *)
DropEvictsOnlyItself ==
    [][\A i \in Conns :
         clients[i] # Nil /\ clients'[i] # clients[i] =>
           \/ current'[clients[i]] = "closed"
           \/ \E c \in Conns : current[c] = "room" /\ current'[c] = "none"
                              /\ id[c] = i
           \/ \E c \in Conns : current[c] = "joining" /\ clients'[i] = c]_vars

(* LIVENESS, under FairSpec                                                *)

(* Every slot is resolved: resumed, given up or expired, unless the room   *)
(* itself is removed first.                                                *)
SlotsAreResolved ==
    \A i \in Conns : HasSlot(i) ~> (~HasSlot(i) \/ registry = "removed")

(* A room everybody left is rejoined or removed from the registry.         *)
EmptyRoomVanishes ==
    (seqCounter > 0 /\ NoClients(clients))
        ~> (~NoClients(clients) \/ registry = "removed")

=============================================================================
