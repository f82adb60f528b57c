-------------------------------- MODULE Peers --------------------------------
(***************************************************************************)
(* The WebRTC peers of a stream room: internal/rtc/broadcaster.go without  *)
(* the pump, and the calls that reach it from internal/room/stream.go.     *)
(*                                                                         *)
(* The reader of a connection passes on rtc messages of its client; after  *)
(* a resume two connections carry the same client ID, until the old one is *)
(* dropped.  Leave, HardLeave and finalizeLeave remove the client's peer,  *)
(* cleanupMedia closes the broadcaster, and a peer connection calls back   *)
(* in a goroutine of its own when it has failed or is closed.  Each region *)
(* under b.mu or p.mu and each call of the WebRTC library is a step;       *)
(* todo[w] is what goroutine w still has to do.                            *)
(*                                                                         *)
(* Left out: SDP and the contents of candidates, the candidates of the     *)
(* server (passed on without a change of state), and whether the client is *)
(* a member of the room, which HandleSignal does not ask.                  *)
(***************************************************************************)
EXTENDS Naturals, Sequences, FiniteSets, SequencesExt

CONSTANTS
    Readers,         \* readers of connections; also client IDs, one for each
    PCs,             \* bound: peer connections
    Closer,          \* the goroutine that runs cleanupMedia
    Leaver,          \* one that runs Leave, HardLeave or finalizeLeave
    MaxCandidates,   \* bound: candidates waiting for one peer
    Nil

(* A goroutine for each reader, for a departure (they hold room.mu), for   *)
(* the end of the room and for each state change of a peer connection.     *)
Callbacks == PCs \X {"failed", "closed"}
Workers == Readers \cup {Closer, Leaver} \cup Callbacks

ASSUME PeersAssumption ==
    /\ MaxCandidates \in Nat /\ Nil \notin PCs \cup Readers
    /\ IsFiniteSet(PCs)
    /\ Closer # Leaver /\ {Closer, Leaver} \cap (Readers \cup Callbacks) = {}
    /\ Readers \cap Callbacks = {}

VARIABLES
    id,           \* id[g]: Client.ID of g's connection
    peers,        \* b.peers
    pc,           \* pc[x]: a peerConn and its PeerConnection
    closed,       \* b.closed
    overwritten,  \* history: peers replaced in b.peers without a Close
    todo

vars == <<id, peers, pc, closed, overwritten, todo>>

(* remote: the library has the remote description; heard: its handlers are *)
(* set; pending: the number of candidates.                                 *)
Free == [st |-> "free", id |-> Nil, heard |-> FALSE, remote |-> FALSE,
         remoteSet |-> FALSE, pending |-> 0]
States == [st : {"free", "open", "failed", "closed"}, id : Readers \cup {Nil},
           heard : BOOLEAN, remote : BOOLEAN, remoteSet : BOOLEAN,
           pending : 0..MaxCandidates]
Op(o, x) == [op |-> o, on |-> x]
PeerOps == [op : {"close", "handlers", "offer", "remote", "flush", "buffer", "add"},
            on : PCs]
Ops == [op : {"take", "create", "answer", "ice"}, on : Readers] \cup PeerOps

TypeOK ==
    /\ id \in [Readers -> Readers] /\ peers \in [Readers -> PCs \cup {Nil}]
    /\ pc \in [PCs -> States]
    /\ closed \in BOOLEAN /\ overwritten \subseteq PCs
    /\ todo \in [Workers -> Seq(Ops)]

Init ==
    /\ id = [g \in Readers |-> g] /\ peers = [i \in Readers |-> Nil] /\ pc = [x \in PCs |-> Free]
    /\ closed = FALSE /\ overwritten = {} /\ todo = [w \in Workers |-> <<>>]

Begin(w, ops) == todo[w] = <<>> /\ todo' = [todo EXCEPT ![w] = ops]
Pop(w, ops) == todo' = [todo EXCEPT ![w] = ops \o Tail(@)]

-----------------------------------------------------------------------------
(* join with a resume token, the first thing the connection asks for: it   *)
(* takes over another ID.                                                  *)
Resume(g, i) ==
    /\ id[g] = g /\ i # g /\ id[i] = i /\ todo[g] = <<>> /\ peers[g] = Nil
    /\ \A x \in PCs : pc[x].id # g
    /\ id' = [id EXCEPT ![g] = i] /\ UNCHANGED <<peers, pc, closed, overwritten, todo>>

(* HandleSignal: a join, an answer or a candidate of the client.           *)
HandleSignal(g) ==
    /\ LET i == id[g] IN
         \/ Begin(g, <<Op("take", i), Op("create", i)>>)
         \/ \E o \in {"answer", "ice"} : Begin(g, <<Op(o, i)>>)
    /\ UNCHANGED <<id, peers, pc, closed, overwritten>>

(* Leave, HardLeave or finalizeLeave: removeStreamPeer.                    *)
RemovePeer(i) ==
    /\ Begin(Leaver, <<Op("take", i)>>) /\ UNCHANGED <<id, peers, pc, closed, overwritten>>

(* Close: the peers are taken out under b.mu and closed after it.          *)
Close ==
    /\ ~closed /\ closed' = TRUE /\ peers' = [i \in Readers |-> Nil]
    /\ \E ops \in SetToSeqs({Op("close", x) : x \in Range(peers) \ {Nil}}) :
         Begin(Closer, ops)
    /\ UNCHANGED <<id, pc, overwritten>>

-----------------------------------------------------------------------------
(* removePeer: the entry goes under b.mu, and its connection is closed.    *)
TakeOnly(w, i) ==                                      \* mutant of the next
    /\ peers' = [peers EXCEPT ![i] = Nil] /\ Pop(w, <<>>)
    /\ UNCHANGED <<id, pc, closed, overwritten>>
removePeer(w, i) ==
    /\ peers' = [peers EXCEPT ![i] = Nil]
    /\ Pop(w, IF peers[i] = Nil THEN <<>> ELSE <<Op("close", peers[i])>>)
    /\ UNCHANGED <<id, pc, closed, overwritten>>

(* The callback of OnConnectionStateChange: by the ID of the client.       *)
StateChange(x, s) == Op("take", pc[x].id)

(* pc.Close: the first one is reported to the handlers, if they are set.   *)
ClosePC(w, x) ==
    /\ pc' = [pc EXCEPT ![x].st = "closed"]
    /\ todo' = LET popped == [todo EXCEPT ![w] = Tail(@)] IN
               IF pc[x].heard /\ pc[x].st # "closed"
               THEN [popped EXCEPT ![<<x, "closed">>] = <<StateChange(x, "closed")>>]
               ELSE popped
    /\ UNCHANGED <<id, peers, closed, overwritten>>

(* addPeer after removePeer, under b.mu: nothing once closed, and nothing  *)
(* when the library makes no connection.  One that takes no track is       *)
(* closed.                                                                 *)
Always == TRUE                                         \* mutant of the next
MayAdd == ~closed
CreateFails(w, i) ==
    /\ Pop(w, <<>>) /\ UNCHANGED <<id, peers, pc, closed, overwritten>>
addPeer(w, i) ==
    \/ CreateFails(w, i)
    \/ /\ MayAdd
       /\ \E x \in PCs :
            /\ pc[x].st = "free" /\ pc' = [pc EXCEPT ![x] = [Free EXCEPT !.st = "open", !.id = i]]
            /\ \/ /\ peers' = [peers EXCEPT ![i] = x]
                  /\ overwritten' = overwritten \cup ({peers[i]} \ {Nil})
                  /\ Pop(w, <<Op("handlers", x), Op("offer", x)>>)
               \/ Pop(w, <<Op("close", x)>>) /\ UNCHANGED <<peers, overwritten>>
       /\ UNCHANGED <<id, closed>>

SetHandlers(w, x) ==
    /\ pc' = [pc EXCEPT ![x].heard = TRUE] /\ Pop(w, <<>>)
    /\ UNCHANGED <<id, peers, closed, overwritten>>

(* CreateOffer and SetLocalDescription fail, surely on a closed one, or    *)
(* the offer is sent.                                                      *)
Offer(w, x) ==
    /\ \/ Pop(w, <<Op("take", pc[x].id)>>)
       \/ pc[x].st # "closed" /\ Pop(w, <<>>)
    /\ UNCHANGED <<id, peers, pc, closed, overwritten>>

-----------------------------------------------------------------------------
(* onAnswer and onRemoteICE find the client's peer under b.mu.             *)
FindPeer(w, o, i) ==
    /\ Pop(w, IF peers[i] = Nil THEN <<>>
              ELSE <<Op(IF o = "answer" THEN "remote" ELSE "buffer", peers[i])>>)
    /\ UNCHANGED <<id, peers, pc, closed, overwritten>>

(* SetRemoteDescription fails, surely on a closed one, or succeeds.        *)
SetRemoteDescription(w, x) ==
    /\ \/ Pop(w, <<>>) /\ UNCHANGED pc
       \/ /\ pc[x].st # "closed" /\ Pop(w, <<Op("flush", x)>>)
          /\ pc' = [pc EXCEPT ![x].remote = TRUE]
    /\ UNCHANGED <<id, peers, closed, overwritten>>

(* remoteSet is set and the waiting candidates are taken, under p.mu.      *)
Flush(w, x) ==
    /\ pc' = [pc EXCEPT ![x].remoteSet = TRUE, ![x].pending = 0]
    /\ Pop(w, [n \in 1..pc[x].pending |-> Op("add", x)])
    /\ UNCHANGED <<id, peers, closed, overwritten>>

(* onRemoteICE under p.mu: the candidate waits, or is added after it.      *)
KeepCandidate(w, x) ==                                 \* mutant of the next
    /\ pc[x].pending < MaxCandidates /\ pc' = [pc EXCEPT ![x].pending = @ + 1]
    /\ Pop(w, <<>>) /\ UNCHANGED <<id, peers, closed, overwritten>>
onRemoteICE(w, x) ==
    /\ IF pc[x].remoteSet THEN Pop(w, <<Op("add", x)>>) /\ UNCHANGED pc
       ELSE /\ pc[x].pending < MaxCandidates /\ Pop(w, <<>>)
            /\ pc' = [pc EXCEPT ![x].pending = @ + 1]
    /\ UNCHANGED <<id, peers, closed, overwritten>>

AddICECandidate(w, x) == Pop(w, <<>>) /\ UNCHANGED <<id, peers, pc, closed, overwritten>>

(* A connection cannot reach its client any more.                          *)
Disconnects(x) ==                                      \* mutant of the next
    /\ pc[x].st = "open" /\ pc[x].heard
    /\ Begin(<<x, "failed">>, <<StateChange(x, "failed")>>)
    /\ UNCHANGED <<id, peers, pc, closed, overwritten>>
Fail(x) ==
    /\ pc[x].st = "open" /\ pc[x].heard
    /\ pc' = [pc EXCEPT ![x].st = "failed"]
    /\ Begin(<<x, "failed">>, <<StateChange(x, "failed")>>)
    /\ UNCHANGED <<id, peers, closed, overwritten>>

Work(w) ==
    /\ todo[w] # <<>>
    /\ LET o == Head(todo[w]).op
           x == Head(todo[w]).on IN
         \/ o = "take" /\ removePeer(w, x)
         \/ o = "close" /\ ClosePC(w, x)
         \/ o = "create" /\ addPeer(w, x)
         \/ o = "handlers" /\ SetHandlers(w, x)
         \/ o = "offer" /\ Offer(w, x)
         \/ o \in {"answer", "ice"} /\ FindPeer(w, o, x)
         \/ o = "remote" /\ SetRemoteDescription(w, x)
         \/ o = "flush" /\ Flush(w, x)
         \/ o = "buffer" /\ onRemoteICE(w, x)
         \/ o = "add" /\ AddICECandidate(w, x)

Next ==
    \/ \E g, i \in Readers : Resume(g, i)
    \/ \E g \in Readers : HandleSignal(g) \/ RemovePeer(g)
    \/ \E x \in PCs : Fail(x)
    \/ \E w \in Workers : Work(w)
    \/ Close

Spec == Init /\ [][Next]_vars

-----------------------------------------------------------------------------
(* SAFETY                                                                  *)

Alive(x) == pc[x].st \in {"open", "failed"}
BeingClosed(x) == \E w \in Workers : Op("close", x) \in Range(todo[w])
Twins(i) == \E g, h \in Readers : g # h /\ id[g] = i /\ id[h] = i

(* No peer connection is forgotten: one that is not closed is the peer of  *)
(* its client or about to be closed, whichever of joins, departures, late  *)
(* callbacks and the end of the room met.  The one exception needs two     *)
(* connections of one client that join at the same time: addPeer removes   *)
(* the old peer in one critical section and installs the new one in        *)
(* another, so the later one replaces the other's without closing it.      *)
NoForgottenPeer ==
    /\ \A x \in PCs : Alive(x) =>
         peers[pc[x].id] = x \/ BeingClosed(x) \/ x \in overwritten
    /\ \A x \in overwritten : Twins(pc[x].id)

(* A closed broadcaster has no peers: a join that was under way does not   *)
(* bring one back.                                                         *)
NoPeerAfterClose == closed => \A i \in Readers : peers[i] = Nil

(* Candidates meet a connection that can use them, and none is left        *)
(* waiting, also when the answer and the candidates come by two            *)
(* connections: AddICECandidate is called only after the remote            *)
(* description is set, and nothing is buffered from then on.               *)
CandidatesAreUsed ==
    /\ \A x \in PCs : pc[x].remoteSet => pc[x].pending = 0 /\ pc[x].remote
    /\ \A w \in Workers : \A o \in Range(todo[w]) :
         o.op \in {"flush", "add"} => pc[o.on].remote

(* Nobody knows a connection that was not made, and one that was made has  *)
(* its client: what is in b.peers, was replaced there or is still to be    *)
(* worked on.                                                              *)
OnlyMadeIsKnown ==
    /\ \A x \in PCs : pc[x].st = "free" => pc[x] = Free
    /\ \A x \in PCs : pc[x].st # "free" => pc[x].id # Nil
    /\ \A i \in Readers : peers[i] # Nil => pc[peers[i]].id = i
    /\ \A x \in overwritten : pc[x].st # "free"
    /\ \A w \in Workers : \A o \in Range(todo[w]) :
         o \in PeerOps => pc[o.on].st # "free"

(* A join creates for the ID its connection has, as its last act, and      *)
(* finds the old peer gone unless another connection of the client joins.  *)
JoinIsOwn ==
    \A w \in Workers :
      /\ \A n \in DOMAIN todo[w] : todo[w][n].op = "create" => n = Len(todo[w])
      /\ \A o \in Range(todo[w]) : o.op = "create" =>
           /\ w \in Readers /\ id[w] = o.on
           /\ Op("take", o.on) \in Range(todo[w]) \/ peers[o.on] = Nil \/ Twins(o.on)

(* A callback runs for a connection that has failed or is closed, and asks *)
(* for the peer of that connection's client.                               *)
CallbackIsLate ==
    \A x \in PCs :
      /\ pc[x].st # "closed" => todo[<<x, "closed">>] = <<>>
      /\ pc[x].st \in {"free", "open"} => todo[<<x, "failed">>] = <<>>
      /\ \A s \in {"failed", "closed"} : \A o \in Range(todo[<<x, s>>]) :
           o.op = "close" \/ o = Op("take", pc[x].id)

(* A client's entry is a peer connection of its own, with the candidates   *)
(* in order, whatever readers, departures and callbacks have still to do.  *)
PeersInv == /\ TypeOK /\ CandidatesAreUsed /\ OnlyMadeIsKnown
            /\ JoinIsOwn /\ CallbackIsLate

(* A callback takes away a peer that is well only if it is the callback of *)
(* an earlier one of the same client: removePeer goes by the client's ID.  *)
(* A client that joined once keeps its peer.                               *)
FirstPeerIsKept ==
    [][\A i \in Readers :
         /\ peers[i] # Nil /\ peers'[i] = Nil /\ pc[peers[i]].st = "open"
         /\ \E w \in Callbacks : todo[w] # <<>> /\ todo'[w] # todo[w]
         => Cardinality({x \in PCs : pc[x].id = i}) > 1]_vars
=============================================================================
