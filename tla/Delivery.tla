------------------------------ MODULE Delivery ------------------------------
(***************************************************************************)
(* How messages get from the room to its clients: the reader and the       *)
(* writer goroutine of a connection (internal/wsapi/handler.go) and        *)
(* broadcastState, sendAll and catchUp (internal/room).                    *)
(*                                                                         *)
(* A client's Send channel is bounded; whoever finds it full drops the     *)
(* message, except the reply to a ping, which waits.  room_state is built  *)
(* and put into the channels under room.mu; now_playing is built under     *)
(* room.mu and sent after the unlock.  todo[w] is what a goroutine still   *)
(* has to do: the reader of a connection, or another of the room's.        *)
(*                                                                         *)
(* What room_state and now_playing say is a version: the number of changes *)
(* they include.  A Go channel and its one writer keep the order, so of a  *)
(* channel only its length is kept, and which version of each kind was put *)
(* into it last: the client will have it when the channel is empty.  Who   *)
(* may ask for a change, resume and the grace after a drop are in          *)
(* Membership and Permissions.                                             *)
(***************************************************************************)
EXTENDS Naturals, Sequences, FiniteSets, SequencesExt

CONSTANTS
    Conns,        \* connections, each with an ID of its own
    Others,       \* goroutines of timers, of the pipeline, of other readers
    Cap,          \* capacity of client.Send
    MaxChanges,   \* bound: versions of the room before the drops
    MaxControls,  \* bound: versions of the playback
    Lost          \* no version: the message was dropped

ASSUME DeliveryAssumption ==
    /\ Cap \in Nat \ {0} /\ MaxChanges \in Nat /\ MaxControls \in Nat
    /\ Others \cap Conns = {} /\ Lost \notin Nat

VARIABLES
    open,     \* the socket of a connection works
    reading,  \* its ServeHTTP has not returned
    writer,   \* its writePump: at the channel, in conn.Write, or returned
    out,      \* length of client.Send
    last,     \* history: last[c][k], the version of the last message of kind k
              \* that went into client.Send, or Lost if it found it full
    member,   \* room.clients
    state,    \* version of the room
    np,       \* version of room.playing; 0 until it is started
    crossed,  \* history: two now_playing were under way together
    todo      \* todo[w]: what goroutine w has before it

conns == <<open, reading, writer>>
boxes == <<out, last>>
room == <<member, state, np>>
vars == <<conns, boxes, room, crossed, todo>>

Workers == Conns \cup Others
Kinds == {"state", "np"}
Op(o, v) == [op |-> o, ver |-> v]
Send(k, v, to) == [op |-> k, ver |-> v, to |-> to]
Ops == [op : {"broadcast", "list", "catchUp", "pong"}, ver : Nat]
       \cup [op : {"np", "prepare"}, ver : Nat, to : SUBSET Conns]

TypeOK ==
    /\ open \in [Conns -> BOOLEAN] /\ reading \in [Conns -> BOOLEAN]
    /\ writer \in [Conns -> {"idle", "writing", "returned"}]
    /\ out \in [Conns -> 0..Cap]
    /\ last \in [Conns -> [Kinds -> Nat \cup {Lost}]]
    /\ member \subseteq Conns /\ state \in Nat /\ np \in 0..MaxControls
    /\ crossed \in BOOLEAN /\ todo \in [Workers -> Seq(Ops)]
    /\ \A w \in Workers : \A o \in Range(todo[w]) :
         o.op \in {"catchUp", "pong"} => w \in Conns

Init ==
    /\ open = [c \in Conns |-> TRUE] /\ reading = [c \in Conns |-> TRUE]
    /\ writer = [c \in Conns |-> "idle"] /\ out = [c \in Conns |-> 0]
    /\ last = [c \in Conns |-> [k \in Kinds |-> 0]]
    /\ member = {} /\ state = 0 /\ np = 0 /\ crossed = FALSE
    /\ todo = [w \in Workers |-> <<>>]

-----------------------------------------------------------------------------
(* select { case c.Send <- env: default: } for the connections cs; env is  *)
(* of kind k and version v.                                                *)
Post(cs, k, v) ==
    /\ out' = [c \in Conns |-> IF c \in cs /\ out[c] < Cap THEN out[c] + 1 ELSE out[c]]
    /\ last' = [c \in Conns |-> IF c \notin cs \/ k \notin Kinds THEN last[c]
                               ELSE [last[c] EXCEPT ![k] = IF out[c] < Cap THEN v ELSE Lost]]

Begin(w, ops) == todo' = [todo EXCEPT ![w] = ops]
Pop(w, ops) == todo' = [todo EXCEPT ![w] = ops \o Tail(@)]

(* The room changes under room.mu; broadcastState comes after the unlock.  *)
Changed(w, ops) == state' = state + 1 /\ Begin(w, <<Op("broadcast", state')>> \o ops)

-----------------------------------------------------------------------------
(* The reader is back at conn.Read, and a message is there.                *)
Reads(c) == todo[c] = <<>> /\ reading[c] /\ open[c]

(* create or join.                                                         *)
Join(c) ==
    /\ Reads(c) /\ c \notin member /\ state < MaxChanges
    /\ member' = member \cup {c}
    /\ Changed(c, <<Op("catchUp", 0)>>)
    /\ UNCHANGED <<conns, boxes, np, crossed>>

(* enqueue, remove, set_settings, progress of a member; UpsertTrack of the *)
(* pipeline and finalizeLeave.                                             *)
ChangeRoom(w) ==
    /\ \/ w \in member /\ Reads(w)
       \/ w \in Others /\ todo[w] = <<>>
    /\ state < MaxChanges /\ Changed(w, <<>>)
    /\ UNCHANGED <<conns, boxes, member, np, crossed>>

(* pause, resume and seek of a member, startPlayback: the playback changes *)
(* and its now_playing is built under room.mu.                             *)
NpUnderWay == \E w \in Workers : \E o \in Range(todo[w]) : o.op \in {"list", "np"}
Control(w) ==
    /\ \/ w \in member /\ Reads(w) /\ np > 0
       \/ w \in Others /\ todo[w] = <<>>
    /\ np < MaxControls /\ np' = np + 1 /\ Begin(w, <<Op("list", np')>>)
    /\ crossed' = NpUnderWay
    /\ UNCHANGED <<conns, boxes, member, state>>

(* MarkReady of a member after the start: it is sent the now_playing.      *)
MarkReady(c) ==
    /\ Reads(c) /\ c \in member /\ np > 0
    /\ Begin(c, <<Send("np", np, {c})>>) /\ crossed' = (crossed \/ NpUnderWay)
    /\ UNCHANGED <<conns, boxes, room>>

(* A message that is refused.                                              *)
sendErr(c) ==
    /\ Reads(c) /\ Post({c}, "error", 0)
    /\ UNCHANGED <<conns, room, crossed, todo>>

Ping(c) ==
    /\ Reads(c) /\ Begin(c, <<Op("pong", 0)>>)
    /\ UNCHANGED <<conns, boxes, room, crossed>>

(* bye.                                                                    *)
HardLeave(c) ==
    /\ Reads(c) /\ c \in member /\ member' = member \ {c} /\ Changed(c, <<>>)
    /\ UNCHANGED <<conns, boxes, np, crossed>>

(* conn.Read fails and ServeHTTP returns, with Leave for a member.         *)
JustReturn(c) ==                                       \* mutant of the next
    /\ todo[c] = <<>> /\ reading[c] /\ ~open[c]
    /\ reading' = [reading EXCEPT ![c] = FALSE]
    /\ UNCHANGED <<open, writer, boxes, room, crossed, todo>>
ReadFails(c) ==
    /\ todo[c] = <<>> /\ reading[c] /\ ~open[c]
    /\ reading' = [reading EXCEPT ![c] = FALSE]
    /\ IF c \in member THEN member' = member \ {c} /\ Changed(c, <<>>)
                       ELSE UNCHANGED <<member, state, todo>>
    /\ UNCHANGED <<open, writer, boxes, np, crossed>>

-----------------------------------------------------------------------------
(* What goroutine w does next; o is the head of todo[w].                   *)
BroadcastEarlier(w, o) ==                              \* mutant of the next
    /\ o.op = "broadcast" /\ Pop(w, <<>>)
    /\ Post(member, "state", o.ver)
    /\ UNCHANGED <<conns, room, crossed>>
broadcastState(w, o) ==
    /\ o.op = "broadcast" /\ Pop(w, <<>>)
    /\ Post(member, "state", state)
    /\ UNCHANGED <<conns, room, crossed>>

(* sendAll: the channels are listed under room.mu and served one by one.   *)
sendAll(w, o) ==
    /\ o.op = "list" /\ Pop(w, <<Send("np", o.ver, member)>>)
    /\ UNCHANGED <<conns, boxes, room, crossed>>

SendOne(w, o) ==
    /\ o.op \in {"np", "prepare"}
    /\ \/ o.to = {} /\ Pop(w, <<>>) /\ UNCHANGED boxes
       \/ \E c \in o.to : /\ Post({c}, o.op, o.ver)
                          /\ Pop(w, <<Send(o.op, o.ver, o.to \ {c})>>)
    /\ UNCHANGED <<conns, room, crossed>>

NoCatchUp(w, o) ==                                     \* mutant of the next
    /\ o.op = "catchUp" /\ Pop(w, <<>>)
    /\ UNCHANGED <<conns, boxes, room, crossed>>
catchUp(w, o) ==
    /\ o.op = "catchUp"
    /\ IF np > 0 THEN /\ Pop(w, <<Send("prepare", 0, {w}), Send("np", np, {w})>>)
                      /\ crossed' = (crossed \/ NpUnderWay)
       ELSE Pop(w, <<>>) /\ UNCHANGED crossed
    /\ UNCHANGED <<conns, boxes, room>>

(* client.Send <- pong: no default.                                        *)
Pong(w, o) ==
    /\ o.op = "pong" /\ out[w] < Cap
    /\ out' = [out EXCEPT ![w] = @ + 1] /\ Pop(w, <<>>)
    /\ UNCHANGED <<conns, last, room, crossed>>

Work(w) ==
    /\ todo[w] # <<>>
    /\ LET o == Head(todo[w]) IN
         \/ broadcastState(w, o) \/ sendAll(w, o) \/ SendOne(w, o)
         \/ catchUp(w, o) \/ Pong(w, o)

-----------------------------------------------------------------------------
(* writePump takes a message, and conn.Write succeeds, fails or times out; *)
(* a failed write closes the socket.  It returns when ServeHTTP has.       *)
Take(c) ==
    /\ writer[c] = "idle" /\ out[c] > 0
    /\ writer' = [writer EXCEPT ![c] = "writing"] /\ out' = [out EXCEPT ![c] = @ - 1]
    /\ UNCHANGED <<open, reading, last, room, crossed, todo>>

Written(c) ==
    /\ writer[c] = "writing" /\ open[c] /\ writer' = [writer EXCEPT ![c] = "idle"]
    /\ UNCHANGED <<open, reading, boxes, room, crossed, todo>>

WriteFails(c) ==
    /\ \/ writer[c] = "writing"
       \/ writer[c] = "idle" /\ ~reading[c] /\ todo[c] = <<>>
    /\ writer' = [writer EXCEPT ![c] = "returned"] /\ open' = [open EXCEPT ![c] = FALSE]
    /\ UNCHANGED <<reading, boxes, room, crossed, todo>>

(* The network or the client breaks the connection.                        *)
Break(c) ==
    /\ open[c] /\ open' = [open EXCEPT ![c] = FALSE]
    /\ UNCHANGED <<reading, writer, boxes, room, crossed, todo>>

writePump(c) == Take(c) \/ Written(c) \/ WriteFails(c)

Next ==
    \/ \E c \in Conns :
         \/ Join(c) \/ MarkReady(c) \/ sendErr(c) \/ Ping(c) \/ HardLeave(c) \/ ReadFails(c)
         \/ writePump(c) \/ Break(c)
    \/ \E w \in Workers : ChangeRoom(w) \/ Control(w) \/ Work(w)

Spec == Init /\ [][Next]_vars

(* Readers, writers and timers go on; a write ends by its timeout.         *)
FairSpec ==
    /\ Spec
    /\ \A w \in Workers : WF_vars(Work(w))
    /\ \A c \in Conns : WF_vars(writePump(c)) /\ WF_vars(ReadFails(c))

-----------------------------------------------------------------------------
(* SAFETY                                                                  *)

(* Snapshots of the room come in order: unless the last one to a client    *)
(* was dropped, the client will have the room as it is or somebody is      *)
(* about to send it, whoever changed it and however broadcasts interleave. *)
StateIsLatest ==
    \A c \in member : last[c]["state"] \notin {state, Lost} =>
      \E w \in Workers : \E o \in Range(todo[w]) : o.op = "broadcast"

(* Nobody is told of a playback that has not started, and as long as two   *)
(* now_playing do not cross, the one under way is the present one.         *)
OnlyPresentIsSent ==
    /\ np = 0 => ~NpUnderWay /\ \A c \in Conns : last[c]["np"] \in {0, Lost}
    /\ ~crossed => \A w \in Workers : \A o \in Range(todo[w]) :
                     o.op \in {"list", "np"} => o.ver = np

(* Channels hold at most Cap messages, and what they hold leaves every     *)
(* client with the present room unless a message was dropped.              *)
DeliveryInv == TypeOK /\ StateIsLatest /\ OnlyPresentIsSent

(* now_playing is sent without a lock.  A client may be left with an old   *)
(* one, but only if two of them were under way together or its own was     *)
(* dropped; else the present one is on its way to this very client.        *)
Coming(c) ==
    \/ \E w \in Workers : \E o \in Range(todo[w]) :
         o.op = "list" \/ (o.op = "np" /\ c \in o.to)
    \/ \E o \in Range(todo[c]) : o.op = "catchUp"
NowPlayingIsLatest ==
    \A c \in member : ~crossed /\ last[c]["np"] \notin {np, Lost} => Coming(c)

(* LIVENESS, under FairSpec                                                *)

(* The reader waits to reply to a ping, and nobody empties the channel.    *)
Stuck(c) == todo[c] = <<Op("pong", 0)>> /\ out[c] = Cap /\ writer[c] = "returned"

(* A connection that breaks leaves the room, whatever its reader and its   *)
(* writer were doing, unless the reader is stuck.                          *)
DropIsNoticed ==
    \A c \in Conns : ~open[c] ~> (c \notin member \/ Stuck(c))

=============================================================================
