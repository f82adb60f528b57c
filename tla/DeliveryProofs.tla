--------------------------- MODULE DeliveryProofs ---------------------------
(***************************************************************************)
(* Delivery for every number of connections and goroutines and for every   *)
(* capacity of the channels.                                               *)
(***************************************************************************)
EXTENDS Delivery, SequenceTheorems, TLAPS

(* Lists of what a goroutine has still to do, which are worked on at their *)
(* head.                                                                   *)

(* Short lists and what is in them.                                        *)
LEMMA ShortLists ==
    ASSUME NEW T
    PROVE  /\ <<>> \in Seq(T) /\ Range(<<>>) = {}
           /\ \A a \in T : <<a>> \in Seq(T) /\ Range(<<a>>) = {a}
           /\ \A a, b \in T : <<a, b>> \in Seq(T) /\ Range(<<a, b>>) = {a, b}
BY DEF Range

(* A list with one more in front.                                          *)
LEMMA Prepended ==
    ASSUME NEW T, NEW a \in T, NEW s \in Seq(T)
    PROVE  <<a>> \o s \in Seq(T) /\ Range(<<a>> \o s) = {a} \cup Range(s)
<1> DEFINE f == <<a>>
<1>1. f \in Seq(T) /\ Range(f) = {a} BY ShortLists
<1> HIDE DEF f
<1>2. f \o s \in Seq(T) /\ Range(f \o s) = {a} \cup Range(s)
  BY <1>1, ConcatProperties, RangeConcatenation
<1> QED BY <1>2 DEF f

(* A list without its head and with others in front.                       *)
LEMMA RangeOfPopped ==
    ASSUME NEW T, NEW s \in Seq(T), s # <<>>, NEW ops \in Seq(T)
    PROVE  /\ ops \o Tail(s) \in Seq(T) /\ Head(s) \in T /\ Head(s) \in Range(s)
           /\ Range(ops \o Tail(s)) \subseteq Range(ops) \cup Range(s)
           /\ Range(ops) \subseteq Range(ops \o Tail(s))
           /\ \A o \in Range(s) : o = Head(s) \/ o \in Range(ops \o Tail(s))
<1>1. /\ Tail(s) \in Seq(T) /\ Head(s) \in T /\ Len(Tail(s)) = Len(s) - 1
      /\ \A i \in 1..Len(Tail(s)) : Tail(s)[i] = s[i + 1]
  BY HeadTailProperties
<1>2. ops \o Tail(s) \in Seq(T) /\ Range(ops \o Tail(s)) = Range(ops) \cup Range(Tail(s))
  BY <1>1, ConcatProperties, RangeConcatenation
<1>3. Len(s) \in Nat \ {0} /\ Range(s) = {s[i] : i \in 1..Len(s)} /\ Head(s) = s[1]
  <2>1. Len(s) \in Nat \ {0} /\ Head(s) = s[1] BY EmptySeq, LenProperties
  <2> QED BY <2>1, RangeEquality
<1>4. Range(Tail(s)) = {s[i + 1] : i \in 1..(Len(s) - 1)}
  <2>1. Range(Tail(s)) = {Tail(s)[i] : i \in 1..Len(Tail(s))} BY <1>1, RangeEquality
  <2> QED BY <1>1, <2>1
<1>5. Range(Tail(s)) \subseteq Range(s)
  <2> SUFFICES ASSUME NEW i \in 1..(Len(s) - 1) PROVE s[i + 1] \in Range(s)
    BY <1>4
  <2>1. i + 1 \in 1..Len(s) BY <1>3
  <2> QED BY <1>3, <2>1
<1>6. \A o \in Range(s) : o = Head(s) \/ o \in Range(Tail(s))
  <2> SUFFICES ASSUME NEW i \in 1..Len(s), i # 1 PROVE s[i] \in Range(Tail(s))
    BY <1>3
  <2>1. i - 1 \in 1..(Len(s) - 1) /\ (i - 1) + 1 = i BY <1>3
  <2> QED BY <1>4, <2>1
<1>7. Head(s) \in Range(s) BY <1>3
<1> QED BY <1>1, <1>2, <1>5, <1>6, <1>7

-----------------------------------------------------------------------------
(* The inductive invariant.                                                *)
IInv == DeliveryInv /\ NowPlayingIsLatest

-----------------------------------------------------------------------------
(* Lists of things to do.  The invariant says only what is in them, so a   *)
(* step is described by the operations it takes off the list of one        *)
(* goroutine and those it adds.                                            *)
Moved(w, gone, new) ==
    /\ todo' \in [Workers -> Seq(Ops)]
    /\ \A v \in Workers : v # w => todo'[v] = todo[v]
    /\ Range(todo'[w]) \subseteq new \cup Range(todo[w])
    /\ new \subseteq Range(todo'[w])
    /\ \A o \in Range(todo[w]) : o \in gone \/ o \in Range(todo'[w])

(* What an operation is made of.                                           *)
LEMMA OpFields ==
    /\ \A o, v : Op(o, v).op = o /\ Op(o, v).ver = v
    /\ \A o, v, to : /\ Send(o, v, to).op = o /\ Send(o, v, to).ver = v
                     /\ Send(o, v, to).to = to
    /\ \A o \in {"broadcast", "list", "catchUp", "pong"}, v \in Nat : Op(o, v) \in Ops
    /\ \A o \in {"np", "prepare"}, v \in Nat, to \in SUBSET Conns : Send(o, v, to) \in Ops
    /\ \A e \in Ops : e.ver \in Nat
    /\ \A e \in Ops : e.op \in {"np", "prepare"} =>
         e.to \in SUBSET Conns /\ e = Send(e.op, e.ver, e.to)
BY DEF Op, Send, Ops

(* What Begin and Pop do.                                                  *)
LEMMA Begun ==
    ASSUME TypeOK, NEW w \in Workers, todo[w] = <<>>, NEW ops \in Seq(Ops), Begin(w, ops)
    PROVE  Moved(w, {}, Range(ops))
<1>1. todo \in [Workers -> Seq(Ops)] /\ todo' = [todo EXCEPT ![w] = ops]
  BY DEF TypeOK, Begin
<1>2. todo'[w] = ops /\ todo' \in [Workers -> Seq(Ops)]
      /\ \A v \in Workers : v # w => todo'[v] = todo[v]
  BY <1>1
<1>3. Range(todo[w]) = {} BY ShortLists
<1> QED BY <1>2, <1>3 DEF Moved

LEMMA Popped ==
    ASSUME TypeOK, NEW w \in Workers, todo[w] # <<>>, NEW ops \in Seq(Ops), Pop(w, ops)
    PROVE  /\ Moved(w, {Head(todo[w])}, Range(ops))
           /\ Head(todo[w]) \in Ops /\ Head(todo[w]) \in Range(todo[w])
<1>1. todo \in [Workers -> Seq(Ops)] /\ todo' = [todo EXCEPT ![w] = ops \o Tail(todo[w])]
  BY DEF TypeOK, Pop
<1> DEFINE s == todo[w]
           r == ops \o Tail(s)
<1>2. s \in Seq(Ops) /\ s # <<>> BY <1>1
<1>3. todo'[w] = r /\ \A v \in Workers : v # w => todo'[v] = todo[v]
  BY <1>1
<1>4. todo' = [todo EXCEPT ![w] = r] BY <1>1
<1> HIDE DEF s
<1>5. /\ r \in Seq(Ops) /\ Head(s) \in Ops /\ Head(s) \in Range(s)
      /\ Range(r) \subseteq Range(ops) \cup Range(s)
      /\ Range(ops) \subseteq Range(r)
      /\ \A o \in Range(s) : o = Head(s) \/ o \in Range(r)
  BY <1>2, RangeOfPopped
<1> HIDE DEF r
<1>6. todo' \in [Workers -> Seq(Ops)] BY <1>1, <1>4, <1>5
<1> QED BY <1>3, <1>5, <1>6 DEF s, Moved

(* A step that leaves the lists alone.                                     *)
LEMMA NotMoved ==
    ASSUME TypeOK, NEW w \in Workers, UNCHANGED todo
    PROVE  Moved(w, {}, {})
BY DEF TypeOK, Moved

(* What Post does.                                                         *)
LEMMA PostEffect ==
    ASSUME TypeOK, NEW cs, NEW k, NEW v \in Nat, Post(cs, k, v)
    PROVE  /\ out' \in [Conns -> 0..Cap] /\ last' \in [Conns -> [Kinds -> Nat \cup {Lost}]]
           /\ \A c \in Conns, j \in Kinds : c \notin cs \/ j # k => last'[c][j] = last[c][j]
           /\ \A c \in Conns : c \in cs /\ k \in Kinds => last'[c][k] \in {v, Lost}
<1>1. /\ out \in [Conns -> 0..Cap] /\ last \in [Conns -> [Kinds -> Nat \cup {Lost}]]
      /\ Cap \in Nat
  BY DeliveryAssumption DEF TypeOK
<1>2. out' \in [Conns -> 0..Cap]
  <2>1. \A c \in Conns : out[c] \in 0..Cap /\ (out[c] < Cap => out[c] + 1 \in 0..Cap)
    BY <1>1
  <2> QED BY <2>1 DEF Post
<1>3. ASSUME NEW c \in Conns
      PROVE  /\ last'[c] \in [Kinds -> Nat \cup {Lost}]
             /\ \A j \in Kinds : c \notin cs \/ j # k => last'[c][j] = last[c][j]
             /\ c \in cs /\ k \in Kinds => last'[c][k] \in {v, Lost}
  <2>1. last[c] \in [Kinds -> Nat \cup {Lost}] BY <1>1
  <2>2. CASE c \notin cs \/ k \notin Kinds
    <3>1. last'[c] = last[c] BY <2>2 DEF Post
    <3> QED BY <2>1, <2>2, <3>1
  <2>3. CASE c \in cs /\ k \in Kinds
    <3>1. PICK x \in {v, Lost} : last'[c] = [last[c] EXCEPT ![k] = x]
      BY <2>3 DEF Post
    <3> QED BY <2>1, <2>3, <3>1
  <2> QED BY <2>2, <2>3
<1>4. last' = [c \in Conns |-> last'[c]] BY DEF Post
<1>5. last' \in [Conns -> [Kinds -> Nat \cup {Lost}]] BY <1>3, <1>4
<1> QED BY <1>2, <1>3, <1>5

-----------------------------------------------------------------------------
(* The types of the lists.                                                 *)
ListsOK ==
    /\ todo \in [Workers -> Seq(Ops)]
    /\ \A w \in Workers : \A o \in Range(todo[w]) :
         o.op \in {"catchUp", "pong"} => w \in Conns

LEMMA ListsStep ==
    ASSUME TypeOK, NEW w \in Workers, NEW gone, NEW new, Moved(w, gone, new),
           \A o \in new : o.op \in {"catchUp", "pong"} => w \in Conns
    PROVE  ListsOK'
<1> SUFFICES ASSUME NEW v \in Workers, NEW o \in Range(todo'[v]), o.op \in {"catchUp", "pong"}
             PROVE  v \in Conns
  BY DEF ListsOK, Moved, Workers
<1>1. CASE v = w BY <1>1 DEF Moved, TypeOK
<1>2. CASE v # w BY <1>2 DEF Moved, TypeOK
<1> QED BY <1>1, <1>2

-----------------------------------------------------------------------------
(* Snapshots of the room.                                                  *)

(* A step that changes the room leaves a broadcast to be done.             *)
LEMMA StateChanged ==
    ASSUME NEW w \in Workers, NEW gone, NEW new, Moved(w, gone, new),
           NEW o \in new, o.op = "broadcast"
    PROVE  StateIsLatest'
BY DEF StateIsLatest, Moved, Workers

(* One that does not, and takes no broadcast off a list, keeps them.       *)
LEMMA StateKept ==
    ASSUME StateIsLatest, NEW w \in Workers, NEW gone, NEW new, Moved(w, gone, new),
           \A o \in gone : o.op # "broadcast",
           state' = state, member' \subseteq member,
           \A c \in member' : last'[c]["state"] = last[c]["state"]
    PROVE  StateIsLatest'
<1> SUFFICES ASSUME NEW c \in member', last'[c]["state"] \notin {state', Lost}
             PROVE  \E v \in Workers : \E o \in Range(todo'[v]) : o.op = "broadcast"
  BY DEF StateIsLatest, Workers
<1>1. PICK v \in Workers : \E o \in Range(todo[v]) : o.op = "broadcast"
  BY DEF StateIsLatest
<1>2. PICK o \in Range(todo[v]) : o.op = "broadcast" BY <1>1
<1>3. CASE v = w BY <1>2, <1>3 DEF Moved
<1>4. CASE v # w BY <1>2, <1>4 DEF Moved
<1> QED BY <1>3, <1>4

-----------------------------------------------------------------------------
(* now_playing.                                                            *)

(* Operation o of goroutine w brings connection c the present playback.    *)
Brings(w, o, c) ==
    \/ o.op = "list" \/ (o.op = "np" /\ c \in o.to)
    \/ o.op = "catchUp" /\ w = c

LEMMA ComingBrings ==
    /\ \A c \in Conns : Coming(c) <=> \E w \in Workers : \E o \in Range(todo[w]) : Brings(w, o, c)
    /\ \A c \in Conns : Coming(c)' <=> \E w \in Workers : \E o \in Range(todo'[w]) : Brings(w, o, c)
<1>1. Conns \subseteq Workers BY DEF Workers
<1> QED BY <1>1 DEF Coming, Brings, Workers

(* A step that does not change the playback.  What it sends is the present *)
(* one; whoever it takes the expected one from has it now, has lost it or  *)
(* is still being brought it; and a member that joins is brought it.       *)
LEMMA NpStep ==
    ASSUME DeliveryInv, NowPlayingIsLatest,
           NEW w \in Workers, NEW gone, NEW new, Moved(w, gone, new),
           np' = np, ~crossed' => ~crossed, member' \subseteq Conns,
           \A o \in new : o.op \in {"list", "np"} => np # 0 /\ (~crossed' => o.ver = np),
           np = 0 => \A c \in Conns : last'[c]["np"] \in {last[c]["np"], Lost},
           \A c \in member' :
             \/ /\ c \in member /\ last'[c]["np"] = last[c]["np"]
                /\ \A o \in gone : ~Brings(w, o, c)
             \/ last'[c]["np"] \in {np, Lost}
             \/ crossed'
             \/ \E o \in new : Brings(w, o, c)
    PROVE  OnlyPresentIsSent' /\ NowPlayingIsLatest'
<1>1. ASSUME NEW v \in Workers, NEW o \in Range(todo'[v])
      PROVE  o \in Range(todo[v]) \/ o \in new
  BY DEF Moved
<1>2. ASSUME np = 0 PROVE ~NpUnderWay' /\ \A c \in Conns : last'[c]["np"] \in {0, Lost}
  <2>1. ~NpUnderWay /\ \A c \in Conns : last[c]["np"] \in {0, Lost}
    BY <1>2 DEF DeliveryInv, OnlyPresentIsSent
  <2>2. ~NpUnderWay' BY <1>1, <1>2, <2>1 DEF NpUnderWay, Workers
  <2> QED BY <1>2, <2>1, <2>2
<1>3. ASSUME ~crossed', NEW v \in Workers, NEW o \in Range(todo'[v]), o.op \in {"list", "np"}
      PROVE  o.ver = np
  BY <1>1, <1>3 DEF DeliveryInv, OnlyPresentIsSent
<1>4. OnlyPresentIsSent' BY <1>2, <1>3 DEF OnlyPresentIsSent, Workers
<1>5. ASSUME NEW c \in member', ~crossed', last'[c]["np"] \notin {np, Lost}
      PROVE  Coming(c)'
  <2>1. c \in Conns OBVIOUS
  <2>2. CASE \E o \in new : Brings(w, o, c)
    BY <2>1, <2>2, ComingBrings DEF Moved
  <2>3. CASE /\ c \in member /\ last'[c]["np"] = last[c]["np"]
             /\ \A o \in gone : ~Brings(w, o, c)
    <3>1. Coming(c) BY <1>5, <2>3 DEF NowPlayingIsLatest
    <3>2. PICK v \in Workers : \E o \in Range(todo[v]) : Brings(v, o, c)
      BY <2>1, <3>1, ComingBrings
    <3>3. PICK o \in Range(todo[v]) : Brings(v, o, c) BY <3>2
    <3>4. o \in Range(todo'[v])
      <4>1. CASE v = w BY <2>3, <3>3, <4>1 DEF Moved
      <4>2. CASE v # w BY <3>3, <4>2 DEF Moved
      <4> QED BY <4>1, <4>2
    <3> QED BY <2>1, <3>3, <3>4, ComingBrings
  <2> QED BY <1>5, <2>2, <2>3
<1>6. NowPlayingIsLatest' BY <1>5 DEF NowPlayingIsLatest
<1> QED BY <1>4, <1>6

-----------------------------------------------------------------------------
(* The invariant in the parts the steps are proved by.                     *)
ConnsOK ==
    /\ open \in [Conns -> BOOLEAN] /\ reading \in [Conns -> BOOLEAN]
    /\ writer \in [Conns -> {"idle", "writing", "returned"}]
BoxesOK == out \in [Conns -> 0..Cap] /\ last \in [Conns -> [Kinds -> Nat \cup {Lost}]]
RoomOK == /\ member \subseteq Conns /\ state \in Nat /\ np \in 0..MaxControls
          /\ crossed \in BOOLEAN

LEMMA TypeParts ==
    /\ TypeOK <=> ConnsOK /\ BoxesOK /\ RoomOK /\ ListsOK
    /\ ConnsOK' /\ BoxesOK' /\ RoomOK' /\ ListsOK' => TypeOK'
BY DEF TypeOK, ConnsOK, BoxesOK, RoomOK, ListsOK

LEMMA Unchanged ==
    /\ ConnsOK /\ UNCHANGED conns => ConnsOK'
    /\ BoxesOK /\ UNCHANGED boxes => BoxesOK'
    /\ RoomOK /\ UNCHANGED <<room, crossed>> => RoomOK'
BY DEF ConnsOK, BoxesOK, RoomOK, conns, boxes, room

LEMMA InvAfter ==
    ConnsOK' /\ BoxesOK' /\ RoomOK' /\ ListsOK' /\ StateIsLatest'
      /\ OnlyPresentIsSent' /\ NowPlayingIsLatest' => IInv'
BY TypeParts DEF IInv, DeliveryInv

LEMMA InvParts ==
    IInv => /\ TypeOK /\ ConnsOK /\ BoxesOK /\ RoomOK /\ ListsOK
            /\ StateIsLatest /\ DeliveryInv /\ NowPlayingIsLatest /\ OnlyPresentIsSent
BY TypeParts DEF IInv, DeliveryInv

-----------------------------------------------------------------------------
(* The handlers.                                                           *)

(* A step that leaves the room, the lists and the last messages alone.     *)
LEMMA QuietStep ==
    ASSUME IInv, ConnsOK', BoxesOK', last' = last, UNCHANGED <<room, crossed, todo>>
    PROVE  IInv'
<1>1. /\ StateIsLatest /\ NowPlayingIsLatest /\ OnlyPresentIsSent /\ RoomOK /\ ListsOK
  BY InvParts
<1>2. /\ last' = last /\ member' = member /\ state' = state /\ np' = np
      /\ crossed' = crossed /\ todo' = todo
  BY DEF room
<1>3. RoomOK' /\ ListsOK' /\ StateIsLatest' BY <1>1, <1>2 DEF RoomOK, ListsOK, StateIsLatest
<1>4. OnlyPresentIsSent' BY <1>1, <1>2 DEF OnlyPresentIsSent, NpUnderWay
<1>5. NowPlayingIsLatest' BY <1>1, <1>2 DEF NowPlayingIsLatest, Coming
<1> QED BY <1>3, <1>4, <1>5, InvAfter

(* A change of the room, with a catchUp after it if it is a join.          *)
LEMMA ChangedStep ==
    ASSUME IInv, NEW w \in Workers, todo[w] = <<>>,
           NEW ops, ops = <<>> \/ (ops = <<Op("catchUp", 0)>> /\ w \in Conns),
           Changed(w, ops),
           \/ member' \subseteq member
           \/ member' \subseteq member \cup {w} /\ ops # <<>>,
           ConnsOK', UNCHANGED <<boxes, np, crossed>>
    PROVE  IInv'
<1> DEFINE b == Op("broadcast", state + 1)
           j == Op("catchUp", 0)
           all == <<b>> \o ops
<1>1. /\ TypeOK /\ BoxesOK /\ RoomOK /\ DeliveryInv /\ NowPlayingIsLatest
      /\ state \in Nat /\ member \subseteq Conns
  BY InvParts DEF RoomOK
<1>2. b \in Ops /\ j \in Ops /\ b.op = "broadcast" /\ j.op = "catchUp"
  BY <1>1, OpFields
<1>3. state' = state + 1 /\ Begin(w, all) BY DEF Changed
<1> HIDE DEF b, j
<1>4. /\ all \in Seq(Ops) /\ b \in Range(all) /\ Range(all) \subseteq {b, j}
      /\ (ops # <<>> => j \in Range(all) /\ w \in Conns)
  <2>1. <<b>> \in Seq(Ops) /\ Range(<<b>>) = {b} /\ <<j>> \in Seq(Ops) /\ Range(<<j>>) = {j}
    BY <1>2, ShortLists
  <2>2. <<>> \in Seq(Ops) /\ Range(<<>>) = {} /\ <<j>> # <<>> BY ShortLists
  <2>3. ops = <<>> \/ (ops = <<j>> /\ w \in Conns) BY Zenon DEF j
  <2>5. ops \in Seq(Ops) BY <2>1, <2>2, <2>3
  <2>4. all \in Seq(Ops) /\ Range(all) = {b} \cup Range(ops)
    BY <1>2, <2>5, Prepended
  <2> HIDE DEF all
  <2> QED BY <2>1, <2>2, <2>3, <2>4
<1> DEFINE new == Range(all)
<1>5. Moved(w, {}, new) BY <1>1, <1>3, <1>4, Begun
<1>6. \A o \in new : o.op \in {"catchUp", "pong"} => w \in Conns
  <2>1. CASE ops = <<>>
    <3>1. all = <<b>> BY <2>1
    <3>2. new = {b} BY <1>2, <3>1, ShortLists
    <3> QED BY <1>2, <3>2
  <2>2. CASE ops # <<>> BY <1>4, <2>2
  <2> QED BY <2>1, <2>2
<1>7. \A o \in new : o.op \notin {"list", "np"} BY <1>2, <1>4
<1>8. b \in new /\ (ops # <<>> => j \in new /\ w \in Conns) BY <1>4
<1> HIDE DEF new
<1>9. ListsOK' BY <1>1, <1>5, <1>6, ListsStep
<1>10. StateIsLatest' BY <1>2, <1>5, <1>8, StateChanged
<1>11. member' \subseteq Conns BY <1>1, <1>8
<1>12. BoxesOK' /\ RoomOK' BY <1>1, <1>3, <1>11 DEF RoomOK, BoxesOK, boxes
<1>13. ASSUME NEW c \in member'
       PROVE  c \in member \/ \E o \in new : Brings(w, o, c)
  BY <1>2, <1>8 DEF Brings
<1>14. last' = last /\ np' = np /\ crossed' = crossed BY DEF boxes
<1>15. OnlyPresentIsSent' /\ NowPlayingIsLatest'
  BY <1>1, <1>5, <1>7, <1>11, <1>13, <1>14, NpStep
<1> QED BY <1>9, <1>10, <1>12, <1>15, InvAfter

(* Join, ChangeRoom, HardLeave and ReadFails.                              *)
LEMMA RoomStep ==
    ASSUME IInv,
           \/ \E c \in Conns : Join(c) \/ HardLeave(c) \/ ReadFails(c)
           \/ \E w \in Workers : ChangeRoom(w)
    PROVE  IInv'
<1>0. ConnsOK /\ BoxesOK /\ RoomOK /\ TypeOK /\ Conns \subseteq Workers
  BY InvParts DEF Workers
<1>1. ASSUME NEW c \in Conns, Join(c) PROVE IInv'
  <2>1. c \in Workers /\ todo[c] = <<>> BY <1>0, <1>1 DEF Join, Reads
  <2>2. ConnsOK' BY <1>0, <1>1, Unchanged DEF Join
  <2>3. UNCHANGED <<boxes, np, crossed>> /\ Changed(c, <<Op("catchUp", 0)>>)
        /\ member' = member \cup {c}
    BY <1>1 DEF Join
  <2>4. <<Op("catchUp", 0)>> # <<>> OBVIOUS
  <2> QED BY <2>1, <2>2, <2>3, <2>4, ChangedStep
<1>2. ASSUME NEW c \in Conns, HardLeave(c) PROVE IInv'
  <2>1. c \in Workers /\ todo[c] = <<>> BY <1>0, <1>2 DEF HardLeave, Reads
  <2>2. ConnsOK' BY <1>0, <1>2, Unchanged DEF HardLeave
  <2>3. UNCHANGED <<boxes, np, crossed>> /\ Changed(c, <<>>) /\ member' \subseteq member
    BY <1>2 DEF HardLeave
  <2> QED BY <2>1, <2>2, <2>3, ChangedStep
<1>3. ASSUME NEW c \in Conns, ReadFails(c) PROVE IInv'
  <2>1. c \in Workers /\ todo[c] = <<>> BY <1>0, <1>3 DEF ReadFails
  <2>2. ConnsOK' BY <1>0, <1>3 DEF ReadFails, ConnsOK
  <2>3. CASE c \in member
    <3>1. UNCHANGED <<boxes, np, crossed>> /\ Changed(c, <<>>) /\ member' \subseteq member
      BY <1>3, <2>3 DEF ReadFails
    <3> QED BY <2>1, <2>2, <3>1, ChangedStep
  <2>4. CASE c \notin member
    <3>1. UNCHANGED <<boxes, room, crossed, todo>> BY <1>3, <2>4 DEF ReadFails, room
    <3>2. BoxesOK' /\ last' = last BY <1>0, <3>1, Unchanged DEF boxes
    <3> QED BY <2>2, <3>1, <3>2, QuietStep
  <2> QED BY <2>3, <2>4
<1>4. ASSUME NEW w \in Workers, ChangeRoom(w) PROVE IInv'
  <2>1. todo[w] = <<>> BY <1>4 DEF ChangeRoom, Reads
  <2>2. ConnsOK' BY <1>0, <1>4, Unchanged DEF ChangeRoom
  <2>3. UNCHANGED <<boxes, np, crossed>> /\ Changed(w, <<>>) /\ member' \subseteq member
    BY <1>4 DEF ChangeRoom
  <2> QED BY <2>1, <2>2, <2>3, ChangedStep
<1> QED BY <1>1, <1>2, <1>3, <1>4

(* sendErr, Ping and MarkReady.                                            *)
LEMMA ReaderStep ==
    ASSUME IInv, NEW c \in Conns, sendErr(c) \/ Ping(c) \/ MarkReady(c)
    PROVE  IInv'
<1>0. /\ ConnsOK /\ BoxesOK /\ RoomOK /\ TypeOK /\ StateIsLatest /\ DeliveryInv
      /\ NowPlayingIsLatest /\ OnlyPresentIsSent /\ c \in Workers
      /\ np \in Nat /\ member \subseteq Conns
  BY InvParts, DeliveryAssumption DEF Workers, RoomOK
<1>1. CASE sendErr(c)
  <2>1. Post({c}, "error", 0) /\ UNCHANGED <<conns, room, crossed, todo>>
    BY <1>1 DEF sendErr
  <2>2. BoxesOK' /\ \A d \in Conns, j \in Kinds : last'[d][j] = last[d][j]
    BY <1>0, <2>1, PostEffect DEF BoxesOK, Kinds
  <2>3. last' = last BY <1>0, <2>2 DEF BoxesOK
  <2>4. ConnsOK' BY <1>0, <2>1, Unchanged
  <2> QED BY <2>1, <2>2, <2>3, <2>4, QuietStep
<1>2. CASE Ping(c)
  <2> DEFINE o == Op("pong", 0)
  <2>1. todo[c] = <<>> /\ Begin(c, <<o>>) /\ UNCHANGED <<conns, boxes, room, crossed>>
    BY <1>2 DEF Ping, Reads
  <2>2. o \in Ops /\ o.op = "pong" BY OpFields
  <2> HIDE DEF o
  <2>3. <<o>> \in Seq(Ops) /\ Range(<<o>>) = {o} BY <2>2, ShortLists
  <2>4. Moved(c, {}, {o}) BY <1>0, <2>1, <2>3, Begun
  <2>5. ListsOK' BY <1>0, <2>4, ListsStep
  <2>6. ConnsOK' /\ BoxesOK' /\ RoomOK' BY <1>0, <2>1, Unchanged
  <2>7. /\ last' = last /\ member' = member /\ state' = state /\ np' = np
        /\ crossed' = crossed
    BY <2>1 DEF boxes, room
  <2>8. StateIsLatest' BY <1>0, <2>4, <2>7, StateKept
  <2>9. OnlyPresentIsSent' /\ NowPlayingIsLatest'
    BY <1>0, <2>2, <2>4, <2>7, NpStep
  <2> QED BY <2>5, <2>6, <2>8, <2>9, InvAfter
<1>3. CASE MarkReady(c)
  <2> DEFINE o == Send("np", np, {c})
  <2>1. /\ todo[c] = <<>> /\ Begin(c, <<o>>) /\ UNCHANGED <<conns, boxes, room>>
        /\ np > 0 /\ crossed' = (crossed \/ NpUnderWay)
    BY <1>3 DEF MarkReady, Reads
  <2>2. o \in Ops /\ o.op = "np" /\ o.ver = np BY <1>0, OpFields
  <2> HIDE DEF o
  <2>3. <<o>> \in Seq(Ops) /\ Range(<<o>>) = {o} BY <2>2, ShortLists
  <2>4. Moved(c, {}, {o}) BY <1>0, <2>1, <2>3, Begun
  <2>5. ListsOK' BY <1>0, <2>2, <2>4, ListsStep
  <2>6. ConnsOK' /\ BoxesOK' BY <1>0, <2>1, Unchanged
  <2>7. /\ last' = last /\ member' = member /\ state' = state /\ np' = np
    BY <2>1 DEF boxes, room
  <2>8. (~crossed' => ~crossed) /\ crossed' \in BOOLEAN BY <2>1, Zenon
  <2>9. RoomOK' BY <1>0, <2>7, <2>8 DEF RoomOK
  <2>10. StateIsLatest' BY <1>0, <2>4, <2>7, StateKept
  <2>11. np # 0 BY <1>0, <2>1
  <2>12. OnlyPresentIsSent' /\ NowPlayingIsLatest'
    BY <1>0, <2>2, <2>4, <2>7, <2>8, <2>11, NpStep
  <2> QED BY <2>5, <2>6, <2>9, <2>10, <2>12, InvAfter
<1> QED BY <1>1, <1>2, <1>3

(* Control: the one step that changes the playback.                        *)
LEMMA ControlStep ==
    ASSUME IInv, NEW w \in Workers, Control(w)
    PROVE  IInv'
<1>0. /\ ConnsOK /\ BoxesOK /\ RoomOK /\ TypeOK /\ StateIsLatest /\ DeliveryInv
      /\ NowPlayingIsLatest /\ OnlyPresentIsSent
      /\ np \in 0..MaxControls /\ MaxControls \in Nat /\ member \subseteq Conns
  BY InvParts, DeliveryAssumption DEF RoomOK
<1> DEFINE o == Op("list", np + 1)
<1>1. /\ todo[w] = <<>> /\ Begin(w, <<o>>) /\ UNCHANGED <<conns, boxes, member, state>>
      /\ np < MaxControls /\ np' = np + 1 /\ crossed' = NpUnderWay
  BY DEF Control, Reads
<1>2. o \in Ops /\ o.op = "list" /\ o.ver = np' BY <1>0, <1>1, OpFields
<1> HIDE DEF o
<1>3. <<o>> \in Seq(Ops) /\ Range(<<o>>) = {o} BY <1>2, ShortLists
<1>4. Moved(w, {}, {o}) BY <1>0, <1>1, <1>3, Begun
<1>5. ListsOK' BY <1>0, <1>2, <1>4, ListsStep
<1>6. ConnsOK' /\ BoxesOK' BY <1>0, <1>1, Unchanged
<1>7. last' = last /\ member' = member /\ state' = state BY <1>1 DEF boxes
<1>8. crossed' \in BOOLEAN BY <1>1, Zenon DEF NpUnderWay
<1>9. np' \in 0..MaxControls /\ np' # 0 BY <1>0, <1>1
<1>10. RoomOK' BY <1>0, <1>7, <1>8, <1>9 DEF RoomOK
<1>11. StateIsLatest' BY <1>0, <1>4, <1>7, StateKept
<1>12. OnlyPresentIsSent'
  <2> SUFFICES ASSUME ~crossed', NEW v \in Workers, NEW e \in Range(todo'[v]),
                      e.op \in {"list", "np"}
               PROVE  e.ver = np'
    BY <1>9 DEF OnlyPresentIsSent, Workers
  <2>1. ~NpUnderWay BY <1>1
  <2>2. e \in Range(todo[v]) \/ e = o BY <1>4 DEF Moved
  <2>3. e = o BY <2>1, <2>2 DEF NpUnderWay
  <2> QED BY <1>2, <2>3
<1>13. NowPlayingIsLatest'
  <2>1. ASSUME NEW c \in Conns PROVE Coming(c)'
    <3>1. o \in Range(todo'[w]) BY <1>4 DEF Moved
    <3> QED BY <1>2, <3>1 DEF Coming, Workers
  <2> QED BY <1>0, <1>7, <2>1 DEF NowPlayingIsLatest
<1> QED BY <1>5, <1>6, <1>10, <1>11, <1>12, <1>13, InvAfter

-----------------------------------------------------------------------------
(* What a goroutine does next.                                             *)

(* A step that takes the head off a list, puts others in its place and     *)
(* leaves the room alone.                                                  *)
LEMMA WorkKeeps ==
    ASSUME IInv, NEW w \in Workers, todo[w] # <<>>, NEW ops \in Seq(Ops), Pop(w, ops),
           \A e \in Range(ops) : e.op \in {"catchUp", "pong"} => w \in Conns,
           UNCHANGED <<conns, room>>, BoxesOK', crossed' \in BOOLEAN, StateIsLatest',
           OnlyPresentIsSent', NowPlayingIsLatest'
    PROVE  IInv'
<1>1. ConnsOK /\ RoomOK /\ TypeOK BY InvParts
<1>2. ListsOK' BY <1>1, Popped, ListsStep
<1>3. ConnsOK' /\ RoomOK' BY <1>1, Unchanged DEF RoomOK, room
<1> QED BY <1>2, <1>3, InvAfter

LEMMA BroadcastStep ==
    ASSUME IInv, NEW w \in Workers, todo[w] # <<>>, broadcastState(w, Head(todo[w]))
    PROVE  IInv'
<1>0. /\ BoxesOK /\ RoomOK /\ TypeOK /\ DeliveryInv /\ NowPlayingIsLatest
      /\ member \subseteq Conns /\ state \in Nat /\ crossed \in BOOLEAN
  BY InvParts DEF RoomOK
<1> DEFINE o == Head(todo[w])
<1>1. /\ o.op = "broadcast" /\ Pop(w, <<>>) /\ Post(member, "state", state)
      /\ UNCHANGED <<conns, room, crossed>>
  BY DEF broadcastState
<1>2. <<>> \in Seq(Ops) /\ Range(<<>>) = {} BY ShortLists
<1>3. Moved(w, {o}, {}) BY <1>0, <1>1, <1>2, Popped
<1> HIDE DEF o
<1>4. /\ BoxesOK' /\ \A c \in Conns : last'[c]["np"] = last[c]["np"]
      /\ \A c \in Conns : c \in member => last'[c]["state"] \in {state, Lost}
  BY <1>0, <1>1, PostEffect DEF BoxesOK, Kinds
<1>5. member' = member /\ state' = state /\ np' = np /\ crossed' = crossed
  BY <1>1 DEF room
<1>6. StateIsLatest' BY <1>0, <1>4, <1>5 DEF StateIsLatest
<1>7. \A c : ~Brings(w, o, c) BY <1>1 DEF Brings
<1>8. OnlyPresentIsSent' /\ NowPlayingIsLatest'
  BY <1>0, <1>3, <1>4, <1>5, <1>7, NpStep
<1> QED BY <1>0, <1>1, <1>2, <1>4, <1>5, <1>6, <1>8, WorkKeeps

LEMMA SendAllStep ==
    ASSUME IInv, NEW w \in Workers, todo[w] # <<>>, sendAll(w, Head(todo[w]))
    PROVE  IInv'
<1>0. /\ BoxesOK /\ RoomOK /\ TypeOK /\ DeliveryInv /\ NowPlayingIsLatest /\ StateIsLatest
      /\ OnlyPresentIsSent /\ member \subseteq Conns /\ crossed \in BOOLEAN
  BY InvParts DEF RoomOK
<1> DEFINE o == Head(todo[w])
           e == Send("np", o.ver, member)
<1>1. o.op = "list" /\ Pop(w, <<e>>) /\ UNCHANGED <<conns, boxes, room, crossed>>
  BY DEF sendAll
<1>2. o \in Ops /\ o \in Range(todo[w])
  <2>1. todo[w] \in Seq(Ops) BY <1>0 DEF TypeOK
  <2> QED BY <2>1, RangeOfPopped, ShortLists
<1>3. e \in Ops /\ e.op = "np" /\ e.ver = o.ver /\ e.to = member BY <1>0, <1>2, OpFields
<1> HIDE DEF e
<1>4. <<e>> \in Seq(Ops) /\ Range(<<e>>) = {e} BY <1>3, ShortLists
<1>5. Moved(w, {o}, {e}) BY <1>0, <1>1, <1>4, Popped
<1> HIDE DEF o
<1>6. /\ BoxesOK' /\ last' = last /\ member' = member /\ state' = state /\ np' = np
      /\ crossed' = crossed
  BY <1>0, <1>1, Unchanged DEF boxes, room
<1>7. StateIsLatest' BY <1>0, <1>1, <1>5, <1>6, StateKept
<1>8. np # 0 /\ (~crossed => e.ver = np)
  BY <1>0, <1>1, <1>2, <1>3 DEF OnlyPresentIsSent, NpUnderWay
<1>9. \A c \in member : Brings(w, e, c) BY <1>3 DEF Brings
<1>10. OnlyPresentIsSent' /\ NowPlayingIsLatest'
  BY <1>0, <1>3, <1>5, <1>6, <1>8, <1>9, NpStep
<1> QED BY <1>0, <1>1, <1>3, <1>4, <1>6, <1>7, <1>10, WorkKeeps

LEMMA SendOneStep ==
    ASSUME IInv, NEW w \in Workers, todo[w] # <<>>, SendOne(w, Head(todo[w]))
    PROVE  IInv'
<1>0. /\ BoxesOK /\ RoomOK /\ TypeOK /\ DeliveryInv /\ NowPlayingIsLatest /\ StateIsLatest
      /\ OnlyPresentIsSent /\ member \subseteq Conns /\ crossed \in BOOLEAN
  BY InvParts DEF RoomOK
<1>2. PICK o \in Ops : o = Head(todo[w]) /\ o \in Range(todo[w])
  <2>1. todo[w] \in Seq(Ops) BY <1>0 DEF TypeOK
  <2> QED BY <2>1, RangeOfPopped, ShortLists
<1>1. o.op \in {"np", "prepare"} /\ UNCHANGED <<conns, room, crossed>>
  BY <1>2 DEF SendOne
<1>3. o.to \in SUBSET Conns /\ o.ver \in Nat /\ o = Send(o.op, o.ver, o.to)
  BY <1>1, <1>2, OpFields
<1>4. member' = member /\ state' = state /\ np' = np /\ crossed' = crossed
  BY <1>1 DEF room
<1>5. o.op = "np" => np # 0 /\ (~crossed => o.ver = np)
  BY <1>0, <1>2 DEF OnlyPresentIsSent, NpUnderWay
<1>6. CASE o.to = {} /\ Pop(w, <<>>) /\ UNCHANGED boxes
  <2>1. <<>> \in Seq(Ops) /\ Range(<<>>) = {} BY ShortLists
  <2>2. Moved(w, {o}, {}) BY <1>0, <1>2, <1>6, <2>1, Popped
  <2>3. BoxesOK' /\ last' = last BY <1>0, <1>6, Unchanged DEF boxes
  <2>4. StateIsLatest' BY <1>0, <1>1, <1>4, <2>2, <2>3, StateKept
  <2>5. \A c : ~Brings(w, o, c) BY <1>1, <1>6 DEF Brings
  <2>6. OnlyPresentIsSent' /\ NowPlayingIsLatest'
    BY <1>0, <1>4, <2>2, <2>3, <2>5, NpStep
  <2> QED BY <1>0, <1>1, <1>4, <1>6, <2>1, <2>3, <2>4, <2>6, WorkKeeps
<1>7. ASSUME NEW c \in o.to, Post({c}, o.op, o.ver), Pop(w, <<Send(o.op, o.ver, o.to \ {c})>>)
      PROVE  IInv'
  <2> DEFINE e == Send(o.op, o.ver, o.to \ {c})
  <2>2. e \in Ops /\ e.op = o.op /\ e.ver = o.ver /\ e.to = o.to \ {c}
    BY <1>1, <1>3, OpFields
  <2>3. Pop(w, <<e>>) BY <1>7
  <2> HIDE DEF e
  <2>4. <<e>> \in Seq(Ops) /\ Range(<<e>>) = {e} BY <2>2, ShortLists
  <2>5. Moved(w, {o}, {e}) BY <1>0, <1>2, <2>3, <2>4, Popped
  <2>6. BoxesOK' BY <1>0, <1>3, <1>7, PostEffect DEF BoxesOK
  <2>7. \A d \in Conns, j \in Kinds : d # c \/ j # o.op => last'[d][j] = last[d][j]
    BY <1>0, <1>3, <1>7, PostEffect
  <2>8. o.op = "np" => last'[c]["np"] \in {o.ver, Lost}
    BY <1>0, <1>3, <1>7, PostEffect DEF Kinds
  <2>9. \A d \in Conns : last'[d]["state"] = last[d]["state"]
    BY <1>1, <2>7 DEF Kinds
  <2>10. StateIsLatest' BY <1>0, <1>1, <1>4, <2>5, <2>9, StateKept
  <2>11. np = 0 => \A d \in Conns : last'[d]["np"] = last[d]["np"]
    BY <1>1, <1>5, <2>7 DEF Kinds
  <2>12. ASSUME NEW d \in member
         PROVE  \/ last'[d]["np"] = last[d]["np"] /\ ~Brings(w, o, d)
                \/ last'[d]["np"] \in {np, Lost}
                \/ crossed
                \/ Brings(w, e, d)
                \/ last'[d]["np"] = last[d]["np"] /\ o.op = "prepare"
    <3>1. d \in Conns BY <1>0
    <3>2. CASE o.op = "prepare" BY <2>7, <3>1, <3>2 DEF Kinds
    <3>3. CASE o.op = "np" /\ d = c BY <1>5, <2>8, <3>3
    <3>4. CASE o.op = "np" /\ d # c
      <4>1. last'[d]["np"] = last[d]["np"] BY <2>7, <3>1, <3>4 DEF Kinds
      <4> QED BY <2>2, <3>4, <4>1 DEF Brings
    <3> QED BY <1>1, <3>2, <3>3, <3>4
  <2>13. o.op = "prepare" => \A d : ~Brings(w, o, d) BY DEF Brings
  <2>14. e.op \in {"list", "np"} => np # 0 /\ (~crossed => e.ver = np)
    BY <1>1, <1>5, <2>2
  <2>15. OnlyPresentIsSent' /\ NowPlayingIsLatest'
    BY <1>0, <1>4, <2>5, <2>11, <2>12, <2>13, <2>14, NpStep
  <2>16. e.op \notin {"catchUp", "pong"} BY <1>1, <2>2
  <2> QED BY <1>0, <1>1, <1>4, <2>3, <2>4, <2>6, <2>10, <2>15, <2>16, WorkKeeps
<1> QED BY <1>2, <1>6, <1>7 DEF SendOne

LEMMA CatchUpStep ==
    ASSUME IInv, NEW w \in Workers, todo[w] # <<>>, catchUp(w, Head(todo[w]))
    PROVE  IInv'
<1>0. /\ BoxesOK /\ RoomOK /\ TypeOK /\ DeliveryInv /\ NowPlayingIsLatest /\ StateIsLatest
      /\ OnlyPresentIsSent /\ member \subseteq Conns /\ crossed \in BOOLEAN /\ np \in Nat
  BY InvParts, DeliveryAssumption DEF RoomOK
<1>1. PICK o \in Ops : o = Head(todo[w]) /\ o \in Range(todo[w])
  <2>1. todo[w] \in Seq(Ops) BY <1>0 DEF TypeOK
  <2> QED BY <2>1, RangeOfPopped, ShortLists
<1>2. o.op = "catchUp" /\ UNCHANGED <<conns, boxes, room>> BY <1>1 DEF catchUp
<1>3. w \in Conns BY <1>0, <1>1, <1>2 DEF TypeOK
<1>4. /\ BoxesOK' /\ last' = last /\ member' = member /\ state' = state /\ np' = np
  BY <1>0, <1>2, Unchanged DEF boxes, room
<1>5. CASE np > 0
  <2> DEFINE p == Send("prepare", 0, {w})
             e == Send("np", np, {w})
  <2>1. Pop(w, <<p, e>>) /\ crossed' = (crossed \/ NpUnderWay)
    BY <1>1, <1>5 DEF catchUp
  <2>2. /\ p \in Ops /\ p.op = "prepare" /\ e \in Ops /\ e.op = "np" /\ e.ver = np
        /\ e.to = {w}
    BY <1>0, <1>3, OpFields
  <2> HIDE DEF p, e
  <2>3. <<p, e>> \in Seq(Ops) /\ Range(<<p, e>>) = {p, e} BY <2>2, ShortLists
  <2>4. Moved(w, {o}, {p, e}) BY <1>0, <1>1, <2>1, <2>3, Popped
  <2>5. (~crossed' => ~crossed) /\ crossed' \in BOOLEAN BY <2>1, Zenon
  <2>6. StateIsLatest' BY <1>0, <1>2, <1>4, <2>4, StateKept
  <2>7. \A c \in member : ~Brings(w, o, c) \/ Brings(w, e, c)
    BY <1>2, <2>2 DEF Brings
  <2>8. \A x \in {p, e} : x.op \in {"list", "np"} => np # 0 /\ x.ver = np
    BY <1>0, <1>5, <2>2
  <2>9. OnlyPresentIsSent' /\ NowPlayingIsLatest'
    BY <1>0, <1>4, <2>4, <2>5, <2>7, <2>8, NpStep
  <2> QED BY <1>2, <1>4, <2>1, <2>2, <2>3, <2>5, <2>6, <2>9, WorkKeeps
<1>6. CASE ~(np > 0)
  <2>1. Pop(w, <<>>) /\ crossed' = crossed BY <1>1, <1>6 DEF catchUp
  <2>2. <<>> \in Seq(Ops) /\ Range(<<>>) = {} BY ShortLists
  <2>3. Moved(w, {o}, {}) BY <1>0, <1>1, <2>1, <2>2, Popped
  <2>4. StateIsLatest' BY <1>0, <1>2, <1>4, <2>3, StateKept
  <2>5. np = 0 BY <1>0, <1>6
  <2>6. \A c \in member : last'[c]["np"] \in {np, Lost}
    BY <1>0, <1>4, <2>5 DEF OnlyPresentIsSent
  <2>7. OnlyPresentIsSent' /\ NowPlayingIsLatest'
    BY <1>0, <1>4, <2>1, <2>3, <2>6, NpStep
  <2> QED BY <1>0, <1>2, <1>4, <2>1, <2>2, <2>4, <2>7, WorkKeeps
<1> QED BY <1>5, <1>6

LEMMA PongStep ==
    ASSUME IInv, NEW w \in Workers, todo[w] # <<>>, Pong(w, Head(todo[w]))
    PROVE  IInv'
<1>0. /\ BoxesOK /\ RoomOK /\ TypeOK /\ DeliveryInv /\ NowPlayingIsLatest /\ StateIsLatest
      /\ member \subseteq Conns /\ crossed \in BOOLEAN /\ Cap \in Nat
  BY InvParts, DeliveryAssumption DEF RoomOK
<1>1. PICK o \in Ops : o = Head(todo[w]) /\ o \in Range(todo[w])
  <2>1. todo[w] \in Seq(Ops) BY <1>0 DEF TypeOK
  <2> QED BY <2>1, RangeOfPopped, ShortLists
<1>2. /\ o.op = "pong" /\ out[w] < Cap /\ out' = [out EXCEPT ![w] = @ + 1]
      /\ Pop(w, <<>>) /\ UNCHANGED <<conns, last, room, crossed>>
  BY <1>1 DEF Pong
<1>3. w \in Conns BY <1>0, <1>1, <1>2 DEF TypeOK
<1>4. BoxesOK'
  <2>1. out[w] \in 0..Cap /\ out[w] + 1 \in 0..Cap BY <1>0, <1>2, <1>3 DEF BoxesOK
  <2> QED BY <1>0, <1>2, <2>1 DEF BoxesOK
<1>5. /\ last' = last /\ member' = member /\ state' = state /\ np' = np
      /\ crossed' = crossed
  BY <1>2 DEF room
<1>6. <<>> \in Seq(Ops) /\ Range(<<>>) = {} BY ShortLists
<1>7. Moved(w, {o}, {}) BY <1>0, <1>1, <1>2, <1>6, Popped
<1>8. StateIsLatest' BY <1>0, <1>2, <1>5, <1>7, StateKept
<1>9. \A c : ~Brings(w, o, c) BY <1>2 DEF Brings
<1>10. OnlyPresentIsSent' /\ NowPlayingIsLatest' BY <1>0, <1>5, <1>7, <1>9, NpStep
<1> QED BY <1>0, <1>2, <1>4, <1>5, <1>6, <1>8, <1>10, WorkKeeps

LEMMA WorkStep ==
    ASSUME IInv, NEW w \in Workers, Work(w)
    PROVE  IInv'
BY BroadcastStep, SendAllStep, SendOneStep, CatchUpStep, PongStep DEF Work

(* writePump, and the end of a connection.                                 *)
LEMMA WriterStep ==
    ASSUME IInv, NEW c \in Conns, writePump(c) \/ Break(c)
    PROVE  IInv'
<1>0. ConnsOK /\ BoxesOK /\ Cap \in Nat BY InvParts, DeliveryAssumption
<1>1. CASE Take(c)
  <2>1. out[c] \in 0..Cap /\ out[c] > 0 BY <1>0, <1>1 DEF BoxesOK, Take
  <2>2. out[c] - 1 \in 0..Cap BY <1>0, <2>1
  <2>3. ConnsOK' /\ BoxesOK' /\ last' = last BY <1>0, <1>1, <2>2 DEF Take, ConnsOK, BoxesOK
  <2> QED BY <1>1, <2>3, QuietStep DEF Take
<1>2. CASE Written(c)
  <2>1. ConnsOK' /\ BoxesOK' /\ last' = last
    BY <1>0, <1>2 DEF Written, ConnsOK, BoxesOK, boxes
  <2> QED BY <1>2, <2>1, QuietStep DEF Written
<1>3. CASE WriteFails(c)
  <2>1. ConnsOK' /\ BoxesOK' /\ last' = last
    BY <1>0, <1>3 DEF WriteFails, ConnsOK, BoxesOK, boxes
  <2> QED BY <1>3, <2>1, QuietStep DEF WriteFails
<1>4. CASE Break(c)
  <2>1. ConnsOK' /\ BoxesOK' /\ last' = last
    BY <1>0, <1>4 DEF Break, ConnsOK, BoxesOK, boxes
  <2> QED BY <1>4, <2>1, QuietStep DEF Break
<1> QED BY <1>1, <1>2, <1>3, <1>4 DEF writePump

-----------------------------------------------------------------------------
LEMMA DeliveryInit == Init => IInv
<1> SUFFICES ASSUME Init PROVE IInv OBVIOUS
<1>0. RoomOK
  <2>1. 0 \in 0..MaxControls /\ 0 \in Nat BY DeliveryAssumption
  <2>2. member = {} /\ state = 0 /\ np = 0 /\ crossed = FALSE BY DEF Init
  <2> QED BY <2>1, <2>2 DEF RoomOK
<1>1. ConnsOK /\ RoomOK BY <1>0 DEF Init, ConnsOK
<1>2. BoxesOK BY DeliveryAssumption DEF Init, BoxesOK
<1>3. todo \in [Workers -> Seq(Ops)] /\ \A w \in Workers : Range(todo[w]) = {}
  BY ShortLists DEF Init
<1>4. ListsOK BY <1>3 DEF ListsOK
<1>5. StateIsLatest /\ NowPlayingIsLatest BY DEF Init, StateIsLatest, NowPlayingIsLatest
<1>6. OnlyPresentIsSent
  <2>1. \A c \in Conns : last[c]["np"] = 0 BY DEF Init, Kinds
  <2> QED BY <1>3, <2>1 DEF OnlyPresentIsSent, NpUnderWay
<1> QED BY <1>1, <1>2, <1>4, <1>5, <1>6, TypeParts DEF IInv, DeliveryInv

LEMMA DeliveryStep == IInv /\ [Next]_vars => IInv'
<1> SUFFICES ASSUME IInv, [Next]_vars PROVE IInv' OBVIOUS
<1>1. CASE UNCHANGED vars
  <2>1. UNCHANGED <<conns, boxes, room, crossed, todo>> BY <1>1 DEF vars
  <2>2. ConnsOK' /\ BoxesOK' /\ last' = last BY <2>1, InvParts, Unchanged DEF boxes
  <2> QED BY <2>1, <2>2, QuietStep
<1>2. CASE \E c \in Conns : Join(c) \/ HardLeave(c) \/ ReadFails(c)
  BY <1>2, RoomStep
<1>3. CASE \E c \in Conns : sendErr(c) \/ Ping(c) \/ MarkReady(c)
  BY <1>3, ReaderStep
<1>4. CASE \E c \in Conns : writePump(c) \/ Break(c)
  BY <1>4, WriterStep
<1>5. CASE \E w \in Workers : ChangeRoom(w)
  BY <1>5, RoomStep
<1>6. CASE \E w \in Workers : Control(w) \/ Work(w)
  BY <1>6, ControlStep, WorkStep
<1> QED BY <1>1, <1>2, <1>3, <1>4, <1>5, <1>6 DEF Next

(* The invariants of delivery hold together in every behaviour: readers,   *)
(* writers, timers and the pipeline may interleave between the unlock of   *)
(* room.mu and the sends in any way.                                       *)
THEOREM DeliveryInductive == Spec => []IInv
<1>1. Init => IInv BY DeliveryInit
<1>2. IInv /\ [Next]_vars => IInv' BY DeliveryStep
<1> QED BY <1>1, <1>2, PTL DEF Spec

(* Channels keep their bound, and unless its last room_state was dropped a *)
(* client has the present room or a broadcastState is still to come.       *)
THEOREM DeliverySafe == Spec => []DeliveryInv
<1>1. IInv => DeliveryInv BY DEF IInv
<1> QED BY <1>1, DeliveryInductive, PTL

(* A client is left with an old now_playing only if its last one was       *)
(* dropped or two were under way together; else the present one is coming. *)
THEOREM PlaybackIsDelivered == Spec => []NowPlayingIsLatest
<1>1. IInv => NowPlayingIsLatest BY DEF IInv
<1> QED BY <1>1, DeliveryInductive, PTL
=============================================================================
