----------------------------- MODULE PeersProofs -----------------------------
(***************************************************************************)
(* Peers for every number of connections, peer connections and candidates. *)
(***************************************************************************)
EXTENDS Peers, SequenceTheorems, FiniteSetTheorems, TLAPS

(* Lists of what a goroutine has still to do, which are worked on at their *)
(* head.                                                                   *)

(* Short lists and what is in them.                                        *)
LEMMA ShortLists ==
    ASSUME NEW T
    PROVE  /\ <<>> \in Seq(T) /\ Range(<<>>) = {}
           /\ \A a \in T : <<a>> \in Seq(T) /\ Range(<<a>>) = {a}
           /\ \A a, b \in T : <<a, b>> \in Seq(T) /\ Range(<<a, b>>) = {a, b}
BY DEF Range

(* A list without its head and with others in front.                       *)
LEMMA RangeOfPopped ==
    ASSUME NEW T, NEW s \in Seq(T), s # <<>>, NEW ops \in Seq(T)
    PROVE  /\ ops \o Tail(s) \in Seq(T) /\ Head(s) \in T /\ Head(s) \in Range(s)
           /\ Range(ops \o Tail(s)) \subseteq Range(ops) \cup Range(s)
           /\ Range(ops) \subseteq Range(ops \o Tail(s))
           /\ \A o \in Range(s) : o = Head(s) \/ o \in Range(ops \o Tail(s))
<1>1. /\ Tail(s) \in Seq(T) /\ Head(s) \in T /\ Len(Tail(s)) = Len(s) - 1
      /\ \A i \in 1..Len(Tail(s)) : Tail(s)[i] = s[i + 1]
  BY HeadTailProperties
<1>2. ops \o Tail(s) \in Seq(T) /\ Range(ops \o Tail(s)) = Range(ops) \cup Range(Tail(s))
  BY <1>1, ConcatProperties, RangeConcatenation
<1>3. Len(s) \in Nat \ {0} /\ Range(s) = {s[i] : i \in 1..Len(s)} /\ Head(s) = s[1]
  <2>1. Len(s) \in Nat \ {0} /\ Head(s) = s[1] BY EmptySeq, LenProperties
  <2> QED BY <2>1, RangeEquality
<1>4. Range(Tail(s)) = {s[i + 1] : i \in 1..(Len(s) - 1)}
  <2>1. Range(Tail(s)) = {Tail(s)[i] : i \in 1..Len(Tail(s))} BY <1>1, RangeEquality
  <2> QED BY <1>1, <2>1
<1>5. Range(Tail(s)) \subseteq Range(s)
  <2> SUFFICES ASSUME NEW i \in 1..(Len(s) - 1) PROVE s[i + 1] \in Range(s)
    BY <1>4
  <2>1. i + 1 \in 1..Len(s) BY <1>3
  <2> QED BY <1>3, <2>1
<1>6. \A o \in Range(s) : o = Head(s) \/ o \in Range(Tail(s))
  <2> SUFFICES ASSUME NEW i \in 1..Len(s), i # 1 PROVE s[i] \in Range(Tail(s))
    BY <1>3
  <2>1. i - 1 \in 1..(Len(s) - 1) /\ (i - 1) + 1 = i BY <1>3
  <2> QED BY <1>4, <2>1
<1>7. Head(s) \in Range(s) BY <1>3
<1> QED BY <1>1, <1>2, <1>5, <1>6, <1>7

-----------------------------------------------------------------------------
(* The inductive invariant.                                                *)
IInv == PeersInv /\ NoForgottenPeer /\ NoPeerAfterClose

-----------------------------------------------------------------------------
(* Lists of things to do.                                                  *)

LEMMA OpFields ==
    /\ \A o, x : Op(o, x).op = o /\ Op(o, x).on = x
    /\ \A o \in {"take", "create", "answer", "ice"}, i \in Readers :
         Op(o, i) \in Ops /\ Op(o, i) \notin PeerOps
    /\ \A o \in {"close", "handlers", "offer", "remote", "flush", "buffer", "add"},
          x \in PCs : Op(o, x) \in Ops /\ Op(o, x) \in PeerOps
    /\ \A e \in Ops : e = Op(e.op, e.on)
    /\ \A e \in Ops : e.op \in {"take", "create", "answer", "ice"} => e.on \in Readers
    /\ \A e \in Ops : e.op \notin {"take", "create", "answer", "ice"} =>
         e \in PeerOps /\ e.on \in PCs
<1>1. \A o, x : Op(o, x).op = o /\ Op(o, x).on = x BY DEF Op
<1>2. \A e \in Ops : e = Op(e.op, e.on) BY DEF Op, Ops, PeerOps
<1> QED BY <1>1, <1>2 DEF Op, Ops, PeerOps

(* What a join ends with stays the last thing to do.                       *)
CreateLast(s) == \A n \in DOMAIN s : s[n].op = "create" => n = Len(s)

LEMMA CreateStaysLast ==
    ASSUME NEW S, NEW s \in Seq(S), s # <<>>, CreateLast(s), NEW ops \in Seq(S),
           \A o \in Range(ops) : o.op # "create"
    PROVE  /\ CreateLast(ops \o Tail(s))
           /\ Head(s).op = "create" => Tail(s) = <<>>
<1>1. /\ Tail(s) \in Seq(S) /\ Len(Tail(s)) = Len(s) - 1
      /\ \A i \in 1..Len(Tail(s)) : Tail(s)[i] = s[i + 1]
  BY HeadTailProperties
<1>2. /\ Len(s) \in Nat \ {0} /\ DOMAIN s = 1..Len(s) /\ Head(s) = s[1]
      /\ Len(ops) \in Nat /\ DOMAIN ops = 1..Len(ops)
  BY EmptySeq, LenProperties
<1> DEFINE r == ops \o Tail(s)
<1>3. /\ r \in Seq(S) /\ Len(r) = Len(ops) + (Len(s) - 1)
      /\ \A i \in 1..(Len(ops) + (Len(s) - 1)) :
           r[i] = IF i <= Len(ops) THEN ops[i] ELSE Tail(s)[i - Len(ops)]
  BY <1>1, ConcatProperties
<1>4. DOMAIN r = 1..(Len(ops) + (Len(s) - 1)) BY <1>3, LenProperties
<1> HIDE DEF r
<1>5. \A i \in 1..Len(ops) : ops[i].op # "create"
  BY <1>2 DEF Range
<1>6. CreateLast(r)
  <2> SUFFICES ASSUME NEW n \in 1..(Len(ops) + (Len(s) - 1)), r[n].op = "create"
               PROVE  n = Len(r)
    BY <1>4 DEF CreateLast
  <2>1. n > Len(ops) BY <1>2, <1>3, <1>5
  <2> DEFINE m == n - Len(ops) + 1
  <2>2. m \in 1..Len(s) /\ r[n] = s[m]
    <3> DEFINE k == n - Len(ops)
    <3>1. k \in 1..(Len(s) - 1) /\ k + 1 \in 1..Len(s) /\ ~(n <= Len(ops)) /\ m = k + 1
      BY <1>2, <2>1
    <3>2. r[n] = Tail(s)[k] BY <1>3, <3>1
    <3> HIDE DEF k, m
    <3> QED BY <1>1, <3>1, <3>2
  <2>3. m = Len(s) BY <1>2, <2>2 DEF CreateLast
  <2>4. n = Len(ops) + (Len(s) - 1) BY <1>2, <2>3
  <2> QED BY <1>3, <2>4
<1>7. Head(s).op = "create" => Tail(s) = <<>>
  <2> SUFFICES ASSUME Head(s).op = "create" PROVE Tail(s) = <<>>
    OBVIOUS
  <2>1. Len(s) = 1 BY <1>2 DEF CreateLast
  <2>2. Len(Tail(s)) = 0 BY <1>1, <2>1
  <2> DEFINE t == Tail(s)
  <2>3. t \in Seq(S) /\ Len(t) = 0 BY <1>1, <2>2
  <2> HIDE DEF t
  <2>4. t = <<>> BY <2>3, EmptySeq
  <2> QED BY <2>4 DEF t
<1> QED BY <1>6, <1>7 DEF r

-----------------------------------------------------------------------------
USE PeersAssumption

(* The goroutines.                                                         *)
LEMMA WorkerKinds ==
    /\ \A x \in PCs, s \in {"failed", "closed"} : <<x, s>> \in Workers /\ <<x, s>> \in Callbacks
    /\ \A w \in Callbacks : \E x \in PCs, s \in {"failed", "closed"} : w = <<x, s>>
    /\ \A w \in Readers : w \in Workers /\ w \notin Callbacks
    /\ Closer \in Workers /\ Closer \notin Callbacks /\ Closer \notin Readers
    /\ Leaver \in Workers /\ Leaver \notin Callbacks /\ Leaver \notin Readers
BY DEF Workers, Callbacks

(* What Pop does.                                                          *)
LEMMA Popped ==
    ASSUME PeersInv, NEW w \in Workers, todo[w] # <<>>, NEW ops \in Seq(Ops),
           \A o \in Range(ops) : o.op # "create", Pop(w, ops)
    PROVE  /\ todo' \in [Workers -> Seq(Ops)]
           /\ \A v \in Workers : v # w => todo'[v] = todo[v]
           /\ Range(todo'[w]) \subseteq Range(ops) \cup Range(todo[w])
           /\ Range(ops) \subseteq Range(todo'[w])
           /\ \A o \in Range(todo[w]) : o = Head(todo[w]) \/ o \in Range(todo'[w])
           /\ Head(todo[w]) \in Range(todo[w]) /\ Head(todo[w]) \in Ops
           /\ CreateLast(todo'[w])
           /\ Head(todo[w]).op = "create" => todo'[w] = ops
<1>1. todo \in [Workers -> Seq(Ops)] /\ todo[w] \in Seq(Ops) /\ CreateLast(todo[w])
  BY DEF PeersInv, TypeOK, JoinIsOwn, CreateLast
<1>2. todo' = [todo EXCEPT ![w] = ops \o Tail(todo[w])] BY DEF Pop
<1> DEFINE s == todo[w]
           r == ops \o Tail(s)
<1>3. s \in Seq(Ops) /\ s # <<>> /\ CreateLast(s) BY <1>1
<1>4. todo'[w] = r /\ \A v \in Workers : v # w => todo'[v] = todo[v]
  BY <1>1, <1>2
<1>a. todo' = [todo EXCEPT ![w] = r] BY <1>2
<1> HIDE DEF s
<1>5. /\ r \in Seq(Ops) /\ Head(s) \in Ops /\ Head(s) \in Range(s)
      /\ Range(r) \subseteq Range(ops) \cup Range(s)
      /\ Range(ops) \subseteq Range(r)
      /\ \A o \in Range(s) : o = Head(s) \/ o \in Range(r)
  BY <1>3, RangeOfPopped
<1>6. CreateLast(r) /\ (Head(s).op = "create" => Tail(s) = <<>>)
  BY <1>3, CreateStaysLast
<1>7. Head(s).op = "create" => r = ops BY <1>6, ConcatEmptySeq
<1> HIDE DEF r
<1>8. todo' \in [Workers -> Seq(Ops)] BY <1>1, <1>5, <1>a
<1> QED BY <1>4, <1>5, <1>6, <1>7, <1>8 DEF s

(* The invariant says of a list only what is in it, and CreateLast.        *)
LEMMA TodoFacts ==
    ASSUME PeersInv, NEW w \in Workers, NEW o \in Range(todo[w])
    PROVE  /\ o \in Ops
           /\ o.op \in {"flush", "add"} => pc[o.on].remote
           /\ o \in PeerOps => pc[o.on].st # "free"
           /\ o.op = "create" =>
                /\ w \in Readers /\ id[w] = o.on
                /\ Op("take", o.on) \in Range(todo[w]) \/ peers[o.on] = Nil \/ Twins(o.on)
           /\ w \in Callbacks => o.op \in {"close", "take"}
<1>1. o \in Ops
  <2>1. todo[w] \in Seq(Ops) BY DEF PeersInv, TypeOK
  <2> QED BY <2>1, RangeOfSeq
<1>2. w \in Callbacks => o.op \in {"close", "take"}
  <2> SUFFICES ASSUME w \in Callbacks PROVE o.op \in {"close", "take"}
    OBVIOUS
  <2>1. PICK x \in PCs, s \in {"failed", "closed"} : w = <<x, s>> BY WorkerKinds
  <2>2. o.op = "close" \/ o = Op("take", pc[x].id)
    BY <2>1 DEF PeersInv, CallbackIsLate
  <2> QED BY <2>2, OpFields
<1> QED BY <1>1, <1>2 DEF PeersInv, CandidatesAreUsed, OnlyMadeIsKnown, JoinIsOwn

(* A step changes flags of peer connections and candidates only.           *)
OnlyFlags ==
    /\ pc' \in [PCs -> States]
    /\ \A x \in PCs :
         /\ pc'[x].st = pc[x].st /\ pc'[x].id = pc[x].id
         /\ pc[x].st = "free" => pc'[x] = pc[x]
         /\ pc[x].remote => pc'[x].remote
         /\ pc'[x].remoteSet => pc'[x].pending = 0 /\ pc'[x].remote

(* OnlyMadeIsKnown, of the next state.                                     *)
LEMMA KnownAfter ==
    ASSUME \A x \in PCs : /\ pc'[x].st = "free" => pc'[x] = Free
                          /\ pc'[x].st # "free" => pc'[x].id # Nil,
           \A i \in Readers : peers'[i] # Nil => pc'[peers'[i]].id = i,
           \A x \in overwritten' : pc'[x].st # "free",
           \A w \in Workers : \A o \in Range(todo'[w]) :
             o \in PeerOps => pc'[o.on].st # "free"
    PROVE  OnlyMadeIsKnown'
<1>0. Free' = Free BY DEF Free
<1>1. (\A x \in PCs : pc[x].st = "free" => pc[x] = Free)' BY <1>0
<1>2. (\A x \in PCs : pc[x].st # "free" => pc[x].id # Nil)' OBVIOUS
<1>3. (\A i \in Readers : peers[i] # Nil => pc[peers[i]].id = i)' OBVIOUS
<1>4. (\A x \in overwritten : pc[x].st # "free")' OBVIOUS
<1>5. (\A w \in Workers : \A o \in Range(todo[w]) :
         o \in PeerOps => pc[o.on].st # "free")'
  OBVIOUS
<1> QED BY <1>1, <1>2, <1>3, <1>4, <1>5 DEF OnlyMadeIsKnown

(* Callbacks go by the state and the client of their connection.           *)
LEMMA SameCallbacks ==
    ASSUME CallbackIsLate,
           \A x \in PCs, s \in {"failed", "closed"} : todo'[<<x, s>>] = todo[<<x, s>>],
           \A x \in PCs : pc'[x].st = pc[x].st /\ pc'[x].id = pc[x].id
    PROVE  CallbackIsLate'
<1>1. ASSUME NEW x \in PCs PROVE
        /\ pc'[x].st # "closed" => todo'[<<x, "closed">>] = <<>>
        /\ pc'[x].st \in {"free", "open"} => todo'[<<x, "failed">>] = <<>>
        /\ \A s \in {"failed", "closed"} : \A o \in Range(todo'[<<x, s>>]) :
             o.op = "close" \/ o = Op("take", pc'[x].id)
  BY <1>1, Zenon DEF CallbackIsLate
<1> QED BY <1>1, Zenon DEF CallbackIsLate

(* Also when a callback has gone on with its own work.                     *)
LEMMA CallbacksAfter ==
    ASSUME CallbackIsLate, UNCHANGED pc,
           \A x \in PCs, s \in {"failed", "closed"} :
             /\ todo[<<x, s>>] = <<>> => todo'[<<x, s>>] = <<>>
             /\ \A o \in Range(todo'[<<x, s>>]) : o.op = "close" \/ o = Op("take", pc[x].id)
    PROVE  CallbackIsLate'
<1>1. ASSUME NEW x \in PCs PROVE
        /\ pc'[x].st # "closed" => todo'[<<x, "closed">>] = <<>>
        /\ pc'[x].st \in {"free", "open"} => todo'[<<x, "failed">>] = <<>>
        /\ \A s \in {"failed", "closed"} : \A o \in Range(todo'[<<x, s>>]) :
             o.op = "close" \/ o = Op("take", pc'[x].id)
  BY <1>1, Zenon DEF CallbackIsLate
<1> QED BY <1>1, Zenon DEF CallbackIsLate

(* The work of a reader that neither takes nor closes a peer.              *)
LEMMA PopKeeps ==
    ASSUME IInv, NEW w \in Workers, todo[w] # <<>>, NEW ops \in Seq(Ops), Pop(w, ops),
           Head(todo[w]).op \notin {"take", "close"},
           \A o \in Range(ops) :
             /\ o.op # "create"
             /\ o.op \in {"flush", "add"} => pc'[o.on].remote
             /\ o \in PeerOps => pc[o.on].st # "free",
           OnlyFlags, UNCHANGED <<id, peers, closed, overwritten>>
    PROVE  IInv'
<1>0. /\ PeersInv /\ TypeOK /\ todo \in [Workers -> Seq(Ops)]
      /\ CandidatesAreUsed /\ OnlyMadeIsKnown /\ JoinIsOwn /\ CallbackIsLate
      /\ NoForgottenPeer /\ NoPeerAfterClose
  BY DEF IInv, PeersInv, TypeOK
<1>1. /\ todo' \in [Workers -> Seq(Ops)]
      /\ \A v \in Workers : v # w => todo'[v] = todo[v]
      /\ Range(todo'[w]) \subseteq Range(ops) \cup Range(todo[w])
      /\ \A o \in Range(todo[w]) : o = Head(todo[w]) \/ o \in Range(todo'[w])
      /\ Head(todo[w]) \in Range(todo[w]) /\ Head(todo[w]) \in Ops
      /\ CreateLast(todo'[w])
  BY <1>0, Popped
<1>2. w \notin Callbacks BY <1>0, <1>1, TodoFacts
<1>3. TypeOK' BY <1>0, <1>1 DEF TypeOK, OnlyFlags
<1>4. CandidatesAreUsed'
  <2>1. ASSUME NEW v \in Workers, NEW o \in Range(todo'[v]), o.op \in {"flush", "add"}
        PROVE  pc'[o.on].remote
    <3>1. CASE o \in Range(todo[v])
      <4>1. o \in Ops /\ pc[o.on].remote BY <1>0, <2>1, <3>1, TodoFacts
      <4>2. o.on \in PCs BY <2>1, <4>1, OpFields
      <4> QED BY <4>1, <4>2 DEF OnlyFlags
    <3>2. CASE v = w /\ o \in Range(ops) BY <2>1, <3>2
    <3> QED BY <1>1, <2>1, <3>1, <3>2
  <2> QED BY <2>1 DEF CandidatesAreUsed, OnlyFlags
<1>5. OnlyMadeIsKnown'
  <2>1. ASSUME NEW v \in Workers, NEW o \in Range(todo'[v]), o \in PeerOps
        PROVE  pc'[o.on].st # "free"
    <3>1. pc[o.on].st # "free" BY <1>0, <1>1, <2>1, TodoFacts
    <3>2. o.on \in PCs BY <2>1 DEF PeerOps
    <3> QED BY <3>1, <3>2 DEF OnlyFlags
  <2>2. \A i \in Readers : peers'[i] # Nil => pc'[peers'[i]].id = i
    <3> SUFFICES ASSUME NEW i \in Readers, peers[i] # Nil PROVE pc'[peers[i]].id = i
      OBVIOUS
    <3>1. peers[i] \in PCs /\ pc[peers[i]].id = i BY <1>0 DEF TypeOK, OnlyMadeIsKnown
    <3> QED BY <3>1 DEF OnlyFlags
  <2>3. \A x \in overwritten' : pc'[x].st # "free"
    BY <1>0 DEF TypeOK, OnlyMadeIsKnown, OnlyFlags
  <2>4. \A x \in PCs : /\ pc'[x].st = "free" => pc'[x] = Free
                       /\ pc'[x].st # "free" => pc'[x].id # Nil
    BY <1>0 DEF OnlyMadeIsKnown, OnlyFlags
  <2> QED BY <2>1, <2>2, <2>3, <2>4, KnownAfter
<1>6. JoinIsOwn'
  <2>1. \A v \in Workers : CreateLast(todo'[v])
    BY <1>0, <1>1 DEF JoinIsOwn, CreateLast
  <2>2. ASSUME NEW v \in Workers, NEW o \in Range(todo'[v]), o.op = "create"
        PROVE  /\ v \in Readers /\ id'[v] = o.on
               /\ Op("take", o.on) \in Range(todo'[v]) \/ peers'[o.on] = Nil \/ Twins(o.on)'
    <3>1. o \in Range(todo[v]) BY <1>1, <2>2
    <3>2. /\ v \in Readers /\ id[v] = o.on
          /\ Op("take", o.on) \in Range(todo[v]) \/ peers[o.on] = Nil \/ Twins(o.on)
      BY <1>0, <2>2, <3>1, TodoFacts
    <3>3. Op("take", o.on) \in Range(todo[v]) => Op("take", o.on) \in Range(todo'[v])
      BY <1>1, OpFields
    <3> QED BY <3>2, <3>3 DEF Twins
  <2> QED BY <2>1, <2>2 DEF JoinIsOwn, CreateLast
<1>7. CallbackIsLate'
  <2>1. \A x \in PCs, s \in {"failed", "closed"} : todo'[<<x, s>>] = todo[<<x, s>>]
    <3> SUFFICES ASSUME NEW x \in PCs, NEW s \in {"failed", "closed"}
                 PROVE  todo'[<<x, s>>] = todo[<<x, s>>]
      OBVIOUS
    <3> DEFINE v == <<x, s>>
    <3>1. v \in Workers /\ v # w BY <1>2, WorkerKinds
    <3> HIDE DEF v
    <3>2. todo'[v] = todo[v] BY <1>1, <3>1
    <3> QED BY <3>2 DEF v
  <2> QED BY <1>0, <2>1, SameCallbacks DEF OnlyFlags
<1>8. NoForgottenPeer'
  <2>1. \A x \in PCs : BeingClosed(x) => BeingClosed(x)'
    <3> SUFFICES ASSUME NEW x \in PCs, NEW v \in Workers, Op("close", x) \in Range(todo[v])
                 PROVE  Op("close", x) \in Range(todo'[v])
      BY DEF BeingClosed
    <3> QED BY <1>1, OpFields
  <2>2. ASSUME NEW x \in PCs, Alive(x)'
        PROVE  peers'[pc'[x].id] = x \/ BeingClosed(x)' \/ x \in overwritten'
    <3>1. Alive(x) /\ pc'[x].id = pc[x].id BY <2>2 DEF Alive, OnlyFlags
    <3> QED BY <1>0, <2>1, <3>1 DEF NoForgottenPeer
  <2>3. ASSUME NEW x \in overwritten' PROVE Twins(pc[x].id)'
    <3>1. x \in PCs /\ x \in overwritten BY <1>0 DEF TypeOK
    <3>2. pc'[x].id = pc[x].id /\ Twins(pc[x].id) BY <1>0, <3>1 DEF OnlyFlags, NoForgottenPeer
    <3> QED BY <3>2 DEF Twins
  <2> QED BY <2>2, <2>3 DEF NoForgottenPeer
<1>9. NoPeerAfterClose' BY <1>0 DEF NoPeerAfterClose
<1> QED BY <1>3, <1>4, <1>5, <1>6, <1>7, <1>8, <1>9 DEF IInv, PeersInv

-----------------------------------------------------------------------------
(* Every action keeps the invariant.  First the work on one connection.    *)

LEMMA SameFlags == PeersInv /\ UNCHANGED pc => OnlyFlags
BY DEF PeersInv, TypeOK, CandidatesAreUsed, OnlyFlags

(* The flags an action sets.                                               *)
LEMMA SetFlags ==
    ASSUME PeersInv, NEW x \in PCs, pc[x].st # "free", NEW y \in States,
           y.st = pc[x].st, y.id = pc[x].id, pc[x].remote => y.remote,
           y.remoteSet => y.pending = 0 /\ y.remote,
           pc' = [pc EXCEPT ![x] = y]
    PROVE  OnlyFlags
<1>1. pc \in [PCs -> States] BY DEF PeersInv, TypeOK
<1>2. pc' \in [PCs -> States] /\ pc'[x] = y /\ \A z \in PCs : z # x => pc'[z] = pc[z]
  BY <1>1
<1> QED BY <1>2 DEF PeersInv, CandidatesAreUsed, OnlyFlags

LEMMA FlagTypes ==
    ASSUME NEW c \in States, NEW n \in 0..MaxCandidates
    PROVE  /\ [c EXCEPT !.heard = TRUE] \in States
           /\ [c EXCEPT !.remote = TRUE] \in States
           /\ [c EXCEPT !.remoteSet = TRUE, !.pending = n] \in States
           /\ [c EXCEPT !.pending = n] \in States
           /\ [c EXCEPT !.st = "closed"] \in States
           /\ [c EXCEPT !.st = "failed"] \in States
BY Zenon DEF States

(* The steps of Work that neither take nor close nor create.               *)
LEMMA QuietWork ==
    ASSUME IInv, NEW w \in Workers, todo[w] # <<>>, NEW o, NEW x,
           o = Head(todo[w]).op, x = Head(todo[w]).on,
           \/ o = "create" /\ CreateFails(w, x)
           \/ o = "handlers" /\ SetHandlers(w, x)
           \/ o = "offer" /\ Offer(w, x)
           \/ o \in {"answer", "ice"} /\ FindPeer(w, o, x)
           \/ o = "remote" /\ SetRemoteDescription(w, x)
           \/ o = "flush" /\ Flush(w, x)
           \/ o = "buffer" /\ onRemoteICE(w, x)
           \/ o = "add" /\ AddICECandidate(w, x)
    PROVE  IInv'
<1>0. PeersInv /\ TypeOK /\ OnlyMadeIsKnown BY DEF IInv, PeersInv
<1>1. Head(todo[w]) \in Range(todo[w]) /\ Head(todo[w]) \in Ops
  <2>1. todo[w] \in Seq(Ops) BY <1>0 DEF TypeOK
  <2> QED BY <2>1, RangeOfPopped, EmptySeq
<1>2. /\ o \notin {"take", "close"}
      /\ o \in {"create", "answer", "ice"} => x \in Readers
      /\ o \notin {"create", "answer", "ice"} =>
           x \in PCs /\ pc[x].st # "free" /\ pc[x].id \in Readers /\ pc[x] \in States
  <2>1. o \notin {"take", "close"} OBVIOUS
  <2>2. o \in {"create", "answer", "ice"} => x \in Readers BY <1>1, OpFields
  <2>3. ASSUME o \notin {"create", "answer", "ice"}
        PROVE  x \in PCs /\ pc[x].st # "free" /\ pc[x].id \in Readers /\ pc[x] \in States
    <3>1. x \in PCs /\ Head(todo[w]) \in PeerOps BY <1>1, <2>1, <2>3, OpFields
    <3>2. pc[x].st # "free" BY <1>0, <1>1, <3>1, TodoFacts
    <3>3. pc[x] \in States BY <1>0, <3>1 DEF TypeOK
    <3> QED BY <1>0, <3>1, <3>2, <3>3 DEF OnlyMadeIsKnown, States
  <2> QED BY <2>1, <2>2, <2>3
<1>3. <<>> \in Seq(Ops) /\ Range(<<>>) = {} BY ShortLists
<1>a. ASSUME NEW e \in Ops, e.op # "create", Pop(w, <<e>>), OnlyFlags,
             e.op \in {"flush", "add"} => pc'[e.on].remote,
             e \in PeerOps => pc[e.on].st # "free",
             UNCHANGED <<id, peers, closed, overwritten>>
      PROVE  IInv'
  <2>1. <<e>> \in Seq(Ops) /\ Range(<<e>>) = {e} BY ShortLists
  <2> QED BY <1>2, <1>a, <2>1, PopKeeps
<1>b. ASSUME Pop(w, <<>>), OnlyFlags, UNCHANGED <<id, peers, closed, overwritten>>
      PROVE  IInv'
  BY <1>2, <1>3, <1>b, PopKeeps
<1>4. CASE o = "create" /\ CreateFails(w, x)
  BY <1>0, <1>4, <1>b, SameFlags DEF CreateFails
<1>5. CASE o = "add" /\ AddICECandidate(w, x)
  BY <1>0, <1>5, <1>b, SameFlags DEF AddICECandidate
<1>6. CASE o = "offer" /\ Offer(w, x)
  <2>1. OnlyFlags BY <1>0, <1>6, SameFlags DEF Offer
  <2>2. x \in PCs /\ pc[x].id \in Readers BY <1>2, <1>6
  <2> DEFINE e == Op("take", pc[x].id)
  <2>3. e \in Ops /\ e \notin PeerOps /\ e.op = "take" BY <2>2, OpFields
  <2>4. CASE Pop(w, <<e>>)
    <3> HIDE DEF e
    <3> QED BY <1>6, <1>a, <2>1, <2>3, <2>4 DEF Offer
  <2>5. CASE Pop(w, <<>>) BY <1>6, <1>b, <2>1, <2>5 DEF Offer
  <2> QED BY <1>6, <2>4, <2>5 DEF Offer
<1>7. CASE o \in {"answer", "ice"} /\ FindPeer(w, o, x)
  <2>1. OnlyFlags BY <1>0, <1>7, SameFlags DEF FindPeer
  <2>2. x \in Readers BY <1>2, <1>7
  <2>3. CASE peers[x] = Nil BY <1>7, <1>b, <2>1, <2>3 DEF FindPeer
  <2>4. CASE peers[x] # Nil
    <3> DEFINE e == Op(IF o = "answer" THEN "remote" ELSE "buffer", peers[x])
    <3>1. peers[x] \in PCs BY <1>0, <2>2, <2>4 DEF TypeOK
    <3>2. pc[peers[x]].st # "free"
      BY <1>0, <2>2, <2>4, <3>1 DEF OnlyMadeIsKnown, Free
    <3>3. e \in Ops /\ e.op \in {"remote", "buffer"} /\ e.on = peers[x]
      BY <3>1, OpFields
    <3>4. Pop(w, <<e>>) BY <1>7, <2>4 DEF FindPeer
    <3> HIDE DEF e
    <3> QED BY <1>7, <1>a, <2>1, <3>2, <3>3, <3>4 DEF FindPeer
  <2> QED BY <2>3, <2>4
<1>8. CASE o = "handlers" /\ SetHandlers(w, x)
  <2>1. OnlyFlags
    <3>1. x \in PCs /\ pc[x].st # "free" /\ pc[x] \in States BY <1>2, <1>8
    <3>2. 0 \in 0..MaxCandidates OBVIOUS
    <3> DEFINE y == [pc[x] EXCEPT !.heard = TRUE]
    <3>3. y \in States BY <3>1, <3>2, FlagTypes, Zenon
    <3>4. /\ y.st = pc[x].st /\ y.id = pc[x].id /\ y.remote = pc[x].remote
          /\ y.remoteSet = pc[x].remoteSet /\ y.pending = pc[x].pending
      BY <3>1 DEF States
    <3>5. pc' = [pc EXCEPT ![x] = y] BY <1>8 DEF SetHandlers
    <3>6. pc[x].remoteSet => pc[x].pending = 0 /\ pc[x].remote
      BY <1>0, <3>1 DEF PeersInv, CandidatesAreUsed
    <3> HIDE DEF y
    <3> QED BY <1>0, <3>1, <3>3, <3>4, <3>5, <3>6, SetFlags
  <2> QED BY <1>8, <1>b, <2>1 DEF SetHandlers
<1>9. CASE o = "remote" /\ SetRemoteDescription(w, x)
  <2>1. CASE Pop(w, <<>>) /\ UNCHANGED pc
    BY <1>0, <1>9, <1>b, <2>1, SameFlags DEF SetRemoteDescription
  <2>2. CASE Pop(w, <<Op("flush", x)>>) /\ pc' = [pc EXCEPT ![x].remote = TRUE]
    <3>1. x \in PCs /\ pc[x].st # "free" /\ pc[x] \in States BY <1>2, <1>9
    <3>2. 0 \in 0..MaxCandidates OBVIOUS
    <3> DEFINE y == [pc[x] EXCEPT !.remote = TRUE]
    <3>3. y \in States BY <3>1, <3>2, FlagTypes, Zenon
    <3>4. /\ y.st = pc[x].st /\ y.id = pc[x].id /\ y.remote
          /\ y.remoteSet = pc[x].remoteSet /\ y.pending = pc[x].pending
      BY <3>1 DEF States
    <3>5. pc' = [pc EXCEPT ![x] = y] BY <2>2
    <3>6. pc[x].remoteSet => pc[x].pending = 0
      BY <1>0, <3>1 DEF PeersInv, CandidatesAreUsed
    <3> HIDE DEF y
    <3>7. OnlyFlags BY <1>0, <3>1, <3>3, <3>4, <3>5, <3>6, SetFlags
    <3>8. pc'[x].remote BY <1>0, <3>1, <3>4, <3>5 DEF TypeOK
    <3> DEFINE e == Op("flush", x)
    <3>9. e \in Ops /\ e.op = "flush" /\ e.on = x BY <3>1, OpFields
    <3> HIDE DEF e
    <3>10. Pop(w, <<e>>) BY <2>2 DEF e
    <3> QED BY <1>9, <1>a, <3>1, <3>7, <3>8, <3>9, <3>10 DEF SetRemoteDescription
  <2> QED BY <1>9, <2>1, <2>2 DEF SetRemoteDescription
<1>10. CASE o = "flush" /\ Flush(w, x)
  <2>1. /\ x \in PCs /\ pc[x].st # "free" /\ pc[x] \in States
        /\ pc[x].pending \in 0..MaxCandidates
    BY <1>2, <1>10 DEF States
  <2>2. pc[x].remote BY <1>0, <1>1, <1>10, TodoFacts
  <2>3. 0 \in 0..MaxCandidates OBVIOUS
  <2> DEFINE y == [pc[x] EXCEPT !.remoteSet = TRUE, !.pending = 0]
  <2>4. y \in States BY <2>1, <2>3, FlagTypes, Zenon
  <2>5. y.st = pc[x].st /\ y.id = pc[x].id /\ y.remote = pc[x].remote /\ y.pending = 0
    BY <2>1 DEF States
  <2>6. pc' = [pc EXCEPT ![x] = y] BY <1>10 DEF Flush
  <2> HIDE DEF y
  <2>7. OnlyFlags BY <1>0, <2>1, <2>2, <2>4, <2>5, <2>6, SetFlags
  <2>8. pc'[x].remote BY <1>0, <2>1, <2>2, <2>5, <2>6 DEF TypeOK
  <2> DEFINE e == Op("add", x)
             ops == [n \in 1..pc[x].pending |-> e]
  <2>9. e \in Ops /\ e.op = "add" /\ e.on = x BY <2>1, OpFields
  <2>10. Pop(w, ops) BY <1>10 DEF Flush
  <2> HIDE DEF e
  <2>11. ops \in Seq(Ops) /\ Range(ops) \subseteq {e}
    <3>1. pc[x].pending \in Nat BY <2>1
    <3>2. ops \in [1..pc[x].pending -> Ops] BY <2>9
    <3>3. ops \in Seq(Ops) BY <3>1, <3>2, SeqDef
    <3> QED BY <3>3 DEF Range
  <2> HIDE DEF ops
  <2> QED BY <1>2, <1>10, <2>1, <2>7, <2>8, <2>9, <2>10, <2>11, PopKeeps DEF Flush
<1>11. CASE o = "buffer" /\ onRemoteICE(w, x)
  <2>1. x \in PCs /\ pc[x].st # "free" /\ pc[x] \in States BY <1>2, <1>11
  <2>2. CASE pc[x].remoteSet
    <3> DEFINE e == Op("add", x)
    <3>1. e \in Ops /\ e.op = "add" /\ e.on = x BY <2>1, OpFields
    <3>2. Pop(w, <<e>>) /\ UNCHANGED pc BY <1>11, <2>2 DEF onRemoteICE
    <3> HIDE DEF e
    <3>3. pc[x].remote BY <1>0, <2>1, <2>2 DEF PeersInv, CandidatesAreUsed
    <3>4. OnlyFlags BY <1>0, <3>2, SameFlags
    <3> QED BY <1>11, <1>a, <2>1, <3>1, <3>2, <3>3, <3>4 DEF onRemoteICE
  <2>3. CASE ~pc[x].remoteSet
    <3> DEFINE n == pc[x].pending + 1
               y == [pc[x] EXCEPT !.pending = n]
    <3>1. n \in 0..MaxCandidates BY <1>11, <2>1, <2>3 DEF onRemoteICE, States
    <3>2. pc' = [pc EXCEPT ![x] = y] /\ Pop(w, <<>>) BY <1>11, <2>3 DEF onRemoteICE
    <3> HIDE DEF n
    <3>3. y \in States BY <2>1, <3>1, FlagTypes, Zenon
    <3>4. /\ y.st = pc[x].st /\ y.id = pc[x].id /\ y.remote = pc[x].remote
          /\ y.remoteSet = pc[x].remoteSet
      BY <2>1 DEF States
    <3> HIDE DEF y
    <3>5. OnlyFlags BY <1>0, <2>1, <2>3, <3>2, <3>3, <3>4, SetFlags
    <3> QED BY <1>11, <1>b, <3>2, <3>5 DEF onRemoteICE
  <2> QED BY <2>2, <2>3
<1> QED BY <1>4, <1>5, <1>6, <1>7, <1>8, <1>9, <1>10, <1>11

-----------------------------------------------------------------------------
(* removePeer, by whomever.                                                *)
LEMMA RemoveStep ==
    ASSUME IInv, NEW w \in Workers, todo[w] # <<>>, NEW i,
           Head(todo[w]).op = "take", i = Head(todo[w]).on, removePeer(w, i)
    PROVE  IInv'
<1>0. /\ PeersInv /\ TypeOK /\ todo \in [Workers -> Seq(Ops)]
      /\ CandidatesAreUsed /\ OnlyMadeIsKnown /\ JoinIsOwn /\ CallbackIsLate
      /\ NoForgottenPeer /\ NoPeerAfterClose
      /\ UNCHANGED <<id, pc, closed, overwritten>>
      /\ peers' = [peers EXCEPT ![i] = Nil]
  BY DEF IInv, PeersInv, TypeOK, removePeer
<1> DEFINE ops == IF peers[i] = Nil THEN <<>> ELSE <<Op("close", peers[i])>>
<1>1. Head(todo[w]) \in Range(todo[w]) /\ Head(todo[w]) \in Ops
  <2>1. todo[w] \in Seq(Ops) BY <1>0
  <2> QED BY <2>1, RangeOfPopped, EmptySeq
<1>2. i \in Readers /\ Head(todo[w]) = Op("take", i) BY <1>1, OpFields
<1>3. /\ peers[i] # Nil => peers[i] \in PCs /\ pc[peers[i]].st # "free"
  BY <1>0, <1>2 DEF TypeOK, OnlyMadeIsKnown, Free
<1>4. /\ ops \in Seq(Ops)
      /\ Range(ops) = IF peers[i] = Nil THEN {} ELSE {Op("close", peers[i])}
  <2>1. CASE peers[i] = Nil BY <2>1, ShortLists
  <2>2. CASE peers[i] # Nil
    <3> DEFINE e == Op("close", peers[i])
    <3>1. e \in Ops BY <1>3, <2>2, OpFields
    <3> HIDE DEF e
    <3>2. <<e>> \in Seq(Ops) /\ Range(<<e>>) = {e} BY <3>1, ShortLists
    <3> QED BY <2>2, <3>2 DEF e
  <2> QED BY <2>1, <2>2
<1>5. Pop(w, ops) BY DEF removePeer
<1> HIDE DEF ops
<1>6. \A o \in Range(ops) : /\ o.op = "close" /\ o.on = peers[i] /\ peers[i] # Nil
  BY <1>4, OpFields
<1>7. /\ todo' \in [Workers -> Seq(Ops)]
      /\ \A v \in Workers : v # w => todo'[v] = todo[v]
      /\ Range(todo'[w]) \subseteq Range(ops) \cup Range(todo[w])
      /\ Range(ops) \subseteq Range(todo'[w])
      /\ \A o \in Range(todo[w]) : o = Op("take", i) \/ o \in Range(todo'[w])
      /\ CreateLast(todo'[w])
  BY <1>0, <1>2, <1>4, <1>5, <1>6, Popped
<1>8. TypeOK' BY <1>0, <1>7 DEF TypeOK
<1>9. CandidatesAreUsed'
  BY <1>0, <1>6, <1>7 DEF CandidatesAreUsed
<1>10. OnlyMadeIsKnown'
  <2>1. ASSUME NEW v \in Workers, NEW o \in Range(todo'[v]), o \in PeerOps
        PROVE  pc'[o.on].st # "free"
    <3>1. CASE o \in Range(todo[v]) BY <1>0, <2>1, <3>1, TodoFacts
    <3>2. CASE o \in Range(ops) BY <1>0, <1>3, <1>6, <3>2
    <3> QED BY <1>7, <2>1, <3>1, <3>2
  <2>2. \A j \in Readers : peers'[j] # Nil => pc'[peers'[j]].id = j
    BY <1>0, <1>2 DEF TypeOK, OnlyMadeIsKnown
  <2>3. \A x \in overwritten' : pc'[x].st # "free" BY <1>0 DEF OnlyMadeIsKnown
  <2>4. \A x \in PCs : (pc'[x].st = "free" => pc'[x] = Free)
                         /\ (pc'[x].st # "free" => pc'[x].id # Nil)
    BY <1>0 DEF OnlyMadeIsKnown
  <2> QED BY <2>1, <2>2, <2>3, <2>4, KnownAfter
<1>11. JoinIsOwn'
  <2>1. \A v \in Workers : CreateLast(todo'[v])
    BY <1>0, <1>7 DEF JoinIsOwn, CreateLast
  <2>2. ASSUME NEW v \in Workers, NEW o \in Range(todo'[v]), o.op = "create"
        PROVE  /\ v \in Readers /\ id'[v] = o.on
               /\ Op("take", o.on) \in Range(todo'[v]) \/ peers'[o.on] = Nil \/ Twins(o.on)'
    <3>1. o \in Range(todo[v]) BY <1>6, <1>7, <2>2
    <3>2. /\ v \in Readers /\ id[v] = o.on
          /\ Op("take", o.on) \in Range(todo[v]) \/ peers[o.on] = Nil \/ Twins(o.on)
      BY <1>0, <2>2, <3>1, TodoFacts
    <3>3. o.on \in Readers BY <1>0, <3>2 DEF TypeOK
    <3>4. peers[o.on] = Nil => peers'[o.on] = Nil BY <1>0, <1>2, <3>3 DEF TypeOK
    <3>5. Twins(o.on) => Twins(o.on)' BY <1>0 DEF Twins
    <3>6. ASSUME Op("take", o.on) \in Range(todo[v]), Op("take", o.on) \notin Range(todo'[v])
          PROVE  peers'[o.on] = Nil
      <4>1. Op("take", o.on) = Op("take", i) BY <1>7, <3>6
      <4>2. o.on = i BY <4>1, OpFields
      <4> QED BY <1>0, <1>2, <4>2 DEF TypeOK
    <3> QED BY <1>0, <3>2, <3>4, <3>5, <3>6
  <2> QED BY <2>1, <2>2 DEF JoinIsOwn, CreateLast
<1>12. CallbackIsLate'
  <2> SUFFICES ASSUME NEW x \in PCs, NEW s \in {"failed", "closed"}
               PROVE  /\ todo[<<x, s>>] = <<>> => todo'[<<x, s>>] = <<>>
                      /\ \A o \in Range(todo'[<<x, s>>]) :
                           o.op = "close" \/ o = Op("take", pc[x].id)
    BY <1>0, CallbacksAfter
  <2> DEFINE v == <<x, s>>
  <2>1. v \in Workers BY WorkerKinds
  <2>2. \A o \in Range(todo[v]) : o.op = "close" \/ o = Op("take", pc[x].id)
    BY <1>0 DEF CallbackIsLate
  <2> HIDE DEF v
  <2>3. todo[v] = <<>> => todo'[v] = <<>> BY <1>7, <2>1
  <2>4. \A o \in Range(todo'[v]) : o.op = "close" \/ o = Op("take", pc[x].id)
    BY <1>6, <1>7, <2>1, <2>2
  <2> QED BY <2>3, <2>4 DEF v
<1>13. NoForgottenPeer'
  <2>1. \A x \in PCs : BeingClosed(x) => BeingClosed(x)'
    <3> SUFFICES ASSUME NEW x \in PCs, NEW v \in Workers, Op("close", x) \in Range(todo[v])
                 PROVE  Op("close", x) \in Range(todo'[v])
      BY DEF BeingClosed
    <3>1. Op("close", x) # Op("take", i) BY OpFields
    <3> QED BY <1>7, <3>1
  <2>2. ASSUME NEW x \in PCs, Alive(x)'
        PROVE  peers'[pc'[x].id] = x \/ BeingClosed(x)' \/ x \in overwritten'
    <3>1. Alive(x) BY <1>0, <2>2 DEF Alive
    <3>2. CASE peers[pc[x].id] = x /\ pc[x].id = i
      <4>1. peers[i] = x /\ x # Nil BY <3>2
      <4>2. Op("close", x) \in Range(todo'[w]) BY <1>4, <1>7, <4>1
      <4> QED BY <4>2 DEF BeingClosed
    <3>3. CASE peers[pc[x].id] = x /\ pc[x].id # i
      BY <1>0, <3>3 DEF TypeOK
    <3> QED BY <1>0, <2>1, <3>1, <3>2, <3>3 DEF NoForgottenPeer
  <2>3. ASSUME NEW x \in overwritten' PROVE Twins(pc[x].id)'
    BY <1>0 DEF NoForgottenPeer, Twins
  <2> QED BY <2>2, <2>3 DEF NoForgottenPeer
<1>14. NoPeerAfterClose' BY <1>0, <1>2 DEF NoPeerAfterClose, TypeOK
<1> QED BY <1>8, <1>9, <1>10, <1>11, <1>12, <1>13, <1>14 DEF IInv, PeersInv

(* pc.Close, by whomever: the callback it starts has not run before.       *)
LEMMA CloseStep ==
    ASSUME IInv, NEW w \in Workers, todo[w] # <<>>, NEW x,
           Head(todo[w]).op = "close", x = Head(todo[w]).on, ClosePC(w, x)
    PROVE  IInv'
<1>0. /\ PeersInv /\ TypeOK /\ todo \in [Workers -> Seq(Ops)]
      /\ CandidatesAreUsed /\ OnlyMadeIsKnown /\ JoinIsOwn /\ CallbackIsLate
      /\ NoForgottenPeer /\ NoPeerAfterClose
      /\ UNCHANGED <<id, peers, closed, overwritten>>
  BY DEF IInv, PeersInv, TypeOK, ClosePC
<1> DEFINE s == todo[w]
           r == Tail(s)
<1>1. s \in Seq(Ops) /\ s # <<>> /\ CreateLast(s)
  BY <1>0 DEF JoinIsOwn, CreateLast
<1>2. /\ r \in Seq(Ops) /\ Head(s) \in Range(s) /\ Head(s) \in Ops
      /\ Range(r) \subseteq Range(s)
      /\ \A o \in Range(s) : o = Head(s) \/ o \in Range(r)
      /\ CreateLast(r)
  <2> HIDE DEF s
  <2>1. <<>> \in Seq(Ops) /\ Range(<<>>) = {} BY ShortLists
  <2>2. Tail(s) \in Seq(Ops) BY <1>1, HeadTailProperties
  <2>3. <<>> \o Tail(s) = Tail(s) BY <2>2, ConcatEmptySeq
  <2>4. /\ Head(s) \in Range(s) /\ Head(s) \in Ops
        /\ Range(<<>> \o Tail(s)) \subseteq Range(<<>>) \cup Range(s)
        /\ \A o \in Range(s) : o = Head(s) \/ o \in Range(<<>> \o Tail(s))
    BY <1>1, <2>1, RangeOfPopped
  <2>5. CreateLast(<<>> \o Tail(s)) BY <1>1, <2>1, CreateStaysLast
  <2> QED BY <2>1, <2>2, <2>3, <2>4, <2>5
<1>3. x \in PCs /\ Head(s) = Op("close", x) /\ Head(s) \in PeerOps BY <1>2, OpFields
<1>4. pc[x].st # "free" /\ pc[x] \in States /\ pc[x].id \in Readers
  <2>1. pc[x].st # "free" /\ pc[x] \in States BY <1>0, <1>2, <1>3, TodoFacts DEF TypeOK
  <2> QED BY <1>0, <1>3, <2>1 DEF OnlyMadeIsKnown, States
<1> DEFINE y == [pc[x] EXCEPT !.st = "closed"]
<1>5. y \in States
  <2>1. 0 \in 0..MaxCandidates OBVIOUS
  <2> QED BY <1>4, <2>1, FlagTypes, Zenon
<1>6. /\ y.st = "closed" /\ y.id = pc[x].id /\ y.remote = pc[x].remote
      /\ y.remoteSet = pc[x].remoteSet /\ y.pending = pc[x].pending
  BY <1>4 DEF States
<1>7. pc' = [pc EXCEPT ![x] = y] BY DEF ClosePC
<1> HIDE DEF y
<1>8. /\ pc' \in [PCs -> States]
      /\ pc'[x] = y /\ \A z \in PCs : z # x => pc'[z] = pc[z]
      /\ \A z \in PCs : /\ pc'[z].id = pc[z].id /\ pc'[z].remote = pc[z].remote
                        /\ pc'[z].remoteSet = pc[z].remoteSet
                        /\ pc'[z].pending = pc[z].pending
                        /\ pc[z].st # "free" => pc'[z].st # "free"
                        /\ pc'[z].st = "free" => pc'[z] = pc[z]
  BY <1>0, <1>3, <1>5, <1>6, <1>7 DEF TypeOK
<1> DEFINE c == <<x, "closed">>
           called == pc[x].heard /\ pc[x].st # "closed"
           k == Op("take", pc[x].id)
<1>9. c \in Workers /\ c \in Callbacks BY <1>3, WorkerKinds
<1>10. k \in Ops /\ k \notin PeerOps /\ k.op = "take" /\ <<k>> \in Seq(Ops) /\ Range(<<k>>) = {k}
  <2>1. k \in Ops /\ k \notin PeerOps /\ k.op = "take" BY <1>4, OpFields
  <2> HIDE DEF k
  <2> QED BY <2>1, ShortLists
<1>11. called => todo[c] = <<>> /\ c # w
  BY <1>0, <1>3 DEF CallbackIsLate
<1>12. todo' = IF called THEN [[todo EXCEPT ![w] = r] EXCEPT ![c] = <<k>>]
               ELSE [todo EXCEPT ![w] = r]
  BY DEF ClosePC, StateChange
<1> HIDE DEF s, r, c, k
<1>13. /\ todo' \in [Workers -> Seq(Ops)] /\ todo'[w] = r
       /\ called => todo'[c] = <<k>>
       /\ \A v \in Workers : v # w /\ (v # c \/ ~called) => todo'[v] = todo[v]
  BY <1>0, <1>2, <1>9, <1>10, <1>11, <1>12
<1> HIDE DEF called
<1>14. ASSUME NEW v \in Workers, NEW o \in Range(todo'[v])
       PROVE  o \in Range(todo[v]) \/ (v = c /\ called /\ o = k)
  BY <1>2, <1>9, <1>10, <1>13, <1>14 DEF s
<1>15. ASSUME NEW v \in Workers, NEW o \in Range(todo[v])
       PROVE  o = Op("close", x) \/ o \in Range(todo'[v])
  <2>1. CASE v = w BY <1>2, <1>3, <1>13, <1>15, <2>1 DEF s
  <2>2. CASE v = c /\ called BY <1>11, <1>15, <2>2, ShortLists
  <2>3. CASE v # w /\ (v # c \/ ~called) BY <1>13, <1>15, <2>3
  <2> QED BY <2>1, <2>2, <2>3
<1>16. TypeOK' BY <1>0, <1>8, <1>13 DEF TypeOK
<1>17. CandidatesAreUsed'
  <2>1. ASSUME NEW v \in Workers, NEW o \in Range(todo'[v]), o.op \in {"flush", "add"}
        PROVE  pc'[o.on].remote
    <3>1. o \in Range(todo[v]) BY <1>10, <1>14, <2>1
    <3>2. o \in Ops /\ pc[o.on].remote BY <1>0, <2>1, <3>1, TodoFacts
    <3>3. o.on \in PCs BY <2>1, <3>2, OpFields
    <3> QED BY <1>8, <3>2, <3>3
  <2> QED BY <1>0, <1>8, <2>1 DEF CandidatesAreUsed
<1>18. OnlyMadeIsKnown'
  <2>1. ASSUME NEW v \in Workers, NEW o \in Range(todo'[v]), o \in PeerOps
        PROVE  pc'[o.on].st # "free"
    <3>1. o \in Range(todo[v]) BY <1>10, <1>14, <2>1
    <3>2. pc[o.on].st # "free" BY <1>0, <2>1, <3>1, TodoFacts
    <3>3. o.on \in PCs BY <2>1 DEF PeerOps
    <3> QED BY <1>8, <3>2, <3>3
  <2>2. \A i \in Readers : peers'[i] # Nil => pc'[peers'[i]].id = i
    <3> SUFFICES ASSUME NEW i \in Readers, peers[i] # Nil PROVE pc'[peers[i]].id = i
      BY <1>0
    <3>1. peers[i] \in PCs /\ pc[peers[i]].id = i BY <1>0 DEF TypeOK, OnlyMadeIsKnown
    <3> QED BY <1>8, <3>1
  <2>3. \A z \in overwritten' : pc'[z].st # "free"
    BY <1>0, <1>8 DEF TypeOK, OnlyMadeIsKnown
  <2>4. \A z \in PCs : /\ pc'[z].st = "free" => pc'[z] = Free
                       /\ pc'[z].st # "free" => pc'[z].id # Nil
    BY <1>0, <1>4, <1>6, <1>8 DEF OnlyMadeIsKnown
  <2> QED BY <2>1, <2>2, <2>3, <2>4, KnownAfter
<1>19. JoinIsOwn'
  <2>1. ASSUME NEW v \in Workers PROVE CreateLast(todo'[v])
    <3>1. CASE v = w BY <1>2, <1>13, <3>1
    <3>2. CASE v = c /\ called
      <4>1. k.op # "create" /\ todo'[v] = <<k>> BY <1>10, <1>13, <3>2
      <4> QED BY <4>1 DEF CreateLast
    <3>3. CASE v # w /\ (v # c \/ ~called)
      BY <1>0, <1>13, <2>1, <3>3 DEF JoinIsOwn, CreateLast
    <3> QED BY <3>1, <3>2, <3>3
  <2>2. ASSUME NEW v \in Workers, NEW o \in Range(todo'[v]), o.op = "create"
        PROVE  /\ v \in Readers /\ id'[v] = o.on
               /\ Op("take", o.on) \in Range(todo'[v]) \/ peers'[o.on] = Nil \/ Twins(o.on)'
    <3>1. o \in Range(todo[v]) BY <1>10, <1>14, <2>2
    <3>2. /\ v \in Readers /\ id[v] = o.on
          /\ Op("take", o.on) \in Range(todo[v]) \/ peers[o.on] = Nil \/ Twins(o.on)
      BY <1>0, <2>2, <3>1, TodoFacts
    <3>3. Op("take", o.on) \in Range(todo[v]) => Op("take", o.on) \in Range(todo'[v])
      BY <1>15, <2>2, OpFields
    <3>4. Twins(o.on) => Twins(o.on)' BY <1>0 DEF Twins
    <3> QED BY <1>0, <3>2, <3>3, <3>4
  <2> QED BY <2>1, <2>2 DEF JoinIsOwn, CreateLast
<1>20. CallbackIsLate'
  <2>1. ASSUME NEW z \in PCs, NEW t \in {"failed", "closed"}
        PROVE  /\ todo[<<z, t>>] = <<>> => todo'[<<z, t>>] = <<>> \/ (z = x /\ t = "closed")
               /\ \A o \in Range(todo'[<<z, t>>]) : o.op = "close" \/ o = Op("take", pc[z].id)
    <3> DEFINE v == <<z, t>>
    <3>1. v \in Workers BY WorkerKinds
    <3>2. v = c => z = x /\ t = "closed" BY DEF c
    <3>3. \A o \in Range(todo[v]) : o.op = "close" \/ o = Op("take", pc[z].id)
      BY <1>0, <2>1 DEF CallbackIsLate
    <3> HIDE DEF v
    <3>4. todo[v] = <<>> => todo'[v] = <<>> \/ (z = x /\ t = "closed")
      BY <1>13, <3>1, <3>2
    <3>5. \A o \in Range(todo'[v]) : o.op = "close" \/ o = Op("take", pc[z].id)
      <4> SUFFICES ASSUME NEW o \in Range(todo'[v])
                   PROVE  o.op = "close" \/ o = Op("take", pc[z].id)
        OBVIOUS
      <4>1. o \in Range(todo[v]) \/ (v = c /\ o = k) BY <1>14, <3>1
      <4> QED BY <3>2, <3>3, <4>1 DEF k
    <3> QED BY <3>4, <3>5 DEF v
  <2>2. ASSUME NEW z \in PCs PROVE
          /\ pc'[z].st # "closed" => todo'[<<z, "closed">>] = <<>>
          /\ pc'[z].st \in {"free", "open"} => todo'[<<z, "failed">>] = <<>>
          /\ \A t \in {"failed", "closed"} : \A o \in Range(todo'[<<z, t>>]) :
               o.op = "close" \/ o = Op("take", pc'[z].id)
    <3>1. pc'[z].id = pc[z].id BY <1>8, <2>2
    <3>2. pc'[z].st # "closed" => pc'[z].st = pc[z].st /\ z # x BY <1>6, <1>8, <2>2
    <3>3. /\ pc[z].st # "closed" => todo[<<z, "closed">>] = <<>>
          /\ pc[z].st \in {"free", "open"} => todo[<<z, "failed">>] = <<>>
      BY <1>0, <2>2 DEF CallbackIsLate
    <3>4. pc'[z].st # "closed" => todo'[<<z, "closed">>] = <<>>
      BY <2>1, <2>2, <3>2, <3>3
    <3>5. pc'[z].st \in {"free", "open"} => todo'[<<z, "failed">>] = <<>>
      BY <2>1, <2>2, <3>2, <3>3
    <3>6. \A t \in {"failed", "closed"} : \A o \in Range(todo'[<<z, t>>]) :
               o.op = "close" \/ o = Op("take", pc'[z].id)
      BY <2>1, <2>2, <3>1
    <3> QED BY <3>4, <3>5, <3>6
  <2> QED BY <2>2, Zenon DEF CallbackIsLate
<1>21. NoForgottenPeer'
  <2>1. ASSUME NEW z \in PCs, z # x, BeingClosed(z) PROVE BeingClosed(z)'
    <3>1. PICK v \in Workers : Op("close", z) \in Range(todo[v]) BY <2>1 DEF BeingClosed
    <3>2. Op("close", z) # Op("close", x) BY <2>1, OpFields
    <3>3. Op("close", z) \in Range(todo'[v]) BY <1>15, <3>1, <3>2
    <3> QED BY <3>3 DEF BeingClosed
  <2>2. ASSUME NEW z \in PCs, Alive(z)'
        PROVE  peers'[pc'[z].id] = z \/ BeingClosed(z)' \/ z \in overwritten'
    <3>1. z # x /\ pc'[z] = pc[z] BY <1>6, <1>8, <2>2 DEF Alive
    <3>2. Alive(z) BY <2>2, <3>1 DEF Alive
    <3> QED BY <1>0, <2>1, <3>1, <3>2 DEF NoForgottenPeer
  <2>3. ASSUME NEW z \in overwritten' PROVE Twins(pc[z].id)'
    <3>1. z \in PCs /\ z \in overwritten BY <1>0, <2>3 DEF TypeOK
    <3>2. Twins(pc[z].id) BY <1>0, <3>1 DEF NoForgottenPeer
    <3> QED BY <1>0, <1>8, <3>1, <3>2 DEF Twins
  <2> QED BY <2>2, <2>3 DEF NoForgottenPeer
<1>22. NoPeerAfterClose' BY <1>0 DEF NoPeerAfterClose
<1> QED BY <1>16, <1>17, <1>18, <1>19, <1>20, <1>21, <1>22 DEF IInv, PeersInv

(* addPeer makes a connection.  Nobody knew it before; the client has no   *)
(* peer at this point, or two connections of its own join.                 *)
LEMMA CreateStep ==
    ASSUME IInv, NEW w \in Workers, todo[w] # <<>>, NEW i, NEW x \in PCs,
           Head(todo[w]).op = "create", i = Head(todo[w]).on,
           ~closed, pc[x].st = "free",
           pc' = [pc EXCEPT ![x] = [Free EXCEPT !.st = "open", !.id = i]],
           \/ /\ peers' = [peers EXCEPT ![i] = x]
              /\ overwritten' = overwritten \cup ({peers[i]} \ {Nil})
              /\ Pop(w, <<Op("handlers", x), Op("offer", x)>>)
           \/ Pop(w, <<Op("close", x)>>) /\ UNCHANGED <<peers, overwritten>>,
           UNCHANGED <<id, closed>>
    PROVE  IInv'
<1>0. /\ PeersInv /\ TypeOK /\ todo \in [Workers -> Seq(Ops)]
      /\ CandidatesAreUsed /\ OnlyMadeIsKnown /\ JoinIsOwn /\ CallbackIsLate
      /\ NoForgottenPeer /\ NoPeerAfterClose
  BY DEF IInv, PeersInv, TypeOK
<1> DEFINE y == [Free EXCEPT !.st = "open", !.id = i]
<1>1. Head(todo[w]) \in Range(todo[w]) /\ Head(todo[w]) \in Ops
  <2>1. todo[w] \in Seq(Ops) BY <1>0
  <2> QED BY <2>1, RangeOfPopped, EmptySeq
<1>2. i \in Readers /\ w \in Readers /\ id[w] = i /\ Head(todo[w]) = Op("create", i)
  BY <1>0, <1>1, OpFields, TodoFacts
<1>3. /\ y \in States /\ y.st = "open" /\ y.id = i /\ ~y.remoteSet
  <2>1. 0 \in 0..MaxCandidates /\ i \in Readers \cup {Nil} BY <1>2
  <2>2. y \in States BY <2>1, Zenon DEF States, Free
  <2> QED BY <2>2 DEF Free
<1>4. pc' = [pc EXCEPT ![x] = y] OBVIOUS
<1> HIDE DEF y
<1>5. /\ pc' \in [PCs -> States] /\ pc'[x] = y
      /\ \A z \in PCs : z # x => pc'[z] = pc[z]
  BY <1>0, <1>3, <1>4 DEF TypeOK
<1>6. /\ pc[x].id = Nil
      /\ \A j \in Readers : peers[j] # x
      /\ x \notin overwritten
      /\ \A v \in Workers : \A o \in Range(todo[v]) : o \in PeerOps => o.on # x
  <2>1. pc[x].id = Nil BY <1>0 DEF OnlyMadeIsKnown, Free
  <2>2. \A j \in Readers : peers[j] # x
    <3> SUFFICES ASSUME NEW j \in Readers, peers[j] = x PROVE FALSE OBVIOUS
    <3>1. pc[x].id = j BY <1>0 DEF OnlyMadeIsKnown
    <3> QED BY <2>1, <3>1
  <2>3. x \notin overwritten BY <1>0 DEF OnlyMadeIsKnown
  <2>4. \A v \in Workers : \A o \in Range(todo[v]) : o \in PeerOps => o.on # x
    BY <1>0 DEF OnlyMadeIsKnown
  <2> QED BY <2>1, <2>2, <2>3, <2>4
<1>7. PICK ops \in Seq(Ops) :
        /\ Pop(w, ops)
        /\ \A o \in Range(ops) : /\ o \in PeerOps /\ o.on = x
                                 /\ o.op \in {"handlers", "offer", "close"}
        /\ \/ /\ peers' = [peers EXCEPT ![i] = x]
              /\ overwritten' = overwritten \cup ({peers[i]} \ {Nil})
           \/ Op("close", x) \in Range(ops) /\ UNCHANGED <<peers, overwritten>>
  <2>1. ASSUME peers' = [peers EXCEPT ![i] = x],
               overwritten' = overwritten \cup ({peers[i]} \ {Nil}),
               Pop(w, <<Op("handlers", x), Op("offer", x)>>)
        PROVE  \E ops \in Seq(Ops) :
                 /\ Pop(w, ops)
                 /\ \A o \in Range(ops) : /\ o \in PeerOps /\ o.on = x
                                          /\ o.op \in {"handlers", "offer", "close"}
    <3> DEFINE a == Op("handlers", x)
               b == Op("offer", x)
    <3>1. /\ a \in Ops /\ a \in PeerOps /\ a.on = x /\ a.op = "handlers"
          /\ b \in Ops /\ b \in PeerOps /\ b.on = x /\ b.op = "offer"
      BY OpFields
    <3>2. Pop(w, <<a, b>>) BY <2>1
    <3> HIDE DEF a, b
    <3>3. <<a, b>> \in Seq(Ops) /\ Range(<<a, b>>) = {a, b} BY <3>1, ShortLists
    <3> DEFINE ops == <<a, b>>
    <3>4. ops \in Seq(Ops) /\ Range(ops) = {a, b} /\ Pop(w, ops) BY <3>2, <3>3
    <3> HIDE DEF ops
    <3> QED BY <3>1, <3>4
  <2>2. ASSUME Pop(w, <<Op("close", x)>>), UNCHANGED <<peers, overwritten>>
        PROVE  \E ops \in Seq(Ops) :
                 /\ Pop(w, ops)
                 /\ \A o \in Range(ops) : /\ o \in PeerOps /\ o.on = x
                                          /\ o.op \in {"handlers", "offer", "close"}
                 /\ Op("close", x) \in Range(ops)
    <3> DEFINE a == Op("close", x)
    <3>1. a \in Ops /\ a \in PeerOps /\ a.on = x /\ a.op = "close" BY OpFields
    <3>2. Pop(w, <<a>>) BY <2>2
    <3> HIDE DEF a
    <3> DEFINE ops == <<a>>
    <3>4. ops \in Seq(Ops) /\ Range(ops) = {a} /\ Pop(w, ops) BY <3>1, <3>2, ShortLists
    <3> HIDE DEF ops
    <3>5. Op("close", x) \in Range(ops) BY <3>4 DEF a
    <3> QED BY <3>1, <3>4, <3>5
  <2> QED BY <2>1, <2>2
<1>8. /\ todo' \in [Workers -> Seq(Ops)]
      /\ \A v \in Workers : v # w => todo'[v] = todo[v]
      /\ todo'[w] = ops /\ CreateLast(todo'[w])
      /\ \A o \in Range(todo[w]) : o = Op("create", i) \/ o \in Range(ops)
  BY <1>0, <1>2, <1>7, Popped
<1>9. peers[i] = Nil \/ Twins(i)
  <2>1. Op("take", i) \notin Range(todo[w]) BY <1>2, <1>7, <1>8, OpFields
  <2> QED BY <1>0, <1>1, <1>2, <2>1, TodoFacts
<1>10. ASSUME NEW v \in Workers, NEW o \in Range(todo'[v])
       PROVE  (v = w /\ o \in Range(ops)) \/ (v # w /\ o \in Range(todo[v]))
  BY <1>8, <1>10
<1>11. TypeOK'
  <2>1. peers' \in [Readers -> PCs \cup {Nil}] BY <1>0, <1>2, <1>7 DEF TypeOK
  <2>2. overwritten' \subseteq PCs
    <3>1. peers[i] \in PCs \cup {Nil} /\ overwritten \subseteq PCs BY <1>0, <1>2 DEF TypeOK
    <3> QED BY <1>7, <3>1
  <2> QED BY <1>0, <1>5, <1>8, <2>1, <2>2 DEF TypeOK
<1>12. CandidatesAreUsed'
  <2>1. ASSUME NEW v \in Workers, NEW o \in Range(todo'[v]), o.op \in {"flush", "add"}
        PROVE  pc'[o.on].remote
    <3>1. o \in Range(todo[v]) BY <1>7, <1>10, <2>1
    <3>2. o \in Ops /\ pc[o.on].remote BY <1>0, <2>1, <3>1, TodoFacts
    <3>3. o \in PeerOps /\ o.on \in PCs BY <2>1, <3>2, OpFields
    <3> QED BY <1>5, <1>6, <3>1, <3>2, <3>3
  <2>2. \A z \in PCs : pc'[z].remoteSet => pc'[z].pending = 0 /\ pc'[z].remote
    BY <1>0, <1>3, <1>5 DEF CandidatesAreUsed
  <2> QED BY <2>1, <2>2 DEF CandidatesAreUsed
<1>13. OnlyMadeIsKnown'
  <2>1. ASSUME NEW v \in Workers, NEW o \in Range(todo'[v]), o \in PeerOps
        PROVE  pc'[o.on].st # "free"
    <3>1. CASE o \in Range(ops) BY <1>3, <1>5, <1>7, <3>1
    <3>2. CASE o \in Range(todo[v])
      <4>1. pc[o.on].st # "free" BY <1>0, <2>1, <3>2, TodoFacts
      <4>2. o.on \in PCs /\ o.on # x BY <1>6, <2>1, <3>2 DEF PeerOps
      <4> QED BY <1>5, <4>1, <4>2
    <3> QED BY <1>10, <2>1, <3>1, <3>2
  <2>2. \A j \in Readers : peers'[j] # Nil => pc'[peers'[j]].id = j
    <3> SUFFICES ASSUME NEW j \in Readers, peers'[j] # Nil PROVE pc'[peers'[j]].id = j
      OBVIOUS
    <3>1. CASE peers'[j] = peers[j]
      <4>1. peers[j] \in PCs /\ peers[j] # x /\ pc[peers[j]].id = j
        BY <1>0, <1>6, <3>1 DEF TypeOK, OnlyMadeIsKnown
      <4> QED BY <1>5, <3>1, <4>1
    <3>2. CASE j = i /\ peers'[j] = x BY <1>3, <1>5, <3>2
    <3> QED BY <1>0, <1>2, <1>7, <3>1, <3>2 DEF TypeOK
  <2>3. ASSUME NEW z \in overwritten' PROVE pc'[z].st # "free"
    <3>1. z \in PCs /\ pc[z].st # "free"
      BY <1>0, <1>2, <1>7, <2>3 DEF TypeOK, OnlyMadeIsKnown, Free
    <3> QED BY <1>5, <3>1
  <2>4. \A z \in PCs : /\ pc'[z].st = "free" => pc'[z] = Free
                       /\ pc'[z].st # "free" => pc'[z].id # Nil
    BY <1>0, <1>2, <1>3, <1>5 DEF OnlyMadeIsKnown
  <2> QED BY <2>1, <2>2, <2>3, <2>4, KnownAfter
<1>14. JoinIsOwn'
  <2>1. \A v \in Workers : CreateLast(todo'[v])
    BY <1>0, <1>8 DEF JoinIsOwn, CreateLast
  <2>2. ASSUME NEW v \in Workers, NEW o \in Range(todo'[v]), o.op = "create"
        PROVE  /\ v \in Readers /\ id'[v] = o.on
               /\ Op("take", o.on) \in Range(todo'[v]) \/ peers'[o.on] = Nil \/ Twins(o.on)'
    <3>1. v # w /\ o \in Range(todo[v]) BY <1>7, <1>10, <2>2
    <3>2. /\ v \in Readers /\ id[v] = o.on
          /\ Op("take", o.on) \in Range(todo[v]) \/ peers[o.on] = Nil \/ Twins(o.on)
      BY <1>0, <2>2, <3>1, TodoFacts
    <3>3. o.on \in Readers BY <1>0, <3>2 DEF TypeOK
    <3>4. CASE o.on = i
      <4>1. Twins(i)' BY <1>2, <3>1, <3>2, <3>4 DEF Twins
      <4> QED BY <3>2, <3>4, <4>1
    <3>5. CASE o.on # i
      <4>1. peers'[o.on] = peers[o.on] BY <1>0, <1>7, <3>3, <3>5 DEF TypeOK
      <4>2. todo'[v] = todo[v] BY <1>8, <3>1
      <4>3. Twins(o.on) => Twins(o.on)' BY DEF Twins
      <4> QED BY <3>2, <4>1, <4>2, <4>3
    <3> QED BY <3>4, <3>5
  <2> QED BY <2>1, <2>2 DEF JoinIsOwn, CreateLast
<1>15. CallbackIsLate'
  <2>1. ASSUME NEW z \in PCs, NEW t \in {"failed", "closed"}
        PROVE  todo'[<<z, t>>] = todo[<<z, t>>]
    <3> DEFINE v == <<z, t>>
    <3>1. v \in Workers /\ v # w BY <1>2, WorkerKinds
    <3> HIDE DEF v
    <3>2. todo'[v] = todo[v] BY <1>8, <3>1
    <3> QED BY <3>2 DEF v
  <2>2. ASSUME NEW z \in PCs PROVE
          /\ pc'[z].st # "closed" => todo'[<<z, "closed">>] = <<>>
          /\ pc'[z].st \in {"free", "open"} => todo'[<<z, "failed">>] = <<>>
          /\ \A t \in {"failed", "closed"} : \A o \in Range(todo'[<<z, t>>]) :
               o.op = "close" \/ o = Op("take", pc'[z].id)
    <3>1. /\ pc[z].st # "closed" => todo[<<z, "closed">>] = <<>>
          /\ pc[z].st \in {"free", "open"} => todo[<<z, "failed">>] = <<>>
          /\ \A t \in {"failed", "closed"} : \A o \in Range(todo[<<z, t>>]) :
               o.op = "close" \/ o = Op("take", pc[z].id)
      BY <1>0, <2>2 DEF CallbackIsLate
    <3>2. todo'[<<z, "closed">>] = todo[<<z, "closed">>]
          /\ todo'[<<z, "failed">>] = todo[<<z, "failed">>]
      BY <2>1, <2>2
    <3>3. CASE z = x
      <4>1. todo[<<z, "closed">>] = <<>> /\ todo[<<z, "failed">>] = <<>>
        BY <3>1, <3>3
      <4>2. todo'[<<z, "closed">>] = <<>> /\ todo'[<<z, "failed">>] = <<>>
        BY <3>2, <4>1
      <4>3. Range(<<>>) = {} BY ShortLists
      <4>4. \A t \in {"failed", "closed"} : todo'[<<z, t>>] = <<>> BY <4>2
      <4>5. \A t \in {"failed", "closed"} : Range(todo'[<<z, t>>]) = {}
        BY <4>3, <4>4
      <4> QED BY <4>2, <4>5
    <3>4. CASE z # x BY <1>5, <2>1, <2>2, <3>1, <3>2, <3>4
    <3> QED BY <3>3, <3>4
  <2> QED BY <2>2, Zenon DEF CallbackIsLate
<1>16. NoForgottenPeer'
  <2>1. ASSUME NEW z \in PCs, BeingClosed(z) PROVE BeingClosed(z)'
    <3>1. PICK v \in Workers : Op("close", z) \in Range(todo[v]) BY <2>1 DEF BeingClosed
    <3>2. Op("close", z) # Op("create", i) BY OpFields
    <3>3. CASE v = w BY <1>8, <3>1, <3>2, <3>3 DEF BeingClosed
    <3>4. CASE v # w
      <4>1. todo'[v] = todo[v] BY <1>8, <3>4
      <4> QED BY <3>1, <4>1 DEF BeingClosed
    <3> QED BY <3>3, <3>4
  <2>2. ASSUME NEW z \in PCs, Alive(z)'
        PROVE  peers'[pc'[z].id] = z \/ BeingClosed(z)' \/ z \in overwritten'
    <3>1. CASE z = x /\ peers' = [peers EXCEPT ![i] = x]
      BY <1>0, <1>2, <1>3, <1>5, <3>1 DEF TypeOK
    <3>2. CASE z = x /\ Op("close", x) \in Range(ops)
      BY <1>8, <3>2 DEF BeingClosed
    <3>3. CASE z # x
      <4>1. pc'[z] = pc[z] /\ Alive(z) BY <1>5, <2>2, <3>3 DEF Alive
      <4>2. pc[z].id \in Readers
        BY <1>0, <4>1 DEF OnlyMadeIsKnown, TypeOK, States, Alive
      <4>3. peers[pc[z].id] = z \/ BeingClosed(z) \/ z \in overwritten
        BY <1>0, <4>1 DEF NoForgottenPeer
      <4>4. CASE peers[pc[z].id] = z
        <5>1. CASE pc[z].id = i
          <6>1. peers[i] = z /\ z # Nil BY <4>4, <5>1
          <6>2. peers' = peers \/ z \in overwritten' BY <1>7, <6>1
          <6> QED BY <4>1, <4>4, <6>2
        <5>2. CASE pc[z].id # i
          <6>1. peers'[pc[z].id] = peers[pc[z].id] BY <1>0, <1>7, <4>2, <5>2 DEF TypeOK
          <6> QED BY <4>1, <4>4, <6>1
        <5> QED BY <5>1, <5>2
      <4> QED BY <1>7, <2>1, <4>3, <4>4
    <3> QED BY <1>7, <3>1, <3>2, <3>3
  <2>3. ASSUME NEW z \in overwritten' PROVE Twins(pc[z].id)'
    <3>1. CASE z \in overwritten
      <4>1. z \in PCs /\ z # x /\ Twins(pc[z].id)
        BY <1>0, <1>6, <3>1 DEF TypeOK, NoForgottenPeer
      <4> QED BY <1>5, <4>1 DEF Twins
    <3>2. CASE z = peers[i] /\ peers[i] # Nil
      <4>1. z \in PCs /\ z # x /\ pc[z].id = i /\ Twins(i)
        BY <1>0, <1>2, <1>6, <1>9, <3>2 DEF TypeOK, OnlyMadeIsKnown
      <4> QED BY <1>5, <4>1 DEF Twins
    <3> QED BY <1>7, <2>3, <3>1, <3>2
  <2> QED BY <2>2, <2>3 DEF NoForgottenPeer
<1>17. NoPeerAfterClose' BY <1>0 DEF NoPeerAfterClose
<1> QED BY <1>11, <1>12, <1>13, <1>14, <1>15, <1>16, <1>17 DEF IInv, PeersInv

(* A reader, a departure or the end of the room gets something to do; the  *)
(* end of the room also takes the peers away, and closes each of them.     *)
LEMMA BeginStep ==
    ASSUME IInv, NEW w \in Workers, w \notin Callbacks, NEW ops \in Seq(Ops),
           Begin(w, ops), CreateLast(ops),
           \A o \in Range(ops) :
             /\ o.op \notin {"flush", "add"}
             /\ o.op = "create" => w \in Readers /\ id[w] = o.on /\ Op("take", o.on) \in Range(ops)
             /\ o \in PeerOps => pc[o.on].st # "free",
           peers' \in [Readers -> PCs \cup {Nil}], closed' \in BOOLEAN,
           \A i \in Readers :
             \/ peers'[i] = peers[i]
             \/ peers'[i] = Nil /\ (peers[i] # Nil => Op("close", peers[i]) \in Range(ops)),
           closed' => \A i \in Readers : peers'[i] = Nil,
           UNCHANGED <<id, pc, overwritten>>
    PROVE  IInv'
<1>0. /\ PeersInv /\ TypeOK /\ todo \in [Workers -> Seq(Ops)]
      /\ CandidatesAreUsed /\ OnlyMadeIsKnown /\ JoinIsOwn /\ CallbackIsLate
      /\ NoForgottenPeer /\ NoPeerAfterClose
  BY DEF IInv, PeersInv, TypeOK
<1>1. /\ todo' \in [Workers -> Seq(Ops)] /\ todo[w] = <<>> /\ todo'[w] = ops
      /\ \A v \in Workers : v # w => todo'[v] = todo[v]
  BY <1>0 DEF Begin
<1>2. ASSUME NEW v \in Workers, NEW o \in Range(todo'[v])
      PROVE  (v = w /\ o \in Range(ops)) \/ (v # w /\ o \in Range(todo[v]))
  BY <1>1, <1>2
<1>3. ASSUME NEW v \in Workers, NEW o \in Range(todo[v]) PROVE o \in Range(todo'[v])
  BY <1>1, <1>3, ShortLists
<1>4. TypeOK' BY <1>0, <1>1 DEF TypeOK
<1>5. CandidatesAreUsed' BY <1>0, <1>2 DEF CandidatesAreUsed
<1>6. OnlyMadeIsKnown'
  <2>1. ASSUME NEW v \in Workers, NEW o \in Range(todo'[v]), o \in PeerOps
        PROVE  pc'[o.on].st # "free"
    BY <1>0, <1>2, <2>1, TodoFacts
  <2>2. \A j \in Readers : peers'[j] # Nil => pc'[peers'[j]].id = j
    BY <1>0 DEF OnlyMadeIsKnown
  <2>3. \A x \in overwritten' : pc'[x].st # "free" BY <1>0 DEF OnlyMadeIsKnown
  <2>4. \A x \in PCs : /\ pc'[x].st = "free" => pc'[x] = Free
                       /\ pc'[x].st # "free" => pc'[x].id # Nil
    BY <1>0 DEF OnlyMadeIsKnown
  <2> QED BY <2>1, <2>2, <2>3, <2>4, KnownAfter
<1>7. JoinIsOwn'
  <2>1. \A v \in Workers : CreateLast(todo'[v])
    BY <1>0, <1>1 DEF JoinIsOwn, CreateLast
  <2>2. ASSUME NEW v \in Workers, NEW o \in Range(todo'[v]), o.op = "create"
        PROVE  /\ v \in Readers /\ id'[v] = o.on
               /\ Op("take", o.on) \in Range(todo'[v]) \/ peers'[o.on] = Nil \/ Twins(o.on)'
    <3>1. CASE v = w /\ o \in Range(ops) BY <1>1, <2>2, <3>1
    <3>2. CASE v # w /\ o \in Range(todo[v])
      <4>1. /\ v \in Readers /\ id[v] = o.on
            /\ Op("take", o.on) \in Range(todo[v]) \/ peers[o.on] = Nil \/ Twins(o.on)
        BY <1>0, <2>2, <3>2, TodoFacts
      <4>2. o.on \in Readers BY <1>0, <4>1 DEF TypeOK
      <4>3. peers[o.on] = Nil => peers'[o.on] = Nil BY <4>2
      <4>4. Twins(o.on) => Twins(o.on)' BY DEF Twins
      <4> QED BY <1>3, <2>2, <4>1, <4>3, <4>4
    <3> QED BY <1>2, <2>2, <3>1, <3>2
  <2> QED BY <2>1, <2>2 DEF JoinIsOwn, CreateLast
<1>8. CallbackIsLate'
  <2>1. ASSUME NEW x \in PCs, NEW s \in {"failed", "closed"}
        PROVE  todo'[<<x, s>>] = todo[<<x, s>>]
    <3> DEFINE v == <<x, s>>
    <3>0. v \in Workers /\ v \in Callbacks BY WorkerKinds
    <3> HIDE DEF v
    <3>1. v \in Workers /\ v # w BY <3>0
    <3>2. todo'[v] = todo[v] BY <1>1, <3>1
    <3> QED BY <3>2 DEF v
  <2> QED BY <1>0, <2>1, SameCallbacks
<1>9. NoForgottenPeer'
  <2>1. \A x \in PCs : BeingClosed(x) => BeingClosed(x)' BY <1>3 DEF BeingClosed
  <2>2. ASSUME NEW x \in PCs, Alive(x)'
        PROVE  peers'[pc'[x].id] = x \/ BeingClosed(x)' \/ x \in overwritten'
    <3>1. Alive(x) BY <2>2 DEF Alive
    <3>2. pc[x].id \in Readers
      BY <1>0, <3>1 DEF OnlyMadeIsKnown, TypeOK, States, Alive
    <3>3. CASE peers[pc[x].id] = x /\ peers'[pc[x].id] # x
      <4>1. Op("close", x) \in Range(ops) BY <3>2, <3>3
      <4> QED BY <1>1, <4>1 DEF BeingClosed
    <3> QED BY <1>0, <2>1, <3>1, <3>3 DEF NoForgottenPeer
  <2>3. ASSUME NEW x \in overwritten' PROVE Twins(pc[x].id)'
    BY <1>0 DEF NoForgottenPeer, Twins
  <2> QED BY <2>2, <2>3 DEF NoForgottenPeer
<1>10. NoPeerAfterClose' BY DEF NoPeerAfterClose
<1> QED BY <1>4, <1>5, <1>6, <1>7, <1>8, <1>9, <1>10 DEF IInv, PeersInv

(* The requests of a client and a departure.                               *)
LEMMA RequestStep ==
    ASSUME IInv, NEW g \in Readers, HandleSignal(g) \/ RemovePeer(g)
    PROVE  IInv'
<1>0. /\ TypeOK /\ NoPeerAfterClose /\ id[g] \in Readers
      /\ UNCHANGED <<id, peers, pc, closed, overwritten>>
  BY DEF IInv, PeersInv, TypeOK, HandleSignal, RemovePeer
<1>1. /\ peers' \in [Readers -> PCs \cup {Nil}] /\ closed' \in BOOLEAN
      /\ closed' => \A i \in Readers : peers'[i] = Nil
  BY <1>0 DEF TypeOK, NoPeerAfterClose
<1>2. ASSUME NEW w \in Readers \cup {Leaver}, NEW e \in Ops, e \notin PeerOps,
             e.op \in {"take", "answer", "ice"}, Begin(w, <<e>>)
      PROVE  IInv'
  <2> DEFINE ops == <<e>>
  <2>1. ops \in Seq(Ops) /\ Range(ops) = {e} BY <1>2, ShortLists
  <2>2. CreateLast(ops) BY <1>2 DEF CreateLast
  <2>3. w \in Workers /\ w \notin Callbacks BY <1>2, WorkerKinds
  <2>4. Begin(w, ops) BY <1>2
  <2> HIDE DEF ops
  <2> QED BY <1>0, <1>1, <1>2, <2>1, <2>2, <2>3, <2>4, BeginStep
<1>3. CASE RemovePeer(g)
  <2> DEFINE e == Op("take", g)
  <2>1. e \in Ops /\ e \notin PeerOps /\ e.op = "take" BY OpFields
  <2>2. Begin(Leaver, <<e>>) BY <1>3 DEF RemovePeer
  <2> HIDE DEF e
  <2> QED BY <1>2, <2>1, <2>2
<1>4. CASE HandleSignal(g) /\ \E o \in {"answer", "ice"} : Begin(g, <<Op(o, id[g])>>)
  <2>1. PICK o \in {"answer", "ice"} : Begin(g, <<Op(o, id[g])>>) BY <1>4
  <2> DEFINE e == Op(o, id[g])
  <2>2. e \in Ops /\ e \notin PeerOps /\ e.op \in {"answer", "ice"} BY <1>0, OpFields
  <2>3. Begin(g, <<e>>) BY <2>1
  <2> HIDE DEF e
  <2> QED BY <1>2, <2>2, <2>3
<1>5. CASE HandleSignal(g) /\ Begin(g, <<Op("take", id[g]), Op("create", id[g])>>)
  <2> DEFINE a == Op("take", id[g])
             b == Op("create", id[g])
             ops == <<a, b>>
  <2>1. /\ a \in Ops /\ a \notin PeerOps /\ a.op = "take"
        /\ b \in Ops /\ b \notin PeerOps /\ b.op = "create" /\ b.on = id[g]
    BY <1>0, OpFields
  <2>2. Begin(g, ops) BY <1>5
  <2>3. Op("take", b.on) = a BY <2>1
  <2> HIDE DEF a, b
  <2>4. ops \in Seq(Ops) /\ Range(ops) = {a, b} BY <2>1, ShortLists
  <2>5. CreateLast(ops) BY <2>1 DEF CreateLast
  <2>6. g \in Workers /\ g \notin Callbacks BY WorkerKinds
  <2> HIDE DEF ops
  <2> QED BY <1>0, <1>1, <2>1, <2>2, <2>3, <2>4, <2>5, <2>6, BeginStep
<1> QED BY <1>3, <1>4, <1>5 DEF HandleSignal

(* A connection takes over the client ID of another one: what it had under *)
(* its own ID, which is nothing, needs no other connection of that ID.     *)
LEMMA ResumeStep ==
    ASSUME IInv, NEW g \in Readers, NEW i \in Readers, Resume(g, i)
    PROVE  IInv'
<1>0. /\ PeersInv /\ TypeOK /\ CandidatesAreUsed /\ OnlyMadeIsKnown /\ JoinIsOwn
      /\ CallbackIsLate /\ NoForgottenPeer /\ NoPeerAfterClose
      /\ UNCHANGED <<peers, pc, closed, overwritten, todo>>
      /\ id[g] = g /\ todo[g] = <<>> /\ peers[g] = Nil
      /\ \A x \in PCs : pc[x].id # g
  BY DEF IInv, PeersInv, Resume
<1>1. id' \in [Readers -> Readers] /\ \A h \in Readers : h # g => id'[h] = id[h]
  BY <1>0 DEF TypeOK, Resume
<1>2. \A k : k # g /\ Twins(k) => Twins(k)'
  <2> SUFFICES ASSUME NEW k, k # g, NEW a \in Readers, NEW b \in Readers,
                      a # b, id[a] = k, id[b] = k
               PROVE  Twins(k)'
    BY DEF Twins
  <2>1. a # g /\ b # g BY <1>0
  <2> QED BY <1>1, <2>1 DEF Twins
<1>3. TypeOK' BY <1>0, <1>1 DEF TypeOK
<1>4. CandidatesAreUsed' BY <1>0 DEF CandidatesAreUsed
<1>5. OnlyMadeIsKnown'
  <2>1. Free' = Free BY DEF Free
  <2> QED BY <1>0, <2>1 DEF OnlyMadeIsKnown
<1>6. JoinIsOwn'
  <2>1. \A v \in Workers : CreateLast(todo'[v]) BY <1>0 DEF JoinIsOwn, CreateLast
  <2>2. ASSUME NEW v \in Workers, NEW o \in Range(todo'[v]), o.op = "create"
        PROVE  /\ v \in Readers /\ id'[v] = o.on
               /\ Op("take", o.on) \in Range(todo'[v]) \/ peers'[o.on] = Nil \/ Twins(o.on)'
    <3>1. o \in Range(todo[v]) BY <1>0, <2>2
    <3>2. /\ v \in Readers /\ id[v] = o.on
          /\ Op("take", o.on) \in Range(todo[v]) \/ peers[o.on] = Nil \/ Twins(o.on)
      BY <1>0, <2>2, <3>1, TodoFacts
    <3>3. v # g BY <1>0, <3>1, ShortLists
    <3> QED BY <1>0, <1>1, <1>2, <3>2, <3>3
  <2> QED BY <2>1, <2>2 DEF JoinIsOwn, CreateLast
<1>7. CallbackIsLate' BY <1>0, SameCallbacks
<1>8. NoForgottenPeer'
  <2>1. ASSUME NEW x \in PCs, Alive(x)'
        PROVE  peers'[pc'[x].id] = x \/ BeingClosed(x)' \/ x \in overwritten'
    BY <1>0, <2>1 DEF NoForgottenPeer, Alive, BeingClosed
  <2>2. ASSUME NEW x \in overwritten' PROVE Twins(pc[x].id)'
    <3>1. x \in PCs /\ Twins(pc[x].id) /\ pc[x].id # g BY <1>0, <2>2 DEF TypeOK, NoForgottenPeer
    <3>2. Twins(pc[x].id)' BY <1>0, <1>2, <3>1 DEF Twins
    <3> QED BY <3>2
  <2> QED BY <2>1, <2>2 DEF NoForgottenPeer
<1>9. NoPeerAfterClose' BY <1>0 DEF NoPeerAfterClose
<1> QED BY <1>3, <1>4, <1>5, <1>6, <1>7, <1>8, <1>9 DEF IInv, PeersInv

(* A set in some order.                                                    *)
LEMMA OrderedSet ==
    ASSUME NEW S, IsFiniteSet(S), NEW f \in SetToSeqs(S)
    PROVE  f \in Seq(S) /\ Range(f) = S
<1> DEFINE n == Cardinality(S)
<1>1. n \in Nat BY FS_CardinalityType
<1>2. f \in [1..n -> S] /\ \A i, j \in 1..n : i # j => f[i] # f[j] BY DEF SetToSeqs
<1>3. IsFiniteSet(1..n) /\ Cardinality(1..n) = n
  <2> HIDE DEF n
  <2>1. Cardinality(1..n) = IF 1 > n THEN 0 ELSE n - 1 + 1 BY <1>1, FS_Interval
  <2> QED BY <1>1, <2>1, FS_Interval
<1> HIDE DEF n
<1>4. f \in Injection(1..n, S) BY <1>2 DEF Injection, IsInjective
<1>5. f \in Surjection(1..n, S) BY <1>3, <1>4, FS_Injection DEF n
<1>6. Range(f) = S BY <1>2, <1>5 DEF Surjection, Range
<1>7. f \in Seq(S) BY <1>1, <1>2, SeqDef
<1> QED BY <1>6, <1>7

(* The end of the room.                                                    *)
LEMMA EndStep == IInv /\ Close => IInv'
<1> SUFFICES ASSUME IInv, Close PROVE IInv'
  OBVIOUS
<1>0. PeersInv /\ TypeOK /\ OnlyMadeIsKnown BY DEF IInv, PeersInv
<1> DEFINE X == Range(peers) \ {Nil}
           S == {Op("close", x) : x \in X}
<1>1. X \subseteq PCs /\ IsFiniteSet(X)
  <2>1. X \subseteq PCs BY <1>0 DEF TypeOK, Range
  <2> QED BY <2>1, FS_Subset
<1>2. IsFiniteSet(S)
  <2> DEFINE f == [x \in X |-> Op("close", x)]
  <2> HIDE DEF X
  <2>1. f \in Surjection(X, S) BY DEF Surjection
  <2> HIDE DEF f
  <2> QED BY <1>1, <2>1, FS_Surjection
<1>3. PICK ops \in SetToSeqs(S) : Begin(Closer, ops) BY DEF Close
<1>4. ASSUME NEW o \in S
      PROVE  o \in Ops /\ o.op = "close" /\ o.on \in PCs /\ pc[o.on].st # "free"
  <2>1. PICK x \in X : o = Op("close", x) BY <1>4
  <2>2. x \in PCs BY <1>1
  <2>3. o \in Ops /\ o.op = "close" /\ o.on = x BY <2>1, <2>2, OpFields
  <2>4. PICK i \in Readers : peers[i] = x BY <1>0 DEF TypeOK, Range
  <2>5. pc[x].id = i BY <1>0, <2>4 DEF OnlyMadeIsKnown
  <2>6. pc[x].st # "free" BY <1>0, <2>2, <2>4, <2>5 DEF OnlyMadeIsKnown, Free
  <2> QED BY <2>2, <2>3, <2>6
<1>5. ASSUME NEW i \in Readers, peers[i] # Nil PROVE Op("close", peers[i]) \in S
  BY <1>0, <1>5 DEF TypeOK, Range
<1> HIDE DEF S, X
<1>6. ops \in Seq(S) /\ Range(ops) = S BY <1>2, OrderedSet
<1>7. ops \in Seq(Ops)
  <2>1. ops \in [1..Len(ops) -> S] /\ Len(ops) \in Nat BY <1>6, LenProperties
  <2>2. ops \in [1..Len(ops) -> Ops] BY <1>4, <2>1
  <2> QED BY <2>1, <2>2, SeqDef
<1>8. CreateLast(ops)
  <2> SUFFICES ASSUME NEW n \in DOMAIN ops PROVE ops[n].op # "create"
    BY DEF CreateLast
  <2>1. ops[n] \in S BY <1>6 DEF Range
  <2> QED BY <1>4, <2>1
<1>9. Closer \in Workers /\ Closer \notin Callbacks BY WorkerKinds
<1>10. /\ peers' = [i \in Readers |-> Nil] /\ closed' = TRUE
       /\ UNCHANGED <<id, pc, overwritten>>
  BY DEF Close
<1>11. \A i \in Readers : peers[i] # Nil => Op("close", peers[i]) \in Range(ops)
  BY <1>5, <1>6
<1>12. \A o \in Range(ops) :
             /\ o.op \notin {"flush", "add"}
             /\ o.op = "create" => Closer \in Readers /\ id[Closer] = o.on
                                     /\ Op("take", o.on) \in Range(ops)
             /\ o \in PeerOps => pc[o.on].st # "free"
  BY <1>4, <1>6
<1>13. \A i \in Readers :
             \/ peers'[i] = peers[i]
             \/ peers'[i] = Nil /\ (peers[i] # Nil => Op("close", peers[i]) \in Range(ops))
  BY <1>10, <1>11
<1>14. /\ peers' \in [Readers -> PCs \cup {Nil}] /\ closed' \in BOOLEAN
       /\ closed' => \A i \in Readers : peers'[i] = Nil
  BY <1>10
<1> QED BY <1>3, <1>7, <1>8, <1>9, <1>10, <1>12, <1>13, <1>14, BeginStep

(* A connection fails: its callback has not run before.                    *)
LEMMA FailStep ==
    ASSUME IInv, NEW x \in PCs, Fail(x)
    PROVE  IInv'
<1>0. /\ PeersInv /\ TypeOK /\ todo \in [Workers -> Seq(Ops)]
      /\ CandidatesAreUsed /\ OnlyMadeIsKnown /\ JoinIsOwn /\ CallbackIsLate
      /\ NoForgottenPeer /\ NoPeerAfterClose
      /\ UNCHANGED <<id, peers, closed, overwritten>> /\ pc[x].st = "open"
  BY DEF IInv, PeersInv, TypeOK, Fail
<1>1. pc[x] \in States /\ pc[x].id \in Readers
  BY <1>0 DEF TypeOK, OnlyMadeIsKnown, States
<1> DEFINE y == [pc[x] EXCEPT !.st = "failed"]
           c == <<x, "failed">>
           k == Op("take", pc[x].id)
<1>2. y \in States
  <2>1. 0 \in 0..MaxCandidates OBVIOUS
  <2> QED BY <1>1, <2>1, FlagTypes, Zenon
<1>3. /\ y.st = "failed" /\ y.id = pc[x].id /\ y.remote = pc[x].remote
      /\ y.remoteSet = pc[x].remoteSet /\ y.pending = pc[x].pending
  BY <1>1 DEF States
<1>4. pc' = [pc EXCEPT ![x] = y] BY DEF Fail
<1> HIDE DEF y
<1>5. /\ pc' \in [PCs -> States]
      /\ pc'[x] = y /\ \A z \in PCs : z # x => pc'[z] = pc[z]
      /\ \A z \in PCs : /\ pc'[z].id = pc[z].id /\ pc'[z].remote = pc[z].remote
                        /\ pc'[z].remoteSet = pc[z].remoteSet
                        /\ pc'[z].pending = pc[z].pending
                        /\ pc[z].st # "free" => pc'[z].st # "free"
                        /\ pc'[z].st = "free" => pc'[z] = pc[z]
  BY <1>0, <1>2, <1>3, <1>4 DEF TypeOK
<1>6. k \in Ops /\ k \notin PeerOps /\ k.op = "take" /\ <<k>> \in Seq(Ops) /\ Range(<<k>>) = {k}
  <2>1. k \in Ops /\ k \notin PeerOps /\ k.op = "take" BY <1>1, OpFields
  <2> HIDE DEF k
  <2> QED BY <2>1, ShortLists
<1>7. c \in Workers /\ todo[c] = <<>> /\ todo' = [todo EXCEPT ![c] = <<k>>]
  BY WorkerKinds DEF Fail, Begin, StateChange
<1> HIDE DEF c, k
<1>8. /\ todo' \in [Workers -> Seq(Ops)] /\ todo'[c] = <<k>>
      /\ \A v \in Workers : v # c => todo'[v] = todo[v]
  BY <1>0, <1>6, <1>7
<1>9. ASSUME NEW v \in Workers, NEW o \in Range(todo'[v])
      PROVE  (v = c /\ o = k) \/ (v # c /\ o \in Range(todo[v]))
  BY <1>6, <1>8, <1>9
<1>10. ASSUME NEW v \in Workers, NEW o \in Range(todo[v]) PROVE o \in Range(todo'[v])
  BY <1>7, <1>8, <1>10, ShortLists
<1>11. TypeOK' BY <1>0, <1>5, <1>8 DEF TypeOK
<1>12. CandidatesAreUsed'
  <2>1. ASSUME NEW v \in Workers, NEW o \in Range(todo'[v]), o.op \in {"flush", "add"}
        PROVE  pc'[o.on].remote
    <3>1. o \in Range(todo[v]) BY <1>6, <1>9, <2>1
    <3>2. o \in Ops /\ pc[o.on].remote BY <1>0, <2>1, <3>1, TodoFacts
    <3>3. o.on \in PCs BY <2>1, <3>2, OpFields
    <3> QED BY <1>5, <3>2, <3>3
  <2> QED BY <1>0, <1>5, <2>1 DEF CandidatesAreUsed
<1>13. OnlyMadeIsKnown'
  <2>1. ASSUME NEW v \in Workers, NEW o \in Range(todo'[v]), o \in PeerOps
        PROVE  pc'[o.on].st # "free"
    <3>1. o \in Range(todo[v]) BY <1>6, <1>9, <2>1
    <3>2. pc[o.on].st # "free" BY <1>0, <2>1, <3>1, TodoFacts
    <3>3. o.on \in PCs BY <2>1 DEF PeerOps
    <3> QED BY <1>5, <3>2, <3>3
  <2>2. \A i \in Readers : peers'[i] # Nil => pc'[peers'[i]].id = i
    <3> SUFFICES ASSUME NEW i \in Readers, peers[i] # Nil PROVE pc'[peers[i]].id = i
      BY <1>0
    <3>1. peers[i] \in PCs /\ pc[peers[i]].id = i BY <1>0 DEF TypeOK, OnlyMadeIsKnown
    <3> QED BY <1>5, <3>1
  <2>3. \A z \in overwritten' : pc'[z].st # "free"
    BY <1>0, <1>5 DEF TypeOK, OnlyMadeIsKnown
  <2>4. \A z \in PCs : /\ pc'[z].st = "free" => pc'[z] = Free
                       /\ pc'[z].st # "free" => pc'[z].id # Nil
    BY <1>0, <1>1, <1>3, <1>5 DEF OnlyMadeIsKnown
  <2> QED BY <2>1, <2>2, <2>3, <2>4, KnownAfter
<1>14. JoinIsOwn'
  <2>1. ASSUME NEW v \in Workers PROVE CreateLast(todo'[v])
    <3>1. CASE v = c BY <1>6, <1>8, <3>1 DEF CreateLast
    <3>2. CASE v # c BY <1>0, <1>8, <2>1, <3>2 DEF JoinIsOwn, CreateLast
    <3> QED BY <3>1, <3>2
  <2>2. ASSUME NEW v \in Workers, NEW o \in Range(todo'[v]), o.op = "create"
        PROVE  /\ v \in Readers /\ id'[v] = o.on
               /\ Op("take", o.on) \in Range(todo'[v]) \/ peers'[o.on] = Nil \/ Twins(o.on)'
    <3>1. o \in Range(todo[v]) BY <1>6, <1>9, <2>2
    <3>2. /\ v \in Readers /\ id[v] = o.on
          /\ Op("take", o.on) \in Range(todo[v]) \/ peers[o.on] = Nil \/ Twins(o.on)
      BY <1>0, <2>2, <3>1, TodoFacts
    <3>3. Twins(o.on) => Twins(o.on)' BY <1>0 DEF Twins
    <3> QED BY <1>0, <1>10, <2>2, <3>2, <3>3
  <2> QED BY <2>1, <2>2 DEF JoinIsOwn, CreateLast
<1>15. CallbackIsLate'
  <2>1. ASSUME NEW z \in PCs, NEW t \in {"failed", "closed"}
        PROVE  /\ (z # x \/ t # "failed") => todo'[<<z, t>>] = todo[<<z, t>>]
               /\ \A o \in Range(todo'[<<z, t>>]) : o.op = "close" \/ o = Op("take", pc[z].id)
    <3> DEFINE v == <<z, t>>
    <3>1. v \in Workers BY WorkerKinds
    <3>2. v = c => z = x /\ t = "failed" BY DEF c
    <3>3. \A o \in Range(todo[v]) : o.op = "close" \/ o = Op("take", pc[z].id)
      BY <1>0, <2>1 DEF CallbackIsLate
    <3> HIDE DEF v
    <3>4. (z # x \/ t # "failed") => todo'[v] = todo[v] BY <1>8, <3>1, <3>2
    <3>5. \A o \in Range(todo'[v]) : o.op = "close" \/ o = Op("take", pc[z].id)
      <4> SUFFICES ASSUME NEW o \in Range(todo'[v])
                   PROVE  o.op = "close" \/ o = Op("take", pc[z].id)
        OBVIOUS
      <4>1. o \in Range(todo[v]) \/ (v = c /\ o = k) BY <1>9, <3>1
      <4> QED BY <3>2, <3>3, <4>1 DEF k
    <3> QED BY <3>4, <3>5 DEF v
  <2>2. ASSUME NEW z \in PCs PROVE
          /\ pc'[z].st # "closed" => todo'[<<z, "closed">>] = <<>>
          /\ pc'[z].st \in {"free", "open"} => todo'[<<z, "failed">>] = <<>>
          /\ \A t \in {"failed", "closed"} : \A o \in Range(todo'[<<z, t>>]) :
               o.op = "close" \/ o = Op("take", pc'[z].id)
    <3>1. pc'[z].id = pc[z].id BY <1>5, <2>2
    <3>2. /\ pc'[z].st # "closed" => pc[z].st # "closed"
          /\ pc'[z].st \in {"free", "open"} => pc[z].st \in {"free", "open"} /\ z # x
      BY <1>0, <1>3, <1>5, <2>2
    <3>3. /\ pc[z].st # "closed" => todo[<<z, "closed">>] = <<>>
          /\ pc[z].st \in {"free", "open"} => todo[<<z, "failed">>] = <<>>
      BY <1>0, <2>2 DEF CallbackIsLate
    <3>4. pc'[z].st # "closed" => todo'[<<z, "closed">>] = <<>>
      BY <2>1, <2>2, <3>2, <3>3
    <3>5. pc'[z].st \in {"free", "open"} => todo'[<<z, "failed">>] = <<>>
      BY <2>1, <2>2, <3>2, <3>3
    <3>6. \A t \in {"failed", "closed"} : \A o \in Range(todo'[<<z, t>>]) :
               o.op = "close" \/ o = Op("take", pc'[z].id)
      BY <2>1, <2>2, <3>1
    <3> QED BY <3>4, <3>5, <3>6
  <2> QED BY <2>2, Zenon DEF CallbackIsLate
<1>16. NoForgottenPeer'
  <2>1. \A z \in PCs : BeingClosed(z) => BeingClosed(z)' BY <1>10 DEF BeingClosed
  <2>2. ASSUME NEW z \in PCs, Alive(z)'
        PROVE  peers'[pc'[z].id] = z \/ BeingClosed(z)' \/ z \in overwritten'
    <3>1. Alive(z) BY <1>0, <1>5, <2>2 DEF Alive
    <3> QED BY <1>0, <1>5, <2>1, <3>1 DEF NoForgottenPeer
  <2>3. ASSUME NEW z \in overwritten' PROVE Twins(pc[z].id)'
    <3>1. z \in PCs /\ z \in overwritten BY <1>0, <2>3 DEF TypeOK
    <3>2. Twins(pc[z].id) BY <1>0, <3>1 DEF NoForgottenPeer
    <3> QED BY <1>0, <1>5, <3>1, <3>2 DEF Twins
  <2> QED BY <2>2, <2>3 DEF NoForgottenPeer
<1>17. NoPeerAfterClose' BY <1>0 DEF NoPeerAfterClose
<1> QED BY <1>11, <1>12, <1>13, <1>14, <1>15, <1>16, <1>17 DEF IInv, PeersInv

-----------------------------------------------------------------------------
(* THE THEOREMS                                                            *)

LEMMA WorkStep ==
    ASSUME IInv, NEW w \in Workers, Work(w)
    PROVE  IInv'
<1> DEFINE o == Head(todo[w]).op
           x == Head(todo[w]).on
<1>0. todo[w] # <<>> BY DEF Work
<1>1. CASE o = "take" /\ removePeer(w, x) BY <1>0, <1>1, RemoveStep
<1>2. CASE o = "close" /\ ClosePC(w, x) BY <1>0, <1>2, CloseStep
<1>3. CASE o = "create" /\ addPeer(w, x)
  <2> HIDE DEF o, x
  <2>1. CASE CreateFails(w, x) BY <1>0, <1>3, <2>1, QuietWork DEF o, x
  <2>2. CASE ~CreateFails(w, x)
    <3>1. ~closed /\ UNCHANGED <<id, closed>> BY <1>3, <2>2 DEF addPeer, MayAdd
    <3>2. PICK y \in PCs :
            /\ pc[y].st = "free" /\ pc' = [pc EXCEPT ![y] = [Free EXCEPT !.st = "open", !.id = x]]
            /\ \/ /\ peers' = [peers EXCEPT ![x] = y]
                  /\ overwritten' = overwritten \cup ({peers[x]} \ {Nil})
                  /\ Pop(w, <<Op("handlers", y), Op("offer", y)>>)
               \/ Pop(w, <<Op("close", y)>>) /\ UNCHANGED <<peers, overwritten>>
      BY <1>3, <2>2 DEF addPeer
    <3>3. Head(todo[w]).op = "create" /\ x = Head(todo[w]).on BY <1>3 DEF o, x
    <3> HIDE DEF o, x
    <3>4. CASE /\ peers' = [peers EXCEPT ![x] = y]
               /\ overwritten' = overwritten \cup ({peers[x]} \ {Nil})
               /\ Pop(w, <<Op("handlers", y), Op("offer", y)>>)
      BY <1>0, <3>1, <3>2, <3>3, <3>4, CreateStep, Zenon
    <3>5. CASE Pop(w, <<Op("close", y)>>) /\ UNCHANGED <<peers, overwritten>>
      BY <1>0, <3>1, <3>2, <3>3, <3>5, CreateStep, Zenon
    <3> QED BY <3>2, <3>4, <3>5
  <2> QED BY <2>1, <2>2
<1>4. CASE \/ o = "handlers" /\ SetHandlers(w, x)
           \/ o = "offer" /\ Offer(w, x)
           \/ o \in {"answer", "ice"} /\ FindPeer(w, o, x)
           \/ o = "remote" /\ SetRemoteDescription(w, x)
           \/ o = "flush" /\ Flush(w, x)
           \/ o = "buffer" /\ onRemoteICE(w, x)
           \/ o = "add" /\ AddICECandidate(w, x)
  <2> HIDE DEF o, x
  <2> QED BY <1>0, <1>4, QuietWork DEF o, x
<1> QED BY <1>1, <1>2, <1>3, <1>4 DEF Work

LEMMA PeersStep == IInv /\ [Next]_vars => IInv'
<1> SUFFICES ASSUME IInv, [Next]_vars PROVE IInv'
  OBVIOUS
<1>1. CASE \E g, i \in Readers : Resume(g, i) BY <1>1, ResumeStep
<1>2. CASE \E g \in Readers : HandleSignal(g) \/ RemovePeer(g) BY <1>2, RequestStep
<1>3. CASE \E x \in PCs : Fail(x) BY <1>3, FailStep
<1>4. CASE \E w \in Workers : Work(w) BY <1>4, WorkStep
<1>5. CASE Close BY <1>5, EndStep
<1>6. CASE UNCHANGED vars
  <2>1. Free' = Free BY DEF Free
  <2>2. UNCHANGED <<id, peers, pc, closed, overwritten, todo>> BY <1>6 DEF vars
  <2>3. PeersInv'
    BY <2>1, <2>2 DEF IInv, PeersInv, TypeOK, CandidatesAreUsed, OnlyMadeIsKnown,
                      JoinIsOwn, CallbackIsLate, Twins
  <2>4. NoForgottenPeer'
    BY <2>2 DEF IInv, NoForgottenPeer, Alive, BeingClosed, Twins
  <2>5. NoPeerAfterClose' BY <2>2 DEF IInv, NoPeerAfterClose
  <2> QED BY <2>3, <2>4, <2>5 DEF IInv
<1> QED BY <1>1, <1>2, <1>3, <1>4, <1>5, <1>6 DEF Next

LEMMA PeersInit == Init => IInv
<1> SUFFICES ASSUME Init PROVE IInv
  OBVIOUS
<1>1. \A w \in Workers : todo[w] = <<>> /\ Range(todo[w]) = {}
  BY ShortLists DEF Init
<1>2. Free \in States
  <2>1. 0 \in 0..MaxCandidates /\ Nil \in Readers \cup {Nil} OBVIOUS
  <2> QED BY <2>1, Zenon DEF Free, States
<1>3. TypeOK
  <2>1. <<>> \in Seq(Ops) BY ShortLists
  <2> QED BY <1>2, <2>1 DEF Init, TypeOK
<1>4. \A x \in PCs : pc[x] = Free BY DEF Init
<1>5. CandidatesAreUsed BY <1>1, <1>4 DEF CandidatesAreUsed, Free
<1>6. OnlyMadeIsKnown
  <2>1. Free.st = "free" BY DEF Free
  <2>2. \A i \in Readers : peers[i] = Nil BY DEF Init
  <2>3. overwritten = {} BY DEF Init
  <2> QED BY <1>1, <1>4, <2>1, <2>2, <2>3 DEF OnlyMadeIsKnown
<1>7. JoinIsOwn
  <2> SUFFICES ASSUME NEW w \in Workers, NEW n \in DOMAIN todo[w] PROVE FALSE
    BY <1>1 DEF JoinIsOwn
  <2> QED BY <1>1 DEF Range
<1>8. CallbackIsLate
  <2>1. ASSUME NEW x \in PCs, NEW s \in {"failed", "closed"}
        PROVE  todo[<<x, s>>] = <<>> /\ Range(todo[<<x, s>>]) = {}
    <3> DEFINE v == <<x, s>>
    <3>1. v \in Workers BY WorkerKinds
    <3> HIDE DEF v
    <3>2. todo[v] = <<>> /\ Range(todo[v]) = {} BY <1>1, <3>1
    <3> QED BY <3>2 DEF v
  <2>2. \A x \in PCs : todo[<<x, "closed">>] = <<>> /\ todo[<<x, "failed">>] = <<>>
    BY <2>1, Zenon
  <2>3. \A x \in PCs : \A s \in {"failed", "closed"} : \A o \in Range(todo[<<x, s>>]) :
           o.op = "close" \/ o = Op("take", pc[x].id)
    BY <2>1
  <2> QED BY <2>2, <2>3, Zenon DEF CallbackIsLate
<1>9. NoForgottenPeer BY <1>4 DEF Init, NoForgottenPeer, Alive, Free
<1>10. NoPeerAfterClose BY DEF Init, NoPeerAfterClose
<1> QED BY <1>3, <1>5, <1>6, <1>7, <1>8, <1>9, <1>10 DEF IInv, PeersInv

(* The invariant holds in every reachable state, whatever the goroutines   *)
(* of the broadcaster, the room and the WebRTC library do between the      *)
(* critical sections of internal/rtc/broadcaster.go.                       *)
THEOREM PeersInductive == Spec => []IInv
<1>1. Init => IInv BY PeersInit
<1>2. IInv /\ [Next]_vars => IInv' BY PeersStep
<1> QED BY <1>1, <1>2, PTL DEF Spec

(* An entry of b.peers is a connection of that client, candidates wait     *)
(* until the remote description is set and not longer, a join acts for the *)
(* ID of its connection, and a callback is one of a connection that ended. *)
THEOREM PeersSafe == Spec => []PeersInv
<1>1. IInv => PeersInv BY DEF IInv
<1> QED BY <1>1, PeersInductive, PTL

(* addPeer, removePeer, Close and the callbacks forget no connection that  *)
(* is not closed, except where two connections of one client joined.       *)
THEOREM NoPeerIsForgotten == Spec => []NoForgottenPeer
<1>1. IInv => NoForgottenPeer BY DEF IInv
<1> QED BY <1>1, PeersInductive, PTL

(* A join that Close overtook brings no peer back.                         *)
THEOREM ClosedIsEmpty == Spec => []NoPeerAfterClose
<1>1. IInv => NoPeerAfterClose BY DEF IInv
<1> QED BY <1>1, PeersInductive, PTL

(* Two different connections of a client are more than one.                *)
LEMMA MoreThanOne ==
    ASSUME NEW i, NEW x \in PCs, NEW y \in PCs, x # y, pc[x].id = i, pc[y].id = i
    PROVE  Cardinality({z \in PCs : pc[z].id = i}) > 1
<1> DEFINE S == {z \in PCs : pc[z].id = i}
<1>1. S \subseteq PCs /\ x \in S /\ y \in S OBVIOUS
<1> HIDE DEF S
<1>2. IsFiniteSet(S) BY <1>1, FS_Subset
<1>3. Cardinality(S) \in Nat BY <1>2, FS_CardinalityType
<1>4. Cardinality(S) # 0 BY <1>1, <1>2, FS_EmptySet
<1>5. Cardinality(S) # 1
  <2> SUFFICES ASSUME Cardinality(S) = 1 PROVE FALSE OBVIOUS
  <2>1. PICK z : S = {z} BY <1>2, FS_Singleton
  <2> QED BY <1>1, <2>1
<1> QED BY <1>3, <1>4, <1>5 DEF S

(* The callback that takes a client's healthy peer away is one of an       *)
(* earlier connection of the client.                                       *)
LEMMA CallbackTakes ==
    ASSUME IInv, Next, NEW i \in Readers, peers[i] # Nil, peers'[i] = Nil,
           pc[peers[i]].st = "open", NEW w \in Callbacks, todo[w] # <<>>, todo'[w] # todo[w]
    PROVE  Cardinality({x \in PCs : pc[x].id = i}) > 1
<1>0. PeersInv /\ TypeOK /\ OnlyMadeIsKnown /\ CallbackIsLate /\ todo \in [Workers -> Seq(Ops)]
  BY DEF IInv, PeersInv, TypeOK
<1>a. w \in Workers BY DEF Workers
<1>1. CASE \E g, j \in Readers : Resume(g, j) BY <1>1 DEF Resume
<1>2. CASE \E g \in Readers : HandleSignal(g) \/ RemovePeer(g)
  BY <1>2 DEF HandleSignal, RemovePeer
<1>3. CASE \E x \in PCs : Fail(x) BY <1>3 DEF Fail
<1>4. CASE Close
  <2>1. PICK ops : Begin(Closer, ops) BY <1>4 DEF Close
  <2>2. w # Closer BY WorkerKinds
  <2> QED BY <1>0, <1>a, <2>1, <2>2 DEF Begin
<1>5. ASSUME NEW v \in Workers, Work(v)
      PROVE  Cardinality({x \in PCs : pc[x].id = i}) > 1
  <2> DEFINE h == Head(todo[v])
  <2>1. todo[v] # <<>> BY <1>5 DEF Work
  <2>2. h \in Range(todo[v]) /\ h \in Ops
    <3>1. todo[v] \in Seq(Ops) BY <1>0
    <3> QED BY <2>1, <3>1, RangeOfPopped, EmptySeq
  <2>3. h.op = "take" /\ removePeer(v, h.on)
    <3>1. CASE h.op = "create" /\ addPeer(v, h.on)
      <4>1. h.on \in Readers BY <2>2, <3>1, OpFields
      <4> QED BY <1>0, <3>1, <4>1 DEF addPeer, CreateFails, TypeOK
    <3>2. peers' # peers OBVIOUS
    <3>3. /\ \A x : ClosePC(v, x) => UNCHANGED peers
          /\ \A x : SetHandlers(v, x) => UNCHANGED peers
          /\ \A x : Offer(v, x) => UNCHANGED peers
          /\ \A o, x : FindPeer(v, o, x) => UNCHANGED peers
          /\ \A x : SetRemoteDescription(v, x) => UNCHANGED peers
          /\ \A x : Flush(v, x) => UNCHANGED peers
          /\ \A x : onRemoteICE(v, x) => UNCHANGED peers
          /\ \A x : AddICECandidate(v, x) => UNCHANGED peers
      BY DEF ClosePC, SetHandlers, Offer, FindPeer, SetRemoteDescription, Flush,
             onRemoteICE, AddICECandidate
    <3> QED BY <1>5, <3>1, <3>2, <3>3, Zenon DEF Work
  <2>4. v = w
    <3>1. v # w => todo'[w] = todo[w] BY <1>0, <1>a, <2>3 DEF removePeer, Pop
    <3> QED BY <3>1
  <2>5. PICK x \in PCs, s \in {"failed", "closed"} : w = <<x, s>> BY WorkerKinds
  <2>6. h.on = pc[x].id
    <3>1. h.op = "close" \/ h = Op("take", pc[x].id)
      BY <1>0, <2>2, <2>4, <2>5 DEF CallbackIsLate
    <3> QED BY <2>3, <3>1, OpFields
  <2>7. h.on = i
    <3>1. h.on \in Readers BY <2>2, <2>3, OpFields
    <3> QED BY <1>0, <2>3, <3>1 DEF removePeer, TypeOK
  <2>8. pc[x].st # "open"
    <3>1. todo[<<x, s>>] # <<>> BY <2>5
    <3> QED BY <1>0, <3>1 DEF CallbackIsLate
  <2>9. peers[i] \in PCs /\ pc[peers[i]].id = i BY <1>0 DEF TypeOK, OnlyMadeIsKnown
  <2>10. peers[i] # x BY <2>8
  <2> HIDE DEF h
  <2> QED BY <2>6, <2>7, <2>9, <2>10, MoreThanOne
<1> QED BY <1>1, <1>2, <1>3, <1>4, <1>5 DEF Next

(* A client that joined once keeps its peer, whatever callbacks are late.  *)
THEOREM CallbackSparesFirst == Spec => FirstPeerIsKept
<1> DEFINE Spared(i) ==
      /\ peers[i] # Nil /\ peers'[i] = Nil /\ pc[peers[i]].st = "open"
      /\ \E w \in Callbacks : todo[w] # <<>> /\ todo'[w] # todo[w]
      => Cardinality({x \in PCs : pc[x].id = i}) > 1
<1>1. IInv /\ [Next]_vars => [\A i \in Readers : Spared(i)]_vars
  BY CallbackTakes
<1>2. Spec => []IInv BY PeersInductive
<1> QED BY <1>1, <1>2, PTL DEF Spec, FirstPeerIsKept
=============================================================================
