--------------------------- MODULE PlaybackProofs ---------------------------
(***************************************************************************)
(* Playback for every set of clients and tracks, every length, deadline    *)
(* and buffer and every bound: its invariants hold in every state.         *)
(***************************************************************************)
EXTENDS Playback, SequenceTheorems, TLAPS

(* What the operations on room.queue do to a queue without duplicates.      *)

(* A queue of tracks of T in which no track comes twice.                   *)
Proper(q, T) == q \in Queues(T) /\ NoDuplicates(q)

(* The elements of a queue.                                                *)
LEMMA QueueElements ==
    ASSUME NEW T, NEW q \in Queues(T)
    PROVE  /\ Len(q) \in Nat /\ DOMAIN q = 1..Len(q)
           /\ \A n \in 1..Len(q) : q[n] \in [id : T, status : Statuses]
BY LenProperties, ElementOfSeq DEF Queues

(* The empty queue.                                                        *)
LEMMA EmptyQueue ==
    ASSUME NEW T
    PROVE  /\ Proper(<<>>, T) /\ ~SomeReady(<<>>)
           /\ \A t : ~Has(<<>>, t)
BY EmptySeq DEF Proper, Queues, NoDuplicates, SomeReady, Has

(* In a queue without duplicates IndexOf finds the one entry of a track.   *)
LEMMA IndexOfProperties ==
    ASSUME NEW T, NEW q, Proper(q, T), NEW t, Has(q, t)
    PROVE  /\ IndexOf(q, t) \in 1..Len(q)
           /\ q[IndexOf(q, t)].id = t
           /\ \A n \in 1..Len(q) : q[n].id = t => n = IndexOf(q, t)
<1>1. Len(q) \in Nat /\ DOMAIN q = 1..Len(q)
  BY QueueElements DEF Proper
<1>2. PICK n \in DOMAIN q : q[n].id = t
  BY DEF Has
<1>3. \A m \in 1..(n-1) : q[m].id # t
  BY <1>1, <1>2 DEF Proper, NoDuplicates
<1>4. /\ IndexOf(q, t) \in DOMAIN q
      /\ q[IndexOf(q, t)].id = t
  BY <1>2, <1>3 DEF IndexOf
<1> QED BY <1>1, <1>4 DEF Proper, NoDuplicates

(* UpsertTrack keeps every other track and has the one it was given.       *)
LEMMA PutProperties ==
    ASSUME NEW T, NEW q, Proper(q, T), NEW t \in T, NEW st \in Statuses
    PROVE  /\ Proper(Put(q, t, st), T)
           /\ \A u : Has(Put(q, t, st), u) <=> Has(q, u) \/ u = t
<1> DEFINE e == Entry(t, st)
<1>1. e \in [id : T, status : Statuses] /\ e.id = t
  BY DEF Entry
<1>2. Len(q) \in Nat /\ DOMAIN q = 1..Len(q) /\ q \in Seq([id : T, status : Statuses])
  BY QueueElements DEF Proper, Queues
<1> HIDE DEF e
<1>3. CASE Has(q, t)
  <2> DEFINE i == IndexOf(q, t)
  <2>1. i \in 1..Len(q) /\ q[i].id = t /\ \A n \in 1..Len(q) : q[n].id = t => n = i
    BY <1>3, IndexOfProperties
  <2> HIDE DEF i
  <2> DEFINE r == [q EXCEPT ![i] = e]
  <2>2. Put(q, t, st) = r
    BY <1>1, <1>3 DEF Put, Upsert, e, i
  <2>3. /\ r \in Seq([id : T, status : Statuses]) /\ Len(r) = Len(q)
        /\ \A j \in 1..Len(q) : r[j] = IF j = i THEN e ELSE q[j]
    BY <1>1, <1>2, <2>1, ExceptSeq
  <2>4. DOMAIN r = 1..Len(q)
    BY <1>2
  <2> HIDE DEF r
  <2>5. \A j \in 1..Len(q) : r[j].id = q[j].id
    BY <1>1, <2>1, <2>3
  <2>6. NoDuplicates(r)
    BY <1>2, <2>4, <2>5 DEF Proper, NoDuplicates
  <2>7. \A u : Has(r, u) <=> Has(q, u) \/ u = t
    BY <1>2, <1>3, <2>4, <2>5 DEF Has
  <2> QED BY <2>2, <2>3, <2>6, <2>7 DEF Proper, Queues
<1>4. CASE ~Has(q, t)
  <2> DEFINE r == Append(q, e)
  <2>1. Put(q, t, st) = r
    BY <1>1, <1>4 DEF Put, Upsert, e
  <2>2. /\ r \in Seq([id : T, status : Statuses]) /\ Len(r) = Len(q) + 1
        /\ \A j \in 1..Len(q) : r[j] = q[j]
        /\ r[Len(q) + 1] = e
    BY <1>1, <1>2, AppendProperties
  <2> HIDE DEF r
  <2>3. DOMAIN r = 1..(Len(q) + 1)
    BY <2>2, LenProperties
  <2>4. \A j \in 1..Len(q) : q[j].id # t
    BY <1>2, <1>4 DEF Has
  <2>5. NoDuplicates(r)
    BY <1>1, <1>2, <2>2, <2>3, <2>4 DEF Proper, NoDuplicates
  <2>6. \A u : Has(r, u) <=> Has(q, u) \/ u = t
    <3>1. \A u : Has(q, u) => Has(r, u)
      BY <1>2, <2>2, <2>3 DEF Has
    <3>2. Has(r, t)
      BY <1>1, <1>2, <2>2, <2>3 DEF Has
    <3>3. \A u : Has(r, u) => Has(q, u) \/ u = t
      BY <1>1, <1>2, <2>2, <2>3 DEF Has
    <3> QED BY <3>1, <3>2, <3>3
  <2> QED BY <2>1, <2>2, <2>5, <2>6 DEF Proper, Queues
<1> QED BY <1>3, <1>4

(* Removing a track keeps every other one, with its status.                *)
LEMMA WithoutProperties ==
    ASSUME NEW T, NEW q, Proper(q, T), NEW t
    PROVE  /\ Proper(Without(q, t), T)
           /\ \A u : Has(Without(q, t), u) <=> Has(q, u) /\ u # t
           /\ SomeReady(Without(q, t)) => SomeReady(q)
<1>1. Len(q) \in Nat /\ DOMAIN q = 1..Len(q)
      /\ \A n \in 1..Len(q) : q[n] \in [id : T, status : Statuses]
  BY QueueElements DEF Proper
<1>2. CASE ~Has(q, t)
  BY <1>2 DEF Without
<1>3. CASE Has(q, t)
  <2> DEFINE i == IndexOf(q, t)
             r == [n \in 1..(Len(q) - 1) |-> IF n < i THEN q[n] ELSE q[n + 1]]
  <2>1. i \in 1..Len(q) /\ q[i].id = t /\ \A n \in 1..Len(q) : q[n].id = t => n = i
    BY <1>3, IndexOfProperties
  <2>2. Without(q, t) = r
    BY <1>3 DEF Without
  <2> HIDE DEF i
  <2>3. Len(q) - 1 \in Nat
    BY <1>1, <2>1
  <2>4. r \in [1..(Len(q) - 1) -> [id : T, status : Statuses]]
    BY <1>1, <2>1
  <2>5. r \in Queues(T)
    BY <2>3, <2>4, SeqDef DEF Queues
  <2>6. DOMAIN r = 1..(Len(q) - 1)
        /\ \A n \in 1..(Len(q) - 1) : r[n] = IF n < i THEN q[n] ELSE q[n + 1]
    OBVIOUS
  <2> HIDE DEF r
  <2>7. NoDuplicates(r)
    BY <1>1, <2>1, <2>6 DEF Proper, NoDuplicates
  <2>8. ASSUME NEW u, Has(r, u) PROVE Has(q, u) /\ u # t
    <3>1. PICK n \in 1..(Len(q) - 1) : r[n].id = u
      BY <2>6, <2>8 DEF Has
    <3> DEFINE m == IF n < i THEN n ELSE n + 1
    <3>2. m \in 1..Len(q) /\ r[n] = q[m] /\ m # i
      BY <1>1, <2>1, <2>6
    <3> HIDE DEF m
    <3> QED BY <1>1, <2>1, <3>1, <3>2 DEF Has
  <2>9. ASSUME NEW u, Has(q, u), u # t PROVE Has(r, u)
    <3>1. PICK m \in 1..Len(q) : q[m].id = u
      BY <1>1, <2>9 DEF Has
    <3>2. m # i BY <2>1, <2>9, <3>1
    <3> DEFINE n == IF m < i THEN m ELSE m - 1
    <3>3. n \in 1..(Len(q) - 1) /\ r[n] = q[m]
      BY <1>1, <2>1, <2>6, <3>2
    <3> HIDE DEF n
    <3> QED BY <2>6, <3>1, <3>3 DEF Has
  <2>10. SomeReady(r) => SomeReady(q)
    <3> SUFFICES ASSUME NEW n \in 1..(Len(q) - 1), r[n].status = "ready"
                 PROVE SomeReady(q)
      BY <2>6 DEF SomeReady
    <3> DEFINE m == IF n < i THEN n ELSE n + 1
    <3>1. m \in 1..Len(q) /\ r[n] = q[m]
      BY <1>1, <2>1, <2>6
    <3> HIDE DEF m
    <3> QED BY <1>1, <3>1 DEF SomeReady
  <2> QED BY <2>2, <2>5, <2>7, <2>8, <2>9, <2>10 DEF Proper
<1> QED BY <1>2, <1>3

(* The track that maybeStart picks is in the queue.                        *)
LEMMA FirstReadyProperties ==
    ASSUME NEW T, NEW q \in Queues(T), NEW n, IsFirstReady(q, n)
    PROVE  q[n].id \in T /\ Has(q, q[n].id) /\ SomeReady(q)
BY QueueElements DEF IsFirstReady, Has, SomeReady

-----------------------------------------------------------------------------
USE PlaybackAssumption DEF IsPlaying

(* The inductive invariant: the queue and the choice of the next track     *)
(* depend on nothing else, but the deadline and the end timer are only     *)
(* found again because what is owned is about the present track.           *)
IInv == PlaybackInv /\ PrepareHasDeadline /\ EndOnTime

(* AtLeastZero as in Go's max(n, 0).                                       *)
LEMMA AtLeastZeroNat == \A n \in Int : AtLeastZero(n) \in Nat
BY DEF AtLeastZero

(* The end timer of a playback is a timer, and the only one.               *)
LEMMA EndTimerType ==
    ASSUME NEW pb \in Playbacks, pb.track \in Tracks
    PROVE  EndTimer(pb) \subseteq Timers
<1>1. pb.lead + AtLeastZero(Duration[pb.track] - pb.s) + EndGrace \in Int
  BY AtLeastZeroNat DEF Playbacks
<1> DEFINE n == AtLeastZero(pb.lead + AtLeastZero(Duration[pb.track] - pb.s) + EndGrace)
           tm == [op |-> "end", track |-> pb.track, own |-> TRUE, in |-> n]
<1>2. n \in Nat BY <1>1, AtLeastZeroNat
<1>3. EndTimer(pb) \subseteq {tm} BY DEF EndTimer, Remaining
<1> HIDE DEF n
<1>4. tm \in Timers BY <1>2 DEF Timers
<1> HIDE DEF tm
<1> QED BY <1>3, <1>4

(* The records that handlers and timers make.                              *)
LEMMA CallTypes ==
    ASSUME NEW g \in Callers
    PROVE  /\ MaybeCall(g) \in Calls /\ MaybeCall(g).op = "maybe" /\ ~MaybeCall(g).own
           /\ RecheckCall(g) \in Calls /\ RecheckCall(g).op = "recheck"
           /\ ~RecheckCall(g).own
BY DEF Calls, MaybeCall, RecheckCall

LEMMA OwnCallTypes ==
    ASSUME NEW g \in Callers, NEW op \in {"start", "end"}, NEW t \in Tracks
    PROVE  /\ OwnCall(op, t, g) \in Calls /\ OwnCall(op, t, g).op = op
           /\ OwnCall(op, t, g).track = t /\ OwnCall(op, t, g).own
           /\ OwnCall(op, t, g).by = g
BY DEF Calls, OwnCall

LEMMA FiredType ==
    ASSUME NEW tm \in Timers
    PROVE  [op |-> tm.op, track |-> tm.track, by |-> "timer", own |-> tm.own] \in Calls
BY Zenon DEF Timers, Calls, Callers

(* What room.playing is when nothing plays, and what maybeStart makes it.  *)
LEMMA NoPlaybackType ==
    /\ NoPlayback \in Playbacks /\ NoPlayback.track = Nil /\ ~NoPlayback.started
    /\ ~NoPlayback.paused
    /\ \A t \in Tracks : LET pb == [NoPlayback EXCEPT !.track = t] IN
         pb \in Playbacks /\ pb.track = t /\ ~pb.started /\ ~pb.paused /\ pb.ready = {}
<1>1. 0 \in Int OBVIOUS
<1>2. NoPlayback \in Playbacks BY <1>1, Zenon DEF NoPlayback, Playbacks
<1> QED BY <1>2 DEF NoPlayback, Playbacks

LEMMA ReadyTimerType ==
    ASSUME NEW t \in Tracks, NEW d \in ReadyTimeouts
    PROVE  ReadyTimer(t, d) \subseteq Timers
<1>1. d \in Nat OBVIOUS
<1>2. [op |-> "start", track |-> t, in |-> d, own |-> TRUE] \in Timers
  BY <1>1 DEF Timers
<1> QED BY <1>2 DEF ReadyTimer

(* The changes handlers make to a playback.                                *)
LEMMA PlaybackTypes ==
    ASSUME NEW pb \in Playbacks, NEW n \in Int, NEW m \in Int, NEW rs \in SUBSET Users
    PROVE  /\ [pb EXCEPT !.paused = TRUE, !.s = n, !.lead = m] \in Playbacks
           /\ [pb EXCEPT !.paused = FALSE, !.lead = n] \in Playbacks
           /\ [pb EXCEPT !.s = n, !.lead = m] \in Playbacks
           /\ [pb EXCEPT !.started = TRUE, !.lead = n, !.s = m] \in Playbacks
           /\ [pb EXCEPT !.ready = rs] \in Playbacks
           /\ [pb EXCEPT !.lead = n] \in Playbacks
BY Zenon DEF Playbacks

(* The playback after a pause, a resume, a seek and a start.               *)
LEMMA PausedPlayback ==
    ASSUME playing \in Playbacks, NEW u, Pause(u)
    PROVE  /\ playing' \in Playbacks /\ playing'.track = playing.track
           /\ playing.started /\ playing'.started /\ playing'.paused
           /\ EndTimer(playing') = {}
<1>1. playing.s - playing.lead \in Int /\ 0 \in Int BY DEF Playbacks
<1>2. playing' \in Playbacks BY <1>1, PlaybackTypes, Zenon DEF Pause
<1>3. /\ playing'.track = playing.track
      /\ playing.started /\ playing'.started /\ playing'.paused
  BY DEF Pause, Control, Playbacks
<1> QED BY <1>2, <1>3 DEF EndTimer

LEMMA ResumedPlayback ==
    ASSUME playing \in Playbacks, NEW u, Resume(u)
    PROVE  /\ playing' \in Playbacks /\ playing'.track = playing.track
           /\ playing.track \in Tracks
           /\ playing.started /\ playing'.started /\ ~playing'.paused
           /\ playing'.lead = StartBuffer /\ playing'.s = playing.s
<1>1. StartBuffer \in Int OBVIOUS
<1>2. playing' \in Playbacks BY <1>1, PlaybackTypes, Zenon DEF Resume
<1> QED BY <1>2 DEF Resume, Control, Playbacks

LEMMA SoughtPlayback ==
    ASSUME playing \in Playbacks, NEW u, NEW ms \in Seeks, SeekTo(u, ms)
    PROVE  /\ playing' \in Playbacks /\ playing'.track = playing.track
           /\ playing.track \in Tracks
           /\ playing.started /\ playing'.started
           /\ playing'.paused = playing.paused
           /\ ~playing'.paused => playing'.lead = StartBuffer
<1> DEFINE n == AtLeastZero(ms)
           m == IF playing.paused THEN 0 ELSE StartBuffer
<1>1. n \in Int /\ m \in Int BY AtLeastZeroNat
<1>2. playing' = [playing EXCEPT !.s = n, !.lead = m] BY DEF SeekTo
<1> HIDE DEF n, m
<1>3. playing' \in Playbacks BY <1>1, <1>2, PlaybackTypes, Zenon
<1>4. /\ playing'.track = playing.track /\ playing'.started = playing.started
      /\ playing'.paused = playing.paused /\ playing'.lead = m
  BY <1>2 DEF Playbacks
<1> QED BY <1>3, <1>4 DEF SeekTo, Control, Playbacks, m

LEMMA StartedPlayback ==
    ASSUME playing \in Playbacks, NEW k \in Calls, startPlayback(k),
           playing.track = k.track, ~playing.started
    PROVE  /\ playing' \in Playbacks /\ playing'.track = playing.track
           /\ playing.track \in Tracks
           /\ playing'.started /\ playing'.paused = playing.paused
           /\ playing'.lead = StartBuffer /\ playing'.s = 0
<1>1. StartBuffer \in Int /\ 0 \in Int OBVIOUS
<1>a. playing' = [playing EXCEPT !.started = TRUE, !.lead = StartBuffer, !.s = 0]
  BY DEF startPlayback
<1>2. playing' \in Playbacks BY <1>1, <1>a, PlaybackTypes, Zenon
<1>3. playing.track \in Tracks BY DEF startPlayback, Calls
<1> QED BY <1>2, <1>3 DEF startPlayback, Playbacks

(* A running end timer is stopped and another one set.                     *)
LEMMA ScheduleEnd ==
    ASSUME NEW pb \in Playbacks, pb.track \in Tracks, NEW tms \in SUBSET Timers
    PROVE  /\ scheduleEnd(pb, tms) \subseteq Timers
           /\ \A tm \in scheduleEnd(pb, tms) :
                \/ tm \in tms /\ tm.op # "end"
                \/ tm \in EndTimer(pb) /\ tm.op = "end" /\ tm.own
                   /\ tm.track = pb.track /\ ~pb.paused
           /\ \A tm \in tms : tm.op # "end" => tm \in scheduleEnd(pb, tms)
           /\ EndTimer(pb) \subseteq scheduleEnd(pb, tms)
<1>1. \A tm \in EndTimer(pb) : tm.op = "end" /\ tm.own /\ tm.track = pb.track /\ ~pb.paused
  BY DEF EndTimer
<1> QED BY <1>1, EndTimerType DEF scheduleEnd

-----------------------------------------------------------------------------
(* Type correctness and the queue.                                         *)

(* The type invariant and QueueHasPlaying hold initially.                  *)
LEMMA InitPlaybackInv == Init => PlaybackInv
<1> SUFFICES ASSUME Init PROVE PlaybackInv
  OBVIOUS
<1>1. TypeOK BY EmptyQueue, NoPlaybackType DEF Init, TypeOK, Proper
<1>2. QueueHasPlaying BY EmptyQueue, NoPlaybackType DEF Init, QueueHasPlaying, Proper
<1>3. ReadyTrackIsPickedUp BY EmptyQueue DEF Init, ReadyTrackIsPickedUp
<1>4. OwnIsCurrent BY NoPlaybackType DEF Init, OwnIsCurrent
<1> QED BY <1>1, <1>2, <1>3, <1>4 DEF PlaybackInv

(* A call that is disowned is still that call, of the same operation.      *)
LEMMA DisownedCall ==
    ASSUME NEW k \in Calls
    PROVE  /\ [k EXCEPT !.own = FALSE] \in Calls
           /\ [k EXCEPT !.own = FALSE].op = k.op
           /\ ~[k EXCEPT !.own = FALSE].own
<1>1. [k EXCEPT !.own = FALSE].op = k.op /\ ~[k EXCEPT !.own = FALSE].own
  BY DEF Calls
<1>2. CASE k \in [op : {"start", "end"}, track : Tracks, by : Callers, own : BOOLEAN]
  BY <1>1, <1>2, Zenon DEF Calls
<1>3. CASE k \in [op : {"maybe", "recheck"}, track : {Nil}, by : Callers, own : {FALSE}]
  BY <1>1, <1>3, Zenon DEF Calls
<1> QED BY <1>1, <1>2, <1>3 DEF Calls

LEMMA DisownCalls ==
    ASSUME NEW ks \in SUBSET Calls
    PROVE  /\ Disown(ks) \subseteq Calls
           /\ \A k \in Disown(ks) : ~k.own
           /\ \A k \in ks : \E j \in Disown(ks) : j.op = k.op
BY DisownedCall DEF Disown

(* The same for timers.                                                    *)
LEMMA DisownedTimer ==
    ASSUME NEW tm \in Timers
    PROVE  /\ [tm EXCEPT !.own = FALSE] \in Timers
           /\ [tm EXCEPT !.own = FALSE].op = tm.op
           /\ ~[tm EXCEPT !.own = FALSE].own
BY DEF Timers

LEMMA DisownTimers ==
    ASSUME NEW tms \in SUBSET Timers
    PROVE  /\ Disown(tms) \subseteq Timers
           /\ \A tm \in Disown(tms) : ~tm.own /\ \E m \in tms : m.op = tm.op
BY DisownedTimer DEF Disown

(* Every step keeps the types.                                             *)
LEMMA TypeStep == PlaybackInv /\ [Next]_vars => TypeOK'
<1> SUFFICES ASSUME PlaybackInv, [Next]_vars PROVE TypeOK'
  OBVIOUS
<1>0. Proper(queue, Tracks)
  BY DEF PlaybackInv, TypeOK, QueueHasPlaying, Proper
<1> USE DEF PlaybackInv, TypeOK
<1>1. ASSUME NEW u \in Users, Join(u) \/ Leave(u) PROVE TypeOK'
  BY <1>1, CallTypes DEF Join, Leave, Callers
<1>2. ASSUME NEW u \in Users, Pause(u) PROVE TypeOK'
  <2>1. timers' \subseteq Timers
    BY <1>2, PausedPlayback DEF Pause, scheduleEnd
  <2> QED BY <1>2, <2>1, PausedPlayback DEF Pause, Control
<1>3. ASSUME NEW u \in Users, Resume(u) PROVE TypeOK'
  <2>1. timers' \subseteq Timers
    BY <1>3, ResumedPlayback, ScheduleEnd DEF Resume
  <2> QED BY <1>3, <2>1, ResumedPlayback DEF Resume, Control
<1>4. ASSUME NEW u \in Users, NEW ms \in Seeks, SeekTo(u, ms) PROVE TypeOK'
  <2>1. timers' \subseteq Timers
    BY <1>4, SoughtPlayback, ScheduleEnd DEF SeekTo
  <2>2. Control(u) BY <1>4 DEF SeekTo
  <2>3. playing' \in Playbacks BY <1>4, SoughtPlayback
  <2> QED BY <2>1, <2>2, <2>3 DEF Control
<1>5. ASSUME NEW u \in Users, Skip(u) PROVE TypeOK'
  <2>1. playing.track \in Tracks BY <1>5 DEF Skip, Playbacks
  <2>2. OwnCall("end", playing.track, u) \in Calls BY <2>1, OwnCallTypes DEF Callers
  <2> QED BY <1>5, <2>2 DEF Skip
<1>6. ASSUME NEW u \in Users, NEW t \in Tracks, RemoveTrack(u, t) PROVE TypeOK'
  BY <1>0, <1>6, WithoutProperties DEF RemoveTrack, Proper
<1>7. ASSUME NEW u \in Users, NEW t \in Tracks, MarkReady(u, t) PROVE TypeOK'
  <2> DEFINE rs == playing.ready \cup {u}
  <2>1. rs \in SUBSET Users /\ 0 \in Int BY DEF Playbacks
  <2>a. playing' = [playing EXCEPT !.ready = rs] BY <1>7 DEF MarkReady
  <2> HIDE DEF rs
  <2>b. [playing EXCEPT !.ready = rs] \in Playbacks BY <2>1, PlaybackTypes, Zenon
  <2>2. playing' \in Playbacks BY <2>a, <2>b
  <2>3. OwnCall("start", t, u) \in Calls BY OwnCallTypes DEF Callers
  <2> QED BY <1>7, <2>2, <2>3 DEF MarkReady
<1>8. ASSUME NEW t \in Tracks, NEW st \in Statuses, UpsertTrack(t, st) PROVE TypeOK'
  <2>1. queue' \in Queues(Tracks)
    BY <1>0, <1>8, PutProperties DEF UpsertTrack, Proper
  <2>2. MaybeCall(t) \in Calls BY CallTypes DEF Callers
  <2> QED BY <1>8, <2>1, <2>2 DEF UpsertTrack
<1>9. ASSUME NEW k \in calls, maybeStart(k) PROVE TypeOK'
  <2>1. CASE UNCHANGED <<playing, timers>>
    BY <1>9, <2>1 DEF maybeStart
  <2>2. ASSUME NEW n \in DOMAIN queue, NEW d \in ReadyTimeouts,
               IsFirstReady(queue, n),
               playing' = [NoPlayback EXCEPT !.track = queue[n].id],
               timers' = timers \cup ReadyTimer(queue[n].id, d)
        PROVE  TypeOK'
    <3>1. queue[n].id \in Tracks BY <2>2, FirstReadyProperties
    <3>2. playing' \in Playbacks BY <2>2, <3>1, NoPlaybackType
    <3>3. timers' \subseteq Timers BY <2>2, <3>1, ReadyTimerType
    <3> QED BY <1>9, <3>2, <3>3 DEF maybeStart
  <2> QED BY <1>9, <2>1, <2>2 DEF maybeStart, Chosen
<1>10. ASSUME NEW k \in calls, recheckReady(k) PROVE TypeOK'
  <2>1. k.by \in Callers BY DEF Calls
  <2>2. IsPlaying => OwnCall("start", playing.track, k.by) \in Calls
    BY <2>1, OwnCallTypes DEF Playbacks
  <2> QED BY <1>10, <2>2 DEF recheckReady
<1>11. ASSUME NEW k \in calls, startPlayback(k) PROVE TypeOK'
  <2>1. CASE ~(playing.track = k.track /\ ~playing.started)
    BY <1>11, <2>1 DEF startPlayback
  <2>2. CASE playing.track = k.track /\ ~playing.started
    <3> DEFINE tms == {tm \in timers : ~(tm.op = "start" /\ tm.own)}
    <3>0. playing' \in Playbacks /\ playing'.track \in Tracks
      BY <1>11, <2>2, StartedPlayback
    <3>1. timers' = scheduleEnd(playing', tms) BY <1>11, <2>2 DEF startPlayback
    <3>2. tms \in SUBSET Timers OBVIOUS
    <3> HIDE DEF tms
    <3>3. timers' \subseteq Timers
      BY <3>0, <3>1, <3>2, ScheduleEnd
    <3> QED BY <1>11, <2>2, <3>0, <3>3 DEF startPlayback
  <2> QED BY <2>1, <2>2
<1>12. ASSUME NEW k \in calls, endTrack(k) PROVE TypeOK'
  <2>1. CASE playing.track = k.track
    <3>1. queue' \in Queues(Tracks)
      BY <1>0, <1>12, <2>1, WithoutProperties DEF endTrack, Proper
    <3>2. timers' \subseteq Timers
      BY <1>12, <2>1, DisownTimers DEF endTrack
    <3>3. calls' \subseteq Calls
      <4>1. k.by \in Callers BY DEF Calls
      <4> QED BY <1>12, <2>1, <4>1, CallTypes, DisownCalls DEF endTrack
    <3> QED BY <1>12, <2>1, <3>1, <3>2, <3>3, NoPlaybackType DEF endTrack
  <2>2. CASE playing.track # k.track
    BY <1>12, <2>2 DEF endTrack
  <2> QED BY <2>1, <2>2
<1>13. CASE Fire
  <2>1. PICK tm \in timers : TimerFires(tm) BY <1>13 DEF Fire
  <2>2. tm \in Timers OBVIOUS
  <2> QED BY <2>1, <2>2, FiredType DEF TimerFires
<1>14. CASE Tick
  <2>1. timers' \subseteq Timers
    <3>1. \A tm \in timers : tm.in - 1 \in Nat BY <1>14 DEF Tick, Timers
    <3> QED BY <1>14, <3>1 DEF Tick, Timers
  <2>2. playing' \in Playbacks
    <3>1. playing.lead - 1 \in Int BY DEF Playbacks
    <3>2. [playing EXCEPT !.lead = @ - 1] \in Playbacks
      BY <3>1, PlaybackTypes, Zenon
    <3> QED BY <1>14, <3>2 DEF Tick, Elapse
  <2> QED BY <1>14, <2>1, <2>2 DEF Tick
<1>15. CASE cleanupMedia
  BY <1>15, DisownCalls, EmptyQueue, NoPlaybackType DEF cleanupMedia, Proper
<1>16. CASE UNCHANGED vars
  BY <1>16 DEF vars
<1> QED BY <1>1, <1>2, <1>3, <1>4, <1>5, <1>6, <1>7, <1>8, <1>9, <1>10, <1>11, <1>12,
           <1>13, <1>14, <1>15, <1>16 DEF Next, Run

-----------------------------------------------------------------------------
(* The queue and the track that plays.                                     *)

(* The steps that leave the queue and the track alone, and keep every call *)
(* of maybeStart.                                                          *)
Unqueued ==
    /\ queue' = queue /\ playing'.track = playing.track
    /\ \A k \in calls : k.op = "maybe" => k \in calls'

(* Only five operations do more.                                           *)
LEMMA WhatMovesTheQueue ==
    ASSUME TypeOK, [Next]_vars
    PROVE  \/ Unqueued
           \/ \E u \in Users, t \in Tracks : RemoveTrack(u, t)
           \/ \E t \in Tracks, st \in Statuses : UpsertTrack(t, st)
           \/ \E k \in calls : maybeStart(k) \/ endTrack(k)
           \/ cleanupMedia
<1> USE DEF TypeOK
<1>1. ASSUME NEW u \in Users, Join(u) \/ Leave(u) \/ Skip(u) PROVE Unqueued
  BY <1>1 DEF Join, Leave, Skip, Unqueued
<1>2. ASSUME NEW u \in Users, Pause(u) PROVE Unqueued
  BY <1>2, PausedPlayback DEF Pause, Control, Unqueued
<1>3. ASSUME NEW u \in Users, Resume(u) PROVE Unqueued
  BY <1>3, ResumedPlayback DEF Resume, Control, Unqueued
<1>4. ASSUME NEW u \in Users, NEW ms \in Seeks, SeekTo(u, ms) PROVE Unqueued
  <2>1. playing'.track = playing.track BY <1>4, SoughtPlayback
  <2>2. Control(u) BY <1>4 DEF SeekTo
  <2> QED BY <2>1, <2>2 DEF Control, Unqueued
<1>5. ASSUME NEW u \in Users, NEW t \in Tracks, MarkReady(u, t) PROVE Unqueued
  BY <1>5 DEF MarkReady, Playbacks, Unqueued
<1>6. ASSUME NEW k \in calls, recheckReady(k) PROVE Unqueued
  BY <1>6 DEF recheckReady, Unqueued
<1>7. ASSUME NEW k \in calls, startPlayback(k) PROVE Unqueued
  <2>1. playing'.track = playing.track
    BY <1>7, StartedPlayback DEF startPlayback
  <2> QED BY <1>7, <2>1 DEF startPlayback, Unqueued
<1>8. CASE Fire
  BY <1>8 DEF Fire, TimerFires, Unqueued
<1>9. CASE Tick
  BY <1>9 DEF Tick, Elapse, Playbacks, Unqueued
<1>10. CASE UNCHANGED vars
  BY <1>10 DEF vars, Unqueued
<1> QED BY <1>1, <1>2, <1>3, <1>4, <1>5, <1>6, <1>7, <1>8, <1>9, <1>10 DEF Next, Run

(* Every step keeps the queue without duplicates and the track in it.      *)
LEMMA QueueStep == PlaybackInv /\ [Next]_vars => QueueHasPlaying'
<1> SUFFICES ASSUME PlaybackInv, [Next]_vars PROVE QueueHasPlaying'
  OBVIOUS
<1>0. Proper(queue, Tracks) /\ (IsPlaying => Has(queue, playing.track))
  BY DEF PlaybackInv, TypeOK, QueueHasPlaying, Proper
<1>1. CASE Unqueued
  BY <1>0, <1>1 DEF Unqueued, QueueHasPlaying, Proper
<1>2. ASSUME NEW u \in Users, NEW t \in Tracks, RemoveTrack(u, t) PROVE QueueHasPlaying'
  BY <1>0, <1>2, WithoutProperties DEF RemoveTrack, QueueHasPlaying, Proper
<1>3. ASSUME NEW t \in Tracks, NEW st \in Statuses, UpsertTrack(t, st)
      PROVE  QueueHasPlaying'
  BY <1>0, <1>3, PutProperties DEF UpsertTrack, QueueHasPlaying, Proper
<1>4. ASSUME NEW k \in calls, maybeStart(k) PROVE QueueHasPlaying'
  <2>1. CASE UNCHANGED <<playing, timers>>
    BY <1>0, <1>4, <2>1 DEF maybeStart, QueueHasPlaying, Proper
  <2>2. ASSUME NEW n \in DOMAIN queue, IsFirstReady(queue, n),
               playing' = [NoPlayback EXCEPT !.track = queue[n].id]
        PROVE  QueueHasPlaying'
    <3>1. queue[n].id \in Tracks /\ Has(queue, queue[n].id)
      BY <1>0, <2>2, FirstReadyProperties DEF Proper
    <3>2. playing'.track = queue[n].id BY <2>2, <3>1, NoPlaybackType
    <3> QED BY <1>0, <1>4, <3>1, <3>2 DEF maybeStart, QueueHasPlaying, Proper
  <2> QED BY <1>4, <2>1, <2>2 DEF maybeStart, Chosen
<1>5. ASSUME NEW k \in calls, endTrack(k) PROVE QueueHasPlaying'
  BY <1>0, <1>5, WithoutProperties, NoPlaybackType DEF endTrack, QueueHasPlaying, Proper
<1>6. CASE cleanupMedia
  BY <1>6, EmptyQueue, NoPlaybackType DEF cleanupMedia, QueueHasPlaying, Proper
<1> QED BY <1>1, <1>2, <1>3, <1>4, <1>5, <1>6, WhatMovesTheQueue DEF PlaybackInv

(* Every step keeps a call of maybeStart while a ready track waits.        *)
LEMMA PickUpStep == PlaybackInv /\ [Next]_vars => ReadyTrackIsPickedUp'
<1> SUFFICES ASSUME PlaybackInv, [Next]_vars PROVE ReadyTrackIsPickedUp'
  OBVIOUS
<1>0. Proper(queue, Tracks) /\ ReadyTrackIsPickedUp /\ calls \subseteq Calls
  BY DEF PlaybackInv, TypeOK, QueueHasPlaying, Proper
<1>1. CASE Unqueued
  BY <1>0, <1>1 DEF Unqueued, ReadyTrackIsPickedUp
<1>2. ASSUME NEW u \in Users, NEW t \in Tracks, RemoveTrack(u, t)
      PROVE  ReadyTrackIsPickedUp'
  BY <1>0, <1>2, WithoutProperties DEF RemoveTrack, ReadyTrackIsPickedUp
<1>3. ASSUME NEW t \in Tracks, NEW st \in Statuses, UpsertTrack(t, st)
      PROVE  ReadyTrackIsPickedUp'
  <2>1. MaybeCall(t).op = "maybe" BY CallTypes DEF Callers
  <2> QED BY <1>3, <2>1 DEF UpsertTrack, ReadyTrackIsPickedUp
<1>4. ASSUME NEW k \in calls, maybeStart(k) PROVE ReadyTrackIsPickedUp'
  <2>1. CASE UNCHANGED <<playing, timers>> /\ (IsPlaying \/ ~SomeReady(queue))
    BY <1>4, <2>1 DEF maybeStart, ReadyTrackIsPickedUp
  <2>2. ASSUME NEW n \in DOMAIN queue, IsFirstReady(queue, n),
               playing' = [NoPlayback EXCEPT !.track = queue[n].id]
        PROVE  ReadyTrackIsPickedUp'
    <3>1. queue[n].id \in Tracks
      BY <1>0, <2>2, FirstReadyProperties DEF Proper
    <3>2. playing'.track = queue[n].id BY <2>2, <3>1, NoPlaybackType
    <3> QED BY <3>1, <3>2 DEF ReadyTrackIsPickedUp
  <2> QED BY <1>4, <2>1, <2>2 DEF maybeStart, Chosen
<1>5. ASSUME NEW k \in calls, endTrack(k) PROVE ReadyTrackIsPickedUp'
  <2>1. CASE playing.track = k.track
    <3>1. MaybeCall(k.by).op = "maybe" BY DEF MaybeCall
    <3> QED BY <1>5, <2>1, <3>1 DEF endTrack, ReadyTrackIsPickedUp
  <2>2. CASE playing.track # k.track
    BY <1>0, <1>5, <2>2 DEF endTrack, ReadyTrackIsPickedUp
  <2> QED BY <2>1, <2>2
<1>6. CASE cleanupMedia
  BY <1>6, EmptyQueue DEF cleanupMedia, ReadyTrackIsPickedUp
<1> QED BY <1>1, <1>2, <1>3, <1>4, <1>5, <1>6, WhatMovesTheQueue DEF PlaybackInv

-----------------------------------------------------------------------------
(* Ownership, the deadline and the end timer.                              *)

(* scheduleEnd sets the end timer of a playback of known length that       *)
(* starts or goes on, at the moment EndOnTime asks for.                    *)
LEMMA EndTimerInTime ==
    ASSUME NEW pb \in Playbacks, pb.track \in Tracks, ~pb.paused,
           Duration[pb.track] > 0, pb.lead = StartBuffer
    PROVE  \E tm \in EndTimer(pb) :
             /\ tm.op = "end" /\ tm.own /\ tm.track = pb.track
             /\ tm.in = pb.lead + EndGrace + AtLeastZero(Duration[pb.track] - pb.s)
<1> DEFINE d == AtLeastZero(Duration[pb.track] - pb.s)
           n == AtLeastZero(pb.lead + d + EndGrace)
           tm == [op |-> "end", track |-> pb.track, own |-> TRUE, in |-> n]
<1>1. d \in Nat BY AtLeastZeroNat DEF Playbacks
<1>2. EndTimer(pb) = {tm} BY DEF EndTimer, Remaining
<1> HIDE DEF d
<1>3. n = pb.lead + EndGrace + d BY <1>1 DEF AtLeastZero
<1>4. tm.op = "end" /\ tm.own /\ tm.track = pb.track /\ tm.in = n
  OBVIOUS
<1> HIDE DEF n, tm
<1> QED BY <1>2, <1>3, <1>4 DEF d

(* A timer a tick later.                                                   *)
LEMMA TickedTimers ==
    ASSUME timers \subseteq Timers, Tick
    PROVE  /\ \A tm \in timers : \E m \in timers' :
                /\ m.op = tm.op /\ m.own = tm.own /\ m.track = tm.track
                /\ m.in = tm.in - 1
           /\ \A m \in timers' : \E tm \in timers :
                m.op = tm.op /\ m.own = tm.own /\ m.track = tm.track
<1> DEFINE Later(tm) == [tm EXCEPT !.in = @ - 1]
<1>1. ASSUME NEW tm \in timers
      PROVE  LET m == Later(tm) IN
               /\ m.op = tm.op /\ m.own = tm.own /\ m.track = tm.track
               /\ m.in = tm.in - 1
  BY DEF Timers
<1>2. timers' = {Later(tm) : tm \in timers} BY DEF Tick
<1> HIDE DEF Later
<1> QED BY <1>1, <1>2, Zenon

(* A playback a tick later.                                                *)
LEMMA TickedPlayback ==
    ASSUME playing \in Playbacks, Tick
    PROVE  /\ playing'.track = playing.track /\ playing'.started = playing.started
           /\ playing'.paused = playing.paused /\ playing'.s = playing.s
           /\ playing'.ready = playing.ready
           /\ playing.started /\ ~playing.paused /\ Duration[playing.track] > 0
                => playing'.lead = playing.lead - 1
           /\ ~playing.started => playing' = playing
BY DEF Tick, Elapse, Playbacks

(* What a timer leaves behind when it fires.                               *)
LEMMA FiredTimer ==
    ASSUME NEW tm \in timers, TimerFires(tm)
    PROVE  /\ timers' = timers \ {tm} /\ UNCHANGED playing
           /\ \A k \in calls : k \in calls'
           /\ \E k \in calls' : /\ k.op = tm.op /\ k.track = tm.track
                                /\ k.own = tm.own /\ k.by = "timer"
           /\ \A k \in calls' : k \in calls \/ (k.own = tm.own /\ k.track = tm.track)
<1> DEFINE j == [op |-> tm.op, track |-> tm.track, by |-> "timer", own |-> tm.own]
<1>1. /\ timers' = timers \ {tm} /\ UNCHANGED playing /\ calls' = calls \cup {j}
  BY DEF TimerFires
<1>2. /\ j.op = tm.op /\ j.track = tm.track /\ j.own = tm.own /\ j.by = "timer"
  OBVIOUS
<1> HIDE DEF j
<1>3. j \in calls' /\ \A k \in calls' : k \in calls \/ k = j BY <1>1
<1>4. \A k \in calls : k \in calls' BY <1>1
<1> QED BY <1>1, <1>2, <1>3, <1>4, Zenon

(* The timers once a track is started, resumed or sought: those of         *)
(* readiness as before, and the end timer.                                 *)
LEMMA StartedTimers ==
    ASSUME NEW k \in Calls, startPlayback(k), timers \subseteq Timers,
           playing \in Playbacks, playing.track = k.track, ~playing.started
    PROVE  /\ \A tm \in timers' :
                \/ tm \in timers /\ tm.op # "end"
                \/ tm.op = "end" /\ tm.own /\ tm.track = playing'.track /\ ~playing'.paused
           /\ EndTimer(playing') \subseteq timers'
<1> DEFINE tms == {tm \in timers : ~(tm.op = "start" /\ tm.own)}
<1>1. playing' \in Playbacks /\ playing'.track \in Tracks BY StartedPlayback
<1>2. timers' = scheduleEnd(playing', tms) BY DEF startPlayback
<1>3. tms \in SUBSET Timers /\ tms \subseteq timers OBVIOUS
<1> HIDE DEF tms
<1> QED BY <1>1, <1>2, <1>3, ScheduleEnd

(* Every step keeps what is owned about the present track.                 *)
LEMMA OwnStep == PlaybackInv /\ [Next]_vars => OwnIsCurrent'
<1> SUFFICES ASSUME PlaybackInv, [Next]_vars PROVE OwnIsCurrent'
  OBVIOUS
<1> USE DEF PlaybackInv, TypeOK
<1>1. ASSUME NEW u \in Users, Join(u) \/ Leave(u) PROVE OwnIsCurrent'
  BY <1>1, CallTypes DEF Join, Leave, Callers, OwnIsCurrent
<1>2. ASSUME NEW u \in Users, Pause(u) PROVE OwnIsCurrent'
  <2>1. timers' \subseteq timers
    BY <1>2, PausedPlayback DEF Pause, scheduleEnd
  <2> QED BY <1>2, <2>1, PausedPlayback DEF Pause, Control, OwnIsCurrent
<1>3. ASSUME NEW u \in Users, Resume(u) PROVE OwnIsCurrent'
  <2>1. Control(u) /\ timers' = scheduleEnd(playing', timers) BY <1>3 DEF Resume
  <2> QED BY <1>3, <2>1, ResumedPlayback, ScheduleEnd DEF Control, OwnIsCurrent
<1>4. ASSUME NEW u \in Users, NEW ms \in Seeks, SeekTo(u, ms) PROVE OwnIsCurrent'
  <2>1. Control(u) /\ timers' = scheduleEnd(playing', timers) BY <1>4 DEF SeekTo
  <2> QED BY <1>4, <2>1, SoughtPlayback, ScheduleEnd DEF Control, OwnIsCurrent
<1>5. ASSUME NEW u \in Users, Skip(u) PROVE OwnIsCurrent'
  <2>1. playing.track \in Tracks BY <1>5 DEF Skip, Playbacks
  <2>2. OwnCall("end", playing.track, u).track = playing.track
    BY <2>1, OwnCallTypes DEF Callers
  <2> QED BY <1>5, <2>2 DEF Skip, OwnIsCurrent
<1>6. ASSUME NEW u \in Users, NEW t \in Tracks, RemoveTrack(u, t) PROVE OwnIsCurrent'
  BY <1>6 DEF RemoveTrack, OwnIsCurrent
<1>7. ASSUME NEW u \in Users, NEW t \in Tracks, MarkReady(u, t) PROVE OwnIsCurrent'
  <2>1. /\ playing'.track = playing.track /\ playing'.started = playing.started
        /\ playing'.paused = playing.paused
    BY <1>7 DEF MarkReady, Playbacks
  <2>2. OwnCall("start", t, u).track = t BY OwnCallTypes DEF Callers
  <2> QED BY <1>7, <2>1, <2>2 DEF MarkReady, OwnIsCurrent
<1>8. ASSUME NEW t \in Tracks, NEW st \in Statuses, UpsertTrack(t, st) PROVE OwnIsCurrent'
  <2>2. ~MaybeCall(t).own BY CallTypes DEF Callers
  <2> QED BY <1>8, <2>2 DEF UpsertTrack, OwnIsCurrent
<1>9. ASSUME NEW k \in calls, maybeStart(k) PROVE OwnIsCurrent'
  <2>1. CASE UNCHANGED <<playing, timers>>
    BY <1>9, <2>1 DEF maybeStart, OwnIsCurrent
  <2>2. ASSUME NEW n \in DOMAIN queue, NEW d \in ReadyTimeouts, ~IsPlaying,
               IsFirstReady(queue, n),
               playing' = [NoPlayback EXCEPT !.track = queue[n].id],
               timers' = timers \cup ReadyTimer(queue[n].id, d)
        PROVE  OwnIsCurrent'
    <3>1. queue[n].id \in Tracks BY <2>2, FirstReadyProperties
    <3>2. playing'.track = queue[n].id /\ ~playing'.started /\ ~playing'.paused
      BY <2>2, <3>1, NoPlaybackType
    <3>3. \A tm \in ReadyTimer(queue[n].id, d) :
            tm.op = "start" /\ tm.track = queue[n].id
      BY DEF ReadyTimer
    <3> QED BY <1>9, <2>2, <3>1, <3>2, <3>3 DEF maybeStart, OwnIsCurrent
  <2> QED BY <1>9, <2>1, <2>2 DEF maybeStart, Chosen
<1>10. ASSUME NEW k \in calls, recheckReady(k) PROVE OwnIsCurrent'
  <2>1. k.by \in Callers BY DEF Calls
  <2>2. IsPlaying => OwnCall("start", playing.track, k.by).track = playing.track
    BY <2>1, OwnCallTypes DEF Playbacks
  <2> QED BY <1>10, <2>2 DEF recheckReady, OwnIsCurrent
<1>11. ASSUME NEW k \in calls, startPlayback(k) PROVE OwnIsCurrent'
  <2>1. CASE ~(playing.track = k.track /\ ~playing.started)
    BY <1>11, <2>1 DEF startPlayback, OwnIsCurrent
  <2>2. CASE playing.track = k.track /\ ~playing.started
    <3>1. calls' \subseteq calls BY <1>11 DEF startPlayback
    <3> QED BY <1>11, <2>2, <3>1, StartedPlayback, StartedTimers DEF OwnIsCurrent
  <2> QED BY <2>1, <2>2
<1>12. ASSUME NEW k \in calls, endTrack(k) PROVE OwnIsCurrent'
  <2>1. CASE playing.track = k.track
    <3>1. \A tm \in timers' : ~tm.own /\ tm.op # "end"
      BY <1>12, <2>1, DisownTimers DEF endTrack
    <3>2. \A j \in calls' : ~j.own
      <4>1. k.by \in Callers BY DEF Calls
      <4> QED BY <1>12, <2>1, <4>1, CallTypes, DisownCalls DEF endTrack
    <3>3. playing' = NoPlayback BY <1>12, <2>1 DEF endTrack
    <3> QED BY <3>1, <3>2, <3>3, NoPlaybackType DEF OwnIsCurrent
  <2>2. CASE playing.track # k.track
    BY <1>12, <2>2 DEF endTrack, OwnIsCurrent
  <2> QED BY <2>1, <2>2
<1>13. CASE Fire
  <2>1. PICK tm \in timers : TimerFires(tm) BY <1>13 DEF Fire
  <2> QED BY <2>1, FiredTimer DEF OwnIsCurrent
<1>14. CASE Tick
  <2>1. UNCHANGED calls BY <1>14 DEF Tick
  <2> QED BY <1>14, <2>1, TickedTimers, TickedPlayback DEF OwnIsCurrent
<1>15. CASE cleanupMedia
  <2>1. \A k \in calls' : ~k.own BY <1>15, DisownCalls DEF cleanupMedia
  <2> QED BY <1>15, <2>1, NoPlaybackType DEF cleanupMedia, OwnIsCurrent
<1>16. CASE UNCHANGED vars
  BY <1>16 DEF vars, OwnIsCurrent
<1> QED BY <1>1, <1>2, <1>3, <1>4, <1>5, <1>6, <1>7, <1>8, <1>9, <1>10, <1>11, <1>12,
           <1>13, <1>14, <1>15, <1>16 DEF Next, Run

(* A step that keeps the timers, the times of the playback and the calls   *)
(* that start or end a track.                                              *)
Untimed ==
    /\ \A f \in {"track", "started", "paused", "lead", "s"} : playing'[f] = playing[f]
    /\ UNCHANGED timers
    /\ \A k \in calls : k.op \in {"start", "end"} => k \in calls'

LEMMA UntimedFields ==
    Untimed => /\ playing'.track = playing.track /\ playing'.started = playing.started
               /\ playing'.paused = playing.paused /\ playing'.lead = playing.lead
               /\ playing'.s = playing.s
BY DEF Untimed

(* What is not untimed.                                                    *)
LEMMA WhatMovesTheTimers ==
    ASSUME TypeOK, [Next]_vars
    PROVE  \/ Untimed
           \/ \E u \in Users : Pause(u) \/ Resume(u) \/ \E ms \in Seeks : SeekTo(u, ms)
           \/ \E k \in calls : maybeStart(k) \/ startPlayback(k) \/ endTrack(k)
           \/ Fire \/ Tick \/ cleanupMedia
<1> USE DEF TypeOK
<1>1. ASSUME NEW u \in Users, Join(u) \/ Leave(u) \/ Skip(u) PROVE Untimed
  BY <1>1 DEF Join, Leave, Skip, Untimed
<1>2. ASSUME NEW u \in Users, NEW t \in Tracks, RemoveTrack(u, t) PROVE Untimed
  BY <1>2 DEF RemoveTrack, Untimed
<1>3. ASSUME NEW u \in Users, NEW t \in Tracks, MarkReady(u, t) PROVE Untimed
  <2>1. \A f \in {"track", "started", "paused", "lead", "s"} : playing'[f] = playing[f]
    BY <1>3 DEF MarkReady, Playbacks
  <2> QED BY <1>3, <2>1 DEF MarkReady, Untimed
<1>4. ASSUME NEW t \in Tracks, NEW st \in Statuses, UpsertTrack(t, st) PROVE Untimed
  BY <1>4 DEF UpsertTrack, Untimed
<1>5. ASSUME NEW k \in calls, recheckReady(k) PROVE Untimed
  BY <1>5 DEF recheckReady, Untimed
<1>6. CASE UNCHANGED vars
  BY <1>6 DEF vars, Untimed
<1> QED BY <1>1, <1>2, <1>3, <1>4, <1>5, <1>6 DEF Next, Run

(* Every step keeps a deadline for the track being prepared.               *)
LEMMA PrepareStep == IInv /\ [Next]_vars => PrepareHasDeadline'
<1> SUFFICES ASSUME IInv, [Next]_vars PROVE PrepareHasDeadline'
  OBVIOUS
<1>0. TypeOK /\ OwnIsCurrent /\ PrepareHasDeadline /\ Proper(queue, Tracks)
  BY DEF IInv, PlaybackInv, TypeOK, QueueHasPlaying, Proper
<1>1. CASE Untimed
  BY <1>0, <1>1, UntimedFields DEF Untimed, PrepareHasDeadline
<1>2. ASSUME NEW u \in Users, Pause(u) PROVE PrepareHasDeadline'
  BY <1>0, <1>2, PausedPlayback DEF TypeOK, PrepareHasDeadline
<1>3. ASSUME NEW u \in Users, Resume(u) PROVE PrepareHasDeadline'
  BY <1>0, <1>3, ResumedPlayback DEF TypeOK, PrepareHasDeadline
<1>4. ASSUME NEW u \in Users, NEW ms \in Seeks, SeekTo(u, ms) PROVE PrepareHasDeadline'
  BY <1>0, <1>4, SoughtPlayback DEF TypeOK, PrepareHasDeadline
<1>5. ASSUME NEW k \in calls, maybeStart(k) PROVE PrepareHasDeadline'
  <2>1. CASE UNCHANGED <<playing, timers>>
    BY <1>0, <1>5, <2>1 DEF maybeStart, PrepareHasDeadline
  <2>2. CASE \E n \in DOMAIN queue, d \in ReadyTimeouts :
               timers' = timers \cup ReadyTimer(queue[n].id, d)
    <3>1. \A t, d : \E tm \in ReadyTimer(t, d) : tm.op = "start" /\ tm.own
      BY DEF ReadyTimer
    <3> QED BY <2>2, <3>1 DEF PrepareHasDeadline
  <2> QED BY <1>5, <2>1, <2>2 DEF maybeStart, Chosen
<1>6. ASSUME NEW k \in calls, startPlayback(k) PROVE PrepareHasDeadline'
  <2>1. CASE playing.track = k.track /\ ~playing.started
    BY <1>0, <1>6, <2>1, StartedPlayback DEF TypeOK, PrepareHasDeadline
  <2>2. CASE ~(playing.track = k.track /\ ~playing.started)
    BY <1>0, <1>6, <2>2 DEF startPlayback, OwnIsCurrent, PrepareHasDeadline
  <2> QED BY <2>1, <2>2
<1>7. ASSUME NEW k \in calls, endTrack(k) PROVE PrepareHasDeadline'
  <2>1. CASE playing.track = k.track
    BY <1>7, <2>1, NoPlaybackType DEF endTrack, PrepareHasDeadline
  <2>2. CASE playing.track # k.track
    BY <1>0, <1>7, <2>2 DEF endTrack, PrepareHasDeadline
  <2> QED BY <2>1, <2>2
<1>8. CASE Fire
  <2>1. PICK tm \in timers : TimerFires(tm) BY <1>8 DEF Fire
  <2> QED BY <1>0, <2>1, FiredTimer DEF PrepareHasDeadline
<1>9. CASE Tick
  <2>1. UNCHANGED calls BY <1>9 DEF Tick
  <2> QED BY <1>0, <1>9, <2>1, TickedTimers, TickedPlayback DEF TypeOK, PrepareHasDeadline
<1>10. CASE cleanupMedia
  BY <1>10, NoPlaybackType DEF cleanupMedia, PrepareHasDeadline
<1> QED BY <1>0, <1>1, <1>2, <1>3, <1>4, <1>5, <1>6, <1>7, <1>8, <1>9, <1>10,
           WhatMovesTheTimers

(* Every step keeps the end timer at the end of the track.                 *)
LEMMA EndStep == IInv /\ [Next]_vars => EndOnTime'
<1> SUFFICES ASSUME IInv, [Next]_vars PROVE EndOnTime'
  OBVIOUS
<1>0. TypeOK /\ OwnIsCurrent /\ EndOnTime /\ Proper(queue, Tracks)
  BY DEF IInv, PlaybackInv, TypeOK, QueueHasPlaying, Proper
<1>1. CASE Untimed
  BY <1>0, <1>1, UntimedFields DEF Untimed, EndOnTime
<1>2. ASSUME NEW u \in Users, Pause(u) PROVE EndOnTime'
  <2>1. \A tm \in timers' : tm.op # "end"
    BY <1>0, <1>2, PausedPlayback DEF TypeOK, Pause, scheduleEnd
  <2> QED BY <1>0, <1>2, <2>1, PausedPlayback DEF TypeOK, EndOnTime
<1>3. ASSUME NEW u \in Users, Resume(u) PROVE EndOnTime'
  <2>1. timers' = scheduleEnd(playing', timers) BY <1>3 DEF Resume
  <2> QED BY <1>0, <1>3, <2>1, ResumedPlayback, ScheduleEnd, EndTimerInTime
          DEF TypeOK, EndOnTime
<1>4. ASSUME NEW u \in Users, NEW ms \in Seeks, SeekTo(u, ms) PROVE EndOnTime'
  <2>1. timers' = scheduleEnd(playing', timers) BY <1>4 DEF SeekTo
  <2> QED BY <1>0, <1>4, <2>1, SoughtPlayback, ScheduleEnd, EndTimerInTime
          DEF TypeOK, EndOnTime
<1>5. ASSUME NEW k \in calls, maybeStart(k) PROVE EndOnTime'
  <2>1. CASE UNCHANGED <<playing, timers>>
    BY <1>0, <1>5, <2>1 DEF maybeStart, EndOnTime
  <2>2. ASSUME NEW n \in DOMAIN queue, NEW d \in ReadyTimeouts, ~IsPlaying,
               IsFirstReady(queue, n),
               playing' = [NoPlayback EXCEPT !.track = queue[n].id],
               timers' = timers \cup ReadyTimer(queue[n].id, d)
        PROVE  EndOnTime'
    <3>1. queue[n].id \in Tracks
      BY <1>0, <2>2, FirstReadyProperties DEF TypeOK
    <3>2. ~playing'.started BY <2>2, <3>1, NoPlaybackType
    <3>3. \A tm \in timers' : tm.op # "end"
      BY <1>0, <2>2 DEF ReadyTimer, OwnIsCurrent
    <3> QED BY <3>2, <3>3 DEF EndOnTime
  <2> QED BY <1>5, <2>1, <2>2 DEF maybeStart, Chosen
<1>6. ASSUME NEW k \in calls, startPlayback(k) PROVE EndOnTime'
  <2>1. CASE playing.track = k.track /\ ~playing.started
    BY <1>0, <1>6, <2>1, StartedPlayback, StartedTimers, EndTimerInTime
       DEF TypeOK, EndOnTime
  <2>2. CASE ~(playing.track = k.track /\ ~playing.started)
    BY <1>0, <1>6, <2>2 DEF startPlayback, EndOnTime
  <2> QED BY <2>1, <2>2
<1>7. ASSUME NEW k \in calls, endTrack(k) PROVE EndOnTime'
  <2>1. CASE playing.track = k.track
    <3>1. \A tm \in timers' : tm.op # "end"
      BY <1>0, <1>7, <2>1, DisownTimers DEF TypeOK, endTrack
    <3> QED BY <1>7, <2>1, <3>1, NoPlaybackType DEF endTrack, EndOnTime
  <2>2. CASE playing.track # k.track
    BY <1>0, <1>7, <2>2 DEF endTrack, OwnIsCurrent, EndOnTime
  <2> QED BY <2>1, <2>2
<1>8. CASE Fire
  <2>1. PICK tm \in timers : TimerFires(tm) BY <1>8 DEF Fire
  <2> QED BY <1>0, <2>1, FiredTimer DEF EndOnTime
<1>9. CASE Tick
  <2>1. calls = {} BY <1>9 DEF Tick
  <2>2. \A m \in timers' : m.op = "end" => playing'.started /\ ~playing'.paused
    BY <1>0, <1>9, TickedTimers, TickedPlayback DEF TypeOK, EndOnTime
  <2>3. SUFFICES ASSUME playing'.started, ~playing'.paused, Duration[playing'.track] > 0
                 PROVE \E m \in timers' :
                    /\ m.op = "end" /\ m.own /\ m.track = playing'.track
                    /\ m.in = playing'.lead + EndGrace
                                + AtLeastZero(Duration[playing'.track] - playing'.s)
    BY <2>2 DEF EndOnTime
  <2>4. /\ playing.started /\ ~playing.paused /\ Duration[playing.track] > 0
        /\ playing'.lead = playing.lead - 1 /\ playing'.track = playing.track
        /\ playing'.s = playing.s
    BY <1>0, <1>9, <2>3, TickedPlayback DEF TypeOK
  <2>5. PICK tm \in timers :
          /\ tm.op = "end" /\ tm.own /\ tm.track = playing.track
          /\ tm.in = playing.lead + EndGrace
                       + AtLeastZero(Duration[playing.track] - playing.s)
    BY <1>0, <2>1, <2>4 DEF EndOnTime
  <2>6. PICK m \in timers' : /\ m.op = tm.op /\ m.own = tm.own /\ m.track = tm.track
                             /\ m.in = tm.in - 1
    BY <1>0, <1>9, TickedTimers DEF TypeOK
  <2> DEFINE d == AtLeastZero(Duration[playing.track] - playing.s)
  <2>7. playing.track \in Tracks BY <1>0, <2>4 DEF TypeOK, Playbacks, OwnIsCurrent
  <2>8. d \in Nat /\ playing.lead \in Int
    BY <1>0, <2>7, AtLeastZeroNat DEF TypeOK, Playbacks
  <2>9. tm.in = playing.lead + EndGrace + d BY <2>5
  <2> HIDE DEF d
  <2>10. m.in = playing'.lead + EndGrace + d
    BY <2>4, <2>6, <2>8, <2>9
  <2> QED BY <2>4, <2>5, <2>6, <2>10 DEF d
<1>10. CASE cleanupMedia
  BY <1>0, <1>10, NoPlaybackType DEF cleanupMedia, OwnIsCurrent, EndOnTime
<1> QED BY <1>0, <1>1, <1>2, <1>3, <1>4, <1>5, <1>6, <1>7, <1>8, <1>9, <1>10,
           WhatMovesTheTimers

-----------------------------------------------------------------------------
(* THEOREMS                                                                *)

(* The inductive invariant holds in every state of a signal room.          *)
THEOREM PlaybackInductive == Spec => []IInv
<1>1. Init => IInv
  <2> SUFFICES ASSUME Init PROVE IInv
    OBVIOUS
  <2>1. PrepareHasDeadline /\ EndOnTime
    BY NoPlaybackType DEF Init, PrepareHasDeadline, EndOnTime
  <2> QED BY <2>1, InitPlaybackInv DEF IInv
<1>2. IInv /\ [Next]_vars => IInv'
  BY TypeStep, QueueStep, PickUpStep, OwnStep, PrepareStep, EndStep DEF IInv, PlaybackInv
<1> QED BY <1>1, <1>2, PTL DEF Spec

(* A signal room is never idle on a ready track, the track that plays is   *)
(* in the queue, and what counts as the playback's own timer or call is    *)
(* about it: for every order of handlers, pipeline goroutines and timer    *)
(* callbacks between the unlocks of room.mu.                               *)
THEOREM PlaybackSafe == Spec => []PlaybackInv
<1>1. IInv => PlaybackInv BY DEF IInv
<1> QED BY <1>1, PlaybackInductive, PTL

(* A track that is prepared has its readyTimer running or its start under  *)
(* way.                                                                    *)
THEOREM PreparationIsBounded == Spec => []PrepareHasDeadline
<1>1. IInv => PrepareHasDeadline BY DEF IInv
<1> QED BY <1>1, PlaybackInductive, PTL

(* A track of known length that plays has its end timer set for the moment *)
(* it ends, after any sequence of starts, pauses, resumes and seeks.       *)
THEOREM EndTimerIsRight == Spec => []EndOnTime
<1>1. IInv => EndOnTime BY DEF IInv
<1> QED BY <1>1, PlaybackInductive, PTL

(* The step that makes the last client ready, or takes it away, leaves the *)
(* start of the track under way.                                           *)
THEOREM ReadinessStarts == Spec => StartFollowsReadiness
<1> DEFINE Completes ==
             /\ IsPlaying /\ ~playing.started /\ ~AllReady(playing, clients)
             /\ playing'.track = playing.track /\ ~playing'.started
             /\ clients' # {} /\ AllReady(playing', clients')
           UnderWay == \E k \in calls' :
                         \/ k.op = "recheck"
                         \/ k.op = "start" /\ k.track = playing.track
<1>1. ASSUME PlaybackInv, [Next]_vars PROVE [Completes => UnderWay]_vars
  <2> SUFFICES ASSUME Next, Completes PROVE UnderWay
    BY <1>1 DEF vars, AllReady
  <2>0. TypeOK /\ playing \in Playbacks /\ timers \subseteq Timers /\ calls \subseteq Calls
    BY <1>1 DEF PlaybackInv, TypeOK
  <2>1. ASSUME NEW u \in Users, Join(u) PROVE FALSE
    BY <2>1 DEF Join, AllReady
  <2>2. ASSUME NEW u \in Users, Leave(u) PROVE UnderWay
    <3>1. RecheckCall(u).op = "recheck" BY DEF RecheckCall
    <3> QED BY <2>2, <3>1 DEF Leave
  <2>3. ASSUME NEW u \in Users, NEW t \in Tracks, MarkReady(u, t) PROVE UnderWay
    <3>1. OwnCall("start", t, u).op = "start" /\ OwnCall("start", t, u).track = t
      BY DEF OwnCall
    <3>2. OwnCall("start", t, u) \in calls' /\ playing.track = t
      BY <2>3 DEF MarkReady
    <3> QED BY <3>1, <3>2
  <2>4. ASSUME NEW u \in Users, Skip(u) \/ \E t \in Tracks : RemoveTrack(u, t)
        PROVE  FALSE
    BY <2>4 DEF Skip, RemoveTrack, AllReady
  <2>5. ASSUME NEW u \in Users, Pause(u) \/ Resume(u) \/ \E ms \in Seeks : SeekTo(u, ms)
        PROVE  FALSE
    BY <2>5 DEF Pause, Resume, SeekTo, Control
  <2>6. ASSUME NEW t \in Tracks, NEW st \in Statuses, UpsertTrack(t, st) PROVE FALSE
    BY <2>6 DEF UpsertTrack, AllReady
  <2>7. ASSUME NEW k \in calls, maybeStart(k) \/ recheckReady(k) PROVE FALSE
    BY <2>7 DEF maybeStart, recheckReady, AllReady
  <2>8. ASSUME NEW k \in calls, startPlayback(k) PROVE FALSE
    <3>1. CASE playing.track = k.track
      BY <2>0, <2>8, <3>1, StartedPlayback
    <3>2. CASE playing.track # k.track
      BY <2>8, <3>2 DEF startPlayback, AllReady
    <3> QED BY <3>1, <3>2
  <2>9. ASSUME NEW k \in calls, endTrack(k) PROVE FALSE
    BY <2>9, NoPlaybackType DEF endTrack, AllReady
  <2>10. CASE Fire
    BY <2>10 DEF Fire, TimerFires, AllReady
  <2>11. CASE Tick
    <3>1. UNCHANGED <<playing, clients>> BY <2>0, <2>11, TickedPlayback DEF Tick
    <3> QED BY <3>1 DEF AllReady
  <2>12. CASE cleanupMedia
    BY <2>12, NoPlaybackType DEF cleanupMedia
  <2> QED BY <2>1, <2>2, <2>3, <2>4, <2>5, <2>6, <2>7, <2>8, <2>9, <2>10, <2>11, <2>12
          DEF Next, Run
<1> QED BY <1>1, PlaybackSafe, PTL DEF Spec, StartFollowsReadiness

-----------------------------------------------------------------------------
(* REFINEMENT                                                              *)

(* The four phases, told apart by two flags.                               *)
LEMMA PhaseValue ==
    OwnIsCurrent =>
      /\ ~IsPlaying => Phase = "idle"
      /\ IsPlaying /\ ~playing.started => Phase = "preparing"
      /\ playing.started /\ ~playing.paused => Phase = "playing"
      /\ playing.started /\ playing.paused => Phase = "paused"
BY DEF OwnIsCurrent, Phase

(* A step that keeps the track and both flags keeps the phase.             *)
LEMMA SamePhase ==
    playing'.track = playing.track /\ playing'.started = playing.started
      /\ playing'.paused = playing.paused => Phase' = Phase
BY DEF Phase

(* Player's queue is the queue of this module.                             *)
LEMMA SameQueueOperators ==
    /\ \A q, t, st : P!Put(q, t, st) = Put(q, t, st)
    /\ \A q, t : P!Without(q, t) = Without(q, t)
    /\ \A q, n : P!IsFirstReady(q, n) = IsFirstReady(q, n)
    /\ P!Statuses = Statuses
BY DEF P!Put, Put, P!Upsert, Upsert, P!Entry, Entry, P!Has, Has, P!IndexOf, IndexOf,
       P!Without, Without, P!IsFirstReady, IsFirstReady, P!Statuses, Statuses

(* Every step of a signal room is a step of Player or changes nothing of   *)
(* it.                                                                     *)
LEMMA PlayerStep ==
    ASSUME PlaybackInv, OwnIsCurrent', [Next]_vars
    PROVE  [P!Next]_(P!vars)
<1>0. /\ TypeOK /\ OwnIsCurrent /\ playing \in Playbacks /\ calls \subseteq Calls
      /\ Proper(queue, Tracks)
  BY DEF PlaybackInv, TypeOK, QueueHasPlaying, Proper
<1> DEFINE Same == queue' = queue /\ playing'.track = playing.track /\ Phase' = Phase
<1>s. Same => [P!Next]_(P!vars) BY DEF P!vars
<1>p. /\ ~IsPlaying' => Phase' = "idle"
      /\ IsPlaying' /\ ~playing'.started => Phase' = "preparing"
      /\ playing'.started /\ ~playing'.paused => Phase' = "playing"
      /\ playing'.started /\ playing'.paused => Phase' = "paused"
  BY DEF OwnIsCurrent, Phase
<1> USE DEF P!Next
<1>1. ASSUME NEW u \in Users, Join(u) \/ Leave(u) \/ Skip(u) PROVE Same
  BY <1>1, SamePhase DEF Join, Leave, Skip
<1>2. ASSUME NEW u \in Users, Pause(u) PROVE P!Pause
  <2>1. playing.started /\ ~playing.paused /\ queue' = queue BY <1>2 DEF Pause, Control
  <2>2. playing'.track = playing.track /\ playing'.started /\ playing'.paused
    BY <1>0, <1>2, PausedPlayback
  <2> QED BY <1>0, <1>p, <2>1, <2>2, PhaseValue DEF P!Pause
<1>3. ASSUME NEW u \in Users, Resume(u) PROVE P!Resume
  <2>1. playing.started /\ playing.paused /\ queue' = queue BY <1>3 DEF Resume, Control
  <2>2. playing'.track = playing.track /\ playing'.started /\ ~playing'.paused
    BY <1>0, <1>3, ResumedPlayback
  <2> QED BY <1>0, <1>p, <2>1, <2>2, PhaseValue DEF P!Resume
<1>4. ASSUME NEW u \in Users, NEW ms \in Seeks, SeekTo(u, ms) PROVE Same
  <2>1. queue' = queue BY <1>4 DEF SeekTo, Control
  <2>2. playing'.track = playing.track /\ playing'.started = playing.started
    <3>1. /\ playing'.track = playing.track /\ playing.started /\ playing'.started
          /\ playing' \in Playbacks
      BY <1>0, <1>4, SoughtPlayback
    <3> QED BY <1>0, <3>1 DEF Playbacks
  <2>3. playing'.paused = playing.paused
    BY <1>0, <1>4, SoughtPlayback
  <2> QED BY <2>1, <2>2, <2>3, SamePhase
<1>5. ASSUME NEW u \in Users, NEW t \in Tracks, RemoveTrack(u, t) PROVE P!Remove(t)
  BY <1>5, SameQueueOperators, SamePhase DEF RemoveTrack, P!Remove
<1>6. ASSUME NEW u \in Users, NEW t \in Tracks, MarkReady(u, t) PROVE Same
  <2>1. /\ playing'.track = playing.track /\ playing'.started = playing.started
        /\ playing'.paused = playing.paused
    BY <1>0, <1>6 DEF MarkReady, Playbacks
  <2> QED BY <1>6, <2>1, SamePhase DEF MarkReady
<1>7. ASSUME NEW t \in Tracks, NEW st \in Statuses, UpsertTrack(t, st) PROVE P!Update(t, st)
  BY <1>7, SameQueueOperators, SamePhase DEF UpsertTrack, P!Update
<1>8. ASSUME NEW k \in calls, maybeStart(k) PROVE Same \/ P!Pick
  <2>1. CASE UNCHANGED <<playing, timers>>
    BY <1>8, <2>1, SamePhase DEF maybeStart
  <2>2. ASSUME NEW n \in DOMAIN queue, ~IsPlaying, IsFirstReady(queue, n),
               playing' = [NoPlayback EXCEPT !.track = queue[n].id]
        PROVE  P!Pick
    <3>1. queue[n].id \in Tracks BY <1>0, <2>2, FirstReadyProperties DEF TypeOK
    <3>2. playing'.track = queue[n].id /\ ~playing'.started
      BY <2>2, <3>1, NoPlaybackType
    <3>3. Phase' = "preparing" BY <1>p, <3>1, <3>2
    <3>4. queue' = queue BY <1>8 DEF maybeStart
    <3> QED BY <2>2, <3>2, <3>3, <3>4, SameQueueOperators DEF P!Pick
  <2> QED BY <1>8, <2>1, <2>2 DEF maybeStart, Chosen
<1>9. ASSUME NEW k \in calls, recheckReady(k) PROVE Same
  BY <1>9, SamePhase DEF recheckReady
<1>10. ASSUME NEW k \in calls, startPlayback(k) PROVE Same \/ P!Start
  <2>1. CASE playing.track = k.track /\ ~playing.started
    <3>1. /\ playing'.track = playing.track /\ playing'.started
          /\ playing'.paused = playing.paused /\ IsPlaying
      BY <1>0, <1>10, <2>1, StartedPlayback
    <3>2. ~playing.paused BY <1>0, <2>1 DEF OwnIsCurrent
    <3>3. queue' = queue BY <1>10 DEF startPlayback
    <3> QED BY <1>0, <1>p, <2>1, <3>1, <3>2, <3>3, PhaseValue DEF P!Start
  <2>2. CASE ~(playing.track = k.track /\ ~playing.started)
    BY <1>10, <2>2, SamePhase DEF startPlayback
  <2> QED BY <2>1, <2>2
<1>11. ASSUME NEW k \in calls, endTrack(k) PROVE Same \/ P!Finish
  <2>1. CASE playing.track = k.track
    <3>1. k.track \in Tracks BY <1>0, <1>11 DEF endTrack, Calls
    <3>2. queue' = Without(queue, playing.track) /\ playing'.track = Nil
      BY <1>11, <2>1, NoPlaybackType DEF endTrack
    <3> QED BY <1>p, <2>1, <3>1, <3>2, SameQueueOperators DEF P!Finish
  <2>2. CASE playing.track # k.track
    BY <1>11, <2>2, SamePhase DEF endTrack
  <2> QED BY <2>1, <2>2
<1>12. CASE Fire
  BY <1>12, <1>s, SamePhase DEF Fire, TimerFires
<1>13. CASE Tick
  <2>1. queue' = queue BY <1>13 DEF Tick
  <2> QED BY <1>0, <1>13, <1>s, <2>1, TickedPlayback, SamePhase
<1>14. CASE cleanupMedia
  <2>1. P!Clear BY <1>14, <1>p, NoPlaybackType DEF cleanupMedia, P!Clear
  <2> QED BY <2>1
<1>15. CASE UNCHANGED vars
  BY <1>15, <1>s, SamePhase DEF vars
<1> HIDE DEF Same
<1> QED BY <1>s, <1>1, <1>2, <1>3, <1>4, <1>5, <1>6, <1>7, <1>8, <1>9, <1>10, <1>11,
           <1>12, <1>13, <1>14, <1>15, SameQueueOperators DEF Next, Run

(* A signal room implements Player: it works its queue off in order, one   *)
(* track at a time, with the steps of handlers, pipeline goroutines and    *)
(* timer callbacks interleaved in any way.                                 *)
THEOREM SignalRoomImplementsPlayer == Spec => ImplementsPlayer
<1>1. Init => P!Init
  BY NoPlaybackType DEF Init, P!Init, Phase
<1>2. IInv /\ IInv' /\ [Next]_vars => [P!Next]_(P!vars)
  BY PlayerStep DEF IInv, PlaybackInv
<1> QED BY <1>1, <1>2, PlaybackInductive, PTL DEF Spec, ImplementsPlayer, P!Spec
=============================================================================
