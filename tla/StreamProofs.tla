---------------------------- MODULE StreamProofs ----------------------------
(***************************************************************************)
(* Stream for every number of users, tracks, calls and pumps: the room and *)
(* its broadcaster keep StreamInv, no pump sleeps for ever, a track loses  *)
(* its pump in one way only, and the room implements Player.               *)
(***************************************************************************)
EXTENDS Stream, SequenceTheorems, TLAPS

(* What the operations on room.queue do to a queue without duplicates.      *)

(* A queue of tracks of T in which no track comes twice.                   *)
Proper(q, T) == q \in Queues(T) /\ NoDuplicates(q)

(* The elements of a queue.                                                *)
LEMMA QueueElements ==
    ASSUME NEW T, NEW q \in Queues(T)
    PROVE  /\ Len(q) \in Nat /\ DOMAIN q = 1..Len(q)
           /\ \A n \in 1..Len(q) : q[n] \in [id : T, status : Statuses]
BY LenProperties, ElementOfSeq DEF Queues

(* The empty queue.                                                        *)
LEMMA EmptyQueue ==
    ASSUME NEW T
    PROVE  /\ Proper(<<>>, T) /\ ~SomeReady(<<>>)
           /\ \A t : ~Has(<<>>, t)
BY EmptySeq DEF Proper, Queues, NoDuplicates, SomeReady, Has

(* In a queue without duplicates IndexOf finds the one entry of a track.   *)
LEMMA IndexOfProperties ==
    ASSUME NEW T, NEW q, Proper(q, T), NEW t, Has(q, t)
    PROVE  /\ IndexOf(q, t) \in 1..Len(q)
           /\ q[IndexOf(q, t)].id = t
           /\ \A n \in 1..Len(q) : q[n].id = t => n = IndexOf(q, t)
<1>1. Len(q) \in Nat /\ DOMAIN q = 1..Len(q)
  BY QueueElements DEF Proper
<1>2. PICK n \in DOMAIN q : q[n].id = t
  BY DEF Has
<1>3. \A m \in 1..(n-1) : q[m].id # t
  BY <1>1, <1>2 DEF Proper, NoDuplicates
<1>4. /\ IndexOf(q, t) \in DOMAIN q
      /\ q[IndexOf(q, t)].id = t
  BY <1>2, <1>3 DEF IndexOf
<1> QED BY <1>1, <1>4 DEF Proper, NoDuplicates

(* UpsertTrack keeps every other track and has the one it was given.       *)
LEMMA PutProperties ==
    ASSUME NEW T, NEW q, Proper(q, T), NEW t \in T, NEW st \in Statuses
    PROVE  /\ Proper(Put(q, t, st), T)
           /\ \A u : Has(Put(q, t, st), u) <=> Has(q, u) \/ u = t
<1> DEFINE e == Entry(t, st)
<1>1. e \in [id : T, status : Statuses] /\ e.id = t
  BY DEF Entry
<1>2. Len(q) \in Nat /\ DOMAIN q = 1..Len(q) /\ q \in Seq([id : T, status : Statuses])
  BY QueueElements DEF Proper, Queues
<1> HIDE DEF e
<1>3. CASE Has(q, t)
  <2> DEFINE i == IndexOf(q, t)
  <2>1. i \in 1..Len(q) /\ q[i].id = t /\ \A n \in 1..Len(q) : q[n].id = t => n = i
    BY <1>3, IndexOfProperties
  <2> HIDE DEF i
  <2> DEFINE r == [q EXCEPT ![i] = e]
  <2>2. Put(q, t, st) = r
    BY <1>1, <1>3 DEF Put, Upsert, e, i
  <2>3. /\ r \in Seq([id : T, status : Statuses]) /\ Len(r) = Len(q)
        /\ \A j \in 1..Len(q) : r[j] = IF j = i THEN e ELSE q[j]
    BY <1>1, <1>2, <2>1, ExceptSeq
  <2>4. DOMAIN r = 1..Len(q)
    BY <1>2
  <2> HIDE DEF r
  <2>5. \A j \in 1..Len(q) : r[j].id = q[j].id
    BY <1>1, <2>1, <2>3
  <2>6. NoDuplicates(r)
    BY <1>2, <2>4, <2>5 DEF Proper, NoDuplicates
  <2>7. \A u : Has(r, u) <=> Has(q, u) \/ u = t
    BY <1>2, <1>3, <2>4, <2>5 DEF Has
  <2> QED BY <2>2, <2>3, <2>6, <2>7 DEF Proper, Queues
<1>4. CASE ~Has(q, t)
  <2> DEFINE r == Append(q, e)
  <2>1. Put(q, t, st) = r
    BY <1>1, <1>4 DEF Put, Upsert, e
  <2>2. /\ r \in Seq([id : T, status : Statuses]) /\ Len(r) = Len(q) + 1
        /\ \A j \in 1..Len(q) : r[j] = q[j]
        /\ r[Len(q) + 1] = e
    BY <1>1, <1>2, AppendProperties
  <2> HIDE DEF r
  <2>3. DOMAIN r = 1..(Len(q) + 1)
    BY <2>2, LenProperties
  <2>4. \A j \in 1..Len(q) : q[j].id # t
    BY <1>2, <1>4 DEF Has
  <2>5. NoDuplicates(r)
    BY <1>1, <1>2, <2>2, <2>3, <2>4 DEF Proper, NoDuplicates
  <2>6. \A u : Has(r, u) <=> Has(q, u) \/ u = t
    <3>1. \A u : Has(q, u) => Has(r, u)
      BY <1>2, <2>2, <2>3 DEF Has
    <3>2. Has(r, t)
      BY <1>1, <1>2, <2>2, <2>3 DEF Has
    <3>3. \A u : Has(r, u) => Has(q, u) \/ u = t
      BY <1>1, <1>2, <2>2, <2>3 DEF Has
    <3> QED BY <3>1, <3>2, <3>3
  <2> QED BY <2>1, <2>2, <2>5, <2>6 DEF Proper, Queues
<1> QED BY <1>3, <1>4

(* Removing a track keeps every other one, with its status.                *)
LEMMA WithoutProperties ==
    ASSUME NEW T, NEW q, Proper(q, T), NEW t
    PROVE  /\ Proper(Without(q, t), T)
           /\ \A u : Has(Without(q, t), u) <=> Has(q, u) /\ u # t
           /\ SomeReady(Without(q, t)) => SomeReady(q)
<1>1. Len(q) \in Nat /\ DOMAIN q = 1..Len(q)
      /\ \A n \in 1..Len(q) : q[n] \in [id : T, status : Statuses]
  BY QueueElements DEF Proper
<1>2. CASE ~Has(q, t)
  BY <1>2 DEF Without
<1>3. CASE Has(q, t)
  <2> DEFINE i == IndexOf(q, t)
             r == [n \in 1..(Len(q) - 1) |-> IF n < i THEN q[n] ELSE q[n + 1]]
  <2>1. i \in 1..Len(q) /\ q[i].id = t /\ \A n \in 1..Len(q) : q[n].id = t => n = i
    BY <1>3, IndexOfProperties
  <2>2. Without(q, t) = r
    BY <1>3 DEF Without
  <2> HIDE DEF i
  <2>3. Len(q) - 1 \in Nat
    BY <1>1, <2>1
  <2>4. r \in [1..(Len(q) - 1) -> [id : T, status : Statuses]]
    BY <1>1, <2>1
  <2>5. r \in Queues(T)
    BY <2>3, <2>4, SeqDef DEF Queues
  <2>6. DOMAIN r = 1..(Len(q) - 1)
        /\ \A n \in 1..(Len(q) - 1) : r[n] = IF n < i THEN q[n] ELSE q[n + 1]
    OBVIOUS
  <2> HIDE DEF r
  <2>7. NoDuplicates(r)
    BY <1>1, <2>1, <2>6 DEF Proper, NoDuplicates
  <2>8. ASSUME NEW u, Has(r, u) PROVE Has(q, u) /\ u # t
    <3>1. PICK n \in 1..(Len(q) - 1) : r[n].id = u
      BY <2>6, <2>8 DEF Has
    <3> DEFINE m == IF n < i THEN n ELSE n + 1
    <3>2. m \in 1..Len(q) /\ r[n] = q[m] /\ m # i
      BY <1>1, <2>1, <2>6
    <3> HIDE DEF m
    <3> QED BY <1>1, <2>1, <3>1, <3>2 DEF Has
  <2>9. ASSUME NEW u, Has(q, u), u # t PROVE Has(r, u)
    <3>1. PICK m \in 1..Len(q) : q[m].id = u
      BY <1>1, <2>9 DEF Has
    <3>2. m # i BY <2>1, <2>9, <3>1
    <3> DEFINE n == IF m < i THEN m ELSE m - 1
    <3>3. n \in 1..(Len(q) - 1) /\ r[n] = q[m]
      BY <1>1, <2>1, <2>6, <3>2
    <3> HIDE DEF n
    <3> QED BY <2>6, <3>1, <3>3 DEF Has
  <2>10. SomeReady(r) => SomeReady(q)
    <3> SUFFICES ASSUME NEW n \in 1..(Len(q) - 1), r[n].status = "ready"
                 PROVE SomeReady(q)
      BY <2>6 DEF SomeReady
    <3> DEFINE m == IF n < i THEN n ELSE n + 1
    <3>1. m \in 1..Len(q) /\ r[n] = q[m]
      BY <1>1, <2>1, <2>6
    <3> HIDE DEF m
    <3> QED BY <1>1, <3>1 DEF SomeReady
  <2> QED BY <2>2, <2>5, <2>7, <2>8, <2>9, <2>10 DEF Proper
<1> QED BY <1>2, <1>3

(* The track that maybeStart picks is in the queue.                        *)
LEMMA FirstReadyProperties ==
    ASSUME NEW T, NEW q \in Queues(T), NEW n, IsFirstReady(q, n)
    PROVE  q[n].id \in T /\ Has(q, q[n].id) /\ SomeReady(q)
BY QueueElements DEF IsFirstReady, Has, SomeReady

-----------------------------------------------------------------------------
USE StreamAssumption

(* The inductive invariant.                                                *)
IInv == StreamInv /\ NoLostWakeup

(* Calls with a track and calls without.                                   *)
TrackOps == {"playStop", "playStart", "skipStop", "end"}

LEMMA CallFields ==
    /\ \A op, t, g : Call(op, t, g).op = op /\ Call(op, t, g).track = t /\ Call(op, t, g).by = g
    /\ \A op \in {"maybe", "closeStop", "closeMark"}, g \in Callers : Call(op, Nil, g) \in Calls
    /\ \A op \in TrackOps, t \in Tracks, g \in Callers : Call(op, t, g) \in Calls
    /\ \A k \in Calls : /\ k.by \in Callers
                        /\ k.op \in TrackOps => k.track \in Tracks
                        /\ k.op \notin TrackOps => k.track = Nil
                        /\ k.track = Nil <=> k.op \notin TrackOps
BY DEF Call, Calls, TrackOps

(* What a goroutine does next replaces what it did.                        *)
LEMMA ThenType ==
    ASSUME calls \subseteq Calls, NEW k \in calls, NEW op, NEW t, Then(k, op, t),
           (op \in TrackOps /\ t \in Tracks)
             \/ (op \in {"maybe", "closeStop", "closeMark"} /\ t = Nil)
    PROVE  /\ calls' \subseteq Calls /\ Call(op, t, k.by) \in calls'
           /\ \A l \in calls' : l \in calls \/ l = Call(op, t, k.by)
           /\ \A l \in calls : l = k \/ l \in calls'
<1>1. k.by \in Callers BY CallFields
<1>2. Call(op, t, k.by) \in Calls BY <1>1, CallFields
<1> QED BY <1>2 DEF Then

(* The states of a pump.                                                   *)
LEMMA PumpTypes ==
    /\ FreePump \in PumpStates
    /\ \A c \in PumpStates : /\ [c EXCEPT !.cancelled = TRUE] \in PumpStates
                             /\ [c EXCEPT !.at = "pump"] \in PumpStates
                             /\ [c EXCEPT !.at = "wait"] \in PumpStates
                             /\ [c EXCEPT !.at = "finish"] \in PumpStates
    /\ \A t \in Tracks : [FreePump EXCEPT !.at = "resolve", !.track = t] \in PumpStates
<1>1. Nil \in Tracks \cup {Nil} /\ \A t \in Tracks : t \in Tracks \cup {Nil} OBVIOUS
<1> QED BY <1>1, Zenon DEF FreePump, PumpStates

LEMMA PumpFields ==
    ASSUME NEW c \in PumpStates, NEW s
    PROVE  /\ [c EXCEPT !.cancelled = TRUE].at = c.at
           /\ [c EXCEPT !.cancelled = TRUE].track = c.track
           /\ [c EXCEPT !.cancelled = TRUE].cancelled
           /\ [c EXCEPT !.at = s].at = s
           /\ [c EXCEPT !.at = s].track = c.track
           /\ [c EXCEPT !.at = s].cancelled = c.cancelled
BY DEF PumpStates

(* Wake: every pump that waited is at the head of its loop.                *)
LEMMA WakeEffect ==
    ASSUME NEW pm \in [Pumps -> PumpStates]
    PROVE  /\ Wake(pm) \in [Pumps -> PumpStates]
           /\ \A p \in Pumps :
                /\ Wake(pm)[p].at # "wait"
                /\ Wake(pm)[p].at = "free" <=> pm[p].at = "free"
                /\ Wake(pm)[p].track = pm[p].track
                /\ Wake(pm)[p].cancelled = pm[p].cancelled
<1>1. ASSUME NEW p \in Pumps
      PROVE  /\ Wake(pm)[p] \in PumpStates
             /\ Wake(pm)[p].at # "wait"
             /\ Wake(pm)[p].at = "free" <=> pm[p].at = "free"
             /\ Wake(pm)[p].track = pm[p].track
             /\ Wake(pm)[p].cancelled = pm[p].cancelled
  <2>1. pm[p] \in PumpStates BY <1>1
  <2>2. Wake(pm)[p] = IF pm[p].at = "wait" THEN [pm[p] EXCEPT !.at = "pump"] ELSE pm[p]
    BY <1>1 DEF Wake
  <2>3. CASE pm[p].at = "wait"
    <3> DEFINE y == [pm[p] EXCEPT !.at = "pump"]
    <3>1. y \in PumpStates BY <2>1, PumpTypes
    <3>2. y.at = "pump" /\ y.track = pm[p].track /\ y.cancelled = pm[p].cancelled
      BY <2>1, PumpFields
    <3> HIDE DEF y
    <3>3. Wake(pm)[p] = y BY <2>2, <2>3 DEF y
    <3> QED BY <2>3, <3>1, <3>2, <3>3
  <2>4. CASE pm[p].at # "wait" BY <2>1, <2>2, <2>4
  <2> QED BY <2>3, <2>4
<1>2. Wake(pm) = [p \in Pumps |-> Wake(pm)[p]] BY DEF Wake
<1> QED BY <1>1, <1>2

(* Stop: the current pump is cancelled, and nobody sleeps any more.        *)
LEMMA StopEffect ==
    ASSUME TypeOK, Stop
    PROVE  /\ pump' \in [Pumps -> PumpStates] /\ cancel' = Nil /\ paused' = FALSE
           /\ closed' = closed
           /\ \A p \in Pumps :
                /\ pump'[p].at # "wait"
                /\ pump'[p].at = "free" <=> pump[p].at = "free"
                /\ pump'[p].track = pump[p].track
                /\ pump[p].cancelled => pump'[p].cancelled
<1> DEFINE pm == IF cancel = Nil THEN pump ELSE [pump EXCEPT ![cancel].cancelled = TRUE]
<1>1. pump' = Wake(pm) /\ cancel' = Nil /\ paused' = FALSE /\ closed' = closed BY DEF Stop
<1>2. /\ pm \in [Pumps -> PumpStates]
      /\ \A p \in Pumps : /\ pm[p].at = pump[p].at /\ pm[p].track = pump[p].track
                          /\ pump[p].cancelled => pm[p].cancelled
  <2>1. CASE cancel = Nil BY <2>1 DEF TypeOK
  <2>2. CASE cancel # Nil
    <3>1. cancel \in Pumps /\ pump[cancel] \in PumpStates BY <2>2 DEF TypeOK
    <3> DEFINE y == [pump[cancel] EXCEPT !.cancelled = TRUE]
    <3>2. y \in PumpStates BY <3>1, PumpTypes
    <3>3. y.at = pump[cancel].at /\ y.track = pump[cancel].track /\ y.cancelled
      BY <3>1, PumpFields
    <3>4. pm = [pump EXCEPT ![cancel] = y] BY <2>2
    <3> HIDE DEF y, pm
    <3>5. pump \in [Pumps -> PumpStates] BY DEF TypeOK
    <3>6. pm \in [Pumps -> PumpStates] BY <3>1, <3>2, <3>4, <3>5
    <3>7. pm[cancel] = y /\ \A p \in Pumps : p # cancel => pm[p] = pump[p]
      BY <3>1, <3>4, <3>5
    <3> QED BY <3>3, <3>6, <3>7
  <2> QED BY <2>1, <2>2
<1> HIDE DEF pm
<1>3. /\ Wake(pm) \in [Pumps -> PumpStates]
      /\ \A p \in Pumps : /\ Wake(pm)[p].at # "wait"
                          /\ Wake(pm)[p].at = "free" <=> pm[p].at = "free"
                          /\ Wake(pm)[p].track = pm[p].track
                          /\ Wake(pm)[p].cancelled = pm[p].cancelled
  BY <1>2, WakeEffect
<1> QED BY <1>1, <1>2, <1>3

(* A move of a pump touches that pump only.                                *)
LEMMA MoveEffect ==
    ASSUME TypeOK, NEW p \in Pumps, NEW s \in {"free", "pump", "wait", "finish"}, Move(p, s)
    PROVE  /\ pump' \in [Pumps -> PumpStates]
           /\ UNCHANGED <<roomVars, cancel, paused, closed>>
           /\ \A q \in Pumps : q # p => pump'[q] = pump[q]
           /\ pump'[p].at = s
           /\ s # "free" => pump'[p].track = pump[p].track /\ pump'[p].cancelled = pump[p].cancelled
<1> DEFINE y == IF s = "free" THEN FreePump ELSE [pump[p] EXCEPT !.at = s]
<1>1. pump \in [Pumps -> PumpStates] /\ pump[p] \in PumpStates BY DEF TypeOK
<1>2. y \in PumpStates BY <1>1, PumpTypes
<1>3. /\ y.at = s
      /\ s # "free" => y.track = pump[p].track /\ y.cancelled = pump[p].cancelled
  BY <1>1, PumpFields DEF FreePump
<1>4. pump' = [pump EXCEPT ![p] = y] BY DEF Move
<1> HIDE DEF y
<1> QED BY <1>1, <1>2, <1>3, <1>4 DEF Move

-----------------------------------------------------------------------------
(* The steps, by what they do to the pumps and the calls.                  *)

(* p goes on with its work.                                                *)
GoesOn(p) ==
    /\ pump[p].at \in {"resolve", "pump"} /\ pump'[p].at \in {"pump", "wait", "finish"}
    /\ pump'[p].at = "wait" => paused
    /\ pump'[p].track = pump[p].track /\ pump'[p].cancelled = pump[p].cancelled
    /\ UNCHANGED calls

(* p is at its end, and says so unless it was cancelled.                   *)
Ends(p) ==
    /\ pump[p].at # "free" /\ pump'[p].at = "free"
    /\ \/ pump[p].cancelled /\ UNCHANGED calls
       \/ ~pump[p].cancelled /\ calls' = calls \cup {Call("end", pump[p].track, p)}

LEMMA PumpingEffect ==
    ASSUME TypeOK, NEW p \in Pumps, Pumping(p)
    PROVE  /\ pump' \in [Pumps -> PumpStates]
           /\ UNCHANGED <<queue, playing, skips, open, cancel, paused, closed>>
           /\ \A q \in Pumps : q # p => pump'[q] = pump[q]
           /\ GoesOn(p) \/ Ends(p)
<1>1. PICK s \in {"free", "pump", "wait", "finish"} :
        /\ Move(p, s)
        /\ \/ s = "pump" /\ pump[p].at = "resolve" /\ UNCHANGED calls
           \/ s = "finish" /\ pump[p].at \in {"resolve", "pump"} /\ UNCHANGED calls
           \/ s = "wait" /\ pump[p].at = "pump" /\ paused /\ UNCHANGED calls
           \/ s = "free" /\ pump[p].at # "free" /\ pump[p].cancelled /\ UNCHANGED calls
           \/ /\ s = "free" /\ pump[p].at # "free" /\ ~pump[p].cancelled
              /\ calls' = calls \cup {Call("end", pump[p].track, p)}
  BY DEF Pumping, Resolved, StreamInput, LoopHead, Eof, finish
<1>2. /\ pump' \in [Pumps -> PumpStates]
      /\ UNCHANGED <<roomVars, cancel, paused, closed>>
      /\ \A q \in Pumps : q # p => pump'[q] = pump[q]
      /\ pump'[p].at = s
      /\ s # "free" => pump'[p].track = pump[p].track /\ pump'[p].cancelled = pump[p].cancelled
  BY <1>1, MoveEffect
<1>3. UNCHANGED <<queue, playing, skips, open, cancel, paused, closed>> BY <1>2 DEF roomVars
<1> QED BY <1>1, <1>2, <1>3 DEF GoesOn, Ends

(* The installation of a new pump.                                         *)
LEMMA PlayStartEffect ==
    ASSUME TypeOK, NEW k \in calls, PlayStart(k)
    PROVE  /\ k.op = "playStart" /\ k.track \in Tracks /\ calls' = calls \ {k}
           /\ UNCHANGED <<queue, playing, skips, open, paused, closed>>
           /\ \/ closed /\ UNCHANGED <<pump, cancel>>
              \/ \E p \in Pumps :
                   /\ pump[p].at = "free" /\ cancel' = p
                   /\ pump' \in [Pumps -> PumpStates]
                   /\ \A q \in Pumps : q # p => pump'[q] = pump[q]
                   /\ pump'[p].at = "resolve" /\ pump'[p].track = k.track
                   /\ pump'[p].cancelled = FALSE
<1>1. /\ k.op = "playStart" /\ calls' = calls \ {k}
      /\ UNCHANGED <<queue, playing, skips, open, paused, closed>>
  BY DEF PlayStart, roomVars
<1>2. k.track \in Tracks BY <1>1, CallFields DEF TypeOK, TrackOps
<1>3. CASE ~(closed /\ UNCHANGED <<pump, cancel>>)
  <2> DEFINE y == [FreePump EXCEPT !.at = "resolve", !.track = k.track]
  <2>1. Unused # {} /\ cancel' = (CHOOSE p \in Unused : TRUE)
        /\ pump' = [pump EXCEPT ![cancel'] = y]
    BY <1>3 DEF PlayStart
  <2>2. cancel' \in Unused BY <2>1
  <2>3. PICK p \in Pumps : p = cancel' /\ pump[p].at = "free" BY <2>2 DEF Unused
  <2>4. y \in PumpStates BY <1>2, PumpTypes
  <2>5. y.at = "resolve" /\ y.track = k.track /\ y.cancelled = FALSE BY DEF FreePump
  <2> HIDE DEF y
  <2>6. pump \in [Pumps -> PumpStates] /\ pump' = [pump EXCEPT ![p] = y]
    BY <2>1, <2>3 DEF TypeOK
  <2>7. /\ pump' \in [Pumps -> PumpStates] /\ pump'[p] = y
        /\ \A q \in Pumps : q # p => pump'[q] = pump[q]
    BY <2>4, <2>6
  <2> QED BY <1>1, <1>2, <2>3, <2>5, <2>7
<1> QED BY <1>1, <1>2, <1>3

(* The steps that stop the current pump, and what comes after Stop.        *)
LEMMA StopStepEffect ==
    ASSUME TypeOK, NEW k \in calls, SkipStop(k) \/ PlayStop(k) \/ CloseStop(k)
    PROVE  /\ Stop /\ UNCHANGED <<queue, playing, skips, open>>
           /\ calls' \subseteq Calls
           /\ \E l \in calls' :
                /\ l.track = k.track
                /\ \/ k.op = "skipStop" /\ l.op = "end" /\ k.track \in Tracks
                   \/ k.op = "playStop" /\ l.op = "playStart" /\ k.track \in Tracks
                   \/ k.op = "closeStop" /\ l.op = "closeMark"
                /\ calls' = (calls \ {k}) \cup {l}
<1> DEFINE op == IF k.op = "skipStop" THEN "end"
                 ELSE IF k.op = "playStop" THEN "playStart" ELSE "closeMark"
<1>0. calls \subseteq Calls /\ k \in Calls BY DEF TypeOK
<1>1. /\ k.op \in {"skipStop", "playStop", "closeStop"} /\ Stop
      /\ UNCHANGED <<queue, playing, skips, open>>
      /\ k.op # "closeStop" => k.track \in Tracks
      /\ k.op = "closeStop" => k.track = Nil
  BY <1>0, CallFields DEF SkipStop, PlayStop, CloseStop, roomVars, TrackOps
<1>2. Then(k, op, k.track)
  BY <1>1 DEF SkipStop, PlayStop, CloseStop
<1>3. (op \in TrackOps /\ k.track \in Tracks)
        \/ (op \in {"maybe", "closeStop", "closeMark"} /\ k.track = Nil)
  BY <1>1 DEF TrackOps
<1>4. \/ k.op = "skipStop" /\ op = "end"
      \/ k.op = "playStop" /\ op = "playStart"
      \/ k.op = "closeStop" /\ op = "closeMark"
  BY <1>1
<1> HIDE DEF op
<1> DEFINE l == Call(op, k.track, k.by)
<1>5. calls' = (calls \ {k}) \cup {l} BY <1>2 DEF Then
<1>6. calls' \subseteq Calls BY <1>0, <1>2, <1>3, ThenType
<1>7. l.op = op /\ l.track = k.track BY CallFields
<1> HIDE DEF l
<1> QED BY <1>1, <1>4, <1>5, <1>6, <1>7

-----------------------------------------------------------------------------
(* THE QUEUE                                                               *)

RoomInv == TypeOK /\ QueueHasPlaying /\ ReadyTrackIsPickedUp

(* Steps that leave the queue and the track playing alone.                 *)
LEMMA SameQueue ==
    ASSUME RoomInv, UNCHANGED <<queue, playing>>,
           \A k \in calls : k.op = "maybe" => k \in calls', TypeOK'
    PROVE  RoomInv'
BY DEF RoomInv, QueueHasPlaying, ReadyTrackIsPickedUp

LEMMA RoomStep == RoomInv /\ [Next]_vars => RoomInv'
<1> SUFFICES ASSUME RoomInv, [Next]_vars PROVE RoomInv'
  OBVIOUS
<1>0. /\ TypeOK /\ QueueHasPlaying /\ ReadyTrackIsPickedUp /\ Proper(queue, Tracks)
      /\ calls \subseteq Calls
  BY DEF RoomInv, TypeOK, QueueHasPlaying, Proper
<1>1. ASSUME NEW u \in Users, streamSkip(u) PROVE RoomInv'
  <2> DEFINE l == Call("skipStop", playing, u)
  <2>1. u \in Callers /\ playing \in Tracks BY <1>0, <1>1 DEF Callers, streamSkip, TypeOK
  <2>2. l \in Calls BY <2>1, CallFields DEF TrackOps
  <2> HIDE DEF l
  <2>3. /\ calls' = calls \cup {l} /\ UNCHANGED <<queue, playing, open, pump, cancel, paused, closed>>
        /\ skips > 0 /\ skips' = skips - 1
    BY <1>1 DEF streamSkip, bcVars, l
  <2>4. TypeOK' BY <1>0, <2>2, <2>3 DEF TypeOK
  <2> QED BY <2>3, <2>4, SameQueue
<1>2. ASSUME NEW u \in Users, Pause(u) PROVE RoomInv'
  <2>1. TypeOK' BY <1>0, <1>2 DEF TypeOK, Pause, roomVars
  <2> QED BY <1>2, <2>1, SameQueue DEF Pause, roomVars
<1>3. ASSUME NEW u \in Users, Resume(u) PROVE RoomInv'
  <2>1. pump' = Wake(pump) /\ paused' = FALSE
        /\ UNCHANGED <<queue, playing, skips, open, calls, cancel, closed>>
    BY <1>3 DEF Resume, roomVars
  <2>2. /\ pump' \in [Pumps -> PumpStates]
        /\ \A p \in Pumps : /\ pump'[p].at = "free" <=> pump[p].at = "free"
                            /\ pump'[p].track = pump[p].track
    BY <1>0, <2>1, WakeEffect DEF TypeOK
  <2>3. TypeOK' BY <1>0, <2>1, <2>2 DEF TypeOK
  <2> QED BY <2>1, <2>3, SameQueue
<1>4. ASSUME NEW t \in Tracks, RemoveTrack(t) PROVE RoomInv'
  <2>1. /\ playing # t /\ queue' = Without(queue, t)
        /\ UNCHANGED <<playing, skips, open, calls, pump, cancel, paused, closed>>
    BY <1>4 DEF RemoveTrack, bcVars
  <2>2. /\ Proper(queue', Tracks)
        /\ \A u : Has(queue', u) <=> Has(queue, u) /\ u # t
        /\ SomeReady(queue') => SomeReady(queue)
    BY <1>0, <2>1, WithoutProperties
  <2>3. TypeOK' BY <1>0, <2>1, <2>2 DEF TypeOK, Proper
  <2>4. QueueHasPlaying' BY <1>0, <2>1, <2>2 DEF QueueHasPlaying, Proper
  <2>5. ReadyTrackIsPickedUp' BY <1>0, <2>1, <2>2 DEF ReadyTrackIsPickedUp
  <2> QED BY <2>3, <2>4, <2>5 DEF RoomInv
<1>5. ASSUME NEW t \in Tracks, NEW st \in Statuses, UpsertTrack(t, st) PROVE RoomInv'
  <2> DEFINE l == Call("maybe", Nil, t)
  <2>1. l \in Calls /\ l.op = "maybe" BY CallFields DEF Callers
  <2> HIDE DEF l
  <2>2. /\ queue' = Put(queue, t, st) /\ calls' = calls \cup {l}
        /\ UNCHANGED <<playing, skips, open, pump, cancel, paused, closed>>
    BY <1>5 DEF UpsertTrack, bcVars, l
  <2>3. Proper(queue', Tracks) /\ \A u : Has(queue', u) <=> Has(queue, u) \/ u = t
    BY <1>0, <2>2, PutProperties
  <2>4. TypeOK' BY <1>0, <2>1, <2>2, <2>3 DEF TypeOK, Proper
  <2>5. QueueHasPlaying' BY <1>0, <2>2, <2>3 DEF QueueHasPlaying, Proper
  <2>6. ReadyTrackIsPickedUp' BY <2>1, <2>2 DEF ReadyTrackIsPickedUp
  <2> QED BY <2>4, <2>5, <2>6 DEF RoomInv
<1>6. ASSUME NEW k \in calls, streamMaybeStart(k) PROVE RoomInv'
  <2>1. k.op = "maybe" /\ UNCHANGED <<queue, skips, open, pump, cancel, paused, closed>>
    BY <1>6 DEF streamMaybeStart, bcVars
  <2>2. CASE /\ playing # Nil \/ ~SomeReady(queue)
             /\ calls' = calls \ {k} /\ UNCHANGED playing
    <3>1. TypeOK' BY <1>0, <2>1, <2>2 DEF TypeOK
    <3>2. QueueHasPlaying' BY <1>0, <2>1, <2>2 DEF QueueHasPlaying
    <3>3. ReadyTrackIsPickedUp' BY <2>1, <2>2 DEF ReadyTrackIsPickedUp
    <3> QED BY <3>1, <3>2, <3>3 DEF RoomInv
  <2>3. ASSUME NEW n \in DOMAIN queue, IsFirstReady(queue, n), playing' = queue[n].id,
               Then(k, "playStop", queue[n].id)
        PROVE  RoomInv'
    <3>1. queue[n].id \in Tracks /\ Has(queue, queue[n].id)
      BY <1>0, <2>3, FirstReadyProperties DEF Proper
    <3>2. calls' \subseteq Calls
      BY <1>0, <1>6, <2>3, <3>1, ThenType DEF TrackOps
    <3>3. TypeOK' BY <1>0, <2>1, <2>3, <3>1, <3>2 DEF TypeOK
    <3>4. QueueHasPlaying' BY <1>0, <2>1, <2>3, <3>1 DEF QueueHasPlaying
    <3>5. ReadyTrackIsPickedUp' BY <2>3, <3>1 DEF ReadyTrackIsPickedUp
    <3> QED BY <3>3, <3>4, <3>5 DEF RoomInv
  <2> QED BY <1>6, <2>2, <2>3 DEF streamMaybeStart, Chosen
<1>7. ASSUME NEW k \in calls, streamEndTrack(k) PROVE RoomInv'
  <2>1. k.op = "end" /\ UNCHANGED <<skips, open, pump, cancel, paused, closed>>
    BY <1>7 DEF streamEndTrack, bcVars
  <2>2. CASE playing = k.track
    <3>1. playing' = Nil /\ queue' = Without(queue, k.track) /\ Then(k, "maybe", Nil)
      BY <1>7, <2>2 DEF streamEndTrack
    <3>2. Proper(queue', Tracks) BY <1>0, <3>1, WithoutProperties
    <3>3. calls' \subseteq Calls /\ Call("maybe", Nil, k.by) \in calls'
      BY <1>0, <1>7, <3>1, ThenType
    <3>4. TypeOK' BY <1>0, <2>1, <3>1, <3>2, <3>3 DEF TypeOK, Proper
    <3>5. QueueHasPlaying' BY <3>1, <3>2 DEF QueueHasPlaying, Proper
    <3>6. ReadyTrackIsPickedUp' BY <3>3, CallFields DEF ReadyTrackIsPickedUp
    <3> QED BY <3>4, <3>5, <3>6 DEF RoomInv
  <2>3. CASE playing # k.track
    <3>1. calls' = calls \ {k} /\ UNCHANGED <<playing, queue>>
      BY <1>7, <2>3 DEF streamEndTrack
    <3>2. TypeOK' BY <1>0, <2>1, <3>1 DEF TypeOK
    <3> QED BY <2>1, <3>1, <3>2, SameQueue
  <2> QED BY <2>2, <2>3
<1>8. ASSUME NEW k \in calls, SkipStop(k) \/ PlayStop(k) \/ CloseStop(k) PROVE RoomInv'
  <2>1. PICK l \in calls' : /\ calls' = (calls \ {k}) \cup {l} /\ k.op # "maybe"
                            /\ calls' \subseteq Calls
                            /\ Stop /\ UNCHANGED <<queue, playing, skips, open>>
    BY <1>0, <1>8, StopStepEffect
  <2>2. /\ pump' \in [Pumps -> PumpStates] /\ cancel' = Nil /\ paused' = FALSE
        /\ closed' = closed
        /\ \A p \in Pumps : /\ pump'[p].at = "free" <=> pump[p].at = "free"
                            /\ pump'[p].track = pump[p].track
    BY <1>0, <2>1, StopEffect
  <2>3. TypeOK' BY <1>0, <2>1, <2>2 DEF TypeOK
  <2> QED BY <2>1, <2>3, SameQueue
<1>9. ASSUME NEW k \in calls, PlayStart(k) PROVE RoomInv'
  <2>1. /\ k.op = "playStart" /\ k.track \in Tracks /\ calls' = calls \ {k}
        /\ UNCHANGED <<queue, playing, skips, open, paused, closed>>
    BY <1>0, <1>9, PlayStartEffect
  <2>2. CASE UNCHANGED <<pump, cancel>>
    <3>1. TypeOK' BY <1>0, <2>1, <2>2 DEF TypeOK
    <3> QED BY <2>1, <3>1, SameQueue
  <2>3. ASSUME NEW p \in Pumps, cancel' = p,
               pump' \in [Pumps -> PumpStates], pump'[p].track = k.track,
               \A q \in Pumps : q # p => pump'[q] = pump[q]
        PROVE  RoomInv'
    <3>1. \A q \in Pumps : pump'[q].at # "free" => pump'[q].track # Nil
      BY <1>0, <2>1, <2>3 DEF TypeOK
    <3>2. TypeOK' BY <1>0, <2>1, <2>3, <3>1 DEF TypeOK
    <3> QED BY <2>1, <3>2, SameQueue
  <2> QED BY <1>0, <1>9, <2>2, <2>3, PlayStartEffect
<1>10. ASSUME NEW k \in calls, CloseMark(k) PROVE RoomInv'
  <2>1. /\ k.op = "closeMark" /\ closed' = TRUE /\ calls' = calls \ {k}
        /\ UNCHANGED <<queue, playing, skips, open, pump, cancel, paused>>
    BY <1>10 DEF CloseMark, roomVars
  <2>2. TypeOK' BY <1>0, <2>1 DEF TypeOK
  <2> QED BY <2>1, <2>2, SameQueue
<1>11. ASSUME NEW p \in Pumps, Pumping(p) PROVE RoomInv'
  <2>1. /\ pump' \in [Pumps -> PumpStates]
        /\ UNCHANGED <<queue, playing, skips, open, cancel, paused, closed>>
        /\ \A q \in Pumps : q # p => pump'[q] = pump[q]
        /\ GoesOn(p) \/ Ends(p)
    BY <1>0, <1>11, PumpingEffect
  <2>2. \A q \in Pumps : pump'[q].at # "free" => pump'[q].track # Nil
    BY <1>0, <2>1 DEF TypeOK, GoesOn, Ends
  <2>3. calls' \subseteq Calls /\ calls \subseteq calls'
    <3>1. CASE calls' = calls BY <1>0, <3>1
    <3>2. CASE calls' = calls \cup {Call("end", pump[p].track, p)} /\ pump[p].at # "free"
      <4>1. pump[p].track \in Tracks BY <1>0, <3>2 DEF TypeOK, PumpStates
      <4>2. p \in Callers BY DEF Callers
      <4>3. Call("end", pump[p].track, p) \in Calls BY <4>1, <4>2, CallFields DEF TrackOps
      <4> QED BY <1>0, <3>2, <4>3
    <3> QED BY <2>1, <3>1, <3>2 DEF GoesOn, Ends
  <2>4. TypeOK' BY <1>0, <2>1, <2>2, <2>3 DEF TypeOK
  <2> QED BY <2>1, <2>3, <2>4, SameQueue
<1>12. CASE cleanupMedia
  <2> DEFINE l == Call("closeStop", Nil, "registry")
  <2>1. l \in Calls BY CallFields DEF Callers
  <2> HIDE DEF l
  <2>2. /\ playing' = Nil /\ queue' = <<>> /\ open' = FALSE /\ calls' = calls \cup {l}
        /\ UNCHANGED <<skips, pump, cancel, paused, closed>>
    BY <1>12 DEF cleanupMedia, bcVars, l
  <2>3. Proper(queue', Tracks) /\ ~SomeReady(queue') BY <2>2, EmptyQueue
  <2>4. TypeOK' BY <1>0, <2>1, <2>2, <2>3 DEF TypeOK, Proper
  <2>5. QueueHasPlaying' BY <2>2, <2>3 DEF QueueHasPlaying, Proper
  <2>6. ReadyTrackIsPickedUp' BY <2>3 DEF ReadyTrackIsPickedUp
  <2> QED BY <2>4, <2>5, <2>6 DEF RoomInv
<1>13. CASE UNCHANGED vars
  <2>1. TypeOK' BY <1>0, <1>13 DEF TypeOK, vars
  <2> QED BY <1>13, <2>1, SameQueue DEF vars
<1> QED BY <1>1, <1>2, <1>3, <1>4, <1>5, <1>6, <1>7, <1>8, <1>9, <1>10, <1>11, <1>12, <1>13
        DEF Next, Run

-----------------------------------------------------------------------------
(* SLEEPING PUMPS                                                          *)

LEMMA WakeStep == TypeOK /\ NoLostWakeup /\ [Next]_vars => NoLostWakeup'
<1> SUFFICES ASSUME TypeOK, NoLostWakeup, [Next]_vars PROVE NoLostWakeup'
  OBVIOUS
<1>1. CASE UNCHANGED <<pump, paused>> BY <1>1 DEF NoLostWakeup
<1>2. ASSUME NEW u \in Users, streamSkip(u) PROVE UNCHANGED <<pump, paused>>
  BY <1>2 DEF streamSkip, bcVars
<1>3. ASSUME NEW u \in Users, Pause(u) PROVE NoLostWakeup' BY <1>3 DEF Pause, NoLostWakeup
<1>4. ASSUME NEW u \in Users, Resume(u) PROVE NoLostWakeup'
  <2>1. \A p \in Pumps : pump'[p].at # "wait" BY <1>4, WakeEffect DEF Resume, TypeOK
  <2> QED BY <2>1 DEF NoLostWakeup
<1>5. ASSUME NEW t \in Tracks, RemoveTrack(t) \/ \E st \in Statuses : UpsertTrack(t, st)
      PROVE  UNCHANGED <<pump, paused>>
  BY <1>5 DEF RemoveTrack, UpsertTrack, bcVars
<1>6. ASSUME NEW k \in calls, streamMaybeStart(k) \/ streamEndTrack(k) \/ CloseMark(k)
      PROVE  UNCHANGED <<pump, paused>>
  BY <1>6 DEF streamMaybeStart, streamEndTrack, CloseMark, bcVars
<1>7. ASSUME NEW k \in calls, SkipStop(k) \/ PlayStop(k) \/ CloseStop(k) PROVE NoLostWakeup'
  <2>1. Stop BY <1>7, StopStepEffect
  <2>2. \A p \in Pumps : pump'[p].at # "wait" BY <2>1, StopEffect
  <2> QED BY <2>2 DEF NoLostWakeup
<1>8. ASSUME NEW k \in calls, PlayStart(k) PROVE NoLostWakeup'
  <2>1. paused' = paused BY <1>8, PlayStartEffect
  <2>2. CASE UNCHANGED pump BY <1>1, <2>1, <2>2
  <2>3. ASSUME NEW p \in Pumps, pump'[p].at = "resolve",
               \A q \in Pumps : q # p => pump'[q] = pump[q]
        PROVE  NoLostWakeup'
    BY <2>1, <2>3 DEF NoLostWakeup
  <2> QED BY <1>8, <2>2, <2>3, PlayStartEffect
<1>9. ASSUME NEW p \in Pumps, Pumping(p) PROVE NoLostWakeup'
  <2>1. /\ paused' = paused /\ \A q \in Pumps : q # p => pump'[q] = pump[q]
        /\ GoesOn(p) \/ Ends(p)
    BY <1>9, PumpingEffect
  <2>2. pump'[p].at = "wait" => paused BY <2>1 DEF GoesOn, Ends
  <2> QED BY <2>1, <2>2 DEF NoLostWakeup
<1>10. CASE cleanupMedia BY <1>1, <1>10 DEF cleanupMedia, bcVars
<1>11. CASE UNCHANGED vars BY <1>1, <1>11 DEF vars
<1> QED BY <1>1, <1>2, <1>3, <1>4, <1>5, <1>6, <1>7, <1>8, <1>9, <1>10, <1>11 DEF Next, Run

-----------------------------------------------------------------------------
(* ONE DRIVER                                                              *)

DriverInv == OneTrackAtATime /\ PlayingIsDriven /\ OneDriver

(* An open room's broadcaster is not closed; a skip leaves its mark.       *)
Ordered ==
    /\ open => ~closed /\ \A k \in calls : k.op \notin {"closeStop", "closeMark"}
    /\ NobodySkipped => \A k \in calls : k.op # "skipStop"

(* What DriverInv says of an open room nobody skipped in.                  *)
Core ==
    /\ \A p, q \in Pumps : Live(p) /\ Live(q) => p = q
    /\ \A k, l \in calls : k.track # Nil /\ l.track # Nil => k = l
    /\ \A k \in calls, p \in Pumps : k.track # Nil => ~Live(p)
    /\ \A k \in calls : k.track # Nil => k.track = playing
    /\ \A p \in Pumps : Live(p) => pump[p].track = playing /\ playing # Nil
    /\ playing # Nil => \/ \E p \in Pumps : Live(p) /\ pump[p].track = playing
                        \/ \E k \in calls : k.track = playing

LEMMA DriverParts == DriverInv <=> Ordered /\ (open /\ NobodySkipped => Core)
BY DEF DriverInv, Ordered, Core, OneTrackAtATime, PlayingIsDriven, IsDriven, OneDriver

(* A room does not open again and skips are not taken back.                *)
LEMMA OrderedStep ==
    TypeOK /\ Ordered /\ [Next]_vars =>
      /\ Ordered' /\ (open' => open) /\ (NobodySkipped' => NobodySkipped)
<1> SUFFICES ASSUME TypeOK, Ordered, [Next]_vars
             PROVE  Ordered' /\ (open' => open) /\ (NobodySkipped' => NobodySkipped)
  OBVIOUS
<1>0. skips \in 0..MaxSkips /\ calls \subseteq Calls BY DEF TypeOK
<1>a. ASSUME UNCHANGED <<open, skips, closed>>,
             \A l \in calls' : l \in calls \/ l.op \in {"maybe", "playStop", "playStart", "end"}
      PROVE  Ordered' /\ (open' => open) /\ (NobodySkipped' => NobodySkipped)
  BY <1>a DEF Ordered, NobodySkipped
<1>1. ASSUME NEW u \in Users, streamSkip(u)
      PROVE  Ordered' /\ (open' => open) /\ (NobodySkipped' => NobodySkipped)
  <2>1. /\ skips' = skips - 1 /\ UNCHANGED <<open, closed>>
        /\ calls' = calls \cup {Call("skipStop", playing, u)}
    BY <1>1 DEF streamSkip, bcVars
  <2>2. ~NobodySkipped' BY <1>0, <2>1 DEF NobodySkipped
  <2>3. Call("skipStop", playing, u).op = "skipStop" BY CallFields
  <2> QED BY <2>1, <2>2, <2>3 DEF Ordered
<1>2. ASSUME NEW u \in Users, Pause(u) \/ Resume(u)
      PROVE  UNCHANGED <<open, skips, closed, calls>>
  BY <1>2 DEF Pause, Resume, roomVars
<1>3. ASSUME NEW t \in Tracks, RemoveTrack(t) PROVE UNCHANGED <<open, skips, closed, calls>>
  BY <1>3 DEF RemoveTrack, bcVars
<1>4. ASSUME NEW t \in Tracks, NEW st \in Statuses, UpsertTrack(t, st)
      PROVE  /\ UNCHANGED <<open, skips, closed>>
             /\ \A l \in calls' : l \in calls \/ l.op \in {"maybe", "playStop", "playStart", "end"}
  BY <1>4, CallFields DEF UpsertTrack, bcVars
<1>5. ASSUME NEW k \in calls, streamMaybeStart(k) \/ streamEndTrack(k)
      PROVE  /\ UNCHANGED <<open, skips, closed>>
             /\ \A l \in calls' : l \in calls \/ l.op \in {"maybe", "playStop", "playStart", "end"}
  <2>1. UNCHANGED <<open, skips, closed>>
    BY <1>5 DEF streamMaybeStart, streamEndTrack, bcVars
  <2>2. \/ calls' = calls \ {k}
        \/ \E op \in {"maybe", "playStop"} : \E t : Then(k, op, t)
    BY <1>5 DEF streamMaybeStart, streamEndTrack
  <2> QED BY <2>1, <2>2, CallFields DEF Then
<1>6. ASSUME NEW k \in calls, SkipStop(k) \/ PlayStop(k) \/ CloseStop(k)
      PROVE  Ordered' /\ (open' => open) /\ (NobodySkipped' => NobodySkipped)
  <2>1. PICK l \in calls' :
          /\ \/ k.op = "skipStop" /\ l.op = "end"
             \/ k.op = "playStop" /\ l.op = "playStart"
             \/ k.op = "closeStop" /\ l.op = "closeMark"
          /\ calls' = (calls \ {k}) \cup {l}
    BY <1>6, StopStepEffect
  <2>2. UNCHANGED <<open, skips, closed>>
    <3>1. Stop /\ UNCHANGED <<skips, open>> BY <1>6, StopStepEffect
    <3> QED BY <3>1 DEF Stop
  <2>3. k.op = "closeStop" => ~open BY DEF Ordered
  <2> QED BY <2>1, <2>2, <2>3 DEF Ordered, NobodySkipped
<1>7. ASSUME NEW k \in calls, PlayStart(k)
      PROVE  UNCHANGED <<open, skips, closed>> /\ calls' \subseteq calls
  BY <1>7, PlayStartEffect
<1>8. ASSUME NEW k \in calls, CloseMark(k)
      PROVE  Ordered' /\ (open' => open) /\ (NobodySkipped' => NobodySkipped)
  <2>1. ~open /\ calls' = calls \ {k} /\ UNCHANGED <<open, skips>>
    BY <1>8 DEF CloseMark, roomVars, Ordered
  <2> QED BY <2>1 DEF Ordered, NobodySkipped
<1>9. ASSUME NEW p \in Pumps, Pumping(p)
      PROVE  /\ UNCHANGED <<open, skips, closed>>
             /\ \A l \in calls' : l \in calls \/ l.op \in {"maybe", "playStop", "playStart", "end"}
  <2>1. UNCHANGED <<open, skips, closed>> /\ (GoesOn(p) \/ Ends(p)) BY <1>9, PumpingEffect
  <2> QED BY <2>1, CallFields DEF GoesOn, Ends
<1>10. CASE cleanupMedia
  <2>1. open' = FALSE /\ skips' = skips /\ calls' = calls \cup {Call("closeStop", Nil, "registry")}
    BY <1>10 DEF cleanupMedia
  <2>2. Call("closeStop", Nil, "registry").op = "closeStop" BY CallFields
  <2> QED BY <2>1, <2>2 DEF Ordered, NobodySkipped
<1>11. CASE UNCHANGED vars BY <1>a, <1>11 DEF vars
<1> QED BY <1>a, <1>1, <1>2, <1>3, <1>4, <1>5, <1>6, <1>7, <1>8, <1>9, <1>10, <1>11 DEF Next, Run

(* Steps that leave the drivers and the track playing alone.               *)
LEMMA SameDrivers ==
    ASSUME Core, UNCHANGED playing,
           \A l \in calls' : l.track # Nil => l \in calls,
           \A l \in calls : l.track # Nil => l \in calls',
           \A p \in Pumps : /\ Live(p)' <=> Live(p)
                            /\ Live(p) => pump'[p].track = pump[p].track
    PROVE  Core'
<1>1. playing' # Nil => \/ \E p \in Pumps : Live(p)' /\ pump'[p].track = playing'
                        \/ \E k \in calls' : k.track = playing'
  <2>1. CASE playing = Nil BY <2>1
  <2>2. ASSUME NEW p \in Pumps, Live(p), pump[p].track = playing
        PROVE  Live(p)' /\ pump'[p].track = playing'
    BY <2>2
  <2>3. ASSUME NEW k \in calls, k.track = playing, playing # Nil
        PROVE  k \in calls' /\ k.track = playing'
    BY <2>3
  <2> QED BY <2>1, <2>2, <2>3 DEF Core
<1>2. \A p, q \in Pumps : Live(p)' /\ Live(q)' => p = q BY DEF Core
<1>3. \A k, l \in calls' : k.track # Nil /\ l.track # Nil => k = l BY DEF Core
<1>4. \A k \in calls', p \in Pumps : k.track # Nil => ~Live(p)' BY DEF Core
<1>5. \A k \in calls' : k.track # Nil => k.track = playing' BY DEF Core
<1>6. \A p \in Pumps : Live(p)' => pump'[p].track = playing' /\ playing' # Nil BY DEF Core
<1> QED BY <1>1, <1>2, <1>3, <1>4, <1>5, <1>6 DEF Core

(* From one call about the track playing to the next, with no live pump.   *)
LEMMA OneCallDrives ==
    ASSUME NEW l \in calls', l.track = playing', playing' # Nil,
           \A k \in calls' : k.track # Nil => k = l,
           \A p \in Pumps : ~Live(p)'
    PROVE  Core'
BY DEF Core

(* Nobody drives, and nothing plays.                                       *)
LEMMA NobodyDrives ==
    ASSUME playing' = Nil, \A k \in calls' : k.track = Nil, \A p \in Pumps : ~Live(p)'
    PROVE  Core'
BY DEF Core

LEMMA CoreStep ==
    ASSUME RoomInv, Ordered, Core, open, NobodySkipped, open', NobodySkipped', [Next]_vars
    PROVE  Core'
<1>0. TypeOK /\ calls \subseteq Calls BY DEF RoomInv, TypeOK
<1>a. ASSUME UNCHANGED <<playing, calls, pump>> PROVE Core'
  BY <1>a, SameDrivers DEF Live
<1>1. ASSUME NEW u \in Users, streamSkip(u) PROVE FALSE
  BY <1>0, <1>1 DEF streamSkip, NobodySkipped, TypeOK
<1>2. ASSUME NEW u \in Users, Pause(u) PROVE Core'
  BY <1>2, <1>a DEF Pause, roomVars
<1>3. ASSUME NEW u \in Users, Resume(u) PROVE Core'
  <2>1. pump' = Wake(pump) /\ UNCHANGED <<playing, calls>> BY <1>3 DEF Resume, roomVars
  <2>2. \A p \in Pumps : /\ pump'[p].at = "free" <=> pump[p].at = "free"
                         /\ pump'[p].track = pump[p].track
                         /\ pump'[p].cancelled = pump[p].cancelled
    BY <1>0, <2>1, WakeEffect DEF TypeOK
  <2> QED BY <2>1, <2>2, SameDrivers DEF Live
<1>4. ASSUME NEW t \in Tracks, RemoveTrack(t) PROVE Core'
  BY <1>4, <1>a DEF RemoveTrack, bcVars
<1>5. ASSUME NEW t \in Tracks, NEW st \in Statuses, UpsertTrack(t, st) PROVE Core'
  <2> DEFINE l == Call("maybe", Nil, t)
  <2>1. l.track = Nil BY CallFields
  <2>2. calls' = calls \cup {l} /\ UNCHANGED <<playing, pump>> BY <1>5 DEF UpsertTrack, bcVars
  <2> HIDE DEF l
  <2> QED BY <2>1, <2>2, SameDrivers DEF Live
<1>6. ASSUME NEW k \in calls, streamMaybeStart(k) PROVE Core'
  <2>1. k.track = Nil /\ UNCHANGED pump
    BY <1>0, <1>6, CallFields DEF streamMaybeStart, bcVars, TrackOps
  <2>2. CASE calls' = calls \ {k} /\ UNCHANGED playing
    BY <2>1, <2>2, SameDrivers DEF Live
  <2>3. ASSUME playing = Nil, NEW n \in DOMAIN queue, IsFirstReady(queue, n),
               playing' = queue[n].id, Then(k, "playStop", queue[n].id)
        PROVE  Core'
    <3> DEFINE l == Call("playStop", queue[n].id, k.by)
    <3>1. queue[n].id \in Tracks
      BY <2>3, FirstReadyProperties DEF RoomInv, TypeOK
    <3>2. l.track = queue[n].id BY CallFields
    <3>3. l \in calls' /\ \A m \in calls' : m \in calls \/ m = l BY <2>3 DEF Then
    <3> HIDE DEF l
    <3>4. \A m \in calls : m.track = Nil BY <2>3 DEF Core
    <3>5. \A p \in Pumps : ~Live(p)' BY <2>1, <2>3 DEF Core, Live
    <3> QED BY <2>3, <3>1, <3>2, <3>3, <3>4, <3>5, OneCallDrives
  <2> QED BY <1>6, <2>2, <2>3 DEF streamMaybeStart, Chosen
<1>7. ASSUME NEW k \in calls, streamEndTrack(k) PROVE Core'
  <2>1. k.op = "end" /\ UNCHANGED pump BY <1>7 DEF streamEndTrack, bcVars
  <2>2. k.track \in Tracks BY <1>0, <2>1, CallFields DEF TrackOps
  <2>3. k.track = playing BY <2>2 DEF Core
  <2>4. playing' = Nil /\ Then(k, "maybe", Nil) BY <1>7, <2>3 DEF streamEndTrack
  <2>5. Call("maybe", Nil, k.by).track = Nil BY CallFields
  <2>6. \A m \in calls' : m.track = Nil BY <2>2, <2>4, <2>5 DEF Core, Then
  <2>7. \A p \in Pumps : ~Live(p)' BY <2>1, <2>2 DEF Core, Live
  <2> QED BY <2>4, <2>6, <2>7, NobodyDrives
<1>8. ASSUME NEW k \in calls, SkipStop(k) \/ PlayStop(k) \/ CloseStop(k) PROVE Core'
  <2>1. k.op \notin {"skipStop", "closeStop"} BY DEF Ordered
  <2>2. PICK l \in calls' : /\ l.track = k.track /\ k.track \in Tracks
                            /\ calls' = (calls \ {k}) \cup {l}
    BY <1>0, <1>8, <2>1, StopStepEffect
  <2>3. Stop /\ UNCHANGED playing BY <1>0, <1>8, StopStepEffect
  <2>4. \A p \in Pumps : Live(p)' => Live(p) BY <1>0, <2>3, StopEffect DEF Live
  <2>5. \A p \in Pumps : ~Live(p)' BY <2>2, <2>4 DEF Core
  <2>6. k.track = playing /\ \A m \in calls : m.track # Nil => m = k BY <2>2 DEF Core
  <2> QED BY <2>2, <2>3, <2>5, <2>6, OneCallDrives
<1>9. ASSUME NEW k \in calls, PlayStart(k) PROVE Core'
  <2>1. k.track \in Tracks /\ calls' = calls \ {k} /\ UNCHANGED playing /\ ~closed
    BY <1>0, <1>9, PlayStartEffect DEF Ordered
  <2>2. PICK p \in Pumps : /\ pump'[p].at = "resolve" /\ pump'[p].track = k.track
                           /\ pump'[p].cancelled = FALSE
                           /\ \A q \in Pumps : q # p => pump'[q] = pump[q]
    BY <1>0, <1>9, <2>1, PlayStartEffect
  <2>3. /\ k.track = playing /\ playing # Nil
        /\ \A m \in calls' : m.track = Nil
        /\ \A q \in Pumps : ~Live(q)
    BY <2>1 DEF Core
  <2>4. Live(p)' /\ \A q \in Pumps : q # p => ~Live(q)' BY <2>2, <2>3 DEF Live
  <2> QED BY <2>1, <2>2, <2>3, <2>4 DEF Core
<1>10. ASSUME NEW k \in calls, CloseMark(k) PROVE FALSE
  BY <1>10 DEF CloseMark, Ordered
<1>11. ASSUME NEW p \in Pumps, Pumping(p) PROVE Core'
  <2>1. /\ UNCHANGED playing /\ \A q \in Pumps : q # p => pump'[q] = pump[q]
        /\ GoesOn(p) \/ Ends(p)
    BY <1>0, <1>11, PumpingEffect
  <2>2. \A q \in Pumps : q # p => (Live(q)' <=> Live(q)) BY <2>1 DEF Live
  <2>3. CASE GoesOn(p)
    <3>1. (Live(p)' <=> Live(p)) /\ pump'[p].track = pump[p].track BY <2>3 DEF GoesOn, Live
    <3>2. calls' = calls BY <2>3 DEF GoesOn
    <3> QED BY <2>1, <2>2, <3>1, <3>2, SameDrivers
  <2>4. CASE Ends(p) /\ pump[p].cancelled /\ UNCHANGED calls
    <3>1. ~Live(p) /\ ~Live(p)' BY <2>4 DEF Ends, Live
    <3> QED BY <2>1, <2>2, <2>4, <3>1, SameDrivers
  <2>5. CASE Ends(p) /\ ~pump[p].cancelled /\ calls' = calls \cup {Call("end", pump[p].track, p)}
    <3> DEFINE l == Call("end", pump[p].track, p)
    <3>1. Live(p) /\ ~Live(p)' BY <2>5 DEF Ends, Live
    <3>2. l.track = playing /\ playing # Nil BY <3>1, CallFields DEF Core
    <3> HIDE DEF l
    <3>3. \A m \in calls : m.track = Nil BY <3>1 DEF Core
    <3>4. \A q \in Pumps : ~Live(q)' BY <2>2, <3>1 DEF Core
    <3>5. l \in calls' /\ \A m \in calls' : m.track # Nil => m = l BY <2>5, <3>3 DEF l
    <3> QED BY <2>1, <3>2, <3>4, <3>5, OneCallDrives
  <2> QED BY <2>1, <2>3, <2>4, <2>5 DEF Ends
<1>12. ASSUME cleanupMedia PROVE FALSE BY <1>12 DEF cleanupMedia
<1>13. CASE UNCHANGED vars BY <1>a, <1>13 DEF vars
<1> QED BY <1>1, <1>2, <1>3, <1>4, <1>5, <1>6, <1>7, <1>8, <1>9, <1>10, <1>11, <1>12, <1>13
        DEF Next, Run

-----------------------------------------------------------------------------
(* THE INVARIANT                                                           *)

LEMMA IInvParts == IInv <=> RoomInv /\ NoLostWakeup /\ DriverInv
BY DEF IInv, StreamInv, RoomInv, DriverInv

LEMMA StreamInit == Init => IInv
<1> SUFFICES ASSUME Init PROVE IInv
  OBVIOUS
<1>1. Proper(queue, Tracks) /\ ~SomeReady(queue) BY EmptyQueue DEF Init
<1>2. pump \in [Pumps -> PumpStates] BY PumpTypes DEF Init
<1>3. \A p \in Pumps : pump[p].at = "free" BY DEF Init, FreePump
<1>4. TypeOK
  <2>1. skips \in 0..MaxSkips BY DEF Init
  <2>2. paused \in BOOLEAN /\ closed \in BOOLEAN /\ open \in BOOLEAN BY DEF Init
  <2>3. queue \in Queues(Tracks) /\ calls \subseteq Calls /\ playing \in Tracks \cup {Nil}
        /\ cancel \in Pumps \cup {Nil}
    BY <1>1 DEF Init, Proper
  <2> QED BY <1>2, <1>3, <2>1, <2>2, <2>3 DEF TypeOK
<1>5. RoomInv
  BY <1>1, <1>4 DEF Init, RoomInv, QueueHasPlaying, ReadyTrackIsPickedUp, Proper
<1>6. NoLostWakeup BY <1>3 DEF NoLostWakeup
<1>7. Ordered /\ Core BY <1>3 DEF Init, Ordered, Core, Live
<1> QED BY <1>5, <1>6, <1>7, DriverParts, IInvParts

LEMMA StreamStep == IInv /\ [Next]_vars => IInv'
<1> SUFFICES ASSUME IInv, [Next]_vars PROVE IInv'
  OBVIOUS
<1>1. RoomInv /\ NoLostWakeup /\ Ordered /\ (open /\ NobodySkipped => Core)
  BY IInvParts, DriverParts
<1>2. RoomInv' BY <1>1, RoomStep
<1>3. NoLostWakeup' BY <1>1, WakeStep DEF RoomInv
<1>4. Ordered' /\ (open' => open) /\ (NobodySkipped' => NobodySkipped)
  BY <1>1, OrderedStep DEF RoomInv
<1>5. open' /\ NobodySkipped' => Core' BY <1>1, <1>4, CoreStep
<1>6. DriverInv'
  BY <1>4, <1>5 DEF DriverInv, Ordered, Core, OneTrackAtATime, PlayingIsDriven, IsDriven, OneDriver
<1> QED BY <1>2, <1>3, <1>6 DEF IInv, StreamInv, RoomInv, DriverInv

(* StreamInv with NoLostWakeup is inductive.                               *)
THEOREM StreamInductive == Spec => []IInv
BY StreamInit, StreamStep, PTL DEF Spec

(* The queue holds the track playing, a ready track is picked up, and as   *)
(* long as nobody skips one pump at a time plays, the pump of that track:  *)
(* room.mu and b.mu together keep this, whatever runs between them.        *)
THEOREM StreamSafe == Spec => []StreamInv
<1>1. IInv => StreamInv BY DEF IInv
<1> QED BY <1>1, StreamInductive, PTL

(* waitIfPaused, Resume and Stop: no pump sleeps on a channel that nobody  *)
(* will close.                                                             *)
THEOREM NoWakeupIsLost == Spec => []NoLostWakeup
<1>1. IInv => NoLostWakeup BY DEF IInv
<1> QED BY <1>1, StreamInductive, PTL

-----------------------------------------------------------------------------
(* WHAT STRANDS A TRACK                                                    *)

LEMMA StillDriven ==
    ASSUME IsDriven, UNCHANGED playing, open' => open,
           \A l \in calls : l.track = playing => l \in calls',
           \A p \in Pumps : Live(p) /\ pump[p].track = playing
                              => Live(p)' /\ pump'[p].track = pump[p].track
    PROVE  IsDriven'
<1> SUFFICES ASSUME playing' # Nil, open'
             PROVE  \/ \E p \in Pumps : Live(p)' /\ pump'[p].track = playing'
                    \/ \E k \in calls' : k.track = playing'
  BY DEF IsDriven
<1>1. \/ \E p \in Pumps : Live(p) /\ pump[p].track = playing
      \/ \E k \in calls : k.track = playing
  BY DEF IsDriven
<1> QED BY <1>1

LEMMA CallDrives ==
    ASSUME NEW l \in calls', l.track = playing' PROVE IsDriven'
BY DEF IsDriven

LEMMA PumpDrives ==
    ASSUME NEW p \in Pumps, Live(p)', pump'[p].track = playing' PROVE IsDriven'
BY DEF IsDriven

(* A step that ends IsDriven is a Stop on behalf of another track.         *)
LEMMA StrandStep ==
    ASSUME IInv, [Next]_vars, IsDriven, ~IsDriven'
    PROVE  \E k \in calls \ calls' :
              k.op \in {"skipStop", "playStop"} /\ k.track # playing
<1>0. TypeOK /\ calls \subseteq Calls /\ Ordered
  BY IInvParts, DriverParts DEF RoomInv, TypeOK
<1>o. (open' => open) /\ open' /\ playing' # Nil
  BY <1>0, OrderedStep DEF IsDriven
<1>c. ~closed /\ \A k \in calls : k.op \notin {"closeStop", "closeMark"}
  BY <1>0, <1>o DEF Ordered
<1>a. ASSUME UNCHANGED <<playing, pump>>, calls \subseteq calls' PROVE FALSE
  BY <1>a, <1>o, StillDriven DEF Live
<1>1. ASSUME NEW u \in Users, streamSkip(u) PROVE FALSE
  BY <1>1, <1>a DEF streamSkip, bcVars
<1>2. ASSUME NEW u \in Users, Pause(u) PROVE FALSE
  BY <1>2, <1>a DEF Pause, roomVars
<1>3. ASSUME NEW u \in Users, Resume(u) PROVE FALSE
  <2>1. pump' = Wake(pump) /\ UNCHANGED <<playing, calls>> BY <1>3 DEF Resume, roomVars
  <2>2. \A p \in Pumps : /\ pump'[p].at = "free" <=> pump[p].at = "free"
                         /\ pump'[p].track = pump[p].track
                         /\ pump'[p].cancelled = pump[p].cancelled
    BY <1>0, <2>1, WakeEffect DEF TypeOK
  <2> QED BY <1>o, <2>1, <2>2, StillDriven DEF Live
<1>4. ASSUME NEW t \in Tracks, RemoveTrack(t) \/ \E st \in Statuses : UpsertTrack(t, st)
      PROVE  FALSE
  BY <1>4, <1>a DEF RemoveTrack, UpsertTrack, bcVars
<1>5. ASSUME NEW k \in calls, streamMaybeStart(k) PROVE FALSE
  <2>1. k.track = Nil /\ UNCHANGED pump
    BY <1>0, <1>5, CallFields DEF streamMaybeStart, bcVars, TrackOps
  <2>2. CASE calls' = calls \ {k} /\ UNCHANGED playing
    BY <1>o, <2>1, <2>2, StillDriven DEF Live
  <2>3. ASSUME NEW n \in DOMAIN queue, playing' = queue[n].id,
               Then(k, "playStop", queue[n].id)
        PROVE  FALSE
    <3>1. Call("playStop", queue[n].id, k.by) \in calls' BY <2>3 DEF Then
    <3>2. Call("playStop", queue[n].id, k.by).track = playing' BY <2>3, CallFields
    <3> QED BY <3>1, <3>2, CallDrives
  <2> QED BY <1>5, <2>2, <2>3 DEF streamMaybeStart, Chosen
<1>6. ASSUME NEW k \in calls, streamEndTrack(k) PROVE FALSE
  <2>1. playing # k.track BY <1>6, <1>o DEF streamEndTrack
  <2>2. calls' = calls \ {k} /\ UNCHANGED <<playing, pump>>
    BY <1>6, <2>1 DEF streamEndTrack, bcVars
  <2> QED BY <1>o, <2>1, <2>2, StillDriven DEF Live
<1>7. ASSUME NEW k \in calls, SkipStop(k) \/ PlayStop(k) \/ CloseStop(k)
      PROVE  k \notin calls' /\ k.op \in {"skipStop", "playStop"} /\ k.track # playing
  <2>1. PICK l \in calls' :
          /\ l.track = k.track
          /\ \/ k.op = "skipStop" /\ l.op = "end"
             \/ k.op = "playStop" /\ l.op = "playStart"
             \/ k.op = "closeStop" /\ l.op = "closeMark"
          /\ calls' = (calls \ {k}) \cup {l}
    BY <1>0, <1>7, StopStepEffect
  <2>2. playing' = playing BY <1>0, <1>7, StopStepEffect
  <2>3. k.track # playing BY <2>1, <2>2, CallDrives
  <2> QED BY <1>c, <2>1, <2>3
<1>8. ASSUME NEW k \in calls, PlayStart(k) PROVE FALSE
  <2>1. calls' = calls \ {k} /\ UNCHANGED playing BY <1>0, <1>8, PlayStartEffect
  <2>2. PICK p \in Pumps : /\ pump[p].at = "free"
                           /\ pump'[p].at = "resolve" /\ pump'[p].track = k.track
                           /\ pump'[p].cancelled = FALSE
                           /\ \A q \in Pumps : q # p => pump'[q] = pump[q]
    BY <1>0, <1>8, <1>c, PlayStartEffect
  <2>3. Live(p)' /\ ~Live(p) BY <2>2 DEF Live
  <2>4. k.track # playing BY <2>1, <2>2, <2>3, PumpDrives
  <2>5. \A q \in Pumps : Live(q) => Live(q)' /\ pump'[q].track = pump[q].track
    BY <2>2, <2>3 DEF Live
  <2> QED BY <1>o, <2>1, <2>4, <2>5, StillDriven
<1>9. ASSUME NEW k \in calls, CloseMark(k) PROVE FALSE BY <1>9, <1>c DEF CloseMark
<1>10. ASSUME NEW p \in Pumps, Pumping(p) PROVE FALSE
  <2>1. /\ UNCHANGED playing /\ \A q \in Pumps : q # p => pump'[q] = pump[q]
        /\ GoesOn(p) \/ Ends(p)
    BY <1>0, <1>10, PumpingEffect
  <2>2. calls \subseteq calls' BY <2>1 DEF GoesOn, Ends
  <2>3. \A q \in Pumps : q # p => (Live(q) => Live(q)' /\ pump'[q].track = pump[q].track)
    BY <2>1 DEF Live
  <2>4. CASE GoesOn(p)
    <3>1. Live(p) => Live(p)' /\ pump'[p].track = pump[p].track BY <2>4 DEF GoesOn, Live
    <3> QED BY <1>o, <2>1, <2>2, <2>3, <3>1, StillDriven
  <2>5. CASE Ends(p) /\ ~(Live(p) /\ pump[p].track = playing)
    BY <1>o, <2>1, <2>2, <2>3, <2>5, StillDriven
  <2>6. CASE Ends(p) /\ Live(p) /\ pump[p].track = playing
    <3>1. calls' = calls \cup {Call("end", playing, p)} BY <2>6 DEF Ends, Live
    <3>2. Call("end", playing, p).track = playing' BY <2>1, CallFields
    <3> QED BY <3>1, <3>2, CallDrives
  <2> QED BY <2>1, <2>4, <2>5, <2>6
<1>11. ASSUME cleanupMedia PROVE FALSE BY <1>11, <1>o DEF cleanupMedia
<1>12. ASSUME UNCHANGED vars PROVE FALSE BY <1>12, <1>a DEF vars
<1> QED BY <1>1, <1>2, <1>3, <1>4, <1>5, <1>6, <1>7, <1>8, <1>9, <1>10, <1>11, <1>12
        DEF Next, Run

(* The track playing loses its pump in one way only: the Stop of a skip    *)
(* that read room.playing before the track before it ended, or of the Play *)
(* of a track skipped before it began.                                     *)
THEOREM OnlyLateCallsStrand == Spec => OnlyLateCallStrands
<1>1. IInv /\ [Next]_vars =>
        [IsDriven /\ ~IsDriven' =>
           \E k \in calls \ calls' :
              k.op \in {"skipStop", "playStop"} /\ k.track # playing]_vars
  BY StrandStep
<1> QED BY <1>1, StreamInductive, PTL DEF Spec, OnlyLateCallStrands

-----------------------------------------------------------------------------
(* REFINEMENT                                                              *)

(* Player's queue is the queue of this module.                             *)
LEMMA SameQueueOperators ==
    /\ \A q, t, st : P!Put(q, t, st) = Put(q, t, st)
    /\ \A q, t : P!Without(q, t) = Without(q, t)
    /\ \A q, n : P!IsFirstReady(q, n) = IsFirstReady(q, n)
    /\ P!Statuses = Statuses
BY DEF P!Put, Put, P!Upsert, Upsert, P!Entry, Entry, P!Has, Has, P!IndexOf, IndexOf,
       P!Without, Without, P!IsFirstReady, IsFirstReady, P!Statuses, Statuses

(* Every step of a stream room is a step of Player or changes nothing of   *)
(* it.                                                                     *)
LEMMA PlayerStep ==
    ASSUME IInv, [Next]_vars
    PROVE  [P!Next]_(P!vars)
<1>0. TypeOK /\ calls \subseteq Calls
  BY IInvParts DEF RoomInv, TypeOK
<1>s. UNCHANGED <<queue, playing>> => [P!Next]_(P!vars) BY DEF P!vars
<1> USE DEF P!Next
<1>1. ASSUME NEW u \in Users, streamSkip(u) \/ Pause(u) \/ Resume(u)
      PROVE  UNCHANGED <<queue, playing>>
  BY <1>1 DEF streamSkip, Pause, Resume, roomVars
<1>2. ASSUME NEW t \in Tracks, RemoveTrack(t) PROVE P!Remove(t)
  BY <1>2, SameQueueOperators DEF RemoveTrack, P!Remove
<1>3. ASSUME NEW t \in Tracks, NEW st \in Statuses, UpsertTrack(t, st) PROVE P!Update(t, st)
  BY <1>3, SameQueueOperators DEF UpsertTrack, P!Update
<1>4. ASSUME NEW k \in calls, streamMaybeStart(k)
      PROVE  UNCHANGED <<queue, playing>> \/ P!Pick
  <2>1. queue' = queue BY <1>4 DEF streamMaybeStart
  <2>2. ASSUME NEW n \in DOMAIN queue, playing = Nil, IsFirstReady(queue, n),
               playing' = queue[n].id
        PROVE  P!Pick
    <3>1. playing' # Nil BY <1>0, <2>2, FirstReadyProperties DEF TypeOK
    <3> QED BY <2>1, <2>2, <3>1, SameQueueOperators DEF P!Pick
  <2> QED BY <1>4, <2>1, <2>2 DEF streamMaybeStart, Chosen
<1>5. ASSUME NEW k \in calls, streamEndTrack(k)
      PROVE  UNCHANGED <<queue, playing>> \/ P!Finish
  <2>1. k.track # Nil
    BY <1>0, <1>5, CallFields DEF streamEndTrack, TrackOps
  <2> QED BY <1>5, <2>1, SameQueueOperators DEF streamEndTrack, P!Finish
<1>6. ASSUME NEW k \in calls, SkipStop(k) \/ PlayStop(k) \/ CloseStop(k) \/ PlayStart(k) \/ CloseMark(k)
      PROVE  UNCHANGED <<queue, playing>>
  BY <1>6 DEF SkipStop, PlayStop, CloseStop, PlayStart, CloseMark, roomVars
<1>7. ASSUME NEW p \in Pumps, Pumping(p) PROVE UNCHANGED <<queue, playing>>
  BY <1>0, <1>7, PumpingEffect
<1>8. CASE cleanupMedia
  <2>1. P!Clear BY <1>8 DEF cleanupMedia, P!Clear
  <2> QED BY <2>1
<1>9. CASE UNCHANGED vars BY <1>9, <1>s DEF vars
<1> QED BY <1>s, <1>1, <1>2, <1>3, <1>4, <1>5, <1>6, <1>7, <1>8, <1>9, SameQueueOperators
        DEF Next, Run

(* A stream room implements Player: it works its queue off in order, one   *)
(* track at a time, with the steps of handlers, pumps and the two mutexes  *)
(* interleaved in any way.  The fairness of P!FairSpec is left to TLC.     *)
THEOREM StreamRoomImplementsPlayer == Spec => P!Spec
<1>1. Init => P!Init
  BY DEF Init, P!Init
<1>2. IInv /\ [Next]_vars => [P!Next]_(P!vars)
  BY PlayerStep
<1> QED BY <1>1, <1>2, StreamInductive, PTL DEF Spec, P!Spec
=============================================================================
