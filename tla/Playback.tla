------------------------------ MODULE Playback ------------------------------
(***************************************************************************)
(* Scheduled playback in a signal room: internal/room/playback.go and the  *)
(* queue operations of room.go that feed it.                               *)
(*                                                                         *)
(* Each region under room.mu is one step.  What the same goroutine does    *)
(* after unlocking (maybeStart after endTrack, startPlayback after         *)
(* MarkReady, ...) is a call in `calls' that runs as a later step, so any  *)
(* other handler, pipeline goroutine or timer callback may come between.   *)
(*                                                                         *)
(* Time is discrete and relative: a timer knows how long it still has to   *)
(* run, and lead is t0 - nowMs().  Callbacks are prompt: time passes only  *)
(* when no call is in flight.  Handlers act on an ID whether or not it is  *)
(* in room.clients, as an evicted connection may.  Permissions, messages   *)
(* and media clean-up are in other modules.                                *)
(***************************************************************************)
EXTENDS Integers, FiniteSets, Queue

CONSTANTS
    Users,          \* client IDs
    Tracks,         \* track IDs
    Nil,            \* no track
    Duration,       \* Duration[t]: durationMs; 0 when unknown
    ReadyTimeouts,  \* readyDeadline for the sync policies
    StartBuffer,    \* startBufferMs
    EndGrace,       \* endGraceMs
    Seeks,          \* the positions a client asks for
    MaxControls,    \* bound: how many pause, resume and seek requests are made
    MaxCalls,       \* bound: a handler starts only if fewer calls are in flight
    MaxPos          \* bound: a track of unknown length is not timed beyond this

ASSUME PlaybackAssumption ==
    /\ Nil \notin Tracks
    /\ Duration \in [Tracks -> Nat]
    /\ ReadyTimeouts \subseteq Nat \ {0}
    /\ StartBuffer \in Nat \ {0} /\ EndGrace \in Nat
    /\ Seeks \subseteq Int /\ MaxControls \in Nat
    /\ MaxCalls \in Nat /\ MaxPos \in Nat

VARIABLES
    clients,   \* the keys of room.clients
    queue,     \* room.queue: tracks with their status
    playing,   \* room.playing (see Playbacks)
    timers,    \* the running timers
    calls,     \* what goroutines still have to do after an unlock
    controls,  \* pause, resume and seek requests still to come
    open       \* FALSE once Registry.remove has cleaned the room up

vars == <<clients, queue, playing, timers, calls, controls, open>>

(* A playback: lead is t0 - nowMs() and is not tracked while paused, when  *)
(* nothing reads t0.                                                       *)
Playbacks == [track : Tracks \cup {Nil}, ready : SUBSET Users,
              started : BOOLEAN, paused : BOOLEAN, lead : Int, s : Int]
NoPlayback == [track |-> Nil, ready |-> {}, started |-> FALSE,
               paused |-> FALSE, lead |-> 0, s |-> 0]

(* own: made by or for the playback that is room.playing now.  Timer.Stop  *)
(* works through the playback, but callbacks compare track IDs only.       *)
Timers == [op : {"start", "end"}, track : Tracks, in : Nat, own : BOOLEAN]
Callers == Users \cup Tracks \cup {"timer"}
Calls == [op : {"start", "end"}, track : Tracks, by : Callers, own : BOOLEAN]
         \cup [op : {"maybe", "recheck"}, track : {Nil}, by : Callers, own : {FALSE}]

TypeOK ==
    /\ clients \in SUBSET Users /\ queue \in Queues(Tracks) /\ playing \in Playbacks
    /\ timers \subseteq Timers /\ calls \subseteq Calls
    /\ controls \in 0..MaxControls /\ open \in BOOLEAN

Init ==
    /\ clients = {} /\ queue = <<>> /\ playing = NoPlayback
    /\ timers = {} /\ calls = {} /\ controls = MaxControls /\ open = TRUE

-----------------------------------------------------------------------------
IsPlaying == playing.track # Nil
CanStart(g) == Cardinality(calls) < MaxCalls /\ \A k \in calls : k.by # g
Disown(ks) == {[k EXCEPT !.own = FALSE] : k \in ks}
AtLeastZero(n) == IF n < 0 THEN 0 ELSE n
AllReady(pb, cl) == \A u \in cl : u \in pb.ready

MaybeCall(g) == [op |-> "maybe", track |-> Nil, by |-> g, own |-> FALSE]
MaybeInstead(g) == MaybeCall(g)                        \* mutant of the next
RecheckCall(g) == [op |-> "recheck", track |-> Nil, by |-> g, own |-> FALSE]
OwnCall(op, t, g) == [op |-> op, track |-> t, by |-> g, own |-> TRUE]

(* What is left to be heard from position s.                               *)
Whole(pb) == Duration[pb.track]                        \* mutant of the next
Remaining(pb) == AtLeastZero(Duration[pb.track] - pb.s)

(* scheduleEnd: the end timer of a playback; none if paused or of unknown  *)
(* length.                                                                 *)
EndTimer(pb) ==
    IF pb.paused \/ Duration[pb.track] = 0 THEN {}
    ELSE {[op |-> "end", track |-> pb.track, own |-> TRUE,
           in |-> AtLeastZero(pb.lead + Remaining(pb) + EndGrace)]}
scheduleOnce(pb, tms) ==                               \* mutant of the next
    {tm \in tms : tm.op # "end"} \cup (IF pb.s = 0 THEN EndTimer(pb) ELSE {})
scheduleEnd(pb, tms) == {tm \in tms : tm.op # "end"} \cup EndTimer(pb)

(* The readyTimer of a new playback.                                       *)
ReadyTimerIfHeard(t, d) ==                             \* mutant of the next
    IF clients = {} THEN {}
    ELSE {[op |-> "start", track |-> t, in |-> d, own |-> TRUE]}
ReadyTimer(t, d) == {[op |-> "start", track |-> t, in |-> d, own |-> TRUE]}

-----------------------------------------------------------------------------
(* Membership, as playback sees it: Join, and Leave or HardLeave with the  *)
(* recheckReady they end with.                                             *)
Join(u) ==
    /\ u \notin clients /\ CanStart(u)
    /\ clients' = clients \cup {u}
    /\ UNCHANGED <<queue, playing, timers, calls, controls, open>>

Leave(u) ==
    /\ u \in clients /\ CanStart(u)
    /\ clients' = clients \ {u}
    /\ calls' = calls \cup {RecheckCall(u)}
    /\ UNCHANGED <<queue, playing, timers, controls, open>>

(* UpsertTrack by the pipeline goroutine of t (or the handler's initial    *)
(* upsert), then maybeStart.                                               *)
UpsertTrack(t, st) ==
    /\ CanStart(t)
    /\ queue' = Put(queue, t, st)
    /\ calls' = calls \cup {MaybeCall(t)}
    /\ UNCHANGED <<clients, playing, timers, controls, open>>

RemoveAny(u, t) ==                                     \* mutant of the next
    /\ CanStart(u)
    /\ queue' = Without(queue, t)
    /\ UNCHANGED <<clients, playing, timers, calls, controls, open>>
RemoveTrack(u, t) ==
    /\ CanStart(u)
    /\ playing.track # t
    /\ queue' = Without(queue, t)
    /\ UNCHANGED <<clients, playing, timers, calls, controls, open>>

-----------------------------------------------------------------------------
(* maybeStart: the first ready track becomes room.playing.                 *)
AnyReady(n) == queue[n].status = "ready"               \* mutant of the next
Chosen(n) == IsFirstReady(queue, n)
maybeStart(k) ==
    /\ k.op = "maybe"
    /\ calls' = calls \ {k}
    /\ \/ /\ IsPlaying \/ ~SomeReady(queue)
          /\ UNCHANGED <<playing, timers>>
       \/ /\ ~IsPlaying
          /\ \E n \in DOMAIN queue, d \in ReadyTimeouts :
               /\ Chosen(n)
               /\ playing' = [NoPlayback EXCEPT !.track = queue[n].id]
               /\ timers' = timers \cup ReadyTimer(queue[n].id, d)
    /\ UNCHANGED <<clients, queue, controls, open>>

(* MarkReady: before the start it may complete the set of ready clients;   *)
(* after it, the client is late and is sent now_playing.                   *)
MarkReady(u, t) ==
    /\ CanStart(u)
    /\ IsPlaying /\ playing.track = t
    /\ playing.started => u \notin playing.ready
    /\ playing' = [playing EXCEPT !.ready = @ \cup {u}]
    /\ calls' = IF ~playing.started /\ AllReady(playing', clients)
                THEN calls \cup {OwnCall("start", t, u)} ELSE calls
    /\ UNCHANGED <<clients, queue, timers, controls, open>>

recheckReady(k) ==
    /\ k.op = "recheck"
    /\ calls' = (calls \ {k}) \cup
                  IF /\ IsPlaying /\ ~playing.started /\ clients # {}
                     /\ AllReady(playing, clients)
                  THEN {OwnCall("start", playing.track, k.by)} ELSE {}
    /\ UNCHANGED <<clients, queue, playing, timers, controls, open>>

startPlayback(k) ==
    /\ k.op = "start"
    /\ calls' = calls \ {k}
    /\ IF playing.track = k.track /\ ~playing.started
       THEN /\ playing' = [playing EXCEPT !.started = TRUE,
                                          !.lead = StartBuffer, !.s = 0]
            /\ timers' = scheduleEnd(playing',
                           {tm \in timers : ~(tm.op = "start" /\ tm.own)})
       ELSE UNCHANGED <<playing, timers>>
    /\ UNCHANGED <<clients, queue, controls, open>>

-----------------------------------------------------------------------------
(* Pause, Resume and SeekTo.                                               *)
Control(u) ==
    /\ CanStart(u)
    /\ IsPlaying /\ playing.started
    /\ controls > 0 /\ controls' = controls - 1
    /\ UNCHANGED <<clients, queue, calls, open>>

Pause(u) ==
    /\ Control(u) /\ ~playing.paused
    /\ playing' = [playing EXCEPT !.paused = TRUE, !.s = @ - playing.lead,
                                  !.lead = 0]
    /\ timers' = scheduleEnd(playing', timers)

Resume(u) ==
    /\ Control(u) /\ playing.paused
    /\ playing' = [playing EXCEPT !.paused = FALSE, !.lead = StartBuffer]
    /\ timers' = scheduleEnd(playing', timers)

SeekTo(u, ms) ==
    /\ Control(u)
    /\ playing' = [playing EXCEPT !.s = AtLeastZero(ms),
                     !.lead = IF playing.paused THEN 0 ELSE StartBuffer]
    /\ timers' = scheduleEnd(playing', timers)

(* Skip reads the track to end, unlocks, and calls endTrack.               *)
Skip(u) ==
    /\ CanStart(u) /\ IsPlaying
    /\ calls' = calls \cup {OwnCall("end", playing.track, u)}
    /\ UNCHANGED <<clients, queue, playing, timers, controls, open>>

(* endTrack stops the end timer; the readyTimer of a track skipped before  *)
(* it started runs on.                                                     *)
endTrack(k) ==
    /\ k.op = "end"
    /\ IF playing.track = k.track
       THEN /\ playing' = NoPlayback
            /\ queue' = Without(queue, k.track)
            /\ timers' = Disown({tm \in timers : tm.op # "end"})
            /\ calls' = Disown(calls \ {k}) \cup {MaybeCall(k.by)}
       ELSE calls' = calls \ {k} /\ UNCHANGED <<queue, playing, timers>>
    /\ UNCHANGED <<clients, controls, open>>

(* cleanupMedia stops the playback's timers and empties the room; calls in *)
(* flight go on, and so may the pipeline.                                  *)
cleanupMedia ==
    /\ open /\ open' = FALSE
    /\ playing' = NoPlayback /\ queue' = <<>>
    /\ timers' = {tm \in timers : ~tm.own}
    /\ calls' = Disown(calls)
    /\ UNCHANGED <<clients, controls>>

-----------------------------------------------------------------------------
TimerFires(tm) ==
    /\ tm.in = 0
    /\ timers' = timers \ {tm}
    /\ calls' = calls \cup {[op |-> tm.op, track |-> tm.track, by |-> "timer",
                             own |-> tm.own]}
    /\ UNCHANGED <<clients, queue, playing, controls, open>>

Elapse(pb) ==
    IF \/ ~pb.started \/ pb.paused
       \/ Duration[pb.track] = 0 /\ pb.lead = -MaxPos
    THEN pb ELSE [pb EXCEPT !.lead = @ - 1]

Tick ==
    /\ calls = {} /\ \A tm \in timers : tm.in > 0
    /\ timers' = {[tm EXCEPT !.in = @ - 1] : tm \in timers}
    /\ playing' = Elapse(playing)
    /\ UNCHANGED <<clients, queue, calls, controls, open>>

-----------------------------------------------------------------------------
Run(k) == k \in calls /\ (maybeStart(k) \/ recheckReady(k)
                             \/ startPlayback(k) \/ endTrack(k))
Fire == \E tm \in timers : TimerFires(tm)

Next ==
    \/ \E u \in Users : \/ Join(u) \/ Leave(u)
                        \/ Pause(u) \/ Resume(u) \/ Skip(u)
                        \/ \E ms \in Seeks : SeekTo(u, ms)
                        \/ \E t \in Tracks : RemoveTrack(u, t) \/ MarkReady(u, t)
    \/ \E t \in Tracks, st \in Statuses : UpsertTrack(t, st)
    \/ (\E k \in calls : Run(k)) \/ Fire \/ Tick \/ cleanupMedia

Spec == Init /\ [][Next]_vars

(* Every goroutine runs and timers fire; while a timer runs, time goes on: *)
(* requests do not crowd infinitely many steps into one instant.           *)
TimeGoesOn == []<>(timers = {}) \/ []<><<Tick>>_vars
FairSpec == /\ Spec /\ TimeGoesOn
            /\ \A k \in Calls : WF_vars(Run(k))
            /\ WF_vars(Fire)

-----------------------------------------------------------------------------
(* SAFETY                                                                  *)

(* While a track plays, a timer is set for exactly the moment it will have *)
(* been heard to its end, whatever pauses, resumes and seeks came before;  *)
(* no end timer runs for a paused, preparing or former track.              *)
EndOnTime ==
    /\ playing.started /\ ~playing.paused /\ Duration[playing.track] > 0 =>
         \/ \E tm \in timers :
              /\ tm.op = "end" /\ tm.own /\ tm.track = playing.track
              /\ tm.in = playing.lead + EndGrace
                           + AtLeastZero(Duration[playing.track] - playing.s)
         \/ \E k \in calls : k.op = "end" /\ k.own /\ k.by = "timer"
    /\ \A tm \in timers : tm.op = "end" => playing.started /\ ~playing.paused

(* A track being prepared has its deadline running, or its start under     *)
(* way: it cannot wait for ever for clients that never get ready.          *)
PrepareHasDeadline ==
    IsPlaying /\ ~playing.started =>
      \/ \E tm \in timers : tm.op = "start" /\ tm.own
      \/ \E k \in calls : k.op = "start" /\ k.own

(* The track playing is in the queue, where endTrack will find it, and no  *)
(* track is queued twice, though upserts and removals come at any time.    *)
QueueHasPlaying ==
    /\ IsPlaying => Has(queue, playing.track)
    /\ NoDuplicates(queue)

(* The room never sits idle on a ready track: if nothing plays and one is  *)
(* ready, some goroutine still has to call maybeStart.                     *)
ReadyTrackIsPickedUp ==
    ~IsPlaying /\ SomeReady(queue) =>
      \E k \in calls : k.op = "maybe"

(* Timers and calls made for a playback do not outlive it unnoticed: what  *)
(* counts as the present playback's is about its track, and the end timer  *)
(* of a former one was stopped, though callbacks compare only track IDs.   *)
(* Only a track starts, and only a started one is paused.                  *)
OwnIsCurrent ==
    /\ \A tm \in timers : tm.own => IsPlaying /\ tm.track = playing.track
    /\ \A k \in calls : k.own => IsPlaying /\ k.track = playing.track
    /\ \A tm \in timers : tm.op = "end" => tm.own
    /\ playing.started => IsPlaying
    /\ playing.paused => playing.started

(* What every handler of a signal room relies on when it takes room.mu.    *)
(* RemoveTrack and UpsertTrack keep it in the middle of a track, and       *)
(* endTrack and cleanupMedia between two.                                  *)
PlaybackInv == TypeOK /\ QueueHasPlaying /\ ReadyTrackIsPickedUp /\ OwnIsCurrent

(* When the last client that was not ready becomes ready or leaves, the    *)
(* start is under way at once and does not wait for the deadline.          *)
StartFollowsReadiness ==
    [][(/\ IsPlaying /\ ~playing.started /\ ~AllReady(playing, clients)
        /\ playing'.track = playing.track /\ ~playing'.started
        /\ clients' # {} /\ AllReady(playing', clients'))
       => \E k \in calls' :
            \/ k.op = "recheck"
            \/ k.op = "start" /\ k.track = playing.track]_vars

(* LIVENESS, under FairSpec                                                *)

(* A started track of known length comes to its end, or is left paused.    *)
TrackEnds ==
    (playing.started /\ Duration[playing.track] > 0)
        ~> (~IsPlaying \/ playing.paused)

-----------------------------------------------------------------------------
(* REFINEMENT                                                              *)

Phase == CASE ~IsPlaying -> "idle"
           [] IsPlaying /\ ~playing.started -> "preparing"
           [] playing.started /\ ~playing.paused -> "playing"
           [] OTHER -> "paused"
P == INSTANCE Player WITH current <- playing.track, phase <- Phase

(* A signal room works its queue off in order: every step of a handler, a  *)
(* pipeline goroutine or a timer is a step of Player or changes nothing of *)
(* it.                                                                     *)
ImplementsPlayer == P!Spec
=============================================================================
