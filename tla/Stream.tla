------------------------------- MODULE Stream -------------------------------
(***************************************************************************)
(* A stream room and its broadcaster: internal/room/stream.go and the      *)
(* playing half of internal/rtc/broadcaster.go.                            *)
(*                                                                         *)
(* Room and Broadcaster have a mutex each; every region under one of them  *)
(* is a step.  Play is two of them, Stop and the installation of b.cancel, *)
(* and streamSkip three: it reads room.playing, calls Stop, and calls      *)
(* streamEndTrack.  What a goroutine still has to do is its call.  A pump  *)
(* is the goroutine Play starts for a track, with its context.             *)
(*                                                                         *)
(* Stop unlocks before it cancels and closes the channel; nobody else can  *)
(* reach either any more, so the step does both at once.  Peers, bitrate,  *)
(* samples, permissions and the preloading of inputs are left out.         *)
(***************************************************************************)
EXTENDS FiniteSets, Queue

CONSTANTS
    Users,     \* clients that pause, resume and skip
    MaxSkips,  \* bound: how many skip requests are made
    Tracks,    \* track IDs
    MaxCalls,  \* bound: a handler starts only if fewer calls are in flight
    Pumps,     \* bound: pump goroutines that can exist at the same time
    Nil        \* no track, no pump

ASSUME StreamAssumption ==
    /\ Nil \notin Tracks \cup Pumps
    /\ MaxSkips \in Nat /\ MaxCalls \in Nat

VARIABLES
    queue,    \* room.queue
    playing,  \* the track of room.playing
    calls,    \* what goroutines still have to do after an unlock
    pump,     \* pump[p]: a pump goroutine, or "free"
    cancel,   \* the pump b.cancel belongs to
    paused,   \* b.paused
    closed,   \* b.closed
    skips,    \* skip requests still to come
    open      \* FALSE once Registry.remove has cleaned the room up

vars == <<queue, playing, calls, pump, cancel, paused, closed, skips, open>>

(* "resolve": waiting for the input.  "pump": at the head of the loop.     *)
(* "wait": waiting on resumeCh.  "finish": about to look at the context    *)
(* and call onEnd.                                                         *)
PumpStates == [at : {"free", "resolve", "pump", "wait", "finish"},
               track : Tracks \cup {Nil}, cancelled : BOOLEAN]
FreePump == [at |-> "free", track |-> Nil, cancelled |-> FALSE]

Callers == Users \cup Tracks \cup Pumps \cup {"registry"}
Calls == [op : {"maybe", "closeStop", "closeMark"}, track : {Nil}, by : Callers]
         \cup [op : {"playStop", "playStart", "skipStop", "end"},
               track : Tracks, by : Callers]
Call(op, t, g) == [op |-> op, track |-> t, by |-> g]

TypeOK ==
    /\ queue \in Queues(Tracks)
    /\ playing \in Tracks \cup {Nil}
    /\ calls \subseteq Calls
    /\ pump \in [Pumps -> PumpStates]
    /\ \A p \in Pumps : pump[p].at # "free" => pump[p].track # Nil
    /\ cancel \in Pumps \cup {Nil}
    /\ paused \in BOOLEAN /\ closed \in BOOLEAN
    /\ skips \in 0..MaxSkips /\ open \in BOOLEAN

Init ==
    /\ queue = <<>> /\ playing = Nil /\ calls = {}
    /\ pump = [p \in Pumps |-> FreePump]
    /\ cancel = Nil /\ paused = FALSE /\ closed = FALSE
    /\ skips = MaxSkips /\ open = TRUE

-----------------------------------------------------------------------------
Idle(g) == \A k \in calls : k.by # g
CanStart(g) == Idle(g) /\ Cardinality(calls) < MaxCalls
Forgets(k, op, t) == calls' = calls \ {k}              \* mutant of the next
Then(k, op, t) == calls' = (calls \ {k}) \cup {Call(op, t, k.by)}
roomVars == <<queue, playing, skips, open>>
bcVars == <<pump, cancel, paused, closed>>

(* close(ch) for the channel every waiting pump holds.                     *)
WakeNone(pm) == pm                                     \* mutant of the next
Wake(pm) == [p \in Pumps |->
               IF pm[p].at = "wait" THEN [pm[p] EXCEPT !.at = "pump"] ELSE pm[p]]

(* Broadcaster.Stop.                                                       *)
Stop ==
    /\ pump' = Wake(IF cancel = Nil THEN pump
                    ELSE [pump EXCEPT ![cancel].cancelled = TRUE])
    /\ cancel' = Nil /\ paused' = FALSE
    /\ UNCHANGED closed

-----------------------------------------------------------------------------
(* The queue.                                                              *)
UpsertTrack(t, st) ==
    /\ CanStart(t)
    /\ queue' = Put(queue, t, st)
    /\ calls' = calls \cup {Call("maybe", Nil, t)}
    /\ UNCHANGED <<playing, skips, open, bcVars>>

RemoveAny(t) ==                                        \* mutant of the next
    queue' = Without(queue, t) /\ UNCHANGED <<playing, skips, open, calls, bcVars>>
RemoveTrack(t) ==
    /\ playing # t
    /\ queue' = Without(queue, t)
    /\ UNCHANGED <<playing, skips, open, calls, bcVars>>

AnyReady(n) == queue[n].status = "ready"               \* mutant of the next
Chosen(n) == IsFirstReady(queue, n)

(* streamMaybeStart: under room.mu the first ready track becomes           *)
(* room.playing; Play comes after the unlock.                              *)
streamMaybeStart(k) ==
    /\ k.op = "maybe"
    /\ \/ /\ playing # Nil \/ ~SomeReady(queue)
          /\ calls' = calls \ {k} /\ UNCHANGED playing
       \/ /\ playing = Nil
          /\ \E n \in DOMAIN queue :
               /\ Chosen(n)
               /\ playing' = queue[n].id
               /\ Then(k, "playStop", queue[n].id)
    /\ UNCHANGED <<queue, skips, open, bcVars>>

(* streamEndTrack, from a pump's onEnd or from streamSkip.                 *)
streamEndTrack(k) ==
    /\ k.op = "end"
    /\ IF playing = k.track
       THEN playing' = Nil /\ queue' = Without(queue, k.track)
            /\ Then(k, "maybe", Nil)
       ELSE calls' = calls \ {k} /\ UNCHANGED <<playing, queue>>
    /\ UNCHANGED <<skips, open, bcVars>>

streamSkip(u) ==
    /\ CanStart(u) /\ playing # Nil
    /\ skips > 0 /\ skips' = skips - 1
    /\ calls' = calls \cup {Call("skipStop", playing, u)}
    /\ UNCHANGED <<queue, playing, open, bcVars>>

SkipStop(k) ==
    /\ k.op = "skipStop" /\ Stop
    /\ Then(k, "end", k.track)
    /\ UNCHANGED roomVars

-----------------------------------------------------------------------------
(* Broadcaster.Play: Stop, then a new context and its goroutine.           *)
PlayStop(k) ==
    /\ k.op = "playStop" /\ Stop
    /\ Then(k, "playStart", k.track)
    /\ UNCHANGED roomVars

(* A pump nobody refers to; all of them are alike, so any will do.         *)
Unused == {p \in Pumps : pump[p].at = "free" /\ cancel # p /\ Idle(p)}

PlayStart(k) ==
    /\ k.op = "playStart"
    /\ calls' = calls \ {k}
    /\ \/ closed /\ UNCHANGED <<pump, cancel>>
       \/ /\ ~closed /\ Unused # {}
          /\ cancel' = CHOOSE p \in Unused : TRUE
          /\ pump' = [pump EXCEPT ![cancel'] = [FreePump EXCEPT
                             !.at = "resolve", !.track = k.track]]
    /\ UNCHANGED <<roomVars, paused, closed>>

Pause(u) ==
    /\ Idle(u) /\ paused' = TRUE
    /\ UNCHANGED <<roomVars, calls, pump, cancel, closed>>

Resume(u) ==
    /\ Idle(u) /\ paused /\ paused' = FALSE
    /\ pump' = Wake(pump)
    /\ UNCHANGED <<roomVars, calls, cancel, closed>>

(* cleanupMedia empties the room and then calls Broadcaster.Close: Stop,   *)
(* and after another lock closed.                                          *)
cleanupMedia ==
    /\ open /\ open' = FALSE
    /\ playing' = Nil /\ queue' = <<>>
    /\ calls' = calls \cup {Call("closeStop", Nil, "registry")}
    /\ UNCHANGED <<skips, bcVars>>

CloseStop(k) ==
    /\ k.op = "closeStop" /\ Stop
    /\ Then(k, "closeMark", Nil)
    /\ UNCHANGED roomVars

CloseMark(k) ==
    /\ k.op = "closeMark" /\ closed' = TRUE
    /\ calls' = calls \ {k}
    /\ UNCHANGED <<roomVars, pump, cancel, paused>>

-----------------------------------------------------------------------------
(* The pump goroutine.  Moves leave the room and the broadcaster alone.    *)
Move(p, at) ==
    /\ pump' = [pump EXCEPT ![p] = IF at = "free" THEN FreePump
                                   ELSE [@ EXCEPT !.at = at]]
    /\ UNCHANGED <<roomVars, cancel, paused, closed>>

(* StreamInput returns a file or an address, or nothing; with an input     *)
(* ffmpeg starts, which may fail too.                                      *)
StreamInput == {"input", "none"}
Resolved(p) ==
    /\ pump[p].at = "resolve"
    /\ \E input \in StreamInput :
         Move(p, "finish") \/ (input # "none" /\ Move(p, "pump"))
    /\ UNCHANGED calls

(* The head of the loop: the context, then waitIfPaused.                   *)
LoopHead(p) ==
    /\ \/ pump[p].at = "pump" /\ pump[p].cancelled /\ Move(p, "free")
       \/ /\ pump[p].at = "pump" /\ ~pump[p].cancelled
          /\ paused /\ ~closed /\ Move(p, "wait")
       \/ pump[p].at = "wait" /\ pump[p].cancelled /\ Move(p, "free")
    /\ UNCHANGED calls

(* The last page, or an error of the reader or of the track.               *)
Eof(p) ==
    /\ pump[p].at = "pump" /\ ~pump[p].cancelled /\ (~paused \/ closed)
    /\ Move(p, "finish")
    /\ UNCHANGED calls

(* finish: a cancelled pump ends silently, another calls onEnd.            *)
FinishSilently(p) ==                                   \* mutant of the next
    /\ pump[p].at = "finish" /\ Idle(p)
    /\ Move(p, "free")
    /\ UNCHANGED calls
finish(p) ==
    /\ pump[p].at = "finish" /\ Idle(p)
    /\ Move(p, "free")
    /\ calls' = IF pump[p].cancelled THEN calls
                ELSE calls \cup {Call("end", pump[p].track, p)}

-----------------------------------------------------------------------------
Run(k) ==
    k \in calls /\ (\/ streamMaybeStart(k) \/ streamEndTrack(k) \/ SkipStop(k)
                    \/ PlayStop(k) \/ PlayStart(k)
                    \/ CloseStop(k) \/ CloseMark(k))
Step(g) == \E k \in calls : k.by = g /\ Run(k)
Pumping(p) == Resolved(p) \/ LoopHead(p) \/ Eof(p) \/ finish(p)

Next ==
    \/ \E u \in Users : open /\ (streamSkip(u) \/ Pause(u) \/ Resume(u))
    \/ \E t \in Tracks : RemoveTrack(t) \/ \E st \in Statuses : UpsertTrack(t, st)
    \/ \E k \in calls : Run(k)
    \/ \E p \in Pumps : Pumping(p)
    \/ cleanupMedia

Spec == Init /\ [][Next]_vars

(* Goroutines run, and every input has a last page.                        *)
FairSpec == /\ Spec
            /\ \A g \in Callers : WF_vars(Step(g))
            /\ \A p \in Pumps : WF_vars(Pumping(p))

-----------------------------------------------------------------------------
(* SAFETY                                                                  *)

(* No wake-up is lost: a pump sleeps only while the broadcast is paused or *)
(* when its context is done, whoever paused, resumed or stopped it and in  *)
(* whatever order.                                                         *)
NoLostWakeup ==
    \A p \in Pumps : pump[p].at = "wait" => paused \/ pump[p].cancelled

(* The track playing is in the queue and no track is queued twice.         *)
QueueHasPlaying == (playing # Nil => Has(queue, playing)) /\ NoDuplicates(queue)

(* If nothing plays and a track is ready, a goroutine still has to call    *)
(* streamMaybeStart.                                                       *)
ReadyTrackIsPickedUp ==
    playing = Nil /\ SomeReady(queue) => \E k \in calls : k.op = "maybe"

Live(p) == pump[p].at # "free" /\ ~pump[p].cancelled
NobodySkipped == skips = MaxSkips

(* docs/protocol.md: "the server plays one track at a time".  This holds   *)
(* as long as nobody skips; a skip lets two Plays overlap.                 *)
OneTrackAtATime ==
    open /\ NobodySkipped => \A p, q \in Pumps : Live(p) /\ Live(q) => p = q

(* The track playing has a pump that will end it, or a goroutine about to  *)
(* start or end it.                                                        *)
IsDriven ==
    playing # Nil /\ open =>
      \/ \E p \in Pumps : Live(p) /\ pump[p].track = playing
      \/ \E k \in calls : k.track = playing
PlayingIsDriven == NobodySkipped => IsDriven

(* As long as nobody skips one goroutine at a time has to do with a track: *)
(* a live pump, or a call about to start or to end the track playing.  A   *)
(* room that is open has no broadcaster that is closed or being closed.    *)
OneDriver ==
    /\ open => ~closed /\ \A k \in calls : k.op \notin {"closeStop", "closeMark"}
    /\ NobodySkipped => \A k \in calls : k.op # "skipStop"
    /\ open /\ NobodySkipped =>
         /\ \A k, l \in calls : k.track # Nil /\ l.track # Nil => k = l
         /\ \A k \in calls, p \in Pumps : k.track # Nil => ~Live(p)
         /\ \A k \in calls : k.track # Nil => k.track = playing
         /\ \A p \in Pumps : Live(p) => pump[p].track = playing /\ playing # Nil

(* What the room and its broadcaster, each under its own mutex, keep true  *)
(* of each other: the queue holds the track playing, an idle room is about *)
(* to take a ready one, and the track playing has one pump, its own.       *)
StreamInv ==
    /\ TypeOK /\ QueueHasPlaying /\ ReadyTrackIsPickedUp
    /\ OneTrackAtATime /\ PlayingIsDriven /\ OneDriver

(* A track loses its pump in one way only: a call on behalf of an earlier  *)
(* track stops it.  That is a skip that read room.playing before the       *)
(* earlier track ended, or the Play of a track skipped before it began.    *)
OnlyLateCallStrands ==
    [][IsDriven /\ ~IsDriven' =>
         \E k \in calls \ calls' :
            k.op \in {"skipStop", "playStop"} /\ k.track # playing]_vars

(* LIVENESS, under FairSpec                                                *)

(* A track comes to its end unless the broadcast is paused or the room     *)
(* goes away, as long as nobody skips.                                     *)
TrackEndsUnskipped ==
    (playing # Nil /\ NobodySkipped)
        ~> (playing = Nil \/ paused \/ ~open \/ ~NobodySkipped)

-----------------------------------------------------------------------------
(* REFINEMENT                                                              *)

P == INSTANCE Player WITH
       current <- playing, phase <- IF playing = Nil THEN "idle" ELSE "playing"

(* A stream room works its queue off in order, whatever skips, removals    *)
(* and natural ends race, and an idle room with a ready track takes one.   *)
ImplementsFairPlayer == P!FairSpec

-----------------------------------------------------------------------------
(* WHAT THE DOCUMENTATION SAYS AND THE CODE DOES NOT DO                    *)

(* docs/protocol.md: the server "advances on track end" and "`skip`        *)
(* cancels the current track and advances".  A skip that comes late stops  *)
(* the next track, and nobody ends that one.                               *)
TrackEnds == playing # Nil ~> (playing = Nil \/ paused \/ ~open)
=============================================================================
