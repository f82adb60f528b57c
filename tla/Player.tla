------------------------------- MODULE Player -------------------------------
(***************************************************************************)
(* What a room promises about its queue, whichever its mode: it works the  *)
(* queue off, one track at a time.  An idle room takes the first track     *)
(* that is ready; a track that was taken stays in the queue and is not     *)
(* exchanged for another until it ends; it leaves the queue in the step    *)
(* that ends it.  Playback (signal rooms) and Stream (stream rooms)        *)
(* implement this: there the steps are spread over handlers, pipeline      *)
(* goroutines, timers and pumps.                                           *)
(***************************************************************************)
EXTENDS Queue

CONSTANTS Tracks, Nil

VARIABLES
    queue,    \* room.queue
    current,  \* the track of room.playing, or Nil
    phase     \* what the listeners get

vars == <<queue, current, phase>>

Init == queue = <<>> /\ current = Nil /\ phase = "idle"

(* Resolving, becoming ready, being removed; not the current track.        *)
Update(t, st) == queue' = Put(queue, t, st) /\ UNCHANGED <<current, phase>>
Remove(t) == /\ t # current
             /\ queue' = Without(queue, t)
             /\ UNCHANGED <<current, phase>>

(* A signal room prepares a track before it plays; a stream room does not. *)
Pick ==
    /\ current = Nil
    /\ \E n \in DOMAIN queue : IsFirstReady(queue, n) /\ current' = queue[n].id
    /\ phase' \in {"preparing", "playing"}
    /\ UNCHANGED queue

Start == phase = "preparing" /\ phase' = "playing" /\ UNCHANGED <<queue, current>>
Pause == phase = "playing" /\ phase' = "paused" /\ UNCHANGED <<queue, current>>
Resume == phase = "paused" /\ phase' = "playing" /\ UNCHANGED <<queue, current>>

(* The current track ends, by itself or by a skip.                         *)
Finish ==
    /\ current # Nil /\ current' = Nil /\ phase' = "idle"
    /\ queue' = Without(queue, current)

(* The room is removed.                                                    *)
Clear == queue' = <<>> /\ current' = Nil /\ phase' = "idle"

Next ==
    \/ \E t \in Tracks : Remove(t) \/ \E st \in Statuses : Update(t, st)
    \/ Pick \/ Start \/ Pause \/ Resume \/ Finish \/ Clear

Spec == Init /\ [][Next]_vars

(* An idle room with a ready track takes one.                              *)
FairSpec == Spec /\ WF_vars(Pick)
=============================================================================
