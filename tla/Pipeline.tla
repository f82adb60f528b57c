------------------------------ MODULE Pipeline ------------------------------
(***************************************************************************)
(* How one source URL becomes a file and the file goes away again:         *)
(* internal/media/pipeline.go, the enqueue handler of internal/wsapi and   *)
(* Registry.cleanIfUnused of internal/room/room.go.                        *)
(*                                                                         *)
(* One URL, hence one track ID, and the rooms that enqueue it.  Pipeline,  *)
(* Registry and each room have a mutex; every region under one of them,    *)
(* every file operation and every end of an external process is a step.    *)
(* A room is what it holds for the track: nothing, or the last snapshot    *)
(* given to UpsertTrack.                                                   *)
(*                                                                         *)
(* Left out: title and duration, the segments and the .m4a of long tracks  *)
(* (such a track becomes ready without an .opus file), uploads, and what   *)
(* Status makes the room play (modules Playback and Stream).               *)
(***************************************************************************)
EXTENDS Naturals

CONSTANTS
    Rooms,  \* the rooms
    Runs,   \* bound: run goroutines that can exist at the same time
            \* (and one cleanIfUnused call for each room)
    Nil     \* a missing map entry

Statuses == {"resolving", "ready", "error"}

ASSUME PipelineAssumption ==
    /\ Nil \notin Rooms \cup Runs \cup Statuses
    /\ {"none", "whole", "cut"} \cap Runs = {}

VARIABLES
    track,    \* p.tracks[id].Status, or Nil
    stream,   \* p.streams[id]: the run that registered it
    run,      \* run[r]: a Pipeline.run goroutine
    file,     \* <id>.opus: "none", "whole", "cut" short, or the run that is
              \* still writing it
    part,     \* <id>.part: the run that created it
    entry,    \* entry[q]: what room q's queue holds for the track
    playing,  \* the rooms whose room.playing is the track
    listed,   \* the rooms in Registry.rooms
    initial,  \* initial[q]: Resolve's result, which the handler will upsert
    cleaner   \* cleaner[q]: a clean-up made for room q

vars == <<track, stream, run, file, part,
          entry, playing, listed, initial, cleaner>>
mediaVars == <<track, stream, run, file, part>>
roomsVars == <<entry, playing, listed, initial, cleaner>>

RunsAt(ats, snaps) == [at : ats, room : Rooms, snap : snaps, aborted : BOOLEAN]
FreeRun == [at |-> "free", room |-> Nil, snap |-> Nil, aborted |-> FALSE]
RunStates ==
    {FreeRun} \cup RunsAt({"title", "tell"}, Statuses)
    \cup RunsAt({"probe", "stat", "register", "create", "copy", "rename",
                 "done", "failed", "ready", "error"}, Statuses \cup {Nil})

(* left: the rooms cleanIfUnused has still to ask; paths: what Delete's    *)
(* Glob returned.                                                          *)
CleanerStates == [at : {"idle", "media", "list", "check", "glob", "files"},
                  left : SUBSET Rooms, paths : SUBSET {"opus", "part"}]
IdleCleaner == [at |-> "idle", left |-> {}, paths |-> {}]

TypeOK ==
    /\ track \in Statuses \cup {Nil}
    /\ stream \in Runs \cup {Nil}
    /\ run \in [Runs -> RunStates]
    /\ file \in {"none", "whole", "cut"} \cup Runs
    /\ part \in Runs \cup {Nil}
    /\ entry \in [Rooms -> Statuses \cup {Nil}]
    /\ playing \in SUBSET Rooms /\ listed \in SUBSET Rooms
    /\ initial \in [Rooms -> Statuses \cup {Nil}]
    /\ cleaner \in [Rooms -> CleanerStates]

Init ==
    /\ track = Nil /\ stream = Nil /\ file = "none" /\ part = Nil
    /\ run = [r \in Runs |-> FreeRun]
    /\ entry = [q \in Rooms |-> Nil] /\ playing = {}
    /\ listed = Rooms /\ initial = [q \in Rooms |-> Nil]
    /\ cleaner = [q \in Rooms |-> IdleCleaner]

-----------------------------------------------------------------------------
(* Resolve, called by the enqueue handler of room q: an ID already known   *)
(* is returned as it is; a new one gets a run that will tell q only.  The  *)
(* connection of an evicted client still reaches a removed room.           *)
Resolve(q) ==
    /\ initial[q] = Nil
    /\ \/ /\ track # Nil
          /\ initial' = [initial EXCEPT ![q] = track]
          /\ UNCHANGED <<track, run>>
       \/ /\ track = Nil
          /\ initial' = [initial EXCEPT ![q] = "resolving"]
          /\ track' = "resolving"
          /\ \E r \in Runs :
               /\ run[r].at = "free"
               /\ run' = [run EXCEPT ![r] = [FreeRun EXCEPT !.at = "probe",
                                                            !.room = q]]
    /\ UNCHANGED <<stream, file, part, entry, playing, listed, cleaner>>

(* rm.UpsertTrack(initial), after Resolve has released the pipeline.       *)
UpsertInitial(q) ==
    /\ initial[q] # Nil
    /\ entry' = [entry EXCEPT ![q] = initial[q]]
    /\ initial' = [initial EXCEPT ![q] = Nil]
    /\ UNCHANGED <<mediaVars, playing, listed, cleaner>>

-----------------------------------------------------------------------------
(* Pipeline.run.                                                           *)
ReturnOnFailure(r, at) ==                              \* mutant of the next
    run' = [run EXCEPT ![r] = IF at = "failed" THEN FreeRun ELSE [@ EXCEPT !.at = at]]
Goto(r, at) == run' = [run EXCEPT ![r].at = at]

(* update: a snapshot for the run's room, unless Delete was faster.        *)
update(r, status, next, otherwise) ==
    IF track = Nil
    THEN /\ run' = [run EXCEPT ![r] = IF otherwise = "free" THEN FreeRun
                                      ELSE [@ EXCEPT !.at = otherwise]]
         /\ UNCHANGED track
    ELSE /\ track' = status
         /\ run' = [run EXCEPT ![r].at = next, ![r].snap = status]

(* What probeMeta may return: a title, which is passed on, or none.        *)
probeMeta == {"", "title"}
Probed(r) ==
    /\ run[r].at = "probe"
    /\ \E title \in probeMeta :
         IF title = "" THEN Goto(r, "stat") /\ UNCHANGED track
         ELSE update(r, track, "title", "stat")
    /\ UNCHANGED <<stream, file, part, roomsVars>>

(* onUpdate: UpsertTrack in the run's room, registered or not.             *)
onTitle(r) ==                                          \* mutant of the next
    IF run[r].at = "tell" THEN entry ELSE [entry EXCEPT ![run[r].room] = run[r].snap]
onUpdate(r) == [entry EXCEPT ![run[r].room] = run[r].snap]

Told(r) ==
    /\ run[r].at \in {"title", "tell"}
    /\ entry' = onUpdate(r)
    /\ run' = [run EXCEPT ![r] = IF @.at = "tell" THEN FreeRun
                                 ELSE [@ EXCEPT !.at = "stat"]]
    /\ UNCHANGED <<track, stream, file, part, playing, listed, initial, cleaner>>

(* A cached file or a long track is ready at once.                         *)
Stat(r) ==
    /\ run[r].at = "stat"
    /\ \/ Goto(r, "ready")
       \/ file = "none" /\ Goto(r, "register")
    /\ UNCHANGED <<track, stream, file, part, roomsVars>>

(* transcodeComplete registers its stream, then makes a new .part file.    *)
Register(r) ==
    /\ run[r].at = "register"
    /\ stream' = r
    /\ Goto(r, "create")
    /\ UNCHANGED <<track, file, part, roomsVars>>

Create(r) ==
    /\ run[r].at = "create"
    /\ \/ part' = r /\ Goto(r, "copy")
       \/ part' = Nil /\ Goto(r, "failed")
    /\ UNCHANGED <<track, stream, file, roomsVars>>

(* The copy ends.  A failed or aborted one removes the .part file, whoever *)
(* made it; its own may have been renamed by another run.                  *)
Written(r, how) == file' = IF file = r THEN how ELSE file

Copied(r) ==
    /\ run[r].at = "copy"
    /\ \/ /\ ~run[r].aborted /\ Goto(r, "rename")
          /\ Written(r, "whole") /\ UNCHANGED part
       \/ Goto(r, "failed") /\ Written(r, "cut") /\ part' = Nil
    /\ UNCHANGED <<track, stream, roomsVars>>

(* os.Rename moves the file of that name, whoever made it.                 *)
Rename(r) ==
    /\ run[r].at = "rename"
    /\ part' = Nil
    /\ \/ part = Nil /\ Goto(r, "failed") /\ UNCHANGED file
       \/ /\ part # Nil /\ Goto(r, "done")
          /\ file' = IF run[part].at = "copy" THEN part ELSE "whole"
    /\ UNCHANGED <<track, stream, roomsVars>>

(* The deferred delete(p.streams, id), whoever's stream it is.             *)
Unregister(r) ==
    /\ run[r].at \in {"done", "failed"}
    /\ stream' = Nil
    /\ Goto(r, IF run[r].at = "done" THEN "ready" ELSE "error")
    /\ UNCHANGED <<track, file, part, roomsVars>>

(* markReady or setError.                                                  *)
Settle(r) ==
    /\ run[r].at \in {"ready", "error"}
    /\ update(r, run[r].at, "tell", "free")
    /\ UNCHANGED <<stream, file, part, roomsVars>>

-----------------------------------------------------------------------------
(* maybeStart or streamMaybeStart, when no other track plays.              *)
maybeStart(q) ==
    /\ entry[q] = "ready" /\ q \notin playing
    /\ playing' = playing \cup {q}
    /\ UNCHANGED <<mediaVars, entry, listed, initial, cleaner>>

(* A room gives the track up: by RemoveTrack, which cleans nothing, by     *)
(* endTrack, or because the room is removed.                               *)
RemoveTrack(q) ==
    /\ entry[q] # Nil /\ q \notin playing
    /\ entry' = [entry EXCEPT ![q] = Nil]
    /\ UNCHANGED <<mediaVars, playing, listed, initial, cleaner>>

CleanAt(q, at) == cleaner' = [cleaner EXCEPT ![q].at = at]
GiveUp(q) == entry' = [entry EXCEPT ![q] = Nil] /\ playing' = playing \ {q}

endTrack(q) ==
    /\ q \in playing /\ cleaner[q].at = "idle"
    /\ GiveUp(q) /\ CleanAt(q, "list")
    /\ UNCHANGED <<mediaVars, listed, initial>>

(* Registry.remove, then cleanupMedia.                                     *)
RemoveRoom(q) ==
    /\ q \in listed /\ listed' = listed \ {q}
    /\ cleaner[q].at = "idle" /\ CleanAt(q, "media")
    /\ UNCHANGED <<mediaVars, entry, playing, initial>>

cleanupMedia(q) ==
    /\ cleaner[q].at = "media"
    /\ GiveUp(q) /\ CleanAt(q, IF entry[q] = Nil THEN "idle" ELSE "list")
    /\ UNCHANGED <<mediaVars, listed, initial>>

(* cleanIfUnused copies the list of rooms.                                 *)
ListRooms(q) ==
    /\ cleaner[q].at = "list"
    /\ cleaner' = [cleaner EXCEPT ![q].at = "check", ![q].left = listed]
    /\ UNCHANGED <<mediaVars, entry, playing, listed, initial>>

(* It asks them one after the other, each under its own lock, and calls    *)
(* Pipeline.Delete if none refers to the track.                            *)
CheckRoom(q, p) ==
    /\ cleaner[q].at = "check" /\ p \in cleaner[q].left
    /\ cleaner' = [cleaner EXCEPT ![q] =
                     IF entry[p] # Nil THEN IdleCleaner
                     ELSE [@ EXCEPT !.left = cleaner[q].left \ {p}]]
    /\ UNCHANGED <<mediaVars, entry, playing, listed, initial>>

(* mediaStream.abort, if p.streams has one.                                *)
abort == IF stream = Nil THEN run ELSE [run EXCEPT ![stream].aborted = TRUE]

(* Delete: the maps and the abort, then Glob, then the removals.           *)
Delete(q) ==
    /\ cleaner[q].at = "check" /\ cleaner[q].left = {}
    /\ track' = Nil
    /\ run' = abort
    /\ cleaner' = [cleaner EXCEPT ![q].at = "glob"]
    /\ UNCHANGED <<stream, file, part, entry, playing, listed, initial>>

DeleteGlob(q) ==
    /\ cleaner[q].at = "glob"
    /\ cleaner' = [cleaner EXCEPT ![q].at = "files",
         ![q].paths = {x \in {"opus", "part"} :
                         IF x = "opus" THEN file # "none" ELSE part # Nil}]
    /\ UNCHANGED <<mediaVars, entry, playing, listed, initial>>

DeleteFiles(q) ==
    /\ cleaner[q].at = "files"
    /\ file' = IF "opus" \in cleaner[q].paths THEN "none" ELSE file
    /\ part' = IF "part" \in cleaner[q].paths THEN Nil ELSE part
    /\ cleaner' = [cleaner EXCEPT ![q] = IdleCleaner]
    /\ UNCHANGED <<track, stream, run, entry, playing, listed, initial>>

-----------------------------------------------------------------------------
Working(r) == \/ Probed(r) \/ Told(r) \/ Stat(r) \/ Register(r) \/ Create(r)
              \/ Copied(r) \/ Rename(r) \/ Unregister(r) \/ Settle(r)
Cleaning(q) == \/ cleanupMedia(q) \/ ListRooms(q)
               \/ \E p \in Rooms : CheckRoom(q, p)
               \/ Delete(q) \/ DeleteGlob(q) \/ DeleteFiles(q)

Next ==
    \/ \E q \in Rooms : \/ Resolve(q) \/ UpsertInitial(q)
                        \/ maybeStart(q) \/ RemoveTrack(q)
                        \/ endTrack(q) \/ RemoveRoom(q)
                        \/ Cleaning(q)
    \/ \E r \in Runs : Working(r)

Spec == Init /\ [][Next]_vars

(* Goroutines run, and yt-dlp and ffmpeg come to an end.                   *)
FairSpec == /\ Spec
            /\ \A q \in Rooms : WF_vars(UpsertInitial(q)) /\ WF_vars(Cleaning(q))
            /\ \A r \in Runs : WF_vars(Working(r))

-----------------------------------------------------------------------------
(* SAFETY                                                                  *)

(* A track that is resolving has a run that will make it ready or failed,  *)
(* although Delete may have aborted earlier runs of the same ID, which     *)
(* still write to the same map entry and the same files.                   *)
ResolvingHasRun ==
    track = "resolving" => \E r \in Runs : run[r].at \notin {"free", "tell"}

(* p.streams never holds a stream whose transcode is over: what Delete     *)
(* aborts is a running one, also when runs of the same ID overlap.         *)
StreamIsRunning ==
    stream # Nil => run[stream].at \in {"create", "copy", "rename", "done", "failed"}

(* The pipeline's maps stay well formed while runs of one ID write them.   *)
PipelineInv == TypeOK /\ StreamIsRunning

(* LIVENESS, under FairSpec                                                *)

(* The room whose run it is gets the outcome, once its handler has upserted *)
(* the initial snapshot, and although runs of a deleted track of the same  *)
(* ID may still be telling it theirs; unless the track is deleted first.   *)
OwnRoomIsTold ==
    \A q \in Rooms :
      (entry[q] = "resolving" /\ initial[q] = Nil /\ \E r \in Runs : run[r].room = q)
        ~> (entry[q] # "resolving" \/ initial[q] # Nil \/ track = Nil)
=============================================================================
