--------------------------- MODULE PipelineProofs ---------------------------
(***************************************************************************)
(* Pipeline for every set of rooms and every number of run goroutines of   *)
(* one track ID: the maps stay well formed and no resolving track is left  *)
(* without a run.                                                          *)
(***************************************************************************)
EXTENDS Pipeline, TLAPS

USE PipelineAssumption

(* The two are inductive together: a stream is a run's that is running, so *)
(* that Delete aborts a run and not a free one.                            *)
IInv == PipelineInv /\ ResolvingHasRun

(* Where a run that is working may be.                                     *)
Busy == {"probe", "stat", "register", "create", "copy", "rename",
         "done", "failed", "ready", "error"}
Telling == {"title", "tell"}

(* A run is free, or tells its room, or is busy.                           *)
LEMMA RunKinds ==
    ASSUME NEW x \in RunStates
    PROVE  x = FreeRun \/ x \in RunsAt(Telling, Statuses)
             \/ x \in RunsAt(Busy, Statuses \cup {Nil})
BY DEF RunStates, Busy, Telling

LEMMA KindsAreRuns ==
    /\ FreeRun \in RunStates
    /\ RunsAt(Telling, Statuses) \subseteq RunStates
    /\ RunsAt(Busy, Statuses \cup {Nil}) \subseteq RunStates
BY DEF RunStates, Busy, Telling

(* The fields of a run.                                                    *)
LEMMA RunFields ==
    ASSUME NEW x \in RunStates
    PROVE  /\ x.at \in Busy \cup Telling \cup {"free"}
           /\ x.at # "free" => x.room \in Rooms
           /\ x.at \in Telling => x.snap \in Statuses
           /\ x.at = "free" => x = FreeRun
<1>1. CASE x = FreeRun
  BY <1>1 DEF FreeRun, Telling
<1>2. CASE x \in RunsAt(Telling, Statuses)
  BY <1>2 DEF RunsAt, Telling
<1>3. CASE x \in RunsAt(Busy, Statuses \cup {Nil})
  BY <1>3 DEF RunsAt, Busy, Telling
<1> QED BY <1>1, <1>2, <1>3, RunKinds

LEMMA FreeRunAt == FreeRun.at = "free"
BY DEF FreeRun

(* A run goes on to another place, with or without a snapshot.             *)
LEMMA RunMoves ==
    ASSUME NEW x \in RunStates, x.at # "free"
    PROVE  /\ \A at \in Busy : [x EXCEPT !.at = at] \in RunStates
           /\ \A at \in Telling, st \in Statuses :
                [x EXCEPT !.at = at, !.snap = st] \in RunStates
           /\ [x EXCEPT !.aborted = TRUE] \in RunStates
<1>1. CASE x \in RunsAt(Telling, Statuses)
  <2>1. \A at \in Busy : [x EXCEPT !.at = at] \in RunsAt(Busy, Statuses \cup {Nil})
    BY <1>1, Zenon DEF RunsAt
  <2>2. \A at \in Telling, st \in Statuses :
          [x EXCEPT !.at = at, !.snap = st] \in RunsAt(Telling, Statuses)
    BY <1>1, Zenon DEF RunsAt
  <2>3. [x EXCEPT !.aborted = TRUE] \in RunsAt(Telling, Statuses)
    BY <1>1, Zenon DEF RunsAt
  <2> QED BY <2>1, <2>2, <2>3, KindsAreRuns
<1>2. CASE x \in RunsAt(Busy, Statuses \cup {Nil})
  <2>1. \A at \in Busy : [x EXCEPT !.at = at] \in RunsAt(Busy, Statuses \cup {Nil})
    BY <1>2, Zenon DEF RunsAt
  <2>2. \A at \in Telling, st \in Statuses :
          [x EXCEPT !.at = at, !.snap = st] \in RunsAt(Telling, Statuses)
    BY <1>2, Zenon DEF RunsAt
  <2>3. [x EXCEPT !.aborted = TRUE] \in RunsAt(Busy, Statuses \cup {Nil})
    BY <1>2, Zenon DEF RunsAt
  <2> QED BY <2>1, <2>2, <2>3, KindsAreRuns
<1> QED BY <1>1, <1>2, RunKinds, FreeRunAt

LEMMA MovedFields ==
    ASSUME NEW x \in RunStates
    PROVE  /\ \A at : [x EXCEPT !.at = at].at = at
           /\ \A at, st : [x EXCEPT !.at = at, !.snap = st].at = at
           /\ [x EXCEPT !.aborted = TRUE].at = x.at
<1>1. CASE x = FreeRun BY <1>1 DEF FreeRun
<1>2. CASE x \in RunsAt(Telling, Statuses) BY <1>2 DEF RunsAt
<1>3. CASE x \in RunsAt(Busy, Statuses \cup {Nil}) BY <1>3 DEF RunsAt
<1> QED BY <1>1, <1>2, <1>3, RunKinds

(* A new run.                                                              *)
LEMMA NewRunType ==
    ASSUME NEW q \in Rooms
    PROVE  LET x == [FreeRun EXCEPT !.at = "probe", !.room = q] IN
             x \in RunStates /\ x.at = "probe"
<1> DEFINE x == [FreeRun EXCEPT !.at = "probe", !.room = q]
<1>1. x.at = "probe" BY DEF FreeRun
<1>2. x \in RunsAt(Busy, Statuses \cup {Nil})
  BY Zenon DEF RunsAt, Busy, FreeRun
<1> QED BY <1>1, <1>2, KindsAreRuns DEF x

-----------------------------------------------------------------------------
(* One run moves, all others stay.                                         *)
Moves(r, y) == /\ y \in RunStates
               /\ run' \in [Runs -> RunStates] /\ run'[r] = y
               /\ \A o \in Runs : o # r => run'[o] = run[o]

LEMMA RunChange ==
    ASSUME run \in [Runs -> RunStates], NEW r \in Runs, NEW y \in RunStates,
           run' = [run EXCEPT ![r] = y]
    PROVE  Moves(r, y)
BY DEF Moves

(* A run that is not free goes to a place where it has something to do.    *)
LEMMA GotoMoves ==
    ASSUME run \in [Runs -> RunStates], NEW r \in Runs, run[r].at # "free",
           NEW at \in Busy, Goto(r, at)
    PROVE  \E y : Moves(r, y) /\ y.at = at
<1> DEFINE y == [run[r] EXCEPT !.at = at]
<1>1. run[r] \in RunStates OBVIOUS
<1>2. y \in RunStates /\ y.at = at BY <1>1, RunMoves, MovedFields
<1>3. run' = [run EXCEPT ![r] = y] BY DEF Goto
<1> HIDE DEF y
<1> QED BY <1>2, <1>3, RunChange

(* update changes the map and gives the run a snapshot, or does neither.   *)
LEMMA UpdateMoves ==
    ASSUME run \in [Runs -> RunStates], NEW r \in Runs, run[r].at # "free",
           track \in Statuses \cup {Nil}, NEW status, NEW next \in Telling,
           track # Nil => status \in Statuses,
           NEW otherwise \in Busy \cup {"free"}, update(r, status, next, otherwise)
    PROVE  \/ track = Nil /\ track' = Nil /\ \E y : Moves(r, y) /\ y.at = otherwise
           \/ track # Nil /\ track' = status /\ \E y : Moves(r, y) /\ y.at = next
<1>0. run[r] \in RunStates OBVIOUS
<1>1. CASE track = Nil
  <2> DEFINE y == IF otherwise = "free" THEN FreeRun ELSE [run[r] EXCEPT !.at = otherwise]
  <2>1. y \in RunStates /\ y.at = otherwise
    BY <1>0, RunMoves, MovedFields, KindsAreRuns, FreeRunAt
  <2>2. run' = [run EXCEPT ![r] = y] /\ track' = Nil
    BY <1>1 DEF update
  <2> HIDE DEF y
  <2> QED BY <1>1, <2>1, <2>2, RunChange
<1>2. CASE track # Nil
  <2> DEFINE y == [run[r] EXCEPT !.at = next, !.snap = status]
  <2>1. y \in RunStates /\ y.at = next
    <3>1. status \in Statuses BY <1>2
    <3>2. y \in RunStates BY <1>0, <3>1, RunMoves
    <3>3. y.at = next BY <1>0, MovedFields
    <3> QED BY <3>2, <3>3
  <2>2. run' = [run EXCEPT ![r] = y] /\ track' = status
    BY <1>2 DEF update
  <2> HIDE DEF y
  <2> QED BY <1>2, <2>1, <2>2, RunChange
<1> QED BY <1>1, <1>2

(* What keeps the invariant when a run moves: if it leaves its transcode   *)
(* the stream goes with it, and if it has only to tell its room, or is     *)
(* done, the track has been settled.                                       *)
LEMMA MoveKeeps ==
    ASSUME IInv, NEW r \in Runs, NEW y, Moves(r, y),
           track' \in Statuses \cup {Nil},
           stream' \in {stream, r, Nil},
           stream' = r => y.at \in {"create", "copy", "rename", "done", "failed"},
           track' = "resolving" =>
              /\ track = "resolving"
              /\ y.at \in {"free", "tell"} => run[r].at \in {"free", "tell"},
           file' \in {"none", "whole", "cut"} \cup Runs,
           part' \in Runs \cup {Nil},
           entry' \in [Rooms -> Statuses \cup {Nil}],
           UNCHANGED <<playing, listed, initial, cleaner>>
    PROVE  IInv'
<1>1. TypeOK' BY DEF IInv, PipelineInv, TypeOK, Moves
<1>2. StreamIsRunning'
  BY DEF IInv, PipelineInv, TypeOK, StreamIsRunning, Moves
<1>3. ResolvingHasRun'
  BY DEF IInv, PipelineInv, TypeOK, ResolvingHasRun, Moves
<1> QED BY <1>1, <1>2, <1>3 DEF IInv, PipelineInv

(* The steps of Pipeline.run.                                              *)
LEMMA WorkStep ==
    ASSUME IInv, NEW r \in Runs, Working(r)
    PROVE  IInv'
<1>0. /\ run \in [Runs -> RunStates] /\ run[r] \in RunStates
      /\ track \in Statuses \cup {Nil} /\ stream \in Runs \cup {Nil}
      /\ file \in {"none", "whole", "cut"} \cup Runs /\ part \in Runs \cup {Nil}
      /\ entry \in [Rooms -> Statuses \cup {Nil}]
      /\ StreamIsRunning
  BY DEF IInv, PipelineInv, TypeOK
<1> USE DEF roomsVars
<1>1. CASE Probed(r)
  <2>1. run[r].at = "probe" /\ UNCHANGED <<stream, file, part, entry>>
    BY <1>1 DEF Probed, probeMeta
  <2>2. CASE update(r, track, "title", "stat")
    <3>1. /\ track' = track
          /\ \E y : Moves(r, y) /\ y.at \in {"title", "stat"}
      BY <1>0, <2>1, <2>2, UpdateMoves DEF Telling, Busy
    <3> QED BY <1>0, <1>1, <2>1, <3>1, MoveKeeps DEF Probed, StreamIsRunning
  <2>3. CASE Goto(r, "stat") /\ UNCHANGED track
    <3>1. \E y : Moves(r, y) /\ y.at = "stat"
      BY <1>0, <2>1, <2>3, GotoMoves DEF Busy
    <3> QED BY <1>0, <1>1, <2>1, <2>3, <3>1, MoveKeeps DEF Probed, StreamIsRunning
  <2> QED BY <1>1, <2>2, <2>3 DEF Probed, probeMeta
<1>2. CASE Told(r)
  <2>1. run[r].at \in Telling /\ run[r].at # "free" BY <1>2 DEF Told, Telling
  <2>2. entry' \in [Rooms -> Statuses \cup {Nil}]
    BY <1>0, <1>2, <2>1, RunFields DEF Told, onUpdate
  <2> DEFINE y == IF run[r].at = "tell" THEN FreeRun ELSE [run[r] EXCEPT !.at = "stat"]
  <2>3. y \in RunStates /\ y.at = IF run[r].at = "tell" THEN "free" ELSE "stat"
    <3>1. CASE run[r].at = "tell" BY <3>1, KindsAreRuns, FreeRunAt
    <3>2. CASE run[r].at # "tell"
      <4>1. "stat" \in Busy BY DEF Busy
      <4>2. [run[r] EXCEPT !.at = "stat"] \in RunStates
        BY <1>0, <2>1, <4>1, RunMoves, Zenon
      <4>3. [run[r] EXCEPT !.at = "stat"].at = "stat" BY <1>0, MovedFields, Zenon
      <4> QED BY <3>2, <4>2, <4>3
    <3> QED BY <3>1, <3>2
  <2>4. run' = [run EXCEPT ![r] = y] BY <1>2 DEF Told
  <2> HIDE DEF y
  <2>5. Moves(r, y) BY <1>0, <2>3, <2>4, RunChange
  <2> QED BY <1>0, <1>2, <2>1, <2>2, <2>3, <2>5, MoveKeeps
          DEF Told, StreamIsRunning, Telling
<1>3. CASE Stat(r)
  <2>1. \E y : Moves(r, y) /\ y.at \in {"ready", "register"}
    BY <1>0, <1>3, GotoMoves DEF Stat, Busy
  <2> QED BY <1>0, <1>3, <2>1, MoveKeeps DEF Stat, StreamIsRunning
<1>4. CASE Register(r)
  <2>1. \E y : Moves(r, y) /\ y.at = "create"
    BY <1>0, <1>4, GotoMoves DEF Register, Busy
  <2> QED BY <1>0, <1>4, <2>1, MoveKeeps DEF Register
<1>5. CASE Create(r)
  <2>1. \E y : Moves(r, y) /\ y.at \in {"copy", "failed"}
    BY <1>0, <1>5, GotoMoves DEF Create, Busy
  <2> QED BY <1>0, <1>5, <2>1, MoveKeeps DEF Create
<1>6. CASE Copied(r)
  <2>1. \E y : Moves(r, y) /\ y.at \in {"rename", "failed"}
    BY <1>0, <1>6, GotoMoves DEF Copied, Busy
  <2> QED BY <1>0, <1>6, <2>1, MoveKeeps DEF Copied, Written
<1>7. CASE Rename(r)
  <2>1. \E y : Moves(r, y) /\ y.at \in {"failed", "done"}
    BY <1>0, <1>7, GotoMoves DEF Rename, Busy
  <2> QED BY <1>0, <1>7, <2>1, MoveKeeps DEF Rename
<1>8. CASE Unregister(r)
  <2>1. \E y : Moves(r, y) /\ y.at \in {"ready", "error"}
    BY <1>0, <1>8, GotoMoves DEF Unregister, Busy
  <2> QED BY <1>0, <1>8, <2>1, MoveKeeps DEF Unregister
<1>9. CASE Settle(r)
  <2>1. run[r].at \in {"ready", "error"} /\ run[r].at \in Statuses
    BY <1>9 DEF Settle, Statuses
  <2>2. \/ track' = Nil /\ \E y : Moves(r, y) /\ y.at = "free"
        \/ track' = run[r].at /\ \E y : Moves(r, y) /\ y.at = "tell"
    BY <1>0, <1>9, <2>1, UpdateMoves DEF Settle, Telling, Busy
  <2>3. track' \in Statuses \cup {Nil} /\ track' # "resolving"
    BY <2>1, <2>2 DEF Statuses
  <2>4. stream' = stream /\ stream # r
    BY <1>0, <1>9, <2>1 DEF Settle, StreamIsRunning
  <2> QED BY <1>0, <1>9, <2>2, <2>3, <2>4, MoveKeeps DEF Settle
<1> QED BY <1>1, <1>2, <1>3, <1>4, <1>5, <1>6, <1>7, <1>8, <1>9 DEF Working

-----------------------------------------------------------------------------
(* A clean-up goes on.                                                     *)
LEMMA CleanerTypes ==
    ASSUME cleaner \in [Rooms -> CleanerStates], NEW q \in Rooms
    PROVE  /\ \A c \in CleanerStates : [cleaner EXCEPT ![q] = c] \in [Rooms -> CleanerStates]
           /\ IdleCleaner \in CleanerStates
           /\ \A at \in {"idle", "media", "list", "check", "glob", "files"} :
                /\ [cleaner[q] EXCEPT !.at = at] \in CleanerStates
                /\ \A left \in SUBSET Rooms :
                     [cleaner[q] EXCEPT !.at = at, !.left = left] \in CleanerStates
                /\ \A paths \in SUBSET {"opus", "part"} :
                     [cleaner[q] EXCEPT !.at = at, !.paths = paths] \in CleanerStates
           /\ \A left \in SUBSET Rooms : [cleaner[q] EXCEPT !.left = left] \in CleanerStates
<1>1. \A c \in CleanerStates : [cleaner EXCEPT ![q] = c] \in [Rooms -> CleanerStates]
  OBVIOUS
<1>2. IdleCleaner \in CleanerStates BY DEF CleanerStates, IdleCleaner
<1>3. cleaner[q] \in CleanerStates OBVIOUS
<1> QED BY <1>1, <1>2, <1>3, Zenon DEF CleanerStates

(* The steps of rooms and of cleanIfUnused that leave the runs alone.      *)
LEMMA RoomStep ==
    ASSUME IInv, NEW q \in Rooms,
           \/ UpsertInitial(q) \/ maybeStart(q) \/ RemoveTrack(q) \/ endTrack(q)
           \/ RemoveRoom(q) \/ cleanupMedia(q) \/ ListRooms(q)
           \/ \E p \in Rooms : CheckRoom(q, p)
           \/ DeleteGlob(q) \/ DeleteFiles(q)
    PROVE  IInv'
<1>0. TypeOK BY DEF IInv, PipelineInv
<1> USE DEF mediaVars
<1>1. UNCHANGED <<track, stream, run>>
  BY DEF UpsertInitial, maybeStart, RemoveTrack, endTrack, RemoveRoom, cleanupMedia,
         ListRooms, CheckRoom, DeleteGlob, DeleteFiles
<1>2. StreamIsRunning' /\ ResolvingHasRun'
  BY <1>1 DEF IInv, PipelineInv, StreamIsRunning, ResolvingHasRun
<1>3. TypeOK'
  <2> USE DEF TypeOK
  <2>1. CASE UpsertInitial(q) \/ maybeStart(q) \/ RemoveTrack(q)
    BY <1>0, <2>1 DEF UpsertInitial, maybeStart, RemoveTrack
  <2>2. CASE endTrack(q) \/ RemoveRoom(q) \/ cleanupMedia(q)
    <3>1. cleaner' \in [Rooms -> CleanerStates]
      <4>1. \E at \in {"idle", "media", "list", "check", "glob", "files"} :
               cleaner' = [cleaner EXCEPT ![q] = [cleaner[q] EXCEPT !.at = at]]
        BY <2>2 DEF endTrack, RemoveRoom, cleanupMedia, CleanAt
      <4>2. PICK at \in {"idle", "media", "list", "check", "glob", "files"} :
               cleaner' = [cleaner EXCEPT ![q] = [cleaner[q] EXCEPT !.at = at]]
        BY <4>1
      <4>3. [cleaner[q] EXCEPT !.at = at] \in CleanerStates BY <1>0, CleanerTypes, Zenon
      <4> QED BY <1>0, <4>2, <4>3
    <3> QED BY <1>0, <2>2, <3>1 DEF endTrack, RemoveRoom, cleanupMedia, GiveUp
  <2>3. CASE ListRooms(q)
    <3>1. cleaner' = [cleaner EXCEPT ![q] =
                        [cleaner[q] EXCEPT !.at = "check", !.left = listed]]
      BY <2>3 DEF ListRooms
    <3>2. cleaner' \in [Rooms -> CleanerStates] BY <1>0, <3>1, CleanerTypes
    <3> QED BY <1>0, <2>3, <3>2 DEF ListRooms
  <2>4. ASSUME NEW p \in Rooms, CheckRoom(q, p) PROVE TypeOK'
    <3> DEFINE left == cleaner[q].left \ {p}
    <3>1. left \in SUBSET Rooms BY <1>0 DEF CleanerStates
    <3>2. CASE entry[p] # Nil
      BY <1>0, <2>4, <3>2, CleanerTypes DEF CheckRoom
    <3>3. CASE entry[p] = Nil
      <4>1. cleaner' = [cleaner EXCEPT ![q] = [cleaner[q] EXCEPT !.left = left]]
        BY <2>4, <3>3 DEF CheckRoom
      <4> HIDE DEF left
      <4>2. [cleaner[q] EXCEPT !.left = left] \in CleanerStates
        BY <1>0, <3>1, CleanerTypes, Zenon
      <4>3. cleaner' \in [Rooms -> CleanerStates] BY <1>0, <4>1, <4>2
      <4> QED BY <1>0, <2>4, <4>3 DEF CheckRoom
    <3> QED BY <3>2, <3>3
  <2>5. CASE DeleteGlob(q)
    <3> DEFINE paths == {x \in {"opus", "part"} :
                           IF x = "opus" THEN file # "none" ELSE part # Nil}
    <3>1. paths \in SUBSET {"opus", "part"} OBVIOUS
    <3>2. cleaner' = [cleaner EXCEPT ![q] =
                        [cleaner[q] EXCEPT !.at = "files", !.paths = paths]]
      BY <2>5 DEF DeleteGlob
    <3> HIDE DEF paths
    <3>3. cleaner' \in [Rooms -> CleanerStates] BY <1>0, <3>1, <3>2, CleanerTypes
    <3> QED BY <1>0, <2>5, <3>3 DEF DeleteGlob
  <2>6. CASE DeleteFiles(q)
    <3>1. cleaner' \in [Rooms -> CleanerStates] BY <1>0, <2>6, CleanerTypes DEF DeleteFiles
    <3> QED BY <1>0, <2>6, <3>1 DEF DeleteFiles
  <2> QED BY <2>1, <2>2, <2>3, <2>4, <2>5, <2>6
<1> QED BY <1>2, <1>3 DEF IInv, PipelineInv

(* Resolve: a known track is returned, a new one gets a run.               *)
LEMMA ResolveStep ==
    ASSUME IInv, NEW q \in Rooms, Resolve(q)
    PROVE  IInv'
<1>0. TypeOK BY DEF IInv, PipelineInv
<1>1. CASE track # Nil
  <2>1. initial' \in [Rooms -> Statuses \cup {Nil}] /\ UNCHANGED <<track, run>>
    BY <1>0, <1>1 DEF Resolve, TypeOK
  <2> QED BY <1>0, <2>1 DEF Resolve, IInv, PipelineInv, TypeOK, StreamIsRunning, ResolvingHasRun
<1>2. CASE track = Nil
  <2> DEFINE y == [FreeRun EXCEPT !.at = "probe", !.room = q]
  <2>1. PICK r \in Runs : run[r].at = "free" /\ run' = [run EXCEPT ![r] = y]
    BY <1>2 DEF Resolve
  <2>2. y \in RunStates /\ y.at = "probe" BY NewRunType
  <2> HIDE DEF y
  <2>3. Moves(r, y) BY <1>0, <2>1, <2>2, RunChange DEF TypeOK
  <2>4. track' = "resolving" /\ initial' = [initial EXCEPT ![q] = "resolving"]
    BY <1>2 DEF Resolve
  <2>5. TypeOK' BY <1>0, <2>3, <2>4 DEF Resolve, TypeOK, Moves, Statuses
  <2>6. StreamIsRunning'
    BY <1>0, <2>1, <2>3 DEF Resolve, IInv, PipelineInv, TypeOK, StreamIsRunning, Moves
  <2>7. ResolvingHasRun' BY <2>2, <2>3 DEF ResolvingHasRun, Moves
  <2> QED BY <2>5, <2>6, <2>7 DEF IInv, PipelineInv
<1> QED BY <1>1, <1>2

(* Delete forgets the track and aborts the run whose stream it finds.      *)
LEMMA DeleteStep ==
    ASSUME IInv, NEW q \in Rooms, Delete(q)
    PROVE  IInv'
<1>0. TypeOK /\ StreamIsRunning BY DEF IInv, PipelineInv
<1>1. cleaner' \in [Rooms -> CleanerStates]
  <2>1. cleaner' = [cleaner EXCEPT ![q] = [cleaner[q] EXCEPT !.at = "glob"]]
    BY DEF Delete, abort
  <2> QED BY <1>0, <2>1, CleanerTypes DEF TypeOK
<1>2. /\ run' \in [Runs -> RunStates]
      /\ \A r \in Runs : run'[r].at = run[r].at
  <2>1. CASE stream = Nil BY <1>0, <2>1 DEF Delete, abort, TypeOK
  <2>2. CASE stream # Nil
    <3> DEFINE y == [run[stream] EXCEPT !.aborted = TRUE]
    <3>1. stream \in Runs /\ run[stream] \in RunStates /\ run[stream].at # "free"
      BY <1>0, <2>2 DEF TypeOK, StreamIsRunning
    <3>2. y \in RunStates /\ y.at = run[stream].at
      BY <3>1, RunMoves, MovedFields, Zenon
    <3>3. run' = [run EXCEPT ![stream] = y] BY <2>2 DEF Delete, abort
    <3> HIDE DEF y
    <3> QED BY <1>0, <3>1, <3>2, <3>3 DEF TypeOK
  <2> QED BY <2>1, <2>2
<1>3. TypeOK' BY <1>0, <1>1, <1>2 DEF Delete, abort, TypeOK
<1>4. StreamIsRunning' BY <1>0, <1>2 DEF Delete, TypeOK, StreamIsRunning
<1>5. ResolvingHasRun' BY DEF Delete, ResolvingHasRun, Statuses
<1> QED BY <1>3, <1>4, <1>5 DEF IInv, PipelineInv

-----------------------------------------------------------------------------
(* THEOREMS                                                                *)

(* The inductive invariant holds in every state.                           *)
THEOREM PipelineInductive == Spec => []IInv
<1>1. Init => IInv
  <2> SUFFICES ASSUME Init PROVE IInv
    OBVIOUS
  <2>1. IdleCleaner \in CleanerStates BY DEF IdleCleaner, CleanerStates
  <2>2. TypeOK BY <2>1, KindsAreRuns DEF Init, TypeOK
  <2> QED BY <2>2 DEF Init, IInv, PipelineInv, StreamIsRunning, ResolvingHasRun, Statuses
<1>2. IInv /\ [Next]_vars => IInv'
  <2> SUFFICES ASSUME IInv, [Next]_vars PROVE IInv'
    OBVIOUS
  <2>1. CASE UNCHANGED vars
    BY <2>1 DEF vars, IInv, PipelineInv, TypeOK, StreamIsRunning, ResolvingHasRun
  <2>2. CASE Next
    BY <2>2, WorkStep, RoomStep, ResolveStep, DeleteStep DEF Next, Cleaning
  <2> QED BY <2>1, <2>2
<1> QED BY <1>1, <1>2, PTL DEF Spec

(* The maps of the pipeline stay well formed, and p.streams holds only a   *)
(* stream whose transcode is running, however many runs of one ID overlap  *)
(* and whichever of them Delete aborts.                                    *)
THEOREM PipelineSafe == Spec => []PipelineInv
<1>1. IInv => PipelineInv BY DEF IInv
<1> QED BY <1>1, PipelineInductive, PTL

(* A track that is resolving has a run that has still to settle it.        *)
THEOREM ResolvingIsSettled == Spec => []ResolvingHasRun
<1>1. IInv => ResolvingHasRun BY DEF IInv
<1> QED BY <1>1, PipelineInductive, PTL
=============================================================================
