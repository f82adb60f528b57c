-------------------------------- MODULE Cache --------------------------------
(***************************************************************************)
(* The full-file cache of long tracks: internal/media/cache.go, and what   *)
(* reconcileCache, UpsertTrack, RemoveTrack, SetSettings and endTrack of   *)
(* internal/room do around it.                                             *)
(*                                                                         *)
(* Pipeline.mu and Room.mu protect single regions only.  Between them a    *)
(* goroutine still has to do the rest, and the rest nests: Reconcile calls *)
(* setFullReady and evictFull, these call the room back through emitUpdate *)
(* and notify, and the room reconciles again inside that call.  work[g] is *)
(* this call stack, flattened: the operations the goroutine has before it. *)
(*                                                                         *)
(* Runs of one ID that overlap, the update with the title, and the rooms   *)
(* cleanIfUnused asks one by one are in Pipeline; what happens between an  *)
(* upsert and the maybeStart after it is in Playback.                      *)
(***************************************************************************)
EXTENDS Functions, Queue, Sums

CONSTANTS
    Rooms, Tracks,
    Long,         \* the tracks of hlsDurationThresholdMs and more
    Size,         \* Size[t]: estimated bytes of the track's file
    Budgets,      \* values of settings.MemLimitMB
    Default,      \* the one a room begins with
    Goroutines,   \* bound: goroutines that are inside these functions
    MaxRequests,  \* bound: enqueues, removals, ends and settings
    Nil

Snapshots == [id : Tracks, status : Statuses,
              url : {"none", "opus", "m3u8", "m4a"}, size : Nat]
Snapshot(t, st, url, size) ==
    [id |-> t, status |-> st, url |-> url, size |-> size]

ASSUME CacheAssumption ==
    /\ Long \subseteq Tracks /\ Size \in [Tracks -> Nat \ {0}]
    /\ Budgets \subseteq Nat /\ Default \in Budgets /\ MaxRequests \in Nat
    /\ Nil \notin Rooms \cup Tracks /\ Nil \notin Snapshots

VARIABLES
    track,     \* p.tracks
    run,       \* run[t]: the room the run of t reports to, or Nil
    notify,    \* p.notify: the room of the last enqueue of t
    desired,   \* p.fullDesired
    job,       \* p.fullJobs and the goroutine behind it
    file,      \* file[t]: <id>.m4a exists
    queue, playing, budget,  \* of each room
    work,      \* work[g]: what goroutine g has before it
    requests,  \* requests still to come
    last,      \* history: room of the last Reconcile, Nil if others were under way
    astray     \* history: tracks with updates that crossed or missed a room

media == <<track, run, notify, desired, job, file>>
rooms == <<queue, playing, budget>>
history == <<last, astray>>
vars == <<media, rooms, work, requests, history>>

(* Operations on a track, and on a room with what it is told.              *)
TrackOp(op, t) == [op |-> op, track |-> t]
RoomOp(op, q) == [op |-> op, room |-> q]
Tell(q, s) == [op |-> "tell", room |-> q, snap |-> s]
Ops == [op : {"ensure", "start", "ready", "evict", "unlink", "emit",
              "clean", "delete"}, track : Tracks]
       \cup [op : {"maybe", "plan"}, room : Rooms]
       \cup [op : {"tell"}, room : Rooms, snap : Snapshots]

TypeOK ==
    /\ track \in [Tracks -> Snapshots \cup {Nil}]
    /\ \A t \in Tracks : track[t] # Nil => track[t].id = t
    /\ run \in [Tracks -> Rooms \cup {Nil}]
    /\ notify \in [Tracks -> Rooms \cup {Nil}]
    /\ desired \in [Tracks -> BOOLEAN] /\ file \in [Tracks -> BOOLEAN]
    /\ job \in [Tracks -> {"none", "loading", "loaded"}]
    /\ queue \in [Rooms -> Seq(Snapshots)] /\ \A q \in Rooms : NoDuplicates(queue[q])
    /\ playing \in [Rooms -> Tracks \cup {Nil}] /\ budget \in [Rooms -> Budgets]
    /\ work \in [Goroutines -> Seq(Ops)] /\ requests \in 0..MaxRequests
    /\ last \in Rooms \cup {Nil} /\ astray \subseteq Tracks

Init ==
    /\ track = [t \in Tracks |-> Nil] /\ run = [t \in Tracks |-> Nil]
    /\ notify = [t \in Tracks |-> Nil]
    /\ desired = [t \in Tracks |-> FALSE] /\ job = [t \in Tracks |-> "none"]
    /\ file = [t \in Tracks |-> FALSE]
    /\ queue = [q \in Rooms |-> <<>>] /\ playing = [q \in Rooms |-> Nil]
    /\ budget = [q \in Rooms |-> Default]
    /\ work = [g \in Goroutines |-> <<>>] /\ requests = MaxRequests
    /\ last = Nil /\ astray = {}

-----------------------------------------------------------------------------
(* planFull: in the order of the queue, short tracks count in any case and *)
(* a long one is kept in full if it still fits.                            *)
IsLong(e) == e.id \in Long /\ e.size > 0
Used(es, b) ==
    LET used[n \in 0..Len(es)] ==
          IF n = 0 THEN 0
          ELSE used[n-1] + IF IsLong(es[n]) /\ used[n-1] + es[n].size > b
                           THEN 0 ELSE es[n].size
    IN  used
PlanAll(es, b) == {es[n].id : n \in {m \in DOMAIN es : IsLong(es[m])}}
                                                       \* mutant of the next
planFull(es, b) ==
    {es[n].id : n \in {m \in DOMAIN es :
                         IsLong(es[m]) /\ Used(es, b)[m-1] + es[m].size <= b}}

-----------------------------------------------------------------------------
(* Goroutines.  All of them are alike, so any one that is idle will do.    *)
Idle == {g \in Goroutines : work[g] = <<>>}
Begin(ops) == /\ Idle # {}
              /\ work' = [work EXCEPT ![CHOOSE g \in Idle : TRUE] = ops]
Pop(g, ops) == work' = [work EXCEPT ![g] = ops \o Tail(@)]
Pending == UNION {Range(work[g]) : g \in Goroutines}

(* A snapshot is on its way to room q: does it race another one, or leave  *)
(* out the room that asked last?                                           *)
Sent(t, q) ==
    astray' = IF q # notify'[t]
                 \/ \E o \in Pending : o.op = "tell" /\ o.snap.id = t
              THEN astray \cup {t} ELSE astray

-----------------------------------------------------------------------------
(* Requests.                                                               *)
Request == requests > 0 /\ requests' = requests - 1

(* enqueue: Pipeline.Resolve and UpsertTrack of what it returns.           *)
Resolve(q, t) ==
    /\ Request
    /\ notify' = [notify EXCEPT ![t] = q]
    /\ \/ track[t] # Nil /\ UNCHANGED <<track, run>>
       \/ /\ track[t] = Nil /\ run[t] = Nil
          /\ track' = [track EXCEPT ![t] = Snapshot(t, "resolving", "none", 0)]
          /\ run' = [run EXCEPT ![t] = q]
    /\ Begin(<<Tell(q, track'[t])>>)
    /\ Sent(t, q)
    /\ UNCHANGED <<desired, job, file, rooms, last>>

RemoveTrack(q, t) ==
    /\ Request /\ playing[q] # t /\ Has(queue[q], t)
    /\ queue' = [queue EXCEPT ![q] = Without(@, t)]
    /\ Begin(<<RoomOp("plan", q)>>)
    /\ UNCHANGED <<media, playing, budget, history>>

SetSettings(q, b) ==
    /\ Request
    /\ budget' = [budget EXCEPT ![q] = b]
    /\ Begin(<<RoomOp("plan", q)>>)
    /\ UNCHANGED <<media, queue, playing, history>>

(* endTrack, by a skip or by the end timer.                                *)
endTrack(q) ==
    /\ Request /\ playing[q] # Nil
    /\ playing' = [playing EXCEPT ![q] = Nil]
    /\ queue' = [queue EXCEPT ![q] = Without(@, playing[q])]
    /\ Begin(<<TrackOp("clean", playing[q]), RoomOp("maybe", q), RoomOp("plan", q)>>)
    /\ UNCHANGED <<media, budget, history>>

-----------------------------------------------------------------------------
(* Goroutines of the pipeline.                                             *)

(* run: markReady, unless the track was deleted meanwhile.                 *)
markReady(t) ==
    /\ run[t] # Nil /\ run' = [run EXCEPT ![t] = Nil]
    /\ \/ track[t] = Nil /\ UNCHANGED <<track, work, astray>>
       \/ /\ track[t] # Nil
          /\ track' = [track EXCEPT ![t] =
                Snapshot(t, "ready", IF t \in Long THEN "m3u8" ELSE "opus", Size[t])]
          /\ Begin(<<Tell(run[t], track'[t])>>)
          /\ UNCHANGED notify /\ Sent(t, run[t])
    /\ UNCHANGED <<notify, desired, job, file, rooms, requests, last>>

(* downloadFullM4A: yt-dlp may fail, or Delete take its file away; the     *)
(* goroutine then only leaves p.fullJobs.                                  *)
downloadFullM4A(t) ==
    /\ job[t] = "loading"
    /\ \/ job' = [job EXCEPT ![t] = "loaded"] /\ file' = [file EXCEPT ![t] = TRUE]
       \/ job' = [job EXCEPT ![t] = "none"] /\ UNCHANGED file
    /\ UNCHANGED <<track, run, notify, desired, rooms, work, requests, history>>

(* The job's goroutine leaves p.fullJobs and goes on to setFullReady.      *)
JobDone(t) ==
    /\ job[t] = "loaded" /\ job' = [job EXCEPT ![t] = "none"]
    /\ Begin(<<TrackOp("ready", t)>>)
    /\ UNCHANGED <<track, run, notify, desired, file, rooms, requests, history>>

-----------------------------------------------------------------------------
(* The operations a goroutine g has before it; o is the first of them.     *)

(* Room.maybeStart with the queue es.                                      *)
maybeStart(q, es) ==
    \/ (playing[q] # Nil \/ ~SomeReady(es)) /\ UNCHANGED playing
    \/ /\ playing[q] = Nil
       /\ \E n \in DOMAIN es : /\ IsFirstReady(es, n)
                              /\ playing' = [playing EXCEPT ![q] = es[n].id]

(* Room.UpsertTrack, called by notify or by the enqueue handler.           *)
UpsertTrack(g, o) ==
    /\ o.op = "tell"
    /\ queue' = [queue EXCEPT ![o.room] = Upsert(@, o.snap)]
    /\ maybeStart(o.room, queue'[o.room])
    /\ Pop(g, <<RoomOp("plan", o.room)>>)
    /\ UNCHANGED <<media, budget, history>>

EndMaybe(g, o) ==
    /\ o.op = "maybe" /\ Pop(g, <<>>)
    /\ maybeStart(o.room, queue[o.room])
    /\ UNCHANGED <<media, queue, budget, history>>

(* reconcileCache and Reconcile: what the plan says of each long track;    *)
(* the track that plays is not evicted.                                    *)
Decisions(es, full, now) ==
    LET ops[n \in 0..Len(es)] ==
          IF n = 0 THEN <<>>
          ELSE IF IsLong(es[n]) /\ (es[n].id \in full \/ es[n].id # now)
          THEN Append(ops[n-1], TrackOp(IF es[n].id \in full THEN "ensure"
                                        ELSE "evict", es[n].id))
          ELSE ops[n-1]
    IN  ops[Len(es)]
Reconciles(ops) == \E o \in ops : o.op \in {"ensure", "evict"}
Reconcile(g, o) ==
    /\ o.op = "plan"
    /\ LET es == queue[o.room]
       IN  Pop(g, Decisions(es, planFull(es, budget[o.room]), playing[o.room]))
    /\ last' = IF Reconciles(Pending) THEN Nil ELSE o.room
    /\ UNCHANGED <<media, rooms, astray>>

ensureFull(g, o) ==
    /\ o.op = "ensure"
    /\ desired' = [desired EXCEPT ![o.track] = TRUE]
    /\ Pop(g, <<TrackOp(IF file[o.track] THEN "ready" ELSE "start", o.track)>>)
    /\ UNCHANGED <<track, run, notify, job, file, rooms, history>>

StartJob(g, o) ==
    /\ o.op = "start" /\ Pop(g, <<>>)
    /\ job' = [job EXCEPT ![o.track] = IF @ = "none" THEN "loading" ELSE @]
    /\ UNCHANGED <<track, run, notify, desired, file, rooms, history>>

(* t.FileURL == url of the full file.                                      *)
NeverOffered(t) == FALSE                               \* mutant of the next
Offered(t) == track[t] # Nil /\ track[t].url = "m4a"

(* setFullReady: nobody wants the file, or the track gets its address; a   *)
(* track that has it already is not announced again.                       *)
LeaveFile(t) == <<>>                                   \* mutant of the next
DropFile(t) == <<TrackOp("unlink", t)>>
AnnounceAgain(t) == <<TrackOp("emit", t)>>             \* mutant of the next
Announce(t) == IF Offered(t) THEN <<>> ELSE <<TrackOp("emit", t)>>
setFullReady(g, o) ==
    /\ o.op = "ready"
    /\ IF track[o.track] = Nil \/ ~desired[o.track]
       THEN Pop(g, DropFile(o.track)) /\ UNCHANGED track
       ELSE /\ track' = [track EXCEPT ![o.track] = IF Offered(o.track) THEN @
                            ELSE Snapshot(o.track, "ready", "m4a", @.size)]
            /\ Pop(g, Announce(o.track))
    /\ UNCHANGED <<run, notify, desired, job, file, rooms, history>>

EvictSilently(t) == <<TrackOp("unlink", t)>>           \* mutant of the next
AfterEvict(t) == IF Offered(t) THEN <<TrackOp("unlink", t), TrackOp("emit", t)>>
                 ELSE <<TrackOp("unlink", t)>>
evictFull(g, o) ==
    /\ o.op = "evict"
    /\ desired' = [desired EXCEPT ![o.track] = FALSE]
    /\ track' = [track EXCEPT ![o.track] = IF ~Offered(o.track) THEN @
                    ELSE Snapshot(o.track, @.status, "m3u8", @.size)]
    /\ Pop(g, AfterEvict(o.track))
    /\ UNCHANGED <<run, notify, job, file, rooms, history>>

(* os.Remove of the full file, and the os.RemoveAll of Pipeline.Delete.    *)
Unlink(g, o) ==
    /\ o.op = "unlink" /\ Pop(g, <<>>)
    /\ file' = [file EXCEPT ![o.track] = FALSE]
    /\ UNCHANGED <<track, run, notify, desired, job, rooms, history>>

emitUpdate(g, o) ==
    /\ o.op = "emit"
    /\ IF track[o.track] = Nil \/ notify[o.track] = Nil
       THEN Pop(g, <<>>) /\ UNCHANGED astray
       ELSE /\ Pop(g, <<Tell(notify[o.track], track[o.track])>>)
            /\ UNCHANGED notify /\ Sent(o.track, notify[o.track])
    /\ UNCHANGED <<media, rooms, last>>

cleanIfUnused(g, o) ==
    /\ o.op = "clean"
    /\ Pop(g, IF \E q \in Rooms : playing[q] = o.track \/ Has(queue[q], o.track)
              THEN <<>> ELSE <<TrackOp("delete", o.track)>>)
    /\ UNCHANGED <<media, rooms, history>>

Delete(g, o) ==
    /\ o.op = "delete" /\ Pop(g, <<TrackOp("unlink", o.track)>>)
    /\ track' = [track EXCEPT ![o.track] = Nil]
    /\ notify' = [notify EXCEPT ![o.track] = Nil]
    /\ desired' = [desired EXCEPT ![o.track] = FALSE]
    /\ UNCHANGED <<run, job, file, rooms, history>>

-----------------------------------------------------------------------------
Work(g) ==
    /\ work[g] # <<>> /\ UNCHANGED requests
    /\ LET o == Head(work[g]) IN
         \/ UpsertTrack(g, o) \/ EndMaybe(g, o) \/ Reconcile(g, o)
         \/ ensureFull(g, o) \/ StartJob(g, o)
         \/ setFullReady(g, o) \/ evictFull(g, o) \/ Unlink(g, o)
         \/ emitUpdate(g, o) \/ cleanIfUnused(g, o) \/ Delete(g, o)

Next ==
    \/ \E q \in Rooms : \/ endTrack(q)
                        \/ \E b \in Budgets \ {budget[q]} : SetSettings(q, b)
                        \/ \E t \in Tracks : Resolve(q, t) \/ RemoveTrack(q, t)
    \/ \E t \in Tracks : markReady(t) \/ downloadFullM4A(t) \/ JobDone(t)
    \/ \E g \in Goroutines : Work(g)

Spec == Init /\ [][Next]_vars

(* Some goroutine goes on as long as one has something to do.              *)
FairSpec == Spec /\ WF_vars(\E g \in Goroutines : Work(g))

-----------------------------------------------------------------------------
(* SAFETY                                                                  *)
(* A track is offered as a full file only while it is wanted as one,       *)
(* whichever evictions, downloads and deletions overlap.                   *)
FullIsDesired ==
    \A t \in Tracks : track[t] # Nil /\ track[t].url = "m4a" => desired[t]

(* The pipeline's maps agree with each other, and no room queues a track   *)
(* twice, although both are changed by calls that nest in one another.     *)
CacheInv == TypeOK /\ FullIsDesired

(* No full file is left on disk: one that exists is wanted by a track of   *)
(* the pipeline, or a goroutine is still to look at it.                    *)
NoOrphanFile ==
    \A t \in Tracks : file[t] =>
       \/ track[t] # Nil /\ desired[t]
       \/ job[t] = "loaded"
       \/ TrackOp("ready", t) \in Pending \/ TrackOp("unlink", t) \in Pending

(* A set of long tracks that is full by the budget: one is in it if and    *)
(* only if it fits beside the short and the full ones that come before.    *)
Kept(full, es) == [n \in 1..Len(es) |-> IF IsLong(es[n]) /\ es[n].id \notin full
                                       THEN 0 ELSE es[n].size]
IsGreedy(full, es, b) ==
    \A n \in DOMAIN es : IsLong(es[n]) =>
      (es[n].id \in full <=>
         es[n].size + PrefixSums(Kept(full, es), Len(es))[n-1] <= b)

(* The plan of a room is what it gets: once the goroutines are done, the   *)
(* room that reconciled last, and not while another reconciliation was     *)
(* under way, has the files wanted that fit its budget, in the order of    *)
(* its queue, and no others but the one it plays.                          *)
Quiet == \A g \in Goroutines : work[g] = <<>>
PlanIsApplied ==
    last # Nil /\ Quiet =>
      \E full \in SUBSET Long :
        /\ IsGreedy(full, queue[last], budget[last])
        /\ \A e \in Range(queue[last]) :
             IsLong(e) /\ track[e.id] # Nil =>
               /\ e.id \in full => desired[e.id]
               /\ e.id \notin full /\ desired[e.id] => e.id = playing[last]

(* The room that asked last for a track shows its latest address once the  *)
(* goroutines are done, unless two updates of the track crossed or one     *)
(* went to another room.                                                   *)
ShowsLatest ==
    \A t \in Tracks, q \in Rooms :
      q = notify[t] /\ track[t] # Nil /\ t \notin astray /\ Quiet =>
         \A e \in Range(queue[q]) : e.id = t => e = track[t]

(* LIVENESS, under FairSpec                                                *)

(* The recursion of Reconcile, emitUpdate and UpsertTrack ends, also when  *)
(* rooms with different budgets share a track, downloads come in and       *)
(* goroutines undo each other's decisions.                                 *)
ReconcileEnds == ~Quiet ~> Quiet
=============================================================================
