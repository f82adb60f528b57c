# Verification of team4tune-node

TLA+ models of the team4tune node server (Go, `src/`), the TLC runs that check
them on small instances, and TLAPS proofs of their safety for instances of any
size. Every definition is translated from the source; `PROJECT.json` maps each to
its lines.

## The system

A node keeps *rooms*. Clients talk to it over websockets; one reader and one
writer goroutine per connection call methods of the room. A *signal* room tells
its clients when to start a file they have downloaded; a *stream* room broadcasts
the audio itself over WebRTC. A media *pipeline* turns source URLs into files.

| component | state | operations | interacts with | hard parts |
|---|---|---|---|---|
| Membership (`room.go`) | clients, grace slots, tokens, host, seniority counter, empty-room timer; the registry of rooms | Create, Get, Join, Leave, HardLeave, finalizeLeave, remove | handler, timers, playback (`recheckReady`) | sockets sharing an ID after a resume, timer callbacks that `Timer.Stop` does not recall, unlock between check and act |
| Permissions (`IsAllowed`, `SetSettings`) | settings | set_settings, gate of each request | membership (host) | check in one critical section, act in a later one |
| Playback (`playback.go`) | queue, `room.playing`, ready set, `t0`/`s`/paused, ready and end timers | maybeStart, MarkReady, recheckReady, startPlayback, Pause, Resume, SeekTo, Skip, endTrack, UpsertTrack, RemoveTrack | handler, pipeline updates, timers | timers identified by track ID only, calls after unlocking |
| Stream (`room/stream.go`, `rtc/broadcaster.go`) | queue and `room.playing`; cancel, paused, resumeCh, closed; pump goroutines | streamMaybeStart, streamEndTrack, streamSkip, Play, Stop, Pause, Resume, Close, pump | room lock and broadcaster lock | lost wake-ups, overlapping Play, skip against natural end |
| WebRTC peers (`rtc/broadcaster.go`) | peers, remoteSet, buffered candidates | HandleSignal, addPeer, onAnswer, onRemoteICE, removePeer, Close | handler, callbacks of the library | callbacks of an old connection, two connections of one client, a join during Close |
| Pipeline (`media/pipeline.go`) | tracks, streams, `.part` and `.opus` files | Resolve, run, transcodeComplete, Delete | handler, room (`UpsertTrack`), `cleanIfUnused` | overlapping runs of one ID, deletion against use |
| Cache (`media/cache.go`) | fullDesired, fullJobs, `.m4a` files, notify | planFull, Reconcile, ensureFull, setFullReady, evictFull, emitUpdate | room (`reconcileCache`) | stale plans, recursion through the rooms, order of updates |
| HLS (`media/hls.go`) | hlsJobs, semaphore, segment files, stored addresses | serveHLSSegment, ensureHLSSegment, generateHLSSegment, warmHLSSegments | Delete, Resolve | single flight, retry, deletion during generation |
| Delivery (`wsapi/handler.go`, `broadcastState`, `sendAll`, `catchUp`) | bounded Send channel, reader, writePump | every message sent | everything | drops, reordering after unlock, blocking reply to ping |
| UDP clock, HTTP upload, wire protocol, start-up | none or one file | | | not modelled: stateless or pure I/O |

What makes each correct: *membership* — only live connections are registered, a
token resumes exactly its member, seniority is strict, the host keeps its role for
its grace and then the oldest connected member gets it, slots expire, empty rooms go
away; *permissions* — what was granted to the host is done as host; *playback* and
*stream* — the room works its queue off one track at a time, a preparing track has a
deadline, the end timer is exact, no wake-up is lost, a track ends; *peers* — none
is forgotten or survives the room, candidates are used; *pipeline* — a resolving
track has a run, its room is told; *cache* — full files are those that the budget
plans, none is left behind; *HLS* — segments are whole, go with their track unless
they come into being while it goes, and a request is answered; *delivery* — a client
ends up with the latest state unless a message was dropped, and a broken connection
leaves the room.

## Modules

Common conventions. A region under a mutex is one step. What the same goroutine
does after unlocking is a separate step, so other goroutines may come between: a
member of `calls` (Playback, Stream), the head of a goroutine's list of remaining
operations (`work`, `todo` in Cache, Delivery, Peers), or its program counter
(Pipeline, Hls). A timer and its callback are two steps, because `time.Timer.Stop`
does not recall a callback that has started. File operations and external
processes (yt-dlp, ffmpeg, the WebRTC library) are steps that may fail. A
definition marked *mutant of ...* is a deliberately wrong variant, used only to
show that a property notices the mistake.

**Membership** — one room. `current[c]` is the handler's `current` together with
the moment between `Registry.Get` and `Join` ("joining"); `id`, `seq`, `tok` are
the fields of the connection's `*Client`; `clients`, `pending`, `tokens`,
`hostID`, `seqCounter`, `emptyTimer` are the room's. `expiring[i]` counts
`finalizeLeave(i)` callbacks that have fired and not run; `reaping`/`removing`
count empty-room callbacks before and after their check. The uuid of a connection
is the connection itself. `issued` makes `genToken` fresh. `EmptyTimerFires`
waits for slot timers because `emptyRoomTTL` (2 min) is longer than `resumeTTL`
(60 s) and every slot is older than the empty room. Left out: nicknames, health,
broadcasts, and what `recheckReady`/`catchUp` do to playback.

**Permissions** — extends Membership and composes with it: every Membership step
may come between the check of a request (`AskGated`, `AskSettings`) and the change
(`Act`, `SetSettings`), except one of the asking connection's own reader, which is
busy. The four scopes are gated alike and independent of each other, so one policy
stands for that of the request. A grant is recorded with the way it was given and
(history) whether the ID had a slot then.

**Queue** — `room.queue` as operators (upsert, removal, first ready track), used by
Playback, Stream, Cache and Player. An entry with an error status behaves like a
resolving one (not ready).

**Player** — the abstract specification of a room as its listeners see it: the
queue, the current track and a phase (idle, preparing, playing, paused). An idle
room takes the first ready track; the current track stays in the queue, is not
removed or exchanged, and leaves the queue in the step that ends it; and
(`FairSpec`) an idle room with a ready track takes one.

**Playback** — one signal room. A playback is a record; `lead` is `t0 - nowMs()`,
so time is relative and the state space finite. Timers carry what is left to run
and whether they belong to the current playback (`own`), because the code stops
timers through the playback while callbacks compare track IDs only. `Tick` is the
clock: callbacks are prompt, so time passes only when no call is in flight.
Implements Player with `current <- playing.track` and the phase read off
`started` and `paused`.

**Stream** — one stream room and its broadcaster. `Play` is two critical sections
(`PlayStop`, `PlayStart`), `streamSkip` three, `Close` two. A pump is a goroutine
with its own context (`cancelled`). Implements Player with phases idle and
playing: `b.paused` belongs to the broadcaster and outlives a track.

**Peers** — the other half of the broadcaster. A reader carries the client ID of
its connection; after `Resume` two readers carry the same. `todo` also holds the
callbacks `OnConnectionStateChange` of each peer connection, which run at any
later time and remove the peer by client ID. `overwritten` is history: peers
replaced in `b.peers` without being closed.

**Pipeline** — one source URL and the rooms that enqueue it. `run[r]` is a
`Pipeline.run` goroutine; files are shared by name, as in the code. `file` is
"none", "whole", "cut", or the run that is still writing it (another run may rename
its `.part` away). `cleaner[q]` is the `cleanIfUnused` and `Delete` that room `q`
sets off.

**Cache** — several rooms and tracks, long and short. Calls nest: `Reconcile` calls
`evictFull`, that calls the room back through `emitUpdate`, and the room reconciles
again inside that call; `work[g]` is the goroutine's call stack, flattened.
`last` and `astray` are history: whose reconciliation was the last one, and which
tracks had updates that crossed or went to another room. Simplified: an upsert and
the `maybeStart` after its unlock are one step, so are the two halves of
`ensureFull` before the download (`fullDesired` and the look for the file); the
runs of one track do not overlap here (they do in Pipeline); and files are removed
without error.

**Hls** — one long track. Processes are HTTP requests and warming goroutines, one
per segment. `segSem` belongs to the whole pipeline: `line` is the order in which
the processes wait for it and `others` counts the slots that makers of other
tracks hold. `prefetch` is the goroutine with which `run` fetches the address
(`Prefetch`). `os.RemoveAll` is three kinds of step, the reading of the directory
(`List`), the removal of a name that was read (`Unlink`) and the removal of the
directory (`Rmdir`), which fails when something else has come into it. `holders`
and `late` are history: who got the address that is stored now, and what was
renamed after a deletion had read the directory. `SegmentCount` and
`SegmentLength` are the playlist's arithmetic.

**Delivery** — connections with reader, writer and channel. What `room_state` and
`now_playing` say is a version number. A channel is its length and the last version
of each kind put into it, which is all that decides what the client has once it
has read everything. `Others` stand for other readers, timers and the pipeline.
Playback, once started, changes but does not end here; so a `catchUp` between two
tracks, which sends nothing, is not covered.

**Sums** — running totals as a recursive function, in which the budget of Cache and
the playlist of Hls are stated.

**MembershipProofs** (about Membership and Permissions), **PlaybackProofs**,
**StreamProofs**, **PeersProofs**, **PipelineProofs**, **CacheProofs**,
**HlsProofs** and **DeliveryProofs** hold the theorems of the modules they are named
after. What they need about queues, lists and induction is stated as lemmas at the
head of each.

## Runs

The `Doc*` runs end in a counterexample; it is the finding. All others pass.
Deadlock is not checked: clients may all go away and nothing need happen then.

| run | instance | states | what it shows |
|---|---|---|---|
| MembershipSafety | Permissions over Membership, 3 connections, 4 tokens, `OneRequest`, symmetry | 1.08 M | who is registered, tokens, the host's grace, succession and loss, evictions, grants |
| DocHostGrace | 3 connections, 3 tokens, symmetry | | a host that drops twice loses its role within its grace |
| MembershipLiveness | 2 connections, 2 tokens | 42 k | removal of rooms, the inductive invariant, slots are resolved, empty rooms vanish |
| PlaybackQueue | 2 clients, 2 tracks (one of unknown length), symmetry | 328 k | queue, next track, deadline, start on readiness, implements Player |
| PlaybackTiming | 1 client, 1 track, 3 controls | 68 k | exact end timer, the track ends |
| StreamRoom | 1 client, 1 skip, 2 tracks, 2 pumps | 493 k | no lost wake-up, one driven pump until somebody skips, only a late call strands a track, implements Player with its fairness |
| DocTrackEnds | the same | | a late skip leaves the next track stuck |
| PeersClosed | 2 readers, 2 peer connections, 1 candidate, symmetry | 1.24 M | no peer is forgotten or survives Close, candidates, callbacks |
| PipelineRuns | 1 room, 2 overlapping runs, `PromptUpsert` | 484 k | a resolving track has a run, streams are running ones, the room is told |
| CacheFull | 2 rooms, 1 long and 1 short track, budgets 1 and 2, 2 goroutines, 3 requests | 765 k | files match plans, none is left behind, rooms show the latest, the recursion ends |
| HlsSegments | 1 request, 2 segments, 2 slots shared with other tracks, read-ahead 1, playlists up to length 10 | 191 k | whole segments, what a deletion may leave, fresh retry, playlist, answers |
| DeliveryOrder | 1 connection, channel of 2, 2 other goroutines, 3 room and 2 playback changes | 532 k | order and loss of messages, broken connections leave |

`PlaybackInv`, `StreamInv`, `PipelineInv`, `CacheInv`, `HlsInv`, `DeliveryInv` and
`PeersInv` are conjunctions of the module's type invariant with named parts
(`QueueHasPlaying`, `ReadyTrackIsPickedUp`, `OneTrackAtATime`, `PlayingIsDriven`,
`OwnIsCurrent`, `OneDriver`, `StreamIsRunning`, `FullIsDesired`, `OneMaker`,
`RenamesOwnFile`, `HeldWhileUsed`, `RetryIsFresh`, `SlotsAreShared`,
`StateIsLatest`, `OnlyPresentIsSent`, `CandidatesAreUsed`, `OnlyMadeIsKnown`,
`JoinIsOwn`, `CallbackIsLate`), stated separately where they are defined; `IInv` is
the inductive invariant of Membership. The inductive invariants of the proofs are
conjunctions of invariants these runs check; that of Cache has three conjuncts more,
which say what the goroutines have still to do (see Proofs).

Properties with an exception say exactly which one. `HostKeepsGrace` allows the
early end of a grace when two connections of the host's identity have dropped, and
that a connected host is deposed when one has; `OnlyLateOrphans` allows the segments
renamed into a directory that `os.RemoveAll` has read; `HostLostOnlyWhenEmpty`
allows the step that leaves nobody connected; `GrantHolds` allows a
connection that lost its place, and one whose ID had a slot when it asked;
`NoForgottenPeer` allows the
peers lost when two connections of one client join at the same time;
`ShowsLatest` excludes tracks whose updates crossed; `NowPlayingIsLatest` excludes
two `now_playing` under way together; `DropIsNoticed` allows the reader that waits
to answer a ping; `OnlyLateCallStrands` names the two calls that strand a track.
Each exception is an outcome the code can reach (see below), and each property
shows that it is the only one. So these properties bound the case they except and
do not catch it; where a document claims that it does not happen, a `Doc*` run
shows it.

Bounds. *Connections and tokens*: a takeover needs two connections, a choice of a
new host three; each token is used once, so four joins that issue one happen, as
many as the exception of `GrantHolds` needs. `NotReaped` keeps the three-member
instance finite in reasonable time by cutting the empty-room callback and a second
waiting resume callback; MembershipLiveness has both. `OneRequest` adds that one
request at a time is between its check and its act (requests do not influence each
other's grants) and stops at the fifth seniority. *MaxCalls*: a handler starts only
if fewer calls are in flight; two are needed for one goroutine to overtake another.
*MaxControls*: pause, seek and resume in any order. *ReadyTimeouts, StartBuffer,
EndGrace, Duration*: one unit is about a second; the deadline is not shorter than
the start buffer, as in the code. `Seeks` are before the start, inside and past the
end. *MaxPos* stops counting the position of a track of unknown length, which
nothing reads any more. `OneOrphan` allows one readyTimer of a skipped track.
*Pumps*: two can overlap, and one skip is enough to meet every moment of a natural
end. *PCs*: a client with an old and a new peer connection, or two clients with one
each. *Runs*: two runs of one ID, each room having one clean-up at a time; the
overlap comes from a room removed while its track resolves and enqueued again.
`PromptUpsert` lets the handler's own upsert come late only while a run is probing;
`OwnRoomIsTold` speaks of the time after it. *Cache*: budget 2 holds both tracks and
budget 1 the first only, so the plan of the one room contradicts the other's; two
goroutines nest and cross. *Hls*: two segments give a full and a shorter last one;
the request and the warming goroutine of the same segment want the same job and
file, both segments can be in the making while makers of other tracks hold one slot
or both, so processes wait for jobs and for slots; one deletion and one prefetch run
at a time; and every length up to 10 is tried for the playlist. *Delivery*: a
channel of two is full after two messages; one connection is enough because channels
do not influence each other, and two other goroutines can cross.

Fairness. Goroutines that can run do run and timers fire (WF of each callback,
call, pump, run, reader, writer and clean-up); yt-dlp, ffmpeg and a write to a
socket end (metadata, addresses, segments and writes have timeouts, transcodes end
with their input). Nothing is assumed of users: they need not join, leave, pause,
resume, skip or get ready. Playback adds that time goes on while a timer runs:
requests do not crowd infinitely many steps into one instant. `TrackEnds`
(Playback) assumes a known length; with `durationMs` 0 the code sets no end timer
and the track plays until skipped. In Hls makers of
other tracks give their slots back, as those of this track do, and `segSem` serves
waiters in order, as a Go channel does: a slot that gets free while somebody waits
is not for a newcomer. Without that a request could wait for ever.

## Divergences

Two findings in `PROJECT.json` quote the documents:

- *DocTrackEnds*: a skip that races a natural end stops the wrong track and the room
  is stuck (`docs/protocol.md:96`, `:106`).
- *DocHostGrace*: the host role is not held for the whole grace
  (`docs/protocol.md:45-47`, `:59-60`). A host drops, its resume timer fires, and
  before `finalizeLeave` gets `room.mu` the host resumes; `Timer.Stop` is too late.
  If it drops again and the callback runs then, the new slot goes and another
  member is host at once. `HostKeepsGrace` says what holds instead, for any number
  of connections: the first drop of an identity is always given its grace.

Other outcomes that are reachable in the models. Some touch a sentence of the
documents:

- `docs/protocol.md:46` says that the oldest remaining member becomes host when the
  grace expires. If nobody is connected at that moment (the others being in grace
  too), nobody does: the old `hostID` stays, and whoever joins or resumes finds a
  room without a host (`HostLostOnlyWhenEmpty`).
- `docs/protocol.md:96` says that a stream room plays one track at a time. Once
  somebody has skipped, two `Play` calls can overlap, and then two pumps are live.
- `docs/protocol.md:62` says that tokens expire. A token of a connection that was
  replaced stays in `room.tokens` as long as the room does: what expires are slots,
  and the token goes with its own slot or connection only. Whoever has one left over
  can join under that ID again.

About the rest the documents say nothing definite:

- *Membership*: a join between the empty-room callback's check and
  `Registry.remove` lands in a removed room; a late `finalizeLeave` ends the grace
  of a later drop at once, also of a member that is not host.
- *Permissions*: a request checked before the policy was tightened is carried out
  after. And a host can lose its role while connected: after a resume and two byes
  two connections share an ID; when one drops it leaves a slot, and the other may
  join afresh under the same ID, which leaves that slot and its timer alone; when
  the timer fires `finalizeLeave` deletes the slot and `promoteIfHostGone`
  (`room.go:350-382`) gives the role to another member, although the ID is
  connected. A request checked as host before that is carried out after it. The
  attempt to prove an earlier form of `GrantHolds`, without this exception, found
  it: it takes four tokens and 17 steps.
- *Playback*: the readyTimer of a track skipped while being prepared starts a
  later playback of the same track early; an end callback that fired before a
  pause ends the paused track; an update after `RemoveTrack` brings the track
  back; a track of unknown length has no end timer.
- *Stream*: a `Play` between the two halves of `Close` leaves a pump that runs to
  the end of its track.
- *Peers*: two joins of one client at the same time leave a peer connection open
  that nobody refers to; the close callback of an old peer removes the client's
  new one; an answer to an earlier offer is applied to the present peer.
- *Pipeline*: a room that enqueues a URL another room is resolving gets a snapshot
  and is not told the outcome, and a handler's own upsert of the initial snapshot
  (`handler.go:123`) may come after the run's final one: either room shows
  "resolving" for ever; a track is deleted while a room enqueues it, after that room
  was asked; a run may rename another run's unfinished `.part` file; `RemoveTrack`
  leaves the file and the entry of the track behind.
- *Cache*: `fullDesired` is one per track, so rooms with different budgets decide
  for each other; a track may be offered by an `.m4a` address before or after its
  file exists, when download and eviction cross; two updates that cross leave the
  room with the older one.
- *Hls*: a maker that saw the track before `Delete` and renames its segment after
  `os.RemoveAll` has read the directory leaves the segment; the removal of the
  directory fails, `Delete` returns the error at once and does not look at the paths
  the glob found after it, and nobody takes the segment away until the track is
  deleted again. An empty `.hls` directory may stay after a deletion; a late yt-dlp
  stores an address for a track that is gone.
- *Delivery*: a reader that waits to answer a ping on a full channel, after its
  writer has returned, never leaves the room.

## Proofs

The proofs are for every value of the constants: any number of connections,
tokens, tracks, rooms, pumps, peer connections, runs, requests, segments, slots,
goroutines, any capacity and any bound. They assume only what the `ASSUME` of each
module says: `Nil` and the like differ from the values they stand beside, sizes and
bounds are natural numbers, the goroutines of different kinds are different, and in
Peers and Hls the peer connections and requests are finitely many. Every inductive
invariant `IInv` but that of Cache is a conjunction of invariants that the runs also
check. There is one lemma per group of actions; under it, one step per conjunct the
action can disturb.

| module | theorems |
|---|---|
| MembershipProofs | `Inductive` and its parts `TypeCorrect`, `OnlyLiveRegistered`, `StrictSeniority`, `TokensResume`, `SlotsExpire`, `EmptyScheduled`; the action properties `HostGrace`, `HostLoss`, `Evictions`; `GrantsHold` for `PermissionSpec` |
| PlaybackProofs | `PlaybackInductive`, `PlaybackSafe`, `PreparationIsBounded`, `EndTimerIsRight`, `ReadinessStarts`, `SignalRoomImplementsPlayer` |
| StreamProofs | `StreamInductive`, `StreamSafe`, `NoWakeupIsLost`, `OnlyLateCallsStrand`, `StreamRoomImplementsPlayer` |
| PeersProofs | `PeersInductive`, `PeersSafe`, `NoPeerIsForgotten`, `ClosedIsEmpty`, `CallbackSparesFirst` |
| PipelineProofs | `PipelineInductive`, `PipelineSafe`, `ResolvingIsSettled` |
| CacheProofs | `CacheInductive`, `CacheSafe`, `NoFileIsOrphaned`, `PlansAreApplied`, `RoomShowsLatest` |
| HlsProofs | `HlsInductive`, `HlsSafe`, `SegmentsAreWhole`, `DeletionIsComplete`, `PlaylistEndsWithTrack`, `PlaylistsCover` |
| DeliveryProofs | `DeliveryInductive`, `DeliverySafe`, `PlaybackIsDelivered` |

**Membership.** None of the invariants is inductive alone. A fresh join keeps
`TokenResumesMember` only because tokens in use were issued (`TokensAreIssued`) and
a new one is not; `finalizeLeave` and `HardLeave` revoke a slot's token and keep the
connection's because the two differ when an ID has both (`SlotTokenIsItsOwn`), which
in turn follows from tokens mapping to one ID; seniority survives because every Seq
is at most `seqCounter`; the slot and empty-room invariants need that clean-up
happens only after removal and that a room not yet created has no handler
(`RegistryOrder`); and all of them need `RegisteredIsLive` to know which connection
a step touches. The steps that leave the variables of a conjunct alone are gathered
in `QuietStep`. `HostKeepsGrace` rests on `SlotsComeFromDrops`: a slot or a late
callback was left by a connection of that identity that is gone, and a callback that
meets a slot whose own timer has not fired by one of two such connections. The host
role moves only in `HardLeave`, after a bye, and in `finalizeLeave`; there the
slot's timer has fired and nobody is connected under the ID, or it has not and two
connections have dropped, or the host is connected beside a slot that one dropped
connection left. `HostLostOnlyWhenEmpty` follows by the actions that take a client
or a slot away: `Leave` turns the host's connection into a slot, a join turns a slot
into a connection, and `HardLeave` and `finalizeLeave` promote somebody whenever
somebody is connected.

**Permissions.** Every step is one of Membership or leaves its variables alone, so
Membership's `IInv` holds, and `GrantHolds` is inductive beside it: a member that
is host, connected and without a slot keeps the role until it loses its entry,
because `promoteIfHostGone` leaves a connected host alone except in the expiry of
its own slot.

**Queue.** `Put`, `Without` and the first ready track are characterised for queues
without duplicates (what is in the queue afterwards, and with which status). The
queue invariants and both refinements use only these facts.

**Playback.** `IInv` adds `PrepareHasDeadline` and `EndOnTime` to `PlaybackInv`. The
conjunct that carries it is `OwnIsCurrent`: what is marked as the present
playback's is about its track, and there is no end timer of a former playback; so a
callback of a former playback cannot pass for one that drives the present one.
`EndOnTime` follows from it by one arithmetic lemma for `scheduleEnd` and one for
`Tick`, in which `lead` or `s` and the timer move by the same amount.

**Stream.** The queue part is as for Playback. `OneDriver` says that an open room
nobody skipped in has one goroutine at a time that has to do with a track, a live
pump or one call, and that it is the track playing; `OneTrackAtATime` and
`PlayingIsDriven` are not inductive without it. `OnlyLateCallStrands` is shown of
each step, skips included: a pump ends with an `end` call for its track, and only
`skipStop` and `playStop` cancel a pump of an open room.

**The refinements.** Both rooms implement Player: Init maps to Init, and each action
to a Player step or to a stutter, by the lemmas about the queue and by the queue
invariants (the track that ends is in the queue). For Stream this is
`Spec => P!Spec`; the fairness of `ImplementsFairPlayer` stays with TLC.

**Peers.** `NoForgottenPeer` needs to know that a join creates for the ID its
connection has and, unless another connection of the same client joins, after the
old peer was taken out (`JoinIsOwn`); that only peers that were made are known
(`OnlyMadeIsKnown`); and that callbacks come of failed or closed ones
(`CallbackIsLate`). `FirstPeerIsKept` then follows: a callback that takes a peer
that is well was set off by another connection with the same client ID, so the
client had two.

**Pipeline.** `StreamIsRunning` and `ResolvingHasRun` are inductive together: what
`Delete` aborts is a running transcode, and a run leaves its working part only in
the step that settles the track.

**Hls.** `OneMaker` says that `p.hlsJobs[key]` names the one goroutine between the
line and the deletion of the job; from it follow `RenamesOwnFile` (the file about to
be renamed is complete or was taken away by a deletion), `SegmentIsWhole` and
`OnlyLateOrphans`: while the track is gone, the file that is about to be renamed was
taken away or is among the names still to be unlinked, unless the renaming comes
after the reading of the directory; `List` reads every segment there is, and `Rmdir`
ends the deletion only when each name it read is gone. `HeldWhileUsed` and the
attempt number give `RetryIsFresh`. `SlotsAreShared` counts the makers with the
finite-set theorems. For the playlist, `PlaylistEndsWithTrack` shows for every
length and segment length that all segments but the last are full, the last is not
empty, and the last ends with the track; `LengthsAddUp` shows by induction that the
first `n` segments before the last sum up to `n * SegMs`, so that all of them
together are the track (`PlaylistsCover`).

**Induction over data.** The library's induction theorems take the claim as an
operator, which the installed provers cannot instantiate. The proofs take it as a
set instead: a set of natural numbers that is not empty has a least element
(`LeastElement`, from `WFMin` and `NatLessThanWellFounded`), so a set that contains 0
and with each number below `N` the next one contains all of `0..N` (`Induction`). A
function defined by recursion on `0..N` satisfies its equation (`Iterates`). Hence
`PrefixSums`, `Used` (the bytes `planFull` has counted) and `Decisions` (the calls
`Reconcile` makes) are recursive functions, and what they compute is proved for
queues of any length.

**Cache.** The lemmas about the operators come first: `PlanIsGreedy` says that
`planFull`, which carries its sum along, returns the set that `IsGreedy` describes
without one: a long track is in it exactly if it fits beside the short and the chosen
ones before it; `DecisionsProperties` says which `ensureFull` and `evictFull` calls
follow from a plan. `IInv` adds three conjuncts to `CacheInv` and `NoOrphanFile`.
`Asked`: a known track has a room to notify. `Latest`: as long as a track is not
`astray`, an update under way goes to the room that asked last and carries the
present snapshot or an `emitUpdate` is still to come, and if nothing is under way
that room has the present snapshot; `ShowsLatest` speaks only of the moment when
nothing is under way and is not inductive. `Planned`: as long as no update and no
other `Reconcile` is under way, there is a greedy set for the last room such that
each of its tracks that should be kept is wanted or has its `ensureFull` before it,
each that should not be is not wanted, plays, or has its `evictFull` before it, and
no call that is under way contradicts the set; `PlanIsApplied` is what is left of it
when the goroutines are done. Each step is described by what it takes off one
goroutine's list and what it adds (`Begun`, `Popped`), so one lemma per operation
shows each conjunct.

**Delivery.** A step is described by what it takes off one goroutine's list and what
it adds (`Moved`), because the invariant only says what is in the lists. For
`NowPlayingIsLatest` one must know that as long as two `now_playing` have not
crossed the one under way carries the present version, and that before the first
start there is none (`OnlyPresentIsSent`). The property itself names the message
that is coming to each client: a `sendAll` still to list its receivers, one that has
the client on its list, or the client's own `catchUp`.

Only model-checked:

- liveness, the fairness half of `ImplementsFairPlayer`, and everything about
  ENABLED: outside the prover.

## Not modelled

- Uploads (`httpapi/upload.go`, `RegisterOpus`) and the file handlers of
  `media/stream.go`: one request, one file, no state of their own. An upload that
  meets the deletion of the same ID is not covered.
- `SetBitrate` and `streamPreloadNext`: they choose the bytes that are sent and
  change nothing the modelled steps read.
- `MarkReady` in a stream room, whose playback has no ready map (`playback.go:136`):
  `docs/protocol.md:96-97` says that a stream room has no ready messages, and Stream
  assumes that clients keep to it.
- What a failed `os.RemoveAll` leaves of a track's other files: Cache and Pipeline
  remove files without error.
- Whether closing a peer connection under `room.mu` (`room.go:304`) can wait for a
  callback that itself waits for `room.mu`: that depends on the WebRTC library.
- The goroutine that waits on `abortCh` (`pipeline.go:335`) and outlives its
  transcode: it holds no lock and nothing depends on it.
- UDP clock, wire protocol, start-up: stateless replies, encodings and wiring.

## Plan

Every safety invariant and action property the passing runs check is a theorem for
every value of the constants. What is left, in this order:

1. Pipeline: which files a deletion may leave behind, and uploads, whose
   `RegisterOpus` looks for the file in one step and registers the track in another.
2. Stream: what still holds of the pumps once somebody has skipped.
