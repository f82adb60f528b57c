--------------------------------- MODULE Hls ---------------------------------
(***************************************************************************)
(* HLS segments of one long track, made on demand: internal/media/hls.go,  *)
(* with directURLFor, clearDirectURL, ctxFor, exists and Delete of         *)
(* internal/media/pipeline.go.                                             *)
(*                                                                         *)
(* Requests and the goroutines that warm segments up race each other, the  *)
(* deletion of the track and a new enqueue of the same URL.  Every region  *)
(* under Pipeline.mu, every file operation and every external process is a *)
(* step.  The two ffmpeg calls of one attempt are one here: it fails when  *)
(* both do.  One Delete runs at a time, and one prefetch of the address.   *)
(***************************************************************************)
EXTENDS Sequences, FiniteSets, Sums

CONSTANTS
    Requests,     \* HTTP requests for segments that can be open at a time
    Duration,     \* the track's length
    SegMs,        \* hlsSegmentMs
    ReadAhead,    \* hlsReadAhead
    Slots,        \* hlsSegConcurrency
    MaxDuration,  \* bound: lengths for which the playlist is checked
    Nil

ASSUME HlsAssumption ==
    /\ Duration \in Nat \ {0} /\ SegMs \in Nat \ {0} /\ Slots \in Nat \ {0}
    /\ ReadAhead \in Nat /\ MaxDuration \in Nat
    /\ IsFiniteSet(Requests) /\ Nil \notin Requests \cup Nat

-----------------------------------------------------------------------------
(* serveHLSPlaylist: how many segments, and how long each of them is.      *)
CountFloor(d) == d \div SegMs                          \* mutant of the next
SegmentCount(d) == (d + SegMs - 1) \div SegMs
SegmentLength(d, i) == IF d - i * SegMs < SegMs THEN d - i * SegMs ELSE SegMs

Segments == 0..(SegmentCount(Duration) - 1)

(* The goroutine that warms segment s up is called s: a second one for the *)
(* same segment would only wait for the first.                             *)
Procs == Requests \cup Segments

VARIABLES
    track,     \* the track is in p.tracks, with its length
    direct,    \* p.directURLs has an address for it
    holders,   \* history: makers that got the very address p.directURLs has
    seg, tmp,  \* the files seg<n>.ts and seg<n>.ts.tmp
    dir,       \* the directory <id>.hls exists
    job,       \* p.hlsJobs: who makes the segment
    line,      \* who waits to send on p.segSem, in the order of arrival
    others,    \* how many of its slots makers of other tracks hold
    proc,      \* the requests and warming goroutines
    prefetch,  \* the goroutine with which run fetches the address is there
    deletion,  \* what Pipeline.Delete has still to do
    segsListed, tmpsListed,  \* the names os.RemoveAll has read and not unlinked
    late       \* history: the segments renamed after it read them

address == <<direct, holders, prefetch>>
listing == <<segsListed, tmpsListed, late>>
sem == <<line, others>>
files == <<seg, tmp, dir, listing>>
vars == <<track, address, files, job, sem, proc, deletion>>

Idle == [at |-> "idle", seg |-> Nil, attempt |-> 1, ctx |-> "none", ok |-> TRUE]
Places == {"idle", "ensure", "wait", "slot", "exists", "mkdir",
           "address", "fetch", "open", "ffmpeg", "check", "rename", "failed",
           "done", "unjob", "serve"}
Making == {"exists", "mkdir", "address", "fetch", "open", "ffmpeg", "check",
           "rename", "failed", "done"}
Busy == {"slot", "unjob"} \cup Making
Holding == {"open", "ffmpeg", "check", "rename", "failed", "done"}
Contexts == {"none", "live", "done"}
ProcStates == [at : Places, seg : Segments \cup {Nil}, attempt : {1, 2},
               ctx : Contexts, ok : BOOLEAN]

TypeOK ==
    /\ track \in BOOLEAN /\ direct \in BOOLEAN /\ dir \in BOOLEAN
    /\ holders \subseteq Procs /\ (~direct => holders = {})
    /\ seg \in [Segments -> {"none", "partial", "whole"}]
    /\ tmp \in [Segments -> {"none", "partial", "whole"}]
    /\ \A s \in Segments : seg[s] # "none" \/ tmp[s] # "none" => dir
    /\ job \in [Segments -> Procs \cup {Nil}] /\ line \in Seq(Procs) /\ others \in Nat
    /\ proc \in [Procs -> ProcStates]
    /\ \A p \in Procs : /\ proc[p].at # "idle" => proc[p].seg \in Segments
                        /\ proc[p].at = "failed" => proc[p].attempt = 1
    /\ prefetch \in BOOLEAN /\ deletion \in {"none", "list", "unlink"}
    /\ segsListed \subseteq Segments /\ tmpsListed \subseteq Segments
    /\ late \subseteq Segments

Init ==
    /\ track = TRUE /\ direct = FALSE /\ holders = {}
    /\ seg = [s \in Segments |-> "none"] /\ tmp = [s \in Segments |-> "none"]
    /\ dir = FALSE /\ job = [s \in Segments |-> Nil] /\ line = <<>> /\ others = 0
    /\ proc = [p \in Procs |-> Idle] /\ prefetch = TRUE /\ deletion = "none"
    /\ segsListed = {} /\ tmpsListed = {} /\ late = {}

-----------------------------------------------------------------------------
(* Moves of process p.                                                     *)
S(p) == proc[p].seg
At(p, place) == proc[p].at = place
Go(p, place) == proc' = [proc EXCEPT ![p].at = place, ![p].ctx = "none"]

(* generateHLSSegment returns.                                             *)
Made(p) == proc' = [proc EXCEPT ![p] = [Idle EXCEPT !.at = "done", !.seg = S(p)]]
Fail(p) == proc' = [proc EXCEPT ![p] =
              IF @.attempt = 1 THEN [@ EXCEPT !.at = "failed", !.ctx = "none"]
              ELSE [Idle EXCEPT !.at = "done", !.seg = S(p), !.ok = FALSE]]

(* ensureHLSSegment returns: a request goes on to serve the file or to     *)
(* answer 404, and a warming goroutine ends.                               *)
Returned(p, ok) == IF p \in Requests /\ ok THEN [proc[p] EXCEPT !.at = "serve"]
                   ELSE Idle
Return(p, ok) == proc' = [proc EXCEPT ![p] = Returned(p, ok)]

(* ctxFor: the track's context, or the background if it is gone.           *)
ctxFor == IF track THEN "live" ELSE "none"

(* The request: Get, the range of the index, and os.Stat of the segment.   *)
serveHLSSegment(p, s) ==
    /\ At(p, "idle") /\ track
    /\ proc' = [proc EXCEPT ![p] = [Idle EXCEPT !.seg = s,
                   !.at = IF seg[s] = "none" THEN "ensure" ELSE "serve"]]
    /\ UNCHANGED <<track, address, files, job, sem, deletion>>

(* ensureHLSSegment: the track, the job that is under way, the semaphore.  *)
(* A job that is done but still in p.hlsJobs gives its result at once.     *)
GetInLine(p) == /\ job' = [job EXCEPT ![S(p)] = p] /\ Go(p, "slot")
                /\ line' = Append(line, p) /\ UNCHANGED others
ensureAnyway(p) ==                                     \* mutant of the next
    /\ At(p, "ensure")
    /\ IF track THEN GetInLine(p) ELSE UNCHANGED <<job, sem>> /\ Return(p, FALSE)
    /\ UNCHANGED <<track, address, files, deletion>>
ensureHLSSegment(p) ==
    /\ At(p, "ensure")
    /\ LET j == job[S(p)] IN
         \/ ~track /\ Return(p, FALSE) /\ UNCHANGED <<job, sem>>
         \/ track /\ j = Nil /\ GetInLine(p)
         \/ track /\ j # Nil /\ UNCHANGED <<job, sem>>
            /\ IF At(j, "unjob") THEN Return(p, proc[j].ok) ELSE Go(p, "wait")
    /\ UNCHANGED <<track, address, files, deletion>>

(* p.segSem is one for all tracks: makers of other tracks take a free slot *)
(* too, but not one that is passed on to whoever has waited longest.       *)
Makers == {p \in Procs : proc[p].at \in Making}
IsFree == Cardinality(Makers) + others < Slots
TakeSlot(p) ==
    /\ At(p, "slot") /\ p = Head(line) /\ IsFree
    /\ line' = Tail(line) /\ Go(p, "exists")
    /\ UNCHANGED <<track, address, files, job, others, deletion>>

OtherTakes ==
    /\ line = <<>> /\ IsFree /\ others' = others + 1
    /\ UNCHANGED <<track, address, files, job, line, proc, deletion>>
OtherGives ==
    /\ others > 0 /\ others' = others - 1
    /\ UNCHANGED <<track, address, files, job, line, proc, deletion>>

(* generateHLSSegment.                                                     *)
Exists(p) ==
    /\ At(p, "exists") /\ IF track THEN Go(p, "mkdir") ELSE Fail(p)
    /\ UNCHANGED <<track, address, files, job, sem, deletion>>

MkdirAll(p) ==
    /\ At(p, "mkdir") /\ dir' = TRUE
    /\ IF seg[S(p)] = "none" THEN Go(p, "address") ELSE Made(p)
    /\ UNCHANGED <<track, address, seg, tmp, listing, job, sem, deletion>>

(* directURLFor: the address that is stored, or a new one from yt-dlp.     *)
directURLFor(p) ==
    /\ At(p, "address")
    /\ IF direct
       THEN holders' = holders \cup {p} /\ Go(p, "open")
       ELSE /\ proc' = [proc EXCEPT ![p].at = "fetch", ![p].ctx = ctxFor]
            /\ UNCHANGED holders
    /\ UNCHANGED <<track, direct, prefetch, files, job, sem, deletion>>

Fetch(p) ==
    /\ At(p, "fetch")
    /\ \/ Fail(p) /\ UNCHANGED <<direct, holders>>
       \/ /\ proc[p].ctx # "done"
          /\ direct' = TRUE /\ holders' = {p} /\ Go(p, "open")
    /\ UNCHANGED <<track, prefetch, files, job, sem, deletion>>

(* ffmpeg opens the file, which needs the directory, and writes it.        *)
Open(p) ==
    /\ At(p, "open")
    /\ IF dir
       THEN /\ tmp' = [tmp EXCEPT ![S(p)] = "partial"]
            /\ proc' = [proc EXCEPT ![p].at = "ffmpeg", ![p].ctx = ctxFor]
       ELSE UNCHANGED tmp /\ Fail(p)
    /\ UNCHANGED <<track, address, seg, dir, listing, job, sem, deletion>>

runHLSSegmentFFmpeg(p) ==
    /\ At(p, "ffmpeg")
    /\ \/ tmp' = [tmp EXCEPT ![S(p)] = "none"] /\ Fail(p)
       \/ /\ proc[p].ctx # "done" /\ Go(p, "check")
          /\ tmp' = [tmp EXCEPT ![S(p)] = IF @ = "none" THEN "none" ELSE "whole"]
    /\ UNCHANGED <<track, address, seg, dir, listing, job, sem, deletion>>

CheckNothing(p) ==                                     \* mutant of the next
    /\ At(p, "check") /\ Go(p, "rename")
    /\ UNCHANGED <<track, address, files, job, sem, deletion>>
(* os.Remove of the directory: it goes when it is empty, and the names     *)
(* RemoveAll has read of it with it.                                       *)
RemoveDir(sg, tm) ==
    LET stays == dir /\ \E s \in Segments : sg[s] # "none" \/ tm[s] # "none" IN
      /\ dir' = stays
      /\ segsListed' = IF stays THEN segsListed ELSE {}
      /\ tmpsListed' = IF stays THEN tmpsListed ELSE {}

Check(p) ==
    /\ At(p, "check")
    /\ IF track THEN UNCHANGED files /\ Go(p, "rename")
       ELSE /\ tmp' = [tmp EXCEPT ![S(p)] = "none"] /\ UNCHANGED <<seg, late>>
            /\ RemoveDir(seg, [tmp EXCEPT ![S(p)] = "none"]) /\ Fail(p)
    /\ UNCHANGED <<track, address, job, sem, deletion>>

Rename(p) ==
    /\ At(p, "rename")
    /\ IF tmp[S(p)] = "none" THEN UNCHANGED <<seg, tmp, late>> /\ Fail(p)
       ELSE /\ seg' = [seg EXCEPT ![S(p)] = tmp[S(p)]]
            /\ tmp' = [tmp EXCEPT ![S(p)] = "none"] /\ Made(p)
            /\ late' = IF ~track /\ deletion = "unlink" THEN late \cup {S(p)} ELSE late
    /\ UNCHANGED <<track, address, dir, segsListed, tmpsListed, job, sem, deletion>>

(* The first attempt failed: the address is dropped, and there is another. *)
KeepAddress == UNCHANGED <<direct, holders>>           \* mutant of the next
clearDirectURL == direct' = FALSE /\ holders' = {}
Retry(p) ==
    /\ At(p, "failed") /\ clearDirectURL
    /\ proc' = [proc EXCEPT ![p].at = "exists", ![p].attempt = @ + 1]
    /\ UNCHANGED <<track, prefetch, files, job, sem, deletion>>

(* The slot is given back and job.done closed; then the job is deleted.    *)
WakeIfMade(p, q) == At(q, "wait") /\ S(q) = S(p) /\ proc[p].ok
                                                       \* mutant of the next
Waits(p, q) == At(q, "wait") /\ S(q) = S(p)
Done(p) ==
    /\ At(p, "done")
    /\ proc' = [q \in Procs |-> IF q = p THEN [proc[p] EXCEPT !.at = "unjob"]
                                ELSE IF Waits(p, q) THEN Returned(q, proc[p].ok)
                                ELSE proc[q]]
    /\ holders' = holders \ {p}
    /\ UNCHANGED <<track, direct, prefetch, files, job, sem, deletion>>

Unjob(p) ==
    /\ At(p, "unjob") /\ job' = [job EXCEPT ![S(p)] = Nil]
    /\ Return(p, proc[p].ok)
    /\ UNCHANGED <<track, address, files, sem, deletion>>

(* warmHLSSegments, and the file is opened and sent, or 404.               *)
warmHLSSegments(s) ==
    {i \in Segments : track /\ i \in (s+1)..(s+ReadAhead) /\ seg[i] = "none"
                      /\ At(i, "idle")}
Serve(p) ==
    /\ At(p, "serve")
    /\ proc' = [q \in Procs |->
                  IF q = p THEN Idle
                  ELSE IF q \in warmHLSSegments(S(p))
                  THEN [Idle EXCEPT !.at = "ensure", !.seg = q] ELSE proc[q]]
    /\ UNCHANGED <<track, address, files, job, sem, deletion>>

-----------------------------------------------------------------------------
(* directURLFor as run calls it for a long track, without waiting for it:  *)
(* it ends without an address, or because there is one, or stores another. *)
(* (Its context is the track's or, after a deletion, the background's.)    *)
Prefetch ==
    /\ prefetch /\ prefetch' = FALSE
    /\ UNCHANGED <<direct, holders>> \/ (direct' = TRUE /\ holders' = {})
    /\ UNCHANGED <<track, files, job, sem, proc, deletion>>

(* Pipeline.Delete: the maps and the context; then, if the glob finds the  *)
(* directory, os.RemoveAll, which reads the names in it, unlinks one after *)
(* the other and removes the directory if nothing else has come into it    *)
(* (if something has, Delete returns the error).                           *)
Delete ==
    /\ track /\ deletion = "none"
    /\ track' = FALSE /\ direct' = FALSE /\ holders' = {}
    /\ proc' = [p \in Procs |-> IF proc[p].ctx = "live"
                                THEN [proc[p] EXCEPT !.ctx = "done"] ELSE proc[p]]
    /\ deletion' = "list"
    /\ UNCHANGED <<prefetch, files, job, sem>>

List ==
    /\ deletion = "list" /\ deletion' = IF dir THEN "unlink" ELSE "none"
    /\ segsListed' = {s \in Segments : seg[s] # "none"}
    /\ tmpsListed' = {s \in Segments : tmp[s] # "none"}
    /\ UNCHANGED <<track, address, seg, tmp, dir, late, job, sem, proc>>

Unlink(s) ==
    /\ deletion = "unlink"
    /\ \/ /\ s \in segsListed /\ segsListed' = segsListed \ {s}
          /\ seg' = [seg EXCEPT ![s] = "none"] /\ UNCHANGED <<tmp, tmpsListed>>
       \/ /\ s \in tmpsListed /\ tmpsListed' = tmpsListed \ {s}
          /\ tmp' = [tmp EXCEPT ![s] = "none"] /\ UNCHANGED <<seg, segsListed>>
    /\ UNCHANGED <<track, address, dir, late, job, sem, proc, deletion>>

Rmdir ==
    /\ deletion = "unlink" /\ segsListed = {} /\ tmpsListed = {}
    /\ deletion' = "none" /\ RemoveDir(seg, tmp)
    /\ UNCHANGED <<track, address, seg, tmp, late, job, sem, proc>>

(* The URL is enqueued again and probed.                                   *)
Resolve ==
    /\ ~track /\ track' = TRUE /\ late' = {}
    /\ prefetch' = TRUE
    /\ UNCHANGED <<direct, holders, seg, tmp, dir, segsListed, tmpsListed, job,
                   sem, proc, deletion>>

-----------------------------------------------------------------------------
Step(p) ==
    \/ ensureHLSSegment(p) \/ TakeSlot(p) \/ Exists(p) \/ MkdirAll(p)
    \/ directURLFor(p) \/ Fetch(p) \/ Open(p)
    \/ runHLSSegmentFFmpeg(p) \/ Check(p) \/ Rename(p) \/ Retry(p)
    \/ Done(p) \/ Unjob(p) \/ Serve(p)

Next ==
    \/ \E p \in Requests, s \in Segments : serveHLSSegment(p, s)
    \/ \E p \in Procs : Step(p)
    \/ \E s \in Segments : Unlink(s)
    \/ OtherTakes \/ OtherGives \/ Prefetch \/ Delete \/ List \/ Rmdir \/ Resolve

Spec == Init /\ [][Next]_vars

(* Goroutines run, and ffmpeg and yt-dlp end by their timeouts.            *)
FairSpec == Spec /\ WF_vars(OtherGives) /\ \A p \in Procs : WF_vars(Step(p))

-----------------------------------------------------------------------------
(* SAFETY                                                                  *)

(* A segment that can be served is whole: nobody renames a file somebody   *)
(* else is writing, although all use the same name for it.                 *)
SegmentIsWhole == \A s \in Segments : seg[s] # "partial"

(* When a track is deleted its segments go, also those that were being     *)
(* made at that moment.  What a finished deletion leaves is a segment that *)
(* was renamed between the reading of the directory and its removal, by a  *)
(* maker that had passed its last check before the deletion began: Delete  *)
(* answers it with an error and nobody takes it away.                      *)
OnlyLateOrphans ==
    ~track => \A s \in Segments : seg[s] # "none" =>
      \/ deletion = "list" \/ s \in late
      \/ deletion = "unlink" /\ s \in segsListed

(* p.hlsJobs names the one maker of a segment, from its place in the line  *)
(* to the deletion of the job.  Whoever waits for a job has a maker that   *)
(* has not closed job.done yet.                                            *)
OneMaker ==
    /\ \A p \in Procs : proc[p].at \in Busy => job[S(p)] = p
    /\ \A s \in Segments : job[s] # Nil =>
         proc[job[s]].at \in Busy /\ S(job[s]) = s
    /\ \A p \in Procs : At(p, "wait") =>
         job[S(p)] # Nil /\ ~At(job[S(p)], "unjob")

(* The file that is about to be renamed is complete or was taken away, and *)
(* it was taken away, or is about to be, if the track was deleted after    *)
(* the check.                                                              *)
RenamesOwnFile ==
    \A p \in Procs :
      /\ proc[p].at \in {"check", "rename"} => tmp[S(p)] # "partial"
      /\ At(p, "rename") /\ ~track /\ deletion \in {"none", "unlink"} =>
           tmp[S(p)] = "none" \/ (deletion = "unlink" /\ S(p) \in tmpsListed)

(* An address is held from directURLFor to the end of the attempt, so the  *)
(* second attempt does not use the address the first one failed with.      *)
HeldWhileUsed == \A p \in holders : proc[p].at \in Holding
RetryIsFresh ==
    \A p \in Procs : At(p, "address") /\ proc[p].attempt = 2 => p \notin holders

(* p.segSem: who waits for a slot is in the line once, nobody else is, and *)
(* no more than Slots segments are made at a time.                         *)
SlotsAreShared ==
    /\ \A p \in Procs : At(p, "slot") <=> p \in {line[n] : n \in DOMAIN line}
    /\ \A m, n \in DOMAIN line : line[m] = line[n] => m = n
    /\ Cardinality(Makers) + others <= Slots

(* Makers, jobs, files, slots and addresses agree with each other, and a   *)
(* retry is one.                                                           *)
HlsInv ==
    /\ TypeOK /\ OneMaker /\ RenamesOwnFile /\ HeldWhileUsed /\ RetryIsFresh
    /\ SlotsAreShared

(* The segments of the playlist have a length, none is longer than the     *)
(* others, and together they are the track.                                *)
PlaylistCovers ==
    track => \A d \in 1..MaxDuration :
      LET n == SegmentCount(d)
          lengths == [i \in 1..n |-> SegmentLength(d, i - 1)]
      IN  /\ \A i \in 1..n : lengths[i] \in 1..SegMs
          /\ PrefixSums(lengths, n)[n] = d

(* LIVENESS, under FairSpec                                                *)

(* Every request is answered: whoever waits for a job or for a slot gets   *)
(* it, whatever fails or is deleted.  Requests are alike, so it is enough  *)
(* to say this of one.                                                     *)
Somebody == CHOOSE p \in Requests : TRUE
RequestEnds == ~At(Somebody, "idle") ~> At(Somebody, "idle")
=============================================================================
