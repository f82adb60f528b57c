------------------------------ MODULE HlsProofs ------------------------------
(***************************************************************************)
(* Hls for every number of requests, segments and slots: one maker for a   *)
(* segment, whole files, nothing left behind by a deletion, no waiter      *)
(* without a maker.                                                        *)
(***************************************************************************)
EXTENDS Hls, FiniteSetTheorems, SequenceTheorems, WellFoundedInduction, TLAPS

(* The inductive invariant.                                                *)
IInv == HlsInv /\ SegmentIsWhole /\ OnlyLateOrphans

-----------------------------------------------------------------------------
(* TYPES                                                                   *)

(* Segments are numbers, processes are finitely many.                      *)
LEMMA ProcsType == Nil \notin Procs /\ Nil \notin Segments /\ IsFiniteSet(Procs)
<1> DEFINE n == SegmentCount(Duration)
<1>1. n \in Int BY HlsAssumption DEF SegmentCount
<1> HIDE DEF n
<1>2. IsFiniteSet(0..(n - 1)) BY <1>1, FS_Interval
<1>3. Segments = 0..(n - 1) BY DEF Segments, n
<1>4. Nil \notin Segments BY <1>1, <1>3, HlsAssumption
<1>5. IsFiniteSet(Requests \cup Segments) BY <1>2, <1>3, HlsAssumption, FS_Union
<1> QED BY <1>4, <1>5, HlsAssumption DEF Procs

(* The records of a process.                                               *)
LEMMA ProcTypes ==
    /\ Idle \in ProcStates
    /\ \A c \in ProcStates, a \in Places, x \in {"none", "live", "done"} :
         [c EXCEPT !.at = a, !.ctx = x] \in ProcStates
    /\ \A c \in ProcStates, a \in Places :
         /\ [c EXCEPT !.at = a] \in ProcStates
         /\ [c EXCEPT !.at = a, !.attempt = 2] \in ProcStates
    /\ \A c \in ProcStates, x \in {"none", "live", "done"} : [c EXCEPT !.ctx = x] \in ProcStates
    /\ \A a \in Places, s \in Segments :
         /\ [Idle EXCEPT !.at = a, !.seg = s] \in ProcStates
         /\ [Idle EXCEPT !.at = a, !.seg = s, !.ok = FALSE] \in ProcStates
         /\ [Idle EXCEPT !.seg = s, !.at = a] \in ProcStates
<1>1. /\ Nil \in Segments \cup {Nil} /\ \A s \in Segments : s \in Segments \cup {Nil}
      /\ 1 \in {1, 2} /\ 2 \in {1, 2} /\ TRUE \in BOOLEAN /\ FALSE \in BOOLEAN
      /\ "none" \in {"none", "live", "done"} /\ "idle" \in Places
  BY DEF Places
<1>2. Idle \in ProcStates BY <1>1, Zenon DEF Idle, ProcStates, Contexts
<1>3. ASSUME NEW c \in ProcStates
      PROVE  /\ \A a \in Places, x \in {"none", "live", "done"} :
                  [c EXCEPT !.at = a, !.ctx = x] \in ProcStates
             /\ \A a \in Places : /\ [c EXCEPT !.at = a] \in ProcStates
                                  /\ [c EXCEPT !.at = a, !.attempt = 2] \in ProcStates
             /\ \A x \in {"none", "live", "done"} : [c EXCEPT !.ctx = x] \in ProcStates
  BY <1>1, <1>3, Zenon DEF ProcStates, Contexts
<1>4. ASSUME NEW a \in Places, NEW s \in Segments
      PROVE  /\ [Idle EXCEPT !.at = a, !.seg = s] \in ProcStates
             /\ [Idle EXCEPT !.at = a, !.seg = s, !.ok = FALSE] \in ProcStates
             /\ [Idle EXCEPT !.seg = s, !.at = a] \in ProcStates
  BY <1>1, <1>4, Zenon DEF ProcStates, Contexts, Idle
<1> QED BY <1>2, <1>3, <1>4

LEMMA ProcFields ==
    ASSUME NEW c \in ProcStates, NEW a, NEW s, NEW x
    PROVE  /\ [c EXCEPT !.at = a, !.ctx = x].at = a
           /\ [c EXCEPT !.at = a, !.ctx = x].seg = c.seg
           /\ [c EXCEPT !.at = a, !.ctx = x].attempt = c.attempt
           /\ [c EXCEPT !.at = a].at = a
           /\ [c EXCEPT !.at = a].seg = c.seg
           /\ [c EXCEPT !.at = a].attempt = c.attempt
           /\ [c EXCEPT !.ctx = x].at = c.at
           /\ [c EXCEPT !.ctx = x].seg = c.seg
           /\ [c EXCEPT !.ctx = x].attempt = c.attempt
           /\ [c EXCEPT !.at = a, !.attempt = 2].at = a
           /\ [c EXCEPT !.at = a, !.attempt = 2].seg = c.seg
           /\ [Idle EXCEPT !.at = a, !.seg = s].at = a
           /\ [Idle EXCEPT !.at = a, !.seg = s].seg = s
           /\ [Idle EXCEPT !.at = a, !.seg = s, !.ok = FALSE].at = a
           /\ [Idle EXCEPT !.at = a, !.seg = s, !.ok = FALSE].seg = s
           /\ [Idle EXCEPT !.seg = s, !.at = a].at = a
           /\ [Idle EXCEPT !.seg = s, !.at = a].seg = s
           /\ Idle.at = "idle"
BY DEF ProcStates, Idle

-----------------------------------------------------------------------------
(* THE MOVES OF A PROCESS                                                  *)

ProcOK ==
    /\ proc \in [Procs -> ProcStates]
    /\ \A p \in Procs : /\ proc[p].at # "idle" => proc[p].seg \in Segments
                        /\ proc[p].at = "failed" => proc[p].attempt = 1

(* Process p goes to place a, for the same segment; nobody else moves.     *)
Moves(p, a) ==
    /\ ProcOK' /\ \A q \in Procs : q # p => proc'[q] = proc[q]
    /\ proc'[p].at = a /\ (a # "idle" => proc'[p].seg = proc[p].seg)

LEMMA OneMoves ==
    ASSUME ProcOK, NEW p \in Procs, NEW y \in ProcStates,
           proc' = [proc EXCEPT ![p] = y], y.at = "failed" => y.attempt = 1,
           y.at # "idle" => y.seg = proc[p].seg /\ proc[p].at # "idle"
    PROVE  Moves(p, y.at)
<1>1. proc'[p] = y /\ \A q \in Procs : q # p => proc'[q] = proc[q]
  BY DEF ProcOK
<1>2. proc' \in [Procs -> ProcStates] BY DEF ProcOK
<1>3. y.at # "idle" => y.seg \in Segments BY DEF ProcOK
<1>4. ProcOK' BY <1>1, <1>2, <1>3 DEF ProcOK
<1> QED BY <1>1, <1>4 DEF Moves

LEMMA GoMoves ==
    ASSUME ProcOK, NEW p \in Procs, proc[p].at # "idle",
           NEW a \in Places \ {"idle", "failed"}, NEW x \in {"none", "live", "done"},
           proc' = [proc EXCEPT ![p].at = a, ![p].ctx = x]
    PROVE  Moves(p, a)
<1> DEFINE y == [proc[p] EXCEPT !.at = a, !.ctx = x]
<1>1. proc[p] \in ProcStates BY DEF ProcOK
<1>2. y \in ProcStates
  <2>1. a \in Places OBVIOUS
  <2> QED BY <1>1, <2>1, ProcTypes, Zenon
<1>3. y.at = a /\ y.seg = proc[p].seg BY <1>1, ProcFields
<1>4. proc' = [proc EXCEPT ![p] = y] OBVIOUS
<1> HIDE DEF y
<1> QED BY <1>2, <1>3, <1>4, OneMoves

LEMMA MadeMoves ==
    ASSUME ProcOK, NEW p \in Procs, proc[p].at # "idle", Made(p)
    PROVE  Moves(p, "done")
<1> DEFINE y == [Idle EXCEPT !.at = "done", !.seg = proc[p].seg]
<1>1. proc[p] \in ProcStates /\ proc[p].seg \in Segments BY DEF ProcOK
<1>2. y \in ProcStates BY <1>1, ProcTypes DEF Places
<1>3. y.at = "done" /\ y.seg = proc[p].seg BY <1>1, ProcFields
<1>4. proc' = [proc EXCEPT ![p] = y] BY DEF Made, S
<1> HIDE DEF y
<1> QED BY <1>2, <1>3, <1>4, OneMoves

LEMMA FailMoves ==
    ASSUME ProcOK, NEW p \in Procs, proc[p].at # "idle", Fail(p)
    PROVE  Moves(p, "failed") \/ Moves(p, "done")
<1>1. proc[p] \in ProcStates /\ proc[p].seg \in Segments BY DEF ProcOK
<1>2. CASE proc[p].attempt = 1
  <2> DEFINE y == [proc[p] EXCEPT !.at = "failed", !.ctx = "none"]
  <2>1. y \in ProcStates BY <1>1, ProcTypes DEF Places
  <2>2. y.at = "failed" /\ y.seg = proc[p].seg /\ y.attempt = proc[p].attempt
    BY <1>1, ProcFields
  <2>3. proc' = [proc EXCEPT ![p] = y] BY <1>2 DEF Fail
  <2> HIDE DEF y
  <2> QED BY <1>2, <2>1, <2>2, <2>3, OneMoves
<1>3. CASE proc[p].attempt # 1
  <2> DEFINE y == [Idle EXCEPT !.at = "done", !.seg = proc[p].seg, !.ok = FALSE]
  <2>1. y \in ProcStates BY <1>1, ProcTypes DEF Places
  <2>2. y.at = "done" /\ y.seg = proc[p].seg BY <1>1, ProcFields
  <2>3. proc' = [proc EXCEPT ![p] = y] BY <1>3 DEF Fail, S
  <2> HIDE DEF y
  <2> QED BY <2>1, <2>2, <2>3, OneMoves
<1> QED BY <1>2, <1>3

LEMMA ReturnedType ==
    ASSUME ProcOK, NEW p \in Procs, proc[p].at # "idle", NEW ok
    PROVE  /\ Returned(p, ok) \in ProcStates
           /\ Returned(p, ok).at \in {"idle", "serve"}
           /\ Returned(p, ok).at = "serve" => Returned(p, ok).seg = proc[p].seg
<1>1. proc[p] \in ProcStates BY DEF ProcOK
<1>2. CASE p \in Requests /\ ok
  <2> DEFINE y == [proc[p] EXCEPT !.at = "serve"]
  <2>1. y \in ProcStates BY <1>1, ProcTypes DEF Places
  <2>2. y.at = "serve" /\ y.seg = proc[p].seg BY <1>1, ProcFields
  <2>3. Returned(p, ok) = y BY <1>2 DEF Returned
  <2> HIDE DEF y
  <2> QED BY <2>1, <2>2, <2>3
<1>3. CASE ~(p \in Requests /\ ok)
  <2>1. Returned(p, ok) = Idle BY <1>3 DEF Returned
  <2> QED BY <1>1, <2>1, ProcTypes, ProcFields
<1> QED BY <1>2, <1>3

LEMMA ReturnMoves ==
    ASSUME ProcOK, NEW p \in Procs, proc[p].at # "idle", NEW ok, Return(p, ok)
    PROVE  Moves(p, "idle") \/ Moves(p, "serve")
<1> DEFINE y == Returned(p, ok)
<1>1. /\ y \in ProcStates /\ y.at \in {"idle", "serve"}
      /\ y.at = "serve" => y.seg = proc[p].seg
  BY ReturnedType
<1>2. proc' = [proc EXCEPT ![p] = y] BY DEF Return
<1> HIDE DEF y
<1> QED BY <1>1, <1>2, OneMoves

LEMMA RetryMoves ==
    ASSUME ProcOK, NEW p \in Procs, Retry(p)
    PROVE  Moves(p, "exists")
<1>1. proc[p] \in ProcStates /\ proc[p].at = "failed" /\ proc[p].attempt = 1
  BY DEF ProcOK, Retry, At
<1> DEFINE y == [proc[p] EXCEPT !.at = "exists", !.attempt = 2]
<1>2. y \in ProcStates BY <1>1, ProcTypes DEF Places
<1>3. y.at = "exists" /\ y.seg = proc[p].seg BY <1>1, ProcFields
<1>4. proc' = [proc EXCEPT ![p] = y]
  <2>1. proc' = [proc EXCEPT ![p] = [proc[p] EXCEPT !.at = "exists", !.attempt = proc[p].attempt + 1]]
    BY DEF Retry
  <2>2. proc[p].attempt + 1 = 2 BY <1>1
  <2> QED BY <2>1, <2>2
<1> HIDE DEF y
<1> QED BY <1>1, <1>2, <1>3, <1>4, OneMoves

-----------------------------------------------------------------------------
(* generateHLSSegment, BY WHAT ITS STEPS DO                                *)

Generates(p) ==
    \/ Exists(p) \/ MkdirAll(p) \/ directURLFor(p) \/ Fetch(p) \/ Open(p)
    \/ runHLSSegmentFFmpeg(p) \/ Check(p) \/ Rename(p) \/ Retry(p)

Returning == {"failed", "done"}

(* To the files, when p goes to place a.                                   *)
FileChange(p, a) ==
    \/ UNCHANGED <<seg, tmp, listing>> /\ (UNCHANGED dir \/ dir' = TRUE)
       /\ a \notin {"check", "rename"}
    \/ /\ dir /\ UNCHANGED <<seg, dir, listing>> /\ a = "ffmpeg"
       /\ tmp' = [tmp EXCEPT ![S(p)] = "partial"]
    \/ /\ UNCHANGED <<seg, dir, listing>> /\ a \in Returning
       /\ tmp' = [tmp EXCEPT ![S(p)] = "none"]
    \/ /\ UNCHANGED <<seg, dir, listing>> /\ a = "check"
       /\ tmp' = [tmp EXCEPT ![S(p)] = IF @ = "none" THEN "none" ELSE "whole"]
    \/ UNCHANGED files /\ track /\ At(p, "check") /\ a = "rename"
    \/ /\ UNCHANGED <<seg, late>> /\ a \in Returning
       /\ tmp' = [tmp EXCEPT ![S(p)] = "none"]
       /\ RemoveDir(seg, [tmp EXCEPT ![S(p)] = "none"])
    \/ /\ At(p, "rename") /\ tmp[S(p)] # "none" /\ a \in Returning
       /\ UNCHANGED <<dir, segsListed, tmpsListed>>
       /\ seg' = [seg EXCEPT ![S(p)] = tmp[S(p)]]
       /\ tmp' = [tmp EXCEPT ![S(p)] = "none"]
       /\ late' = IF ~track /\ deletion = "unlink" THEN late \cup {S(p)} ELSE late

(* To the address.                                                         *)
AddressChange(p, a) ==
    \/ UNCHANGED <<direct, holders>> /\ (proc[p].at \in Holding => a \in Holding)
    \/ direct' = TRUE /\ holders' \in {{p}, holders \cup {p}} /\ a \in Holding
    \/ direct' = FALSE /\ holders' = {}

LEMMA GeneratesEffect ==
    ASSUME TypeOK, NEW p \in Procs, Generates(p)
    PROVE  /\ proc[p].at \in Making /\ UNCHANGED <<track, prefetch, job, sem, deletion>>
           /\ \E a \in Making : Moves(p, a) /\ FileChange(p, a) /\ AddressChange(p, a)
<1>0. ProcOK BY DEF TypeOK, ProcOK
<1>p. "none" \in {"none", "live", "done"} /\ ctxFor \in {"none", "live", "done"} BY DEF ctxFor
<1>g. ASSUME NEW a \in Places \ {"idle", "failed"}, proc[p].at # "idle", Go(p, a) PROVE Moves(p, a)
  <2>1. proc' = [proc EXCEPT ![p].at = a, ![p].ctx = "none"] BY <1>g DEF Go
  <2> QED BY <1>0, <1>p, <1>g, <2>1, GoMoves
<1>f. ASSUME proc[p].at # "idle", Fail(p) PROVE \E a \in Returning : Moves(p, a)
  BY <1>0, <1>f, FailMoves DEF Returning
<1>d. ASSUME proc[p].at # "idle", Made(p) PROVE Moves(p, "done")
  BY <1>0, <1>d, MadeMoves
<1> USE DEF At, Making, Places, Holding, Returning, address
<1>1. CASE Exists(p)
  <2>1. /\ proc[p].at = "exists" /\ UNCHANGED <<track, prefetch, job, sem, deletion>>
        /\ UNCHANGED <<seg, tmp, dir, listing, direct, holders>>
    BY <1>1 DEF Exists, files
  <2>2. \E a \in {"mkdir", "failed", "done"} : Moves(p, a)
    BY <1>1, <2>1, <1>g, <1>f DEF Exists
  <2> QED BY <2>1, <2>2 DEF FileChange, AddressChange
<1>2. CASE MkdirAll(p)
  <2>1. /\ proc[p].at = "mkdir" /\ UNCHANGED <<track, prefetch, job, sem, deletion>>
        /\ UNCHANGED <<seg, tmp, listing, direct, holders>> /\ dir' = TRUE
    BY <1>2 DEF MkdirAll
  <2>2. \E a \in {"address", "done"} : Moves(p, a)
    BY <1>2, <2>1, <1>g, <1>d DEF MkdirAll
  <2> QED BY <2>1, <2>2 DEF FileChange, AddressChange
<1>3. CASE directURLFor(p)
  <2>1. /\ proc[p].at = "address" /\ UNCHANGED <<track, prefetch, job, sem, deletion>>
        /\ UNCHANGED <<seg, tmp, dir, listing, direct>>
    BY <1>3 DEF directURLFor, files
  <2>2. CASE direct
    <3>1. holders' = holders \cup {p} /\ Moves(p, "open")
      BY <1>3, <2>1, <2>2, <1>g DEF directURLFor
    <3> QED BY <2>1, <2>2, <3>1 DEF FileChange, AddressChange
  <2>3. CASE ~direct
    <3>1. holders' = holders /\ proc' = [proc EXCEPT ![p].at = "fetch", ![p].ctx = ctxFor]
      BY <1>3, <2>3 DEF directURLFor
    <3>2. "fetch" \in Places \ {"idle", "failed"} /\ proc[p].at # "idle" BY <2>1
    <3>3. Moves(p, "fetch")
      BY <1>0, <1>p, <3>1, <3>2, GoMoves
    <3> QED BY <2>1, <3>1, <3>3 DEF FileChange, AddressChange
  <2> QED BY <2>2, <2>3
<1>4. CASE Fetch(p)
  <2>1. /\ proc[p].at = "fetch" /\ UNCHANGED <<track, prefetch, job, sem, deletion>>
        /\ UNCHANGED <<seg, tmp, dir, listing>>
    BY <1>4 DEF Fetch, files
  <2>2. \/ UNCHANGED <<direct, holders>> /\ \E a \in Returning : Moves(p, a)
        \/ direct' = TRUE /\ holders' = {p} /\ Moves(p, "open")
    BY <1>4, <2>1, <1>g, <1>f DEF Fetch
  <2> QED BY <2>1, <2>2 DEF FileChange, AddressChange
<1>5. CASE Open(p)
  <2>1. /\ proc[p].at = "open" /\ UNCHANGED <<track, prefetch, job, sem, deletion>>
        /\ UNCHANGED <<seg, dir, listing, direct, holders>>
    BY <1>5 DEF Open
  <2>2. CASE dir
    <3>1. /\ tmp' = [tmp EXCEPT ![S(p)] = "partial"]
          /\ proc' = [proc EXCEPT ![p].at = "ffmpeg", ![p].ctx = ctxFor]
      BY <1>5, <2>2 DEF Open
    <3>2. "ffmpeg" \in Places \ {"idle", "failed"} /\ proc[p].at # "idle" BY <2>1
    <3>3. Moves(p, "ffmpeg") BY <1>0, <1>p, <3>1, <3>2, GoMoves
    <3> QED BY <2>1, <2>2, <3>1, <3>3 DEF FileChange, AddressChange
  <2>3. CASE ~dir
    <3>1. tmp' = tmp /\ \E a \in Returning : Moves(p, a) BY <1>5, <2>1, <2>3, <1>f DEF Open
    <3> QED BY <2>1, <3>1 DEF FileChange, AddressChange
  <2> QED BY <2>2, <2>3
<1>6. CASE runHLSSegmentFFmpeg(p)
  <2>1. /\ proc[p].at = "ffmpeg" /\ UNCHANGED <<track, prefetch, job, sem, deletion>>
        /\ UNCHANGED <<seg, dir, listing, direct, holders>>
    BY <1>6 DEF runHLSSegmentFFmpeg
  <2>2. \/ /\ tmp' = [tmp EXCEPT ![S(p)] = "none"]
           /\ \E a \in Returning : Moves(p, a)
        \/ /\ tmp' = [tmp EXCEPT ![S(p)] = IF @ = "none" THEN "none" ELSE "whole"]
           /\ Moves(p, "check")
    BY <1>6, <2>1, <1>f, <1>g DEF runHLSSegmentFFmpeg
  <2> QED BY <2>1, <2>2 DEF FileChange, AddressChange
<1>7. CASE Check(p)
  <2>1. /\ proc[p].at = "check" /\ UNCHANGED <<track, prefetch, job, sem, deletion>>
        /\ UNCHANGED <<direct, holders>>
    BY <1>7 DEF Check
  <2>2. CASE track
    <3>1. UNCHANGED files /\ Moves(p, "rename") BY <1>7, <2>1, <2>2, <1>g DEF Check
    <3> QED BY <2>1, <2>2, <3>1 DEF FileChange, AddressChange
  <2>3. CASE ~track
    <3>1. /\ UNCHANGED <<seg, late>> /\ tmp' = [tmp EXCEPT ![S(p)] = "none"]
          /\ RemoveDir(seg, [tmp EXCEPT ![S(p)] = "none"])
      BY <1>7, <2>3 DEF Check
    <3>2. PICK a \in Returning : Moves(p, a) BY <1>7, <2>1, <2>3, <1>f DEF Check
    <3>3. FileChange(p, a) BY <3>1, Zenon DEF FileChange
    <3> QED BY <2>1, <3>2, <3>3 DEF AddressChange
  <2> QED BY <2>2, <2>3
<1>8. CASE Rename(p)
  <2>1. /\ proc[p].at = "rename" /\ UNCHANGED <<track, prefetch, job, sem, deletion>>
        /\ UNCHANGED <<dir, segsListed, tmpsListed, direct, holders>>
    BY <1>8 DEF Rename
  <2>2. CASE tmp[S(p)] = "none"
    <3>1. UNCHANGED <<seg, tmp, late>> /\ \E a \in Returning : Moves(p, a)
      BY <1>8, <2>1, <2>2, <1>f DEF Rename
    <3> QED BY <2>1, <3>1 DEF FileChange, AddressChange, listing
  <2>3. CASE tmp[S(p)] # "none"
    <3>1. /\ seg' = [seg EXCEPT ![S(p)] = tmp[S(p)]] /\ Moves(p, "done")
          /\ tmp' = [tmp EXCEPT ![S(p)] = "none"]
          /\ late' = IF ~track /\ deletion = "unlink" THEN late \cup {S(p)} ELSE late
      BY <1>8, <2>1, <2>3, <1>d DEF Rename
    <3> QED BY <2>1, <2>3, <3>1 DEF FileChange, AddressChange
  <2> QED BY <2>2, <2>3
<1>9. CASE Retry(p)
  <2>1. /\ proc[p].at = "failed" /\ UNCHANGED <<track, prefetch, job, sem, deletion>>
        /\ UNCHANGED <<seg, tmp, dir, listing>> /\ direct' = FALSE /\ holders' = {}
    BY <1>9 DEF Retry, clearDirectURL, files
  <2>2. Moves(p, "exists") BY <1>0, <1>9, RetryMoves
  <2> QED BY <2>1, <2>2 DEF FileChange, AddressChange
<1> QED BY <1>1, <1>2, <1>3, <1>4, <1>5, <1>6, <1>7, <1>8, <1>9 DEF Generates

-----------------------------------------------------------------------------
(* STEPS THAT LEAVE PARTS OF THE INVARIANT ALONE                           *)

(* What TypeOK says of the other variables.                                *)
FilesOK ==
    /\ seg \in [Segments -> {"none", "partial", "whole"}]
    /\ tmp \in [Segments -> {"none", "partial", "whole"}]
    /\ dir \in BOOLEAN /\ \A s \in Segments : seg[s] # "none" \/ tmp[s] # "none" => dir
    /\ segsListed \subseteq Segments /\ tmpsListed \subseteq Segments /\ late \subseteq Segments
AddressOK ==
    /\ prefetch \in BOOLEAN
    /\ direct \in BOOLEAN /\ holders \subseteq Procs /\ (~direct => holders = {})
JobsOK ==
    /\ job \in [Segments -> Procs \cup {Nil}] /\ line \in Seq(Procs)
    /\ track \in BOOLEAN /\ deletion \in {"none", "list", "unlink"}

LEMMA TypeParts == TypeOK <=> ProcOK /\ FilesOK /\ AddressOK /\ JobsOK /\ others \in Nat
BY DEF TypeOK, ProcOK, FilesOK, AddressOK, JobsOK

FileInv == FilesOK /\ RenamesOwnFile /\ SegmentIsWhole /\ OnlyLateOrphans
AddressInv == AddressOK /\ HeldWhileUsed
JobInv == JobsOK /\ OneMaker
SlotInv == others \in Nat /\ SlotsAreShared

LEMMA InvParts == IInv <=> ProcOK /\ FileInv /\ AddressInv /\ JobInv /\ SlotInv
<1>1. HeldWhileUsed => RetryIsFresh BY DEF HeldWhileUsed, RetryIsFresh, At, Holding
<1> QED BY <1>1, TypeParts DEF IInv, HlsInv, FileInv, AddressInv, JobInv, SlotInv

LEMMA InvAfter ==
    ASSUME ProcOK', FileInv', AddressInv', JobInv', SlotInv' PROVE IInv'
<1>1. RetryIsFresh' BY DEF AddressInv, HeldWhileUsed, RetryIsFresh, At, Holding
<1>2. TypeOK' BY DEF TypeOK, ProcOK, FilesOK, AddressOK, JobsOK, FileInv, AddressInv, JobInv, SlotInv
<1> QED BY <1>1, <1>2 DEF IInv, HlsInv, FileInv, AddressInv, JobInv, SlotInv

(* Nobody comes to a rename, and the files stay.                           *)
LEMMA SameFiles ==
    ASSUME FileInv, UNCHANGED <<track, files, deletion>>,
           \A q \in Procs : proc'[q].at \in {"check", "rename"} => proc'[q] = proc[q]
    PROVE  FileInv'
<1>1. UNCHANGED <<seg, tmp, dir, segsListed, tmpsListed, late, track, deletion>>
  BY DEF files, listing
<1>2. FilesOK' /\ SegmentIsWhole' /\ OnlyLateOrphans'
  BY <1>1 DEF FileInv, FilesOK, SegmentIsWhole, OnlyLateOrphans
<1>3. RenamesOwnFile' BY <1>1 DEF FileInv, RenamesOwnFile, At, S
<1> QED BY <1>2, <1>3 DEF FileInv

(* Nobody who holds the address goes on to another attempt.                *)
LEMMA SameAddress ==
    ASSUME AddressInv, UNCHANGED <<direct, holders>>, prefetch' \in BOOLEAN,
           \A q \in Procs : proc[q].at \in Holding => proc'[q].at \in Holding
    PROVE  AddressInv'
BY DEF AddressInv, AddressOK, HeldWhileUsed

(* Nobody goes into the line, to a slot, to a job or out of one.           *)
LEMMA SameJobs ==
    ASSUME ProcOK, JobInv, UNCHANGED <<job, line>>, JobsOK',
           \A q \in Procs : proc[q].at \in Busy =>
              proc'[q].at \in Busy /\ S(q)' = S(q) /\ (At(q, "unjob")' => At(q, "unjob")),
           \A q \in Procs : proc'[q].at \in Busy => proc[q].at \in Busy,
           \A q \in Procs : At(q, "wait")' => At(q, "wait") /\ S(q)' = S(q)
    PROVE  JobInv'
<1>1. \A p \in Procs : proc'[p].at \in Busy => job'[S(p)'] = p BY DEF JobInv, OneMaker
<1>2. \A s \in Segments : job[s] # Nil => job[s] \in Procs BY DEF JobInv, JobsOK
<1>3. \A s \in Segments : job'[s] # Nil => proc'[job'[s]].at \in Busy /\ proc'[job'[s]].seg = s
  BY <1>2 DEF JobInv, OneMaker, S
<1>5. ASSUME NEW p \in Procs, At(p, "wait")'
      PROVE  job'[S(p)'] # Nil /\ proc'[job'[S(p)']].at # "unjob"
  <2>1. At(p, "wait") /\ S(p)' = S(p) BY <1>5
  <2>2. S(p) \in Segments BY <2>1 DEF ProcOK, At, S
  <2>3. job[S(p)] # Nil /\ ~At(job[S(p)], "unjob") BY <2>1 DEF JobInv, OneMaker
  <2>4. proc[job[S(p)]].at \in Busy /\ job[S(p)] \in Procs
    BY <1>2, <2>2, <2>3 DEF JobInv, OneMaker
  <2>5. proc'[job[S(p)]].at # "unjob" BY <2>3, <2>4 DEF At
  <2> QED BY <2>1, <2>3, <2>5
<1>6. OneMaker' BY <1>1, <1>3, <1>5 DEF OneMaker, At, S
<1> QED BY <1>6 DEF JobInv

LEMMA SameSlots ==
    ASSUME SlotInv, UNCHANGED sem,
           \A q \in Procs : At(q, "slot")' <=> At(q, "slot"),
           \A q \in Procs : proc'[q].at \in Making => proc[q].at \in Making
    PROVE  SlotInv'
<1> DEFINE M == {p \in Procs : proc[p].at \in Making}
           N == {p \in Procs : proc'[p].at \in Making}
<1>1. N \subseteq M /\ IsFiniteSet(M) BY ProcsType, FS_Subset
<1>2. Cardinality(N) <= Cardinality(M) /\ Cardinality(M) \in Nat /\ Cardinality(N) \in Nat
  <2>1. IsFiniteSet(N) BY <1>1, FS_Subset
  <2>2. Cardinality(N) <= Cardinality(M) BY <1>1, FS_Subset
  <2> QED BY <1>1, <2>1, <2>2, FS_CardinalityType
<1>3. /\ Cardinality(M) + others <= Slots /\ others \in Nat
      /\ others' = others /\ line' = line /\ N = Makers'
  BY DEF SlotInv, SlotsAreShared, Makers, sem
<1> HIDE DEF M, N
<1>4. Cardinality(N) + others' <= Slots BY <1>2, <1>3, HlsAssumption
<1> QED BY <1>3, <1>4 DEF SlotInv, SlotsAreShared

-----------------------------------------------------------------------------
(* generateHLSSegment                                                      *)

(* os.Remove of the directory forgets no name that is still there.         *)
LEMMA RemoveDirKeeps ==
    ASSUME FilesOK, NEW sg, NEW tm, RemoveDir(sg, tm),
           \A s \in Segments : sg[s] # "none" \/ tm[s] # "none" => dir
    PROVE  /\ dir' \in BOOLEAN /\ \A s \in Segments : sg[s] # "none" \/ tm[s] # "none" => dir'
           /\ segsListed' \subseteq Segments /\ tmpsListed' \subseteq Segments
           /\ \A s \in Segments : /\ sg[s] # "none" /\ s \in segsListed => s \in segsListed'
                                  /\ tm[s] # "none" /\ s \in tmpsListed => s \in tmpsListed'
BY DEF FilesOK, RemoveDir

LEMMA GeneratesFiles ==
    ASSUME ProcOK, FileInv, JobInv, NEW p \in Procs, proc[p].at \in Making,
           UNCHANGED <<track, deletion>>, NEW a \in Making, Moves(p, a), FileChange(p, a)
    PROVE  FileInv'
<1> DEFINE s == S(p)
           Owned(q) == ~track /\ deletion \in {"none", "unlink"} =>
                         tmp[S(q)] = "none" \/ (deletion = "unlink" /\ S(q) \in tmpsListed)
<1>1. s \in Segments /\ proc[p].at # "idle" BY DEF ProcOK, Making, S
<1>2. /\ proc'[p].at = a /\ S(p)' = s
      /\ \A q \in Procs : q # p => proc'[q] = proc[q] /\ S(q)' = S(q)
  BY DEF Moves, S, Making
<1>3. \A q \in Procs : q # p /\ proc[q].at \in {"check", "rename"} => S(q) # s /\ S(q) \in Segments
  BY <1>1 DEF JobInv, OneMaker, Busy, Making, ProcOK, S
<1>4. /\ \A q \in Procs : proc[q].at \in {"check", "rename"} => tmp[S(q)] # "partial"
      /\ \A q \in Procs : proc[q].at = "rename" => Owned(q)
      /\ SegmentIsWhole /\ OnlyLateOrphans /\ FilesOK
  BY DEF FileInv, RenamesOwnFile, At
<1> HIDE DEF s
<1> USE DEF listing
<1>5. CASE /\ UNCHANGED <<seg, tmp, listing>> /\ (UNCHANGED dir \/ dir' = TRUE)
           /\ a \notin {"check", "rename"}
  <2>a. dir \in BOOLEAN BY <1>4 DEF FilesOK
  <2>0. dir' \in BOOLEAN /\ (dir => dir')
    <3>1. CASE dir' = dir BY <2>a, <3>1
    <3>2. CASE dir' = TRUE BY <3>2
    <3> QED BY <1>5, <3>1, <3>2
  <2>1. FilesOK' BY <1>4, <1>5, <2>0 DEF FilesOK
  <2>2. SegmentIsWhole' /\ OnlyLateOrphans' BY <1>4, <1>5 DEF SegmentIsWhole, OnlyLateOrphans
  <2>3. RenamesOwnFile' BY <1>2, <1>4, <1>5 DEF RenamesOwnFile, At
  <2> QED BY <2>1, <2>2, <2>3 DEF FileInv
<1>6. CASE UNCHANGED files /\ track /\ At(p, "check") /\ a = "rename"
  <2>0. UNCHANGED <<seg, tmp, dir, segsListed, tmpsListed, late>> BY <1>6 DEF files
  <2>1. FilesOK' BY <1>4, <2>0 DEF FilesOK
  <2>2. SegmentIsWhole' /\ OnlyLateOrphans' BY <1>4, <2>0 DEF SegmentIsWhole, OnlyLateOrphans
  <2>3. RenamesOwnFile' BY <1>2, <1>4, <1>6, <2>0 DEF RenamesOwnFile, At, s
  <2> QED BY <2>1, <2>2, <2>3 DEF FileInv
<1>7. ASSUME NEW v \in {"none", "partial", "whole"}, tmp' = [tmp EXCEPT ![s] = v],
             a \in {"check", "rename"} => a = "check" /\ v # "partial",
             seg' \in [Segments -> {"none", "partial", "whole"}], dir' \in BOOLEAN,
             \A t \in Segments : seg'[t] # "none" \/ tmp'[t] # "none" => dir',
             segsListed' \subseteq Segments, tmpsListed' \subseteq Segments,
             late' \subseteq Segments,
             \A t \in Segments : tmp'[t] # "none" /\ t \in tmpsListed => t \in tmpsListed',
             SegmentIsWhole' /\ OnlyLateOrphans'
      PROVE  FileInv'
  <2>1. tmp' \in [Segments -> {"none", "partial", "whole"}] /\ tmp'[s] = v
        /\ \A t \in Segments : t # s => tmp'[t] = tmp[t]
    BY <1>1, <1>4, <1>7 DEF FilesOK
  <2>2. FilesOK' BY <1>7, <2>1 DEF FilesOK
  <2>3. RenamesOwnFile'
    <3> SUFFICES ASSUME NEW q \in Procs
                 PROVE  /\ proc'[q].at \in {"check", "rename"} => tmp'[S(q)'] # "partial"
                        /\ proc'[q].at = "rename" /\ ~track' /\ deletion' \in {"none", "unlink"} =>
                             tmp'[S(q)'] = "none"
                               \/ (deletion' = "unlink" /\ S(q)' \in tmpsListed')
      BY DEF RenamesOwnFile, At
    <3>1. CASE q = p BY <1>2, <1>7, <2>1, <3>1
    <3>2. CASE q # p BY <1>2, <1>3, <1>4, <1>7, <2>1, <3>2
    <3> QED BY <3>1, <3>2
  <2> QED BY <1>7, <2>2, <2>3 DEF FileInv
<1>8. CASE /\ dir /\ UNCHANGED <<seg, dir, listing>> /\ a = "ffmpeg"
           /\ tmp' = [tmp EXCEPT ![s] = "partial"]
  <2>1. SegmentIsWhole' /\ OnlyLateOrphans' BY <1>4, <1>8 DEF SegmentIsWhole, OnlyLateOrphans
  <2> QED BY <1>4, <1>7, <1>8, <2>1 DEF FilesOK
<1>9. CASE /\ UNCHANGED <<seg, dir, listing>> /\ a \in Returning
           /\ tmp' = [tmp EXCEPT ![s] = "none"]
  <2>1. SegmentIsWhole' /\ OnlyLateOrphans' BY <1>4, <1>9 DEF SegmentIsWhole, OnlyLateOrphans
  <2>2. \A t \in Segments : seg'[t] # "none" \/ tmp'[t] # "none" => dir'
    BY <1>1, <1>4, <1>9 DEF FilesOK
  <2> QED BY <1>4, <1>7, <1>9, <2>1, <2>2 DEF FilesOK, Returning
<1>10. CASE /\ UNCHANGED <<seg, dir, listing>> /\ a = "check"
            /\ tmp' = [tmp EXCEPT ![s] = IF @ = "none" THEN "none" ELSE "whole"]
  <2>1. SegmentIsWhole' /\ OnlyLateOrphans' BY <1>4, <1>10 DEF SegmentIsWhole, OnlyLateOrphans
  <2>2. \A t \in Segments : seg'[t] # "none" \/ tmp'[t] # "none" => dir'
    BY <1>1, <1>4, <1>10 DEF FilesOK
  <2>3. PICK v \in {"none", "whole"} : tmp' = [tmp EXCEPT ![s] = v] BY <1>10
  <2> QED BY <1>4, <1>7, <1>10, <2>1, <2>2, <2>3 DEF FilesOK
<1>11. CASE /\ UNCHANGED <<seg, late>> /\ a \in Returning
            /\ tmp' = [tmp EXCEPT ![s] = "none"]
            /\ RemoveDir(seg, [tmp EXCEPT ![s] = "none"])
  <2>0. \A t \in Segments : seg[t] # "none" \/ [tmp EXCEPT ![s] = "none"][t] # "none" => dir
    BY <1>1, <1>4 DEF FilesOK
  <2>1. /\ dir' \in BOOLEAN /\ \A t \in Segments : seg[t] # "none" \/ tmp'[t] # "none" => dir'
        /\ segsListed' \subseteq Segments /\ tmpsListed' \subseteq Segments
        /\ \A t \in Segments : /\ seg[t] # "none" /\ t \in segsListed => t \in segsListed'
                               /\ tmp'[t] # "none" /\ t \in tmpsListed => t \in tmpsListed'
    BY <1>4, <1>11, <2>0, RemoveDirKeeps
  <2>2. SegmentIsWhole' BY <1>4, <1>11 DEF SegmentIsWhole
  <2>3. OnlyLateOrphans' BY <1>4, <1>11, <2>1 DEF OnlyLateOrphans
  <2> QED BY <1>4, <1>7, <1>11, <2>1, <2>2, <2>3 DEF FilesOK, Returning
<1>12. CASE /\ At(p, "rename") /\ tmp[s] # "none" /\ a \in Returning
            /\ UNCHANGED <<dir, segsListed, tmpsListed>>
            /\ seg' = [seg EXCEPT ![s] = tmp[s]]
            /\ tmp' = [tmp EXCEPT ![s] = "none"]
            /\ late' = IF ~track /\ deletion = "unlink" THEN late \cup {s} ELSE late
  <2>1. tmp[s] = "whole" BY <1>1, <1>4, <1>12 DEF At, FilesOK, s
  <2>2. track \/ deletion # "none" BY <1>4, <1>12 DEF At, s
  <2>3. SegmentIsWhole' BY <1>1, <1>4, <1>12, <2>1 DEF SegmentIsWhole, FilesOK
  <2>4. \A t \in Segments : seg'[t] # "none" \/ tmp'[t] # "none" => dir'
    BY <1>1, <1>4, <1>12 DEF FilesOK
  <2>5. seg' \in [Segments -> {"none", "partial", "whole"}] /\ late' \subseteq Segments
        /\ \A t \in Segments : t # s => seg'[t] = seg[t]
    BY <1>1, <1>4, <1>12, <2>1 DEF FilesOK
  <2>6. OnlyLateOrphans'
    <3> SUFFICES ASSUME NEW t \in Segments, ~track, seg'[t] # "none"
                 PROVE  \/ deletion = "list" \/ t \in late'
                        \/ deletion = "unlink" /\ t \in segsListed
      BY <1>12 DEF OnlyLateOrphans
    <3>1. deletion \in {"list", "unlink"} BY <2>2 DEF JobInv, JobsOK
    <3>2. CASE t = s BY <1>12, <3>1, <3>2
    <3>3. CASE t # s BY <1>4, <1>12, <2>5, <3>3 DEF OnlyLateOrphans
    <3> QED BY <3>2, <3>3
  <2> QED BY <1>4, <1>7, <1>12, <2>3, <2>4, <2>5, <2>6 DEF FilesOK, Returning
<1> QED BY <1>5, <1>6, <1>8, <1>9, <1>10, <1>11, <1>12 DEF FileChange, s

LEMMA GeneratesStep ==
    ASSUME IInv, NEW p \in Procs, Generates(p)
    PROVE  IInv'
<1>0. ProcOK /\ FileInv /\ AddressInv /\ JobInv /\ SlotInv /\ TypeOK
  BY InvParts DEF IInv, HlsInv
<1>1. proc[p].at \in Making /\ UNCHANGED <<track, prefetch, job, line, sem, deletion>>
  BY <1>0, GeneratesEffect DEF sem
<1>2. PICK a \in Making : Moves(p, a) /\ FileChange(p, a) /\ AddressChange(p, a)
  BY <1>0, GeneratesEffect
<1>3. ProcOK' /\ proc'[p].at = a /\ S(p)' = S(p)
      /\ \A q \in Procs : q # p => proc'[q] = proc[q] /\ S(q)' = S(q)
  BY <1>2 DEF Moves, Making, S
<1>4. FileInv' BY <1>0, <1>1, <1>2, GeneratesFiles
<1>5. AddressInv'
  <2>0. AddressOK /\ HeldWhileUsed /\ prefetch' \in BOOLEAN
    BY <1>0, <1>1 DEF AddressInv, AddressOK
  <2>1. CASE UNCHANGED <<direct, holders>> /\ (proc[p].at \in Holding => a \in Holding)
    BY <1>0, <1>3, <2>0, <2>1, SameAddress
  <2>2. CASE direct' = TRUE /\ holders' \in {{p}, holders \cup {p}} /\ a \in Holding
    <3>1. AddressOK' BY <2>0, <2>2 DEF AddressOK
    <3>2. \A q \in holders' : q = p \/ q \in holders BY <2>2
    <3>3. HeldWhileUsed' BY <1>3, <2>0, <2>2, <3>2 DEF HeldWhileUsed, AddressOK
    <3> QED BY <3>1, <3>3 DEF AddressInv
  <2>3. CASE direct' = FALSE /\ holders' = {}
    <3>1. AddressOK' BY <2>0, <2>3 DEF AddressOK
    <3>2. HeldWhileUsed' BY <2>3 DEF HeldWhileUsed
    <3> QED BY <3>1, <3>2 DEF AddressInv
  <2> QED BY <1>2, <2>1, <2>2, <2>3 DEF AddressChange
<1>6. JobInv'
  <2>1. JobsOK' BY <1>0, <1>1 DEF JobInv, JobsOK
  <2> QED BY <1>0, <1>1, <1>2, <1>3, <2>1, SameJobs DEF Busy, Making, At
<1>7. SlotInv' BY <1>0, <1>1, <1>2, <1>3, SameSlots DEF At, Making
<1> QED BY <1>3, <1>4, <1>5, <1>6, <1>7, InvAfter

-----------------------------------------------------------------------------
(* THE OTHER STEPS OF REQUESTS AND WARMING GOROUTINES                      *)

(* Processes outside of generateHLSSegment come and go.                    *)
LEMMA OutsideStep ==
    ASSUME IInv, ProcOK', UNCHANGED <<track, address, files, job, sem, deletion>>,
           \A q \in Procs : \/ proc'[q] = proc[q]
                            \/ /\ proc[q].at \notin Busy
                               /\ proc'[q].at \in {"idle", "ensure", "serve"}
    PROVE  IInv'
<1>0. ProcOK /\ FileInv /\ AddressInv /\ JobInv /\ SlotInv BY InvParts
<1> USE DEF Busy, Making, Holding, At, S
<1>1. FileInv' BY <1>0, SameFiles
<1>2. AddressInv'
  <2>1. UNCHANGED <<direct, holders>> /\ prefetch' \in BOOLEAN
    BY <1>0 DEF address, AddressInv, AddressOK
  <2> QED BY <1>0, <2>1, SameAddress
<1>3. JobInv'
  <2>1. JobsOK' /\ line' = line BY <1>0 DEF JobInv, JobsOK, sem
  <2> QED BY <1>0, <2>1, SameJobs
<1>4. SlotInv' BY <1>0, SameSlots
<1> QED BY <1>1, <1>2, <1>3, <1>4, InvAfter

LEMMA RequestStep ==
    ASSUME IInv, NEW p \in Requests, NEW s \in Segments, serveHLSSegment(p, s)
    PROVE  IInv'
<1>0. ProcOK /\ p \in Procs BY InvParts DEF Procs
<1> DEFINE a == IF seg[s] = "none" THEN "ensure" ELSE "serve"
           y == [Idle EXCEPT !.seg = s, !.at = a]
<1>1. a \in {"ensure", "serve"} /\ a \in Places BY DEF Places
<1> HIDE DEF a
<1>2. y \in ProcStates BY <1>1, ProcTypes
<1>3. proc[p] \in ProcStates BY <1>0 DEF ProcOK
<1>4. y.at = a /\ y.seg = s BY <1>3, ProcFields
<1>5. proc' = [proc EXCEPT ![p] = y] /\ proc[p].at = "idle"
      /\ UNCHANGED <<track, address, files, job, sem, deletion>>
  BY DEF serveHLSSegment, a, At
<1> HIDE DEF y
<1>6. proc'[p] = y /\ \A q \in Procs : q # p => proc'[q] = proc[q]
  BY <1>0, <1>5 DEF ProcOK
<1>7. proc' \in [Procs -> ProcStates] BY <1>0, <1>2, <1>5 DEF ProcOK
<1>8. ProcOK' BY <1>0, <1>1, <1>4, <1>6, <1>7 DEF ProcOK
<1>9. proc[p].at \notin Busy BY <1>5 DEF Busy, Making
<1> QED BY <1>1, <1>4, <1>5, <1>6, <1>8, <1>9, OutsideStep

(* The line for a slot, longer by one.                                     *)
LEMMA LineGrows ==
    ASSUME SlotInv, line \in Seq(Procs), NEW p \in Procs, ~At(p, "slot"),
           line' = Append(line, p), others' = others, At(p, "slot")',
           \A q \in Procs : q # p => proc'[q] = proc[q],
           proc'[p].at \notin Making
    PROVE  SlotInv'
<1>1. Len(line) \in Nat /\ DOMAIN line = 1..Len(line) BY LenProperties
<1>2. /\ line' \in Seq(Procs) /\ Len(line') = Len(line) + 1
      /\ \A i \in 1..Len(line) : line'[i] = line[i] /\ line'[Len(line) + 1] = p
  BY AppendProperties
<1>3. DOMAIN line' = 1..(Len(line) + 1) /\ line'[Len(line) + 1] = p
  BY <1>1, <1>2, LenProperties, AppendProperties
<1>4. \A n \in DOMAIN line : line[n] # p BY DEF SlotInv, SlotsAreShared
<1>5. \A m, n \in DOMAIN line' : line'[m] = line'[n] => m = n
  BY <1>1, <1>2, <1>3, <1>4 DEF SlotInv, SlotsAreShared
<1>6. ASSUME NEW q \in Procs
      PROVE  At(q, "slot")' <=> q \in {line'[n] : n \in DOMAIN line'}
  <2>1. CASE q = p BY <1>1, <1>3, <2>1
  <2>2. CASE q # p
    <3>1. At(q, "slot")' <=> q \in {line[n] : n \in DOMAIN line}
      BY <2>2 DEF At, SlotInv, SlotsAreShared
    <3>2. q \in {line[n] : n \in DOMAIN line} => q \in {line'[n] : n \in DOMAIN line'}
      BY <1>1, <1>2, <1>3
    <3>3. q \in {line'[n] : n \in DOMAIN line'} => q \in {line[n] : n \in DOMAIN line}
      BY <1>1, <1>2, <1>3, <2>2
    <3> QED BY <3>1, <3>2, <3>3
  <2> QED BY <2>1, <2>2
<1> DEFINE M == {q \in Procs : proc[q].at \in Making}
           N == {q \in Procs : proc'[q].at \in Making}
<1>7. N \subseteq M /\ IsFiniteSet(M) BY ProcsType, FS_Subset
<1>8. Cardinality(N) <= Cardinality(M) /\ Cardinality(M) \in Nat /\ Cardinality(N) \in Nat
  <2>1. IsFiniteSet(N) BY <1>7, FS_Subset
  <2>2. Cardinality(N) <= Cardinality(M) BY <1>7, FS_Subset
  <2> QED BY <1>7, <2>1, <2>2, FS_CardinalityType
<1>9. Cardinality(M) + others <= Slots /\ others \in Nat /\ N = Makers'
  BY DEF SlotInv, SlotsAreShared, Makers
<1> HIDE DEF M, N
<1>10. Cardinality(N) + others' <= Slots BY <1>8, <1>9, HlsAssumption
<1> QED BY <1>5, <1>6, <1>9, <1>10 DEF SlotInv, SlotsAreShared

(* The first in the line gets a slot that is free.                         *)
LEMMA LineShrinks ==
    ASSUME SlotInv, line \in Seq(Procs), NEW p \in Procs, At(p, "slot"), p = Head(line),
           IsFree, line' = Tail(line), others' = others, ~At(p, "slot")',
           \A q \in Procs : q # p => proc'[q] = proc[q]
    PROVE  SlotInv'
<1>1. Len(line) \in Nat /\ DOMAIN line = 1..Len(line) BY LenProperties
<1>2. line # <<>>
  <2>1. PICK n \in DOMAIN line : line[n] = p BY DEF SlotInv, SlotsAreShared
  <2> QED BY <1>1, <2>1, EmptySeq
<1>3. /\ p = line[1] /\ line' \in Seq(Procs) /\ Len(line') = Len(line) - 1
      /\ \A i \in 1..Len(line') : line'[i] = line[i + 1]
  BY <1>2, HeadTailProperties
<1>4. DOMAIN line' = 1..(Len(line) - 1) /\ Len(line) >= 1
  <2>1. Len(line) # 0 BY <1>2, EmptySeq
  <2> QED BY <1>1, <1>3, <2>1, LenProperties
<1>5. \A m, n \in DOMAIN line' : line'[m] = line'[n] => m = n
  BY <1>1, <1>3, <1>4 DEF SlotInv, SlotsAreShared
<1>6. ASSUME NEW q \in Procs
      PROVE  At(q, "slot")' <=> q \in {line'[n] : n \in DOMAIN line'}
  <2>1. CASE q = p
    <3>1. \A n \in DOMAIN line' : line'[n] # p
      BY <1>1, <1>3, <1>4 DEF SlotInv, SlotsAreShared
    <3> QED BY <2>1, <3>1
  <2>2. CASE q # p
    <3>1. At(q, "slot")' <=> q \in {line[n] : n \in DOMAIN line}
      BY <2>2 DEF At, SlotInv, SlotsAreShared
    <3>2. ASSUME NEW n \in DOMAIN line, line[n] = q PROVE \E m \in DOMAIN line' : line'[m] = q
      <4>1. n - 1 \in DOMAIN line' /\ line'[n - 1] = q BY <1>1, <1>3, <1>4, <2>2, <3>2
      <4> QED BY <4>1
    <3>3. ASSUME NEW n \in DOMAIN line', line'[n] = q PROVE \E m \in DOMAIN line : line[m] = q
      <4>1. n + 1 \in DOMAIN line /\ line[n + 1] = q BY <1>1, <1>3, <1>4, <3>3
      <4> QED BY <4>1
    <3> QED BY <3>1, <3>2, <3>3
  <2> QED BY <2>1, <2>2
<1> DEFINE M == {q \in Procs : proc[q].at \in Making}
           N == {q \in Procs : proc'[q].at \in Making}
<1>7. N \subseteq M \cup {p} /\ IsFiniteSet(M) BY ProcsType, FS_Subset
<1>8. Cardinality(M) + others < Slots /\ others \in Nat /\ N = Makers'
  BY DEF IsFree, Makers, SlotInv
<1>9. Cardinality(N) + others' <= Slots
  <2>0. p \notin M BY DEF At, Making
  <2> HIDE DEF M, N
  <2>1. IsFiniteSet(M \cup {p}) /\ Cardinality(M \cup {p}) = Cardinality(M) + 1
    BY <1>7, <2>0, FS_AddElement
  <2>2. IsFiniteSet(N) /\ Cardinality(N) <= Cardinality(M \cup {p}) BY <1>7, <2>1, FS_Subset
  <2>3. Cardinality(M) \in Nat /\ Cardinality(N) \in Nat BY <1>7, <2>2, FS_CardinalityType
  <2> QED BY <1>8, <2>1, <2>2, <2>3, HlsAssumption
<1> HIDE DEF M, N
<1> QED BY <1>5, <1>6, <1>8, <1>9 DEF SlotInv, SlotsAreShared

LEMMA EnsureStep ==
    ASSUME IInv, NEW p \in Procs, ensureHLSSegment(p)
    PROVE  IInv'
<1>0. ProcOK /\ FileInv /\ AddressInv /\ JobInv /\ SlotInv BY InvParts
<1>1. proc[p].at = "ensure" /\ UNCHANGED <<track, address, files, deletion>>
      /\ UNCHANGED <<direct, holders>> /\ prefetch' \in BOOLEAN
  BY <1>0 DEF ensureHLSSegment, At, address, AddressInv, AddressOK
<1>2. S(p) \in Segments /\ proc[p].at \notin Busy \cup Holding /\ proc[p].at # "idle"
  BY <1>0, <1>1 DEF ProcOK, S, Busy, Making, Holding
<1>3. ASSUME NEW ok, Return(p, ok), UNCHANGED <<job, sem>> PROVE IInv'
  <2>1. PICK a \in {"idle", "serve"} : Moves(p, a) BY <1>0, <1>2, <1>3, ReturnMoves
  <2>2. ProcOK' /\ proc'[p].at = a /\ \A q \in Procs : q # p => proc'[q] = proc[q]
    BY <2>1 DEF Moves
  <2>3. \A q \in Procs : proc'[q] = proc[q]
          \/ (proc[q].at \notin Busy /\ proc'[q].at \in {"idle", "ensure", "serve"})
    BY <1>2, <2>2
  <2> QED BY <1>1, <1>3, <2>2, <2>3, OutsideStep
<1>4. ASSUME NEW a \in {"wait", "slot"}, Go(p, a)
      PROVE  /\ ProcOK' /\ proc'[p].at = a /\ S(p)' = S(p) /\ FileInv' /\ AddressInv'
             /\ \A q \in Procs : q # p => proc'[q] = proc[q] /\ S(q)' = S(q)
  <2>1. proc' = [proc EXCEPT ![p].at = a, ![p].ctx = "none"] BY <1>4 DEF Go
  <2>2. a \in Places \ {"idle", "failed"} BY DEF Places
  <2>3. Moves(p, a) BY <1>0, <1>2, <2>1, <2>2, GoMoves
  <2>4. ProcOK' /\ proc'[p].at = a /\ S(p)' = S(p)
        /\ \A q \in Procs : q # p => proc'[q] = proc[q] /\ S(q)' = S(q)
    BY <2>3 DEF Moves, S
  <2>5. FileInv' BY <1>0, <1>1, <2>4, SameFiles
  <2>6. AddressInv' BY <1>0, <1>1, <1>2, <2>4, SameAddress
  <2> QED BY <2>4, <2>5, <2>6
<1>5. CASE /\ job[S(p)] # Nil /\ ~At(job[S(p)], "unjob") /\ Go(p, "wait")
           /\ UNCHANGED <<job, sem>>
  <2>1. /\ ProcOK' /\ proc'[p].at = "wait" /\ S(p)' = S(p) /\ FileInv' /\ AddressInv'
        /\ \A q \in Procs : q # p => proc'[q] = proc[q] /\ S(q)' = S(q)
    BY <1>4, <1>5
  <2>2. job \in [Segments -> Procs \cup {Nil}] BY <1>0 DEF JobInv, JobsOK
  <2>3. \A s \in Segments : job[s] # Nil => job[s] # p
    BY <1>0, <1>2, <2>2 DEF JobInv, OneMaker
  <2>4. \A q \in Procs : proc'[q].at \in Busy => job'[S(q)'] = q
    BY <1>0, <1>5, <2>1 DEF JobInv, OneMaker, Busy, Making
  <2>5. \A s \in Segments : job'[s] # Nil =>
          proc'[job'[s]].at \in Busy /\ proc'[job'[s]].seg = s
    BY <1>0, <1>5, <2>1, <2>2, <2>3 DEF JobInv, OneMaker, S
  <2>6. ASSUME NEW q \in Procs, proc'[q].at = "wait"
        PROVE  job'[S(q)'] # Nil /\ proc'[job'[S(q)']].at # "unjob"
    <3>1. S(q) \in Segments /\ S(q)' = S(q) BY <1>0, <1>2, <2>1, <2>6 DEF ProcOK, S
    <3>2. job[S(q)] # Nil /\ proc[job[S(q)]].at # "unjob"
      BY <1>0, <1>5, <2>1, <2>6 DEF JobInv, OneMaker, At
    <3>3. job[S(q)] \in Procs /\ job[S(q)] # p BY <2>2, <2>3, <3>1, <3>2
    <3> QED BY <1>5, <2>1, <3>1, <3>2, <3>3
  <2>7. OneMaker' BY <2>4, <2>5, <2>6 DEF OneMaker, At, S
  <2>8. JobInv' BY <1>0, <1>1, <1>5, <2>7 DEF JobInv, JobsOK, sem
  <2>9. SlotInv' BY <1>0, <1>1, <1>5, <2>1, SameSlots DEF At, Making
  <2> QED BY <2>1, <2>8, <2>9, InvAfter
<1>6. CASE job[S(p)] = Nil /\ GetInLine(p)
  <2>0. job' = [job EXCEPT ![S(p)] = p] /\ line' = Append(line, p) /\ Go(p, "slot")
        /\ others' = others
    BY <1>6 DEF GetInLine
  <2>1. /\ ProcOK' /\ proc'[p].at = "slot" /\ S(p)' = S(p) /\ FileInv' /\ AddressInv'
        /\ \A q \in Procs : q # p => proc'[q] = proc[q] /\ S(q)' = S(q)
    BY <1>4, <2>0
  <2>2. /\ job \in [Segments -> Procs \cup {Nil}] /\ line \in Seq(Procs)
        /\ \A s \in Segments : job[s] # Nil => job[s] \in Procs
    BY <1>0 DEF JobInv, JobsOK
  <2>3. /\ job' \in [Segments -> Procs \cup {Nil}] /\ line' \in Seq(Procs)
        /\ job'[S(p)] = p /\ \A s \in Segments : s # S(p) => job'[s] = job[s]
    BY <1>2, <2>0, <2>2, AppendProperties
  <2>4. \A q \in Procs : q # p /\ proc[q].at \in Busy \cup {"wait"} =>
          S(q) \in Segments /\ S(q) # S(p)
    <3> SUFFICES ASSUME NEW q \in Procs, proc[q].at \in Busy \cup {"wait"}
                 PROVE  S(q) \in Segments /\ S(q) # S(p)
      OBVIOUS
    <3>1. S(q) \in Segments BY <1>0 DEF ProcOK, S, Busy, Making
    <3>2. job[S(q)] # Nil BY <1>0, ProcsType DEF JobInv, OneMaker, At
    <3> QED BY <1>6, <3>1, <3>2
  <2>5. \A q \in Procs : proc'[q].at \in Busy => job'[S(q)'] = q
    BY <1>0, <2>1, <2>3, <2>4 DEF JobInv, OneMaker
  <2>6. \A s \in Segments : job[s] # Nil => job[s] # p
    BY <1>0, <1>2, <2>2 DEF JobInv, OneMaker
  <2>7. ASSUME NEW s \in Segments, job'[s] # Nil
        PROVE  proc'[job'[s]].at \in Busy /\ proc'[job'[s]].seg = s
    <3>1. CASE s = S(p) BY <2>1, <2>3, <3>1 DEF Busy, S
    <3>2. CASE s # S(p)
      <4>1. job'[s] = job[s] /\ job[s] \in Procs /\ job[s] # p BY <2>2, <2>3, <2>6, <2>7, <3>2
      <4>2. proc[job[s]].at \in Busy /\ proc[job[s]].seg = s BY <1>0, <2>7, <4>1 DEF JobInv, OneMaker, S
      <4> QED BY <2>1, <4>1, <4>2
    <3> QED BY <3>1, <3>2
  <2>8. ASSUME NEW q \in Procs, proc'[q].at = "wait"
        PROVE  job'[S(q)'] # Nil /\ proc'[job'[S(q)']].at # "unjob"
    <3>1. q # p /\ proc[q].at = "wait" /\ S(q)' = S(q) BY <2>1, <2>8
    <3>2. S(q) \in Segments /\ S(q) # S(p) BY <2>4, <3>1
    <3>3. job[S(q)] # Nil /\ proc[job[S(q)]].at # "unjob"
      BY <1>0, <3>1 DEF JobInv, OneMaker, At
    <3>4. job[S(q)] \in Procs /\ job[S(q)] # p /\ job'[S(q)] = job[S(q)]
      BY <2>2, <2>3, <2>6, <3>2, <3>3
    <3> QED BY <2>1, <3>1, <3>3, <3>4
  <2>9. OneMaker' BY <2>5, <2>7, <2>8 DEF OneMaker, At, S
  <2>10. JobInv' BY <1>0, <1>1, <2>3, <2>9 DEF JobInv, JobsOK
  <2>11. SlotInv'
    <3>1. ~At(p, "slot") /\ At(p, "slot")' /\ proc'[p].at \notin Making
      BY <1>1, <2>1 DEF At, Making
    <3> QED BY <1>0, <2>0, <2>1, <2>2, <3>1, LineGrows
  <2> QED BY <2>1, <2>10, <2>11, InvAfter
<1> QED BY <1>3, <1>5, <1>6 DEF ensureHLSSegment

LEMMA TakeSlotStep ==
    ASSUME IInv, NEW p \in Procs, TakeSlot(p)
    PROVE  IInv'
<1>0. ProcOK /\ FileInv /\ AddressInv /\ JobInv /\ SlotInv BY InvParts
<1>1. /\ proc[p].at = "slot" /\ UNCHANGED <<track, direct, holders, files, job, others, deletion>>
      /\ proc' = [proc EXCEPT ![p].at = "exists", ![p].ctx = "none"]
      /\ line' = Tail(line) /\ p = Head(line)
      /\ IsFree /\ prefetch' \in BOOLEAN
  BY <1>0 DEF TakeSlot, At, Go, address, AddressInv, AddressOK
<1>2. Moves(p, "exists")
  <2>1. "exists" \in Places \ {"idle", "failed"} /\ proc[p].at # "idle" BY <1>1 DEF Places
  <2> QED BY <1>0, <1>1, <2>1, GoMoves
<1>3. ProcOK' /\ proc'[p].at = "exists" /\ S(p)' = S(p)
      /\ \A q \in Procs : q # p => proc'[q] = proc[q] /\ S(q)' = S(q)
  BY <1>2 DEF Moves, S
<1>4. FileInv' BY <1>0, <1>1, <1>3, SameFiles
<1>5. AddressInv' BY <1>0, <1>1, <1>3, SameAddress DEF Holding
<1>6. SlotInv'
  <2>1. At(p, "slot") /\ ~At(p, "slot")' /\ line \in Seq(Procs)
    BY <1>0, <1>1, <1>3 DEF At, JobInv, JobsOK
  <2> QED BY <1>0, <1>1, <1>3, <2>1, LineShrinks
<1>7. JobInv'
  <2>1. line # <<>>
    <3>1. PICK n \in DOMAIN line : line[n] = p
      BY <1>0, <1>1 DEF At, SlotInv, SlotsAreShared
    <3> QED BY <3>1
  <2>2. line' \in Seq(Procs) BY <1>0, <1>1, <2>1, HeadTailProperties DEF JobInv, JobsOK
  <2>3. job \in [Segments -> Procs \cup {Nil}] /\ JobsOK' BY <1>0, <1>1, <2>2 DEF JobInv, JobsOK
  <2>4. \A q \in Procs : proc'[q].at \in Busy => job'[S(q)'] = q
    BY <1>0, <1>1, <1>3 DEF JobInv, OneMaker, Busy
  <2>5. \A s \in Segments : job'[s] # Nil =>
          proc'[job'[s]].at \in Busy /\ proc'[job'[s]].seg = s
    <3> SUFFICES ASSUME NEW s \in Segments, job[s] # Nil
                 PROVE  proc'[job[s]].at \in Busy /\ proc'[job[s]].seg = s
      BY <1>1
    <3>1. job[s] \in Procs BY <2>3
    <3>2. proc[job[s]].at \in Busy /\ proc[job[s]].seg = s BY <1>0 DEF JobInv, OneMaker, S
    <3>3. "exists" \in Busy /\ proc'[p].seg = proc[p].seg BY <1>3 DEF Busy, Making, S
    <3> QED BY <1>3, <3>1, <3>2, <3>3
  <2>6. ASSUME NEW q \in Procs, proc'[q].at = "wait"
        PROVE  job'[S(q)'] # Nil /\ proc'[job'[S(q)']].at # "unjob"
    <3>1. proc[q].at = "wait" /\ S(q)' = S(q) /\ S(q) \in Segments
      BY <1>0, <1>3, <2>6 DEF ProcOK, S
    <3>2. job[S(q)] # Nil /\ proc[job[S(q)]].at # "unjob"
      BY <1>0, <3>1 DEF JobInv, OneMaker, At
    <3>3. job[S(q)] \in Procs BY <2>3, <3>1, <3>2
    <3> QED BY <1>1, <1>3, <3>1, <3>2, <3>3
  <2>7. OneMaker' BY <2>4, <2>5, <2>6 DEF OneMaker, At, S
  <2> QED BY <2>3, <2>7 DEF JobInv
<1> QED BY <1>3, <1>4, <1>5, <1>6, <1>7, InvAfter

LEMMA DoneStep ==
    ASSUME IInv, NEW p \in Procs, Done(p)
    PROVE  IInv'
<1>0. ProcOK /\ FileInv /\ AddressInv /\ JobInv /\ SlotInv BY InvParts
<1> DEFINE y == [proc[p] EXCEPT !.at = "unjob"]
<1>1. /\ proc[p].at = "done" /\ UNCHANGED <<track, direct, prefetch, files, job, line, sem, deletion>>
      /\ holders' = holders \ {p}
      /\ proc' = [q \in Procs |-> IF q = p THEN y
                                  ELSE IF Waits(p, q) THEN Returned(q, proc[p].ok)
                                  ELSE proc[q]]
  BY DEF Done, At, sem
<1>2. /\ y \in ProcStates /\ y.at = "unjob" /\ y.seg = S(p)
      /\ S(p) \in Segments /\ job[S(p)] = p
  <2>1. proc[p] \in ProcStates BY <1>0 DEF ProcOK
  <2>2. y \in ProcStates BY <2>1, ProcTypes DEF Places
  <2>3. y.at = "unjob" /\ y.seg = S(p) BY <2>1, ProcFields DEF S
  <2>4. S(p) \in Segments /\ job[S(p)] = p
    BY <1>0, <1>1 DEF JobInv, OneMaker, ProcOK, Busy, Making, S
  <2> QED BY <2>2, <2>3, <2>4
<1> HIDE DEF y
<1>3. \A q \in Procs : Waits(p, q) =>
        /\ proc[q].at = "wait" /\ q # p /\ S(q) = S(p)
        /\ Returned(q, proc[p].ok) \in ProcStates
        /\ Returned(q, proc[p].ok).at \in {"idle", "serve"}
        /\ Returned(q, proc[p].ok).at = "serve" => Returned(q, proc[p].ok).seg = proc[q].seg
  BY <1>0, <1>1, ReturnedType DEF Waits, At
<1>4. /\ proc'[p] = y
      /\ \A q \in Procs : q # p /\ Waits(p, q) => proc'[q] = Returned(q, proc[p].ok)
      /\ \A q \in Procs : q # p /\ ~Waits(p, q) => proc'[q] = proc[q]
  BY <1>1
<1>5. ProcOK'
  <2>1. \A q \in Procs : proc'[q] \in ProcStates BY <1>0, <1>2, <1>3, <1>4 DEF ProcOK
  <2>2. proc' \in [Procs -> ProcStates] BY <1>1, <2>1
  <2>3. ASSUME NEW q \in Procs
        PROVE  /\ proc'[q].at # "idle" => proc'[q].seg \in Segments
               /\ proc'[q].at = "failed" => proc'[q].attempt = 1
    <3>1. CASE q = p BY <1>2, <1>4, <3>1
    <3>2. CASE q # p /\ Waits(p, q) BY <1>0, <1>3, <1>4, <3>2 DEF ProcOK
    <3>3. CASE q # p /\ ~Waits(p, q) BY <1>0, <1>4, <3>3 DEF ProcOK
    <3> QED BY <3>1, <3>2, <3>3
  <2> QED BY <2>2, <2>3 DEF ProcOK
<1>6. FileInv'
  <2>1. \A q \in Procs : proc'[q].at \in {"check", "rename"} => proc'[q] = proc[q]
    BY <1>2, <1>3, <1>4
  <2> QED BY <1>0, <1>1, <2>1, SameFiles
<1>7. AddressInv'
  <2>1. AddressOK' BY <1>0, <1>1 DEF AddressInv, AddressOK
  <2>2. HeldWhileUsed'
    BY <1>0, <1>1, <1>3, <1>4 DEF AddressInv, AddressOK, HeldWhileUsed, Holding
  <2> QED BY <2>1, <2>2 DEF AddressInv
<1>8. SlotInv'
  <2>1. \A q \in Procs : At(q, "slot")' <=> At(q, "slot") BY <1>1, <1>2, <1>3, <1>4 DEF At
  <2>2. \A q \in Procs : proc'[q].at \in Making => proc[q].at \in Making
    BY <1>1, <1>2, <1>3, <1>4 DEF Making
  <2> QED BY <1>0, <1>1, <2>1, <2>2, SameSlots
<1>9. JobInv'
  <2>1. job \in [Segments -> Procs \cup {Nil}] /\ JobsOK' BY <1>0, <1>1 DEF JobInv, JobsOK
  <2>2. \A q \in Procs : proc'[q].at \in Busy => proc[q].at \in Busy /\ proc'[q].seg = S(q)
    BY <1>1, <1>2, <1>3, <1>4 DEF Busy, Making, S
  <2>3. \A q \in Procs : proc[q].at \in Busy => proc'[q].at \in Busy /\ proc'[q].seg = S(q)
    BY <1>1, <1>2, <1>3, <1>4 DEF Busy, Making, S
  <2>4. \A q \in Procs : proc'[q].at \in Busy => job'[S(q)'] = q
    BY <1>0, <1>1, <2>2 DEF JobInv, OneMaker, S
  <2>5. \A s \in Segments : job'[s] # Nil =>
          proc'[job'[s]].at \in Busy /\ proc'[job'[s]].seg = s
    BY <1>0, <1>1, <2>1, <2>3 DEF JobInv, OneMaker
  <2>6. ASSUME NEW q \in Procs, proc'[q].at = "wait"
        PROVE  job'[S(q)'] # Nil /\ proc'[job'[S(q)']].at # "unjob"
    <3>1. proc[q].at = "wait" /\ S(q)' = S(q) /\ S(q) \in Segments /\ S(q) # S(p)
      BY <1>0, <1>2, <1>3, <1>4, <2>6 DEF ProcOK, S, Waits, At
    <3>2. job[S(q)] # Nil /\ proc[job[S(q)]].at # "unjob"
      BY <1>0, <3>1 DEF JobInv, OneMaker, At
    <3>3. job[S(q)] \in Procs /\ job[S(q)] # p /\ proc[job[S(q)]].at \in Busy
      BY <1>0, <2>1, <3>1, <3>2 DEF JobInv, OneMaker
    <3>4. ~Waits(p, job[S(q)]) BY <3>3 DEF Waits, At, Busy, Making
    <3> QED BY <1>1, <1>4, <3>1, <3>2, <3>3, <3>4
  <2>7. OneMaker' BY <2>4, <2>5, <2>6 DEF OneMaker, At, S
  <2> QED BY <2>1, <2>7 DEF JobInv
<1> QED BY <1>5, <1>6, <1>7, <1>8, <1>9, InvAfter

LEMMA UnjobStep ==
    ASSUME IInv, NEW p \in Procs, Unjob(p)
    PROVE  IInv'
<1>0. ProcOK /\ FileInv /\ AddressInv /\ JobInv /\ SlotInv BY InvParts
<1>1. /\ proc[p].at = "unjob" /\ UNCHANGED <<track, direct, holders, files, line, sem, deletion>>
      /\ job' = [job EXCEPT ![S(p)] = Nil] /\ Return(p, proc[p].ok)
      /\ prefetch' \in BOOLEAN
  BY <1>0 DEF Unjob, At, address, sem, AddressInv, AddressOK
<1>2. PICK a \in {"idle", "serve"} : Moves(p, a) BY <1>0, <1>1, ReturnMoves
<1>3. ProcOK' /\ proc'[p].at = a
      /\ \A q \in Procs : q # p => proc'[q] = proc[q] /\ S(q)' = S(q)
  BY <1>2 DEF Moves, S
<1>4. FileInv' BY <1>0, <1>1, <1>3, SameFiles
<1>5. AddressInv' BY <1>0, <1>1, <1>3, SameAddress DEF Holding
<1>6. SlotInv' BY <1>0, <1>1, <1>3, SameSlots DEF At, Making
<1>7. JobInv'
  <2>1. S(p) \in Segments /\ job[S(p)] = p /\ job \in [Segments -> Procs \cup {Nil}]
    BY <1>0, <1>1 DEF JobInv, JobsOK, OneMaker, ProcOK, S, Busy
  <2>2. /\ job' \in [Segments -> Procs \cup {Nil}] /\ job'[S(p)] = Nil
        /\ \A s \in Segments : s # S(p) => job'[s] = job[s]
    BY <1>1, <2>1
  <2>3. JobsOK' BY <1>0, <1>1, <2>2 DEF JobInv, JobsOK
  <2>4. ASSUME NEW q \in Procs, proc'[q].at \in Busy PROVE job'[S(q)'] = q
    <3>1. q # p /\ proc[q].at \in Busy /\ S(q)' = S(q) BY <1>3, <2>4 DEF Busy, Making
    <3>2. job[S(q)] = q /\ S(q) \in Segments
      BY <1>0, <3>1 DEF JobInv, OneMaker, ProcOK, S, Busy, Making
    <3> QED BY <2>1, <2>2, <3>1, <3>2
  <2>5. ASSUME NEW s \in Segments, job'[s] # Nil
        PROVE  proc'[job'[s]].at \in Busy /\ proc'[job'[s]].seg = s
    <3>1. s # S(p) /\ job'[s] = job[s] /\ job[s] \in Procs BY <2>1, <2>2, <2>5
    <3>2. proc[job[s]].at \in Busy /\ S(job[s]) = s BY <1>0, <2>5, <3>1 DEF JobInv, OneMaker
    <3>3. job[s] # p BY <3>1, <3>2
    <3> QED BY <1>3, <3>1, <3>2, <3>3 DEF S
  <2>6. ASSUME NEW q \in Procs, proc'[q].at = "wait"
        PROVE  job'[S(q)'] # Nil /\ proc'[job'[S(q)']].at # "unjob"
    <3>1. q # p /\ proc[q].at = "wait" /\ S(q)' = S(q) BY <1>3, <2>6
    <3>2. S(q) \in Segments BY <1>0, <3>1 DEF ProcOK, S
    <3>3. job[S(q)] # Nil /\ proc[job[S(q)]].at # "unjob"
      BY <1>0, <3>1 DEF JobInv, OneMaker, At
    <3>4. S(q) # S(p) /\ job[S(q)] \in Procs /\ job[S(q)] # p
      BY <1>1, <2>1, <3>2, <3>3
    <3> QED BY <1>3, <2>2, <3>1, <3>2, <3>3, <3>4
  <2>7. OneMaker' BY <2>4, <2>5, <2>6 DEF OneMaker, At, S
  <2> QED BY <2>3, <2>7 DEF JobInv
<1> QED BY <1>3, <1>4, <1>5, <1>6, <1>7, InvAfter

LEMMA ServeStep ==
    ASSUME IInv, NEW p \in Procs, Serve(p)
    PROVE  IInv'
<1>0. ProcOK BY InvParts
<1> DEFINE W == warmHLSSegments(S(p))
           y(q) == [Idle EXCEPT !.at = "ensure", !.seg = q]
<1>1. /\ proc[p].at = "serve"
      /\ UNCHANGED <<track, address, files, job, sem, deletion>>
      /\ proc' = [q \in Procs |-> IF q = p THEN Idle ELSE IF q \in W THEN y(q) ELSE proc[q]]
  BY DEF Serve, At
<1>2. \A q \in W : q \in Segments /\ proc[q].at = "idle" BY DEF warmHLSSegments, At
<1>3. Idle \in ProcStates /\ Idle.at = "idle" BY ProcTypes DEF Idle
<1>4. \A q \in Segments : y(q) \in ProcStates BY ProcTypes DEF Places
<1>5. \A q \in Segments : y(q).at = "ensure" /\ y(q).seg = q BY <1>3, ProcFields
<1> HIDE DEF W, y
<1>6. /\ proc'[p] = Idle
      /\ \A q \in Procs : q # p /\ q \in W => proc'[q] = y(q)
      /\ \A q \in Procs : q # p /\ q \notin W => proc'[q] = proc[q]
  BY <1>1
<1>7. ProcOK'
  <2>1. \A q \in Procs : proc'[q] \in ProcStates BY <1>0, <1>2, <1>3, <1>4, <1>6 DEF ProcOK
  <2>2. proc' \in [Procs -> ProcStates] BY <1>1, <2>1
  <2>3. ASSUME NEW q \in Procs
        PROVE  /\ proc'[q].at # "idle" => proc'[q].seg \in Segments
               /\ proc'[q].at = "failed" => proc'[q].attempt = 1
    <3>1. CASE q = p BY <1>3, <1>6, <3>1
    <3>2. CASE q # p /\ q \in W BY <1>2, <1>5, <1>6, <3>2
    <3>3. CASE q # p /\ q \notin W BY <1>0, <1>6, <3>3 DEF ProcOK
    <3> QED BY <3>1, <3>2, <3>3
  <2> QED BY <2>2, <2>3 DEF ProcOK
<1>8. \A q \in Procs : proc'[q] = proc[q]
        \/ (proc[q].at \notin Busy /\ proc'[q].at \in {"idle", "ensure", "serve"})
  BY <1>1, <1>2, <1>3, <1>5, <1>6 DEF Busy, Making
<1> QED BY <1>1, <1>7, <1>8, OutsideStep

-----------------------------------------------------------------------------
(* DELETION AND A NEW ENQUEUE                                              *)

LEMMA DeleteStep ==
    ASSUME IInv, Delete
    PROVE  IInv'
<1>0. ProcOK /\ FileInv /\ AddressInv /\ JobInv /\ SlotInv BY InvParts
<1> DEFINE y(p) == [proc[p] EXCEPT !.ctx = "done"]
<1>1. /\ track' = FALSE /\ direct' = FALSE /\ holders' = {} /\ deletion' = "list"
      /\ UNCHANGED <<seg, tmp, dir, segsListed, tmpsListed, late, prefetch, job, line, sem>>
      /\ proc' = [p \in Procs |-> IF proc[p].ctx = "live" THEN y(p) ELSE proc[p]]
  BY DEF Delete, files, listing, sem
<1>2. \A p \in Procs : /\ y(p) \in ProcStates /\ y(p).at = proc[p].at
                       /\ y(p).seg = proc[p].seg /\ y(p).attempt = proc[p].attempt
  <2> TAKE p \in Procs
  <2>1. proc[p] \in ProcStates BY <1>0 DEF ProcOK
  <2>2. y(p) \in ProcStates BY <2>1, ProcTypes
  <2>3. y(p).at = proc[p].at /\ y(p).seg = proc[p].seg /\ y(p).attempt = proc[p].attempt
    BY <2>1, ProcFields
  <2> QED BY <2>2, <2>3
<1> HIDE DEF y
<1>3. \A p \in Procs : /\ proc'[p] \in ProcStates /\ proc'[p].at = proc[p].at
                       /\ proc'[p].seg = proc[p].seg /\ proc'[p].attempt = proc[p].attempt
  BY <1>0, <1>1, <1>2 DEF ProcOK
<1>4. ProcOK'
  <2>1. proc' \in [Procs -> ProcStates] BY <1>1, <1>3
  <2> QED BY <1>0, <1>3, <2>1 DEF ProcOK
<1>5. FileInv'
  <2>1. FilesOK' /\ SegmentIsWhole' /\ OnlyLateOrphans'
    BY <1>0, <1>1 DEF FileInv, FilesOK, SegmentIsWhole, OnlyLateOrphans
  <2>2. RenamesOwnFile' BY <1>0, <1>1, <1>3 DEF FileInv, RenamesOwnFile, At, S
  <2> QED BY <2>1, <2>2 DEF FileInv
<1>6. AddressInv'
  <2>1. AddressOK' BY <1>0, <1>1 DEF AddressInv, AddressOK
  <2>2. HeldWhileUsed' BY <1>1 DEF HeldWhileUsed
  <2> QED BY <2>1, <2>2 DEF AddressInv
<1>7. JobInv'
  <2>1. JobsOK' BY <1>0, <1>1 DEF JobInv, JobsOK
  <2> QED BY <1>0, <1>1, <1>3, <2>1, SameJobs DEF At, S
<1>8. SlotInv' BY <1>0, <1>1, <1>3, SameSlots DEF At
<1> QED BY <1>4, <1>5, <1>6, <1>7, <1>8, InvAfter

(* os.RemoveAll and the new enqueue leave the processes alone.             *)
LEMMA FileStep ==
    ASSUME IInv, List \/ (\E s \in Segments : Unlink(s)) \/ Rmdir \/ Resolve
    PROVE  IInv'
<1>0. ProcOK /\ FileInv /\ AddressInv /\ JobInv /\ SlotInv BY InvParts
<1>1. UNCHANGED <<direct, holders, job, line, sem, proc>> /\ prefetch' \in BOOLEAN
      /\ track' \in BOOLEAN /\ deletion' \in {"none", "list", "unlink"}
  BY <1>0 DEF List, Unlink, Rmdir, Resolve, JobInv, JobsOK, AddressInv, AddressOK,
              address, sem
<1>2. ProcOK' BY <1>0, <1>1 DEF ProcOK
<1>3. AddressInv' BY <1>0, <1>1, SameAddress
<1>4. SlotInv' BY <1>0, <1>1, SameSlots DEF At
<1>5. JobInv'
  <2>1. JobsOK' BY <1>0, <1>1 DEF JobInv, JobsOK
  <2> QED BY <1>0, <1>1, <2>1, SameJobs DEF At, S
<1>6. FileInv'
  <2>0. FilesOK /\ RenamesOwnFile /\ SegmentIsWhole /\ OnlyLateOrphans BY <1>0 DEF FileInv
  <2>s. \A p \in Procs : proc[p].at \in {"check", "rename"} => S(p) \in Segments
    BY <1>0 DEF ProcOK, S
  <2>1. CASE List
    <3>1. /\ UNCHANGED <<seg, tmp, dir, late, track>>
          /\ deletion' = IF dir THEN "unlink" ELSE "none"
          /\ segsListed' = {s \in Segments : seg[s] # "none"}
          /\ tmpsListed' = {s \in Segments : tmp[s] # "none"}
      BY <2>1 DEF List
    <3>2. deletion' = "none" => \A s \in Segments : seg[s] = "none" /\ tmp[s] = "none"
      BY <2>0, <3>1 DEF FilesOK
    <3>3. FilesOK' /\ SegmentIsWhole' /\ OnlyLateOrphans'
      BY <2>0, <3>1, <3>2 DEF FilesOK, SegmentIsWhole, OnlyLateOrphans
    <3>4. RenamesOwnFile' BY <1>1, <2>0, <2>s, <3>1, <3>2 DEF RenamesOwnFile, At, S
    <3> QED BY <3>3, <3>4 DEF FileInv
  <2>2. ASSUME NEW s \in Segments, Unlink(s) PROVE FileInv'
    <3>1. UNCHANGED <<dir, late, track, deletion>> BY <2>2 DEF Unlink
    <3>2. \/ /\ seg' = [seg EXCEPT ![s] = "none"] /\ segsListed' = segsListed \ {s}
             /\ UNCHANGED <<tmp, tmpsListed>>
          \/ /\ tmp' = [tmp EXCEPT ![s] = "none"] /\ tmpsListed' = tmpsListed \ {s}
             /\ UNCHANGED <<seg, segsListed>>
      BY <2>2 DEF Unlink
    <3>3. FilesOK' BY <2>0, <3>1, <3>2 DEF FilesOK
    <3>4. /\ \A t \in Segments : /\ seg'[t] # "none" => seg'[t] = seg[t]
                                 /\ tmp'[t] # "none" => tmp'[t] = tmp[t]
                                 /\ seg'[t] # "none" /\ t \in segsListed => t \in segsListed'
                                 /\ tmp'[t] # "none" /\ t \in tmpsListed => t \in tmpsListed'
      BY <2>0, <3>2 DEF FilesOK
    <3>5. SegmentIsWhole' /\ OnlyLateOrphans'
      BY <2>0, <3>1, <3>4 DEF SegmentIsWhole, OnlyLateOrphans
    <3>6. RenamesOwnFile' BY <1>1, <2>0, <2>s, <3>1, <3>4 DEF RenamesOwnFile, At, S
    <3> QED BY <3>3, <3>5, <3>6 DEF FileInv
  <2>3. CASE Rmdir
    <3>1. /\ UNCHANGED <<seg, tmp, late, track>> /\ deletion = "unlink" /\ deletion' = "none"
          /\ segsListed = {} /\ tmpsListed = {} /\ RemoveDir(seg, tmp)
      BY <2>3 DEF Rmdir
    <3>2. \A s \in Segments : seg[s] # "none" \/ tmp[s] # "none" => dir BY <2>0 DEF FilesOK
    <3>3. /\ dir' \in BOOLEAN /\ \A s \in Segments : seg[s] # "none" \/ tmp[s] # "none" => dir'
          /\ segsListed' \subseteq Segments /\ tmpsListed' \subseteq Segments
      BY <2>0, <3>1, <3>2, RemoveDirKeeps
    <3>4. FilesOK' BY <2>0, <3>1, <3>3 DEF FilesOK
    <3>5. SegmentIsWhole' /\ OnlyLateOrphans'
      BY <2>0, <3>1 DEF SegmentIsWhole, OnlyLateOrphans
    <3>6. RenamesOwnFile' BY <1>1, <2>0, <2>s, <3>1 DEF RenamesOwnFile, At, S
    <3> QED BY <3>4, <3>5, <3>6 DEF FileInv
  <2>4. CASE Resolve
    <3>1. UNCHANGED <<seg, tmp, dir, segsListed, tmpsListed>> /\ track' = TRUE /\ late' = {}
      BY <2>4 DEF Resolve
    <3>2. FilesOK' /\ SegmentIsWhole' /\ OnlyLateOrphans'
      BY <2>0, <3>1 DEF FilesOK, SegmentIsWhole, OnlyLateOrphans
    <3>3. RenamesOwnFile' BY <1>1, <2>0, <3>1 DEF RenamesOwnFile, At, S
    <3> QED BY <3>2, <3>3 DEF FileInv
  <2> QED BY <2>1, <2>2, <2>3, <2>4
<1> QED BY <1>2, <1>3, <1>4, <1>5, <1>6, InvAfter

(* The prefetch, and makers of other tracks that come and go.              *)
LEMMA AsideStep ==
    ASSUME IInv, Prefetch \/ OtherTakes \/ OtherGives \/ UNCHANGED vars
    PROVE  IInv'
<1>0. ProcOK /\ FileInv /\ AddressInv /\ JobInv /\ SlotInv BY InvParts
<1>1. UNCHANGED <<track, files, job, line, proc, deletion>>
  BY DEF Prefetch, OtherTakes, OtherGives, vars, sem
<1>2. ProcOK' BY <1>0, <1>1 DEF ProcOK
<1>3. FileInv' BY <1>0, <1>1, SameFiles
<1>4. JobInv'
  <2>1. JobsOK' BY <1>0, <1>1 DEF JobInv, JobsOK
  <2> QED BY <1>0, <1>1, <2>1, SameJobs DEF At, S
<1>5. AddressInv'
  <2>1. prefetch' \in BOOLEAN
    BY <1>0 DEF Prefetch, OtherTakes, OtherGives, vars, address, AddressInv, AddressOK
  <2>2. CASE UNCHANGED <<direct, holders>> BY <1>0, <1>1, <2>1, <2>2, SameAddress
  <2>3. CASE direct' = TRUE /\ holders' = {}
    BY <2>1, <2>3 DEF AddressInv, AddressOK, HeldWhileUsed
  <2> QED BY <2>2, <2>3 DEF Prefetch, OtherTakes, OtherGives, vars, address
<1>6. SlotInv'
  <2>0. others \in Nat /\ SlotsAreShared /\ Makers' = Makers BY <1>0, <1>1 DEF SlotInv, Makers
  <2>1. Cardinality(Makers) \in Nat
    <3>1. Makers \subseteq Procs BY DEF Makers
    <3> QED BY <3>1, ProcsType, FS_Subset, FS_CardinalityType
  <2>2. others' \in Nat /\ Cardinality(Makers') + others' <= Slots
    <3>1. CASE OtherTakes BY <2>0, <2>1, <3>1, HlsAssumption DEF OtherTakes, IsFree
    <3>2. CASE OtherGives
      BY <2>0, <2>1, <3>2, HlsAssumption DEF OtherGives, SlotsAreShared
    <3>3. CASE UNCHANGED others BY <2>0, <3>3 DEF SlotsAreShared
    <3> QED BY <3>1, <3>2, <3>3 DEF Prefetch, vars, sem
  <2>3. \A p \in Procs : At(p, "slot")' <=> At(p, "slot") BY <1>1 DEF At
  <2> QED BY <1>1, <2>0, <2>2, <2>3 DEF SlotInv, SlotsAreShared
<1> QED BY <1>2, <1>3, <1>4, <1>5, <1>6, InvAfter

-----------------------------------------------------------------------------
(* THEOREMS                                                                *)

LEMMA HlsInit == Init => IInv
<1> SUFFICES ASSUME Init PROVE IInv
  OBVIOUS
<1>1. Idle \in ProcStates /\ Idle.at = "idle" BY ProcTypes DEF Idle
<1> HIDE DEF Idle
<1>2. proc \in [Procs -> ProcStates] /\ \A p \in Procs : proc[p].at = "idle"
  BY <1>1 DEF Init
<1>3. ProcOK BY <1>2 DEF ProcOK
<1>4. FileInv
  <2>1. FilesOK /\ SegmentIsWhole /\ OnlyLateOrphans
    BY DEF Init, FilesOK, SegmentIsWhole, OnlyLateOrphans
  <2>2. RenamesOwnFile BY <1>2 DEF RenamesOwnFile, At
  <2> QED BY <2>1, <2>2 DEF FileInv
<1>5. AddressInv
  <2>1. AddressOK BY DEF Init, AddressOK
  <2> QED BY <2>1 DEF Init, AddressInv, HeldWhileUsed
<1>6. JobInv
  <2>1. track \in BOOLEAN /\ deletion \in {"none", "list", "unlink"} BY DEF Init
  <2>2. job \in [Segments -> Procs \cup {Nil}] /\ line \in Seq(Procs) /\ line = <<>>
    BY EmptySeq DEF Init
  <2>3. JobsOK BY <2>1, <2>2 DEF JobsOK
  <2>4. OneMaker BY <1>2 DEF Init, OneMaker, At, Busy, Making
  <2> QED BY <2>3, <2>4 DEF JobInv
<1>7. SlotInv
  <2>1. Makers = {} BY <1>2 DEF Makers, Making
  <2>2. Cardinality(Makers) = 0 BY <2>1, FS_EmptySet
  <2>4. line = <<>> /\ DOMAIN line = {} /\ others = 0 BY DEF Init
  <2>3. Cardinality(Makers) + others <= Slots
    <3> DEFINE n == Cardinality(Makers)
    <3>1. n = 0 BY <2>2
    <3> HIDE DEF n
    <3>2. n + others <= Slots BY <3>1, <2>4, HlsAssumption
    <3> QED BY <3>2 DEF n
  <2>5. \A p \in Procs : ~At(p, "slot") BY <1>2 DEF At
  <2> QED BY <2>3, <2>4, <2>5 DEF SlotInv, SlotsAreShared
<1> QED BY <1>3, <1>4, <1>5, <1>6, <1>7, InvParts

LEMMA HlsStep == IInv /\ [Next]_vars => IInv'
<1> SUFFICES ASSUME IInv, [Next]_vars PROVE IInv'
  OBVIOUS
<1>1. ASSUME NEW p \in Procs, Step(p) PROVE IInv'
  BY <1>1, EnsureStep, TakeSlotStep, GeneratesStep, DoneStep, UnjobStep, ServeStep
     DEF Step, Generates
<1> QED BY <1>1, RequestStep, DeleteStep, FileStep, AsideStep DEF Next

(* HlsInv, with what it implies of the files, is inductive.                *)
THEOREM HlsInductive == Spec => []IInv
BY HlsInit, HlsStep, PTL DEF Spec

(* p.hlsJobs, p.segSem, p.directURLs and the files agree: one maker for a  *)
(* segment, a maker for whoever waits, the slots shared, a fresh address   *)
(* for the second attempt.                                                 *)
THEOREM HlsSafe == Spec => []HlsInv
<1>1. IInv => HlsInv BY DEF IInv
<1> QED BY <1>1, HlsInductive, PTL

(* os.Rename publishes whole segments only.                                *)
THEOREM SegmentsAreWhole == Spec => []SegmentIsWhole
<1>1. IInv => SegmentIsWhole BY DEF IInv
<1> QED BY <1>1, HlsInductive, PTL

(* A finished deletion leaves no segment behind, not one that was being    *)
(* made either, except one that was renamed after os.RemoveAll had read    *)
(* the directory: for every number of requests, segments and slots, and    *)
(* every order in which the names are unlinked.                            *)
THEOREM DeletionIsComplete == Spec => []OnlyLateOrphans
<1>1. IInv => OnlyLateOrphans BY DEF IInv
<1> QED BY <1>1, HlsInductive, PTL

-----------------------------------------------------------------------------
(* THE PLAYLIST                                                            *)

(* x \div m, by what it is.                                                *)
LEMMA DivProperties ==
    ASSUME NEW x \in Nat, NEW m \in Nat \ {0}
    PROVE  /\ x \div m \in Nat /\ m * (x \div m) \in Int
           /\ m * (x \div m) <= x /\ x < m * (x \div m) + m
OBVIOUS

(* A product grows with its factor.                                        *)
LEMMA TimesGrows ==
    ASSUME NEW m \in Nat \ {0}, NEW i \in Int, NEW j \in Int, i <= j
    PROVE  m * i \in Int /\ m * j \in Int /\ m * i <= m * j /\ m * (j - 1) = m * j - m
OBVIOUS

(* serveHLSPlaylist for a track of any length d and any hlsSegmentMs: all  *)
(* segments but the last one are SegMs long, the last one is not empty,    *)
(* and it ends where the track ends.                                       *)
THEOREM PlaylistEndsWithTrack ==
    ASSUME NEW d \in Nat \ {0}
    PROVE  LET n == SegmentCount(d) IN
             /\ n \in Nat \ {0}
             /\ \A i \in 0..(n - 2) : SegmentLength(d, i) = SegMs
             /\ SegmentLength(d, n - 1) \in 1..SegMs
             /\ (n - 1) * SegMs + SegmentLength(d, n - 1) = d
<1> DEFINE x == d + SegMs - 1
           n == SegmentCount(d)
<1>1. SegMs \in Nat \ {0} /\ x \in Nat BY HlsAssumption
<1>2. n = x \div SegMs BY DEF SegmentCount
<1>3. n \in Nat /\ SegMs * n \in Int /\ SegMs * n <= x /\ x < SegMs * n + SegMs
  BY <1>1, <1>2, DivProperties
<1>4. SegMs * n >= d /\ SegMs * n - SegMs <= d - 1 BY <1>1, <1>3
<1> HIDE DEF n
<1>5. n # 0 BY <1>1, <1>4
<1>6. SegMs * (n - 1) = SegMs * n - SegMs /\ (n - 1) * SegMs = SegMs * (n - 1)
  BY <1>1, <1>3, TimesGrows
<1>7. /\ SegmentLength(d, n - 1) = d - (n - 1) * SegMs
      /\ d - (n - 1) * SegMs \in 1..SegMs
  <2>1. (n - 1) * SegMs \in Int /\ d - (n - 1) * SegMs >= 1 /\ d - (n - 1) * SegMs <= SegMs
    BY <1>1, <1>3, <1>4, <1>6
  <2> QED BY <1>1, <2>1 DEF SegmentLength
<1>8. ASSUME NEW i \in 0..(n - 2) PROVE SegmentLength(d, i) = SegMs
  <2>1. i \in Int /\ n - 2 \in Int /\ i <= n - 2 BY <1>3
  <2>2. SegMs * i \in Int /\ SegMs * (n - 2) \in Int /\ SegMs * i <= SegMs * (n - 2)
    BY <1>1, <2>1, TimesGrows
  <2>3. SegMs * (n - 2) = SegMs * (n - 1) - SegMs
    <3>1. n - 1 \in Int /\ (n - 1) - 1 = n - 2 BY <1>3
    <3>2. SegMs * ((n - 1) - 1) = SegMs * (n - 1) - SegMs BY <1>1, <3>1, TimesGrows
    <3> QED BY <3>1, <3>2
  <2>4. d - SegMs * i >= SegMs /\ i * SegMs = SegMs * i BY <1>1, <1>3, <1>4, <1>6, <2>1, <2>2, <2>3
  <2> QED BY <1>1, <2>2, <2>4 DEF SegmentLength
<1>9. (n - 1) * SegMs \in Int BY <1>1, <1>3
<1> QED BY <1>3, <1>5, <1>7, <1>8, <1>9 DEF n

(* Induction over the number of segments.                                  *)

(* A set of numbers has a smallest one.                                    *)
LEMMA LeastElement ==
    ASSUME NEW T, T \subseteq Nat, T # {}
    PROVE  \E n \in T : \A m \in T : n <= m
<1>1. IsWellFoundedOn(OpToRel(<, Nat), Nat)
  BY NatLessThanWellFounded
<1>2. PICK n \in T : \A m \in T : ~(<<m, n>> \in OpToRel(<, Nat))
  BY <1>1, WFMin
<1>3. \A m \in T : <<m, n>> \in OpToRel(<, Nat) <=> m < n
  BY DEF OpToRel
<1>4. \A m \in T : ~(m < n)
  BY <1>2, <1>3
<1> QED BY <1>4

(* Induction, with the set of the numbers for which the claim holds.       *)
LEMMA Induction ==
    ASSUME NEW N \in Nat, NEW H, 0 \in H, \A n \in 0..(N-1) : n \in H => n + 1 \in H
    PROVE  \A n \in 0..N : n \in H
<1> SUFFICES ASSUME NEW k \in 0..N, k \notin H PROVE FALSE OBVIOUS
<1> DEFINE T == {n \in 0..N : n \notin H}
<1>0. T \subseteq Nat /\ T # {} OBVIOUS
<1> HIDE DEF T
<1>1. PICK n \in T : \A m \in T : n <= m
  BY <1>0, LeastElement
<1> USE DEF T
<1>2. n \in Nat /\ n <= N /\ n \notin H /\ n # 0 OBVIOUS
<1>3. n - 1 \in 0..(N-1) /\ n - 1 \notin T BY <1>1, <1>2
<1> QED BY <1>2, <1>3

Iterated(f, N, base, step) == f[0] = base /\ \A n \in 1..N : f[n] = step[n][f[n-1]]

(* A function is defined by its first value and by how each value follows  *)
(* from the one before.                                                    *)
LEMMA Iterates ==
    ASSUME NEW N \in Nat, NEW V, NEW base \in V, NEW step \in [1..N -> [V -> V]]
    PROVE  \E f \in [0..N -> V] : Iterated(f, N, base, step)
<1> DEFINE Def(n, f) == f[0] = base /\ \A k \in 1..n : f[k] = step[k][f[k-1]]
           H == {n \in 0..N : \E f \in [0..n -> V] : Def(n, f)}
<1>1. 0 \in H
  <2> DEFINE f == [k \in 0..0 |-> base]
  <2>1. f \in [0..0 -> V] OBVIOUS
  <2>2. f[0] = base /\ \A k \in 1..0 : f[k] = step[k][f[k-1]] OBVIOUS
  <2> HIDE DEF f
  <2>3. 0 \in 0..N OBVIOUS
  <2> QED BY <2>1, <2>2, <2>3
<1>2. ASSUME NEW n \in 0..(N-1), n \in H PROVE n + 1 \in H
  <2>1. PICK f \in [0..n -> V] : Def(n, f) BY <1>2
  <2> DEFINE g == [k \in 0..(n+1) |-> IF k = n + 1 THEN step[n+1][f[n]] ELSE f[k]]
  <2>2. n + 1 \in 1..N /\ f[n] \in V OBVIOUS
  <2>3. step[n+1][f[n]] \in V BY <2>2
  <2>4. g \in [0..(n+1) -> V] BY <2>3
  <2>5. g[0] = base /\ \A k \in 1..(n+1) : g[k] = step[k][g[k-1]]
    <3>1. \A k \in 1..n : g[k] = f[k] /\ g[k-1] = f[k-1] OBVIOUS
    <3>2. g[0] = f[0] /\ g[n+1] = step[n+1][f[n]] /\ g[n] = f[n] OBVIOUS
    <3> QED BY <2>1, <3>1, <3>2
  <2> HIDE DEF g
  <2>6. n + 1 \in 0..N OBVIOUS
  <2> QED BY <2>4, <2>5, <2>6
<1> HIDE DEF H
<1>3. \A n \in 0..N : n \in H BY <1>1, <1>2, Induction
<1> QED BY <1>3 DEF H, Iterated

(* Running totals are what they are said to be.                            *)
LEMMA PrefixSumsProperties ==
    ASSUME NEW N \in Nat, NEW f \in [1..N -> Nat]
    PROVE  /\ PrefixSums(f, N) \in [0..N -> Nat]
           /\ PrefixSums(f, N)[0] = 0
           /\ \A n \in 1..N : PrefixSums(f, N)[n] = PrefixSums(f, N)[n-1] + f[n]
<1> DEFINE Is(g) == g = [n \in 0..N |-> IF n = 0 THEN 0 ELSE g[n-1] + f[n]]
           step == [n \in 1..N |-> [u \in Nat |-> u + f[n]]]
<1>1. step \in [1..N -> [Nat -> Nat]] OBVIOUS
<1>2. \A n \in 1..N, u \in Nat : step[n][u] = u + f[n] OBVIOUS
<1> HIDE DEF step
<1>3. PICK g \in [0..N -> Nat] : g[0] = 0 /\ \A n \in 1..N : g[n] = step[n][g[n-1]]
  <2> DEFINE z == 0
  <2>1. z \in Nat OBVIOUS
  <2> HIDE DEF z
  <2>2. \E g \in [0..N -> Nat] : Iterated(g, N, z, step)
    BY <1>1, <2>1, Iterates
  <2> QED BY <2>2 DEF z, Iterated
<1>4. Is(g)
  <2>1. \A n \in 1..N : n - 1 \in 0..N /\ g[n-1] \in Nat OBVIOUS
  <2>2. \A n \in 1..N : g[n] = g[n-1] + f[n] BY <1>2, <1>3, <2>1
  <2>3. g = [n \in 0..N |-> g[n]] OBVIOUS
  <2>4. \A n \in 0..N : g[n] = IF n = 0 THEN 0 ELSE g[n-1] + f[n] BY <1>3, <2>2
  <2> QED BY <2>3, <2>4
<1>5. PrefixSums(f, N) = CHOOSE h : Is(h)
  BY DEF PrefixSums
<1> DEFINE p == PrefixSums(f, N)
<1>6. Is(p)
  BY <1>4, <1>5
<1> HIDE DEF p
<1>7. p[0] = 0 /\ \A n \in 1..N : p[n] = p[n-1] + f[n]
  BY <1>6
<1> DEFINE H == {n \in 0..N : p[n] \in Nat}
<1>8. \A n \in 0..N : n \in H
  <2>1. 0 \in H BY <1>7
  <2>2. ASSUME NEW n \in 0..(N-1), n \in H PROVE n + 1 \in H
    BY <1>7, <2>2
  <2> HIDE DEF H
  <2> QED BY <2>1, <2>2, Induction
<1>9. p \in [0..N -> Nat]
   BY <1>6, <1>8
<1> QED BY <1>7, <1>9 DEF p

(* serveHLSPlaylist: the segments of any playlist, added up, are as long   *)
(* as the track, whatever its length and hlsSegmentMs.                     *)
LEMMA LengthsAddUp ==
    ASSUME NEW d \in Nat \ {0}
    PROVE  LET n == SegmentCount(d)
               lengths == [i \in 1..n |-> SegmentLength(d, i - 1)]
           IN  /\ \A i \in 1..n : lengths[i] \in 1..SegMs
               /\ PrefixSums(lengths, n)[n] = d
<1> DEFINE n == SegmentCount(d)
           lengths == [i \in 1..n |-> SegmentLength(d, i - 1)]
           sum == PrefixSums(lengths, n)
<1>1. SegMs \in Nat \ {0} BY HlsAssumption
<1>2. /\ n \in Nat \ {0}
      /\ \A i \in 0..(n - 2) : SegmentLength(d, i) = SegMs
      /\ SegmentLength(d, n - 1) \in 1..SegMs
      /\ (n - 1) * SegMs + SegmentLength(d, n - 1) = d
  BY PlaylistEndsWithTrack
<1> HIDE DEF n
<1>3. \A i \in 1..(n - 1) : lengths[i] = SegMs
  <2> TAKE i \in 1..(n - 1)
  <2>1. i \in 1..n /\ i - 1 \in 0..(n - 2) BY <1>2
  <2> QED BY <1>2, <2>1
<1>4. lengths[n] = SegmentLength(d, n - 1) BY <1>2
<1>5. \A i \in 1..n : lengths[i] \in 1..SegMs
  <2> TAKE i \in 1..n
  <2>1. i \in 1..(n - 1) \/ i = n BY <1>2
  <2> QED BY <1>1, <1>2, <1>3, <1>4, <2>1
<1>6. lengths \in [1..n -> Nat]
  <2>1. lengths = [i \in 1..n |-> lengths[i]] OBVIOUS
  <2> HIDE DEF lengths
  <2>2. \A i \in 1..n : lengths[i] \in Nat BY <1>1, <1>5
  <2> QED BY <2>1, <2>2
<1> HIDE DEF lengths
<1>7. /\ sum \in [0..n -> Nat] /\ sum[0] = 0
      /\ \A i \in 1..n : sum[i] = sum[i-1] + lengths[i]
  BY <1>2, <1>6, PrefixSumsProperties
<1> HIDE DEF sum
<1> DEFINE H == {i \in 0..(n - 1) : sum[i] = SegMs * i}
<1>8. \A i \in 0..(n - 1) : i \in H
  <2>1. 0 \in H
    <3>1. SegMs * 0 = 0 /\ 0 \in 0..(n - 1) BY <1>1, <1>2
    <3> QED BY <1>7, <3>1
  <2>2. ASSUME NEW i \in 0..((n - 1) - 1), i \in H PROVE i + 1 \in H
    <3>1. i \in Int /\ i + 1 \in Int /\ i + 1 \in 0..(n - 1) /\ i + 1 \in 1..(n - 1) /\ i + 1 \in 1..n
          /\ (i + 1) - 1 = i
      BY <1>2
    <3>2. SegMs * ((i + 1) - 1) = SegMs * (i + 1) - SegMs /\ SegMs * (i + 1) \in Int
      BY <1>1, <3>1, TimesGrows
    <3>3. sum[i + 1] = sum[i] + SegMs /\ sum[i] = SegMs * i BY <1>3, <1>7, <2>2, <3>1
    <3>4. sum[i + 1] = SegMs * (i + 1) BY <1>1, <3>1, <3>2, <3>3
    <3> QED BY <3>1, <3>4
  <2>3. n - 1 \in Nat BY <1>2
  <2> HIDE DEF H
  <2> QED BY <2>1, <2>2, <2>3, Induction
<1>9. sum[n] = d
  <2>1. n - 1 \in 0..(n - 1) /\ n \in 1..n BY <1>2
  <2>2. sum[n - 1] = SegMs * (n - 1) BY <1>8, <2>1
  <2>3. sum[n] = sum[n - 1] + SegmentLength(d, n - 1) BY <1>4, <1>7, <2>1
  <2>4. SegMs * (n - 1) = (n - 1) * SegMs BY <1>1, <1>2
  <2> QED BY <1>2, <2>2, <2>3, <2>4
<1> QED BY <1>5, <1>9 DEF sum, lengths, n

(* The same of the playlists the runs look at.                             *)
THEOREM PlaylistsCover == Spec => []PlaylistCovers
<1>1. ASSUME NEW d \in 1..MaxDuration
      PROVE  LET n == SegmentCount(d)
                 lengths == [i \in 1..n |-> SegmentLength(d, i - 1)]
             IN  /\ \A i \in 1..n : lengths[i] \in 1..SegMs
                 /\ PrefixSums(lengths, n)[n] = d
  <2>1. d \in Nat \ {0} BY HlsAssumption
  <2> QED BY <2>1, LengthsAddUp
<1>2. PlaylistCovers BY <1>1 DEF PlaylistCovers
<1> QED BY <1>2, PTL
=============================================================================
