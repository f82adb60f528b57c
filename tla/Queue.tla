------------------------------- MODULE Queue --------------------------------
(***************************************************************************)
(* room.queue of internal/room/room.go: tracks in the order in which they  *)
(* were added, each with the status of the last snapshot it was given.     *)
(* A track with an error status behaves like a resolving one: not ready.   *)
(***************************************************************************)
EXTENDS Naturals, Sequences

Statuses == {"resolving", "ready"}
Entry(t, st) == [id |-> t, status |-> st]
Queues(ts) == Seq([id : ts, status : Statuses])

Has(q, t) == \E n \in DOMAIN q : q[n].id = t
IndexOf(q, t) == CHOOSE n \in DOMAIN q :
                   q[n].id = t /\ \A m \in 1..(n-1) : q[m].id # t

(* UpsertTrack: the first entry of that ID is replaced, or one is added.   *)
Upsert(q, e) == IF Has(q, e.id) THEN [q EXCEPT ![IndexOf(q, e.id)] = e]
                ELSE Append(q, e)
Put(q, t, st) == Upsert(q, Entry(t, st))

(* slices.Delete(room.queue, i, i+1) for the first entry of that ID.       *)
Without(q, t) ==
    IF ~Has(q, t) THEN q
    ELSE [n \in 1..(Len(q) - 1) |-> IF n < IndexOf(q, t) THEN q[n] ELSE q[n + 1]]

(* What maybeStart and streamMaybeStart look for.                          *)
SomeReady(q) == \E n \in DOMAIN q : q[n].status = "ready"
IsFirstReady(q, n) ==
    /\ n \in DOMAIN q /\ q[n].status = "ready"
    /\ \A m \in 1..(n-1) : q[m].status # "ready"

(* No track is queued twice.                                               *)
NoDuplicates(q) == \A m, n \in DOMAIN q : q[m].id = q[n].id => m = n
=============================================================================
