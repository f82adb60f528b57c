----------------------------- MODULE CacheProofs -----------------------------
(***************************************************************************)
(* Cache for every number of rooms, tracks and goroutines, and for queues  *)
(* of every length.                                                        *)
(***************************************************************************)
EXTENDS Cache, SequenceTheorems, WellFoundedInduction, TLAPS

(* Who asked for a track is known as long as the track is.                 *)
Asked == \A t \in Tracks : track[t] # Nil => notify[t] # Nil

(* The latest state of a track is where it belongs or on its way: a tell   *)
(* of it goes to the room that asked last, and what is there or on its way *)
(* is the latest unless an emit is to come.                                *)
Coming(t) == TrackOp("emit", t) \in Pending
Tells(t) == {o \in Pending : o.op = "tell" /\ o.snap.id = t}
Latest ==
    \A t \in Tracks : track[t] # Nil /\ t \notin astray =>
      /\ \A o \in Tells(t) : o.room = notify[t] /\ (o.snap = track[t] \/ Coming(t))
      /\ \/ Coming(t) \/ Tells(t) # {}
         \/ \A e \in Range(queue[notify[t]]) : e.id = t => e = track[t]

(* What the last Reconcile decided was done or is still to be done, and    *)
(* nothing else; or there will be another one.                             *)
Replans == \E o \in Pending : o.op \in {"tell", "plan"}
Follows(full, q) ==
    /\ IsGreedy(full, queue[q], budget[q])
    /\ \A e \in Range(queue[q]) : IsLong(e) /\ track[e.id] # Nil =>
         /\ e.id \in full => desired[e.id] \/ TrackOp("ensure", e.id) \in Pending
         /\ e.id \notin full /\ desired[e.id] =>
              e.id = playing[q] \/ TrackOp("evict", e.id) \in Pending
    /\ \A t \in Tracks : /\ TrackOp("ensure", t) \in Pending => t \in full
                         /\ TrackOp("evict", t) \in Pending => t \notin full
Planned == last # Nil /\ ~Replans => \E full \in SUBSET Long : Follows(full, last)

IInv == CacheInv /\ NoOrphanFile /\ Asked /\ Latest /\ Planned

-----------------------------------------------------------------------------
(* Induction over the length of a queue.                                   *)

(* A set of numbers has a smallest one.                                    *)
LEMMA LeastElement ==
    ASSUME NEW T, T \subseteq Nat, T # {}
    PROVE  \E n \in T : \A m \in T : n <= m
<1>1. IsWellFoundedOn(OpToRel(<, Nat), Nat)
  BY NatLessThanWellFounded
<1>2. PICK n \in T : \A m \in T : ~(<<m, n>> \in OpToRel(<, Nat))
  BY <1>1, WFMin
<1>3. \A m \in T : <<m, n>> \in OpToRel(<, Nat) <=> m < n
  BY DEF OpToRel
<1>4. \A m \in T : ~(m < n)
  BY <1>2, <1>3
<1> QED BY <1>4

(* Induction, with the set of the numbers for which the claim holds.       *)
LEMMA Induction ==
    ASSUME NEW N \in Nat, NEW S, 0 \in S, \A n \in 0..(N-1) : n \in S => n + 1 \in S
    PROVE  \A n \in 0..N : n \in S
<1> SUFFICES ASSUME NEW k \in 0..N, k \notin S PROVE FALSE OBVIOUS
<1> DEFINE T == {n \in 0..N : n \notin S}
<1>0. T \subseteq Nat /\ T # {} OBVIOUS
<1> HIDE DEF T
<1>1. PICK n \in T : \A m \in T : n <= m
  BY <1>0, LeastElement
<1> USE DEF T
<1>2. n \in Nat /\ n <= N /\ n \notin S /\ n # 0 OBVIOUS
<1>3. n - 1 \in 0..(N-1) /\ n - 1 \notin T BY <1>1, <1>2
<1> QED BY <1>2, <1>3

Iterated(f, N, base, step) == f[0] = base /\ \A n \in 1..N : f[n] = step[n][f[n-1]]

(* A function is defined by its first value and by how each value follows  *)
(* from the one before.                                                    *)
LEMMA Iterates ==
    ASSUME NEW N \in Nat, NEW V, NEW base \in V, NEW step \in [1..N -> [V -> V]]
    PROVE  \E f \in [0..N -> V] : Iterated(f, N, base, step)
<1> DEFINE Def(n, f) == f[0] = base /\ \A k \in 1..n : f[k] = step[k][f[k-1]]
           S == {n \in 0..N : \E f \in [0..n -> V] : Def(n, f)}
<1>1. 0 \in S
  <2> DEFINE f == [k \in 0..0 |-> base]
  <2>1. f \in [0..0 -> V] OBVIOUS
  <2>2. f[0] = base /\ \A k \in 1..0 : f[k] = step[k][f[k-1]] OBVIOUS
  <2> HIDE DEF f
  <2>3. 0 \in 0..N OBVIOUS
  <2> QED BY <2>1, <2>2, <2>3
<1>2. ASSUME NEW n \in 0..(N-1), n \in S PROVE n + 1 \in S
  <2>1. PICK f \in [0..n -> V] : Def(n, f) BY <1>2
  <2> DEFINE g == [k \in 0..(n+1) |-> IF k = n + 1 THEN step[n+1][f[n]] ELSE f[k]]
  <2>2. n + 1 \in 1..N /\ f[n] \in V OBVIOUS
  <2>3. step[n+1][f[n]] \in V BY <2>2
  <2>4. g \in [0..(n+1) -> V] BY <2>3
  <2>5. g[0] = base /\ \A k \in 1..(n+1) : g[k] = step[k][g[k-1]]
    <3>1. \A k \in 1..n : g[k] = f[k] /\ g[k-1] = f[k-1] OBVIOUS
    <3>2. g[0] = f[0] /\ g[n+1] = step[n+1][f[n]] /\ g[n] = f[n] OBVIOUS
    <3> QED BY <2>1, <3>1, <3>2
  <2> HIDE DEF g
  <2>6. n + 1 \in 0..N OBVIOUS
  <2> QED BY <2>4, <2>5, <2>6
<1> HIDE DEF S
<1>3. \A n \in 0..N : n \in S BY <1>1, <1>2, Induction
<1> QED BY <1>3 DEF S, Iterated

(* Running totals are what they are said to be.                            *)
LEMMA PrefixSumsProperties ==
    ASSUME NEW N \in Nat, NEW f \in [1..N -> Nat]
    PROVE  /\ PrefixSums(f, N) \in [0..N -> Nat]
           /\ PrefixSums(f, N)[0] = 0
           /\ \A n \in 1..N : PrefixSums(f, N)[n] = PrefixSums(f, N)[n-1] + f[n]
<1> DEFINE Is(g) == g = [n \in 0..N |-> IF n = 0 THEN 0 ELSE g[n-1] + f[n]]
           step == [n \in 1..N |-> [u \in Nat |-> u + f[n]]]
<1>1. step \in [1..N -> [Nat -> Nat]] OBVIOUS
<1>2. \A n \in 1..N, u \in Nat : step[n][u] = u + f[n] OBVIOUS
<1> HIDE DEF step
<1>3. PICK g \in [0..N -> Nat] : g[0] = 0 /\ \A n \in 1..N : g[n] = step[n][g[n-1]]
  <2> DEFINE z == 0
  <2>1. z \in Nat OBVIOUS
  <2> HIDE DEF z
  <2>2. \E g \in [0..N -> Nat] : Iterated(g, N, z, step)
    BY <1>1, <2>1, Iterates
  <2> QED BY <2>2 DEF z, Iterated
<1>4. Is(g)
  <2>1. \A n \in 1..N : n - 1 \in 0..N /\ g[n-1] \in Nat OBVIOUS
  <2>2. \A n \in 1..N : g[n] = g[n-1] + f[n] BY <1>2, <1>3, <2>1
  <2>3. g = [n \in 0..N |-> g[n]] OBVIOUS
  <2>4. \A n \in 0..N : g[n] = IF n = 0 THEN 0 ELSE g[n-1] + f[n] BY <1>3, <2>2
  <2> QED BY <2>3, <2>4
<1>5. PrefixSums(f, N) = CHOOSE h : Is(h)
  BY DEF PrefixSums
<1> DEFINE p == PrefixSums(f, N)
<1>6. Is(p)
  BY <1>4, <1>5
<1> HIDE DEF p
<1>7. p[0] = 0 /\ \A n \in 1..N : p[n] = p[n-1] + f[n]
  BY <1>6
<1> DEFINE S == {n \in 0..N : p[n] \in Nat}
<1>8. \A n \in 0..N : n \in S
  <2>1. 0 \in S BY <1>7
  <2>2. ASSUME NEW n \in 0..(N-1), n \in S PROVE n + 1 \in S
    BY <1>7, <2>2
  <2> HIDE DEF S
  <2> QED BY <2>1, <2>2, Induction
<1>9. p \in [0..N -> Nat]
   BY <1>6, <1>8
<1> QED BY <1>7, <1>9 DEF p

(* A function that differs from f at x only.                               *)
LEMMA Updated ==
    ASSUME NEW A, NEW B, NEW f \in [A -> B], NEW x \in A, NEW v \in B
    PROVE  /\ [f EXCEPT ![x] = v] \in [A -> B]
           /\ [f EXCEPT ![x] = v][x] = v
           /\ \A y \in A : y # x => [f EXCEPT ![x] = v][y] = f[y]
BY Zenon

-----------------------------------------------------------------------------
(* Lists of what a goroutine has still to do, which are worked on at their *)
(* head.                                                                   *)

(* Short lists and what is in them.                                        *)
LEMMA ShortLists ==
    ASSUME NEW T
    PROVE  /\ <<>> \in Seq(T) /\ Range(<<>>) = {}
           /\ \A a \in T : <<a>> \in Seq(T) /\ Range(<<a>>) = {a}
           /\ \A a, b \in T : <<a, b>> \in Seq(T) /\ Range(<<a, b>>) = {a, b}
           /\ \A a, b, c \in T : <<a, b, c>> \in Seq(T) /\ Range(<<a, b, c>>) = {a, b, c}
<1>1. \A a, b, c \in T : Range(<<a, b, c>>) = {a, b, c}
  <2> SUFFICES ASSUME NEW a \in T, NEW b \in T, NEW c \in T
               PROVE  Range(<<a, b, c>>) = {a, b, c}
    OBVIOUS
  <2> DEFINE s == <<a, b, c>>
  <2>1. DOMAIN s = 1..3 /\ s[1] = a /\ s[2] = b /\ s[3] = c OBVIOUS
  <2> HIDE DEF s
  <2>2. \A n \in 1..3 : n = 1 \/ n = 2 \/ n = 3 OBVIOUS
  <2>3. 1 \in 1..3 /\ 2 \in 1..3 /\ 3 \in 1..3 OBVIOUS
  <2>4. Range(s) = {a, b, c} BY <2>1, <2>2, <2>3 DEF Range
  <2> QED BY <2>4 DEF s
<1> QED BY <1>1 DEF Range

(* A list without its head and with others in front.                       *)
LEMMA RangeOfPopped ==
    ASSUME NEW T, NEW s \in Seq(T), s # <<>>, NEW ops \in Seq(T)
    PROVE  /\ ops \o Tail(s) \in Seq(T) /\ Head(s) \in T /\ Head(s) \in Range(s)
           /\ Range(ops \o Tail(s)) \subseteq Range(ops) \cup Range(s)
           /\ Range(ops) \subseteq Range(ops \o Tail(s))
           /\ \A o \in Range(s) : o = Head(s) \/ o \in Range(ops \o Tail(s))
<1>1. /\ Tail(s) \in Seq(T) /\ Head(s) \in T /\ Len(Tail(s)) = Len(s) - 1
      /\ \A i \in 1..Len(Tail(s)) : Tail(s)[i] = s[i + 1]
  BY HeadTailProperties
<1>2. ops \o Tail(s) \in Seq(T) /\ Range(ops \o Tail(s)) = Range(ops) \cup Range(Tail(s))
  BY <1>1, ConcatProperties, RangeConcatenation
<1>3. Len(s) \in Nat \ {0} /\ Range(s) = {s[i] : i \in 1..Len(s)} /\ Head(s) = s[1]
  <2>1. Len(s) \in Nat \ {0} /\ Head(s) = s[1] BY EmptySeq, LenProperties
  <2> QED BY <2>1, RangeEquality
<1>4. Range(Tail(s)) = {s[i + 1] : i \in 1..(Len(s) - 1)}
  <2>1. Range(Tail(s)) = {Tail(s)[i] : i \in 1..Len(Tail(s))} BY <1>1, RangeEquality
  <2> QED BY <1>1, <2>1
<1>5. Range(Tail(s)) \subseteq Range(s)
  <2> SUFFICES ASSUME NEW i \in 1..(Len(s) - 1) PROVE s[i + 1] \in Range(s)
    BY <1>4
  <2>1. i + 1 \in 1..Len(s) BY <1>3
  <2> QED BY <1>3, <2>1
<1>6. \A o \in Range(s) : o = Head(s) \/ o \in Range(Tail(s))
  <2> SUFFICES ASSUME NEW i \in 1..Len(s), i # 1 PROVE s[i] \in Range(Tail(s))
    BY <1>3
  <2>1. i - 1 \in 1..(Len(s) - 1) /\ (i - 1) + 1 = i BY <1>3
  <2> QED BY <1>4, <2>1
<1>7. Head(s) \in Range(s) BY <1>3
<1> QED BY <1>1, <1>2, <1>5, <1>6, <1>7

-----------------------------------------------------------------------------
(* Queues of snapshots.                                                    *)

(* The elements of a queue.                                                *)
LEMMA QueueElements ==
    ASSUME NEW q \in Seq(Snapshots)
    PROVE  /\ Len(q) \in Nat /\ DOMAIN q = 1..Len(q)
           /\ \A n \in 1..Len(q) : q[n] \in Snapshots /\ q[n].id \in Tracks /\ q[n].size \in Nat
           /\ Range(q) = {q[n] : n \in 1..Len(q)} /\ Range(q) \subseteq Snapshots
<1>1. Len(q) \in Nat /\ DOMAIN q = 1..Len(q) /\ \A n \in 1..Len(q) : q[n] \in Snapshots
  BY LenProperties, ElementOfSeq
<1>2. \A s \in Snapshots : s.id \in Tracks /\ s.size \in Nat
  BY DEF Snapshots
<1>3. Range(q) = {q[n] : n \in 1..Len(q)}
  BY RangeEquality
<1> QED BY <1>1, <1>2, <1>3

(* UpsertTrack: the snapshot is the one of its track in the queue, and the *)
(* other tracks keep theirs.                                               *)
LEMMA UpsertProperties ==
    ASSUME NEW q \in Seq(Snapshots), NoDuplicates(q), NEW s \in Snapshots
    PROVE  /\ Upsert(q, s) \in Seq(Snapshots) /\ NoDuplicates(Upsert(q, s))
           /\ \A e \in Range(Upsert(q, s)) : e = s \/ (e.id # s.id /\ e \in Range(q))
<1> DEFINE r == Upsert(q, s)
<1>1. Len(q) \in Nat /\ DOMAIN q = 1..Len(q) /\ Range(q) = {q[n] : n \in 1..Len(q)}
  BY QueueElements
<1>2. CASE Has(q, s.id)
  <2> DEFINE i == IndexOf(q, s.id)
  <2>1. PICK n \in 1..Len(q) : q[n].id = s.id
    BY <1>1, <1>2 DEF Has
  <2>2. \A m \in 1..(n-1) : q[m].id # s.id
    BY <1>1, <2>1 DEF NoDuplicates
  <2>3. i \in 1..Len(q) /\ q[i].id = s.id
    BY <1>1, <2>1, <2>2 DEF IndexOf
  <2>4. r = [q EXCEPT ![i] = s]
    BY <1>2 DEF Upsert
  <2> HIDE DEF i
  <2>5. /\ [q EXCEPT ![i] = s] \in Seq(Snapshots) /\ Len([q EXCEPT ![i] = s]) = Len(q)
        /\ \A j \in 1..Len(q) : [q EXCEPT ![i] = s][j] = IF j = i THEN s ELSE q[j]
    BY <2>3, ExceptSeq
  <2> HIDE DEF r
  <2>6. /\ r \in Seq(Snapshots) /\ Len(r) = Len(q)
        /\ \A j \in 1..Len(q) : r[j] = IF j = i THEN s ELSE q[j]
    BY <2>4, <2>5
  <2>7. DOMAIN r = 1..Len(q) /\ Range(r) = {r[n_1] : n_1 \in 1..Len(q)}
    BY <2>6, QueueElements
  <2>8. NoDuplicates(r)
    BY <1>1, <2>3, <2>6, <2>7 DEF NoDuplicates
  <2>9. ASSUME NEW e \in Range(r) PROVE e = s \/ (e.id # s.id /\ e \in Range(q))
    <3>1. PICK j \in 1..Len(q) : e = r[j] BY <2>7
    <3>2. CASE j = i BY <2>6, <3>1, <3>2
    <3>3. CASE j # i
      <4>1. e = q[j] BY <2>6, <3>1, <3>3
      <4>2. q[j].id # s.id BY <1>1, <2>3, <3>3 DEF NoDuplicates
      <4> QED BY <1>1, <4>1, <4>2
    <3> QED BY <3>2, <3>3
  <2> QED BY <2>6, <2>8, <2>9 DEF r
<1>3. CASE ~Has(q, s.id)
  <2>1. r = Append(q, s)
    BY <1>3 DEF Upsert
  <2> HIDE DEF r
  <2>2. /\ r \in Seq(Snapshots) /\ Len(r) = Len(q) + 1
        /\ (\A j \in 1..Len(q) : r[j] = q[j]) /\ r[Len(q) + 1] = s
    BY <2>1, AppendProperties
  <2>3. DOMAIN r = 1..(Len(q) + 1) /\ Range(r) = {r[n_1] : n_1 \in 1..(Len(q) + 1)}
    BY <2>2, QueueElements
  <2>4. \A j \in 1..Len(q) : q[j].id # s.id
    BY <1>1, <1>3 DEF Has
  <2>5. NoDuplicates(r)
    BY <1>1, <2>2, <2>3, <2>4 DEF NoDuplicates
  <2>6. ASSUME NEW e \in Range(r) PROVE e = s \/ (e.id # s.id /\ e \in Range(q))
    <3>1. PICK j \in 1..(Len(q) + 1) : e = r[j] BY <2>3
    <3>2. CASE j = Len(q) + 1 BY <2>2, <3>1, <3>2
    <3>3. CASE j \in 1..Len(q) BY <1>1, <2>2, <2>4, <3>1, <3>3
    <3> QED BY <1>1, <3>2, <3>3
  <2> QED BY <2>2, <2>5, <2>6 DEF r
<1> QED BY <1>2, <1>3

(* RemoveTrack and endTrack take entries away and change none.             *)
LEMMA WithoutProperties ==
    ASSUME NEW q \in Seq(Snapshots), NoDuplicates(q), NEW t
    PROVE  /\ Without(q, t) \in Seq(Snapshots) /\ NoDuplicates(Without(q, t))
           /\ Range(Without(q, t)) \subseteq Range(q)
<1>1. /\ Len(q) \in Nat /\ DOMAIN q = 1..Len(q) /\ Range(q) = {q[n] : n \in 1..Len(q)}
      /\ \A n \in 1..Len(q) : q[n] \in Snapshots
  BY QueueElements
<1>2. CASE ~Has(q, t)
  BY <1>2 DEF Without
<1>3. CASE Has(q, t)
  <2> DEFINE i == IndexOf(q, t)
             r == [n \in 1..(Len(q) - 1) |-> IF n < i THEN q[n] ELSE q[n + 1]]
  <2>1. PICK n \in 1..Len(q) : q[n].id = t
    BY <1>1, <1>3 DEF Has
  <2>2. \A m \in 1..(n-1) : q[m].id # t
    BY <1>1, <2>1 DEF NoDuplicates
  <2>3. i \in 1..Len(q)
    BY <1>1, <2>1, <2>2 DEF IndexOf
  <2>4. Without(q, t) = r
    BY <1>3 DEF Without
  <2> HIDE DEF i
  <2>5. Len(q) - 1 \in Nat /\ r \in [1..(Len(q) - 1) -> Snapshots]
    BY <1>1, <2>3
  <2>6. r \in Seq(Snapshots)
    BY <2>5, SeqDef
  <2>7. /\ DOMAIN r = 1..(Len(q) - 1)
        /\ \A m \in 1..(Len(q) - 1) : r[m] = IF m < i THEN q[m] ELSE q[m + 1]
    OBVIOUS
  <2> HIDE DEF r
  <2> DEFINE from(m) == IF m < i THEN m ELSE m + 1
  <2>8. /\ \A m \in 1..(Len(q) - 1) : from(m) \in 1..Len(q) /\ r[m] = q[from(m)]
        /\ \A m, k \in 1..(Len(q) - 1) : from(m) = from(k) => m = k
    BY <1>1, <2>3, <2>7
  <2> HIDE DEF from
  <2>9. NoDuplicates(r)
    BY <1>1, <2>7, <2>8 DEF NoDuplicates
  <2>10. Range(r) \subseteq Range(q)
    BY <1>1, <2>7, <2>8 DEF Range
  <2> QED BY <2>4, <2>6, <2>9, <2>10
<1> QED BY <1>2, <1>3

-----------------------------------------------------------------------------
(* What planFull and Reconcile compute.                                    *)

(* Used: the bytes planned for the first n tracks.                         *)
LEMMA UsedProperties ==
    ASSUME NEW es \in Seq(Snapshots), NEW b \in Nat
    PROVE  LET u == Used(es, b) IN
             /\ u[0] = 0
             /\ \A n \in 1..Len(es) : u[n] = u[n-1] +
                  IF IsLong(es[n]) /\ u[n-1] + es[n].size > b THEN 0 ELSE es[n].size
<1> DEFINE N == Len(es)
           More(n, v) == v + IF IsLong(es[n]) /\ v + es[n].size > b THEN 0 ELSE es[n].size
           Is(g) == g = [n \in 0..N |-> IF n = 0 THEN 0 ELSE More(n, g[n-1])]
           step == [n \in 1..N |-> [v \in Nat |-> More(n, v)]]
           z == 0
<1>1. N \in Nat /\ \A n \in 1..N : es[n].size \in Nat
  BY QueueElements
<1>2. \A n \in 1..N, v \in Nat : More(n, v) \in Nat
  BY <1>1
<1>3. z \in Nat OBVIOUS
<1>4. Used(es, b) = CHOOSE g : Is(g)
  BY DEF Used
<1> HIDE DEF N, More, z
<1>5. /\ step \in [1..N -> [Nat -> Nat]]
      /\ \A n \in 1..N, v \in Nat : step[n][v] = More(n, v)
  BY <1>1, <1>2
<1> HIDE DEF step
<1>6. PICK g \in [0..N -> Nat] : Iterated(g, N, z, step)
  BY <1>1, <1>3, <1>5, Iterates
<1>7. Is(g)
  <2>1. g[0] = 0 /\ \A n \in 1..N : g[n] = step[n][g[n-1]]
    BY <1>6 DEF Iterated, z
  <2>2. \A n \in 1..N : n - 1 \in 0..N /\ g[n-1] \in Nat BY <1>1
  <2>3. \A n \in 1..N : g[n] = More(n, g[n-1]) BY <1>5, <2>1, <2>2
  <2>4. \A n \in 0..N : g[n] = IF n = 0 THEN 0 ELSE More(n, g[n-1])
    BY <1>1, <2>1, <2>3
  <2>5. g = [n \in 0..N |-> g[n]] OBVIOUS
  <2> QED BY <2>4, <2>5
<1> DEFINE u == Used(es, b)
<1>8. Is(u)
  BY <1>4, <1>7
<1> HIDE DEF u
<1>9. u[0] = 0 /\ \A n \in 1..N : u[n] = More(n, u[n-1])
  BY <1>1, <1>8
<1> QED BY <1>9 DEF u, N, More

(* planFull keeps the long tracks that fit, and no others.                 *)
LEMMA PlanIsGreedy ==
    ASSUME NEW es \in Seq(Snapshots), NoDuplicates(es), NEW b \in Nat
    PROVE  /\ planFull(es, b) \in SUBSET Long
           /\ IsGreedy(planFull(es, b), es, b)
<1> DEFINE N == Len(es)
           full == planFull(es, b)
           kept == Kept(full, es)
           u == Used(es, b)
           p == PrefixSums(kept, N)
<1>1. N \in Nat /\ DOMAIN es = 1..N /\ \A n \in 1..N : es[n].size \in Nat
  BY QueueElements
<1>2. \A n \in 1..N : es[n].id \in full <=> IsLong(es[n]) /\ u[n-1] + es[n].size <= b
  BY <1>1 DEF planFull, NoDuplicates
<1>3. full \in SUBSET Long
  BY DEF planFull, IsLong
<1>4. kept \in [1..N -> Nat] /\ \A n \in 1..N : kept[n] =
        IF IsLong(es[n]) /\ es[n].id \notin full THEN 0 ELSE es[n].size
  BY <1>1 DEF Kept
<1> HIDE DEF full
<1>5. /\ u[0] = 0
      /\ \A n \in 1..N : u[n] = u[n-1] +
           IF IsLong(es[n]) /\ u[n-1] + es[n].size > b THEN 0 ELSE es[n].size
  BY UsedProperties
<1> HIDE DEF kept, u, N
<1>6. /\ p \in [0..N -> Nat] /\ p[0] = 0
      /\ \A n \in 1..N : p[n] = p[n-1] + kept[n]
  BY <1>1, <1>4, PrefixSumsProperties
<1> HIDE DEF p
<1> DEFINE S == {n \in 0..N : u[n] = p[n]}
<1>7. \A n \in 0..N : n \in S
  <2>1. 0 \in S BY <1>1, <1>5, <1>6
  <2>2. ASSUME NEW n \in 0..(N-1), n \in S PROVE n + 1 \in S
    <3>1. n + 1 \in 1..N /\ n + 1 \in 0..N /\ (n + 1) - 1 = n BY <1>1
    <3>2. u[n] = p[n] /\ p[n] \in Nat BY <1>6, <2>2
    <3>3. CASE IsLong(es[n+1]) /\ u[n] + es[n+1].size > b
      <4>1. u[n] \in Nat /\ es[n+1].size \in Nat BY <1>1, <3>1, <3>2
      <4>2. es[n+1].id \notin full
        <5>1. ~(u[n] + es[n+1].size <= b) BY <3>3, <4>1
        <5> QED BY <1>2, <3>1, <5>1
      <4>3. kept[n+1] = 0 BY <1>4, <3>1, <3>3, <4>2
      <4> QED BY <1>5, <1>6, <3>1, <3>2, <3>3, <4>1, <4>3
    <3>4. CASE ~(IsLong(es[n+1]) /\ u[n] + es[n+1].size > b)
      <4>1. kept[n+1] = es[n+1].size BY <1>1, <1>2, <1>4, <3>1, <3>2, <3>4
      <4> QED BY <1>5, <1>6, <3>1, <3>2, <3>4, <4>1
    <3> QED BY <3>3, <3>4
  <2> HIDE DEF S
  <2> QED BY <1>1, <2>1, <2>2, Induction
<1>8. ASSUME NEW n \in 1..N, IsLong(es[n])
      PROVE  es[n].id \in full <=> es[n].size + p[n-1] <= b
  <2>1. n - 1 \in 0..N BY <1>1
  <2>2. u[n-1] = p[n-1] /\ p[n-1] \in Nat BY <1>6, <1>7, <2>1
  <2> QED BY <1>1, <1>2, <1>8, <2>2
<1>9. IsGreedy(full, es, b)
  BY <1>1, <1>8 DEF IsGreedy, p, kept, N
<1> QED BY <1>3, <1>9 DEF full

(* Reconcile orders what the plan says of each long track, and nothing     *)
(* else; the track that plays is not evicted.                              *)
LEMMA DecisionsProperties ==
    ASSUME NEW es \in Seq(Snapshots), NEW full, NEW now
    PROVE  /\ Decisions(es, full, now) \in Seq(Ops)
           /\ \A o \in Range(Decisions(es, full, now)) :
                \E e \in Range(es) : IsLong(e) /\
                  \/ e.id \in full /\ o = TrackOp("ensure", e.id)
                  \/ e.id \notin full /\ o = TrackOp("evict", e.id)
           /\ \A e \in Range(es) : IsLong(e) =>
                /\ e.id \in full => TrackOp("ensure", e.id) \in Range(Decisions(es, full, now))
                /\ e.id \notin full /\ e.id # now =>
                     TrackOp("evict", e.id) \in Range(Decisions(es, full, now))
<1> DEFINE N == Len(es)
           Ordered(n) == IsLong(es[n]) /\ (es[n].id \in full \/ es[n].id # now)
           op(n) == TrackOp(IF es[n].id \in full THEN "ensure" ELSE "evict", es[n].id)
           More(n, v) == IF Ordered(n) THEN Append(v, op(n)) ELSE v
           Is(g) == g = [n \in 0..N |-> IF n = 0 THEN <<>> ELSE More(n, g[n-1])]
           V == Seq(Ops)
           step == [n \in 1..N |-> [v \in V |-> More(n, v)]]
           z == <<>>
<1>1. /\ N \in Nat /\ \A n \in 1..N : es[n].id \in Tracks
      /\ Range(es) = {es[n] : n \in 1..N}
  BY QueueElements
<1>2. \A n \in 1..N : op(n) \in Ops
  BY <1>1 DEF TrackOp, Ops
<1>3. z \in V
  BY EmptySeq
<1>4. Decisions(es, full, now) = (CHOOSE g : Is(g))[N]
  BY DEF Decisions
<1>5. \A n \in 1..N : Ordered(n) =>
        IsLong(es[n]) /\ (\/ es[n].id \in full /\ op(n) = TrackOp("ensure", es[n].id)
                          \/ es[n].id \notin full /\ op(n) = TrackOp("evict", es[n].id))
  OBVIOUS
<1>6. \A n \in 1..N : IsLong(es[n]) =>
        /\ es[n].id \in full => Ordered(n) /\ op(n) = TrackOp("ensure", es[n].id)
        /\ es[n].id \notin full /\ es[n].id # now =>
             Ordered(n) /\ op(n) = TrackOp("evict", es[n].id)
  OBVIOUS
<1> HIDE DEF N, Ordered, op, z
<1>7. \A n \in 1..N, v \in V : More(n, v) \in V
  BY <1>2, AppendProperties
<1> HIDE DEF V, More
<1>8. /\ step \in [1..N -> [V -> V]]
      /\ \A n \in 1..N, v \in V : step[n][v] = More(n, v)
  BY <1>7
<1> HIDE DEF step
<1>9. PICK g \in [0..N -> V] : Iterated(g, N, z, step)
  BY <1>1, <1>3, <1>8, Iterates
<1>10. Is(g)
  <2>1. g[0] = <<>> /\ \A n \in 1..N : g[n] = step[n][g[n-1]]
    BY <1>9 DEF Iterated, z
  <2>2. \A n \in 1..N : n - 1 \in 0..N /\ g[n-1] \in V BY <1>1
  <2>3. \A n \in 1..N : g[n] = More(n, g[n-1]) BY <1>8, <2>1, <2>2
  <2>4. \A n \in 0..N : g[n] = IF n = 0 THEN <<>> ELSE More(n, g[n-1])
    BY <1>1, <2>1, <2>3
  <2>5. g = [n \in 0..N |-> g[n]] OBVIOUS
  <2> QED BY <2>4, <2>5
<1> DEFINE d == CHOOSE h : Is(h)
<1>11. Is(d)
  BY <1>10
<1> HIDE DEF d
<1>12. d[0] = <<>> /\ \A n \in 1..N : d[n] = More(n, d[n-1])
  BY <1>1, <1>11
<1> DEFINE Has1(n) == Range(d[n]) = {op(k) : k \in {m \in 1..n : Ordered(m)}}
           S == {n \in 0..N : d[n] \in V /\ Has1(n)}
<1>13. \A n \in 0..N : n \in S
  <2>1. 0 \in S
    <3>1. Range(<<>>) = {} /\ <<>> \in V BY <1>3 DEF Range, z
    <3>2. {m \in 1..0 : Ordered(m)} = {} OBVIOUS
    <3> QED BY <1>1, <1>12, <3>1, <3>2
  <2>2. ASSUME NEW n \in 0..(N-1), n \in S PROVE n + 1 \in S
    <3>1. n + 1 \in 1..N /\ n + 1 \in 0..N /\ (n + 1) - 1 = n BY <1>1
    <3>2. d[n+1] = More(n+1, d[n]) BY <1>12, <3>1
    <3>3. d[n] \in V /\ Has1(n) BY <2>2
    <3>4. d[n+1] \in V BY <1>7, <3>1, <3>2, <3>3
    <3>5. Has1(n+1)
      <4>1. CASE Ordered(n+1)
        <5> DEFINE s == d[n]
                   a == op(n+1)
        <5>1. s \in Seq(Ops) /\ a \in Ops BY <1>2, <3>1, <3>3 DEF V
        <5>2. d[n+1] = Append(s, a) BY <3>2, <4>1 DEF More
        <5> HIDE DEF s, a
        <5>3. Range(Append(s, a)) = Range(s) \cup {a}
          <6>1. Append(s, a) \in Seq(Ops) BY <5>1, AppendProperties
          <6>2. Range(Append(s, a)) = {Append(s, a)[k] : k \in 1..Len(Append(s, a))}
            BY <6>1, RangeEquality
          <6>3. Range(s) = {s[k] : k \in 1..Len(s)} BY <5>1, RangeEquality
          <6>4. /\ Len(s) \in Nat /\ Len(Append(s, a)) = Len(s) + 1
                /\ \A k \in 1..Len(s) : Append(s, a)[k] = s[k]
                /\ Append(s, a)[Len(s) + 1] = a
            BY <5>1, AppendProperties, LenProperties
          <6> QED BY <6>2, <6>3, <6>4
        <5>4. {m \in 1..(n+1) : Ordered(m)} = {m \in 1..n : Ordered(m)} \cup {n+1}
          BY <3>1, <4>1
        <5>5. Range(d[n+1]) = {op(k) : k \in {m \in 1..n : Ordered(m)}} \cup {op(n+1)}
          BY <3>3, <5>2, <5>3 DEF s, a
        <5> QED BY <5>4, <5>5
      <4>2. CASE ~Ordered(n+1)
        <5>1. d[n+1] = d[n] BY <3>2, <4>2 DEF More
        <5>2. {m \in 1..(n+1) : Ordered(m)} = {m \in 1..n : Ordered(m)}
          BY <3>1, <4>2
        <5> QED BY <3>3, <5>1, <5>2
      <4> QED BY <4>1, <4>2
    <3> QED BY <3>1, <3>4, <3>5
  <2> HIDE DEF S
  <2> QED BY <1>1, <2>1, <2>2, Induction
<1>14. d[N] \in V /\ Has1(N)
  BY <1>1, <1>13
<1>15. Decisions(es, full, now) = d[N]
  BY <1>4 DEF d
<1> DEFINE r == d[N]
<1>16. r \in V /\ Range(r) = {op(k) : k \in {m \in 1..N : Ordered(m)}}
  BY <1>14
<1> HIDE DEF r
<1>17. ASSUME NEW o \in Range(r)
       PROVE  \E e \in Range(es) : IsLong(e) /\
                  \/ e.id \in full /\ o = TrackOp("ensure", e.id)
                  \/ e.id \notin full /\ o = TrackOp("evict", e.id)
  <2>1. PICK k \in 1..N : Ordered(k) /\ o = op(k) BY <1>16
  <2>2. es[k] \in Range(es) BY <1>1
  <2> QED BY <1>5, <2>1, <2>2
<1>18. ASSUME NEW e \in Range(es), IsLong(e)
       PROVE  /\ e.id \in full => TrackOp("ensure", e.id) \in Range(r)
              /\ e.id \notin full /\ e.id # now => TrackOp("evict", e.id) \in Range(r)
  <2>1. PICK k \in 1..N : e = es[k] BY <1>1
  <2>2. Ordered(k) => op(k) \in Range(r) BY <1>16
  <2> QED BY <1>6, <1>18, <2>1, <2>2
<1> QED BY <1>15, <1>16, <1>17, <1>18 DEF r, V

-----------------------------------------------------------------------------
(* What the goroutines have before them.  The invariant says only what is  *)
(* in their lists, so a step is what it takes out and what it puts in.     *)
Moved(gone, new) == /\ new \subseteq Pending' /\ Pending' \subseteq Pending \cup new
                    /\ Pending \ gone \subseteq Pending'

TrackOps == {"ensure", "start", "ready", "evict", "unlink", "emit", "clean", "delete"}

(* Operations are told apart by their names and what they are about.       *)
LEMMA OpFields ==
    /\ \A op, t : TrackOp(op, t).op = op /\ TrackOp(op, t).track = t
    /\ \A op, q : RoomOp(op, q).op = op /\ RoomOp(op, q).room = q
    /\ \A q, s : Tell(q, s).op = "tell" /\ Tell(q, s).room = q /\ Tell(q, s).snap = s
    /\ \A op \in TrackOps, t \in Tracks : TrackOp(op, t) \in Ops
    /\ \A op \in {"maybe", "plan"}, q \in Rooms : RoomOp(op, q) \in Ops
    /\ \A q \in Rooms, s \in Snapshots : Tell(q, s) \in Ops
    /\ \A o \in Ops : \/ o.op \in TrackOps /\ o.track \in Tracks /\ o = TrackOp(o.op, o.track)
                      \/ o.op \in {"maybe", "plan"} /\ o.room \in Rooms
                      \/ o.op = "tell" /\ o.room \in Rooms /\ o.snap \in Snapshots
<1> USE DEF TrackOp, RoomOp, Tell, Ops, TrackOps
<1>1. \A op, t : TrackOp(op, t).op = op /\ TrackOp(op, t).track = t
  OBVIOUS
<1>2. \A op, q : RoomOp(op, q).op = op /\ RoomOp(op, q).room = q
  OBVIOUS
<1>3. \A q, s : Tell(q, s).op = "tell" /\ Tell(q, s).room = q /\ Tell(q, s).snap = s
  OBVIOUS
<1>4. \A op \in TrackOps, t \in Tracks : TrackOp(op, t) \in Ops
  OBVIOUS
<1>5. \A op \in {"maybe", "plan"}, q \in Rooms : RoomOp(op, q) \in Ops
  OBVIOUS
<1>6. \A q \in Rooms, s \in Snapshots : Tell(q, s) \in Ops
  OBVIOUS
<1>7. ASSUME NEW o \in Ops
      PROVE  \/ o.op \in TrackOps /\ o.track \in Tracks /\ o = TrackOp(o.op, o.track)
             \/ o.op \in {"maybe", "plan"} /\ o.room \in Rooms
             \/ o.op = "tell" /\ o.room \in Rooms /\ o.snap \in Snapshots
  OBVIOUS
<1> QED BY <1>1, <1>2, <1>3, <1>4, <1>5, <1>6, <1>7

(* What is pending is an operation.                                        *)
LEMMA PendingOps ==
    ASSUME work \in [Goroutines -> Seq(Ops)]
    PROVE  Pending \subseteq Ops
BY RangeOfSeq DEF Pending

(* An idle goroutine begins with a list.                                   *)
LEMMA Begun ==
    ASSUME work \in [Goroutines -> Seq(Ops)], NEW ops \in Seq(Ops), Begin(ops)
    PROVE  work' \in [Goroutines -> Seq(Ops)] /\ Moved({}, Range(ops))
<1> DEFINE g == CHOOSE h \in Idle : TRUE
<1>1. g \in Goroutines /\ work[g] = <<>>
  BY DEF Begin, Idle
<1>2. work' = [work EXCEPT ![g] = ops]
  BY DEF Begin
<1> HIDE DEF g
<1>3. /\ work' \in [Goroutines -> Seq(Ops)] /\ work'[g] = ops
      /\ \A h \in Goroutines : h # g => work'[h] = work[h]
  BY <1>1, <1>2, Updated
<1>4. Range(work[g]) = {}
  BY <1>1 DEF Range
<1> QED BY <1>1, <1>3, <1>4 DEF Moved, Pending

(* A goroutine takes its first operation and puts others in its place.     *)
LEMMA Popped ==
    ASSUME work \in [Goroutines -> Seq(Ops)], NEW ops \in Seq(Ops),
           NEW g \in Goroutines, work[g] # <<>>, Pop(g, ops)
    PROVE  /\ work' \in [Goroutines -> Seq(Ops)]
           /\ Moved({Head(work[g])}, Range(ops))
           /\ Head(work[g]) \in Pending
<1> DEFINE s == work[g]
           r == ops \o Tail(s)
<1>1. s \in Seq(Ops) /\ s # <<>>
  OBVIOUS
<1>2. work' = [work EXCEPT ![g] = r]
  BY DEF Pop
<1> HIDE DEF s
<1>3. /\ r \in Seq(Ops) /\ Head(s) \in Range(s)
      /\ Range(r) \subseteq Range(ops) \cup Range(s)
      /\ Range(ops) \subseteq Range(r)
      /\ \A o \in Range(s) : o = Head(s) \/ o \in Range(r)
  BY <1>1, RangeOfPopped
<1> HIDE DEF r
<1>4. /\ work' \in [Goroutines -> Seq(Ops)] /\ work'[g] = r
      /\ \A h \in Goroutines : h # g => work'[h] = work[h]
  BY <1>2, <1>3, Updated
<1>5. Head(s) \in Pending /\ Range(ops) \subseteq Pending'
  BY <1>3, <1>4 DEF Pending, s
<1>6. Pending' \subseteq Pending \cup Range(ops)
  BY <1>3, <1>4 DEF Pending, s
<1>7. Pending \ {Head(s)} \subseteq Pending'
  <2> SUFFICES ASSUME NEW h \in Goroutines, NEW o \in Range(work[h]), o # Head(s)
               PROVE  o \in Pending'
    BY DEF Pending
  <2>1. CASE h = g
    <3>1. o \in Range(r) BY <1>3, <2>1 DEF s
    <3> QED BY <1>4, <3>1 DEF Pending
  <2>2. CASE h # g
    <3>1. o \in Range(work'[h]) BY <1>4, <2>2
    <3> QED BY <3>1 DEF Pending
  <2> QED BY <2>1, <2>2
<1> QED BY <1>4, <1>5, <1>6, <1>7 DEF Moved, s

-----------------------------------------------------------------------------
(* Which changes leave the parts of the invariant alone.                   *)

(* Files: none of the reasons to keep one goes away.                       *)
LEMMA FilesKept ==
    ASSUME NoOrphanFile, UNCHANGED <<track, desired, job, file>>,
           \A t \in Tracks : /\ TrackOp("ready", t) \in Pending => TrackOp("ready", t) \in Pending'
                             /\ TrackOp("unlink", t) \in Pending => TrackOp("unlink", t) \in Pending'
    PROVE  NoOrphanFile'
BY DEF NoOrphanFile

(* What rooms are told: nothing more or less is on its way.                *)
LEMMA LatestKept ==
    ASSUME Latest, UNCHANGED <<track, notify, astray>>,
           \A t \in Tracks : Coming(t) => Coming(t)',
           \A t \in Tracks : Tells(t)' = Tells(t),
           \A t \in Tracks : track[t] # Nil =>
             Range(queue'[notify[t]]) \subseteq Range(queue[notify[t]])
    PROVE  Latest'
BY DEF Latest

(* Plans: another one is to come.                                          *)
LEMMA WillReplan ==
    ASSUME NEW o \in Pending', o.op \in {"tell", "plan"}
    PROVE  Planned'
BY DEF Planned, Replans

(* A step that takes or brings no tell and takes no emit.                  *)
LEMMA SameTells ==
    ASSUME NEW gone, NEW new, Moved(gone, new),
           \A o \in gone : o.op \notin {"tell", "emit"}, \A o \in new : o.op # "tell"
    PROVE  \A t \in Tracks : Tells(t)' = Tells(t) /\ (Coming(t) => Coming(t)')
<1> SUFFICES ASSUME NEW t \in Tracks
             PROVE  Tells(t)' = Tells(t) /\ (Coming(t) => Coming(t)')
  OBVIOUS
<1>1. TrackOp("emit", t) \notin gone
  BY OpFields
<1>2. Coming(t) => Coming(t)'
  BY <1>1 DEF Coming, Moved
<1>3. Tells(t)' = Tells(t)
  BY DEF Tells, Moved
<1> QED BY <1>2, <1>3

(* Plans: what was decided stays decided.                                  *)
LEMMA PlanKept ==
    ASSUME Planned, TypeOK, NEW gone, NEW new, Moved(gone, new),
           UNCHANGED <<last, queue, budget>>,
           \A o \in gone : o.op \notin {"tell", "plan", "ensure", "evict"},
           \A o \in new : o.op \notin {"ensure", "evict"},
           \A t \in Tracks : track'[t] # Nil => track[t] # Nil /\ desired'[t] = desired[t],
           \A q \in Rooms : playing[q] # Nil => playing'[q] = playing[q]
    PROVE  Planned'
<1> SUFFICES ASSUME last # Nil, ~Replans'
             PROVE  \E full \in SUBSET Long : Follows(full, last)'
  BY DEF Planned
<1>1. ~Replans
  BY DEF Replans, Moved
<1>2. PICK full \in SUBSET Long : Follows(full, last)
  BY <1>1 DEF Planned
<1>3. \A t \in Tracks : /\ TrackOp("ensure", t) \in Pending <=> TrackOp("ensure", t) \in Pending'
                        /\ TrackOp("evict", t) \in Pending <=> TrackOp("evict", t) \in Pending'
  <2> TAKE t \in Tracks
  <2>1. TrackOp("ensure", t).op = "ensure" /\ TrackOp("evict", t).op = "evict"
    BY OpFields
  <2> QED BY <2>1 DEF Moved
<1>4. last \in Rooms /\ queue[last] \in Seq(Snapshots)
  BY DEF TypeOK
<1>5. ASSUME NEW e \in Range(queue[last]), IsLong(e), track'[e.id] # Nil
      PROVE  /\ e.id \in full => desired'[e.id] \/ TrackOp("ensure", e.id) \in Pending'
             /\ e.id \notin full /\ desired'[e.id] =>
                  e.id = playing'[last] \/ TrackOp("evict", e.id) \in Pending'
  <2>1. e.id \in Tracks
    BY <1>4, QueueElements DEF Snapshots
  <2>2. track[e.id] # Nil /\ desired'[e.id] = desired[e.id]
    BY <1>5, <2>1
  <2>3. /\ e.id \in full => desired[e.id] \/ TrackOp("ensure", e.id) \in Pending
        /\ e.id \notin full /\ desired[e.id] =>
             e.id = playing[last] \/ TrackOp("evict", e.id) \in Pending
    BY <1>2, <1>5, <2>2 DEF Follows
  <2>4. e.id = playing[last] => e.id = playing'[last]
    BY <1>4, <2>1, CacheAssumption
  <2> QED BY <1>3, <2>1, <2>2, <2>3, <2>4
<1>6. Follows(full, last)'
  BY <1>2, <1>3, <1>5 DEF Follows
<1> QED BY <1>6

(* A snapshot is sent: it is the latest, and the only one under way unless *)
(* the track is astray.                                                    *)
LEMMA SentLatest ==
    ASSUME Latest, NEW t \in Tracks, NEW q, NEW gone,
           \A u \in Tracks : u # t => track'[u] = track[u] /\ notify'[u] = notify[u],
           track'[t].id = t, Sent(t, q), UNCHANGED queue,
           Moved(gone, {Tell(q, track'[t])}), gone \subseteq {TrackOp("emit", t)}
    PROVE  Latest'
<1> DEFINE s == track'[t]
           tell == Tell(q, s)
<1>1. tell.op = "tell" /\ tell.room = q /\ tell.snap = s /\ s.id = t
  BY OpFields
<1>2. tell \in Pending' /\ Pending' \subseteq Pending \cup {tell} /\ Pending \ gone \subseteq Pending'
  BY DEF Moved
<1> HIDE DEF tell
<1>3. \A o \in gone : o.op = "emit" /\ o.track = t
  BY OpFields
<1> SUFFICES ASSUME NEW u \in Tracks, track'[u] # Nil, u \notin astray'
             PROVE  /\ \A o \in Tells(u)' : o.room = notify'[u] /\ (o.snap = track'[u] \/ Coming(u)')
                    /\ \/ Coming(u)' \/ Tells(u)' # {}
                       \/ \A e \in Range(queue'[notify'[u]]) : e.id = u => e = track'[u]
  BY DEF Latest
<1>4. CASE u = t
  <2>1. q = notify'[t] /\ \A o \in Pending : ~(o.op = "tell" /\ o.snap.id = t)
    BY <1>4 DEF Sent
  <2>2. Tells(t)' = {tell}
    BY <1>1, <1>2, <2>1 DEF Tells
  <2> QED BY <1>1, <1>4, <2>1, <2>2
<1>5. CASE u # t
  <2>1. u \notin astray /\ track'[u] = track[u] /\ notify'[u] = notify[u]
    BY <1>5 DEF Sent
  <2>2. Tells(u)' = Tells(u)
    BY <1>1, <1>2, <1>3, <1>5 DEF Tells
  <2>3. Coming(u) => Coming(u)'
    BY <1>2, <1>3, <1>5, OpFields DEF Coming
  <2> QED BY <2>1, <2>2, <2>3 DEF Latest
<1> QED BY <1>4, <1>5

(* Snapshots and their fields.                                             *)
LEMMA SnapshotFields ==
    /\ \A t \in Tracks, st \in Statuses, url \in {"none", "opus", "m3u8", "m4a"}, n \in Nat :
         LET s == Snapshot(t, st, url, n) IN
           /\ s \in Snapshots /\ s # Nil /\ s.id = t /\ s.url = url
    /\ \A s \in Snapshots : s.id \in Tracks /\ s.status \in Statuses /\ s.size \in Nat
<1>1. ASSUME NEW t \in Tracks, NEW st \in Statuses,
             NEW url \in {"none", "opus", "m3u8", "m4a"}, NEW n \in Nat
      PROVE  LET s == Snapshot(t, st, url, n) IN
               s \in Snapshots /\ s # Nil /\ s.id = t /\ s.url = url
  <2> DEFINE s == Snapshot(t, st, url, n)
  <2>1. s \in Snapshots BY DEF Snapshot, Snapshots
  <2>2. s # Nil BY <2>1, CacheAssumption
  <2>3. s.id = t /\ s.url = url BY DEF Snapshot
  <2> QED BY <2>1, <2>2, <2>3
<1>2. \A s \in Snapshots : s.id \in Tracks /\ s.status \in Statuses /\ s.size \in Nat
  BY DEF Snapshots
<1> QED BY <1>1, <1>2

-----------------------------------------------------------------------------
(* The requests, and the goroutines of the pipeline.                       *)

(* A room changes and plans again.                                         *)
LEMMA RoomRequest ==
    ASSUME IInv, NEW ops \in Seq(Ops), Begin(ops), NEW r \in Rooms,
           UNCHANGED <<media, history>>, requests' \in 0..MaxRequests,
           queue' \in [Rooms -> Seq(Snapshots)],
           \A q \in Rooms : NoDuplicates(queue'[q]) /\ Range(queue'[q]) \subseteq Range(queue[q]),
           playing' \in [Rooms -> Tracks \cup {Nil}], budget' \in [Rooms -> Budgets],
           RoomOp("plan", r) \in Range(ops), \A o \in Range(ops) : o.op # "tell"
    PROVE  IInv'
<1> USE DEF media, history, IInv
<1>1. work' \in [Goroutines -> Seq(Ops)] /\ Moved({}, Range(ops))
  BY Begun DEF CacheInv, TypeOK
<1>2. TypeOK'
  BY <1>1 DEF CacheInv, TypeOK
<1>3. FullIsDesired' /\ Asked'
  BY DEF CacheInv, FullIsDesired, Asked
<1>4. NoOrphanFile'
  BY <1>1, FilesKept DEF Moved
<1>5. Latest'
  <2>1. \A t \in Tracks : Tells(t)' = Tells(t) /\ (Coming(t) => Coming(t)')
    BY <1>1, SameTells
  <2>2. \A t \in Tracks : track[t] # Nil => notify[t] \in Rooms
    BY DEF CacheInv, TypeOK, Asked
  <2> QED BY <2>1, <2>2, LatestKept
<1>6. Planned'
  <2>1. RoomOp("plan", r) \in Pending' BY <1>1 DEF Moved
  <2> QED BY <2>1, OpFields, WillReplan
<1> QED BY <1>2, <1>3, <1>4, <1>5, <1>6 DEF CacheInv

LEMMA RequestStep ==
    ASSUME IInv, NEW q \in Rooms
    PROVE  /\ \A t \in Tracks : RemoveTrack(q, t) => IInv'
           /\ \A b \in Budgets : SetSettings(q, b) => IInv'
           /\ endTrack(q) => IInv'
<1> DEFINE plan == RoomOp("plan", q)
           maybe == RoomOp("maybe", q)
<1>1. plan \in Ops /\ plan.op = "plan" /\ maybe \in Ops /\ maybe.op = "maybe"
  BY OpFields
<1>2. TypeOK
  BY DEF IInv, CacheInv
<1> HIDE DEF maybe
<1>3. queue[q] \in Seq(Snapshots) /\ NoDuplicates(queue[q])
  BY <1>2 DEF TypeOK
<1>4. ASSUME Request PROVE requests' \in 0..MaxRequests
  BY <1>2, <1>4, CacheAssumption DEF Request, TypeOK
<1>5. ASSUME NEW t, queue' = [queue EXCEPT ![q] = Without(@, t)]
      PROVE  /\ queue' \in [Rooms -> Seq(Snapshots)]
             /\ \A r \in Rooms : NoDuplicates(queue'[r]) /\ Range(queue'[r]) \subseteq Range(queue[r])
  <2> DEFINE w == Without(queue[q], t)
  <2>1. w \in Seq(Snapshots) /\ NoDuplicates(w) /\ Range(w) \subseteq Range(queue[q])
    BY <1>3, WithoutProperties
  <2>2. queue' = [queue EXCEPT ![q] = w] BY <1>5
  <2> HIDE DEF w
  <2>3. /\ queue' \in [Rooms -> Seq(Snapshots)] /\ queue'[q] = w
        /\ \A r \in Rooms : r # q => queue'[r] = queue[r]
    BY <1>2, <2>1, <2>2, Updated DEF TypeOK
  <2> QED BY <1>2, <2>1, <2>3 DEF TypeOK
<1>6. <<plan>> \in Seq(Ops) /\ Range(<<plan>>) = {plan}
  BY <1>1, ShortLists
<1>7. ASSUME NEW t \in Tracks, RemoveTrack(q, t) PROVE IInv'
  <2>1. queue' = [queue EXCEPT ![q] = Without(@, t)] /\ Begin(<<plan>>) /\ Request
        /\ UNCHANGED <<media, playing, budget, history>>
    BY <1>7 DEF RemoveTrack
  <2>2. playing' \in [Rooms -> Tracks \cup {Nil}] /\ budget' \in [Rooms -> Budgets]
    BY <1>2, <2>1 DEF TypeOK
  <2> DEFINE ops == <<plan>>
  <2>3. ops \in Seq(Ops) /\ RoomOp("plan", q) \in Range(ops) /\ \A o \in Range(ops) : o.op # "tell"
    BY <1>1, <1>6
  <2>4. Begin(ops) BY <2>1
  <2> HIDE DEF ops, plan
  <2> QED BY <1>4, <1>5, <2>1, <2>2, <2>3, <2>4, RoomRequest
<1>8. ASSUME NEW b \in Budgets, SetSettings(q, b) PROVE IInv'
  <2>1. budget' = [budget EXCEPT ![q] = b] /\ Begin(<<plan>>) /\ Request
        /\ UNCHANGED <<media, queue, playing, history>>
    BY <1>8 DEF SetSettings
  <2>2. playing' \in [Rooms -> Tracks \cup {Nil}] /\ budget' \in [Rooms -> Budgets]
    BY <1>2, <2>1, Updated DEF TypeOK
  <2>3. /\ queue' \in [Rooms -> Seq(Snapshots)]
        /\ \A r \in Rooms : NoDuplicates(queue'[r]) /\ Range(queue'[r]) \subseteq Range(queue[r])
    BY <1>2, <2>1 DEF TypeOK
  <2> DEFINE ops == <<plan>>
  <2>4. ops \in Seq(Ops) /\ RoomOp("plan", q) \in Range(ops) /\ \A o \in Range(ops) : o.op # "tell"
    BY <1>1, <1>6
  <2>5. Begin(ops) BY <2>1
  <2> HIDE DEF ops, plan
  <2> QED BY <1>4, <2>1, <2>2, <2>3, <2>4, <2>5, RoomRequest
<1>9. ASSUME endTrack(q) PROVE IInv'
  <2> DEFINE clean == TrackOp("clean", playing[q])
             ops == <<clean, maybe, plan>>
  <2>1. /\ queue' = [queue EXCEPT ![q] = Without(@, playing[q])] /\ Begin(ops) /\ Request
        /\ playing[q] # Nil /\ playing' = [playing EXCEPT ![q] = Nil]
        /\ UNCHANGED <<media, budget, history>>
    BY <1>9 DEF endTrack, maybe
  <2>2. playing' \in [Rooms -> Tracks \cup {Nil}] /\ budget' \in [Rooms -> Budgets]
    BY <1>2, <2>1, Updated DEF TypeOK
  <2>3. clean \in Ops /\ clean.op = "clean"
    BY <1>2, <2>1, OpFields DEF TypeOK, TrackOps
  <2> HIDE DEF clean
  <2>4. ops \in Seq(Ops) /\ Range(ops) = {clean, maybe, plan}
    BY <1>1, <2>3, ShortLists
  <2>5. RoomOp("plan", q) \in Range(ops) /\ \A o \in Range(ops) : o.op # "tell"
    BY <1>1, <2>3, <2>4
  <2>6. /\ queue' \in [Rooms -> Seq(Snapshots)]
        /\ \A r \in Rooms : NoDuplicates(queue'[r]) /\ Range(queue'[r]) \subseteq Range(queue[r])
    BY <1>5, <2>1
  <2> HIDE DEF ops, plan
  <2> QED BY <1>4, <2>1, <2>2, <2>4, <2>5, <2>6, RoomRequest
<1> QED BY <1>7, <1>8, <1>9

(* A new snapshot for room q; the track is known then.                     *)
LEMMA ResolveStep ==
    ASSUME IInv, NEW q \in Rooms, NEW t \in Tracks, Resolve(q, t)
    PROVE  IInv'
<1> USE DEF IInv
<1> DEFINE new == Snapshot(t, "resolving", "none", 0)
           s == track'[t]
           tell == Tell(q, s)
<1>1. TypeOK /\ FullIsDesired
  BY DEF CacheInv
<1>2. new \in Snapshots /\ new # Nil /\ new.id = t /\ new.url = "none"
  BY SnapshotFields DEF Statuses
<1>3. /\ notify' = [notify EXCEPT ![t] = q] /\ Begin(<<tell>>) /\ Sent(t, q)
      /\ Request /\ UNCHANGED <<desired, job, file, rooms, last>>
  BY DEF Resolve
<1>4. \/ track[t] # Nil /\ UNCHANGED <<track, run>>
      \/ track[t] = Nil /\ track' = [track EXCEPT ![t] = new] /\ run' = [run EXCEPT ![t] = q]
  BY DEF Resolve
<1> HIDE DEF new
<1>5. /\ track' \in [Tracks -> Snapshots \cup {Nil}] /\ s \in Snapshots /\ s # Nil /\ s.id = t
      /\ \A u \in Tracks : u # t => track'[u] = track[u]
      /\ s = track[t] \/ s.url = "none"
      /\ run' \in [Tracks -> Rooms \cup {Nil}]
  <2>1. CASE track[t] # Nil /\ UNCHANGED <<track, run>>
    BY <1>1, <2>1 DEF TypeOK
  <2>2. CASE track[t] = Nil /\ track' = [track EXCEPT ![t] = new] /\ run' = [run EXCEPT ![t] = q]
    BY <1>1, <1>2, <2>2, Updated DEF TypeOK
  <2> QED BY <1>4, <2>1, <2>2
<1>6. /\ notify' \in [Tracks -> Rooms \cup {Nil}] /\ notify'[t] = q
      /\ \A u \in Tracks : u # t => notify'[u] = notify[u]
  BY <1>1, <1>3, Updated DEF TypeOK
<1>7. tell \in Ops /\ tell.op = "tell"
  BY <1>5, OpFields
<1> HIDE DEF s, tell
<1>8. <<tell>> \in Seq(Ops) /\ Range(<<tell>>) = {tell}
  BY <1>7, ShortLists
<1>9. work' \in [Goroutines -> Seq(Ops)] /\ Moved({}, {tell})
  BY <1>1, <1>3, <1>8, Begun DEF TypeOK
<1>10. TypeOK'
  <2>1. requests' \in 0..MaxRequests
    BY <1>1, <1>3, CacheAssumption DEF Request, TypeOK
  <2>2. astray' \subseteq Tracks
    BY <1>1, <1>3 DEF Sent, TypeOK
  <2>3. \A u \in Tracks : track'[u] # Nil => track'[u].id = u
    BY <1>1, <1>5 DEF TypeOK, s
  <2> QED BY <1>1, <1>3, <1>5, <1>6, <1>9, <2>1, <2>2, <2>3 DEF TypeOK, rooms
<1>11. FullIsDesired'
  BY <1>1, <1>3, <1>5 DEF FullIsDesired, s
<1>12. Asked'
  BY <1>5, <1>6, CacheAssumption DEF Asked
<1>13. NoOrphanFile'
  BY <1>3, <1>5, <1>9 DEF NoOrphanFile, Moved, s
<1>14. Latest'
  <2>1. Moved({}, {Tell(q, track'[t])}) /\ track'[t].id = t
    BY <1>5, <1>9 DEF tell, s
  <2>2. UNCHANGED queue BY <1>3 DEF rooms
  <2> QED BY <1>3, <1>5, <1>6, <2>1, <2>2, SentLatest
<1>15. Planned'
  BY <1>7, <1>9, WillReplan DEF Moved
<1> QED BY <1>10, <1>11, <1>12, <1>13, <1>14, <1>15 DEF CacheInv

(* The run of a track ends.                                                *)
LEMMA MarkReadyStep ==
    ASSUME IInv, NEW t \in Tracks, markReady(t)
    PROVE  IInv'
<1> USE DEF IInv
<1>1. TypeOK /\ FullIsDesired
  BY DEF CacheInv
<1>2. /\ run[t] # Nil /\ run' = [run EXCEPT ![t] = Nil]
      /\ UNCHANGED <<notify, desired, job, file, rooms, requests, last>>
  BY DEF markReady
<1>3. run[t] \in Rooms /\ run' \in [Tracks -> Rooms \cup {Nil}]
  BY <1>1, <1>2, Updated DEF TypeOK
<1>4. CASE track[t] = Nil /\ UNCHANGED <<track, work, astray>>
  <2>1. TypeOK'
    BY <1>1, <1>2, <1>3, <1>4 DEF TypeOK, rooms
  <2>2. FullIsDesired' /\ Asked'
    BY <1>1, <1>2, <1>4 DEF FullIsDesired, Asked
  <2>3. Pending' = Pending
    BY <1>4 DEF Pending
  <2>4. Moved({}, {}) BY <2>3 DEF Moved
  <2>5. NoOrphanFile'
    BY <1>2, <1>4, <2>3, FilesKept
  <2>6. Latest'
    <3>1. \A u \in Tracks : Tells(u)' = Tells(u) /\ (Coming(u) => Coming(u)')
      BY <2>4, SameTells
    <3>2. UNCHANGED queue BY <1>2 DEF rooms
    <3> QED BY <1>2, <1>4, <3>1, <3>2, LatestKept
  <2>7. Planned'
    BY <1>1, <1>2, <1>4, <2>4, PlanKept DEF rooms
  <2> QED BY <2>1, <2>2, <2>5, <2>6, <2>7 DEF CacheInv
<1>5. CASE track[t] # Nil
  <2> DEFINE url == IF t \in Long THEN "m3u8" ELSE "opus"
             s == Snapshot(t, "ready", url, Size[t])
             tell == Tell(run[t], s)
  <2>1. s \in Snapshots /\ s # Nil /\ s.id = t /\ s.url # "m4a"
    <3>1. url \in {"none", "opus", "m3u8", "m4a"} /\ url # "m4a" OBVIOUS
    <3>2. Size[t] \in Nat BY CacheAssumption
    <3> HIDE DEF url
    <3> QED BY <3>1, <3>2, SnapshotFields DEF Statuses
  <2>2. track' = [track EXCEPT ![t] = s] /\ Begin(<<Tell(run[t], track'[t])>>) /\ Sent(t, run[t])
    BY <1>5 DEF markReady
  <2> HIDE DEF s
  <2>3. /\ track' \in [Tracks -> Snapshots \cup {Nil}] /\ track'[t] = s
        /\ \A u \in Tracks : u # t => track'[u] = track[u]
    BY <1>1, <2>1, <2>2, Updated DEF TypeOK
  <2>4. tell \in Ops /\ tell.op = "tell" /\ Begin(<<tell>>)
    BY <1>3, <2>1, <2>2, <2>3, OpFields
  <2> HIDE DEF tell
  <2>5. <<tell>> \in Seq(Ops) /\ Range(<<tell>>) = {tell}
    BY <2>4, ShortLists
  <2>6. work' \in [Goroutines -> Seq(Ops)] /\ Moved({}, {tell})
    BY <1>1, <2>4, <2>5, Begun DEF TypeOK
  <2>7. TypeOK'
    <3>1. astray' \subseteq Tracks BY <1>1, <2>2 DEF Sent, TypeOK
    <3>2. \A u \in Tracks : track'[u] # Nil => track'[u].id = u
      BY <1>1, <2>1, <2>3 DEF TypeOK
    <3> QED BY <1>1, <1>2, <1>3, <2>3, <2>6, <3>1, <3>2 DEF TypeOK, rooms
  <2>8. FullIsDesired' /\ Asked'
    BY <1>1, <1>2, <1>5, <2>1, <2>3 DEF FullIsDesired, Asked
  <2>9. NoOrphanFile'
    BY <1>2, <1>5, <2>1, <2>3, <2>6 DEF NoOrphanFile, Moved
  <2>10. Latest'
    <3>1. Moved({}, {Tell(run[t], track'[t])}) /\ track'[t].id = t
      BY <2>1, <2>3, <2>6 DEF tell
    <3>2. UNCHANGED queue BY <1>2 DEF rooms
    <3> QED BY <1>2, <2>2, <2>3, <3>1, <3>2, SentLatest
  <2>11. Planned'
    BY <2>4, <2>6, WillReplan DEF Moved
  <2> QED BY <2>7, <2>8, <2>9, <2>10, <2>11 DEF CacheInv
<1> QED BY <1>4, <1>5 DEF markReady

(* A download ends, and its goroutine goes on.                             *)
LEMMA DownloadStep ==
    ASSUME IInv, NEW t \in Tracks, downloadFullM4A(t) \/ JobDone(t)
    PROVE  IInv'
<1> USE DEF IInv
<1>1. TypeOK /\ FullIsDesired
  BY DEF CacheInv
<1> DEFINE ready == TrackOp("ready", t)
<1>2. ready \in Ops /\ ready.op = "ready"
  BY OpFields DEF TrackOps
<1> HIDE DEF ready
<1>3. UNCHANGED <<track, run, notify, desired, rooms, requests, history>>
  BY DEF downloadFullM4A, JobDone
<1>4. \/ work' = work /\ (\/ file' = [file EXCEPT ![t] = TRUE] /\ job' = [job EXCEPT ![t] = "loaded"]
                          \/ file' = file /\ job[t] = "loading" /\ job' = [job EXCEPT ![t] = "none"])
      \/ job' = [job EXCEPT ![t] = "none"] /\ file' = file /\ Begin(<<ready>>)
  BY DEF downloadFullM4A, JobDone, ready
<1>5. work' \in [Goroutines -> Seq(Ops)] /\ (Moved({}, {}) \/ Moved({}, {ready}))
      /\ (work' # work => Moved({}, {ready}))
  <2>1. CASE work' = work
    BY <1>1, <2>1 DEF TypeOK, Moved, Pending
  <2>2. CASE Begin(<<ready>>)
    <3>1. <<ready>> \in Seq(Ops) /\ Range(<<ready>>) = {ready} BY <1>2, ShortLists
    <3> QED BY <1>1, <2>2, <3>1, Begun DEF TypeOK
  <2> QED BY <1>4, <2>1, <2>2
<1>6. /\ job' \in [Tracks -> {"none", "loading", "loaded"}] /\ file' \in [Tracks -> BOOLEAN]
      /\ \A u \in Tracks : u # t => job'[u] = job[u] /\ file'[u] = file[u]
  <2>1. TRUE \in BOOLEAN OBVIOUS
  <2>2. \A x : x \in {"none", "loaded"} => x \in {"none", "loading", "loaded"} OBVIOUS
  <2>3. job \in [Tracks -> {"none", "loading", "loaded"}] /\ file \in [Tracks -> BOOLEAN]
    BY <1>1 DEF TypeOK
  <2>4. file' \in [Tracks -> BOOLEAN] /\ \A u \in Tracks : u # t => file'[u] = file[u]
    BY <1>4, <2>1, <2>3, Updated
  <2>5. /\ job' \in [Tracks -> {"none", "loading", "loaded"}]
        /\ \A u \in Tracks : u # t => job'[u] = job[u]
    BY <1>4, <2>2, <2>3, Updated
  <2> QED BY <2>4, <2>5
<1>7. TypeOK'
  BY <1>1, <1>3, <1>5, <1>6 DEF TypeOK, rooms, history
<1>8. FullIsDesired' /\ Asked'
  BY <1>1, <1>3 DEF FullIsDesired, Asked
<1>9. NoOrphanFile'
  <2>1. ASSUME NEW u \in Tracks, file'[u], u # t
        PROVE  \/ track'[u] # Nil /\ desired'[u]
               \/ job'[u] = "loaded"
               \/ TrackOp("ready", u) \in Pending' \/ TrackOp("unlink", u) \in Pending'
    BY <1>3, <1>5, <1>6, <2>1 DEF NoOrphanFile, Moved
  <2>2. ASSUME file'[t]
        PROVE  \/ track'[t] # Nil /\ desired'[t]
               \/ job'[t] = "loaded"
               \/ TrackOp("ready", t) \in Pending' \/ TrackOp("unlink", t) \in Pending'
    <3>1. CASE file' = [file EXCEPT ![t] = TRUE] /\ job' = [job EXCEPT ![t] = "loaded"]
      BY <1>1, <3>1 DEF TypeOK
    <3>2. CASE file' = file /\ job[t] = "loading" /\ job' = [job EXCEPT ![t] = "none"] /\ work' = work
      <4>1. Pending' = Pending BY <3>2 DEF Pending
      <4>2. file[t] /\ job[t] # "loaded" BY <2>2, <3>2
      <4> QED BY <1>3, <4>1, <4>2 DEF NoOrphanFile
    <3>3. CASE Begin(<<ready>>)
      <4>1. <<ready>> \in Seq(Ops) /\ Range(<<ready>>) = {ready} BY <1>2, ShortLists
      <4>2. Moved({}, {ready}) BY <1>1, <3>3, <4>1, Begun DEF TypeOK
      <4> QED BY <4>2 DEF Moved, ready
    <3> QED BY <1>4, <3>1, <3>2, <3>3
  <2> QED BY <2>1, <2>2 DEF NoOrphanFile
<1>10. PICK new : Moved({}, new) /\ \A o \in new : o.op = "ready"
  BY <1>2, <1>5
<1>11. Latest'
  <2>1. \A u \in Tracks : Tells(u)' = Tells(u) /\ (Coming(u) => Coming(u)')
    BY <1>10, SameTells
  <2>2. UNCHANGED <<queue, astray>> BY <1>3 DEF rooms, history
  <2> QED BY <1>3, <2>1, <2>2, LatestKept
<1>12. Planned'
  BY <1>1, <1>3, <1>10, PlanKept DEF rooms, history
<1> QED BY <1>7, <1>8, <1>9, <1>11, <1>12 DEF CacheInv

-----------------------------------------------------------------------------
(* The operations of a goroutine.                                          *)

(* maybeStart starts a track of the queue if none plays.                   *)
LEMMA MaybeStarted ==
    ASSUME playing \in [Rooms -> Tracks \cup {Nil}],
           NEW q \in Rooms, NEW es \in Seq(Snapshots), maybeStart(q, es)
    PROVE  /\ playing' \in [Rooms -> Tracks \cup {Nil}]
           /\ \A r \in Rooms : playing[r] # Nil => playing'[r] = playing[r]
<1>1. CASE UNCHANGED playing
  BY <1>1
<1>2. CASE playing[q] = Nil /\ \E n \in DOMAIN es : playing' = [playing EXCEPT ![q] = es[n].id]
  <2>1. PICK n \in DOMAIN es : playing' = [playing EXCEPT ![q] = es[n].id]
    BY <1>2
  <2>2. es[n].id \in Tracks \cup {Nil}
    BY QueueElements
  <2> QED BY <1>2, <2>1, <2>2, Updated
<1> QED BY <1>1, <1>2 DEF maybeStart

(* Operations that leave the tracks, the files and the queues alone.       *)
LEMMA QuietWork ==
    ASSUME IInv, NEW g \in Goroutines, work[g] # <<>>, NEW o \in Ops, o = Head(work[g]),
           o.op \in {"maybe", "start", "clean"},
           NEW ops \in Seq(Ops), Pop(g, ops), \A p \in Range(ops) : p.op = "delete",
           UNCHANGED <<track, run, notify, desired, file, queue, budget, requests, history>>,
           job' \in [Tracks -> {"none", "loading", "loaded"}],
           \A t \in Tracks : job[t] = "loaded" => job'[t] = "loaded",
           playing' \in [Rooms -> Tracks \cup {Nil}],
           \A r \in Rooms : playing[r] # Nil => playing'[r] = playing[r]
    PROVE  IInv'
<1> USE DEF IInv, history
<1>1. TypeOK /\ FullIsDesired
  BY DEF CacheInv
<1>2. work' \in [Goroutines -> Seq(Ops)] /\ Moved({o}, Range(ops))
  BY <1>1, Popped DEF TypeOK
<1>3. TypeOK'
  BY <1>1, <1>2 DEF TypeOK
<1>4. FullIsDesired' /\ Asked'
  BY <1>1 DEF FullIsDesired, Asked
<1>5. \A t \in Tracks : TrackOp("ready", t) # o /\ TrackOp("unlink", t) # o
  BY OpFields
<1>6. NoOrphanFile'
  BY <1>2, <1>5 DEF NoOrphanFile, Moved
<1>7. Latest'
  <2>1. \A t \in Tracks : Tells(t)' = Tells(t) /\ (Coming(t) => Coming(t)')
    BY <1>2, SameTells
  <2> QED BY <2>1, LatestKept
<1>8. Planned'
  BY <1>1, <1>2, PlanKept
<1> QED BY <1>3, <1>4, <1>6, <1>7, <1>8 DEF CacheInv

LEMMA QuietStep ==
    ASSUME IInv, NEW g \in Goroutines, work[g] # <<>>, NEW o \in Ops, o = Head(work[g]),
           UNCHANGED requests, EndMaybe(g, o) \/ StartJob(g, o) \/ cleanIfUnused(g, o)
    PROVE  IInv'
<1> DEFINE none == <<>>
<1>1. none \in Seq(Ops) /\ Range(none) = {}
  BY ShortLists
<1>2. TypeOK
  BY DEF IInv, CacheInv
<1>3. CASE EndMaybe(g, o)
  <2>1. /\ o.op = "maybe" /\ Pop(g, none) /\ maybeStart(o.room, queue[o.room])
        /\ UNCHANGED <<track, run, notify, desired, job, file, queue, budget, requests, history>>
    BY <1>3 DEF EndMaybe, media
  <2>2. o.room \in Rooms
    BY <2>1, OpFields DEF TrackOps
  <2>3. /\ playing' \in [Rooms -> Tracks \cup {Nil}]
        /\ \A r \in Rooms : playing[r] # Nil => playing'[r] = playing[r]
    BY <1>2, <2>1, <2>2, MaybeStarted DEF TypeOK
  <2>4. job' \in [Tracks -> {"none", "loading", "loaded"}]
    BY <1>2, <2>1 DEF TypeOK
  <2> HIDE DEF none
  <2> QED BY <1>1, <2>1, <2>3, <2>4, QuietWork
<1>4. CASE StartJob(g, o)
  <2> DEFINE v == IF job[o.track] = "none" THEN "loading" ELSE job[o.track]
  <2>1. /\ o.op = "start" /\ Pop(g, none) /\ job' = [job EXCEPT ![o.track] = v]
        /\ UNCHANGED <<track, run, notify, desired, file, rooms, requests, history>>
    BY <1>4 DEF StartJob
  <2>2. o.track \in Tracks
    BY <2>1, OpFields
  <2>3. v \in {"none", "loading", "loaded"} /\ (job[o.track] = "loaded" => v = "loaded")
    BY <1>2, <2>2 DEF TypeOK
  <2> HIDE DEF v
  <2>4. /\ job' \in [Tracks -> {"none", "loading", "loaded"}] /\ job'[o.track] = v
        /\ \A u \in Tracks : u # o.track => job'[u] = job[u]
    BY <1>2, <2>1, <2>2, <2>3, Updated DEF TypeOK
  <2>5. /\ playing' \in [Rooms -> Tracks \cup {Nil}] /\ UNCHANGED <<playing, queue, budget>>
    BY <1>2, <2>1 DEF TypeOK, rooms
  <2> HIDE DEF none
  <2> QED BY <1>1, <2>1, <2>3, <2>4, <2>5, QuietWork
<1>5. CASE cleanIfUnused(g, o)
  <2> DEFINE delete == TrackOp("delete", o.track)
  <2>1. /\ o.op = "clean" /\ (Pop(g, none) \/ Pop(g, <<delete>>))
        /\ UNCHANGED <<track, run, notify, desired, job, file, queue, playing, budget, requests, history>>
    BY <1>5 DEF cleanIfUnused, media, rooms
  <2>2. delete \in Ops /\ delete.op = "delete"
    BY <2>1, OpFields DEF TrackOps
  <2> HIDE DEF delete
  <2>3. <<delete>> \in Seq(Ops) /\ Range(<<delete>>) = {delete}
    BY <2>2, ShortLists
  <2>4. PICK ops \in Seq(Ops) : Pop(g, ops) /\ \A p \in Range(ops) : p.op = "delete"
    BY <1>1, <2>1, <2>2, <2>3
  <2>5. job' \in [Tracks -> {"none", "loading", "loaded"}] /\ playing' \in [Rooms -> Tracks \cup {Nil}]
    BY <1>2, <2>1 DEF TypeOK
  <2> HIDE DEF none
  <2> QED BY <2>1, <2>4, <2>5, QuietWork
<1> QED BY <1>3, <1>4, <1>5

(* The room has the snapshot and plans again.                              *)
LEMMA UpsertStep ==
    ASSUME IInv, NEW g \in Goroutines, work[g] # <<>>, NEW o \in Ops, o = Head(work[g]),
           UNCHANGED requests, UpsertTrack(g, o)
    PROVE  IInv'
<1> USE DEF IInv
<1>1. TypeOK /\ FullIsDesired
  BY DEF CacheInv
<1> DEFINE q == o.room
           s == o.snap
           up == Upsert(queue[q], s)
           plan == RoomOp("plan", q)
<1>2. /\ o.op = "tell" /\ queue' = [queue EXCEPT ![q] = up] /\ maybeStart(q, queue'[q])
      /\ Pop(g, <<plan>>) /\ UNCHANGED <<media, budget, history>>
  BY DEF UpsertTrack
<1>3. q \in Rooms /\ s \in Snapshots
  BY <1>2, OpFields DEF TrackOps
<1>4. plan \in Ops /\ plan.op = "plan"
  BY <1>3, OpFields
<1>5. /\ up \in Seq(Snapshots) /\ NoDuplicates(up)
      /\ \A e \in Range(up) : e = s \/ (e.id # s.id /\ e \in Range(queue[q]))
  BY <1>1, <1>3, UpsertProperties DEF TypeOK
<1> HIDE DEF q, s, up, plan
<1>6. /\ queue' \in [Rooms -> Seq(Snapshots)] /\ queue'[q] = up
      /\ \A r \in Rooms : r # q => queue'[r] = queue[r]
  BY <1>1, <1>2, <1>3, <1>5, Updated DEF TypeOK
<1>7. playing' \in [Rooms -> Tracks \cup {Nil}]
  <2>1. playing \in [Rooms -> Tracks \cup {Nil}] /\ queue'[q] \in Seq(Snapshots)
    BY <1>1, <1>3, <1>6 DEF TypeOK
  <2> QED BY <1>2, <1>3, <2>1, MaybeStarted
<1>8. <<plan>> \in Seq(Ops) /\ Range(<<plan>>) = {plan}
  BY <1>4, ShortLists
<1>9. work' \in [Goroutines -> Seq(Ops)] /\ Moved({o}, {plan}) /\ o \in Pending
  BY <1>1, <1>2, <1>8, Popped DEF TypeOK
<1>10. TypeOK'
  <2>1. \A r \in Rooms : NoDuplicates(queue'[r])
    BY <1>1, <1>5, <1>6 DEF TypeOK
  <2> QED BY <1>1, <1>2, <1>6, <1>7, <1>9, <2>1 DEF TypeOK, media, history
<1>11. FullIsDesired' /\ Asked'
  BY <1>1, <1>2 DEF FullIsDesired, Asked, media
<1>12. \A t \in Tracks : \A op : TrackOp(op, t) # o \/ op = "tell"
  BY <1>2, OpFields
<1>13. NoOrphanFile'
  BY <1>2, <1>9, <1>12, FilesKept DEF Moved, media
<1>14. Latest'
  <2> SUFFICES ASSUME NEW u \in Tracks, track[u] # Nil, u \notin astray
               PROVE  /\ \A p \in Tells(u)' : p.room = notify[u] /\ (p.snap = track[u] \/ Coming(u)')
                      /\ \/ Coming(u)' \/ Tells(u)' # {}
                         \/ \A e \in Range(queue'[notify[u]]) : e.id = u => e = track[u]
    BY <1>2 DEF Latest, media, history
  <2>1. Tells(u)' \subseteq Tells(u) /\ Tells(u) \ {o} \subseteq Tells(u)'
    BY <1>4, <1>9 DEF Tells, Moved
  <2>2. Coming(u) => Coming(u)'
    BY <1>9, <1>12 DEF Coming, Moved
  <2>3. /\ \A p \in Tells(u) : p.room = notify[u] /\ (p.snap = track[u] \/ Coming(u))
        /\ \/ Coming(u) \/ Tells(u) # {}
           \/ \A e \in Range(queue[notify[u]]) : e.id = u => e = track[u]
    BY DEF Latest
  <2>4. ASSUME ~Coming(u)', Tells(u)' = {}, NEW e \in Range(queue'[notify[u]]), e.id = u
        PROVE  e = track[u]
    <3>1. notify[u] \in Rooms BY <1>1 DEF TypeOK, Asked
    <3>2. CASE s.id = u
      <4>1. o \in Tells(u) BY <1>2, <1>9, <3>2 DEF Tells, s
      <4>2. q = notify[u] /\ s = track[u] BY <2>2, <2>3, <2>4, <4>1 DEF q, s
      <4> QED BY <1>5, <1>6, <2>4, <3>2, <4>2
    <3>3. CASE s.id # u
      <4>1. o \notin Tells(u) BY <3>3 DEF Tells, s
      <4>2. Tells(u) = {} BY <2>1, <2>4, <4>1
      <4>3. e \in Range(queue[notify[u]]) BY <1>5, <1>6, <2>4, <3>1, <3>3
      <4> QED BY <2>2, <2>3, <2>4, <4>2, <4>3
    <3> QED BY <3>2, <3>3
  <2> QED BY <2>1, <2>2, <2>3, <2>4
<1>15. Planned'
  BY <1>4, <1>9, WillReplan DEF Moved
<1> QED BY <1>10, <1>11, <1>13, <1>14, <1>15 DEF CacheInv

(* A track changes and an emit is to come, or it stays as it is.           *)
LEMMA TrackChanged ==
    ASSUME Latest, NEW gone, NEW new, Moved(gone, new),
           \A o \in gone : o.op \notin {"tell", "emit"}, \A o \in new : o.op # "tell",
           UNCHANGED <<notify, astray, queue>>,
           \A u \in Tracks : track'[u] # Nil => /\ track[u] # Nil
                                                /\ track'[u] = track[u] \/ Coming(u)'
    PROVE  Latest'
<1>1. \A t \in Tracks : Tells(t)' = Tells(t) /\ (Coming(t) => Coming(t)')
  BY SameTells
<1> QED BY <1>1 DEF Latest

(* A room's plan becomes what is pending.                                  *)
LEMMA ReconcileStep ==
    ASSUME IInv, NEW g \in Goroutines, work[g] # <<>>, NEW o \in Ops, o = Head(work[g]),
           UNCHANGED requests, Reconcile(g, o)
    PROVE  IInv'
<1> USE DEF IInv
<1>1. TypeOK /\ FullIsDesired
  BY DEF CacheInv
<1> DEFINE q == o.room
           es == queue[q]
<1>2. /\ o.op = "plan" /\ Pop(g, Decisions(es, planFull(es, budget[q]), playing[q]))
      /\ last' = (IF Reconciles(Pending) THEN Nil ELSE q)
      /\ UNCHANGED <<media, rooms, astray>>
  BY DEF Reconcile
<1>3. q \in Rooms
  BY <1>2, OpFields DEF TrackOps
<1>4. es \in Seq(Snapshots) /\ NoDuplicates(es) /\ budget[q] \in Nat
  BY <1>1, <1>3, CacheAssumption DEF TypeOK
<1>5. PICK full \in SUBSET Long : full = planFull(es, budget[q]) /\ IsGreedy(full, es, budget[q])
  BY <1>4, PlanIsGreedy
<1> DEFINE ops == Decisions(es, full, playing[q])
<1>6. /\ ops \in Seq(Ops)
      /\ \A p \in Range(ops) : \E e \in Range(es) : IsLong(e) /\
           \/ e.id \in full /\ p = TrackOp("ensure", e.id)
           \/ e.id \notin full /\ p = TrackOp("evict", e.id)
      /\ \A e \in Range(es) : IsLong(e) =>
           /\ e.id \in full => TrackOp("ensure", e.id) \in Range(ops)
           /\ e.id \notin full /\ e.id # playing[q] => TrackOp("evict", e.id) \in Range(ops)
  BY <1>4, DecisionsProperties
<1> HIDE DEF q, es, ops
<1>7. \A p \in Range(ops) : \/ p.op = "ensure" /\ p.track \in full
                            \/ p.op = "evict" /\ p.track \notin full
  BY <1>6, OpFields
<1>8. work' \in [Goroutines -> Seq(Ops)] /\ Moved({o}, Range(ops)) /\ o \in Pending
  <2>1. Pop(g, ops) BY <1>2, <1>5 DEF ops
  <2> QED BY <1>1, <1>6, <2>1, Popped DEF TypeOK
<1>9. TypeOK'
  BY <1>1, <1>2, <1>3, <1>8 DEF TypeOK, media, rooms
<1>10. FullIsDesired' /\ Asked'
  BY <1>1, <1>2 DEF FullIsDesired, Asked, media
<1>11. NoOrphanFile'
  <2>1. \A t \in Tracks : TrackOp("ready", t) # o /\ TrackOp("unlink", t) # o
    BY <1>2, OpFields
  <2> QED BY <1>2, <1>8, <2>1, FilesKept DEF Moved, media
<1>12. Latest'
  BY <1>2, <1>7, <1>8, TrackChanged DEF media, rooms
<1>13. Planned'
  <2> SUFFICES ASSUME last' # Nil PROVE \E f \in SUBSET Long : Follows(f, last)'
    BY DEF Planned
  <2>1. last' = q /\ ~Reconciles(Pending)
    BY <1>2
  <2>2. \A t \in Tracks : /\ TrackOp("ensure", t) \in Pending' => t \in full
                          /\ TrackOp("evict", t) \in Pending' => t \notin full
    <3> TAKE t \in Tracks
    <3>1. TrackOp("ensure", t) \notin Pending /\ TrackOp("evict", t) \notin Pending
      BY <2>1, OpFields DEF Reconciles
    <3>2. /\ TrackOp("ensure", t) \in Pending' => TrackOp("ensure", t) \in Range(ops)
          /\ TrackOp("evict", t) \in Pending' => TrackOp("evict", t) \in Range(ops)
      BY <1>8, <3>1 DEF Moved
    <3> QED BY <1>7, <3>2, OpFields
  <2>3. ASSUME NEW e \in Range(queue'[q]), IsLong(e)
        PROVE  /\ e.id \in full => desired'[e.id] \/ TrackOp("ensure", e.id) \in Pending'
               /\ e.id \notin full /\ desired'[e.id] =>
                    e.id = playing'[q] \/ TrackOp("evict", e.id) \in Pending'
    <3>1. e \in Range(es) /\ playing' = playing BY <1>2 DEF rooms, es
    <3> QED BY <1>6, <1>8, <2>3, <3>1 DEF Moved
  <2>4. IsGreedy(full, queue'[q], budget'[q])
    BY <1>2, <1>5 DEF rooms, es
  <2>5. Follows(full, last)'
    BY <2>1, <2>2, <2>3, <2>4 DEF Follows
  <2> QED BY <1>5, <2>5
<1> QED BY <1>9, <1>10, <1>11, <1>12, <1>13 DEF CacheInv

(* A track is wanted in full, or no longer.                                *)
LEMMA DecidedStep ==
    ASSUME Planned, TypeOK, NEW t \in Tracks, NEW new,
           NEW op \in {"ensure", "evict"}, TrackOp(op, t) \in Pending,
           Moved({TrackOp(op, t)}, new), \A o \in new : o.op \notin {"ensure", "evict"},
           UNCHANGED <<last, queue, budget, playing>>,
           \A u \in Tracks : track'[u] # Nil => track[u] # Nil,
           op = "ensure" => desired'[t], op = "evict" => ~desired'[t],
           \A u \in Tracks : u # t => desired'[u] = desired[u]
    PROVE  Planned'
<1> SUFFICES ASSUME last # Nil, ~Replans'
             PROVE  \E full \in SUBSET Long : Follows(full, last)'
  BY DEF Planned
<1>1. ~Replans
  BY OpFields DEF Replans, Moved
<1>2. PICK full \in SUBSET Long : Follows(full, last)
  BY <1>1 DEF Planned
<1>3. \A u \in Tracks : /\ TrackOp("ensure", u) \in Pending' => TrackOp("ensure", u) \in Pending
                        /\ TrackOp("evict", u) \in Pending' => TrackOp("evict", u) \in Pending
  BY OpFields DEF Moved
<1>4. \A u \in Tracks : u # t =>
        /\ TrackOp("ensure", u) \in Pending => TrackOp("ensure", u) \in Pending'
        /\ TrackOp("evict", u) \in Pending => TrackOp("evict", u) \in Pending'
  BY OpFields DEF Moved
<1>5. IF op = "ensure" THEN t \in full ELSE t \notin full
  BY <1>2 DEF Follows
<1>6. last \in Rooms /\ queue[last] \in Seq(Snapshots)
  BY DEF TypeOK
<1>7. ASSUME NEW e \in Range(queue[last]), IsLong(e), track'[e.id] # Nil
      PROVE  /\ e.id \in full => desired'[e.id] \/ TrackOp("ensure", e.id) \in Pending'
             /\ e.id \notin full /\ desired'[e.id] =>
                  e.id = playing[last] \/ TrackOp("evict", e.id) \in Pending'
  <2>1. e.id \in Tracks
    BY <1>6, QueueElements DEF Snapshots
  <2>2. CASE e.id = t
    BY <1>5, <2>2
  <2>3. CASE e.id # t
    <3>1. /\ e.id \in full => desired[e.id] \/ TrackOp("ensure", e.id) \in Pending
          /\ e.id \notin full /\ desired[e.id] =>
               e.id = playing[last] \/ TrackOp("evict", e.id) \in Pending
      BY <1>2, <1>7, <2>1 DEF Follows
    <3> QED BY <1>4, <2>1, <2>3, <3>1
  <2> QED BY <2>2, <2>3
<1>8. Follows(full, last)'
  BY <1>2, <1>3, <1>7 DEF Follows
<1> QED BY <1>8

LEMMA EnsureStep ==
    ASSUME IInv, NEW g \in Goroutines, work[g] # <<>>, NEW o \in Ops, o = Head(work[g]),
           UNCHANGED requests, ensureFull(g, o)
    PROVE  IInv'
<1> USE DEF IInv
<1>1. TypeOK /\ FullIsDesired
  BY DEF CacheInv
<1> DEFINE t == o.track
           next == TrackOp(IF file[t] THEN "ready" ELSE "start", t)
<1>2. /\ o.op = "ensure" /\ desired' = [desired EXCEPT ![t] = TRUE] /\ Pop(g, <<next>>)
      /\ UNCHANGED <<track, run, notify, job, file, rooms, history>>
  BY DEF ensureFull
<1>3. t \in Tracks /\ o = TrackOp("ensure", t)
  BY <1>2, OpFields
<1>4. next \in Ops /\ next.op \in {"ready", "start"}
  BY <1>3, OpFields DEF TrackOps
<1> HIDE DEF next, t
<1>5. <<next>> \in Seq(Ops) /\ Range(<<next>>) = {next}
  BY <1>4, ShortLists
<1>6. work' \in [Goroutines -> Seq(Ops)] /\ Moved({o}, {next}) /\ o \in Pending
  BY <1>1, <1>2, <1>5, Popped DEF TypeOK
<1>7. /\ desired' \in [Tracks -> BOOLEAN] /\ desired'[t] = TRUE
      /\ \A u \in Tracks : u # t => desired'[u] = desired[u]
  <2>1. TRUE \in BOOLEAN /\ desired \in [Tracks -> BOOLEAN] BY <1>1 DEF TypeOK
  <2> QED BY <1>2, <1>3, <2>1, Updated
<1>8. TypeOK'
  BY <1>1, <1>2, <1>6, <1>7 DEF TypeOK, rooms, history
<1>9. FullIsDesired' /\ Asked'
  BY <1>1, <1>2, <1>7 DEF FullIsDesired, Asked
<1>10. NoOrphanFile'
  <2>1. \A u \in Tracks : TrackOp("ready", u) # o /\ TrackOp("unlink", u) # o
    BY <1>2, OpFields
  <2> QED BY <1>2, <1>6, <1>7, <2>1 DEF NoOrphanFile, Moved
<1>11. Latest'
  BY <1>2, <1>4, <1>6, TrackChanged DEF rooms, history
<1>12. Planned'
  <2> DEFINE op == "ensure"
  <2>1. /\ op \in {"ensure", "evict"}
        /\ op = "ensure" => desired'[t]
        /\ op = "evict" => ~desired'[t]
    BY <1>7
  <2>2. PICK new : new = {next}
    OBVIOUS
  <2>3. Moved({TrackOp(op, t)}, new) /\ TrackOp(op, t) \in Pending
    BY <1>3, <1>6, <2>2
  <2>4. UNCHANGED <<last, queue, budget, playing>> BY <1>2 DEF rooms, history
  <2>5. \A p \in new : p.op \notin {"ensure", "evict"} BY <1>4, <2>2
  <2>6. \A u \in Tracks : track'[u] # Nil => track[u] # Nil BY <1>2
  <2> HIDE DEF op
  <2> QED BY <1>1, <1>3, <1>7, <2>1, <2>3, <2>4, <2>5, <2>6, DecidedStep
<1> QED BY <1>8, <1>9, <1>10, <1>11, <1>12 DEF CacheInv

LEMMA EvictStep ==
    ASSUME IInv, NEW g \in Goroutines, work[g] # <<>>, NEW o \in Ops, o = Head(work[g]),
           UNCHANGED requests, evictFull(g, o)
    PROVE  IInv'
<1> USE DEF IInv
<1>1. TypeOK /\ FullIsDesired
  BY DEF CacheInv
<1> DEFINE t == o.track
           unlink == TrackOp("unlink", t)
           emit == TrackOp("emit", t)
           v == IF ~Offered(t) THEN track[t]
                ELSE Snapshot(t, track[t].status, "m3u8", track[t].size)
<1>2. /\ o.op = "evict" /\ desired' = [desired EXCEPT ![t] = FALSE] /\ Pop(g, AfterEvict(t))
      /\ track' = [track EXCEPT ![t] = v]
      /\ UNCHANGED <<run, notify, job, file, rooms, history>>
  BY DEF evictFull
<1>3. t \in Tracks /\ o = TrackOp("evict", t)
  BY <1>2, OpFields
<1>4. unlink \in Ops /\ unlink.op = "unlink" /\ emit \in Ops /\ emit.op = "emit"
  BY <1>3, OpFields DEF TrackOps
<1>5. /\ v \in Snapshots \cup {Nil} /\ (v # Nil => v.id = t /\ v.url # "m4a")
      /\ v # Nil <=> track[t] # Nil
      /\ ~Offered(t) => v = track[t]
  <2>1. CASE ~Offered(t)
    BY <1>1, <1>3, <2>1 DEF TypeOK, Offered
  <2>2. CASE Offered(t)
    <3>1. track[t] \in Snapshots /\ track[t] # Nil BY <1>1, <1>3, <2>2 DEF TypeOK, Offered
    <3> QED BY <1>3, <2>2, <3>1, SnapshotFields
  <2> QED BY <2>1, <2>2
<1> DEFINE ops == AfterEvict(t)
<1>6. ops = (IF Offered(t) THEN <<unlink, emit>> ELSE <<unlink>>)
  BY DEF AfterEvict
<1> HIDE DEF t, unlink, emit, v, ops
<1>7. /\ ops \in Seq(Ops) /\ Range(ops) \subseteq {unlink, emit} /\ unlink \in Range(ops)
      /\ Offered(t) => emit \in Range(ops)
  <2>1. /\ <<unlink, emit>> \in Seq(Ops) /\ Range(<<unlink, emit>>) = {unlink, emit}
        /\ <<unlink>> \in Seq(Ops) /\ Range(<<unlink>>) = {unlink}
    BY <1>4, ShortLists
  <2> QED BY <1>6, <2>1
<1>8. work' \in [Goroutines -> Seq(Ops)] /\ Moved({o}, Range(ops)) /\ o \in Pending
  <2>1. Pop(g, ops) BY <1>2 DEF ops
  <2> QED BY <1>1, <1>7, <2>1, Popped DEF TypeOK
<1>9. /\ desired' \in [Tracks -> BOOLEAN] /\ desired'[t] = FALSE
      /\ \A u \in Tracks : u # t => desired'[u] = desired[u]
  <2>1. FALSE \in BOOLEAN /\ desired \in [Tracks -> BOOLEAN] BY <1>1 DEF TypeOK
  <2> QED BY <1>2, <1>3, <2>1, Updated
<1>10. /\ track' \in [Tracks -> Snapshots \cup {Nil}] /\ track'[t] = v
       /\ \A u \in Tracks : u # t => track'[u] = track[u]
  BY <1>1, <1>2, <1>3, <1>5, Updated DEF TypeOK
<1>11. TypeOK'
  <2>1. \A u \in Tracks : track'[u] # Nil => track'[u].id = u
    BY <1>1, <1>5, <1>10 DEF TypeOK
  <2> QED BY <1>1, <1>2, <1>8, <1>9, <1>10, <2>1 DEF TypeOK, rooms, history
<1>12. FullIsDesired' /\ Asked'
  BY <1>1, <1>2, <1>5, <1>9, <1>10 DEF FullIsDesired, Asked
<1>13. NoOrphanFile'
  <2>1. \A u \in Tracks : TrackOp("ready", u) # o /\ TrackOp("unlink", u) # o
    BY <1>2, OpFields
  <2>2. TrackOp("unlink", t) \in Pending' BY <1>7, <1>8 DEF Moved, unlink
  <2> QED BY <1>2, <1>8, <1>9, <1>10, <2>1, <2>2 DEF NoOrphanFile, Moved
<1>14. Latest'
  <2>1. Offered(t) => Coming(t)' BY <1>7, <1>8 DEF Moved, Coming, emit
  <2>2. \A u \in Tracks : track'[u] # Nil => track[u] # Nil /\ (track'[u] = track[u] \/ Coming(u)')
    BY <1>5, <1>10, <2>1
  <2>3. \A p \in Range(ops) : p.op # "tell" BY <1>4, <1>7
  <2> QED BY <1>2, <1>8, <2>2, <2>3, TrackChanged DEF rooms, history
<1>15. Planned'
  <2> DEFINE op == "evict"
  <2>1. /\ op \in {"ensure", "evict"}
        /\ op = "ensure" => desired'[t]
        /\ op = "evict" => ~desired'[t]
    BY <1>9
  <2>2. Moved({TrackOp(op, t)}, Range(ops)) /\ TrackOp(op, t) \in Pending
    BY <1>3, <1>8
  <2>3. UNCHANGED <<last, queue, budget, playing>> BY <1>2 DEF rooms, history
  <2>4. \A p \in Range(ops) : p.op \notin {"ensure", "evict"} BY <1>4, <1>7
  <2>5. \A u \in Tracks : track'[u] # Nil => track[u] # Nil BY <1>5, <1>10
  <2> HIDE DEF op
  <2> QED BY <1>1, <1>3, <1>9, <2>1, <2>2, <2>3, <2>4, <2>5, DecidedStep
<1> QED BY <1>11, <1>12, <1>13, <1>14, <1>15 DEF CacheInv

(* The full file is there: the track gets its address or nobody wants it.  *)
LEMMA SetFullReadyStep ==
    ASSUME IInv, NEW g \in Goroutines, work[g] # <<>>, NEW o \in Ops, o = Head(work[g]),
           UNCHANGED requests, setFullReady(g, o)
    PROVE  IInv'
<1> USE DEF IInv
<1>1. TypeOK /\ FullIsDesired
  BY DEF CacheInv
<1> DEFINE t == o.track
           unlink == TrackOp("unlink", t)
           emit == TrackOp("emit", t)
           wanted == track[t] # Nil /\ desired[t]
           v == IF ~wanted \/ Offered(t) THEN track[t]
                ELSE Snapshot(t, "ready", "m4a", track[t].size)
<1>2. o.op = "ready" /\ UNCHANGED <<run, notify, desired, job, file, rooms, history>>
  BY DEF setFullReady
<1>3. t \in Tracks /\ o = TrackOp("ready", t)
  BY <1>2, OpFields
<1>4. unlink \in Ops /\ unlink.op = "unlink" /\ emit \in Ops /\ emit.op = "emit"
  BY <1>3, OpFields DEF TrackOps
<1>5. PICK ops \in Seq(Ops) : /\ Pop(g, ops) /\ Range(ops) \subseteq {unlink, emit}
                              /\ ~wanted => unlink \in Range(ops)
                              /\ wanted /\ ~Offered(t) => emit \in Range(ops)
  <2>1. /\ <<>> \in Seq(Ops) /\ Range(<<>>) = {}
        /\ <<emit>> \in Seq(Ops) /\ Range(<<emit>>) = {emit}
        /\ <<unlink>> \in Seq(Ops) /\ Range(<<unlink>>) = {unlink}
    BY <1>4, ShortLists
  <2>2. CASE ~wanted
    <3>1. Pop(g, <<unlink>>) BY <2>2 DEF setFullReady, DropFile
    <3> HIDE DEF unlink
    <3> QED BY <2>1, <2>2, <3>1
  <2>3. CASE wanted /\ Offered(t)
    <3>1. Pop(g, <<>>) BY <2>3 DEF setFullReady, Announce
    <3> QED BY <2>1, <2>3, <3>1
  <2>4. CASE wanted /\ ~Offered(t)
    <3>1. Pop(g, <<emit>>) BY <2>4 DEF setFullReady, Announce
    <3> HIDE DEF emit
    <3> QED BY <2>1, <2>4, <3>1
  <2> QED BY <2>2, <2>3, <2>4
<1>6. track' = [track EXCEPT ![t] = v]
  <2>1. CASE ~wanted
    <3>1. track' = track /\ v = track[t] BY <2>1 DEF setFullReady
    <3>2. [track EXCEPT ![t] = track[t]] = track BY <1>1, <1>3 DEF TypeOK
    <3> QED BY <3>1, <3>2
  <2>2. CASE wanted
    BY <2>2 DEF setFullReady
  <2> QED BY <2>1, <2>2
<1>7. /\ v \in Snapshots \cup {Nil} /\ (v # Nil => v.id = t)
      /\ v # Nil <=> track[t] # Nil
      /\ v = track[t] \/ (wanted /\ ~Offered(t))
  <2>1. CASE ~wanted \/ Offered(t)
    BY <1>1, <1>3, <2>1 DEF TypeOK
  <2>2. CASE wanted /\ ~Offered(t)
    <3>1. track[t] \in Snapshots /\ track[t] # Nil BY <1>1, <1>3, <2>2 DEF TypeOK
    <3> QED BY <1>3, <2>2, <3>1, SnapshotFields DEF Statuses
  <2> QED BY <2>1, <2>2
<1> HIDE DEF t, unlink, emit, v
<1>8. work' \in [Goroutines -> Seq(Ops)] /\ Moved({o}, Range(ops))
  BY <1>1, <1>5, Popped DEF TypeOK
<1>9. /\ track' \in [Tracks -> Snapshots \cup {Nil}] /\ track'[t] = v
      /\ \A u \in Tracks : u # t => track'[u] = track[u]
  BY <1>1, <1>3, <1>6, <1>7, Updated DEF TypeOK
<1>10. TypeOK'
  <2>1. \A u \in Tracks : track'[u] # Nil => track'[u].id = u
    BY <1>1, <1>7, <1>9 DEF TypeOK
  <2> QED BY <1>1, <1>2, <1>8, <1>9, <2>1 DEF TypeOK, rooms, history
<1>11. FullIsDesired' /\ Asked'
  BY <1>1, <1>2, <1>7, <1>9 DEF FullIsDesired, Asked
<1>12. NoOrphanFile'
  <2>1. \A u \in Tracks : TrackOp("unlink", u) # o /\ (u # t => TrackOp("ready", u) # o)
    BY <1>2, <1>3, OpFields
  <2>2. ~wanted => TrackOp("unlink", t) \in Pending' BY <1>5, <1>8 DEF Moved, unlink
  <2>3. wanted => track'[t] # Nil /\ desired'[t] BY <1>2, <1>7, <1>9
  <2> QED BY <1>2, <1>8, <1>9, <2>1, <2>2, <2>3 DEF NoOrphanFile, Moved
<1>13. Latest'
  <2>1. wanted /\ ~Offered(t) => Coming(t)' BY <1>5, <1>8 DEF Moved, Coming, emit
  <2>2. \A u \in Tracks : track'[u] # Nil => track[u] # Nil /\ (track'[u] = track[u] \/ Coming(u)')
    BY <1>7, <1>9, <2>1
  <2>3. \A p \in Range(ops) : p.op # "tell" BY <1>4, <1>5
  <2> QED BY <1>2, <1>8, <2>2, <2>3, TrackChanged DEF rooms, history
<1>14. Planned'
  <2>1. \A p \in Range(ops) : p.op \notin {"ensure", "evict"} BY <1>4, <1>5
  <2>2. \A u \in Tracks : track'[u] # Nil => track[u] # Nil BY <1>7, <1>9
  <2> QED BY <1>1, <1>2, <1>8, <2>1, <2>2, PlanKept DEF rooms, history
<1> QED BY <1>10, <1>11, <1>12, <1>13, <1>14 DEF CacheInv

LEMMA UnlinkStep ==
    ASSUME IInv, NEW g \in Goroutines, work[g] # <<>>, NEW o \in Ops, o = Head(work[g]),
           UNCHANGED requests, Unlink(g, o)
    PROVE  IInv'
<1> USE DEF IInv
<1>1. TypeOK /\ FullIsDesired
  BY DEF CacheInv
<1> DEFINE t == o.track
           none == <<>>
<1>2. /\ o.op = "unlink" /\ file' = [file EXCEPT ![t] = FALSE] /\ Pop(g, none)
      /\ UNCHANGED <<track, run, notify, desired, job, rooms, history>>
  BY DEF Unlink
<1>3. t \in Tracks /\ o = TrackOp("unlink", t)
  BY <1>2, OpFields
<1>4. none \in Seq(Ops) /\ Range(none) = {}
  BY ShortLists
<1> HIDE DEF t, none
<1>5. work' \in [Goroutines -> Seq(Ops)] /\ Moved({o}, {})
  BY <1>1, <1>2, <1>4, Popped DEF TypeOK
<1>6. /\ file' \in [Tracks -> BOOLEAN] /\ ~file'[t]
      /\ \A u \in Tracks : u # t => file'[u] = file[u]
  <2>1. FALSE \in BOOLEAN /\ file \in [Tracks -> BOOLEAN] BY <1>1 DEF TypeOK
  <2> QED BY <1>2, <1>3, <2>1, Updated
<1>7. TypeOK'
  BY <1>1, <1>2, <1>5, <1>6 DEF TypeOK, rooms, history
<1>8. FullIsDesired' /\ Asked'
  BY <1>1, <1>2 DEF FullIsDesired, Asked
<1>9. NoOrphanFile'
  <2>1. \A u \in Tracks : TrackOp("ready", u) # o /\ (u # t => TrackOp("unlink", u) # o)
    BY <1>3, OpFields
  <2> QED BY <1>2, <1>5, <1>6, <2>1 DEF NoOrphanFile, Moved
<1>10. Latest'
  <2>1. \A p \in {o} : p.op \notin {"tell", "emit"} BY <1>2
  <2>2. UNCHANGED <<notify, astray, queue, track>> BY <1>2 DEF rooms, history
  <2> QED BY <1>5, <2>1, <2>2, TrackChanged
<1>11. Planned'
  <2>1. \A p \in {o} : p.op \notin {"tell", "plan", "ensure", "evict"} BY <1>2
  <2>2. UNCHANGED <<last, queue, budget, playing, track, desired>> BY <1>2 DEF rooms, history
  <2> QED BY <1>1, <1>5, <2>1, <2>2, PlanKept
<1> QED BY <1>7, <1>8, <1>9, <1>10, <1>11 DEF CacheInv

(* The room that asked last is told; nobody is if the track is gone.       *)
LEMMA EmitStep ==
    ASSUME IInv, NEW g \in Goroutines, work[g] # <<>>, NEW o \in Ops, o = Head(work[g]),
           UNCHANGED requests, emitUpdate(g, o)
    PROVE  IInv'
<1> USE DEF IInv
<1>1. TypeOK /\ FullIsDesired
  BY DEF CacheInv
<1> DEFINE t == o.track
           none == <<>>
           tell == Tell(notify[t], track[t])
<1>2. o.op = "emit" /\ UNCHANGED <<media, rooms, last>>
  BY DEF emitUpdate
<1>3. t \in Tracks /\ o = TrackOp("emit", t)
  BY <1>2, OpFields
<1>4. FullIsDesired' /\ Asked'
  BY <1>1, <1>2 DEF FullIsDesired, Asked, media
<1>5. \A u \in Tracks : TrackOp("ready", u) # o /\ TrackOp("unlink", u) # o
  BY <1>2, OpFields
<1>6. CASE track[t] = Nil \/ notify[t] = Nil
  <2>1. Pop(g, none) /\ UNCHANGED astray
    BY <1>6 DEF emitUpdate
  <2>2. none \in Seq(Ops) /\ Range(none) = {}
    BY ShortLists
  <2>3. track[t] = Nil
    BY <1>3, <1>6 DEF Asked
  <2> HIDE DEF t, none
  <2>4. work' \in [Goroutines -> Seq(Ops)] /\ Moved({o}, {})
    BY <1>1, <2>1, <2>2, Popped DEF TypeOK
  <2>5. TypeOK'
    BY <1>1, <1>2, <2>1, <2>4 DEF TypeOK, media, rooms
  <2>6. NoOrphanFile'
    BY <1>2, <1>5, <2>4, FilesKept DEF media, Moved
  <2>7. Latest'
    <3> SUFFICES ASSUME NEW u \in Tracks, track[u] # Nil, u \notin astray
                 PROVE  Tells(u)' = Tells(u) /\ (Coming(u) => Coming(u)')
      BY <1>2, <2>1 DEF Latest, media, rooms
    <3>1. TrackOp("emit", u) # o
      BY <1>3, <2>3, OpFields
    <3>2. Coming(u) => Coming(u)'
      BY <2>4, <3>1 DEF Coming, Moved
    <3>3. Tells(u)' = Tells(u)
      BY <1>2, <2>4 DEF Tells, Moved
    <3> QED BY <3>2, <3>3
  <2>8. Planned'
    <3>1. \A p \in {o} : p.op \notin {"tell", "plan", "ensure", "evict"} BY <1>2
    <3>2. UNCHANGED <<last, queue, budget, playing, track, desired>> BY <1>2 DEF rooms, media
    <3> QED BY <1>1, <2>4, <3>1, <3>2, PlanKept
  <2> QED BY <1>4, <2>5, <2>6, <2>7, <2>8 DEF CacheInv
<1>7. CASE track[t] # Nil /\ notify[t] # Nil
  <2>1. Pop(g, <<tell>>) /\ Sent(t, notify[t])
    BY <1>7 DEF emitUpdate
  <2>2. track[t] \in Snapshots /\ track[t].id = t /\ notify[t] \in Rooms
    BY <1>1, <1>3, <1>7 DEF TypeOK
  <2>3. tell \in Ops /\ tell.op = "tell"
    BY <2>2, OpFields
  <2> HIDE DEF t, tell
  <2>4. <<tell>> \in Seq(Ops) /\ Range(<<tell>>) = {tell}
    BY <2>3, ShortLists
  <2>5. work' \in [Goroutines -> Seq(Ops)] /\ Moved({o}, {tell})
    BY <1>1, <2>1, <2>4, Popped DEF TypeOK
  <2>6. TypeOK'
    <3>1. astray' \subseteq Tracks BY <1>1, <1>3, <2>1 DEF Sent, TypeOK
    <3> QED BY <1>1, <1>2, <2>5, <3>1 DEF TypeOK, media, rooms
  <2>7. NoOrphanFile'
    BY <1>2, <1>5, <2>5, FilesKept DEF media, Moved
  <2>8. Latest'
    <3>1. UNCHANGED <<track, notify, queue>> BY <1>2 DEF media, rooms
    <3>2. PICK q \in Rooms : q = notify[t] BY <2>2
    <3>3. Moved({o}, {Tell(q, track'[t])}) /\ track'[t].id = t /\ Sent(t, q)
      BY <2>1, <2>2, <2>5, <3>1, <3>2 DEF tell
    <3>4. {o} \subseteq {TrackOp("emit", t)} BY <1>3
    <3>5. \A u \in Tracks : u # t => track'[u] = track[u] /\ notify'[u] = notify[u] BY <3>1
    <3> QED BY <1>3, <3>1, <3>3, <3>4, <3>5, SentLatest
  <2>9. Planned'
    BY <2>3, <2>5, WillReplan DEF Moved
  <2> QED BY <1>4, <2>6, <2>7, <2>8, <2>9 DEF CacheInv
<1> QED BY <1>6, <1>7

LEMMA DeleteStep ==
    ASSUME IInv, NEW g \in Goroutines, work[g] # <<>>, NEW o \in Ops, o = Head(work[g]),
           UNCHANGED requests, Delete(g, o)
    PROVE  IInv'
<1> USE DEF IInv
<1>1. TypeOK /\ FullIsDesired
  BY DEF CacheInv
<1> DEFINE t == o.track
           unlink == TrackOp("unlink", t)
<1>2. /\ o.op = "delete" /\ Pop(g, <<unlink>>) /\ track' = [track EXCEPT ![t] = Nil]
      /\ notify' = [notify EXCEPT ![t] = Nil] /\ desired' = [desired EXCEPT ![t] = FALSE]
      /\ UNCHANGED <<run, job, file, rooms, history>>
  BY DEF Delete
<1>3. t \in Tracks
  BY <1>2, OpFields
<1>4. unlink \in Ops /\ unlink.op = "unlink"
  BY <1>3, OpFields DEF TrackOps
<1> HIDE DEF t, unlink
<1>5. <<unlink>> \in Seq(Ops) /\ Range(<<unlink>>) = {unlink}
  BY <1>4, ShortLists
<1>6. work' \in [Goroutines -> Seq(Ops)] /\ Moved({o}, {unlink})
  BY <1>1, <1>2, <1>5, Popped DEF TypeOK
<1>7. /\ track' \in [Tracks -> Snapshots \cup {Nil}] /\ track'[t] = Nil
      /\ \A u \in Tracks : u # t => track'[u] = track[u]
  BY <1>1, <1>2, <1>3, Updated DEF TypeOK
<1>8. /\ notify' \in [Tracks -> Rooms \cup {Nil}]
      /\ \A u \in Tracks : u # t => notify'[u] = notify[u]
  BY <1>1, <1>2, <1>3, Updated DEF TypeOK
<1>9. /\ desired' \in [Tracks -> BOOLEAN]
      /\ \A u \in Tracks : u # t => desired'[u] = desired[u]
  <2>1. FALSE \in BOOLEAN /\ desired \in [Tracks -> BOOLEAN] BY <1>1 DEF TypeOK
  <2> QED BY <1>2, <1>3, <2>1, Updated
<1>10. TypeOK'
  <2>1. \A u \in Tracks : track'[u] # Nil => track'[u].id = u
    BY <1>1, <1>7 DEF TypeOK
  <2> QED BY <1>1, <1>2, <1>6, <1>7, <1>8, <1>9, <2>1 DEF TypeOK, rooms, history
<1>11. FullIsDesired' /\ Asked'
  BY <1>1, <1>7, <1>8, <1>9 DEF FullIsDesired, Asked
<1>12. NoOrphanFile'
  <2>1. \A u \in Tracks : TrackOp("ready", u) # o /\ TrackOp("unlink", u) # o
    BY <1>2, OpFields
  <2>2. TrackOp("unlink", t) \in Pending' BY <1>6 DEF Moved, unlink
  <2> QED BY <1>2, <1>6, <1>7, <1>9, <2>1, <2>2 DEF NoOrphanFile, Moved
<1>13. Latest'
  <2>1. \A u \in Tracks : Tells(u)' = Tells(u) /\ (Coming(u) => Coming(u)')
    <3>1. \A p \in {o} : p.op \notin {"tell", "emit"} BY <1>2
    <3>2. \A p \in {unlink} : p.op # "tell" BY <1>4
    <3> QED BY <1>6, <3>1, <3>2, SameTells
  <2>2. UNCHANGED <<queue, astray>> BY <1>2 DEF rooms, history
  <2>3. \A u \in Tracks : track'[u] # Nil => track'[u] = track[u] /\ notify'[u] = notify[u]
    BY <1>7, <1>8
  <2> QED BY <2>1, <2>2, <2>3 DEF Latest
<1>14. Planned'
  <2>1. \A p \in {o} : p.op \notin {"tell", "plan", "ensure", "evict"} BY <1>2
  <2>2. \A p \in {unlink} : p.op \notin {"ensure", "evict"} BY <1>4
  <2>3. \A u \in Tracks : track'[u] # Nil => track[u] # Nil /\ desired'[u] = desired[u]
    BY <1>7, <1>9
  <2>4. UNCHANGED <<last, queue, budget, playing>> BY <1>2 DEF rooms, history
  <2> QED BY <1>1, <1>6, <2>1, <2>2, <2>3, <2>4, PlanKept
<1> QED BY <1>10, <1>11, <1>12, <1>13, <1>14 DEF CacheInv

-----------------------------------------------------------------------------
(* The theorems.                                                           *)

LEMMA WorkStep ==
    ASSUME IInv, NEW g \in Goroutines, Work(g)
    PROVE  IInv'
<1> DEFINE o == Head(work[g])
<1>1. work[g] # <<>> /\ UNCHANGED requests
  BY DEF Work
<1>2. o \in Ops
  BY <1>1 DEF IInv, CacheInv, TypeOK
<1>3. \/ UpsertTrack(g, o) \/ EndMaybe(g, o) \/ Reconcile(g, o)
      \/ ensureFull(g, o) \/ StartJob(g, o)
      \/ setFullReady(g, o) \/ evictFull(g, o) \/ Unlink(g, o)
      \/ emitUpdate(g, o) \/ cleanIfUnused(g, o) \/ Delete(g, o)
  BY DEF Work
<1>4. PICK h \in Ops : h = o
  BY <1>2
<1> HIDE DEF o
<1>5. h = Head(work[g])
  BY <1>4 DEF o
<1>6. CASE UpsertTrack(g, h) BY <1>1, <1>5, <1>6, UpsertStep
<1>7. CASE EndMaybe(g, h) \/ StartJob(g, h) \/ cleanIfUnused(g, h)
  BY <1>1, <1>5, <1>7, QuietStep
<1>8. CASE Reconcile(g, h) BY <1>1, <1>5, <1>8, ReconcileStep
<1>9. CASE ensureFull(g, h) BY <1>1, <1>5, <1>9, EnsureStep
<1>10. CASE setFullReady(g, h) BY <1>1, <1>5, <1>10, SetFullReadyStep
<1>11. CASE evictFull(g, h) BY <1>1, <1>5, <1>11, EvictStep
<1>12. CASE Unlink(g, h) BY <1>1, <1>5, <1>12, UnlinkStep
<1>13. CASE emitUpdate(g, h) BY <1>1, <1>5, <1>13, EmitStep
<1>14. CASE Delete(g, h) BY <1>1, <1>5, <1>14, DeleteStep
<1> QED BY <1>3, <1>4, <1>6, <1>7, <1>8, <1>9, <1>10, <1>11, <1>12, <1>13, <1>14

LEMMA CacheInit ==
    Init => IInv
<1> SUFFICES ASSUME Init PROVE IInv OBVIOUS
<1>1. <<>> \in Seq(Ops) /\ <<>> \in Seq(Snapshots) /\ Range(<<>>) = {}
  BY ShortLists
<1>2. NoDuplicates(<<>>)
  BY DEF NoDuplicates
<1>3. TypeOK
  <2>1. desired \in [Tracks -> BOOLEAN] /\ file \in [Tracks -> BOOLEAN]
    BY DEF Init
  <2>2. job \in [Tracks -> {"none", "loading", "loaded"}]
    BY DEF Init
  <2>3. work \in [Goroutines -> Seq(Ops)] /\ queue \in [Rooms -> Seq(Snapshots)]
    BY <1>1 DEF Init
  <2>4. \A q \in Rooms : NoDuplicates(queue[q])
    BY <1>2 DEF Init
  <2> QED BY <2>1, <2>2, <2>3, <2>4, CacheAssumption DEF Init, TypeOK
<1>4. FullIsDesired /\ NoOrphanFile /\ Asked /\ Latest /\ Planned
  BY DEF Init, FullIsDesired, NoOrphanFile, Asked, Latest, Planned
<1> QED BY <1>3, <1>4 DEF IInv, CacheInv

LEMMA CacheStep ==
    IInv /\ [Next]_vars => IInv'
<1> SUFFICES ASSUME IInv, [Next]_vars PROVE IInv' OBVIOUS
<1>1. CASE UNCHANGED vars
  <2>1. UNCHANGED <<track, run, notify, desired, job, file, queue, playing, budget,
                    work, requests, last, astray>>
    BY <1>1 DEF vars, media, rooms, history
  <2>2. Pending' = Pending BY <2>1 DEF Pending
  <2>3. CacheInv' BY <2>1 DEF IInv, CacheInv, TypeOK, FullIsDesired
  <2>4. NoOrphanFile' /\ Asked'
    BY <2>1, <2>2 DEF IInv, NoOrphanFile, Asked
  <2>5. Latest' BY <2>1, <2>2 DEF IInv, Latest, Coming, Tells
  <2>6. Planned' BY <2>1, <2>2 DEF IInv, Planned, Replans, Follows
  <2> QED BY <2>3, <2>4, <2>5, <2>6 DEF IInv
<1>2. ASSUME NEW q \in Rooms, endTrack(q) PROVE IInv'
  BY <1>2, RequestStep
<1>3. ASSUME NEW q \in Rooms, NEW b \in Budgets, SetSettings(q, b) PROVE IInv'
  BY <1>3, RequestStep
<1>4. ASSUME NEW q \in Rooms, NEW t \in Tracks, Resolve(q, t) PROVE IInv'
  BY <1>4, ResolveStep
<1>5. ASSUME NEW q \in Rooms, NEW t \in Tracks, RemoveTrack(q, t) PROVE IInv'
  BY <1>5, RequestStep
<1>6. ASSUME NEW t \in Tracks, markReady(t) PROVE IInv'
  BY <1>6, MarkReadyStep
<1>7. ASSUME NEW t \in Tracks, downloadFullM4A(t) \/ JobDone(t) PROVE IInv'
  BY <1>7, DownloadStep
<1>8. ASSUME NEW g \in Goroutines, Work(g) PROVE IInv'
  BY <1>8, WorkStep
<1> QED BY <1>1, <1>2, <1>3, <1>4, <1>5, <1>6, <1>7, <1>8 DEF Next

(* The invariant from which the theorems below follow: what the goroutines *)
(* of cache.go have before them accounts for whatever a file, a room or a  *)
(* plan still lacks.                                                       *)
THEOREM CacheInductive == Spec => []IInv
<1> QED BY CacheInit, CacheStep, PTL DEF Spec

(* A track has the address of its full file only while fullDesired has it, *)
(* the maps of the pipeline have their types and no queue has an ID twice. *)
THEOREM CacheSafe == Spec => []CacheInv
<1>1. IInv => CacheInv BY DEF IInv
<1> QED BY <1>1, CacheInductive, PTL

(* No <id>.m4a outlives the interest in it: evictFull, setFullReady and    *)
(* Delete leave none behind, in whatever order their regions interleave.   *)
THEOREM NoFileIsOrphaned == Spec => []NoOrphanFile
<1>1. IInv => NoOrphanFile BY DEF IInv
<1> QED BY <1>1, CacheInductive, PTL

LEMMA QuietPending ==
    ASSUME Quiet PROVE Pending = {}
<1>1. Range(<<>>) = {} BY DEF Range
<1> QED BY <1>1 DEF Quiet, Pending

(* reconcileCache: the room that planned last, alone, has the files wanted *)
(* that planFull keeps once every nested call is done, and no others.      *)
THEOREM PlansAreApplied == Spec => []PlanIsApplied
<1>1. ASSUME IInv, last # Nil, Quiet
      PROVE  \E full \in SUBSET Long :
               /\ IsGreedy(full, queue[last], budget[last])
               /\ \A e \in Range(queue[last]) :
                    IsLong(e) /\ track[e.id] # Nil =>
                      /\ e.id \in full => desired[e.id]
                      /\ e.id \notin full /\ desired[e.id] => e.id = playing[last]
  <2>1. Pending = {} BY <1>1, QuietPending
  <2>2. ~Replans BY <2>1 DEF Replans
  <2>3. PICK full \in SUBSET Long : Follows(full, last)
    BY <1>1, <2>2 DEF IInv, Planned
  <2> QED BY <2>1, <2>3 DEF Follows
<1>2. IInv => PlanIsApplied BY <1>1 DEF PlanIsApplied
<1> QED BY <1>2, CacheInductive, PTL

(* emitUpdate and notify: the room that asked last for a track has its     *)
(* latest state once the goroutines are done, unless updates crossed.      *)
THEOREM RoomShowsLatest == Spec => []ShowsLatest
<1>1. ASSUME IInv, NEW t \in Tracks, NEW q \in Rooms, q = notify[t], track[t] # Nil,
             t \notin astray, Quiet, NEW e \in Range(queue[q]), e.id = t
      PROVE  e = track[t]
  <2>1. Pending = {} BY <1>1, QuietPending
  <2>2. ~Coming(t) /\ Tells(t) = {} BY <2>1 DEF Coming, Tells
  <2> QED BY <1>1, <2>2 DEF IInv, Latest
<1>2. IInv => ShowsLatest BY <1>1 DEF ShowsLatest
<1> QED BY <1>2, CacheInductive, PTL
=============================================================================
