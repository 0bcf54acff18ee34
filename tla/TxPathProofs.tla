---------------------------- MODULE TxPathProofs ----------------------------
(***************************************************************************)
(* What TLAPS proves of the path from a frame handed over by the server to *)
(* a frame on the air, for any frames, depths, timings and bounds.         *)
(***************************************************************************)
EXTENDS TxPath, AirtimeProofs, TLAPS

-----------------------------------------------------------------------------
(* Queues: sequences of items that name no frame twice.                     *)
Names(q) == {q[i].frame : i \in DOMAIN q}
Distinct(q) == \A i, j \in DOMAIN q : q[i].frame = q[j].frame => i = j

(* A frame is pushed at the tail ...                                        *)
LEMMA AppendQueue ==
  ASSUME NEW q \in Seq(Items), NEW x \in Items
  PROVE  /\ Append(q, x) \in Seq(Items) /\ Len(Append(q, x)) = Len(q) + 1
         /\ Names(Append(q, x)) = Names(q) \cup {x.frame}
         /\ Distinct(q) /\ x.frame \notin Names(q) => Distinct(Append(q, x))
<1> DEFINE a == Append(q, x)
           n == Len(q)
<1>1. a \in Seq(Items) /\ Len(a) = n + 1 /\ n \in Nat /\ DOMAIN q = 1 .. n /\ DOMAIN a = 1 .. n + 1
  OBVIOUS
<1>2. (\A i \in 1 .. n : a[i] = q[i]) /\ a[n + 1] = x
  OBVIOUS
<1> HIDE DEF a, n
<1>3. Names(a) = Names(q) \cup {x.frame}
  <2>1. ASSUME NEW i \in DOMAIN a  PROVE a[i].frame \in Names(q) \cup {x.frame}
    <3>1. i = n + 1 \/ i \in 1 .. n
      BY <1>1
    <3> QED  BY <1>1, <1>2, <3>1 DEF Names
  <2>2. ASSUME NEW i \in DOMAIN q  PROVE q[i].frame \in Names(a)
    BY <1>1, <1>2 DEF Names
  <2>3. x.frame \in Names(a)
    BY <1>1, <1>2 DEF Names
  <2> QED  BY <2>1, <2>2, <2>3 DEF Names
<1>4. ASSUME Distinct(q), x.frame \notin Names(q)  PROVE Distinct(a)
  <2> SUFFICES ASSUME NEW i \in 1 .. n + 1, NEW j \in 1 .. n + 1, a[i].frame = a[j].frame
               PROVE  i = j
    BY <1>1 DEF Distinct
  <2>1. CASE i \in 1 .. n /\ j \in 1 .. n
    BY <1>1, <1>2, <1>4, <2>1 DEF Distinct
  <2>2. CASE i \in 1 .. n /\ j = n + 1
    BY <1>1, <1>2, <1>4, <2>2 DEF Names
  <2>3. CASE j \in 1 .. n /\ i = n + 1
    BY <1>1, <1>2, <1>4, <2>3 DEF Names
  <2> QED  BY <1>1, <2>1, <2>2, <2>3
<1> QED  BY <1>1, <1>3, <1>4 DEF a, n

(* ... or put back at the head.                                             *)
LEMMA ConsQueue ==
  ASSUME NEW q \in Seq(Items), NEW x \in Items
  PROVE  /\ <<x>> \o q \in Seq(Items) /\ Len(<<x>> \o q) = Len(q) + 1
         /\ Names(<<x>> \o q) = Names(q) \cup {x.frame}
         /\ Distinct(q) /\ x.frame \notin Names(q) => Distinct(<<x>> \o q)
<1> DEFINE a == <<x>> \o q
           n == Len(q)
<1>1. a \in Seq(Items) /\ Len(a) = n + 1 /\ n \in Nat /\ DOMAIN q = 1 .. n /\ DOMAIN a = 1 .. n + 1
  OBVIOUS
<1>2. a[1] = x /\ \A i \in 2 .. n + 1 : a[i] = q[i - 1]
  OBVIOUS
<1> HIDE DEF a, n
<1>3. Names(a) = Names(q) \cup {x.frame}
  <2>1. ASSUME NEW i \in DOMAIN a  PROVE a[i].frame \in Names(q) \cup {x.frame}
    <3>1. i = 1 \/ (i \in 2 .. n + 1 /\ i - 1 \in 1 .. n)
      BY <1>1
    <3> QED  BY <1>1, <1>2, <3>1 DEF Names
  <2>2. ASSUME NEW i \in DOMAIN q  PROVE q[i].frame \in Names(a)
    <3>1. i + 1 \in 2 .. n + 1 /\ (i + 1) - 1 = i /\ i + 1 \in DOMAIN a
      BY <1>1
    <3>2. a[i + 1] = q[i]
      BY <1>2, <3>1
    <3> QED  BY <3>1, <3>2 DEF Names
  <2>3. x.frame \in Names(a)
    BY <1>1, <1>2 DEF Names
  <2> QED  BY <2>1, <2>2, <2>3 DEF Names
<1>4. ASSUME Distinct(q), x.frame \notin Names(q)  PROVE Distinct(a)
  <2> SUFFICES ASSUME NEW i \in 1 .. n + 1, NEW j \in 1 .. n + 1, a[i].frame = a[j].frame
               PROVE  i = j
    BY <1>1 DEF Distinct
  <2>1. CASE i \in 2 .. n + 1 /\ j \in 2 .. n + 1
    <3>1. i - 1 \in DOMAIN q /\ j - 1 \in DOMAIN q /\ a[i] = q[i - 1] /\ a[j] = q[j - 1]
      BY <1>1, <1>2, <2>1
    <3>2. i - 1 = j - 1
      BY <1>4, <3>1 DEF Distinct
    <3> QED  BY <1>1, <3>2
  <2>2. CASE i = 1 /\ j \in 2 .. n + 1
    <3>1. j - 1 \in DOMAIN q /\ a[j] = q[j - 1]
      BY <1>1, <1>2, <2>2
    <3> QED  BY <1>2, <1>4, <2>2, <3>1 DEF Names
  <2>3. CASE j = 1 /\ i \in 2 .. n + 1
    <3>1. i - 1 \in DOMAIN q /\ a[i] = q[i - 1]
      BY <1>1, <1>2, <2>3
    <3> QED  BY <1>2, <1>4, <2>3, <3>1 DEF Names
  <2>4. CASE i = 1 /\ j = 1
    BY <2>4
  <2> QED  BY <1>1, <2>1, <2>2, <2>3, <2>4
<1> QED  BY <1>1, <1>3, <1>4 DEF a, n

LEMMA JoinQueues ==
  ASSUME NEW u \in Seq(Items), NEW v \in Seq(Items)
  PROVE  u \o v \in Seq(Items) /\ Len(u \o v) = Len(u) + Len(v)
OBVIOUS

(* A frame is taken from anywhere.                                          *)
LEMMA RemoveQueue ==
  ASSUME NEW q \in Seq(Items), NEW k \in DOMAIN q
  PROVE  /\ RemoveAt(q, k) \in Seq(Items) /\ Len(RemoveAt(q, k)) = Len(q) - 1
         /\ Distinct(q) => /\ Distinct(RemoveAt(q, k))
                           /\ Names(RemoveAt(q, k)) = Names(q) \ {q[k].frame}
<1> DEFINE a == RemoveAt(q, k)
           n == Len(q)
           l == SubSeq(q, 1, k - 1)
           r == SubSeq(q, k + 1, n)
<1>1. n \in Nat /\ DOMAIN q = 1 .. n /\ k \in 1 .. n
  OBVIOUS
<1>2. l \in Seq(Items) /\ Len(l) = k - 1 /\ \A i \in 1 .. k - 1 : l[i] = q[i]
  BY <1>1
<1>3. r \in Seq(Items) /\ Len(r) = n - k /\ \A i \in 1 .. n - k : r[i] = q[k + i]
  BY <1>1
<1>4. a = l \o r
  BY DEF RemoveAt
<1> HIDE DEF l, r, a
<1>5. a \in Seq(Items) /\ Len(a) = n - 1 /\ DOMAIN a = 1 .. n - 1
  <2>0. l \o r \in Seq(Items) /\ Len(l \o r) = Len(l) + Len(r)
    BY <1>2, <1>3, JoinQueues
  <2>1. a \in Seq(Items) /\ Len(a) = Len(l) + Len(r)
    BY <1>4, <2>0
  <2> HIDE DEF n
  <2>2. Len(a) = n - 1
    BY <1>1, <1>2, <1>3, <2>1
  <2> QED  BY <2>1, <2>2
<1>6. (\A i \in 1 .. k - 1 : a[i] = q[i]) /\ (\A i \in k .. n - 1 : a[i] = q[i + 1])
  <2>1. \A i \in 1 .. k - 1 : a[i] = l[i]
    BY <1>1, <1>2, <1>3, <1>4
  <2>2. \A i \in k .. n - 1 : a[i] = r[i - (k - 1)] /\ i - (k - 1) \in 1 .. n - k /\ k + (i - (k - 1)) = i + 1
    BY <1>1, <1>2, <1>3, <1>4
  <2> QED  BY <1>2, <1>3, <2>1, <2>2
<1> HIDE DEF n
<1>7. ASSUME NEW i \in 1 .. n - 1
      PROVE  \E j \in 1 .. n : /\ j # k /\ a[i] = q[j]
                               /\ j = IF i < k THEN i ELSE i + 1
  <2>1. CASE i < k
    <3>1. i \in 1 .. k - 1 /\ i \in 1 .. n
      BY <1>1, <2>1
    <3> QED  BY <1>1, <1>6, <2>1, <3>1
  <2>2. CASE ~ (i < k)
    <3>1. i \in k .. n - 1 /\ i + 1 \in 1 .. n /\ i + 1 # k
      BY <1>1, <2>2
    <3> QED  BY <1>1, <1>6, <2>2, <3>1
  <2> QED  BY <2>1, <2>2
<1>8. ASSUME NEW j \in 1 .. n, j # k  PROVE \E i \in 1 .. n - 1 : a[i] = q[j]
  <2>1. CASE j < k
    <3>1. j \in 1 .. k - 1 /\ j \in 1 .. n - 1
      BY <1>1, <2>1
    <3> QED  BY <1>6, <3>1
  <2>2. CASE j > k
    <3>1. j - 1 \in k .. n - 1 /\ j - 1 \in 1 .. n - 1 /\ (j - 1) + 1 = j
      BY <1>1, <2>2
    <3>2. a[j - 1] = q[j]
      BY <1>6, <3>1
    <3> QED  BY <3>1, <3>2
  <2> QED  BY <1>1, <1>8, <2>1, <2>2
<1>9. ASSUME Distinct(q)
      PROVE  Distinct(a) /\ Names(a) = Names(q) \ {q[k].frame}
  <2>1. ASSUME NEW i \in 1 .. n - 1, NEW j \in 1 .. n - 1, a[i].frame = a[j].frame
        PROVE  i = j
    <3>1. PICK u \in 1 .. n : a[i] = q[u] /\ u = IF i < k THEN i ELSE i + 1
      BY <1>7
    <3>2. PICK v \in 1 .. n : a[j] = q[v] /\ v = IF j < k THEN j ELSE j + 1
      BY <1>7
    <3>3. u = v
      BY <1>1, <1>9, <2>1, <3>1, <3>2 DEF Distinct
    <3> QED  BY <1>1, <3>1, <3>2, <3>3
  <2>2. ASSUME NEW i \in 1 .. n - 1  PROVE a[i].frame \in Names(q) \ {q[k].frame}
    <3>1. PICK j \in 1 .. n : j # k /\ a[i] = q[j]
      BY <1>7
    <3> QED  BY <1>1, <1>9, <3>1 DEF Distinct, Names
  <2>3. ASSUME NEW j \in 1 .. n, q[j].frame # q[k].frame  PROVE q[j].frame \in Names(a)
    <3>1. PICK i \in 1 .. n - 1 : a[i] = q[j]
      BY <1>8, <2>3
    <3> QED  BY <1>5, <3>1 DEF Names
  <2>4. Names(a) = Names(q) \ {q[k].frame}
    BY <1>1, <1>5, <2>2, <2>3 DEF Names
  <2> QED  BY <1>5, <2>1, <2>4 DEF Distinct
<1> QED  BY <1>5, <1>9 DEF a, n

(* Stale frames are taken out: what is kept is a part of the queue, in      *)
(* order, and not longer.                                                   *)
LEMMA FreshQueue ==
  ASSUME NEW q \in Seq(Items), NEW t
  PROVE  /\ Fresh(q, t) \in Seq(Items) /\ Len(Fresh(q, t)) <= Len(q)
         /\ Names(Fresh(q, t)) \subseteq Names(q)
         /\ Distinct(q) => Distinct(Fresh(q, t))
<1> DEFINE N == Len(q)
           Step(g, n) == IF n = 0 THEN <<>>
                         ELSE IF Stale(q[n], t) THEN g[n - 1]
                         ELSE Append(g[n - 1], q[n])
           Keeps(g, n) == g = [i \in 0 .. n |-> Step(g, i)]
           Exists(n) == \E g : Keeps(g, n)
           T == {n \in Nat : Exists(n)}
<1>1. 0 \in T
  <2> DEFINE g == [i \in 0 .. 0 |-> <<>>]
  <2>1. Keeps(g, 0)
    OBVIOUS
  <2>2. Exists(0)
    <3> HIDE DEF g, Keeps
    <3> QED  BY <2>1
  <2> HIDE DEF Exists
  <2> QED  BY <2>2
<1>2. ASSUME NEW n \in T  PROVE n + 1 \in T
  <2>1. n \in Nat /\ Exists(n)
    <3> HIDE DEF Exists
    <3> QED  OBVIOUS
  <2>2. PICK g : Keeps(g, n)
    <3> HIDE DEF Keeps
    <3> QED  BY <2>1
  <2> DEFINE h == [i \in 0 .. n + 1 |-> IF i <= n THEN g[i] ELSE Step(g, n + 1)]
  <2>3. ASSUME NEW i \in 0 .. n + 1  PROVE h[i] = Step(h, i)
    <3>1. CASE i = 0
      BY <2>1, <2>2, <3>1
    <3>2. CASE i # 0
      <4>1. i - 1 \in 0 .. n /\ h[i - 1] = g[i - 1]
        BY <2>1, <3>2
      <4>2. h[i] = Step(g, i)
        <5>1. CASE i <= n
          <6>1. i \in 0 .. n /\ h[i] = g[i]
            BY <2>1, <5>1
          <6> HIDE DEF h
          <6>2. g[i] = Step(g, i)
            BY <2>2, <6>1
          <6> QED  BY <6>1, <6>2
        <5>2. CASE i = n + 1
          BY <2>1, <5>2
        <5> QED  BY <2>1, <5>1, <5>2
      <4> QED  BY <3>2, <4>1, <4>2
    <3> QED  BY <3>1, <3>2
  <2>4. Keeps(h, n + 1)
    BY <2>3
  <2>5. Exists(n + 1)
    <3> HIDE DEF h, Keeps
    <3> QED  BY <2>4
  <2> HIDE DEF Exists
  <2> QED  BY <2>1, <2>5
<1>3. N \in Nat /\ Exists(N)
  <2>1. T = Nat
    <3> HIDE DEF Exists
    <3>1. T \in SUBSET Nat
      OBVIOUS
    <3> HIDE DEF T
    <3> QED  BY <1>1, <1>2, <3>1, NatByInduction
  <2> HIDE DEF Exists
  <2> QED  BY <2>1
<1> DEFINE K == CHOOSE g : Keeps(g, N)
<1>4. Fresh(q, t) = K[N]
  BY DEF Fresh
<1>5. Keeps(K, N)
  <2> HIDE DEF Keeps
  <2> QED  BY <1>3
<1>6. /\ K[0] = <<>>
      /\ \A n \in 1 .. N : K[n] = IF Stale(q[n], t) THEN K[n - 1] ELSE Append(K[n - 1], q[n])
  <2> HIDE DEF K
  <2>1. \A n \in 0 .. N : K[n] = Step(K, n)
    BY <1>5
  <2>2. \A n \in 1 .. N : n \in 0 .. N /\ n # 0
    BY <1>3
  <2> QED  BY <1>3, <2>1, <2>2
<1> HIDE DEF K
<1> DEFINE Part(n) == {q[i].frame : i \in 1 .. n}
           Good(n) == /\ K[n] \in Seq(Items) /\ Len(K[n]) <= n
                      /\ Names(K[n]) \subseteq Part(n)
                      /\ Distinct(q) => Distinct(K[n])
           G == {n \in Nat : n <= N => Good(n)}
<1>7. 0 \in G
  <2>1. K[0] \in Seq(Items) /\ Len(K[0]) = 0 /\ DOMAIN K[0] = {}
    BY <1>6
  <2>2. Good(0)
    BY <2>1 DEF Names, Distinct
  <2> HIDE DEF Good
  <2> QED  BY <2>2
<1>8. ASSUME NEW n \in G  PROVE n + 1 \in G
  <2>0. n \in Nat /\ (n <= N => Good(n))
    <3> HIDE DEF Good
    <3> QED  OBVIOUS
  <2>1. ASSUME n + 1 <= N  PROVE Good(n + 1)
    <3> DEFINE k == K[n]
               x == q[n + 1]
    <3>1. /\ n + 1 \in 1 .. N /\ n <= N /\ n + 1 \in DOMAIN q /\ x \in Items
          /\ K[n + 1] = IF Stale(x, t) THEN k ELSE Append(k, x)
      BY <1>3, <1>6, <2>0, <2>1
    <3>2. k \in Seq(Items) /\ Len(k) <= n /\ Names(k) \subseteq Part(n) /\ (Distinct(q) => Distinct(k))
      BY <2>0, <3>1
    <3>3. Part(n) \subseteq Part(n + 1) /\ x.frame \in Part(n + 1)
      BY <2>0
    <3>4. Distinct(q) => x.frame \notin Part(n)
      <4> SUFFICES ASSUME Distinct(q), NEW i \in 1 .. n, q[i].frame = x.frame  PROVE FALSE
        OBVIOUS
      <4>1. i \in DOMAIN q /\ i # n + 1
        BY <1>3, <2>0, <3>1
      <4> QED  BY <3>1, <4>1 DEF Distinct
    <3> HIDE DEF k, x, Part
    <3>5. CASE Stale(x, t)
      BY <2>0, <3>1, <3>2, <3>3, <3>5
    <3>6. CASE ~Stale(x, t)
      <4>1. /\ Append(k, x) \in Seq(Items) /\ Len(Append(k, x)) = Len(k) + 1
            /\ Names(Append(k, x)) = Names(k) \cup {x.frame}
            /\ Distinct(k) /\ x.frame \notin Names(k) => Distinct(Append(k, x))
        BY <3>1, <3>2, AppendQueue
      <4> QED  BY <2>0, <3>1, <3>2, <3>3, <3>4, <3>6, <4>1
    <3> QED  BY <3>5, <3>6
  <2> HIDE DEF Good
  <2> QED  BY <2>0, <2>1
<1>9. Good(N)
  <2>1. G = Nat
    <3> HIDE DEF Good
    <3>1. G \in SUBSET Nat
      OBVIOUS
    <3> HIDE DEF G
    <3> QED  BY <1>7, <1>8, <3>1, NatByInduction
  <2> HIDE DEF Good
  <2> QED  BY <1>3, <2>1
<1>10. Part(N) = Names(q)
  BY DEF Names
<1> QED  BY <1>4, <1>9, <1>10

-----------------------------------------------------------------------------
(* Schedulers: what is waiting under a class is of that class, and nothing  *)
(* waits twice.                                                             *)
Orderly(s) ==
  /\ IsScheduler(s) /\ IsFiniteSet(DOMAIN s.buckets)
  /\ \A c \in Classes : Distinct(s.queues[c])
  /\ \A c \in Classes : \A f \in Names(s.queues[c]) : ClassOf[f] = c

Holds(s) == <<s.pace, s.reply, s.guard>>

LEMMA LengthsAreNat ==
  ASSUME NEW s, Orderly(s)
  PROVE  \A c \in Classes : Len(s.queues[c]) \in Nat /\ Depth[c] \in Nat
<1>1. Depth \in [Classes -> Nat]
  BY SchedulerAssumption
<1>2. s.queues \in [Classes -> Seq(Items)]
  BY DEF Orderly, IsScheduler
<1> QED  BY <1>1, <1>2

LEMMA NamesAreWaiting ==
  ASSUME NEW s
  PROVE  /\ \A c \in Classes : Waiting(s, c) = Names(s.queues[c])
         /\ \A f : f \in Queued(s) <=> \E c \in Classes : f \in Names(s.queues[c])
BY DEF Waiting, Queued, Names

LEMMA QueuedAreFrames ==
  ASSUME NEW s, Orderly(s)
  PROVE  /\ Queued(s) \in SUBSET Frames
         /\ \A f \in Frames : f \in Queued(s) <=> f \in Names(s.queues[ClassOf[f]])
<1>1. \A c \in Classes : Names(s.queues[c]) \in SUBSET Frames
  <2> SUFFICES ASSUME NEW c \in Classes, NEW i \in DOMAIN s.queues[c]
               PROVE  s.queues[c][i].frame \in Frames
    BY DEF Names
  <2>1. s.queues[c] \in Seq(Items)
    BY DEF Orderly, IsScheduler
  <2>2. s.queues[c][i] \in Items
    BY <2>1
  <2> QED  BY <2>2 DEF Items
<1>2. \A f \in Frames : ClassOf[f] \in Classes
  BY SchedulerAssumption
<1> QED  BY <1>1, <1>2, NamesAreWaiting DEF Orderly

(* One queue is replaced by another of the same class.                      *)
LEMMA ReplaceQueue ==
  ASSUME NEW s, Orderly(s), NEW t, NEW k \in Classes, NEW q \in Seq(Items),
         IsScheduler(t), t.buckets = s.buckets,
         \A c \in Classes : t.queues[c] = IF c = k THEN q ELSE s.queues[c],
         Distinct(q), \A f \in Names(q) : ClassOf[f] = k
  PROVE  /\ Orderly(t)
         /\ Queued(t) = (Queued(s) \ Names(s.queues[k])) \cup Names(q)
<1>1. \A c \in Classes : t.queues[c] = IF c = k THEN q ELSE s.queues[c]
  OBVIOUS
<1>2. Orderly(t)
  BY <1>1 DEF Orderly
<1>3. Queued(t) = (Queued(s) \ Names(s.queues[k])) \cup Names(q)
  <2>1. ASSUME NEW f \in Queued(t)
        PROVE  f \in (Queued(s) \ Names(s.queues[k])) \cup Names(q)
    <3>1. PICK c \in Classes : f \in Names(t.queues[c])
      BY NamesAreWaiting
    <3>2. CASE c = k
      BY <1>1, <3>1, <3>2
    <3>3. CASE c # k
      <4>1. f \in Names(s.queues[c]) /\ f \in Queued(s)
        BY <1>1, <3>1, <3>3, NamesAreWaiting
      <4>2. ClassOf[f] = c
        BY <4>1 DEF Orderly
      <4>3. f \notin Names(s.queues[k])
        <5>1. f \in Names(s.queues[k]) => ClassOf[f] = k
          BY DEF Orderly
        <5> QED  BY <3>3, <4>2, <5>1
      <4> QED  BY <4>1, <4>3
    <3> QED  BY <3>2, <3>3
  <2>2. ASSUME NEW f \in Queued(s), f \notin Names(s.queues[k])  PROVE f \in Queued(t)
    <3>1. PICK c \in Classes : f \in Names(s.queues[c])
      BY NamesAreWaiting
    <3>2. f \in Names(t.queues[c])
      BY <1>1, <2>2, <3>1
    <3> QED  BY <3>2, NamesAreWaiting
  <2>3. Names(q) \subseteq Queued(t)
    <3>1. Names(t.queues[k]) = Names(q)
      BY <1>1
    <3> QED  BY <3>1, NamesAreWaiting
  <2> QED  BY <2>1, <2>2, <2>3
<1> QED  BY <1>1, <1>2, <1>3

(* Queues lose frames.                                                      *)
LEMMA ShrinkQueues ==
  ASSUME NEW s, Orderly(s), NEW t, NEW Q \in [Classes -> Seq(Items)],
         IsScheduler(t), t.buckets = s.buckets, t.queues = Q,
         \A c \in Classes : Distinct(Q[c]) /\ Names(Q[c]) \subseteq Names(s.queues[c])
  PROVE  /\ Orderly(t)
         /\ Queued(t) \subseteq Queued(s)
         /\ \A f \in Queued(s) \ Queued(t) : Q[ClassOf[f]] # s.queues[ClassOf[f]]
<1>1. Orderly(t)
  BY DEF Orderly
<1>2. Queued(t) \subseteq Queued(s)
  BY NamesAreWaiting
<1>3. ASSUME NEW f \in Queued(s) \ Queued(t)  PROVE Q[ClassOf[f]] # s.queues[ClassOf[f]]
  BY <1>1, <1>3, QueuedAreFrames
<1> QED  BY <1>1, <1>2, <1>3

(* A frame that is not waiting is pushed: it waits last of its class.       *)
LEMMA PushKeeps ==
  ASSUME NEW s, Orderly(s), NEW x \in Items, x.frame \notin Queued(s)
  PROVE  /\ Orderly(Push(s, x)) /\ Holds(Push(s, x)) = Holds(s)
         /\ Queued(Push(s, x)) = Queued(s) \cup {x.frame}
         /\ \A c \in Classes : Len(Push(s, x).queues[c])
              = IF c = ClassOf[x.frame] THEN Len(s.queues[c]) + 1 ELSE Len(s.queues[c])
<1> DEFINE k == ClassOf[x.frame]
           q == Append(s.queues[k], x)
           t == Push(s, x)
<1>1. x.frame \in Frames /\ k \in Classes /\ s.queues[k] \in Seq(Items)
  BY SchedulerAssumption DEF Items, Orderly, IsScheduler
<1>2. x.frame \notin Names(s.queues[k])
  BY <1>1, NamesAreWaiting
<1>3. /\ q \in Seq(Items) /\ Len(q) = Len(s.queues[k]) + 1
      /\ Names(q) = Names(s.queues[k]) \cup {x.frame} /\ Distinct(q)
  BY <1>1, <1>2, AppendQueue DEF Orderly
<1>4. /\ t.queues = [s.queues EXCEPT ![k] = q]
      /\ t.buckets = s.buckets /\ Holds(t) = Holds(s)
      /\ DOMAIN t = DOMAIN s /\ t.pace = s.pace /\ t.reply = s.reply /\ t.guard = s.guard
  BY <1>1 DEF Push, Holds, Orderly, IsScheduler
<1>9. t.queues \in [Classes -> Seq(Items)]
      /\ \A c \in Classes : t.queues[c] = IF c = k THEN q ELSE s.queues[c]
  <2>1. s.queues \in [Classes -> Seq(Items)] /\ t.queues = [s.queues EXCEPT ![k] = q]
    BY <1>4 DEF Orderly, IsScheduler
  <2> HIDE DEF t, q, k
  <2> QED  BY <1>1, <1>3, <2>1
<1> HIDE DEF t, q
<1>5. IsScheduler(t)
  BY <1>4, <1>9 DEF Orderly, IsScheduler
<1>6. \A f \in Names(q) : ClassOf[f] = k
  BY <1>1, <1>3 DEF Orderly
<1> HIDE DEF k
<1>7. /\ Orderly(t)
      /\ Queued(t) = (Queued(s) \ Names(s.queues[k])) \cup Names(q)
  BY <1>1, <1>3, <1>4, <1>5, <1>6, <1>9, ReplaceQueue
<1>8. Names(s.queues[k]) \subseteq Queued(s)
  BY <1>1, NamesAreWaiting
<1> QED  BY <1>3, <1>4, <1>7, <1>8, <1>9 DEF t, k

(* A frame put back waits first of its class, and holds the transmitter for *)
(* as long as it was told to wait.                                          *)
LEMMA RequeueKeeps ==
  ASSUME NEW s, Orderly(s), NEW x \in Items, x.frame \notin Queued(s),
         NEW n \in Nat, NEW d \in Nat
  PROVE  /\ Orderly(Requeue(s, x, n, d))
         /\ Requeue(s, x, n, d).pace >= s.pace
         /\ Requeue(s, x, n, d).reply = s.reply /\ Requeue(s, x, n, d).guard = s.guard
         /\ Queued(Requeue(s, x, n, d)) = Queued(s) \cup {x.frame}
         /\ \A c \in Classes : Len(Requeue(s, x, n, d).queues[c])
              = IF c = ClassOf[x.frame] THEN Len(s.queues[c]) + 1 ELSE Len(s.queues[c])
<1> DEFINE k == ClassOf[x.frame]
           q == <<x>> \o s.queues[k]
           t == Requeue(s, x, n, d)
<1>1. x.frame \in Frames /\ k \in Classes /\ s.queues[k] \in Seq(Items)
  BY SchedulerAssumption DEF Items, Orderly, IsScheduler
<1>2. x.frame \notin Names(s.queues[k])
  BY <1>1, NamesAreWaiting
<1>3. /\ q \in Seq(Items) /\ Len(q) = Len(s.queues[k]) + 1
      /\ Names(q) = Names(s.queues[k]) \cup {x.frame} /\ Distinct(q)
  BY <1>1, <1>2, ConsQueue DEF Orderly
<1>4. /\ t.queues = [s.queues EXCEPT ![k] = q]
      /\ t.buckets = s.buckets
      /\ DOMAIN t = DOMAIN s /\ t.pace = Larger(s.pace, n + d)
      /\ t.reply = s.reply /\ t.guard = s.guard
  BY <1>1 DEF Requeue, Orderly, IsScheduler
<1>9. t.queues \in [Classes -> Seq(Items)]
      /\ \A c \in Classes : t.queues[c] = IF c = k THEN q ELSE s.queues[c]
  <2>1. s.queues \in [Classes -> Seq(Items)] /\ t.queues = [s.queues EXCEPT ![k] = q]
    BY <1>4 DEF Orderly, IsScheduler
  <2> HIDE DEF t, q, k
  <2> QED  BY <1>1, <1>3, <2>1
<1> HIDE DEF t, q
<1>5. IsScheduler(t) /\ t.pace >= s.pace
  <2>1. s.pace \in Nat /\ Larger(s.pace, n + d) \in Nat /\ Larger(s.pace, n + d) >= s.pace
    BY DEF Orderly, IsScheduler, Larger
  <2> QED  BY <1>4, <1>9, <2>1 DEF Orderly, IsScheduler
<1>6. \A f \in Names(q) : ClassOf[f] = k
  BY <1>1, <1>3 DEF Orderly
<1> HIDE DEF k
<1>7. /\ Orderly(t)
      /\ Queued(t) = (Queued(s) \ Names(s.queues[k])) \cup Names(q)
  BY <1>1, <1>3, <1>4, <1>5, <1>6, <1>9, ReplaceQueue
<1>8. Names(s.queues[k]) \subseteq Queued(s)
  BY <1>1, NamesAreWaiting
<1> QED  BY <1>3, <1>4, <1>5, <1>7, <1>8, <1>9 DEF t, k

(* What goes stale is perishable, and what goes when the transmitter is     *)
(* turned off is not an identification.                                     *)
LEMMA ExpireKeeps ==
  ASSUME NEW s, Orderly(s), NEW n
  PROVE  /\ Orderly(Expire(s, n)) /\ Holds(Expire(s, n)) = Holds(s)
         /\ Queued(Expire(s, n)) \subseteq Queued(s)
         /\ \A f \in Queued(s) \ Queued(Expire(s, n)) : ClassOf[f] \in Perishable
         /\ \A c \in Classes : Len(Expire(s, n).queues[c]) <= Len(s.queues[c])
<1> DEFINE Q == [c \in Classes |-> IF c \in Perishable THEN Fresh(s.queues[c], n)
                                   ELSE s.queues[c]]
           t == Expire(s, n)
<1>1. ASSUME NEW c \in Classes
      PROVE  /\ Q[c] \in Seq(Items) /\ Len(Q[c]) <= Len(s.queues[c])
             /\ Distinct(Q[c]) /\ Names(Q[c]) \subseteq Names(s.queues[c])
             /\ Q[c] # s.queues[c] => c \in Perishable
  <2>1. s.queues[c] \in Seq(Items) /\ Distinct(s.queues[c])
    BY DEF Orderly, IsScheduler
  <2>2. /\ Fresh(s.queues[c], n) \in Seq(Items) /\ Len(Fresh(s.queues[c], n)) <= Len(s.queues[c])
        /\ Names(Fresh(s.queues[c], n)) \subseteq Names(s.queues[c])
        /\ Distinct(Fresh(s.queues[c], n))
    BY <2>1, FreshQueue
  <2> QED  BY <2>1, <2>2
<1>2. /\ t.queues = Q /\ t.buckets = s.buckets /\ Holds(t) = Holds(s)
      /\ DOMAIN t = DOMAIN s /\ t.pace = s.pace /\ t.reply = s.reply /\ t.guard = s.guard
  BY DEF Expire, Holds, Orderly, IsScheduler
<1>3. Q \in [Classes -> Seq(Items)]
  BY <1>1
<1> HIDE DEF t, Q
<1>4. IsScheduler(t)
  BY <1>2, <1>3 DEF Orderly, IsScheduler
<1>5. /\ Orderly(t) /\ Queued(t) \subseteq Queued(s)
      /\ \A f \in Queued(s) \ Queued(t) : Q[ClassOf[f]] # s.queues[ClassOf[f]]
  BY <1>1, <1>2, <1>3, <1>4, ShrinkQueues
<1>6. \A f \in Queued(s) \ Queued(t) : ClassOf[f] \in Perishable
  <2>1. \A f \in Queued(s) : ClassOf[f] \in Classes
    BY QueuedAreFrames, SchedulerAssumption
  <2> QED  BY <1>1, <1>5, <2>1
<1> QED  BY <1>1, <1>2, <1>5, <1>6 DEF t

LEMMA DrainKeeps ==
  ASSUME NEW s, Orderly(s)
  PROVE  /\ Orderly(DrainExceptId(s)) /\ Holds(DrainExceptId(s)) = Holds(s)
         /\ Queued(DrainExceptId(s)) \subseteq Queued(s)
         /\ \A f \in Queued(s) \ Queued(DrainExceptId(s)) : ClassOf[f] # Id
         /\ \A c \in Classes : Len(DrainExceptId(s).queues[c]) <= Len(s.queues[c])
<1> DEFINE Q == [c \in Classes |-> IF c = Id THEN s.queues[c] ELSE <<>>]
           t == DrainExceptId(s)
<1>1. ASSUME NEW c \in Classes
      PROVE  /\ Q[c] \in Seq(Items) /\ Len(Q[c]) <= Len(s.queues[c])
             /\ Distinct(Q[c]) /\ Names(Q[c]) \subseteq Names(s.queues[c])
             /\ Q[c] # s.queues[c] => c # Id
  <2>1. s.queues[c] \in Seq(Items) /\ Distinct(s.queues[c]) /\ Len(s.queues[c]) \in Nat
    BY DEF Orderly, IsScheduler
  <2>2. <<>> \in Seq(Items) /\ Len(<<>>) = 0 /\ Distinct(<<>>) /\ Names(<<>>) = {}
    BY DEF Distinct, Names
  <2>3. Q[c] = IF c = Id THEN s.queues[c] ELSE <<>>
    OBVIOUS
  <2> HIDE DEF Q
  <2> QED  BY <2>1, <2>2, <2>3
<1>2. /\ t.queues = Q /\ t.buckets = s.buckets /\ Holds(t) = Holds(s)
      /\ DOMAIN t = DOMAIN s /\ t.pace = s.pace /\ t.reply = s.reply /\ t.guard = s.guard
  BY DEF DrainExceptId, Holds, Orderly, IsScheduler
<1>3. Q \in [Classes -> Seq(Items)]
  BY <1>1
<1> HIDE DEF t, Q
<1>4. IsScheduler(t)
  BY <1>2, <1>3 DEF Orderly, IsScheduler
<1>5. /\ Orderly(t) /\ Queued(t) \subseteq Queued(s)
      /\ \A f \in Queued(s) \ Queued(t) : Q[ClassOf[f]] # s.queues[ClassOf[f]]
  BY <1>1, <1>2, <1>3, <1>4, ShrinkQueues
<1>6. \A f \in Queued(s) \ Queued(t) : ClassOf[f] # Id
  <2>1. \A f \in Queued(s) : ClassOf[f] \in Classes
    BY QueuedAreFrames, SchedulerAssumption
  <2> QED  BY <1>1, <1>5, <2>1
<1> QED  BY <1>1, <1>2, <1>5, <1>6 DEF t

(* Hearing something touches the holds only, and so does keying but for the *)
(* accounts.                                                                *)
LEMMA SameQueuesKeep ==
  ASSUME NEW s, Orderly(s), NEW t, IsScheduler(t), IsFiniteSet(DOMAIN t.buckets),
         t.queues = s.queues
  PROVE  Orderly(t) /\ Queued(t) = Queued(s)
<1>1. Orderly(t)
  BY DEF Orderly
<1>2. Queued(t) = Queued(s)
  BY DEF Queued, Waiting
<1> QED  BY <1>1, <1>2

LEMMA OnHeardKeeps ==
  ASSUME NEW s, Orderly(s), NEW n \in Nat
  PROVE  /\ Orderly(OnHeard(s, n)) /\ Queued(OnHeard(s, n)) = Queued(s)
         /\ OnHeard(s, n).queues = s.queues
         /\ OnHeard(s, n).pace = s.pace /\ OnHeard(s, n).reply = 0
         /\ OnHeard(s, n).guard = n + RxGuard
<1> DEFINE t == OnHeard(s, n)
<1>1. /\ t.queues = s.queues /\ t.buckets = s.buckets /\ DOMAIN t = DOMAIN s
      /\ t.pace = s.pace /\ t.reply = 0 /\ t.guard = n + RxGuard
  BY DEF OnHeard, Orderly, IsScheduler
<1>2. n + RxGuard \in Nat
  BY SchedulerAssumption
<1> HIDE DEF t
<1>3. IsScheduler(t) /\ IsFiniteSet(DOMAIN t.buckets)
  BY <1>1, <1>2 DEF Orderly, IsScheduler
<1> QED  BY <1>1, <1>3, SameQueuesKeep DEF t

(* Spending stays within the largest debt, and never tracks more accounts   *)
(* than it may: the quietest makes room.                                    *)
LEMMA QuietestExists ==
  ASSUME NEW s, Orderly(s), DOMAIN s.buckets # {}
  PROVE  \E x \in DOMAIN s.buckets : \A y \in DOMAIN s.buckets : s.buckets[x].last <= s.buckets[y].last
<1> DEFINE B == DOMAIN s.buckets
           L == {s.buckets[x].last : x \in B}
<1>1. \A x \in B : s.buckets[x].last \in Nat
  BY DEF Orderly, IsScheduler
<1>2. L \in SUBSET Nat /\ L # {}
  BY <1>1
<1>3. \A x \in B : s.buckets[x].last \in L
  OBVIOUS
<1>4. \A l \in L : \E x \in B : l = s.buckets[x].last
  OBVIOUS
<1> HIDE DEF L, B
<1>5. PICK l \in L : \A m \in L : l <= m
  BY <1>2, NatLeast
<1> QED  BY <1>3, <1>4, <1>5 DEF B

LEMMA DebitKeeps ==
  ASSUME NEW s, Orderly(s), NEW a \in Accounts, NEW k \in Nat, NEW n \in Nat
  PROVE  /\ Orderly(Debit(s, a, k, n)) /\ Queued(Debit(s, a, k, n)) = Queued(s)
         /\ Debit(s, a, k, n).queues = s.queues
         /\ Holds(Debit(s, a, k, n)) = Holds(s)
         /\ DOMAIN Debit(s, a, k, n) = DOMAIN s
<1> DEFINE tracked == DOMAIN s.buckets
           quietest == CHOOSE x \in tracked :
                         \A y \in tracked : s.buckets[x].last <= s.buckets[y].last
           kept == IF a \notin tracked /\ Cardinality(tracked) >= MaxAccounts
                   THEN tracked \ {quietest} ELSE tracked
           left == [tokens |-> Larger(Tokens(s, a, n) - Price * k, -MaxDebt), last |-> n]
           buckets == [x \in kept \cup {a} |-> IF x = a THEN left ELSE s.buckets[x]]
           t == Debit(s, a, k, n)
<1>1. /\ IsFiniteSet(tracked) /\ tracked \subseteq Accounts /\ Cardinality(tracked) <= MaxAccounts
      /\ s.buckets \in [tracked -> [tokens : -MaxDebt .. Burst, last : Nat]]
      /\ MaxAccounts \in Nat \ {0} /\ MaxDebt \in Nat /\ Burst \in Nat /\ Price \in Nat
  BY SchedulerAssumption DEF Orderly, IsScheduler
<1>2. left \in [tokens : -MaxDebt .. Burst, last : Nat]
  <2>1. Tokens(s, a, n) \in Int /\ Tokens(s, a, n) <= Burst
    <3>1. a \in tracked => s.buckets[a].tokens \in Int /\ s.buckets[a].last \in Nat
      BY <1>1
    <3> HIDE DEF tracked
    <3> QED  BY <1>1, <3>1 DEF Tokens, Smaller, Since, Larger, tracked
  <2> DEFINE p == Price * k
  <2>2. p \in Nat
    BY <1>1
  <2> HIDE DEF p
  <2>3. Larger(Tokens(s, a, n) - p, -MaxDebt) \in -MaxDebt .. Burst
    BY <1>1, <2>1, <2>2 DEF Larger
  <2> QED  BY <2>3 DEF p
<1> HIDE DEF left
<1>3. /\ kept \subseteq tracked /\ IsFiniteSet(kept \cup {a})
      /\ kept \cup {a} \subseteq Accounts /\ Cardinality(kept \cup {a}) <= MaxAccounts
  <2>0. Cardinality(tracked) \in Nat
    BY <1>1, FS_CardinalityType
  <2>1. CASE a \in tracked
    <3>1. kept = tracked /\ kept \cup {a} = tracked
      BY <2>1
    <3> QED  BY <1>1, <3>1
  <2>2. CASE a \notin tracked /\ ~ (Cardinality(tracked) >= MaxAccounts)
    <3>1. kept = tracked
      BY <2>2
    <3>2. IsFiniteSet(tracked \cup {a}) /\ Cardinality(tracked \cup {a}) = Cardinality(tracked) + 1
      BY <1>1, <2>2, FS_AddElement
    <3> QED  BY <1>1, <2>0, <2>2, <3>1, <3>2
  <2>3. CASE a \notin tracked /\ Cardinality(tracked) >= MaxAccounts
    <3>1. tracked # {}
      BY <1>1, <2>3, FS_EmptySet
    <3>2. quietest \in tracked
      BY <3>1, QuietestExists
    <3> HIDE DEF quietest
    <3>3. kept = tracked \ {quietest}
      BY <2>3
    <3>4. IsFiniteSet(kept) /\ Cardinality(kept) = Cardinality(tracked) - 1 /\ a \notin kept
      BY <1>1, <2>3, <3>2, <3>3, FS_RemoveElement
    <3> HIDE DEF kept
    <3>5. IsFiniteSet(kept \cup {a}) /\ Cardinality(kept \cup {a}) = Cardinality(kept) + 1
      BY <3>4, FS_AddElement
    <3> QED  BY <1>1, <2>0, <3>3, <3>4, <3>5
  <2> QED  BY <2>1, <2>2, <2>3
<1>4. /\ t.buckets = buckets /\ t.queues = s.queues /\ Holds(t) = Holds(s) /\ DOMAIN t = DOMAIN s
      /\ t.pace = s.pace /\ t.reply = s.reply /\ t.guard = s.guard
  BY DEF Debit, Holds, Orderly, IsScheduler, left
<1> HIDE DEF kept, t
<1>5. /\ DOMAIN buckets = kept \cup {a}
      /\ buckets \in [kept \cup {a} -> [tokens : -MaxDebt .. Burst, last : Nat]]
  BY <1>1, <1>2, <1>3
<1> HIDE DEF buckets
<1>6. IsScheduler(t) /\ IsFiniteSet(DOMAIN t.buckets)
  BY <1>3, <1>4, <1>5 DEF Orderly, IsScheduler
<1> QED  BY <1>4, <1>6, SameQueuesKeep DEF t

(* Keying holds the transmitter down for the gap, and for the reply window  *)
(* when an answer is expected.                                              *)
LEMMA OnKeyedKeeps ==
  ASSUME NEW s, Orderly(s), NEW f \in Frames, NEW k \in Nat, NEW n \in Nat
  PROVE  /\ Orderly(OnKeyed(s, f, k, n)) /\ Queued(OnKeyed(s, f, k, n)) = Queued(s)
         /\ OnKeyed(s, f, k, n).queues = s.queues
         /\ OnKeyed(s, f, k, n).pace = n + k + MinGap
         /\ OnKeyed(s, f, k, n).reply = IF WantsReply[f] THEN n + k + ReplyWindow ELSE 0
         /\ OnKeyed(s, f, k, n).guard = s.guard
<1> DEFINE d == Debit(s, AccountOf[f], k, n)
           t == OnKeyed(s, f, k, n)
<1>1. AccountOf[f] \in Accounts /\ {MinGap, ReplyWindow} \subseteq Nat
  BY SchedulerAssumption DEF Accounts
<1>2. /\ Orderly(d) /\ Queued(d) = Queued(s) /\ d.queues = s.queues /\ Holds(d) = Holds(s)
      /\ DOMAIN d = DOMAIN s
  BY <1>1, DebitKeeps
<1> HIDE DEF d
<1>3. /\ t.queues = d.queues /\ t.buckets = d.buckets /\ DOMAIN t = DOMAIN d
      /\ t.pace = n + k + MinGap
      /\ t.reply = IF WantsReply[f] THEN n + k + ReplyWindow ELSE 0
      /\ t.guard = d.guard
  BY <1>2 DEF OnKeyed, Orderly, IsScheduler, d
<1> HIDE DEF t
<1>4. IsScheduler(t) /\ IsFiniteSet(DOMAIN t.buckets)
  BY <1>1, <1>2, <1>3 DEF Orderly, IsScheduler
<1>5. Orderly(t) /\ Queued(t) = Queued(d)
  BY <1>2, <1>3, <1>4, SameQueuesKeep
<1>6. d.guard = s.guard
  BY <1>2 DEF Holds
<1> QED  BY <1>2, <1>3, <1>5, <1>6 DEF t

(* Of a class that has frames waiting, one is put forward ...               *)
LEMMA CandidateWaits ==
  ASSUME NEW s, Orderly(s), NEW n, NEW c \in Classes, s.queues[c] # <<>>
  PROVE  Candidate(s, c, n) \in DOMAIN s.queues[c]
<1> DEFINE q == s.queues[c]
           I == {i \in 1 .. Len(q) : Funded(s, q[i].frame, n)}
<1>1. q \in Seq(Items) /\ Len(q) \in Nat /\ DOMAIN q = 1 .. Len(q) /\ Len(q) > 0
  BY DEF Orderly, IsScheduler
<1>2. Candidate(s, c, n) = Larger(1, IF I # {} THEN Min(I) ELSE 0)
  BY DEF Candidate, SelectInSeq
<1>3. I # {} => Min(I) \in 1 .. Len(q)
  <2> SUFFICES ASSUME I # {}  PROVE Min(I) \in 1 .. Len(q)
    OBVIOUS
  <2>1. I \in SUBSET Nat /\ I \subseteq 1 .. Len(q)
    OBVIOUS
  <2> HIDE DEF I
  <2>2. PICK x \in I : \A y \in I : x <= y
    BY <2>1, NatLeast
  <2>3. Min(I) \in I
    BY <2>2 DEF Min
  <2> QED  BY <2>1, <2>3
<1> HIDE DEF I
<1>4. Larger(1, IF I # {} THEN Min(I) ELSE 0) \in 1 .. Len(q)
  <2> HIDE DEF q
  <2> QED  BY <1>1, <1>3 DEF Larger
<1> QED  BY <1>1, <1>2, <1>4

LEMMA ScoreIsInt ==
  ASSUME NEW s, Orderly(s), NEW n \in Nat, NEW c \in Classes, s.queues[c] # <<>>
  PROVE  Score(s, c, n) \in Int
<1> DEFINE x == s.queues[c][Candidate(s, c, n)]
<1>1. x \in Items
  <2>1. s.queues[c] \in Seq(Items)
    BY DEF Orderly, IsScheduler
  <2> QED  BY <2>1, CandidateWaits
<1>2. Since(x.at, n) \in Int
  BY <1>1 DEF Items, Since, Larger
<1>3. Score(s, c, n) = c * Aging + Since(x.at, n) - (IF Funded(s, x.frame, n) THEN 0 ELSE Penalty)
  BY DEF Score
<1> HIDE DEF x
<1>4. c \in Nat /\ Aging \in Nat /\ Penalty \in Nat
  BY SchedulerAssumption DEF Classes, Chat, Id
<1>5. c * Aging \in Int
  BY <1>4
<1> QED  BY <1>2, <1>3, <1>4, <1>5

(* ... and of the classes that have some, one is the best.                  *)
LEMMA BestWaits ==
  ASSUME NEW s, Orderly(s), NEW n \in Nat, ~IsEmpty(s)
  PROVE  Best(s, n) \in Classes /\ s.queues[Best(s, n)] # <<>>
<1> DEFINE busy == {c \in Classes : s.queues[c] # <<>>}
           Beats(c, d) == \/ Score(s, c, n) > Score(s, d, n)
                          \/ Score(s, c, n) = Score(s, d, n) /\ c >= d
           HasBest(B) == B # {} => \E c \in B : \A d \in B : Beats(c, d)
           T == {B \in SUBSET busy : HasBest(B)}
<1>1. busy # {}
  <2>1. PICK c \in Classes : Names(s.queues[c]) # {}
    BY NamesAreWaiting DEF IsEmpty
  <2> QED  BY <2>1 DEF Names
<1>2. IsFiniteSet(busy)
  <2>1. IsFiniteSet(Classes)
    <3>1. 0 \in Int /\ 4 \in Int
      OBVIOUS
    <3>2. IsFiniteSet(0 .. 4)
      BY <3>1, FS_Interval, Zenon
    <3> QED  BY <3>2 DEF Classes, Chat, Id
  <2> QED  BY <2>1, FS_Subset
<1>3. \A c \in busy : Score(s, c, n) \in Int /\ c \in Int
  BY ScoreIsInt DEF Classes, Chat, Id
<1>4. {} \in T
  OBVIOUS
<1>5. ASSUME NEW B \in T, NEW x \in busy \ B  PROVE B \cup {x} \in T
  <2>1. B \subseteq busy /\ HasBest(B)
    BY <1>5
  <2>2. HasBest(B \cup {x})
    <3>1. CASE B = {}
      <4>1. Beats(x, x)
        BY <1>3
      <4> HIDE DEF Beats
      <4> QED  BY <3>1, <4>1
    <3>2. CASE B # {}
      <4>1. PICK c \in B : \A d \in B : Beats(c, d)
        BY <2>1, <3>2
      <4>2. CASE Beats(c, x)
        <5> HIDE DEF Beats
        <5> QED  BY <4>1, <4>2
      <4>3. CASE ~Beats(c, x)
        <5>1. Beats(x, c) /\ Beats(x, x)
          BY <1>3, <2>1, <4>3
        <5>2. \A d \in B : Beats(x, d)
          BY <1>3, <2>1, <4>1, <5>1
        <5> HIDE DEF Beats
        <5> QED  BY <5>1, <5>2
      <4> QED  BY <4>2, <4>3
    <3> QED  BY <3>1, <3>2
  <2> HIDE DEF HasBest, busy
  <2> QED  BY <1>5, <2>1, <2>2
<1>6. HasBest(busy)
  <2> HIDE DEF HasBest
  <2>1. T \in SUBSET (SUBSET busy)
    OBVIOUS
  <2> HIDE DEF busy, T
  <2>2. busy \in T
    BY <1>2, <1>4, <1>5, <2>1, FiniteByInduction
  <2> QED  BY <2>2 DEF T
<1>7. \E c \in busy : \A d \in busy : Beats(c, d)
  BY <1>1, <1>6
<1>8. Best(s, n) = CHOOSE c \in busy : \A d \in busy : Beats(c, d)
  BY DEF Best
<1>9. Best(s, n) \in busy
  <2> HIDE DEF busy, Beats
  <2> QED  BY <1>7, <1>8
<1> QED  BY <1>9

(* What is taken was waiting, and is taken from its class.                  *)
LEMMA PopKeeps ==
  ASSUME NEW s, Orderly(s), NEW n \in Nat, ~IsEmpty(s)
  PROVE  LET x == Taken(s, n)
         IN /\ x \in Items /\ x.frame \in Queued(s)
            /\ Orderly(Pop(s, n)) /\ Holds(Pop(s, n)) = Holds(s)
            /\ Queued(Pop(s, n)) = Queued(s) \ {x.frame}
            /\ \A c \in Classes : Len(Pop(s, n).queues[c])
                 = IF c = ClassOf[x.frame] THEN Len(s.queues[c]) - 1 ELSE Len(s.queues[c])
<1> DEFINE k == Best(s, n)
           j == Candidate(s, k, n)
           x == Taken(s, n)
           t == Pop(s, n)
           q == RemoveAt(s.queues[k], j)
<1>1. k \in Classes /\ s.queues[k] # <<>> /\ s.queues[k] \in Seq(Items)
  BY BestWaits DEF Orderly, IsScheduler
<1>2. j \in DOMAIN s.queues[k]
  BY <1>1, CandidateWaits
<1>3. x = s.queues[k][j] /\ x \in Items /\ x.frame \in Names(s.queues[k])
  BY <1>1, <1>2 DEF Taken, Names
<1>4. /\ s.queues \in [Classes -> Seq(Items)] /\ t.queues = [s.queues EXCEPT ![k] = q]
      /\ t.buckets = s.buckets /\ Holds(t) = Holds(s)
      /\ DOMAIN t = DOMAIN s /\ t.pace = s.pace /\ t.reply = s.reply /\ t.guard = s.guard
  BY <1>1 DEF Pop, Holds, Orderly, IsScheduler
<1> HIDE DEF k, j, t, x
<1>5. /\ q \in Seq(Items) /\ Len(q) = Len(s.queues[k]) - 1
      /\ Distinct(q) /\ Names(q) = Names(s.queues[k]) \ {x.frame}
  BY <1>1, <1>2, <1>3, RemoveQueue DEF Orderly
<1> HIDE DEF q
<1>6. /\ t.queues \in [Classes -> Seq(Items)]
      /\ \A c \in Classes : t.queues[c] = IF c = k THEN q ELSE s.queues[c]
  BY <1>1, <1>4, <1>5
<1>7. IsScheduler(t)
  BY <1>4, <1>6 DEF Orderly, IsScheduler
<1>8. \A f \in Names(q) : ClassOf[f] = k
  BY <1>1, <1>5 DEF Orderly
<1>9. Orderly(t) /\ Queued(t) = (Queued(s) \ Names(s.queues[k])) \cup Names(q)
  BY <1>1, <1>4, <1>5, <1>6, <1>7, <1>8, ReplaceQueue
<1>10. Names(s.queues[k]) \subseteq Queued(s) /\ ClassOf[x.frame] = k
  BY <1>1, <1>3, NamesAreWaiting DEF Orderly
<1>11. Queued(t) = Queued(s) \ {x.frame}
  BY <1>3, <1>5, <1>9, <1>10
<1> QED  BY <1>3, <1>4, <1>5, <1>6, <1>9, <1>10, <1>11 DEF t, x

-----------------------------------------------------------------------------
(* The inductive invariant.  Where every frame is ...                       *)
Accepted == {f \in Frames : fate[f] = "queued"}
Taking == pump.at \in {"holds", "clear"}

PlaceInv ==
  /\ TypeOK /\ Orderly(sched) /\ IsFiniteSet(Accepted)
  /\ Taking => /\ InHand \in Frames /\ InHand \notin Queued(sched)
               /\ Len(sched.queues[ClassOf[InHand]]) <= Depth[ClassOf[InHand]]
  /\ Accepted = Queued(sched) \cup ({InHand} \ {NoFrame})
  /\ \A t \in keyed : fate[t.frame] = "keyed"
  /\ \A t, u \in keyed : t.frame = u.frame => t = u

(* ... what is given up and what is keyed once the operator has said off:   *)
(* what has the governor's consent at that moment, and only then ...        *)
OffInv ==
  /\ off => used.offs > 0 /\ used.offAt <= now
  /\ pump.at = "clear" /\ off /\ ClassOf[InHand] # Id => now = used.offAt
  /\ OwedIsKept /\ SilentWhileOff

(* ... the holds, which cover everything keyed and heard until they are     *)
(* over or answered ...                                                     *)
HoldInv ==
  /\ \A t \in keyed : t.start < t.end /\ t.start <= now /\ gov.last # Never /\ t.end <= gov.last
  /\ gov.last # Never => gov.last + MinGap <= sched.pace
  /\ \A i \in 1 .. Len(heard) : heard[i] <= now /\ heard[i] + RxGuard <= sched.guard
  /\ \A t \in keyed : /\ t.after <= Len(heard)
                      /\ WantsReply[t.frame] => \/ t.end + ReplyWindow <= sched.reply
                                                \/ t.end + ReplyWindow <= now
                                                \/ t.after < Len(heard)
  /\ Taking => BlockedUntil(sched) <= now
  /\ pump.at = "clear" => Wait = 0
  /\ ListensFirst

(* ... and the backlog last published.                                      *)
Longest == Max({CostOf[f] : f \in Frames})
ShownInv ==
  /\ shown <= SumOver(CostOf, Accepted)
  /\ SumOver(CostOf, Accepted) <= shown + Longest

-----------------------------------------------------------------------------
Fates == {"unsent", "queued", "refused", "dropped", "keyed"}
Places == {"top", "polled", "asleep", "holds", "clear", "down"}
Pumps == [at : Places, item : Items \cup {NoItem}, alarm : Nat, woken : BOOLEAN]

LEMMA TypeInParts ==
  TypeOK <=> /\ now \in Nat /\ IsScheduler(sched)
             /\ \A c \in Classes : Len(sched.queues[c]) <= Depth[c] + 1
             /\ gov \in Governors
             /\ pump \in Pumps /\ ((pump.item = NoItem) <=> ~Taking)
             /\ {off, safe, owesId} \subseteq BOOLEAN
             /\ shown \in Nat /\ fate \in [Frames -> Fates]
             /\ keyed \subseteq Transmissions /\ heard \in Seq(Nat) /\ unbroken \in Nat
             /\ used \in [offs : 0 .. MaxOffs, offAt : Nat, trips : 0 .. MaxTrips,
                          downs : 0 .. MaxDowns]
BY DEF TypeOK, Pumps, Places, Fates, Taking

LEMMA CostsAreNat ==
  /\ \A f \in Frames : CostOf[f] \in Nat /\ CostOf[f] \in Costs /\ CostOf[f] > 0
                       /\ ClassOf[f] \in Classes
  /\ \A S \in SUBSET Frames : IsFiniteSet(S) => SumOver(CostOf, S) \in Nat
<1>1. \A f \in Frames : CostOf[f] \in Nat /\ CostOf[f] \in Costs /\ CostOf[f] > 0
                        /\ ClassOf[f] \in Classes
  <2>1. CostOf \in [Frames -> Costs] /\ ClassOf \in [Frames -> Classes]
    BY SchedulerAssumption
  <2>2. \A c \in Costs : c \in Nat /\ c > 0
    BY AirtimeAssumption
  <2> QED  BY <2>1, <2>2
<1>2. ASSUME NEW S \in SUBSET Frames, IsFiniteSet(S)  PROVE SumOver(CostOf, S) \in Nat
  BY <1>1, <1>2, SumIsNat
<1> QED  BY <1>1, <1>2

LEMMA BacklogIsSum ==
  ASSUME NEW s
  PROVE  Backlog(s) = SumOver(CostOf, Queued(s))
BY DEF Backlog, SumOver

(* What the pump has in hand.                                               *)
LEMMA HandIsItem ==
  ASSUME PlaceInv
  PROVE  /\ Taking => /\ pump.item \in Items /\ InHand \in Frames /\ InHand # NoFrame
                      /\ fate[InHand] = "queued" /\ ClassOf[InHand] \in Classes
         /\ ~Taking => pump.item = NoItem /\ InHand = NoFrame
         /\ Queued(sched) \in SUBSET Frames /\ IsFiniteSet(Queued(sched))
         /\ \A f \in Queued(sched) : fate[f] = "queued"
<1>1. Queued(sched) \subseteq Accepted /\ IsFiniteSet(Accepted) /\ Queued(sched) \in SUBSET Frames
  BY QueuedAreFrames DEF PlaceInv
<1>2. IsFiniteSet(Queued(sched))
  BY <1>1, FS_Subset
<1>3. ~Taking => pump.item = NoItem /\ InHand = NoFrame
  BY TypeInParts DEF PlaceInv, InHand, NoItem
<1>4. ASSUME Taking
      PROVE  /\ pump.item \in Items /\ InHand \in Frames /\ InHand # NoFrame
             /\ fate[InHand] = "queued" /\ ClassOf[InHand] \in Classes
  <2>1. InHand \in Frames /\ InHand # NoFrame
    BY <1>4, TxAssumption DEF PlaceInv
  <2>2. pump.item \in Items
    BY <1>4, TypeInParts DEF PlaceInv, Pumps
  <2>3. InHand \in Accepted
    BY <2>1 DEF PlaceInv
  <2> QED  BY <2>1, <2>2, <2>3, CostsAreNat DEF Accepted
<1> QED  BY <1>1, <1>2, <1>3, <1>4 DEF Accepted

-----------------------------------------------------------------------------
(* What the server offers is queued or refused.                             *)
LEMMA EnqueueKeeps ==
  ASSUME PlaceInv, NEW f \in Frames, fate[f] = "unsent", Enqueue(f)
  PROVE  /\ Orderly(sched') /\ Holds(sched') = Holds(sched)
         /\ \A c \in Classes : Len(sched'.queues[c]) <= Depth[c] + 1
         /\ Taking => /\ InHand \notin Queued(sched')
                      /\ Len(sched'.queues[ClassOf[InHand]]) <= Depth[ClassOf[InHand]]
         /\ IsFiniteSet(Accepted') /\ Accepted' = Queued(sched') \cup ({InHand} \ {NoFrame})
         /\ fate' \in [Frames -> Fates]
         /\ \A t \in keyed : fate'[t.frame] = "keyed"
         /\ \A g \in Frames : fate'[g] = "dropped" => fate[g] = "dropped"
         /\ shown' \in Nat
         /\ \/ shown' = shown /\ Accepted' = Accepted
            \/ shown' = SumOver(CostOf, Queued(sched'))
<1> DEFINE x == [frame |-> f, at |-> now]
<1>1. /\ Orderly(sched) /\ IsScheduler(sched) /\ fate \in [Frames -> Fates] /\ shown \in Nat
      /\ \A c \in Classes : Len(sched.queues[c]) <= Depth[c] + 1
      /\ IsFiniteSet(Accepted) /\ Accepted = Queued(sched) \cup ({InHand} \ {NoFrame})
      /\ Taking => /\ InHand \in Frames /\ InHand \notin Queued(sched)
                   /\ Len(sched.queues[ClassOf[InHand]]) <= Depth[ClassOf[InHand]]
      /\ \A t \in keyed : fate[t.frame] = "keyed" /\ t.frame \in Frames
      /\ now \in Nat
  BY TypeInParts DEF PlaceInv, Transmissions
<1>2. x \in Items /\ x.frame = f /\ f \notin Accepted /\ f \notin Queued(sched) /\ ClassOf[f] \in Classes
  BY <1>1, CostsAreNat DEF Items, Accepted
<1>3. CASE HasRoom(sched, f)
  <2>1. /\ sched' = Push(sched, x) /\ shown' = Backlog(sched')
        /\ fate' = [fate EXCEPT ![f] = "queued"]
    BY <1>3 DEF Enqueue
  <2> HIDE DEF x
  <2>2. /\ Orderly(sched') /\ Holds(sched') = Holds(sched)
        /\ Queued(sched') = Queued(sched) \cup {f}
        /\ \A c \in Classes : Len(sched'.queues[c])
              = IF c = ClassOf[f] THEN Len(sched.queues[c]) + 1 ELSE Len(sched.queues[c])
    BY <1>1, <1>2, <2>1, PushKeeps
  <2>3. Accepted' = Accepted \cup {f}
    BY <1>1, <2>1 DEF Accepted, Fates
  <2>4. IsFiniteSet(Accepted')
    BY <1>1, <2>3, FS_AddElement
  <2>5. Accepted' = Queued(sched') \cup ({InHand} \ {NoFrame})
    BY <1>1, <2>2, <2>3
  <2>6. Len(sched.queues[ClassOf[f]]) < Depth[ClassOf[f]] /\ Depth \in [Classes -> Nat]
    BY <1>3, SchedulerAssumption DEF HasRoom
  <2>7. \A c \in Classes : Len(sched.queues[c]) \in Nat
    BY <1>1 DEF IsScheduler
  <2>8. \A c \in Classes : Len(sched'.queues[c]) <= Depth[c] + 1
    BY <1>1, <1>2, <2>2, <2>6, <2>7
  <2>9. Taking => /\ InHand \notin Queued(sched')
                  /\ Len(sched'.queues[ClassOf[InHand]]) <= Depth[ClassOf[InHand]]
    <3> SUFFICES ASSUME Taking
                 PROVE  /\ InHand \notin Queued(sched')
                        /\ Len(sched'.queues[ClassOf[InHand]]) <= Depth[ClassOf[InHand]]
      OBVIOUS
    <3>1. ClassOf[InHand] \in Classes /\ InHand # f
      BY <1>2, HandIsItem DEF Accepted
    <3> DEFINE k == ClassOf[InHand]
    <3>2. InHand \notin Queued(sched')
      BY <1>1, <2>2, <3>1
    <3>3. k \in Classes /\ Depth[k] \in Nat /\ Len(sched.queues[k]) \in Nat
      BY <2>6, <2>7, <3>1
    <3>4. Len(sched.queues[k]) <= Depth[k]
      BY <1>1
    <3>5. Len(sched'.queues[k])
            = IF k = ClassOf[f] THEN Len(sched.queues[k]) + 1 ELSE Len(sched.queues[k])
      BY <2>2, <3>3
    <3>6. k = ClassOf[f] => Len(sched.queues[k]) < Depth[k]
      BY <2>6
    <3> HIDE DEF k
    <3>7. Len(sched'.queues[k]) <= Depth[k]
      BY <3>3, <3>4, <3>5, <3>6
    <3> QED  BY <3>2, <3>7 DEF k
  <2>10. shown' = SumOver(CostOf, Queued(sched')) /\ shown' \in Nat
    <3>1. Queued(sched') \in SUBSET Frames /\ IsFiniteSet(Queued(sched'))
      BY <2>2, <2>4, <2>5, QueuedAreFrames, FS_Subset
    <3> QED  BY <2>1, <3>1, BacklogIsSum, CostsAreNat
  <2>11. /\ fate' \in [Frames -> Fates]
         /\ \A t \in keyed : fate'[t.frame] = "keyed"
         /\ \A g \in Frames : fate'[g] = "dropped" => fate[g] = "dropped"
    BY <1>1, <2>1 DEF Fates
  <2> QED  BY <2>2, <2>4, <2>5, <2>8, <2>9, <2>10, <2>11
<1>4. CASE ~HasRoom(sched, f)
  <2>1. sched' = sched /\ shown' = shown /\ fate' = [fate EXCEPT ![f] = "refused"]
    BY <1>4 DEF Enqueue
  <2>2. /\ fate' \in [Frames -> Fates]
        /\ \A t \in keyed : fate'[t.frame] = "keyed"
        /\ \A g \in Frames : fate'[g] = "dropped" => fate[g] = "dropped"
    BY <1>1, <2>1 DEF Fates
  <2>3. Accepted' = Accepted
    BY <1>1, <2>1 DEF Accepted, Fates
  <2> QED  BY <1>1, <2>1, <2>2, <2>3
<1> QED  BY <1>3, <1>4

-----------------------------------------------------------------------------
(* Steps that leave every frame where it is.                                *)
LEMMA PlaceStays ==
  ASSUME PlaceInv, TypeOK', Orderly(sched'), sched'.queues = sched.queues,
         UNCHANGED <<fate, keyed>>, pump'.item = pump.item, Taking' = Taking
  PROVE  PlaceInv'
<1>1. InHand' = InHand
  BY DEF InHand
<1>2. Queued(sched') = Queued(sched) /\ Queued(sched)' = Queued(sched')
  BY DEF Queued, Waiting
<1>3. Accepted' = Accepted
  BY DEF Accepted
<1> QED  BY <1>1, <1>2, <1>3 DEF PlaceInv

LEMMA PumpStarts ==
  /\ Top \in Pumps /\ Top.at = "top" /\ Top.item = NoItem
  /\ Down \in Pumps /\ Down.at = "down" /\ Down.item = NoItem
<1>1. Top \in Pumps /\ Top.at = "top" /\ Top.item = NoItem
  BY DEF Top, Pumps, Places
<1>2. Down \in Pumps /\ Down.at = "down" /\ Down.item = NoItem
  BY <1>1 DEF Down, Pumps, Places
<1> QED  BY <1>1, <1>2

Uses == [offs : 0 .. MaxOffs, offAt : Nat, trips : 0 .. MaxTrips, downs : 0 .. MaxDowns]

LEMMA UseOneMore ==
  ASSUME NEW u \in Uses, NEW n \in Nat
  PROVE  /\ u.offs < MaxOffs => [u EXCEPT !.offs = @ + 1, !.offAt = n] \in Uses
         /\ u.trips < MaxTrips => [u EXCEPT !.trips = @ + 1] \in Uses
         /\ u.downs < MaxDowns => [u EXCEPT !.downs = @ + 1] \in Uses
<1>1. MaxOffs \in Nat /\ MaxTrips \in Nat /\ MaxDowns \in Nat
  BY TxAssumption
<1>2. /\ u.offs < MaxOffs => u.offs + 1 \in 0 .. MaxOffs
      /\ u.trips < MaxTrips => u.trips + 1 \in 0 .. MaxTrips
      /\ u.downs < MaxDowns => u.downs + 1 \in 0 .. MaxDowns
  BY <1>1 DEF Uses
<1> QED  BY <1>2 DEF Uses

QuietStep ==
  RadioOn \/ Trip \/ Restore \/ Sleep \/ Wake \/ Approve \/ BreakAsleep \/ Reconnect \/ Tick

LEMMA QuietPlace ==
  ASSUME PlaceInv, QuietStep
  PROVE  PlaceInv'
<1>1. /\ UNCHANGED <<sched, gov, shown, fate, keyed, heard, unbroken>>
      /\ pump'.item = pump.item /\ Taking' = Taking
      /\ now' \in Nat /\ pump' \in Pumps /\ {off', safe', owesId'} \subseteq BOOLEAN
      /\ used' \in Uses
  <2>0. /\ now \in Nat /\ pump \in Pumps /\ {off, safe, owesId} \subseteq BOOLEAN
        /\ used \in Uses
        /\ ~Taking => pump.item = NoItem
    BY TypeInParts, HandIsItem DEF PlaceInv, Uses
  <2>1. CASE RadioOn
    BY <2>0, <2>1 DEF RadioOn, history, Woken, Pumps, Places, Taking
  <2>2. CASE Trip
    BY <2>0, <2>2, UseOneMore DEF Trip, Woken, Pumps, Places, Taking
  <2>3. CASE Restore
    BY <2>0, <2>3 DEF Restore, history, Woken, Pumps, Places, Taking
  <2>4. CASE Sleep
    BY <2>0, <2>4 DEF Sleep, history, server, Pumps, Places, Taking
  <2>5. CASE Wake
    BY <2>0, <2>5, PumpStarts DEF Wake, history, server, Taking
  <2>6. CASE Approve
    BY <2>0, <2>6 DEF Approve, history, server, Pumps, Places, Taking
  <2>7. CASE BreakAsleep
    <3>1. used' \in Uses
      BY <2>0, <2>7, UseOneMore DEF BreakAsleep
    <3> QED  BY <2>0, <2>7, <3>1, PumpStarts DEF BreakAsleep, server, Taking
  <2>8. CASE Reconnect
    BY <2>0, <2>8, PumpStarts DEF Reconnect, history, server, Taking
  <2>9. CASE Tick
    BY <2>0, <2>9 DEF Tick, history, server, Pumps, Places, Taking
  <2> QED  BY <2>1, <2>2, <2>3, <2>4, <2>5, <2>6, <2>7, <2>8, <2>9 DEF QuietStep
<1>2. TypeOK'
  BY <1>1, TypeInParts DEF PlaceInv, TypeOK, Pumps, Places, Fates, Taking, Uses
<1>3. Orderly(sched') /\ sched'.queues = sched.queues
  BY <1>1 DEF PlaceInv
<1> QED  BY <1>1, <1>2, <1>3, PlaceStays

(* Frames are offered.                                                      *)
LEMMA OfferPlace ==
  ASSUME PlaceInv, NEW f \in Frames, fate[f] = "unsent", Enqueue(f),
         UNCHANGED <<now, gov, keyed, heard, unbroken>>,
         {off', safe', owesId'} \subseteq BOOLEAN, used' \in Uses,
         pump' \in Pumps, pump'.item = pump.item, Taking' = Taking
  PROVE  PlaceInv'
<1>1. /\ Orderly(sched') /\ Holds(sched') = Holds(sched)
      /\ \A c \in Classes : Len(sched'.queues[c]) <= Depth[c] + 1
      /\ Taking => /\ InHand \notin Queued(sched')
                   /\ Len(sched'.queues[ClassOf[InHand]]) <= Depth[ClassOf[InHand]]
      /\ IsFiniteSet(Accepted') /\ Accepted' = Queued(sched') \cup ({InHand} \ {NoFrame})
      /\ fate' \in [Frames -> Fates]
      /\ \A t \in keyed : fate'[t.frame] = "keyed"
      /\ shown' \in Nat
  BY EnqueueKeeps
<1>2. TypeOK'
  BY <1>1, TypeInParts DEF PlaceInv, TypeOK, Pumps, Places, Fates, Taking, Uses, Orderly
<1>3. InHand' = InHand /\ Queued(sched)' = Queued(sched')
  BY DEF InHand
<1> QED  BY <1>1, <1>2, <1>3 DEF PlaceInv

LEMMA SendPlace ==
  ASSUME PlaceInv, NEW f \in Frames, Send(f) \/ Identify(f)
  PROVE  PlaceInv'
<1>1. /\ pump \in Pumps /\ {off, safe, owesId} \subseteq BOOLEAN /\ used \in Uses
  BY TypeInParts DEF PlaceInv, Uses
<1>2. /\ fate[f] = "unsent" /\ Enqueue(f)
      /\ UNCHANGED <<now, gov, off, safe, keyed, unbroken, heard, used>>
      /\ owesId' \in BOOLEAN
  BY <1>1 DEF Send, Identify, history
<1>3. pump' \in Pumps /\ pump'.item = pump.item /\ Taking' = Taking
  BY <1>1 DEF Send, Identify, Woken, Pumps, Places, Taking
<1> QED  BY <1>1, <1>2, <1>3, OfferPlace

LEMMA RadioOffPlace ==
  ASSUME PlaceInv, RadioOff
  PROVE  PlaceInv'
<1>1. pump \in Pumps /\ {off, safe, owesId} \subseteq BOOLEAN /\ used \in Uses /\ now \in Nat
  BY TypeInParts DEF PlaceInv, Uses
<1>2. PICK f \in Frames : SignOff(f)
  BY DEF RadioOff
<1>3. UNCHANGED <<now, gov, safe, keyed, heard, unbroken>> /\ off' = TRUE
  BY DEF RadioOff
<1>4. pump' \in Pumps /\ pump'.item = pump.item /\ Taking' = Taking
  BY <1>1 DEF RadioOff, Woken, Pumps, Places, Taking
<1>5. used' \in Uses
  BY <1>1, UseOneMore DEF RadioOff
<1>6. CASE owesId
  <2>1. fate[f] = "unsent" /\ Enqueue(f) /\ owesId' \in BOOLEAN
    BY <1>1, <1>2, <1>6 DEF SignOff
  <2> QED  BY <1>1, <1>3, <1>4, <1>5, <2>1, OfferPlace
<1>7. CASE ~owesId
  <2>1. UNCHANGED <<sched, shown, fate, owesId>>
    BY <1>2, <1>7 DEF SignOff
  <2>2. TypeOK'
    BY <1>1, <1>3, <1>4, <1>5, <2>1, TypeInParts
    DEF PlaceInv, TypeOK, Pumps, Places, Fates, Taking, Uses
  <2> QED  BY <1>3, <1>4, <2>1, <2>2, PlaceStays DEF PlaceInv
<1> QED  BY <1>6, <1>7

(* The pump purges and expires.                                             *)
LEMMA PollKeeps ==
  ASSUME PlaceInv, Poll
  PROVE  /\ Orderly(sched') /\ Holds(sched') = Holds(sched)
         /\ Queued(sched') \subseteq Queued(sched)
         /\ \A f \in Lost(sched') : ClassOf[f] # Id /\ (ClassOf[f] = Ack => off)
         /\ \A c \in Classes : Len(sched'.queues[c]) <= Len(sched.queues[c])
<1> DEFINE d == IF off THEN DrainExceptId(sched) ELSE sched
<1>1. Orderly(sched)
  BY DEF PlaceInv
<1>2. /\ Orderly(d) /\ Holds(d) = Holds(sched) /\ Queued(d) \subseteq Queued(sched)
      /\ \A f \in Queued(sched) \ Queued(d) : ClassOf[f] # Id /\ off
      /\ \A c \in Classes : Len(d.queues[c]) <= Len(sched.queues[c])
  <2>0. \A c \in Classes : Len(sched.queues[c]) \in Nat
    BY <1>1 DEF Orderly, IsScheduler
  <2>1. CASE off
    BY <1>1, <2>1, DrainKeeps
  <2>2. CASE ~off
    BY <1>1, <2>0, <2>2
  <2> QED  BY <2>1, <2>2
<1>3. sched' = Expire(d, now)
  BY DEF Poll
<1> HIDE DEF d
<1>4. /\ Orderly(sched') /\ Holds(sched') = Holds(d) /\ Queued(sched') \subseteq Queued(d)
      /\ \A f \in Queued(d) \ Queued(sched') : ClassOf[f] \in Perishable
      /\ \A c \in Classes : Len(sched'.queues[c]) <= Len(d.queues[c])
  BY <1>2, <1>3, ExpireKeeps
<1>5. \A c \in Classes : Len(sched'.queues[c]) <= Len(sched.queues[c])
  <2>1. \A c \in Classes : /\ Len(sched'.queues[c]) \in Nat /\ Len(sched.queues[c]) \in Nat
                           /\ Len(d.queues[c]) \in Nat
    BY <1>1, <1>2, <1>4 DEF Orderly, IsScheduler
  <2> QED  BY <1>2, <1>4, <2>1
<1>6. \A f \in Lost(sched') : ClassOf[f] # Id /\ (ClassOf[f] = Ack => off)
  BY <1>2, <1>4 DEF Lost, Perishable, Chat, Direct, Control, Ack, Id
<1> QED  BY <1>2, <1>4, <1>5, <1>6

LEMMA PollPlace ==
  ASSUME PlaceInv, Poll
  PROVE  /\ PlaceInv'
         /\ \/ shown' = shown /\ Accepted' = Accepted
            \/ shown' = SumOver(CostOf, Queued(sched'))
<1>1. /\ Orderly(sched') /\ Queued(sched') \subseteq Queued(sched)
      /\ \A c \in Classes : Len(sched'.queues[c]) <= Len(sched.queues[c])
  BY PollKeeps
<1>2. /\ fate' = [f \in Frames |-> IF f \in Lost(sched') THEN "dropped" ELSE fate[f]]
      /\ shown' = IF Lost(sched') = {} THEN shown ELSE Backlog(sched')
      /\ pump.at = "top" /\ pump'.at = "polled" /\ pump'.item = pump.item
      /\ UNCHANGED <<now, gov, off, safe, owesId, keyed, unbroken, heard, used>>
  BY TypeInParts DEF Poll, history, server, PlaceInv, Pumps
<1>3. /\ Queued(sched) \in SUBSET Frames /\ IsFiniteSet(Queued(sched)) /\ ~Taking
      /\ pump.item = NoItem /\ InHand = NoFrame /\ \A f \in Queued(sched) : fate[f] = "queued"
      /\ Accepted = Queued(sched)
  BY <1>2, HandIsItem DEF Taking, PlaceInv
<1>4. IsFiniteSet(Queued(sched')) /\ Queued(sched') \in SUBSET Frames
  BY <1>1, <1>3, FS_Subset
<1>5. Accepted' = Queued(sched')
  BY <1>1, <1>2, <1>3 DEF Accepted, Lost
<1>6. pump' \in Pumps
  <2>1. pump \in Pumps /\ now \in Nat /\ BlockedUntil(sched') \in Nat
    BY <1>1, TypeInParts DEF PlaceInv, BlockedUntil, Larger, Orderly, IsScheduler
  <2> DEFINE a == IF IsEmpty(sched') THEN now + Idle
                  ELSE IF BlockedUntil(sched') > now THEN BlockedUntil(sched')
                  ELSE IF safe THEN now ELSE now + 1
  <2>2. pump' = [pump EXCEPT !.at = "polled", !.alarm = a]
    BY DEF Poll
  <2>3. a \in Nat
    BY <2>1 DEF Idle
  <2> HIDE DEF a
  <2> QED  BY <2>1, <2>2, <2>3 DEF Pumps, Places
<1>7. shown' \in Nat
  BY <1>2, <1>4, BacklogIsSum, CostsAreNat, TypeInParts DEF PlaceInv
<1>8. fate' \in [Frames -> Fates] /\ \A t \in keyed : fate'[t.frame] = "keyed"
  <2>1. fate \in [Frames -> Fates] /\ \A t \in keyed : fate[t.frame] = "keyed" /\ t.frame \in Frames
    BY TypeInParts DEF PlaceInv, Transmissions
  <2> QED  BY <1>2, <1>3, <2>1 DEF Fates, Lost
<1>9. \A c \in Classes : Len(sched'.queues[c]) <= Depth[c] + 1
  <2>1. \A c \in Classes : Len(sched'.queues[c]) \in Nat /\ Len(sched.queues[c]) \in Nat
                           /\ Depth[c] \in Nat
    BY <1>1, LengthsAreNat DEF PlaceInv
  <2>2. \A c \in Classes : Len(sched.queues[c]) <= Depth[c] + 1
    BY TypeInParts DEF PlaceInv
  <2> QED  BY <1>1, <2>1, <2>2
<1>10. ~Taking' /\ InHand' = NoFrame /\ pump'.item = NoItem
  BY <1>2, <1>3 DEF Taking, InHand
<1>11. TypeOK'
  BY <1>1, <1>2, <1>6, <1>7, <1>8, <1>9, <1>10, TypeInParts
  DEF PlaceInv, TypeOK, Pumps, Places, Fates, Taking, Orderly
<1>12. PlaceInv'
  BY <1>1, <1>2, <1>4, <1>5, <1>8, <1>10, <1>11 DEF PlaceInv
<1>13. Lost(sched') = {} => Accepted' = Accepted
  BY <1>1, <1>3, <1>5 DEF Lost
<1> QED  BY <1>2, <1>12, <1>13, BacklogIsSum

LEMMA HearPlace ==
  ASSUME PlaceInv, Hear
  PROVE  /\ PlaceInv' /\ Accepted' = Accepted
         /\ sched'.pace = sched.pace /\ sched'.reply = 0 /\ sched'.guard = now + RxGuard
<1>1. /\ now \in Nat /\ Orderly(sched) /\ ~Taking /\ pump.item = NoItem /\ heard \in Seq(Nat)
  BY TypeInParts, HandIsItem DEF PlaceInv, Hear, Taking
<1>2. /\ sched' = OnHeard(sched, now) /\ heard' = Append(heard, now) /\ pump' = Top
      /\ UNCHANGED <<now, gov, shown, off, safe, owesId, fate, keyed, unbroken, used>>
  BY DEF Hear, server
<1>3. /\ Orderly(sched') /\ sched'.queues = sched.queues
      /\ sched'.pace = sched.pace /\ sched'.reply = 0 /\ sched'.guard = now + RxGuard
  BY <1>1, <1>2, OnHeardKeeps
<1>4. pump' \in Pumps /\ pump'.item = pump.item /\ Taking' = Taking
  BY <1>1, <1>2, PumpStarts DEF Taking
<1>5. TypeOK'
  BY <1>1, <1>2, <1>3, <1>4, TypeInParts
  DEF PlaceInv, TypeOK, Pumps, Places, Fates, Taking, Orderly
<1>6. Accepted' = Accepted
  BY <1>2 DEF Accepted
<1> QED  BY <1>2, <1>3, <1>4, <1>5, <1>6, PlaceStays

(* The next frame is taken: what it leaves behind has room for it.          *)
LEMMA AlarmPlace ==
  ASSUME PlaceInv, Alarm
  PROVE  /\ PlaceInv' /\ Accepted' = Accepted /\ Holds(sched') = Holds(sched)
         /\ Taking' => BlockedUntil(sched) <= now
         /\ pump'.at # "clear"
<1>1. /\ pump \in Pumps /\ now \in Nat /\ Orderly(sched) /\ ~Taking /\ pump.item = NoItem
      /\ InHand = NoFrame /\ Accepted = Queued(sched)
  BY TypeInParts, HandIsItem DEF PlaceInv, Alarm, Taking
<1>2. UNCHANGED <<now, gov, shown, off, safe, owesId, fate, keyed, unbroken, heard, used>>
  BY DEF Alarm, server, history
<1>3. Accepted' = Accepted
  BY <1>2 DEF Accepted
<1>4. CASE ~(safe /\ Ready(sched, now))
  <2>1. pump' = Top /\ sched' = sched
    BY <1>4 DEF Alarm
  <2>2. pump' \in Pumps /\ pump'.item = pump.item /\ Taking' = Taking /\ ~Taking' /\ pump'.at # "clear"
    BY <1>1, <2>1, PumpStarts DEF Taking
  <2>3. TypeOK'
    BY <1>1, <1>2, <2>1, <2>2, TypeInParts DEF PlaceInv, TypeOK, Pumps, Places, Fates, Taking
  <2>4. PlaceInv'
    BY <1>1, <1>2, <2>1, <2>2, <2>3, PlaceStays
  <2> QED  BY <1>3, <2>1, <2>2, <2>4
<1>5. CASE safe /\ Ready(sched, now)
  <2> DEFINE x == Taken(sched, now)
  <2>1. /\ pump' = [pump EXCEPT !.at = "holds", !.item = x] /\ sched' = Pop(sched, now)
        /\ ~IsEmpty(sched) /\ BlockedUntil(sched) <= now
    BY <1>5 DEF Alarm, Ready
  <2>2. /\ x \in Items /\ x.frame \in Queued(sched)
        /\ Orderly(sched') /\ Holds(sched') = Holds(sched)
        /\ Queued(sched') = Queued(sched) \ {x.frame}
        /\ \A c \in Classes : Len(sched'.queues[c])
             = IF c = ClassOf[x.frame] THEN Len(sched.queues[c]) - 1 ELSE Len(sched.queues[c])
    BY <1>1, <2>1, PopKeeps
  <2> HIDE DEF x
  <2>3. /\ pump' \in Pumps /\ pump'.at = "holds" /\ pump'.item = x /\ InHand' = x.frame /\ Taking'
    BY <1>1, <2>1, <2>2 DEF Pumps, Places, Taking, InHand
  <2>4. x.frame \in Frames /\ ClassOf[x.frame] \in Classes /\ x.frame # NoFrame /\ x # NoItem
    BY <2>2, CostsAreNat, TxAssumption DEF Items, NoItem
  <2>5. /\ \A c \in Classes : Len(sched'.queues[c]) <= Depth[c] + 1
        /\ Len(sched'.queues[ClassOf[x.frame]]) <= Depth[ClassOf[x.frame]]
    <3>1. \A c \in Classes : Len(sched.queues[c]) \in Nat /\ Depth[c] \in Nat
      BY <1>1, LengthsAreNat
    <3>2. \A c \in Classes : Len(sched.queues[c]) <= Depth[c] + 1
      BY TypeInParts DEF PlaceInv
    <3> DEFINE k == ClassOf[x.frame]
    <3>3. k \in Classes /\ \A c \in Classes : Len(sched'.queues[c])
             = IF c = k THEN Len(sched.queues[c]) - 1 ELSE Len(sched.queues[c])
      BY <2>2, <2>4
    <3> HIDE DEF k
    <3>4. ASSUME NEW c \in Classes
          PROVE  /\ Len(sched'.queues[c]) <= Depth[c] + 1
                 /\ c = k => Len(sched'.queues[c]) <= Depth[c]
      <4>1. /\ Len(sched.queues[c]) \in Nat /\ Depth[c] \in Nat /\ Len(sched.queues[c]) <= Depth[c] + 1
            /\ Len(sched'.queues[c])
                 = IF c = k THEN Len(sched.queues[c]) - 1 ELSE Len(sched.queues[c])
        BY <3>1, <3>2, <3>3
      <4> QED  BY <4>1
    <3> QED  BY <3>3, <3>4 DEF k
  <2>6. Accepted' = Queued(sched') \cup ({InHand'} \ {NoFrame})
    BY <1>1, <1>3, <2>2, <2>3, <2>4
  <2>7. TypeOK'
    BY <1>1, <1>2, <2>2, <2>3, <2>4, <2>5, TypeInParts
    DEF PlaceInv, TypeOK, Pumps, Places, Fates, Taking, Orderly
  <2>8. PlaceInv'
    BY <1>1, <1>2, <1>3, <2>2, <2>3, <2>4, <2>5, <2>6, <2>7 DEF PlaceInv
  <2> QED  BY <1>3, <2>1, <2>2, <2>3, <2>8
<1> QED  BY <1>4, <1>5

(* What is in hand is given up ...                                          *)
LEMMA DropPlace ==
  ASSUME PlaceInv, Taking, DropInHand, gov' \in Governors,
         UNCHANGED <<now, sched, server, keyed, unbroken, history>>
  PROVE  /\ PlaceInv' /\ shown' = SumOver(CostOf, Queued(sched')) /\ Accepted' = Queued(sched')
         /\ ~Taking'
<1>1. /\ Orderly(sched) /\ fate \in [Frames -> Fates] /\ InHand \in Frames /\ InHand # NoFrame
      /\ fate[InHand] = "queued" /\ InHand \notin Queued(sched)
      /\ Queued(sched) \in SUBSET Frames /\ IsFiniteSet(Queued(sched))
      /\ \A f \in Queued(sched) : fate[f] = "queued"
      /\ \A t \in keyed : fate[t.frame] = "keyed" /\ t.frame \in Frames
      /\ Accepted = Queued(sched) \cup {InHand}
  BY HandIsItem, TypeInParts DEF PlaceInv, Transmissions
<1>2. /\ fate' = [fate EXCEPT ![InHand] = "dropped"] /\ shown' = Backlog(sched) /\ pump' = Top
      /\ UNCHANGED <<now, sched, off, safe, owesId, keyed, unbroken, heard, used>>
  BY DEF DropInHand, server, history
<1>3. /\ pump' \in Pumps /\ ~Taking' /\ pump'.item = NoItem /\ InHand' = NoFrame
  BY <1>2, PumpStarts DEF Taking, InHand, NoItem
<1>4. Accepted' = Queued(sched') /\ sched' = sched
  BY <1>1, <1>2 DEF Accepted, Fates
<1>5. fate' \in [Frames -> Fates] /\ \A t \in keyed : fate'[t.frame] = "keyed"
  BY <1>1, <1>2 DEF Fates
<1>6. shown' = SumOver(CostOf, Queued(sched')) /\ shown' \in Nat
  BY <1>1, <1>2, BacklogIsSum, CostsAreNat
<1>7. TypeOK'
  BY <1>2, <1>3, <1>5, <1>6, TypeInParts DEF PlaceInv, TypeOK, Pumps, Places, Fates, Taking
<1>8. PlaceInv'
  BY <1>1, <1>2, <1>3, <1>4, <1>5, <1>7 DEF PlaceInv
<1> QED  BY <1>3, <1>4, <1>6, <1>8

(* ... or put back.                                                         *)
LEMMA PutBackPlace ==
  ASSUME PlaceInv, Taking, NEW d \in Nat, sched' = Requeue(sched, pump.item, now, d),
         gov' \in Governors, pump' \in {Top, Down}, used' \in Uses,
         UNCHANGED <<now, shown, server, fate, keyed, heard, unbroken>>
  PROVE  /\ PlaceInv' /\ Accepted' = Accepted /\ ~Taking' /\ InHand' = NoFrame
         /\ sched'.pace >= sched.pace /\ sched'.reply = sched.reply /\ sched'.guard = sched.guard
<1> DEFINE x == pump.item
<1>1. /\ Orderly(sched) /\ x \in Items /\ x.frame = InHand /\ InHand # NoFrame
      /\ x.frame \notin Queued(sched) /\ now \in Nat /\ InHand \in Frames
      /\ ClassOf[InHand] \in Classes
      /\ Accepted = Queued(sched) \cup {InHand}
      /\ Len(sched.queues[ClassOf[InHand]]) <= Depth[ClassOf[InHand]]
  BY HandIsItem, TypeInParts DEF PlaceInv, InHand
<1>2. UNCHANGED <<now, shown, off, safe, owesId, fate, keyed, heard, unbroken>>
  BY DEF server
<1>3. /\ pump' \in Pumps /\ ~Taking' /\ pump'.item = NoItem /\ InHand' = NoFrame
  BY PumpStarts DEF Taking, InHand, NoItem
<1>4. /\ Orderly(sched')
      /\ sched'.pace >= sched.pace /\ sched'.reply = sched.reply /\ sched'.guard = sched.guard
      /\ Queued(sched') = Queued(sched) \cup {x.frame}
      /\ \A c \in Classes : Len(sched'.queues[c])
           = IF c = ClassOf[x.frame] THEN Len(sched.queues[c]) + 1 ELSE Len(sched.queues[c])
  BY <1>1, RequeueKeeps
<1>5. Accepted' = Accepted /\ Accepted' = Queued(sched')
  BY <1>1, <1>2, <1>4 DEF Accepted
<1>6. \A c \in Classes : Len(sched'.queues[c]) <= Depth[c] + 1
  <2> SUFFICES ASSUME NEW c \in Classes  PROVE Len(sched'.queues[c]) <= Depth[c] + 1
    OBVIOUS
  <2>1. Len(sched.queues[c]) \in Nat /\ Depth[c] \in Nat /\ Len(sched.queues[c]) <= Depth[c] + 1
    BY <1>1, LengthsAreNat, TypeInParts DEF PlaceInv
  <2>2. Len(sched'.queues[c])
          = IF c = ClassOf[InHand] THEN Len(sched.queues[c]) + 1 ELSE Len(sched.queues[c])
    BY <1>1, <1>4
  <2>3. c = ClassOf[InHand] => Len(sched.queues[c]) <= Depth[c]
    BY <1>1
  <2> QED  BY <2>1, <2>2, <2>3
<1> HIDE DEF x
<1>7. TypeOK'
  BY <1>2, <1>3, <1>4, <1>6, TypeInParts
  DEF PlaceInv, TypeOK, Pumps, Places, Fates, Taking, Orderly, Uses
<1>8. PlaceInv'
  BY <1>2, <1>3, <1>4, <1>5, <1>7 DEF PlaceInv
<1> QED  BY <1>3, <1>4, <1>5, <1>8

(* What the governor answers about the frame in hand.                       *)
LEMMA AskedKeeps ==
  ASSUME PlaceInv, Taking
  PROVE  Asked \in Governors /\ Asked.last = gov.last /\ Wait \in Nat
<1>1. gov \in Governors /\ now \in Nat
  BY TypeInParts DEF PlaceInv
<1>2. Asked \in Governors /\ Asked.last = gov.last
  BY <1>1, SettleKeeps DEF Asked
<1> HIDE DEF Asked
<1> QED  BY <1>1, <1>2, DelayIsNat DEF Wait

(* Every way a frame leaves the pump's hand without being keyed.            *)
LEMMA PutDownPlace ==
  ASSUME PlaceInv, Discard \/ Defer \/ Withhold \/ BreakWriting
  PROVE  /\ PlaceInv' /\ ~Taking'
         /\ gov'.last = gov.last
         /\ sched'.pace >= sched.pace /\ sched'.reply = sched.reply /\ sched'.guard = sched.guard
         /\ UNCHANGED <<now, off, keyed, heard, used.offs, used.offAt>>
         /\ \/ /\ shown' = shown /\ Accepted' = Accepted /\ fate' = fate
            \/ /\ shown' = SumOver(CostOf, Queued(sched')) /\ Accepted' = Queued(sched')
               /\ fate' = [fate EXCEPT ![InHand] = "dropped"]
               /\ \/ off /\ ClassOf[InHand] # Id
                  \/ ClassOf[InHand] \notin {Ack, Id}
<1>1. /\ gov \in Governors /\ used \in Uses /\ sched.pace \in Nat /\ now \in Nat
      /\ {0, 1} \subseteq Nat /\ Taking
  <2>1. gov \in Governors /\ used \in Uses /\ now \in Nat /\ IsScheduler(sched)
    BY TypeInParts DEF PlaceInv, Uses
  <2> QED  BY <2>1 DEF Discard, Defer, Withhold, BreakWriting, Taking, IsScheduler
<1>2. Asked \in Governors /\ Asked.last = gov.last /\ Wait \in Nat
  BY <1>1, AskedKeeps
<1>3. CASE Discard
  <2>1. /\ DropInHand /\ UNCHANGED <<now, sched, gov, server, keyed, unbroken, history>>
        /\ off /\ ClassOf[InHand] # Id
    BY <1>3 DEF Discard, Forbidden
  <2>2. /\ PlaceInv' /\ shown' = SumOver(CostOf, Queued(sched')) /\ Accepted' = Queued(sched')
        /\ ~Taking'
    BY <1>1, <2>1, DropPlace
  <2> QED  BY <1>1, <2>1, <2>2 DEF DropInHand, server, history
<1>4. CASE Defer /\ TooLate
  <2>1. /\ DropInHand /\ UNCHANGED <<now, sched, server, keyed, unbroken, history>>
        /\ gov' = Asked /\ ClassOf[InHand] \notin {Ack, Id}
    BY <1>4 DEF Defer, TooLate
  <2>2. /\ PlaceInv' /\ shown' = SumOver(CostOf, Queued(sched')) /\ Accepted' = Queued(sched')
        /\ ~Taking'
    BY <1>1, <1>2, <2>1, DropPlace
  <2> QED  BY <1>1, <1>2, <2>1, <2>2 DEF DropInHand, server, history
<1>5. CASE Defer /\ ~TooLate
  <2>1. /\ sched' = Requeue(sched, pump.item, now, Wait) /\ pump' = Top /\ gov' = Asked
        /\ UNCHANGED <<now, shown, server, fate, keyed, heard, unbroken, used>>
    BY <1>5 DEF Defer, history
  <2>2. /\ PlaceInv' /\ Accepted' = Accepted /\ ~Taking'
        /\ sched'.pace >= sched.pace /\ sched'.reply = sched.reply /\ sched'.guard = sched.guard
    BY <1>1, <1>2, <2>1, PutBackPlace
  <2> QED  BY <1>2, <2>1, <2>2 DEF server
<1>6. CASE Withhold
  <2>1. /\ sched' = Requeue(sched, pump.item, now, 1) /\ pump' = Top /\ gov' = Asked
        /\ UNCHANGED <<now, shown, server, fate, keyed, heard, unbroken, used>>
    BY <1>6 DEF Withhold, history
  <2>2. /\ PlaceInv' /\ Accepted' = Accepted /\ ~Taking'
        /\ sched'.pace >= sched.pace /\ sched'.reply = sched.reply /\ sched'.guard = sched.guard
    BY <1>1, <1>2, <2>1, PutBackPlace
  <2> QED  BY <1>2, <2>1, <2>2 DEF server
<1>7. CASE BreakWriting
  <2>1. /\ sched' = Requeue(sched, pump.item, now, 0) /\ pump' = Down /\ gov' = Asked
        /\ UNCHANGED <<now, shown, server, fate, keyed, heard, unbroken>>
        /\ used' = [used EXCEPT !.downs = @ + 1] /\ used.downs < MaxDowns
    BY <1>7 DEF BreakWriting, Kept
  <2>2. used' \in Uses /\ used'.offs = used.offs /\ used'.offAt = used.offAt
    <3>1. used' \in Uses
      BY <1>1, <2>1, UseOneMore
    <3> QED  BY <1>1, <2>1, <3>1 DEF Uses
  <2>3. /\ PlaceInv' /\ Accepted' = Accepted /\ ~Taking'
        /\ sched'.pace >= sched.pace /\ sched'.reply = sched.reply /\ sched'.guard = sched.guard
    BY <1>1, <1>2, <2>1, <2>2, PutBackPlace
  <2> QED  BY <1>2, <2>1, <2>2, <2>3 DEF server
<1> QED  BY <1>3, <1>4, <1>5, <1>6, <1>7

(* What is keyed has left, and holds the transmitter down.                  *)
LEMMA KeyPlace ==
  ASSUME PlaceInv, Wait = 0, Key
  PROVE  /\ PlaceInv' /\ ~Taking'
         /\ shown' = SumOver(CostOf, Queued(sched')) /\ Accepted' = Queued(sched')
         /\ gov'.last = now + CostOf[InHand]
         /\ sched'.pace = now + CostOf[InHand] + MinGap
         /\ sched'.reply = IF WantsReply[InHand] THEN now + CostOf[InHand] + ReplyWindow ELSE 0
         /\ sched'.guard = sched.guard
         /\ \A f \in Frames : fate'[f] = "dropped" => fate[f] = "dropped"
<1> DEFINE f == InHand
           n == now + CostOf[f]
           new == [frame |-> f, start |-> now, end |-> n, after |-> Len(heard)]
<1>1. /\ Taking /\ Orderly(sched) /\ f \in Frames /\ f # NoFrame /\ now \in Nat
      /\ CostOf[f] \in Nat /\ CostOf[f] \in Costs /\ CostOf[f] > 0
      /\ fate \in [Frames -> Fates] /\ fate[f] = "queued" /\ f \notin Queued(sched)
      /\ Queued(sched) \in SUBSET Frames /\ IsFiniteSet(Queued(sched))
      /\ \A g \in Queued(sched) : fate[g] = "queued"
      /\ Accepted = Queued(sched) \cup {f}
      /\ unbroken \in Nat
  <2>1. Taking
    BY DEF Key, Taking
  <2> QED  BY <2>1, HandIsItem, TypeInParts, CostsAreNat DEF PlaceInv
<1>2. /\ keyed \subseteq Transmissions
      /\ \A t \in keyed : fate[t.frame] = "keyed" /\ t.frame \in Frames
      /\ \A t, u \in keyed : t.frame = u.frame => t = u
  BY TypeInParts DEF PlaceInv, Transmissions
<1>3. /\ gov' = Record(Asked, CostOf[f], now)
      /\ sched' = OnKeyed(sched, f, CostOf[f], now)
      /\ shown' = Backlog(sched') /\ fate' = [fate EXCEPT ![f] = "keyed"]
      /\ keyed' = keyed \cup {new} /\ pump' = Top
      /\ UNCHANGED <<now, off, safe, owesId, heard, used>>
  BY DEF Key, server, history
<1>4. unbroken' \in Nat
  <2>1. unbroken' = (IF gov.last # Never /\ now - gov.last < Rest THEN unbroken ELSE 0) + CostOf[f]
    BY DEF Key
  <2> HIDE DEF f
  <2> QED  BY <1>1, <2>1
<1> HIDE DEF f
<1>5. gov' \in Governors /\ gov'.last = n
  <2>1. Asked \in Governors
    BY <1>1, AskedKeeps
  <2>2. ~RunFull(Asked.run, CostOf[f])
    <3>1. Delay(Asked, DutyLimit(0), CostOf[f], now) = 0
      BY DEF Wait, f
    <3> HIDE DEF Asked
    <3> QED  BY <1>1, <2>1, <3>1, SendHasRoom
  <2> HIDE DEF Asked
  <2> QED  BY <1>1, <1>3, <2>1, <2>2, RecordKeeps
<1>6. /\ Orderly(sched') /\ Queued(sched') = Queued(sched)
      /\ sched'.queues = sched.queues
      /\ sched'.pace = now + CostOf[f] + MinGap
      /\ sched'.reply = IF WantsReply[f] THEN now + CostOf[f] + ReplyWindow ELSE 0
      /\ sched'.guard = sched.guard
  <2>1. sched' = OnKeyed(sched, f, CostOf[f], now)
    BY <1>3
  <2> DEFINE k == CostOf[f]
  <2>2. Orderly(sched) /\ f \in Frames /\ k \in Nat /\ now \in Nat
    BY <1>1
  <2> HIDE DEF k, n, new
  <2>3. LET t == OnKeyed(sched, f, k, now)
        IN /\ Orderly(t) /\ Queued(t) = Queued(sched) /\ t.queues = sched.queues
           /\ t.pace = now + k + MinGap
           /\ t.reply = IF WantsReply[f] THEN now + k + ReplyWindow ELSE 0
           /\ t.guard = sched.guard
    BY <2>2, OnKeyedKeeps
  <2> QED  BY <2>1, <2>3 DEF k
<1>7. Accepted' = Queued(sched')
  BY <1>1, <1>3, <1>6 DEF Accepted, Fates
<1>8. shown' = SumOver(CostOf, Queued(sched')) /\ shown' \in Nat
  BY <1>1, <1>3, <1>6, BacklogIsSum, CostsAreNat
<1>9. /\ fate' \in [Frames -> Fates] /\ fate'[f] = "keyed"
      /\ \A g \in Frames : g # f => fate'[g] = fate[g]
  BY <1>1, <1>3 DEF Fates
<1>10. keyed' \subseteq Transmissions
  BY <1>1, <1>2, <1>3 DEF Transmissions
<1>11. \A t \in keyed' : fate'[t.frame] = "keyed"
  BY <1>1, <1>2, <1>3, <1>9
<1>12. \A t, u \in keyed' : t.frame = u.frame => t = u
  <2>1. \A t \in keyed : t.frame # f
    BY <1>1, <1>2
  <2> QED  BY <1>2, <1>3, <2>1
<1>13. pump' \in Pumps /\ ~Taking' /\ pump'.item = NoItem /\ InHand' = NoFrame
  BY <1>3, PumpStarts DEF Taking, InHand, NoItem
<1> HIDE DEF new, n
<1>14. TypeOK'
  BY <1>3, <1>4, <1>5, <1>6, <1>8, <1>9, <1>10, <1>13, TypeInParts
  DEF PlaceInv, TypeOK, Pumps, Places, Fates, Taking, Orderly
<1>15. PlaceInv'
  BY <1>1, <1>6, <1>7, <1>11, <1>12, <1>13, <1>14 DEF PlaceInv
<1>16. \A g \in Frames : fate'[g] = "dropped" => fate[g] = "dropped"
  BY <1>9
<1> QED  BY <1>5, <1>6, <1>7, <1>8, <1>13, <1>15, <1>16 DEF f, n

-----------------------------------------------------------------------------
(* The holds.                                                               *)
LEMMA HoldTypes ==
  ASSUME PlaceInv
  PROVE  /\ now \in Nat /\ gov.last \in Nat \cup {Never}
         /\ sched.pace \in Nat /\ sched.reply \in Nat /\ sched.guard \in Nat
         /\ \A t \in keyed : t.start \in Nat /\ t.end \in Nat /\ t.frame \in Frames /\ t.after \in Nat
         /\ heard \in Seq(Nat) /\ \A i \in 1 .. Len(heard) : heard[i] \in Nat
         /\ {MinGap, ReplyWindow, RxGuard} \subseteq Nat
<1>1. /\ now \in Nat /\ gov \in Governors /\ keyed \subseteq Transmissions /\ heard \in Seq(Nat)
  BY TypeInParts DEF PlaceInv
<1>2. gov.last \in Nat \cup {Never}
  BY <1>1 DEF Governors
<1>3. sched.pace \in Nat /\ sched.reply \in Nat /\ sched.guard \in Nat
  BY DEF PlaceInv, Orderly, IsScheduler
<1>4. \A t \in keyed : t.start \in Nat /\ t.end \in Nat /\ t.frame \in Frames /\ t.after \in Nat
  BY <1>1 DEF Transmissions
<1>5. \A i \in 1 .. Len(heard) : heard[i] \in Nat
  BY <1>1
<1>6. {MinGap, ReplyWindow, RxGuard} \subseteq Nat
  BY SchedulerAssumption
<1> QED  BY <1>1, <1>2, <1>3, <1>4, <1>5, <1>6

LEMMA BlockedInParts ==
  ASSUME NEW s, {s.pace, s.reply, s.guard} \subseteq Nat, NEW n \in Nat
  PROVE  BlockedUntil(s) <= n <=> s.pace <= n /\ s.reply <= n /\ s.guard <= n
BY DEF BlockedUntil, Larger

(* Time only passes, and a hold is only prolonged.                          *)
LEMMA HoldsLast ==
  ASSUME PlaceInv, HoldInv, PlaceInv', UNCHANGED <<keyed, heard>>,
         gov'.last = gov.last, now' >= now,
         sched'.pace >= sched.pace, sched'.reply = sched.reply, sched'.guard = sched.guard,
         Taking' => BlockedUntil(sched') <= now',
         pump'.at = "clear" => Wait' = 0
  PROVE  HoldInv'
<1>1. /\ now \in Nat /\ gov.last \in Nat \cup {Never}
      /\ sched.pace \in Nat /\ sched.reply \in Nat /\ sched.guard \in Nat
      /\ \A t \in keyed : t.start \in Nat /\ t.end \in Nat
      /\ \A t \in keyed : t.after \in Nat
      /\ Len(heard) \in Nat /\ \A i \in 1 .. Len(heard) : heard[i] \in Nat
      /\ MinGap \in Nat /\ ReplyWindow \in Nat /\ RxGuard \in Nat
  BY HoldTypes
<1>2. now' \in Nat /\ sched'.pace \in Nat
  BY DEF PlaceInv, TypeOK, Orderly, IsScheduler
<1>3. /\ \A t \in keyed' : /\ t.start < t.end /\ t.start <= now'
                           /\ gov'.last # Never /\ t.end <= gov'.last
      /\ gov'.last # Never => gov'.last + MinGap <= sched'.pace
      /\ \A i \in 1 .. Len(heard') : heard'[i] <= now' /\ heard'[i] + RxGuard <= sched'.guard
  <2>1. \A t \in keyed' : /\ t.start < t.end /\ t.start <= now'
                          /\ gov'.last # Never /\ t.end <= gov'.last
    BY <1>1, <1>2 DEF HoldInv, Never
  <2>2. gov'.last # Never => gov'.last + MinGap <= sched'.pace
    BY <1>1, <1>2 DEF HoldInv, Never
  <2>3. ASSUME NEW i \in 1 .. Len(heard)
        PROVE  heard[i] <= now' /\ heard[i] + RxGuard <= sched'.guard
    <3>1. heard[i] <= now /\ heard[i] + RxGuard <= sched.guard /\ heard[i] \in Nat
      BY <1>1 DEF HoldInv
    <3> QED  BY <1>1, <1>2, <3>1
  <2>4. heard' = heard
    OBVIOUS
  <2> QED  BY <2>1, <2>2, <2>3, <2>4
<1>4. ASSUME NEW t \in keyed'
      PROVE  /\ t.after <= Len(heard')
             /\ WantsReply[t.frame] => \/ t.end + ReplyWindow <= sched'.reply
                                       \/ t.end + ReplyWindow <= now'
                                       \/ t.after < Len(heard')
  <2>1. t \in keyed /\ t.end \in Nat
    BY <1>1
  <2>2. /\ t.after <= Len(heard)
        /\ WantsReply[t.frame] => \/ t.end + ReplyWindow <= sched.reply
                                  \/ t.end + ReplyWindow <= now
                                  \/ t.after < Len(heard)
    BY <2>1 DEF HoldInv
  <2> QED  BY <1>1, <1>2, <2>1, <2>2
<1>5. ListensFirst'
  BY DEF HoldInv, ListensFirst
<1> QED  BY <1>3, <1>4, <1>5 DEF HoldInv

LEMMA OfferHolds ==
  ASSUME PlaceInv, HoldInv, PlaceInv',
         (\E f \in Frames : Send(f) \/ Identify(f)) \/ RadioOff
  PROVE  HoldInv'
<1>1. UNCHANGED <<now, gov, keyed, heard>> /\ pump'.item = pump.item /\ pump'.at = pump.at
  <2>1. pump \in Pumps
    BY TypeInParts DEF PlaceInv
  <2> QED  BY <2>1 DEF Send, Identify, RadioOff, Woken, history, Pumps
<1>2. Holds(sched') = Holds(sched)
  <2>1. ASSUME NEW f \in Frames, fate[f] = "unsent", Enqueue(f)
        PROVE  Holds(sched') = Holds(sched)
    BY <2>1, EnqueueKeeps
  <2>2. CASE \E f \in Frames : Send(f) \/ Identify(f)
    BY <2>1, <2>2 DEF Send, Identify
  <2>3. CASE RadioOff
    <3>1. PICK f \in Frames : SignOff(f)
      BY <2>3 DEF RadioOff
    <3>2. (fate[f] = "unsent" /\ Enqueue(f)) \/ sched' = sched
      BY <3>1 DEF SignOff
    <3> QED  BY <2>1, <3>2
  <2> QED  BY <2>2, <2>3
<1>3. sched'.pace = sched.pace /\ sched'.reply = sched.reply /\ sched'.guard = sched.guard
  BY <1>2 DEF Holds
<1>4. now' >= now /\ sched'.pace >= sched.pace
  BY <1>1, <1>3, HoldTypes
<1>5. Taking' => BlockedUntil(sched') <= now'
  BY <1>1, <1>3 DEF HoldInv, Taking, BlockedUntil
<1>6. pump'.at = "clear" => Wait' = 0
  <2>1. Wait' = Wait
    BY <1>1 DEF Wait, Asked, InHand
  <2> QED  BY <1>1, <2>1 DEF HoldInv
<1> QED  BY <1>1, <1>3, <1>4, <1>5, <1>6, HoldsLast

LEMMA QuietHolds ==
  ASSUME PlaceInv, HoldInv, PlaceInv', QuietStep
  PROVE  HoldInv'
<1>1. /\ UNCHANGED <<sched, gov, keyed, heard>>
      /\ now' >= now /\ (Taking' => now' = now /\ pump'.item = pump.item /\ Taking)
      /\ pump'.at = "clear" => pump.at = "clear" \/ Wait = 0
  <2>0. now \in Nat /\ pump \in Pumps
    BY TypeInParts DEF PlaceInv
  <2>1. CASE RadioOn
    BY <2>0, <2>1 DEF RadioOn, history, Woken, Pumps, Taking
  <2>2. CASE Trip
    BY <2>0, <2>2 DEF Trip, Woken, Pumps, Taking
  <2>3. CASE Restore
    BY <2>0, <2>3 DEF Restore, history, Woken, Pumps, Taking
  <2>4. CASE Sleep
    BY <2>0, <2>4 DEF Sleep, history, Pumps, Taking
  <2>5. CASE Wake
    BY <2>0, <2>5, PumpStarts DEF Wake, history, Taking
  <2>6. CASE Approve
    BY <2>0, <2>6 DEF Approve, history, Pumps, Taking
  <2>7. CASE BreakAsleep
    BY <2>0, <2>7, PumpStarts DEF BreakAsleep, Taking
  <2>8. CASE Reconnect
    BY <2>0, <2>8, PumpStarts DEF Reconnect, history, Taking
  <2>9. CASE Tick
    BY <2>0, <2>9 DEF Tick, history, Pumps, Taking
  <2> QED  BY <2>1, <2>2, <2>3, <2>4, <2>5, <2>6, <2>7, <2>8, <2>9 DEF QuietStep
<1>2. sched'.pace >= sched.pace
  BY <1>1, HoldTypes
<1>3. Taking' => BlockedUntil(sched') <= now'
  BY <1>1 DEF HoldInv
<1>4. ASSUME pump'.at = "clear"  PROVE Wait' = 0
  <2>1. Taking'
    BY <1>4 DEF Taking
  <2>2. Wait' = Wait
    BY <1>1, <2>1 DEF Wait, Asked, InHand
  <2> QED  BY <1>1, <1>4, <2>2 DEF HoldInv
<1> QED  BY <1>1, <1>2, <1>3, <1>4, HoldsLast

LEMMA PumpHolds ==
  ASSUME PlaceInv, HoldInv, PlaceInv',
         Poll \/ Alarm \/ Discard \/ Defer \/ Withhold \/ BreakWriting
  PROVE  HoldInv'
<1>1. CASE Poll
  <2>1. Holds(sched') = Holds(sched)
    BY <1>1, PollKeeps
  <2>2. /\ sched'.pace = sched.pace /\ sched'.reply = sched.reply /\ sched'.guard = sched.guard
        /\ sched'.pace >= sched.pace /\ now' >= now
        /\ UNCHANGED <<now, gov, keyed, heard>>
    BY <1>1, <2>1, HoldTypes DEF Holds, Poll, history
  <2>3. pump'.at = "polled"
    BY <1>1, TypeInParts DEF PlaceInv, Poll, Pumps
  <2> QED  BY <2>2, <2>3, HoldsLast DEF Taking
<1>2. CASE Alarm
  <2>1. Holds(sched') = Holds(sched) /\ (Taking' => BlockedUntil(sched) <= now) /\ pump'.at # "clear"
    BY <1>2, AlarmPlace
  <2>2. /\ sched'.pace = sched.pace /\ sched'.reply = sched.reply /\ sched'.guard = sched.guard
        /\ sched'.pace >= sched.pace /\ now' >= now
        /\ UNCHANGED <<now, gov, keyed, heard>>
    BY <1>2, <2>1, HoldTypes DEF Holds, Alarm, history
  <2>3. Taking' => BlockedUntil(sched') <= now'
    BY <2>1, <2>2 DEF BlockedUntil
  <2> QED  BY <2>1, <2>2, <2>3, HoldsLast
<1>3. CASE Discard \/ Defer \/ Withhold \/ BreakWriting
  <2>1. /\ ~Taking' /\ gov'.last = gov.last
        /\ sched'.pace >= sched.pace /\ sched'.reply = sched.reply /\ sched'.guard = sched.guard
        /\ UNCHANGED <<now, keyed, heard>>
    BY <1>3, PutDownPlace
  <2>2. now' >= now
    BY <2>1, HoldTypes
  <2> QED  BY <2>1, <2>2, HoldsLast DEF Taking
<1> QED  BY <1>1, <1>2, <1>3

(* Anything heard answers what was keyed before it, and guards what is      *)
(* keyed after.                                                             *)
LEMMA HearHolds ==
  ASSUME PlaceInv, HoldInv, PlaceInv', Hear
  PROVE  HoldInv'
<1>1. /\ now \in Nat /\ gov.last \in Nat \cup {Never} /\ sched.pace \in Nat
      /\ \A t \in keyed : t.start \in Nat /\ t.end \in Nat /\ t.frame \in Frames
      /\ \A t \in keyed : t.after \in Nat
      /\ Len(heard) \in Nat /\ \A i \in 1 .. Len(heard) : heard[i] \in Nat
      /\ MinGap \in Nat /\ ReplyWindow \in Nat /\ RxGuard \in Nat
  BY HoldTypes
<1>2. /\ sched'.pace = sched.pace /\ sched'.reply = 0 /\ sched'.guard = now + RxGuard
  BY HearPlace
<1>3. UNCHANGED <<now, gov, keyed>> /\ heard' = Append(heard, now)
  BY DEF Hear
<1>4. ~Taking' /\ pump'.at # "clear"
  BY PumpStarts DEF Hear, Taking
<1>5. /\ Len(heard') = Len(heard) + 1 /\ heard'[Len(heard) + 1] = now
      /\ \A i \in 1 .. Len(heard) : heard'[i] = heard[i]
  BY <1>1, <1>3, HoldTypes
<1>6. ASSUME NEW i \in 1 .. Len(heard')
      PROVE  heard'[i] <= now' /\ heard'[i] + RxGuard <= sched'.guard
  <2>1. CASE i = Len(heard) + 1
    BY <1>1, <1>2, <1>3, <1>5, <2>1
  <2>2. CASE i \in 1 .. Len(heard)
    BY <1>1, <1>2, <1>3, <1>5, <2>2 DEF HoldInv
  <2> QED  BY <1>1, <1>5, <2>1, <2>2
<1>7. \A t \in keyed' : t.after <= Len(heard') /\ t.after < Len(heard')
  BY <1>1, <1>3, <1>5 DEF HoldInv
<1>8. ListensFirst'
  <2> SUFFICES ASSUME NEW t \in keyed
               PROVE  \A i \in 1 .. t.after : t.start >= heard'[i] + RxGuard
    BY <1>3 DEF HoldInv, ListensFirst
  <2> TAKE i \in 1 .. t.after
  <2>1. i \in 1 .. Len(heard) /\ heard'[i] = heard[i]
    BY <1>1, <1>5 DEF HoldInv
  <2> QED  BY <2>1 DEF HoldInv, ListensFirst
<1>9. /\ \A t \in keyed' : /\ t.start < t.end /\ t.start <= now'
                           /\ gov'.last # Never /\ t.end <= gov'.last
      /\ gov'.last # Never => gov'.last + MinGap <= sched'.pace
  BY <1>2, <1>3 DEF HoldInv
<1> QED  BY <1>4, <1>6, <1>7, <1>8, <1>9 DEF HoldInv

(* Keying: every hold is over, so whatever was keyed before has had its gap *)
(* and its answer.                                                          *)
LEMMA KeyHolds ==
  ASSUME PlaceInv, HoldInv, PlaceInv', Key
  PROVE  HoldInv'
<1> DEFINE f == InHand
           n == now + CostOf[f]
           new == [frame |-> f, start |-> now, end |-> n, after |-> Len(heard)]
<1>0. Wait = 0 /\ Taking /\ BlockedUntil(sched) <= now
  BY DEF HoldInv, Key, Taking
<1>1. /\ now \in Nat /\ gov.last \in Nat \cup {Never}
      /\ sched.pace \in Nat /\ sched.reply \in Nat /\ sched.guard \in Nat
      /\ \A t \in keyed : t.start \in Nat /\ t.end \in Nat /\ t.frame \in Frames
      /\ \A t \in keyed : t.after \in Nat
      /\ Len(heard) \in Nat /\ \A i \in 1 .. Len(heard) : heard[i] \in Nat
      /\ MinGap \in Nat /\ ReplyWindow \in Nat /\ RxGuard \in Nat
  BY HoldTypes
<1>2. f \in Frames /\ CostOf[f] \in Nat /\ CostOf[f] > 0 /\ n \in Nat /\ now < n
  BY <1>0, <1>1, HandIsItem, CostsAreNat
<1>3. /\ ~Taking' /\ gov'.last = n
      /\ sched'.pace = n + MinGap
      /\ sched'.reply = IF WantsReply[f] THEN n + ReplyWindow ELSE 0
      /\ sched'.guard = sched.guard
  BY <1>0, KeyPlace
<1>4. keyed' = keyed \cup {new} /\ UNCHANGED <<now, heard>>
  BY DEF Key, history
<1>5. sched.pace <= now /\ sched.reply <= now /\ sched.guard <= now
  BY <1>0, <1>1, BlockedInParts
<1>6. new.frame = f /\ new.start = now /\ new.end = n /\ new.after = Len(heard)
  OBVIOUS
<1> HIDE DEF f, n, new
<1>7. \A t \in keyed : /\ t.start < t.end /\ t.start <= now /\ gov.last # Never
                       /\ t.end <= gov.last /\ t.end + MinGap <= now /\ t.end <= now
  BY <1>1, <1>5 DEF HoldInv, Never
<1>8. ASSUME NEW t \in keyed
      PROVE  \/ ~WantsReply[t.frame]
             \/ t.end + ReplyWindow <= now
             \/ t.after < Len(heard)
  <2>1. ~(t.end + ReplyWindow <= sched.reply) \/ t.end + ReplyWindow <= now
    BY <1>1, <1>5
  <2> QED  BY <2>1 DEF HoldInv
<1>9. \A i \in 1 .. Len(heard) :
        heard[i] <= now /\ heard[i] + RxGuard <= now /\ heard[i] + RxGuard <= sched.guard
  BY <1>1, <1>5 DEF HoldInv
<1>10. /\ \A t \in keyed' : /\ t.start < t.end /\ t.start <= now'
                            /\ gov'.last # Never /\ t.end <= gov'.last
       /\ gov'.last # Never => gov'.last + MinGap <= sched'.pace
  <2>1. n # Never
    BY <1>2 DEF Never
  <2>2. \A t \in keyed : t.end <= n
    BY <1>1, <1>2, <1>7
  <2>3. n + MinGap <= n + MinGap /\ n <= n /\ now <= now
    BY <1>1, <1>2
  <2> QED  BY <1>2, <1>3, <1>4, <1>6, <1>7, <2>1, <2>2, <2>3
<1>11. \A i \in 1 .. Len(heard') : heard'[i] <= now' /\ heard'[i] + RxGuard <= sched'.guard
  BY <1>3, <1>4, <1>9
<1>12. ASSUME NEW t \in keyed'
       PROVE  /\ t.after <= Len(heard')
              /\ WantsReply[t.frame] => \/ t.end + ReplyWindow <= sched'.reply
                                        \/ t.end + ReplyWindow <= now'
                                        \/ t.after < Len(heard')
  <2>1. CASE t \in keyed
    <3>1. t.after <= Len(heard)
      BY <2>1 DEF HoldInv
    <3> QED  BY <1>4, <1>8, <2>1, <3>1
  <2>2. CASE t = new
    <3>1. n + ReplyWindow <= n + ReplyWindow
      BY <1>1, <1>2
    <3> QED  BY <1>1, <1>3, <1>4, <1>6, <2>2, <3>1
  <2> QED  BY <1>4, <2>1, <2>2
<1>13. ListensFirst'
  <2> SUFFICES ASSUME NEW t \in keyed'
               PROVE  /\ \A i \in 1 .. t.after : t.start >= heard[i] + RxGuard
                      /\ \A u \in keyed' : u.start > t.start =>
                           /\ u.start >= t.end + MinGap
                           /\ \/ ~WantsReply[t.frame]
                              \/ u.start >= t.end + ReplyWindow
                              \/ u.after > t.after
    BY <1>4 DEF ListensFirst
  <2>1. \A i \in 1 .. t.after : t.start >= heard[i] + RxGuard
    <3>1. CASE t \in keyed
      BY <3>1 DEF HoldInv, ListensFirst
    <3>2. CASE t = new
      BY <1>1, <1>6, <1>9, <3>2
    <3> QED  BY <1>4, <3>1, <3>2
  <2>2. ASSUME NEW u \in keyed', u.start > t.start
        PROVE  /\ u.start >= t.end + MinGap
               /\ \/ ~WantsReply[t.frame]
                  \/ u.start >= t.end + ReplyWindow
                  \/ u.after > t.after
    <3>1. CASE t \in keyed /\ u \in keyed
      BY <2>2, <3>1 DEF HoldInv, ListensFirst
    <3>2. CASE t \in keyed /\ u = new
      <4>1. u.start = now /\ u.after = Len(heard)
        BY <1>6, <3>2
      <4>2. now >= t.end + MinGap
        BY <1>1, <1>7, <3>2
      <4>3. t.end + ReplyWindow <= now => now >= t.end + ReplyWindow
        BY <1>1, <3>2
      <4> QED  BY <1>1, <1>8, <3>2, <4>1, <4>2, <4>3
    <3>3. CASE t = new
      <4>1. u.start <= now
        BY <1>1, <1>4, <1>6, <1>7
      <4>2. u.start \in Nat
        BY <1>1, <1>4, <1>6
      <4> QED  BY <1>1, <1>6, <2>2, <3>3, <4>1, <4>2
    <3> QED  BY <1>4, <3>1, <3>2, <3>3
  <2> QED  BY <2>1, <2>2
<1>14. pump'.at # "clear"
  BY <1>3 DEF Taking
<1> QED  BY <1>3, <1>10, <1>11, <1>12, <1>13, <1>14 DEF HoldInv

-----------------------------------------------------------------------------
CoreInv == PlaceInv /\ HoldInv

LEMMA InitCore == Init => CoreInv
<1> SUFFICES ASSUME Init  PROVE CoreInv
  OBVIOUS
<1>1. /\ now = 0 /\ sched = NewScheduler /\ gov = NewGovernor /\ pump = Top
      /\ off = FALSE /\ safe = TRUE /\ shown = 0 /\ owesId = FALSE
      /\ fate = [f \in Frames |-> "unsent"] /\ keyed = {} /\ heard = <<>> /\ unbroken = 0
      /\ used = [offs |-> 0, offAt |-> 0, trips |-> 0, downs |-> 0]
  BY DEF Init, Top
<1>2. /\ DOMAIN sched = {"queues", "buckets", "pace", "reply", "guard"}
      /\ sched.queues = [c \in Classes |-> <<>>] /\ sched.buckets = <<>>
      /\ sched.pace = 0 /\ sched.reply = 0 /\ sched.guard = 0
  BY <1>1 DEF NewScheduler
<1>3. <<>> \in Seq(Items) /\ Len(<<>>) = 0 /\ Distinct(<<>>) /\ Names(<<>>) = {} /\ DOMAIN <<>> = {}
  BY DEF Distinct, Names
<1>4. \A c \in Classes : sched.queues[c] = <<>>
  BY <1>2
<1>5. sched.queues \in [Classes -> Seq(Items)]
  BY <1>2, <1>3
<1>6. /\ DOMAIN sched.buckets = {} /\ IsFiniteSet(DOMAIN sched.buckets)
      /\ Cardinality(DOMAIN sched.buckets) = 0
      /\ sched.buckets \in [DOMAIN sched.buckets -> [tokens : -MaxDebt .. Burst, last : Nat]]
  <2>1. DOMAIN sched.buckets = {}
    BY <1>2, <1>3
  <2>2. sched.buckets \in [{} -> [tokens : -MaxDebt .. Burst, last : Nat]]
    BY <1>2
  <2> QED  BY <2>1, <2>2, FS_EmptySet
<1>7. Orderly(sched)
  <2>1. MaxAccounts \in Nat
    BY SchedulerAssumption
  <2> QED  BY <1>2, <1>3, <1>4, <1>5, <1>6, <2>1 DEF Orderly, IsScheduler
<1>8. gov \in Governors /\ gov.last = Never
  BY <1>1, AirtimeAssumption DEF NewGovernor, Governors, Never
<1>9. Queued(sched) = {}
  BY <1>3, <1>4, NamesAreWaiting
<1>10. Accepted = {} /\ IsFiniteSet(Accepted)
  <2>1. Accepted = {}
    BY <1>1 DEF Accepted
  <2> QED  BY <2>1, FS_EmptySet
<1>11. pump \in Pumps /\ ~Taking /\ pump.item = NoItem /\ InHand = NoFrame /\ pump.at = "top"
  BY <1>1, PumpStarts DEF Taking, InHand, NoItem
<1>12. \A c \in Classes : Len(sched.queues[c]) <= Depth[c] + 1
  BY <1>3, <1>4, <1>7, LengthsAreNat
<1>13. fate \in [Frames -> Fates] /\ used \in Uses
  BY <1>1, TxAssumption DEF Fates, Uses
<1>14. TypeOK
  <2>1. keyed \subseteq Transmissions /\ heard \in Seq(Nat)
    BY <1>1
  <2> QED  BY <1>1, <1>7, <1>8, <1>11, <1>12, <1>13, <2>1 DEF TypeOK, Pumps, Places, Fates, Taking, Orderly, Uses
<1>15. PlaceInv
  BY <1>1, <1>7, <1>9, <1>10, <1>11, <1>14 DEF PlaceInv
<1>16. HoldInv
  BY <1>1, <1>8, <1>11 DEF HoldInv, ListensFirst, Taking
<1> QED  BY <1>15, <1>16 DEF CoreInv

(* The steps, by what they do to the frame in hand and to those waiting.    *)
LEMMA StepInParts ==
  ASSUME [Next]_vars
  PROVE  \/ UNCHANGED vars
         \/ \E f \in Frames : Send(f) \/ Identify(f)
         \/ RadioOff \/ QuietStep \/ Poll \/ Hear \/ Alarm
         \/ Discard \/ Defer \/ Withhold \/ BreakWriting
         \/ Key
BY DEF Next, QuietStep

LEMMA NextCore ==
  ASSUME CoreInv, [Next]_vars
  PROVE  CoreInv'
<1>0. PlaceInv /\ HoldInv
  BY DEF CoreInv
<1>1. CASE UNCHANGED vars
  <2>1. TypeOK'
    BY <1>0, <1>1 DEF PlaceInv, TypeOK, vars, history
  <2>2. PlaceInv'
    BY <1>0, <1>1, <2>1, PlaceStays DEF PlaceInv, vars, history, Taking
  <2>3. HoldInv'
    BY <1>0, <1>1 DEF HoldInv, vars, history, ListensFirst, Taking, BlockedUntil,
                      Wait, Asked, InHand
  <2> QED  BY <2>2, <2>3 DEF CoreInv
<1>2. CASE (\E f \in Frames : Send(f) \/ Identify(f)) \/ RadioOff
  BY <1>0, <1>2, SendPlace, RadioOffPlace, OfferHolds DEF CoreInv
<1>3. CASE QuietStep
  BY <1>0, <1>3, QuietPlace, QuietHolds DEF CoreInv
<1>4. CASE Poll \/ Alarm \/ Discard \/ Defer \/ Withhold \/ BreakWriting
  <2>1. PlaceInv'
    BY <1>0, <1>4, PollPlace, AlarmPlace, PutDownPlace
  <2> QED  BY <1>0, <1>4, <2>1, PumpHolds DEF CoreInv
<1>5. CASE Hear
  BY <1>0, <1>5, HearPlace, HearHolds DEF CoreInv
<1>6. CASE Key
  <2>1. Wait = 0
    BY <1>0, <1>6 DEF HoldInv, Key
  <2> QED  BY <1>0, <1>6, <2>1, KeyPlace, KeyHolds DEF CoreInv
<1> QED  BY <1>1, <1>2, <1>3, <1>4, <1>5, <1>6, StepInParts

LEMMA CoreHolds == Spec => []CoreInv
<1>1. CoreInv /\ [Next]_vars => CoreInv'
  BY NextCore
<1> QED  BY InitCore, <1>1, PTL DEF Spec

(* Whatever happens and in whatever order, the path's state is of its type, *)
(* and no class ever holds more than one frame beyond its depth.            *)
THEOREM PathTyped == Spec => []TypeOK
<1>1. CoreInv => TypeOK
  BY DEF CoreInv, PlaceInv
<1> QED  BY CoreHolds, <1>1, PTL

(* Half duplex is kept: after a transmission that asks for an answer        *)
(* nothing is keyed before a frame is read from the TNC or the window ends, *)
(* after any other not before the gap, and after anything heard not before  *)
(* the guard.                                                               *)
THEOREM ListeningComesFirst == Spec => []ListensFirst
<1>1. CoreInv => ListensFirst
  BY DEF CoreInv, HoldInv
<1> QED  BY CoreHolds, <1>1, PTL

-----------------------------------------------------------------------------
(* A queue that names no frame twice holds as many frames as it is long.    *)
LEMMA DistinctQueue ==
  ASSUME NEW q \in Seq(Items), Distinct(q)
  PROVE  Cardinality(Names(q)) = Len(q)
<1> DEFINE n == Len(q)
           g == [i \in 1 .. n |-> q[i].frame]
<1>1. n \in Nat /\ DOMAIN q = 1 .. n
  OBVIOUS
<1>2. IsFiniteSet(1 .. n) /\ Cardinality(1 .. n) = n
  <2>1. 1 \in Int /\ n \in Int /\ (1 > n => n = 0) /\ n - 1 + 1 = n
    BY <1>1
  <2> HIDE DEF n
  <2>2. IsFiniteSet(1 .. n) /\ Cardinality(1 .. n) = IF 1 > n THEN 0 ELSE n - 1 + 1
    BY <2>1, FS_Interval, Zenon
  <2> QED  BY <2>1, <2>2
<1>3. g \in Bijection(1 .. n, Names(q))
  <2>1. g \in [1 .. n -> Names(q)]
    BY <1>1 DEF Names
  <2>2. \A i, j \in 1 .. n : g[i] = g[j] => i = j
    BY <1>1 DEF Distinct
  <2>3. \A f \in Names(q) : \E i \in 1 .. n : g[i] = f
    BY <1>1 DEF Names
  <2> HIDE DEF g, n
  <2> QED  BY <2>1, <2>2, <2>3 DEF Bijection, Injection, Surjection, IsInjective
<1> HIDE DEF g
<1>4. ExistsBijection(1 .. n, Names(q))
  BY <1>3 DEF ExistsBijection
<1> QED  BY <1>2, <1>4, FS_Bijection

LEMMA EveryFrameAccounted ==
  ASSUME CoreInv
  PROVE  Accounted
<1>1. /\ Accepted = Queued(sched) \cup ({InHand} \ {NoFrame}) /\ Orderly(sched)
      /\ Taking => InHand \notin Queued(sched)
      /\ \A t, u \in keyed : t.frame = u.frame => t = u
  BY DEF CoreInv, PlaceInv
<1>2. InHand \notin Queued(sched)
  BY <1>1, HandIsItem, TxAssumption DEF CoreInv
<1>3. ASSUME NEW c \in Classes
      PROVE  Cardinality(Waiting(sched, c)) = Len(sched.queues[c])
  <2>1. sched.queues[c] \in Seq(Items) /\ Distinct(sched.queues[c])
    BY <1>1 DEF Orderly, IsScheduler
  <2>2. Waiting(sched, c) = Names(sched.queues[c])
    BY NamesAreWaiting
  <2> QED  BY <2>1, <2>2, DistinctQueue
<1> QED  BY <1>1, <1>2, <1>3 DEF Accounted, Accepted

(* Every frame the scheduler accepted is in exactly one place until it is   *)
(* keyed, once, or dropped.                                                 *)
THEOREM FramesAreAccounted == Spec => []Accounted
<1>1. CoreInv => Accounted
  BY EveryFrameAccounted
<1> QED  BY CoreHolds, <1>1, PTL

-----------------------------------------------------------------------------
(* RADIO OFF.                                                               *)
LEMMA OffStays ==
  ASSUME CoreInv, OffInv, CoreInv',
         off' => off, used'.offs = used.offs, used'.offAt = used.offAt, keyed' = keyed,
         now' >= now,
         \A f \in Frames : fate'[f] = "dropped" => fate[f] = "dropped",
         pump'.at = "clear" /\ off' =>
           \/ pump.at = "clear" /\ InHand' = InHand /\ now' = now
           \/ ClassOf[InHand'] = Id
  PROVE  OffInv'
<1>1. now \in Nat /\ now' \in Nat /\ used.offAt \in Nat /\ used.offs \in Nat
  <2>1. used \in Uses /\ now \in Nat
    BY TypeInParts DEF CoreInv, PlaceInv, Uses
  <2> QED  BY <2>1 DEF Uses, CoreInv, PlaceInv, TypeOK
<1>2. OwedIsKept'
  BY DEF OffInv, OwedIsKept
<1>3. SilentWhileOff'
  BY DEF OffInv, SilentWhileOff
<1>4. off' => used'.offs > 0 /\ used'.offAt <= now'
  BY <1>1 DEF OffInv
<1>5. pump'.at = "clear" /\ off' /\ ClassOf[InHand'] # Id => now' = used'.offAt
  BY DEF OffInv
<1> QED  BY <1>2, <1>3, <1>4, <1>5 DEF OffInv

(* A frame given up was not an identification, and an acknowledgement only  *)
(* with the transmitter off.                                                *)
LEMMA OffDrops ==
  ASSUME CoreInv, OffInv, CoreInv', UNCHANGED <<off, now, keyed>>,
         used'.offs = used.offs, used'.offAt = used.offAt, pump'.at # "clear",
         \A f \in Frames : fate'[f] = "dropped" =>
           \/ fate[f] = "dropped"
           \/ ClassOf[f] # Id /\ (ClassOf[f] = Ack => off)
  PROVE  OffInv'
<1>1. OwedIsKept'
  <2> SUFFICES ASSUME NEW f \in Frames, fate'[f] = "dropped"
               PROVE  ClassOf[f] # Id /\ (ClassOf[f] = Ack => used'.offs > 0)
    BY DEF OwedIsKept
  <2>1. CASE fate[f] = "dropped"
    BY <2>1 DEF OffInv, OwedIsKept
  <2>2. CASE ClassOf[f] # Id /\ (ClassOf[f] = Ack => off)
    BY <2>2 DEF OffInv
  <2> QED  BY <2>1, <2>2
<1>2. SilentWhileOff'
  BY DEF OffInv, SilentWhileOff
<1> QED  BY <1>1, <1>2 DEF OffInv

LEMMA OfferOff ==
  ASSUME CoreInv, OffInv, CoreInv', NEW f \in Frames, Send(f) \/ Identify(f)
  PROVE  OffInv'
<1>1. /\ UNCHANGED <<now, off, keyed, used>> /\ fate[f] = "unsent" /\ Enqueue(f)
      /\ pump'.at = pump.at /\ InHand' = InHand /\ now' >= now
  <2>1. pump \in Pumps /\ now \in Nat
    BY TypeInParts DEF CoreInv, PlaceInv
  <2> QED  BY <2>1 DEF Send, Identify, Woken, history, Pumps, InHand
<1>2. \A g \in Frames : fate'[g] = "dropped" => fate[g] = "dropped"
  BY <1>1, EnqueueKeeps DEF CoreInv
<1> QED  BY <1>1, <1>2, OffStays

(* The operator says off: nothing keyed so far is keyed after that.         *)
LEMMA RadioOffOff ==
  ASSUME CoreInv, OffInv, CoreInv', RadioOff
  PROVE  OffInv'
<1>1. /\ used' = [used EXCEPT !.offs = @ + 1, !.offAt = now] /\ UNCHANGED <<now, keyed>>
      /\ used \in Uses /\ now \in Nat
  BY TypeInParts DEF CoreInv, PlaceInv, RadioOff, Uses
<1>2. /\ used'.offs > 0 /\ used'.offAt = now /\ now' = now /\ now <= now
  BY <1>1 DEF Uses
<1>3. \A f \in Frames : fate'[f] = "dropped" => fate[f] = "dropped"
  <2>1. PICK f \in Frames : SignOff(f)
    BY DEF RadioOff
  <2>2. CASE fate[f] = "unsent" /\ Enqueue(f)
    BY <2>2, EnqueueKeeps DEF CoreInv
  <2>3. CASE fate' = fate
    BY <2>3
  <2> QED  BY <2>1, <2>2, <2>3 DEF SignOff
<1>4. OwedIsKept'
  BY <1>2, <1>3 DEF OffInv, OwedIsKept
<1>5. SilentWhileOff'
  <2>1. \A t \in keyed : t.start <= now /\ t.start \in Nat
    BY HoldTypes DEF CoreInv, HoldInv
  <2> QED  BY <1>1, <1>2, <2>1 DEF SilentWhileOff
<1> QED  BY <1>2, <1>4, <1>5 DEF OffInv

LEMMA QuietOff ==
  ASSUME CoreInv, OffInv, CoreInv', QuietStep
  PROVE  OffInv'
<1>1. /\ UNCHANGED <<keyed, fate>> /\ (off' => off)
      /\ used'.offs = used.offs /\ used'.offAt = used.offAt /\ now' >= now
      /\ pump'.at = "clear" /\ off' =>
           \/ pump.at = "clear" /\ pump'.item = pump.item /\ now' = now
           \/ ClassOf[pump'.item.frame] = Id
  <2>0. now \in Nat /\ pump \in Pumps /\ used \in Uses
    BY TypeInParts DEF CoreInv, PlaceInv, Uses
  <2>1. CASE RadioOn
    BY <2>0, <2>1 DEF RadioOn, history, Woken, Pumps
  <2>2. CASE Trip
    BY <2>0, <2>2 DEF Trip, Woken, Pumps, Uses
  <2>3. CASE Restore
    BY <2>0, <2>3 DEF Restore, history, Woken, Pumps
  <2>4. CASE Sleep
    BY <2>0, <2>4 DEF Sleep, history, server, Pumps
  <2>5. CASE Wake
    BY <2>0, <2>5, PumpStarts DEF Wake, history, server
  <2>6. CASE Approve
    BY <2>0, <2>6 DEF Approve, history, server, Pumps, Forbidden, InHand
  <2>7. CASE BreakAsleep
    BY <2>0, <2>7, PumpStarts DEF BreakAsleep, server, Uses
  <2>8. CASE Reconnect
    BY <2>0, <2>8, PumpStarts DEF Reconnect, history, server
  <2>9. CASE Tick
    BY <2>0, <2>9 DEF Tick, history, server, Pumps
  <2> QED  BY <2>1, <2>2, <2>3, <2>4, <2>5, <2>6, <2>7, <2>8, <2>9 DEF QuietStep
<1>2. pump'.at = "clear" /\ off' =>
        \/ pump.at = "clear" /\ InHand' = InHand /\ now' = now
        \/ ClassOf[InHand'] = Id
  BY <1>1 DEF InHand
<1> QED  BY <1>1, <1>2, OffStays

LEMMA PumpOff ==
  ASSUME CoreInv, OffInv, CoreInv',
         Poll \/ Hear \/ Alarm \/ Discard \/ Defer \/ Withhold \/ BreakWriting
  PROVE  OffInv'
<1>0. now \in Nat /\ pump \in Pumps /\ fate \in [Frames -> Fates] /\ PlaceInv
  BY TypeInParts DEF CoreInv, PlaceInv
<1>1. CASE Poll
  <2>1. \A f \in Lost(sched') : ClassOf[f] # Id /\ (ClassOf[f] = Ack => off)
    BY <1>0, <1>1, PollKeeps
  <2>2. /\ fate' = [f \in Frames |-> IF f \in Lost(sched') THEN "dropped" ELSE fate[f]]
        /\ UNCHANGED <<off, now, keyed, used>> /\ pump'.at # "clear"
    BY <1>0, <1>1 DEF Poll, server, history, Pumps
  <2>3. \A f \in Frames : fate'[f] = "dropped" =>
          \/ fate[f] = "dropped"
          \/ ClassOf[f] # Id /\ (ClassOf[f] = Ack => off)
    BY <2>1, <2>2
  <2> QED  BY <2>2, <2>3, OffDrops
<1>2. CASE Hear
  <2>1. UNCHANGED <<off, now, keyed, used, fate>> /\ pump'.at # "clear"
    BY <1>2, PumpStarts DEF Hear, server
  <2> QED  BY <2>1, OffDrops
<1>3. CASE Alarm
  <2>1. UNCHANGED <<off, now, keyed, used, fate>> /\ pump'.at # "clear"
    BY <1>0, <1>3, AlarmPlace DEF Alarm, server, history
  <2> QED  BY <2>1, OffDrops
<1>4. CASE Discard \/ Defer \/ Withhold \/ BreakWriting
  <2>1. /\ ~Taking' /\ UNCHANGED <<now, off, keyed, used.offs, used.offAt>>
        /\ \/ fate' = fate
           \/ /\ fate' = [fate EXCEPT ![InHand] = "dropped"]
              /\ \/ off /\ ClassOf[InHand] # Id
                 \/ ClassOf[InHand] \notin {Ack, Id}
    BY <1>0, <1>4, PutDownPlace
  <2>2. pump'.at # "clear"
    BY <2>1 DEF Taking
  <2>3. \A f \in Frames : fate'[f] = "dropped" =>
          \/ fate[f] = "dropped"
          \/ ClassOf[f] # Id /\ (ClassOf[f] = Ack => off)
    BY <1>0, <2>1
  <2> QED  BY <2>1, <2>2, <2>3, OffDrops
<1> QED  BY <1>1, <1>2, <1>3, <1>4

(* What is keyed with the transmitter off had consent at that very moment,  *)
(* or is an identification.                                                 *)
LEMMA KeyOff ==
  ASSUME CoreInv, OffInv, CoreInv', Key
  PROVE  OffInv'
<1>1. /\ PlaceInv /\ Wait = 0 /\ pump.at = "clear"
      /\ keyed' = keyed \cup {[frame |-> InHand, start |-> now, end |-> now + CostOf[InHand],
                             after |-> Len(heard)]}
      /\ UNCHANGED <<now, off, used>>
  BY DEF CoreInv, HoldInv, Key, server, history
<1>2. ~Taking' /\ \A f \in Frames : fate'[f] = "dropped" => fate[f] = "dropped"
  BY <1>1, KeyPlace
<1>3. now \in Nat /\ used.offAt \in Nat
  <2>1. now \in Nat /\ used \in Uses
    BY <1>1, TypeInParts DEF PlaceInv, Uses
  <2> QED  BY <2>1 DEF Uses
<1>4. SilentWhileOff'
  <2> SUFFICES ASSUME off, NEW t \in keyed', t.start > used.offAt
               PROVE  ClassOf[t.frame] = Id
    BY <1>1 DEF SilentWhileOff
  <2>1. CASE t \in keyed
    BY <2>1 DEF OffInv, SilentWhileOff
  <2>2. CASE t = [frame |-> InHand, start |-> now, end |-> now + CostOf[InHand],
                 after |-> Len(heard)]
    <3>1. t.frame = InHand /\ t.start = now
      BY <2>2
    <3> QED  BY <1>1, <1>3, <3>1 DEF OffInv
  <2> QED  BY <1>1, <2>1, <2>2
<1>5. OwedIsKept'
  BY <1>1, <1>2 DEF OffInv, OwedIsKept
<1>6. pump'.at # "clear"
  BY <1>2 DEF Taking
<1> QED  BY <1>1, <1>4, <1>5, <1>6 DEF OffInv

LEMMA OffHolds == Spec => [](CoreInv /\ OffInv)
<1>1. Init => CoreInv /\ OffInv
  <2>1. Init => OffInv
    BY DEF Init, OffInv, OwedIsKept, SilentWhileOff
  <2> QED  BY <2>1, InitCore
<1>2. (CoreInv /\ OffInv) /\ [Next]_vars => (CoreInv /\ OffInv)'
  <2> SUFFICES ASSUME CoreInv, OffInv, [Next]_vars  PROVE CoreInv' /\ OffInv'
    OBVIOUS
  <2>1. CoreInv'
    BY NextCore
  <2>2. CASE UNCHANGED vars
    BY <2>1, <2>2 DEF OffInv, OwedIsKept, SilentWhileOff, vars, history, InHand
  <2>3. CASE \E f \in Frames : Send(f) \/ Identify(f)
    BY <2>1, <2>3, OfferOff
  <2>4. CASE RadioOff
    BY <2>1, <2>4, RadioOffOff
  <2>5. CASE QuietStep
    BY <2>1, <2>5, QuietOff
  <2>6. CASE Poll \/ Hear \/ Alarm \/ Discard \/ Defer \/ Withhold \/ BreakWriting
    BY <2>1, <2>6, PumpOff
  <2>7. CASE Key
    BY <2>1, <2>7, KeyOff
  <2> QED  BY <2>1, <2>2, <2>3, <2>4, <2>5, <2>6, <2>7, StepInParts
<1> QED  BY <1>1, <1>2, PTL DEF Spec

(* An identification that was accepted is never given up, and an            *)
(* acknowledgement only when the operator has turned the transmitter off.   *)
THEOREM OwedFramesAreKept == Spec => []OwedIsKept
<1>1. CoreInv /\ OffInv => OwedIsKept
  BY DEF OffInv
<1> QED  BY OffHolds, <1>1, PTL

(* Once the operator has said off nothing but identification is keyed,      *)
(* whatever was queued, taken or had consent -- but for the frame that had  *)
(* consent at that very moment.                                             *)
THEOREM OffIsSilent == Spec => []SilentWhileOff
<1>1. CoreInv /\ OffInv => SilentWhileOff
  BY DEF OffInv
<1> QED  BY OffHolds, <1>1, PTL

-----------------------------------------------------------------------------
(* The backlog shown.                                                       *)
LEMMA LongestIsMost ==
  ASSUME Frames # {}
  PROVE  Longest \in Nat /\ \A f \in Frames : CostOf[f] <= Longest
<1> DEFINE S == {CostOf[f] : f \in Frames}
<1>1. S # {} /\ \A f \in Frames : CostOf[f] \in S
  OBVIOUS
<1>2. S \subseteq 0 .. MaxContinuous
  <2>1. \A c \in Costs : c \in Nat /\ c <= MaxContinuous
    BY AirtimeAssumption
  <2>2. MaxContinuous \in Nat
    BY AirtimeAssumption
  <2> QED  BY <2>1, <2>2, CostsAreNat
<1> HIDE DEF S
<1>3. IsFiniteSet(S) /\ S \in SUBSET Nat
  <2>1. 0 \in Int /\ MaxContinuous \in Int /\ 0 .. MaxContinuous \subseteq Nat
    BY AirtimeAssumption
  <2>2. IsFiniteSet(0 .. MaxContinuous)
    BY <2>1, FS_Interval, Zenon
  <2> QED  BY <1>2, <2>1, <2>2, FS_Subset
<1>4. PICK x \in S : \A y \in S : y <= x
  BY <1>1, <1>3, FiniteGreatest
<1>5. Max(S) \in S /\ \A y \in S : y <= Max(S)
  <2>1. \A y \in S : x >= y
    BY <1>3, <1>4
  <2>2. Max(S) \in S /\ \A y \in S : Max(S) >= y
    BY <2>1 DEF Max
  <2> QED  BY <1>3, <2>2
<1> QED  BY <1>1, <1>3, <1>5 DEF S, Longest

LEMMA OneInHand ==
  ASSUME Frames # {}, NEW Q \in SUBSET Frames, IsFiniteSet(Q),
         NEW h, h = NoFrame \/ (h \in Frames /\ h \notin Q)
  PROVE  /\ SumOver(CostOf, Q) \in Nat
         /\ SumOver(CostOf, Q \cup ({h} \ {NoFrame})) \in Nat
         /\ SumOver(CostOf, Q \cup ({h} \ {NoFrame}))
              = SumOver(CostOf, Q) + (IF h = NoFrame THEN 0 ELSE CostOf[h])
         /\ SumOver(CostOf, Q) <= SumOver(CostOf, Q \cup ({h} \ {NoFrame}))
         /\ SumOver(CostOf, Q \cup ({h} \ {NoFrame})) <= SumOver(CostOf, Q) + Longest
<1> DEFINE A == Q \cup ({h} \ {NoFrame})
           a == SumOver(CostOf, A)
           b == SumOver(CostOf, Q)
           cost == IF h = NoFrame THEN 0 ELSE CostOf[h]
<1>1. b \in Nat /\ Longest \in Nat
  BY CostsAreNat, LongestIsMost
<1>2. a = b + cost /\ cost \in Nat /\ cost <= Longest
  <2>1. CASE h = NoFrame
    <3>1. A = Q
      BY <2>1
    <3>2. a = b /\ cost = 0
      BY <2>1, <3>1
    <3> HIDE DEF a, b, cost, Longest
    <3> QED  BY <1>1, <3>2
  <2>2. CASE h # NoFrame
    <3>1. h \in Frames /\ h \notin Q /\ A = Q \cup {h} /\ cost = CostOf[h]
      BY <2>2
    <3>2. \A f \in Q \cup {h} : CostOf[f] \in Int
      BY <3>1, CostsAreNat
    <3>3. SumOver(CostOf, Q \cup {h}) = b + CostOf[h]
      BY <3>1, <3>2, SumAdd
    <3>4. CostOf[h] \in Nat /\ CostOf[h] <= Longest
      BY <3>1, CostsAreNat, LongestIsMost
    <3> HIDE DEF A, b, cost
    <3> QED  BY <3>1, <3>3, <3>4
  <2> QED  BY <2>1, <2>2
<1> HIDE DEF a, b, cost, Longest
<1>3. a \in Nat /\ b <= a /\ a <= b + Longest
  BY <1>1, <1>2
<1> QED  BY <1>1, <1>2, <1>3 DEF a, b, cost

LEMMA ShownNext ==
  ASSUME Frames # {}, CoreInv, ShownInv, CoreInv', [Next]_vars
  PROVE  ShownInv'
<1>1. PlaceInv /\ HoldInv
  BY DEF CoreInv
<1>2. ASSUME shown' = SumOver(CostOf, Queued(sched'))  PROVE ShownInv'
  <2>1. /\ Orderly(sched') /\ IsFiniteSet(Accepted')
        /\ Accepted' = Queued(sched') \cup ({InHand'} \ {NoFrame})
        /\ Taking' => InHand' \in Frames /\ InHand' \notin Queued(sched')
        /\ ~Taking' => InHand' = NoFrame
    BY DEF CoreInv, PlaceInv, TypeOK, Taking, InHand, NoItem
  <2>2. Queued(sched') \in SUBSET Frames /\ IsFiniteSet(Queued(sched'))
    BY <2>1, QueuedAreFrames, FS_Subset
  <2>3. InHand' = NoFrame \/ (InHand' \in Frames /\ InHand' \notin Queued(sched'))
    BY <2>1
  <2>4. /\ SumOver(CostOf, Queued(sched')) <= SumOver(CostOf, Accepted')
        /\ SumOver(CostOf, Accepted') <= SumOver(CostOf, Queued(sched')) + Longest
    BY <2>1, <2>2, <2>3, OneInHand
  <2> QED  BY <1>2, <2>4 DEF ShownInv
<1>3. ASSUME shown' = shown, Accepted' = Accepted  PROVE ShownInv'
  BY <1>3 DEF ShownInv
<1>4. CASE UNCHANGED vars
  <2>1. shown' = shown /\ Accepted' = Accepted
    BY <1>4 DEF vars, Accepted
  <2> QED  BY <1>3, <2>1
<1>5. ASSUME NEW f \in Frames, fate[f] = "unsent", Enqueue(f)  PROVE ShownInv'
  BY <1>1, <1>2, <1>3, <1>5, EnqueueKeeps
<1>6. CASE \E f \in Frames : Send(f) \/ Identify(f)
  BY <1>5, <1>6 DEF Send, Identify
<1>7. CASE RadioOff
  <2>1. PICK f \in Frames : SignOff(f)
    BY <1>7 DEF RadioOff
  <2>2. (fate[f] = "unsent" /\ Enqueue(f)) \/ (shown' = shown /\ Accepted' = Accepted)
    BY <2>1 DEF SignOff, Accepted
  <2> QED  BY <1>3, <1>5, <2>2
<1>8. CASE QuietStep
  <2>1. UNCHANGED <<shown, fate>>
    BY <1>8 DEF QuietStep, RadioOn, Trip, Restore, Sleep, Wake, Approve, BreakAsleep,
                Reconnect, Tick
  <2>2. shown' = shown /\ Accepted' = Accepted
    BY <2>1 DEF Accepted
  <2> QED  BY <1>3, <2>2
<1>9. CASE Poll
  BY <1>1, <1>2, <1>3, <1>9, PollPlace
<1>10. CASE Hear
  <2>1. shown' = shown /\ Accepted' = Accepted
    BY <1>1, <1>10, HearPlace DEF Hear
  <2> QED  BY <1>3, <2>1
<1>11. CASE Alarm
  <2>1. shown' = shown /\ Accepted' = Accepted
    BY <1>1, <1>11, AlarmPlace DEF Alarm
  <2> QED  BY <1>3, <2>1
<1>12. CASE Discard \/ Defer \/ Withhold \/ BreakWriting
  <2>1. \/ shown' = shown /\ Accepted' = Accepted
        \/ shown' = SumOver(CostOf, Queued(sched'))
    BY <1>1, <1>12, PutDownPlace
  <2> QED  BY <1>2, <1>3, <2>1
<1>13. CASE Key
  <2>1. Wait = 0
    BY <1>1, <1>13 DEF HoldInv, Key
  <2>2. shown' = SumOver(CostOf, Queued(sched'))
    BY <1>1, <1>13, <2>1, KeyPlace
  <2> QED  BY <1>2, <2>2
<1> QED  BY <1>4, <1>6, <1>7, <1>8, <1>9, <1>10, <1>11, <1>12, <1>13, StepInParts

LEMMA ShownIsClose ==
  ASSUME Frames # {}, CoreInv, ShownInv
  PROVE  ShownWithinAFrame
<1> DEFINE B == SumOver(CostOf, Queued(sched))
           hand == IF InHand = NoFrame THEN 0 ELSE CostOf[InHand]
<1>1. /\ Queued(sched) \in SUBSET Frames /\ IsFiniteSet(Queued(sched))
      /\ Accepted = Queued(sched) \cup ({InHand} \ {NoFrame})
      /\ InHand = NoFrame \/ (InHand \in Frames /\ InHand \notin Queued(sched))
  BY HandIsItem DEF CoreInv, PlaceInv
<1>2. /\ B \in Nat /\ SumOver(CostOf, Accepted) \in Nat
      /\ SumOver(CostOf, Accepted) = B + hand
      /\ B <= SumOver(CostOf, Accepted)
  BY <1>1, OneInHand
<1>3. Longest \in Nat /\ shown \in Nat
  BY LongestIsMost, TypeInParts DEF CoreInv, PlaceInv
<1>4. Backlog(sched) = B
  BY BacklogIsSum
<1> HIDE DEF B, hand
<1>5. shown <= B + hand /\ B <= shown + Longest
  BY <1>2, <1>3 DEF ShownInv
<1> QED  BY <1>4, <1>5 DEF ShownWithinAFrame, Longest, hand

(* The backlog published for admission control, by two threads and not at   *)
(* every change, never counts what has left for good and misses at most one *)
(* frame.                                                                   *)
THEOREM ShownIsHonest ==
  ASSUME Frames # {}
  PROVE  Spec => []ShownWithinAFrame
<1>1. Init => ShownInv
  <2>1. ASSUME Init  PROVE shown = 0 /\ Accepted = {}
    BY <2>1 DEF Init, Accepted
  <2>2. Longest \in Nat
    BY LongestIsMost
  <2>3. SumOver(CostOf, {}) = 0
    BY SumEmpty
  <2> QED  BY <2>1, <2>2, <2>3 DEF ShownInv
<1>2. CoreInv /\ ShownInv /\ [Next]_vars /\ CoreInv' => ShownInv'
  BY ShownNext
<1>3. CoreInv /\ ShownInv => ShownWithinAFrame
  BY ShownIsClose
<1> QED  BY CoreHolds, <1>1, <1>2, <1>3, PTL DEF Spec

-----------------------------------------------------------------------------
(* The governor, as TxPath refines it and as the theorems about it are      *)
(* instantiated.  The operators of either instance are the path's own.      *)
Driven == INSTANCE GovernorProofs WITH
  override <- 0,
  keyed <- {[start |-> t.start, end |-> t.end] : t \in keyed}

LEMMA SameTerms ==
  ASSUME NEW a, NEW b
  PROVE  /\ Limits!Never = Never /\ Limits!NewGovernor = NewGovernor /\ Limits!Rest = Rest
         /\ Limits!DutyLimit(0) = DutyLimit(0) /\ Limits!RunFull(a, b) = RunFull(a, b)
         /\ Driven!Never = Never /\ Driven!NewGovernor = NewGovernor /\ Driven!Rest = Rest
         /\ Driven!DutyLimit(0) = DutyLimit(0)
BY DEF Never, Limits!Never, Driven!Never, NewGovernor, Limits!NewGovernor,
       Driven!NewGovernor, Rest, Limits!Rest, Driven!Rest, DutyLimit,
       Limits!DutyLimit, Driven!DutyLimit, HardMaxDuty, Limits!HardMaxDuty,
       Driven!HardMaxDuty, Smaller, Limits!Smaller, Driven!Smaller, RunFull,
       Limits!RunFull, Driven!RunFull

LEMMA SameSettle ==
  ASSUME NEW g, NEW t
  PROVE  Limits!Settle(g, t) = Settle(g, t) /\ Driven!Settle(g, t) = Settle(g, t)
BY DEF Settle, Limits!Settle, Driven!Settle, Trim, Limits!Trim, Driven!Trim,
       Cooling, Limits!Cooling, Driven!Cooling, Rested, Limits!Rested,
       Driven!Rested, Since, Limits!Since, Driven!Since, Larger,
       Limits!Larger, Driven!Larger, Never, Limits!Never, Driven!Never,
       Retention, Limits!Retention, Driven!Retention, HourWindow,
       Limits!HourWindow, Driven!HourWindow

LEMMA SameRecord ==
  ASSUME NEW g, NEW cost, NEW t
  PROVE  /\ Limits!Record(g, cost, t) = Record(g, cost, t)
         /\ Driven!Record(g, cost, t) = Record(g, cost, t)
BY DEF Record, Limits!Record, Driven!Record, Trim, Limits!Trim, Driven!Trim,
       Rested, Limits!Rested, Driven!Rested, Since, Limits!Since,
       Driven!Since, Larger, Limits!Larger, Driven!Larger, Never,
       Limits!Never, Driven!Never, Retention, Limits!Retention,
       Driven!Retention, HourWindow, Limits!HourWindow, Driven!HourWindow

LEMMA SameDelay ==
  ASSUME NEW g, NEW duty, NEW cost, NEW t
  PROVE  /\ Limits!Delay(g, duty, cost, t) = Delay(g, duty, cost, t)
         /\ Driven!Delay(g, duty, cost, t) = Delay(g, duty, cost, t)
BY DEF Delay, Limits!Delay, Driven!Delay, Cooling, Limits!Cooling,
       Driven!Cooling, RunFull, Limits!RunFull, Driven!RunFull, GapLeft,
       Limits!GapLeft, Driven!GapLeft, DutySpent, Limits!DutySpent,
       Driven!DutySpent, HourSpent, Limits!HourSpent, Driven!HourSpent,
       RetryDelay, Limits!RetryDelay, Driven!RetryDelay, Exceeds,
       Limits!Exceeds, Driven!Exceeds, Live, Limits!Live, Driven!Live,
       Airtime, Limits!Airtime, Driven!Airtime, MapThenSumSet,
       Limits!MapThenSumSet, Driven!MapThenSumSet, MapThenFoldSet,
       Limits!MapThenFoldSet, Driven!MapThenFoldSet, Allowance,
       Limits!Allowance, Driven!Allowance, Larger, Limits!Larger,
       Driven!Larger, Smaller, Limits!Smaller, Driven!Smaller, Since,
       Limits!Since, Driven!Since, Min, Limits!Min, Driven!Min, Never,
       Limits!Never, Driven!Never, HourWindow, Limits!HourWindow,
       Driven!HourWindow

(* Every step of the path is a step of the governor, or none of its own.    *)
LEMMA InitDrives == Init => Limits!Init
<1>1. Init => {[start |-> t.start, end |-> t.end] : t \in keyed} = {}
  BY DEF Init
<1> QED  BY <1>1, SameTerms DEF Init, Limits!Init

(* A frame is in hand only when everything keyed is off the air.            *)
LEMMA TakingOffAir ==
  ASSUME CoreInv, Taking
  PROVE  Limits!OffAir
<1>1. /\ now \in Nat /\ gov.last \in Nat \cup {Never} /\ sched.pace \in Nat /\ MinGap \in Nat
      /\ sched.reply \in Nat /\ sched.guard \in Nat
  BY HoldTypes DEF CoreInv
<1>2. BlockedUntil(sched) <= now /\ (gov.last # Never => gov.last + MinGap <= sched.pace)
  BY DEF CoreInv, HoldInv
<1>3. sched.pace <= now
  BY <1>1, <1>2, BlockedInParts
<1>4. gov.last = Never \/ now >= gov.last
  BY <1>1, <1>2, <1>3
<1> QED  BY <1>4, SameTerms DEF Limits!OffAir

(* A frame is asked about and not keyed. *)
LEMMA AskDrives ==
  ASSUME CoreInv, Taking, gov' = Asked, UNCHANGED <<now, keyed, unbroken>>
  PROVE  Limits!Ask
<1>1. gov' = Limits!Settle(gov, now)
  BY SameSettle DEF Asked
<1> QED  BY <1>1, TakingOffAir DEF Limits!Ask

LEMMA KeyDrives ==
  ASSUME CoreInv, Key
  PROVE  \E c \in Costs : Limits!Key(c)
<1>1. Taking /\ Wait = 0 /\ PlaceInv
  BY DEF CoreInv, HoldInv, Key, Taking
<1>2. InHand \in Frames /\ CostOf[InHand] \in Costs /\ CostOf[InHand] \in Nat
  BY <1>1, HandIsItem, CostsAreNat
<1>3. PICK c \in Costs : c = CostOf[InHand]
  BY <1>2
<1>4. Limits!OffAir
  BY <1>1, TakingOffAir
<1>5. Limits!Settle(gov, now) = Asked
  BY SameSettle DEF Asked
<1>6. Limits!Clear(gov, Limits!Duty, c, now)
  BY <1>1, <1>3, <1>5, SameTerms, SameDelay DEF Limits!Clear, Limits!Duty, Wait
<1>7. gov' = Limits!Record(Limits!Settle(gov, now), c, now)
  BY <1>3, <1>5, SameRecord DEF Key
<1>8. PICK f : f = InHand
  OBVIOUS
<1>9. keyed' = keyed \cup {[frame |-> f, start |-> now, end |-> now + c, after |-> Len(heard)]}
  BY <1>3, <1>8 DEF Key
<1>10. {[start |-> t.start, end |-> t.end] : t \in keyed'}
         = {[start |-> t.start, end |-> t.end] : t \in keyed} \cup {[start |-> now, end |-> now + c]}
  <2>1. PICK u : u = [frame |-> f, start |-> now, end |-> now + c, after |-> Len(heard)]
    OBVIOUS
  <2>2. u.start = now /\ u.end = now + c
    BY <2>1
  <2>3. keyed' = keyed \cup {u}
    BY <1>9, <2>1
  <2> QED  BY <2>2, <2>3
<1>11. unbroken' = IF gov.last # Limits!Never /\ now - gov.last < Limits!Rest THEN unbroken + c ELSE c
  <2>1. unbroken' = (IF gov.last # Never /\ now - gov.last < Rest THEN unbroken ELSE 0) + c
    BY <1>3 DEF Key
  <2>2. 0 + c = c
    BY <1>2, <1>3
  <2> QED  BY <2>1, <2>2, SameTerms
<1>12. now' = now
  BY DEF Key
<1> QED  BY <1>4, <1>6, <1>7, <1>10, <1>11, <1>12 DEF Limits!Key

LEMMA NextDrives ==
  ASSUME CoreInv, [Next]_vars
  PROVE  [Limits!Next]_(Limits!vars)
<1>1. ASSUME UNCHANGED <<now, gov, keyed, unbroken>>
      PROVE  UNCHANGED Limits!vars
  BY <1>1 DEF Limits!vars
<1>2. CASE Tick
  <2>1. Limits!Tick
    BY <1>2 DEF Tick, Limits!Tick
  <2> QED  BY <2>1 DEF Limits!Next
<1>3. CASE Key
  BY <1>3, KeyDrives DEF Limits!Next
<1>4. CASE Defer \/ Withhold \/ BreakWriting
  <2>1. Taking /\ gov' = Asked /\ UNCHANGED <<now, keyed, unbroken>>
    BY <1>4 DEF Defer, Withhold, BreakWriting, Taking, history
  <2> QED  BY <2>1, AskDrives DEF Limits!Next
<1>5. CASE ~(Tick \/ Key \/ Defer \/ Withhold \/ BreakWriting)
  <2>1. UNCHANGED <<now, gov, keyed, unbroken>>
    BY <1>5 DEF Next, vars, history, Send, Identify, RadioOff, RadioOn, Trip, Restore, Poll, Sleep,
       Wake, Hear, Alarm, Discard, Approve, BreakAsleep, Reconnect
  <2> QED  BY <1>1, <2>1
<1> QED  BY <1>2, <1>3, <1>4, <1>5

(* The pump drives the governor as Governor says it is driven: a frame is   *)
(* asked about, and keyed on the governor's consent of that very moment,    *)
(* never while an earlier one is still on the air -- whatever the queue,    *)
(* the operator, the interlock and the link do meanwhile.                   *)
THEOREM PathDrivesTheGovernor == Spec => DrivesTheGovernor
<1>1. CoreInv /\ [Next]_vars => [Limits!Next]_(Limits!vars)
  BY NextDrives
<1> QED  BY InitDrives, CoreHolds, <1>1, PTL DEF Spec, DrivesTheGovernor, Limits!Spec

(* What is proved of the governor so driven is then proved of the path.     *)
LEMMA GovernorIsDriven == DrivesTheGovernor => Driven!Spec
<1>1. Limits!Init => Driven!Init
  BY SameTerms DEF Limits!Init, Driven!Init
<1>2. ASSUME [Limits!Next]_(Limits!vars)  PROVE [Driven!Next]_(Driven!vars)
  <2>1. Limits!OffAir => Driven!OffAir
    BY SameTerms DEF Limits!OffAir, Driven!OffAir
  <2>2. ASSUME NEW c \in Costs, Limits!Key(c)  PROVE Driven!Key(c)
    <3>1. Limits!Clear(gov, Limits!Duty, c, now) => Driven!Clear(gov, Driven!Duty, c, now)
      BY SameTerms, SameSettle, SameDelay DEF Limits!Clear, Driven!Clear, Limits!Duty, Driven!Duty
    <3> QED  BY <2>1, <2>2, <3>1, SameTerms, SameSettle, SameRecord DEF Limits!Key, Driven!Key
  <2>3. Limits!Ask => Driven!Ask
    BY <2>1, SameSettle DEF Limits!Ask, Driven!Ask
  <2>4. (\E o \in Overrides \cup {0} : Limits!SetDuty(o)) => \E o \in Overrides \cup {0} : Driven!SetDuty(o)
    BY DEF Limits!SetDuty, Driven!SetDuty
  <2>5. Limits!Tick => Driven!Tick
    BY DEF Limits!Tick, Driven!Tick
  <2>6. UNCHANGED Limits!vars => UNCHANGED Driven!vars
    BY DEF Limits!vars, Driven!vars
  <2> QED  BY <1>2, <2>2, <2>3, <2>4, <2>5, <2>6 DEF Limits!Next, Driven!Next
<1> QED  BY <1>1, <1>2, PTL DEF DrivesTheGovernor, Limits!Spec, Driven!Spec

LEMMA DrivenAssumptions == Driven!AirtimeAssumption /\ Driven!TimeAssumption
BY AirtimeAssumption, TxAssumption DEF Driven!AirtimeAssumption, Driven!TimeAssumption

(* Over the pump's own transmissions, then: at most half of any duty window *)
(* and the budget of any hour is keyed, and never longer than               *)
(* max_continuous without a rest.                                           *)
THEOREM PathKeepsTheLimits ==
  Spec => [](Driven!DutyCeiling /\ Driven!HourCeiling /\ Driven!UnbrokenRun)
<1>1. Driven!AirtimeAssumption /\ Driven!TimeAssumption
  BY DrivenAssumptions
<1>2. Driven!Spec => []Driven!DutyCeiling /\ []Driven!HourCeiling /\ []Driven!UnbrokenRun
  BY <1>1, Driven!DutyIsBounded, Driven!HourIsBounded, Driven!RunIsBounded
<1> QED  BY PathDrivesTheGovernor, GovernorIsDriven, <1>2, PTL
=============================================================================
