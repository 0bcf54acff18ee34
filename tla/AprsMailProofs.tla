--------------------------- MODULE AprsMailProofs ---------------------------
(***************************************************************************)
(* What TLAPS proves of mail and of APRS messages, for any stations, any   *)
(* number of messages and any limits: of the messages to each station      *)
(* (MailInv), of the mailbox as a whole (Held), and of the lines of the    *)
(* radios that repeat themselves (LinesInv).                               *)
(***************************************************************************)
EXTENDS AprsMail, FiniteSetTheorems, WellFoundedInduction, TLAPS

-----------------------------------------------------------------------------
(* A set of natural numbers that is not empty has a least element.          *)
LEMMA NatLeast ==
  ASSUME NEW T \in SUBSET Nat, T # {}
  PROVE  \E x \in T : \A y \in T : x <= y
<1> DEFINE R == OpToRel(<, Nat)
<1>1. IsWellFoundedOn(R, Nat)
  BY NatLessThanWellFounded
<1>2. \A x, y \in Nat : x < y => <<x, y>> \in R
  BY DEF OpToRel
<1> HIDE DEF R
<1>3. PICK x \in T : \A y \in T : ~ (<<y, x>> \in R)
  BY <1>1, WFMin
<1>4. ASSUME NEW y \in T  PROVE x <= y
  <2>1. x \in Nat /\ y \in Nat /\ ~ (y < x)
    BY <1>2, <1>3
  <2> QED  BY <2>1
<1> QED  BY <1>4

(* Induction over the naturals.                                             *)
LEMMA NatByInduction ==
  ASSUME NEW T \in SUBSET Nat, 0 \in T, \A n \in T : n + 1 \in T
  PROVE  T = Nat
<1> SUFFICES ASSUME Nat \ T # {}  PROVE FALSE
  OBVIOUS
<1>1. PICK x \in Nat \ T : \A y \in Nat \ T : x <= y
  BY NatLeast
<1>2. x # 0 /\ x - 1 \in Nat
  BY <1>1
<1>3. x - 1 \in T
  BY <1>1, <1>2
<1> QED  BY <1>2, <1>3

-----------------------------------------------------------------------------
(* Sequences that name nothing twice: something new at the tail ...         *)
LEMMA AppendOnce ==
  ASSUME NEW S, NEW q \in Seq(S), NEW x \in S
  PROVE  /\ Append(q, x) \in Seq(S) /\ Len(Append(q, x)) = Len(q) + 1
         /\ ToSet(Append(q, x)) = ToSet(q) \cup {x}
         /\ IsInjective(q) /\ x \notin ToSet(q) => IsInjective(Append(q, x))
<1> DEFINE a == Append(q, x)
           n == Len(q)
<1>1. a \in Seq(S) /\ Len(a) = n + 1 /\ n \in Nat /\ DOMAIN q = 1 .. n /\ DOMAIN a = 1 .. n + 1
  OBVIOUS
<1>2. (\A i \in 1 .. n : a[i] = q[i]) /\ a[n + 1] = x
  OBVIOUS
<1> HIDE DEF a, n
<1>3. \A i \in DOMAIN a : i = n + 1 \/ i \in 1 .. n
  BY <1>1
<1>4. ToSet(a) = ToSet(q) \cup {x}
  <2>1. ASSUME NEW i \in DOMAIN a  PROVE a[i] \in ToSet(q) \cup {x}
    BY <1>1, <1>2, <1>3 DEF ToSet
  <2>2. ASSUME NEW i \in DOMAIN q  PROVE q[i] \in ToSet(a)
    BY <1>1, <1>2 DEF ToSet
  <2>3. x \in ToSet(a)
    BY <1>1, <1>2 DEF ToSet
  <2> QED  BY <2>1, <2>2, <2>3 DEF ToSet
<1>5. ASSUME IsInjective(q), x \notin ToSet(q)  PROVE IsInjective(a)
  <2>1. \A i \in 1 .. n : q[i] # x
    BY <1>1, <1>5 DEF ToSet
  <2>2. ASSUME NEW i \in DOMAIN a, NEW j \in DOMAIN a, a[i] = a[j]  PROVE i = j
    <3>1. CASE i \in 1 .. n /\ j \in 1 .. n
      BY <1>1, <1>2, <1>5, <2>2, <3>1 DEF IsInjective
    <3>2. CASE i = n + 1 /\ j \in 1 .. n
      BY <1>2, <2>1, <2>2, <3>2
    <3>3. CASE j = n + 1 /\ i \in 1 .. n
      BY <1>2, <2>1, <2>2, <3>3
    <3>4. CASE i = n + 1 /\ j = n + 1
      BY <3>4
    <3> QED  BY <1>3, <3>1, <3>2, <3>3, <3>4
  <2> QED  BY <2>2 DEF IsInjective
<1> QED  BY <1>1, <1>4, <1>5 DEF a, n

(* ... and the head taken off.                                              *)
LEMMA TailOnce ==
  ASSUME NEW S, NEW q \in Seq(S), q # <<>>
  PROVE  /\ Head(q) \in S /\ Head(q) \in ToSet(q)
         /\ Tail(q) \in Seq(S) /\ Len(Tail(q)) = Len(q) - 1 /\ Len(q) \in Nat \ {0}
         /\ \A i \in 1 .. Len(q) - 1 : Tail(q)[i] = q[i + 1]
         /\ IsInjective(q) => IsInjective(Tail(q)) /\ ToSet(Tail(q)) = ToSet(q) \ {Head(q)}
<1> DEFINE t == Tail(q)
           n == Len(q)
<1>1. /\ n \in Nat \ {0} /\ t \in Seq(S) /\ Len(t) = n - 1
      /\ DOMAIN q = 1 .. n /\ DOMAIN t = 1 .. n - 1 /\ Head(q) = q[1] /\ q[1] \in S
  OBVIOUS
<1>2. \A i \in 1 .. n - 1 : t[i] = q[i + 1]
  OBVIOUS
<1> HIDE DEF t, n
<1>3. ASSUME IsInjective(q)  PROVE IsInjective(t) /\ ToSet(t) = ToSet(q) \ {q[1]}
  <2>1. \A i \in 1 .. n - 1 : i + 1 \in DOMAIN q /\ i + 1 # 1
    BY <1>1
  <2>2. \A i \in DOMAIN q : i = 1 \/ (i - 1 \in 1 .. n - 1 /\ (i - 1) + 1 = i)
    BY <1>1
  <2>3. IsInjective(t)
    <3>1. ASSUME NEW i \in DOMAIN t, NEW j \in DOMAIN t, t[i] = t[j]  PROVE i = j
      <4>1. q[i + 1] = q[j + 1] /\ i \in Int /\ j \in Int
        BY <1>1, <1>2, <3>1
      <4>2. i + 1 = j + 1
        BY <1>1, <1>3, <2>1, <4>1 DEF IsInjective
      <4> QED  BY <4>1, <4>2
    <3> QED  BY <3>1 DEF IsInjective
  <2>4. ASSUME NEW i \in DOMAIN t  PROVE t[i] \in ToSet(q) \ {q[1]}
    <3>1. t[i] = q[i + 1] /\ i + 1 \in DOMAIN q /\ i + 1 # 1 /\ 1 \in DOMAIN q
      BY <1>1, <1>2, <2>1
    <3> QED  BY <1>3, <3>1 DEF IsInjective, ToSet
  <2>5. ASSUME NEW i \in DOMAIN q, q[i] # q[1]  PROVE q[i] \in ToSet(t)
    <3>1. i - 1 \in 1 .. n - 1 /\ (i - 1) + 1 = i
      BY <2>2, <2>5
    <3>2. t[i - 1] = q[i]
      BY <1>2, <3>1
    <3> QED  BY <1>1, <3>1, <3>2 DEF ToSet
  <2> QED  BY <2>3, <2>4, <2>5 DEF ToSet
<1>4. q[1] \in ToSet(q)
  BY <1>1 DEF ToSet
<1> QED  BY <1>1, <1>2, <1>3, <1>4 DEF t, n

(* The elements of a sequence.                                             *)
LEMMA ElementsIn ==
  ASSUME NEW S, NEW q \in Seq(S)
  PROVE  ToSet(q) \subseteq S
<1>1. \A i \in DOMAIN q : q[i] \in S
  OBVIOUS
<1> QED  BY <1>1 DEF ToSet

(* Two sequences with nothing in common, one after the other.               *)
LEMMA ConcatOnce ==
  ASSUME NEW S, NEW q \in Seq(S), NEW r \in Seq(S), IsInjective(q), IsInjective(r),
         \A x \in ToSet(q) : x \notin ToSet(r)
  PROVE  /\ q \o r \in Seq(S) /\ IsInjective(q \o r)
         /\ ToSet(q \o r) \subseteq ToSet(q) \cup ToSet(r)
<1>1. PICK t : t = q \o r
  OBVIOUS
<1>2. PICK m \in Nat, n \in Nat : m = Len(q) /\ n = Len(r)
  OBVIOUS
<1>3. t \in Seq(S) /\ DOMAIN q = 1 .. m /\ DOMAIN r = 1 .. n /\ DOMAIN t = 1 .. m + n
  BY <1>1, <1>2
<1>4. /\ \A i \in 1 .. m : t[i] = q[i]
      /\ \A i \in m + 1 .. m + n : t[i] = r[i - m] /\ i - m \in 1 .. n
  BY <1>1, <1>2
<1>5. \A i \in DOMAIN t : i \in 1 .. m \/ i \in m + 1 .. m + n
  BY <1>3
<1>6. ASSUME NEW i \in DOMAIN t
      PROVE  /\ i \in 1 .. m => t[i] \in ToSet(q)
             /\ i \in m + 1 .. m + n => t[i] \in ToSet(r)
  BY <1>3, <1>4 DEF ToSet
<1>7. ASSUME NEW i \in DOMAIN t, NEW j \in DOMAIN t, t[i] = t[j]  PROVE i = j
  <2>1. CASE i \in 1 .. m /\ j \in 1 .. m
    BY <1>3, <1>4, <1>7, <2>1 DEF IsInjective
  <2>2. CASE i \in m + 1 .. m + n /\ j \in m + 1 .. m + n
    <3>1. i - m = j - m
      <4>1. r[i - m] = r[j - m] /\ i - m \in DOMAIN r /\ j - m \in DOMAIN r
        BY <1>3, <1>4, <1>7, <2>2
      <4> QED  BY <4>1 DEF IsInjective
    <3> QED  BY <2>2, <3>1
  <2>3. CASE i \in 1 .. m /\ j \in m + 1 .. m + n
    BY <1>6, <1>7, <2>3
  <2>4. CASE j \in 1 .. m /\ i \in m + 1 .. m + n
    BY <1>6, <1>7, <2>4
  <2> QED  BY <1>5, <2>1, <2>2, <2>3, <2>4
<1>8. ToSet(t) \subseteq ToSet(q) \cup ToSet(r)
  <2>1. \A i \in DOMAIN t : t[i] \in ToSet(q) \cup ToSet(r)
    BY <1>5, <1>6
  <2> QED  BY <2>1 DEF ToSet
<1>9. IsInjective(t)
  BY <1>7 DEF IsInjective
<1> QED  BY <1>1, <1>3, <1>8, <1>9

-----------------------------------------------------------------------------
(* What is queued for one station with n messages, of which it has heard h. *)
(* The messages of X are on their way from one place to another.            *)
Pendings(n) == {Nothing} \cup [message : 1 .. n, attempts : 1 .. MaxAttempts]
Mail(n) == [box : Seq(1 .. n), pending : Pendings(n), waiting : Seq(1 .. n), fate : [1 .. n -> Fates]]

Placed(h, p, m) ==
  /\ p.fate[m] = "held" <=> m \in ToSet(p.box)
  /\ p.fate[m] = "waiting" <=> m \in ToSet(p.waiting)
  /\ p.fate[m] = "in flight" <=> m = p.pending.message
  /\ p.fate[m] = "acked" => m \in h

Nowhere(p, m) == m \notin ToSet(p.box) /\ m \notin ToSet(p.waiting) /\ m # p.pending.message

Sound(n, h, p, X) ==
  /\ p \in Mail(n)
  /\ IsInjective(p.box) /\ Len(p.box) <= PerStation
  /\ IsInjective(p.waiting) /\ Len(p.waiting) <= MaxWaiting
  /\ \A m \in (1 .. n) \ X : Placed(h, p, m)
  /\ \A m \in X : Nowhere(p, m)

Ended == Fates \ {"held", "waiting", "in flight"}

(* Where one message is, it stays: what a change of another leaves alone.   *)
LEMMA PlacedStill ==
  ASSUME NEW h, NEW p, NEW q, NEW m, Placed(h, p, m), q.fate[m] = p.fate[m],
         m \in ToSet(q.box) <=> m \in ToSet(p.box),
         m \in ToSet(q.waiting) <=> m \in ToSet(p.waiting),
         m = q.pending.message <=> m = p.pending.message
  PROVE  Placed(h, q, m)
BY DEF Placed

(* One message moves, and the others stay where they are.                   *)
LEMMA OneMoves ==
  ASSUME NEW n \in Nat, NEW h, NEW p, NEW q \in Mail(n), NEW m \in 1 .. n,
         Sound(n, h, p, {}) \/ Sound(n, h, p, {m}),
         \A k \in (1 .. n) \ {m} :
           /\ q.fate[k] = p.fate[k]
           /\ k \in ToSet(q.box) <=> k \in ToSet(p.box)
           /\ k \in ToSet(q.waiting) <=> k \in ToSet(p.waiting)
           /\ k = q.pending.message <=> k = p.pending.message,
         IsInjective(q.box) /\ Len(q.box) <= PerStation,
         IsInjective(q.waiting) /\ Len(q.waiting) <= MaxWaiting
  PROVE  /\ Placed(h, q, m) => Sound(n, h, q, {})
         /\ Nowhere(q, m) => Sound(n, h, q, {m})
<1>1. ASSUME NEW k \in (1 .. n) \ {m}  PROVE Placed(h, q, k)
  <2>1. Placed(h, p, k)
    BY DEF Sound
  <2> QED  BY <2>1, PlacedStill
<1> QED  BY <1>1 DEF Sound

LEMMA SoundFields ==
  ASSUME NEW n \in Nat, NEW h, NEW p, NEW X, Sound(n, h, p, X)
  PROVE  /\ p \in Mail(n) /\ p.box \in Seq(1 .. n) /\ p.waiting \in Seq(1 .. n)
         /\ p.pending \in Pendings(n) /\ p.fate \in [1 .. n -> Fates]
         /\ IsInjective(p.box) /\ Len(p.box) <= PerStation
         /\ IsInjective(p.waiting) /\ Len(p.waiting) <= MaxWaiting
         /\ Len(p.box) \in Nat /\ Len(p.waiting) \in Nat
         /\ PerStation \in Nat /\ MaxWaiting \in Nat
BY AprsMailAssumption DEF Sound, Mail

(* A message that is nowhere has ended ...                                  *)
LEMMA EndSound ==
  ASSUME NEW n \in Nat, NEW h, NEW p, NEW m \in 1 .. n, Sound(n, h, p, {m}),
         NEW f \in Ended, f = "acked" => m \in h,
         NEW q \in Mail(n), q.box = p.box, q.pending = p.pending, q.waiting = p.waiting,
         q.fate = [p.fate EXCEPT ![m] = f]
  PROVE  Sound(n, h, q, {})
<1>1. q.fate[m] = f /\ \A k \in (1 .. n) \ {m} : q.fate[k] = p.fate[k]
  BY SoundFields
<1>2. Nowhere(p, m)
  BY DEF Sound
<1>3. Placed(h, q, m)
  <2>1. f # "held" /\ f # "waiting" /\ f # "in flight"
    BY DEF Ended
  <2>2. m \notin ToSet(q.box) /\ m \notin ToSet(q.waiting) /\ m # q.pending.message
    BY <1>2 DEF Nowhere
  <2> QED  BY <1>1, <2>1, <2>2 DEF Placed
<1> QED  BY <1>1, <1>3, SoundFields, OneMoves

(* ... or is sent, if nothing else is in flight ...                         *)
LEMMA StartSound ==
  ASSUME NEW n \in Nat, NEW h, NEW p, NEW m \in 1 .. n, Sound(n, h, p, {m}),
         p.pending = Nothing, NEW room \in BOOLEAN
  PROVE  /\ Sound(n, h, Start(p, m, room), {})
         /\ Start(p, m, room).box = p.box /\ Start(p, m, room).waiting = p.waiting
<1> DEFINE q == Start(p, m, room)
           v == [message |-> m, attempts |-> 1]
<1>0. p \in Mail(n) /\ Nowhere(p, m)
  BY DEF Sound
<1>1. CASE room
  <2>1. q = [p EXCEPT !.pending = v, !.fate[m] = "in flight"]
    BY <1>1 DEF Start
  <2>2. v \in Pendings(n) /\ v.message = m /\ "in flight" \in Fates
    BY AprsMailAssumption DEF Pendings, Fates
  <2> HIDE DEF q, v
  <2>3. /\ q \in Mail(n) /\ q.box = p.box /\ q.pending = v /\ q.waiting = p.waiting
        /\ q.fate = [p.fate EXCEPT ![m] = "in flight"]
    BY <1>0, <2>1, <2>2 DEF Mail
  <2>4. q.fate[m] = "in flight" /\ \A k \in (1 .. n) \ {m} : q.fate[k] = p.fate[k]
    BY <2>3, SoundFields
  <2>5. Placed(h, q, m)
    BY <1>0, <2>2, <2>3, <2>4 DEF Nowhere, Placed
  <2>6. p.pending.message = 0
    BY DEF Nothing
  <2>7. \A k \in (1 .. n) \ {m} : k # q.pending.message /\ k # p.pending.message
    <3>1. q.pending.message = m
      BY <2>2, <2>3
    <3>2. \A k \in 1 .. n : k # 0
      OBVIOUS
    <3> QED  BY <2>6, <3>1, <3>2
  <2>8. Sound(n, h, q, {})
    BY <2>3, <2>4, <2>5, <2>7, SoundFields, OneMoves
  <2> QED  BY <2>3, <2>8 DEF q
<1>2. CASE ~room
  <2>1. q = [p EXCEPT !.fate[m] = "lost"] /\ "lost" \in Fates
    BY <1>2 DEF Start, Fates
  <2> HIDE DEF q
  <2>2. /\ q \in Mail(n) /\ q.box = p.box /\ q.pending = p.pending /\ q.waiting = p.waiting
        /\ q.fate = [p.fate EXCEPT ![m] = "lost"]
    BY <1>0, <2>1 DEF Mail
  <2>3. "lost" \in Ended
    BY DEF Ended, Fates
  <2>4. Sound(n, h, q, {})
    BY <2>2, <2>3, EndSound
  <2> QED  BY <2>2, <2>4 DEF q
<1> QED  BY <1>1, <1>2

(* ... or waits behind what is.                                             *)
LEMMA EnqueueSound ==
  ASSUME NEW n \in Nat, NEW h, NEW p, NEW m \in 1 .. n, Sound(n, h, p, {m}),
         NEW room \in BOOLEAN
  PROVE  Sound(n, h, EnqueueAprs(p, m, room), {}) /\ EnqueueAprs(p, m, room).box = p.box
<1> DEFINE q == EnqueueAprs(p, m, room)
           w == Append(p.waiting, m)
<1>0. p \in Mail(n) /\ Nowhere(p, m)
  BY DEF Sound
<1>1. CASE p.pending = Nothing
  <2>1. q = Start(p, m, room)
    BY <1>1 DEF EnqueueAprs
  <2> QED  BY <1>1, <2>1, StartSound
<1>2. CASE p.pending # Nothing /\ Accepts(p)
  <2>1. m \notin ToSet(p.waiting) /\ Len(p.waiting) < MaxWaiting
    BY <1>0, <1>2 DEF Nowhere, Accepts
  <2>2. /\ w \in Seq(1 .. n) /\ Len(w) <= MaxWaiting /\ IsInjective(w)
        /\ ToSet(w) = ToSet(p.waiting) \cup {m}
    BY <2>1, AppendOnce, SoundFields
  <2>3. q = [p EXCEPT !.waiting = w, !.fate[m] = "waiting"] /\ "waiting" \in Fates
    BY <1>2 DEF EnqueueAprs, Fates
  <2> HIDE DEF w, q
  <2>4. /\ q.box = p.box /\ q.pending = p.pending /\ q.waiting = w
        /\ q.fate = [p.fate EXCEPT ![m] = "waiting"] /\ q \in Mail(n)
    BY <1>0, <2>2, <2>3 DEF Mail
  <2>5. q.fate[m] = "waiting" /\ \A k \in (1 .. n) \ {m} : q.fate[k] = p.fate[k]
    BY <2>4, SoundFields
  <2>6. Placed(h, q, m)
    <3>1. m \notin ToSet(q.box) /\ m \in ToSet(q.waiting) /\ m # q.pending.message
      BY <1>0, <2>2, <2>4 DEF Nowhere
    <3> QED  BY <2>5, <3>1 DEF Placed
  <2>7. Sound(n, h, q, {})
    BY <2>2, <2>4, <2>5, <2>6, SoundFields, OneMoves
  <2> QED  BY <2>4, <2>7 DEF q
<1>3. CASE p.pending # Nothing /\ ~Accepts(p)
  <2>1. q = [p EXCEPT !.fate[m] = "lost"] /\ "lost" \in Fates
    BY <1>3 DEF EnqueueAprs, Fates
  <2> HIDE DEF q
  <2>2. /\ q \in Mail(n) /\ q.box = p.box /\ q.pending = p.pending /\ q.waiting = p.waiting
        /\ q.fate = [p.fate EXCEPT ![m] = "lost"]
    BY <1>0, <2>1 DEF Mail
  <2>3. "lost" \in Ended
    BY DEF Ended, Fates
  <2>4. Sound(n, h, q, {})
    BY <2>2, <2>3, EndSound
  <2> QED  BY <2>2, <2>4 DEF q
<1> QED  BY <1>1, <1>2, <1>3

(* A message is taken out of the mailbox ...                                *)
LEMMA UnboxSound ==
  ASSUME NEW n \in Nat, NEW h, NEW p, Sound(n, h, p, {}), p.box # <<>>,
         NEW q \in Mail(n), q.box = Tail(p.box), q.pending = p.pending,
         q.waiting = p.waiting, q.fate = p.fate
  PROVE  Head(p.box) \in 1 .. n /\ Sound(n, h, q, {Head(p.box)}) /\ Len(q.box) = Len(p.box) - 1
<1> DEFINE m == Head(p.box)
<1>1. /\ m \in 1 .. n /\ m \in ToSet(p.box) /\ Len(q.box) = Len(p.box) - 1
      /\ IsInjective(q.box) /\ ToSet(q.box) = ToSet(p.box) \ {m}
  BY TailOnce, SoundFields
<1> HIDE DEF m
<1>2. Placed(h, p, m)
  BY <1>1 DEF Sound
<1>3. Nowhere(q, m)
  <2>1. p.fate[m] = "held"
    BY <1>1, <1>2 DEF Placed
  <2>2. p.fate[m] # "waiting" /\ p.fate[m] # "in flight"
    BY <2>1
  <2> QED  BY <1>1, <1>2, <2>2 DEF Placed, Nowhere
<1>4. Len(q.box) <= PerStation
  BY <1>1, SoundFields
<1>5. Sound(n, h, q, {m})
  BY <1>1, <1>3, <1>4, SoundFields, OneMoves
<1> QED  BY <1>1, <1>5 DEF m

(* ... or from those that wait ...                                          *)
LEMMA UnwaitSound ==
  ASSUME NEW n \in Nat, NEW h, NEW p, Sound(n, h, p, {}), p.waiting # <<>>,
         NEW q \in Mail(n), q.waiting = Tail(p.waiting), q.pending = p.pending,
         q.box = p.box, q.fate = p.fate
  PROVE  Head(p.waiting) \in 1 .. n /\ Sound(n, h, q, {Head(p.waiting)})
<1> DEFINE m == Head(p.waiting)
<1>1. /\ m \in 1 .. n /\ m \in ToSet(p.waiting) /\ Len(q.waiting) = Len(p.waiting) - 1
      /\ IsInjective(q.waiting) /\ ToSet(q.waiting) = ToSet(p.waiting) \ {m}
  BY TailOnce, SoundFields
<1> HIDE DEF m
<1>2. Placed(h, p, m)
  BY <1>1 DEF Sound
<1>3. Nowhere(q, m)
  <2>1. p.fate[m] = "waiting"
    BY <1>1, <1>2 DEF Placed
  <2>2. p.fate[m] # "held" /\ p.fate[m] # "in flight"
    BY <2>1
  <2> QED  BY <1>1, <1>2, <2>2 DEF Placed, Nowhere
<1>4. Len(q.waiting) <= MaxWaiting
  BY <1>1, SoundFields
<1>5. Sound(n, h, q, {m})
  BY <1>1, <1>3, <1>4, SoundFields, OneMoves
<1> QED  BY <1>1, <1>5 DEF m

(* ... or is no longer in flight.                                           *)
LEMMA ReleaseSound ==
  ASSUME NEW n \in Nat, NEW h, NEW p, Sound(n, h, p, {}), p.pending # Nothing,
         NEW q \in Mail(n), q.pending = Nothing, q.box = p.box, q.waiting = p.waiting,
         q.fate = p.fate
  PROVE  p.pending.message \in 1 .. n /\ Sound(n, h, q, {p.pending.message})
<1> DEFINE m == p.pending.message
<1>1. m \in 1 .. n
  BY SoundFields DEF Pendings
<1>2. q.pending.message = 0 /\ m = p.pending.message
  BY DEF Nothing
<1> HIDE DEF m
<1>3. Placed(h, p, m)
  BY <1>1 DEF Sound
<1>4. Nowhere(q, m)
  <2>0. m # 0
    BY <1>1
  <2>1. p.fate[m] = "in flight"
    BY <1>2, <1>3 DEF Placed
  <2>2. p.fate[m] # "held" /\ p.fate[m] # "waiting"
    BY <2>1
  <2> QED  BY <1>2, <1>3, <2>0, <2>2 DEF Placed, Nowhere
<1>5. \A k \in (1 .. n) \ {m} : k # q.pending.message /\ k # p.pending.message
  BY <1>2
<1>6. Sound(n, h, q, {m})
  BY <1>1, <1>4, <1>5, SoundFields, OneMoves
<1> QED  BY <1>1, <1>6 DEF m

(* The next of those that wait.                                             *)
LEMMA NextSound ==
  ASSUME NEW n \in Nat, NEW h, NEW p, Sound(n, h, p, {}), p.pending = Nothing,
         NEW room \in BOOLEAN
  PROVE  Sound(n, h, NextWaiting(p, room), {}) /\ NextWaiting(p, room).box = p.box
<1>1. CASE p.waiting = <<>>
  BY <1>1 DEF NextWaiting
<1>2. CASE p.waiting # <<>>
  <2> DEFINE w == Tail(p.waiting)
             q == [p EXCEPT !.waiting = w]
  <2>1. w \in Seq(1 .. n) /\ p \in Mail(n)
    BY <1>2, SoundFields, TailOnce
  <2>2. NextWaiting(p, room) = Start(q, Head(p.waiting), room)
    BY <1>2 DEF NextWaiting
  <2> HIDE DEF w
  <2>3. q \in Mail(n) /\ q.waiting = w /\ q.pending = p.pending /\ q.box = p.box /\ q.fate = p.fate
    BY <2>1 DEF Mail
  <2> HIDE DEF q
  <2>4. Head(p.waiting) \in 1 .. n /\ Sound(n, h, q, {Head(p.waiting)})
    BY <1>2, <2>3, UnwaitSound DEF w
  <2> QED  BY <2>2, <2>3, <2>4, StartSound
<1> QED  BY <1>1, <1>2

(* One message out of the mailbox: on its way, or still there.              *)
LEMMA HandSound ==
  ASSUME NEW s \in Stations, NEW n \in Nat, NEW h, NEW p, Sound(n, h, p, {})
  PROVE  Sound(n, h, Hand(s, p), {}) /\ Len(Hand(s, p).box) <= Len(p.box)
<1>0. Len(p.box) \in Nat /\ p \in Mail(n)
  BY SoundFields
<1>1. CASE p.box = <<>>
  <2>1. Hand(s, p) = p
    BY <1>1 DEF Hand
  <2> QED  BY <1>0, <2>1
<1>2. CASE p.box # <<>>
  <2> DEFINE b == Tail(p.box)
             m == Head(p.box)
             q == [p EXCEPT !.box = b]
  <2>1. b \in Seq(1 .. n)
    BY <1>2, SoundFields, TailOnce
  <2> HIDE DEF b
  <2>2. q \in Mail(n) /\ q.box = b /\ q.pending = p.pending /\ q.waiting = p.waiting /\ q.fate = p.fate
    BY <1>0, <2>1 DEF Mail
  <2> HIDE DEF q
  <2>3. m \in 1 .. n /\ Sound(n, h, q, {m}) /\ Len(q.box) = Len(p.box) - 1
    BY <1>2, <2>2, UnboxSound DEF b
  <2> HIDE DEF m
  <2>4. CASE s \in Airc
    <3> DEFINE t == Hand(s, p)
    <3>1. t = [q EXCEPT !.fate[m] = "session"] /\ "session" \in Ended /\ "session" \in Fates
      BY <1>2, <2>4 DEF Hand, q, b, m, Ended, Fates
    <3> HIDE DEF t
    <3>2. /\ t \in Mail(n) /\ t.box = q.box /\ t.pending = q.pending /\ t.waiting = q.waiting
          /\ t.fate = [q.fate EXCEPT ![m] = "session"]
      BY <2>2, <3>1 DEF Mail
    <3>3. Sound(n, h, t, {})
      BY <2>3, <3>1, <3>2, EndSound
    <3> QED  BY <1>0, <2>3, <3>2, <3>3 DEF t
  <2>5. CASE s \notin Airc /\ Accepts(p)
    <3>1. Hand(s, p) = [EnqueueAprs(p, m, TRUE) EXCEPT !.box = b]
      <4>1. EnqueueAprs(p, m, TRUE).box = p.box
        BY <1>0, <2>5 DEF EnqueueAprs, Start, Mail
      <4>2. Hand(s, p) = [EnqueueAprs(p, m, TRUE) EXCEPT !.box = Tail(EnqueueAprs(p, m, TRUE).box)]
        BY <1>2, <2>5 DEF Hand, m
      <4> QED  BY <4>1, <4>2 DEF b
    <3> DEFINE t == EnqueueAprs(q, m, TRUE)
    <3>2. Hand(s, p) = t
      BY <1>0, <2>5, <3>1 DEF EnqueueAprs, Accepts, Start, q, Mail
    <3>3. Sound(n, h, t, {}) /\ t.box = q.box
      BY <2>3, EnqueueSound
    <3> HIDE DEF t
    <3> QED  BY <1>0, <2>3, <3>2, <3>3
  <2>6. CASE s \notin Airc /\ ~Accepts(p)
    <3>1. Hand(s, p) = p
      BY <1>2, <2>6 DEF Hand
    <3> QED  BY <1>0, <3>1
  <2> QED  BY <2>4, <2>5, <2>6
<1> QED  BY <1>1, <1>2

(* As many as the backlog and the session have room for.                    *)
LEMMA HandedSound ==
  ASSUME NEW s \in Stations, NEW n \in Nat, NEW h, NEW p, Sound(n, h, p, {}), NEW N \in Nat
  PROVE  Sound(n, h, Handed(s, p, N), {}) /\ Len(Handed(s, p, N).box) <= Len(p.box)
<1> DEFINE Step(g, i) == IF i = 0 THEN p ELSE Hand(s, g[i - 1])
           Keeps(g, k) == g = [i \in 0 .. k |-> Step(g, i)]
           Can(k) == \E g : Keeps(g, k)
           T == {k \in Nat : Can(k)}
<1>1. 0 \in T
  <2> DEFINE g == [i \in 0 .. 0 |-> p]
  <2>1. Keeps(g, 0)
    OBVIOUS
  <2>2. Can(0)
    <3> HIDE DEF g, Keeps
    <3> QED  BY <2>1
  <2> HIDE DEF Can
  <2> QED  BY <2>2
<1>2. ASSUME NEW k \in T  PROVE k + 1 \in T
  <2>1. k \in Nat /\ Can(k)
    <3> HIDE DEF Can
    <3> QED  OBVIOUS
  <2>2. PICK g : Keeps(g, k)
    <3> HIDE DEF Keeps
    <3> QED  BY <2>1
  <2> DEFINE f == [i \in 0 .. k + 1 |-> IF i <= k THEN g[i] ELSE Step(g, k + 1)]
  <2>3. ASSUME NEW i \in 0 .. k + 1  PROVE f[i] = Step(f, i)
    <3>1. CASE i = 0
      BY <2>1, <2>2, <3>1
    <3>2. CASE i # 0
      <4>1. i - 1 \in 0 .. k /\ f[i - 1] = g[i - 1]
        BY <2>1, <3>2
      <4>2. f[i] = Step(g, i)
        <5>1. CASE i <= k
          <6>1. i \in 0 .. k /\ f[i] = g[i]
            BY <2>1, <5>1
          <6> HIDE DEF f
          <6>2. g[i] = Step(g, i)
            BY <2>2, <6>1
          <6> QED  BY <6>1, <6>2
        <5>2. CASE i = k + 1
          BY <2>1, <5>2
        <5> QED  BY <2>1, <5>1, <5>2
      <4> QED  BY <3>2, <4>1, <4>2
    <3> QED  BY <3>1, <3>2
  <2>4. Keeps(f, k + 1)
    BY <2>3
  <2>5. Can(k + 1)
    <3> HIDE DEF f, Keeps
    <3> QED  BY <2>4
  <2> HIDE DEF Can
  <2> QED  BY <2>1, <2>5
<1>3. Can(N)
  <2> HIDE DEF Can
  <2>1. T \in SUBSET Nat
    OBVIOUS
  <2>2. T = Nat
    <3> HIDE DEF T
    <3> QED  BY <1>1, <1>2, <2>1, NatByInduction
  <2> QED  BY <2>2
<1> DEFINE K == CHOOSE g : Keeps(g, N)
<1>4. Handed(s, p, N) = K[N]
  BY DEF Handed
<1>5. Keeps(K, N)
  <2> HIDE DEF Keeps
  <2> QED  BY <1>3
<1>6. K[0] = p /\ \A i \in 1 .. N : K[i] = Hand(s, K[i - 1])
  <2> HIDE DEF K
  <2>1. \A i \in 0 .. N : K[i] = Step(K, i)
    BY <1>5
  <2>2. 0 \in 0 .. N /\ \A i \in 1 .. N : i \in 0 .. N /\ i # 0
    OBVIOUS
  <2> QED  BY <2>1, <2>2
<1> HIDE DEF K
<1> DEFINE Good(i) == Sound(n, h, K[i], {}) /\ Len(K[i].box) <= Len(p.box)
           G == {i \in Nat : i <= N => Good(i)}
<1>7. 0 \in G
  <2>1. Len(p.box) \in Nat
    BY SoundFields
  <2> QED  BY <1>6, <2>1
<1>8. ASSUME NEW i \in G  PROVE i + 1 \in G
  <2>0. i \in Nat /\ (i <= N => Good(i))
    <3> HIDE DEF Good
    <3> QED  OBVIOUS
  <2>1. ASSUME i + 1 <= N  PROVE Good(i + 1)
    <3>1. i + 1 \in 1 .. N /\ i <= N /\ (i + 1) - 1 = i
      BY <2>0, <2>1
    <3>2. K[i + 1] = Hand(s, K[i]) /\ Good(i)
      BY <1>6, <2>0, <3>1
    <3>3. Sound(n, h, Hand(s, K[i]), {}) /\ Len(Hand(s, K[i]).box) <= Len(K[i].box)
      BY <3>2, HandSound
    <3>4. Len(K[i].box) \in Nat /\ Len(Hand(s, K[i]).box) \in Nat /\ Len(p.box) \in Nat
      BY <3>2, <3>3, SoundFields
    <3> QED  BY <3>2, <3>3, <3>4
  <2> HIDE DEF Good
  <2> QED  BY <2>0, <2>1
<1>9. Good(N)
  <2>1. G = Nat
    <3> HIDE DEF Good
    <3>1. G \in SUBSET Nat
      OBVIOUS
    <3> HIDE DEF G
    <3> QED  BY <1>7, <1>8, <3>1, NatByInduction
  <2> HIDE DEF Good
  <2> QED  BY <2>1
<1> QED  BY <1>4, <1>9

-----------------------------------------------------------------------------
(* All the stations, and the mailbox they share.                            *)
Tables ==
  /\ DOMAIN box = Stations /\ DOMAIN pending = Stations /\ DOMAIN waiting = Stations
  /\ DOMAIN fate = Stations /\ DOMAIN hears = Stations

MailInv ==
  /\ Tables
  /\ \A s \in Stations :
       /\ hears[s] \subseteq 1 .. Messages[s]
       /\ Sound(Messages[s], hears[s], For(s), {})

Stored(b) == {x \in Stations \X (1 .. PerStation) : x[2] <= Len(b[x[1]])}

LEMMA StoredFinite ==
  ASSUME NEW b
  PROVE  IsFiniteSet(Stored(b)) /\ Cardinality(Stored(b)) \in Nat
<1>1. IsFiniteSet(1 .. PerStation)
  BY FS_Interval, AprsMailAssumption
<1>2. IsFiniteSet(Stations \X (1 .. PerStation))
  BY <1>1, FS_Product, AprsMailAssumption
<1>3. IsFiniteSet(Stored(b))
  BY <1>2, FS_Subset DEF Stored
<1> QED  BY <1>3, FS_CardinalityType

(* Boxes that have not grown hold no more.                                  *)
LEMMA NoMoreStored ==
  ASSUME NEW a, NEW b,
         \A s \in Stations : Len(a[s]) \in Nat /\ Len(b[s]) \in Nat /\ Len(b[s]) <= Len(a[s])
  PROVE  Cardinality(Stored(b)) <= Cardinality(Stored(a))
<1>1. ASSUME NEW x \in Stored(b)  PROVE x \in Stored(a)
  <2>1. x \in Stations \X (1 .. PerStation) /\ x[2] <= Len(b[x[1]])
    BY DEF Stored
  <2>2. x[1] \in Stations /\ x[2] \in Int
    BY <2>1
  <2>3. x[2] <= Len(a[x[1]])
    BY <2>1, <2>2
  <2> QED  BY <2>1, <2>3 DEF Stored
<1> QED  BY <1>1, StoredFinite, FS_Subset

(* One box longer by one holds one more.                                    *)
LEMMA OneMoreStored ==
  ASSUME NEW a, NEW b, NEW s \in Stations,
         \A t \in Stations : Len(a[t]) \in Nat /\ Len(b[t]) \in Nat,
         \A t \in Stations \ {s} : Len(b[t]) = Len(a[t]), Len(b[s]) = Len(a[s]) + 1
  PROVE  Cardinality(Stored(b)) <= Cardinality(Stored(a)) + 1
<1> DEFINE new == <<s, Len(b[s])>>
<1>1. ASSUME NEW x \in Stored(b)  PROVE x \in Stored(a) \cup {new}
  <2>1. x \in Stations \X (1 .. PerStation) /\ x[2] <= Len(b[x[1]])
    BY DEF Stored
  <2>2. x[1] \in Stations /\ x[2] \in Int /\ x = <<x[1], x[2]>>
    BY <2>1
  <2>3. CASE x[1] # s \/ x[2] <= Len(a[s])
    <3>1. x[2] <= Len(a[x[1]])
      BY <2>1, <2>2, <2>3
    <3> QED  BY <2>1, <3>1 DEF Stored
  <2>4. CASE x[1] = s /\ ~ (x[2] <= Len(a[s]))
    <3>1. x[2] = Len(b[s])
      BY <2>1, <2>2, <2>4
    <3> QED  BY <2>2, <2>4, <3>1
  <2> QED  BY <2>3, <2>4
<1> HIDE DEF new
<1>2. PICK S : S = Stored(a)
  OBVIOUS
<1>3. IsFiniteSet(S) /\ Cardinality(S) \in Nat
  BY <1>2, StoredFinite
<1> DEFINE U == S \cup {new}
<1>4. IsFiniteSet(U) /\ Cardinality(U) \in Nat /\ Cardinality(U) <= Cardinality(S) + 1
  <2>1. CASE new \in S
    <3>1. U = S
      BY <2>1
    <3> HIDE DEF U
    <3> QED  BY <1>3, <3>1
  <2>2. CASE new \notin S
    <3>1. IsFiniteSet(U) /\ Cardinality(U) = Cardinality(S) + 1
      BY <1>3, <2>2, FS_AddElement
    <3> HIDE DEF U
    <3> QED  BY <1>3, <3>1
  <2> QED  BY <2>1, <2>2
<1>5. Stored(b) \subseteq U
  BY <1>1, <1>2
<1> HIDE DEF U
<1>6. Cardinality(Stored(b)) <= Cardinality(U)
  BY <1>4, <1>5, FS_Subset
<1> QED  BY <1>2, <1>3, <1>4, <1>6, StoredFinite

(* The fields of what is queued, as the tables have them.                   *)
LEMMA MailFields ==
  ASSUME MailInv, NEW s \in Stations
  PROVE  /\ Sound(Messages[s], hears[s], For(s), {}) /\ Messages[s] \in Nat
         /\ hears[s] \subseteq 1 .. Messages[s]
         /\ For(s).box = box[s] /\ For(s).pending = pending[s]
         /\ For(s).waiting = waiting[s] /\ For(s).fate = fate[s]
         /\ box[s] \in Seq(1 .. Messages[s]) /\ Len(box[s]) \in Nat
         /\ waiting[s] \in Seq(1 .. Messages[s])
         /\ pending[s] \in Pendings(Messages[s]) /\ fate[s] \in [1 .. Messages[s] -> Fates]
<1>1. Sound(Messages[s], hears[s], For(s), {}) /\ hears[s] \subseteq 1 .. Messages[s]
  BY DEF MailInv
<1>2. Messages[s] \in Nat
  BY AprsMailAssumption
<1>3. /\ For(s).box = box[s] /\ For(s).pending = pending[s]
      /\ For(s).waiting = waiting[s] /\ For(s).fate = fate[s]
  BY DEF For
<1>4. PICK p, h, n : p = For(s) /\ h = hears[s] /\ n = Messages[s]
  OBVIOUS
<1>5. Sound(n, h, p, {}) /\ n \in Nat
  BY <1>1, <1>2, <1>4
<1>6. /\ p.box \in Seq(1 .. n) /\ Len(p.box) \in Nat /\ p.waiting \in Seq(1 .. n)
      /\ p.pending \in Pendings(n) /\ p.fate \in [1 .. n -> Fates]
  BY <1>5, SoundFields
<1> QED  BY <1>1, <1>2, <1>3, <1>4, <1>6

(* One station's queue is replaced by a sound one.                          *)
LEMMA BecomesKeeps ==
  ASSUME MailInv, NEW s \in Stations, NEW q, Becomes(s, q), hears' = hears,
         Sound(Messages[s], hears[s], q, {})
  PROVE  /\ MailInv' /\ box'[s] = q.box /\ DOMAIN box' = Stations
         /\ \A t \in Stations \ {s} : box'[t] = box[t]
<1>1. /\ box' = [box EXCEPT ![s] = q.box] /\ pending' = [pending EXCEPT ![s] = q.pending]
      /\ waiting' = [waiting EXCEPT ![s] = q.waiting] /\ fate' = [fate EXCEPT ![s] = q.fate]
  BY DEF Becomes
<1>2. Tables
  BY DEF MailInv
<1>3. Tables'
  BY <1>1, <1>2 DEF Tables
<1>4. ASSUME NEW t \in Stations
      PROVE  (hears[t] \subseteq 1 .. Messages[t] /\ Sound(Messages[t], hears[t], For(t), {}))'
  <2>1. hears'[t] \subseteq 1 .. Messages[t]
    BY DEF MailInv
  <2>2. CASE t = s
    <3>1. /\ For(t)' = [box |-> q.box, pending |-> q.pending, waiting |-> q.waiting, fate |-> q.fate]
      BY <1>1, <1>2, <2>2 DEF For, Tables
    <3>2. q \in Mail(Messages[s])
      BY DEF Sound
    <3>3. For(t)' = q
      BY <3>1, <3>2 DEF Mail
    <3> QED  BY <2>1, <2>2, <3>3
  <2>3. CASE t # s
    <3>1. For(t)' = For(t)
      BY <1>1, <1>2, <2>3 DEF For, Tables
    <3>2. Sound(Messages[t], hears[t], For(t), {})
      BY DEF MailInv
    <3> QED  BY <2>1, <3>1, <3>2
  <2> QED  BY <2>2, <2>3
<1>5. MailInv'
  BY <1>3, <1>4 DEF MailInv
<1> QED  BY <1>1, <1>2, <1>5 DEF Tables

(* ... no longer than before: the mailbox keeps to its limit.               *)
Kept == MailInv /\ Held <= Total

LEMMA BecomesKept ==
  ASSUME Kept, NEW s \in Stations, NEW q, Becomes(s, q), hears' = hears,
         Sound(Messages[s], hears[s], q, {}), Len(q.box) <= Len(box[s])
  PROVE  Kept'
<1>1. /\ MailInv' /\ box'[s] = q.box
      /\ \A t \in Stations \ {s} : box'[t] = box[t]
  BY BecomesKeeps DEF Kept
<1>2. \A t \in Stations : Len(box[t]) \in Nat
  BY MailFields DEF Kept
<1>3. Len(q.box) \in Nat
  BY SoundFields, AprsMailAssumption
<1>4. PICK a, b : a = box /\ b = box'
  OBVIOUS
<1>5. \A t \in Stations : Len(a[t]) \in Nat /\ Len(b[t]) \in Nat /\ Len(b[t]) <= Len(a[t])
  BY <1>1, <1>2, <1>3, <1>4
<1>6. Cardinality(Stored(b)) <= Cardinality(Stored(a))
  BY <1>5, NoMoreStored
<1>7. Held = Cardinality(Stored(a)) /\ Held' = Cardinality(Stored(b))
  BY <1>4 DEF Held, Stored
<1>8. Cardinality(Stored(a)) \in Nat /\ Cardinality(Stored(b)) \in Nat /\ Total \in Nat
  BY StoredFinite, AprsMailAssumption
<1> QED  BY <1>1, <1>6, <1>7, <1>8 DEF Kept

(* What is not touched stays as it is.                                      *)
LEMMA SameKept ==
  ASSUME Kept, UNCHANGED outbound, hears' = hears
  PROVE  Kept'
<1>1. \A s \in Stations : For(s)' = For(s)
  BY DEF For, outbound
<1>2. MailInv'
  BY <1>1 DEF Kept, MailInv, Tables, outbound
<1>3. Held' = Held
  BY DEF Held, outbound
<1> QED  BY <1>2, <1>3 DEF Kept

(* A message not sent yet is nowhere.                                       *)
LEMMA UnsentNowhere ==
  ASSUME MailInv, NEW s \in Stations, Unsent(s) # {}
  PROVE  /\ Min(Unsent(s)) \in 1 .. Messages[s]
         /\ Sound(Messages[s], hears[s], For(s), {Min(Unsent(s))})
<1>1. PICK m : m = Min(Unsent(s))
  OBVIOUS
<1>2. Unsent(s) \in SUBSET Nat
  BY MailFields DEF Unsent
<1>3. \E x \in Unsent(s) : \A y \in Unsent(s) : x <= y
  BY <1>2, NatLeast
<1>4. m \in Unsent(s)
  BY <1>1, <1>3 DEF Min
<1>5. PICK p, h, n : p = For(s) /\ h = hears[s] /\ n = Messages[s]
  OBVIOUS
<1>6. m \in 1 .. n /\ p.fate[m] = "unsent" /\ n \in Nat /\ Sound(n, h, p, {})
  BY <1>4, <1>5, MailFields DEF Unsent
<1>7. Placed(h, p, m)
  BY <1>6 DEF Sound
<1>8. Nowhere(p, m)
  <2>1. p.fate[m] # "held" /\ p.fate[m] # "waiting" /\ p.fate[m] # "in flight"
    BY <1>6
  <2> QED  BY <1>7, <2>1 DEF Placed, Nowhere
<1>9. Sound(n, h, p, {m})
  BY <1>6, <1>8 DEF Sound
<1> QED  BY <1>1, <1>5, <1>6, <1>9

-----------------------------------------------------------------------------
(* Every action on the messages to stations.                                *)
LEMMA FlushKept ==
  ASSUME Kept, NEW s \in Stations, Flush(s), hears' = hears
  PROVE  Kept'
<1>1. CASE up = "on"
  <2>1. PICK n \in 0 .. Batch : Becomes(s, Handed(s, For(s), n))
    BY <1>1 DEF Flush
  <2>2. n \in Nat
    BY AprsMailAssumption
  <2>3. PICK p, h, N : p = For(s) /\ h = hears[s] /\ N = Messages[s]
    OBVIOUS
  <2>4. PICK q : q = Handed(s, p, n)
    OBVIOUS
  <2>5. Becomes(s, q)
    BY <2>1, <2>3, <2>4
  <2>6. Sound(N, h, p, {}) /\ N \in Nat /\ p.box = box[s]
    BY <2>3, MailFields DEF Kept
  <2>7. Sound(N, h, q, {}) /\ Len(q.box) <= Len(p.box)
    BY <2>2, <2>4, <2>6, HandedSound
  <2> QED  BY <2>3, <2>5, <2>6, <2>7, BecomesKept
<1>2. CASE up # "on"
  <2>1. UNCHANGED outbound
    BY <1>2 DEF Flush
  <2> QED  BY <2>1, SameKept
<1> QED  BY <1>1, <1>2

LEMMA DirectKept ==
  ASSUME Kept, NEW s \in Stations, NEW room \in BOOLEAN, Direct(s, room)
  PROVE  Kept'
<1>1. PICK m, p, h, n : m = Min(Unsent(s)) /\ p = For(s) /\ h = hears[s] /\ n = Messages[s]
  OBVIOUS
<1>2. /\ m \in 1 .. n /\ Sound(n, h, p, {m}) /\ n \in Nat
      /\ p.box = box[s] /\ Len(box[s]) \in Nat /\ hears' = hears
  BY <1>1, UnsentNowhere, MailFields DEF Direct, Kept
<1>3. CASE s \in Airc
  <2>1. PICK f : f = IF room THEN "session" ELSE "lost"
    OBVIOUS
  <2>2. PICK q : q = [p EXCEPT !.fate[m] = f]
    OBVIOUS
  <2>3. Becomes(s, q)
    BY <1>1, <1>3, <2>1, <2>2 DEF Direct
  <2>4. f \in Ended /\ f # "acked" /\ f \in Fates
    BY <2>1 DEF Ended, Fates
  <2>5. p \in Mail(n)
    BY <1>2, SoundFields
  <2>6. /\ q \in Mail(n) /\ q.box = p.box /\ q.pending = p.pending /\ q.waiting = p.waiting
        /\ q.fate = [p.fate EXCEPT ![m] = f]
    BY <2>2, <2>4, <2>5 DEF Mail
  <2>7. Sound(n, h, q, {})
    BY <1>2, <2>4, <2>6, EndSound
  <2> QED  BY <1>1, <1>2, <2>3, <2>6, <2>7, BecomesKept
<1>4. CASE s \notin Airc
  <2>1. PICK q : q = EnqueueAprs(p, m, room)
    OBVIOUS
  <2>2. Becomes(s, q)
    BY <1>1, <1>4, <2>1 DEF Direct
  <2>3. Sound(n, h, q, {}) /\ q.box = p.box
    BY <1>2, <2>1, EnqueueSound
  <2> QED  BY <1>1, <1>2, <2>2, <2>3, BecomesKept
<1> QED  BY <1>3, <1>4

(* Into the mailbox: the one action that fills it.                          *)
LEMMA OfferKept ==
  ASSUME Kept, NEW s \in Stations, OfferMailbox(s)
  PROVE  Kept'
<1>1. PICK m, p, h, n : m = Min(Unsent(s)) /\ p = For(s) /\ h = hears[s] /\ n = Messages[s]
  OBVIOUS
<1>2. /\ m \in 1 .. n /\ Sound(n, h, p, {m}) /\ n \in Nat
      /\ p.box = box[s] /\ Len(box[s]) \in Nat /\ hears' = hears
  BY <1>1, UnsentNowhere, MailFields DEF OfferMailbox, Kept
<1>3. PICK q : q = Store(p, m)
  OBVIOUS
<1>4. Becomes(s, q)
  BY <1>1, <1>3 DEF OfferMailbox
<1>5. p \in Mail(n) /\ Nowhere(p, m) /\ p.box \in Seq(1 .. n) /\ p.fate \in [1 .. n -> Fates]
  <2>1. Nowhere(p, m)
    BY <1>2 DEF Sound
  <2> QED  BY <1>2, <2>1, SoundFields
<1>6. CASE Held < Total /\ Len(p.box) < PerStation
  <2> DEFINE b == Append(p.box, m)
  <2>1. /\ b \in Seq(1 .. n) /\ Len(b) = Len(p.box) + 1 /\ Len(b) <= PerStation
        /\ IsInjective(b) /\ ToSet(b) = ToSet(p.box) \cup {m}
    <3>1. m \notin ToSet(p.box) /\ IsInjective(p.box) /\ Len(p.box) \in Nat /\ PerStation \in Nat
      BY <1>2, <1>5, SoundFields DEF Nowhere
    <3> QED  BY <1>2, <1>5, <1>6, <3>1, AppendOnce
  <2>2. q = [p EXCEPT !.box = b, !.fate[m] = "held"] /\ "held" \in Fates
    BY <1>3, <1>6 DEF Store, Fates
  <2> HIDE DEF b
  <2>3. /\ q \in Mail(n) /\ q.box = b /\ q.pending = p.pending /\ q.waiting = p.waiting
        /\ q.fate = [p.fate EXCEPT ![m] = "held"]
    BY <1>5, <2>1, <2>2 DEF Mail
  <2>4. q.fate[m] = "held" /\ \A k \in (1 .. n) \ {m} : q.fate[k] = p.fate[k]
    BY <1>2, <1>5, <2>3
  <2>5. Placed(h, q, m)
    <3>1. m \in ToSet(q.box) /\ m \notin ToSet(q.waiting) /\ m # q.pending.message
      BY <1>5, <2>1, <2>3 DEF Nowhere
    <3> QED  BY <2>4, <3>1 DEF Placed
  <2>6. Sound(n, h, q, {})
    BY <1>2, <2>1, <2>3, <2>4, <2>5, SoundFields, OneMoves
  <2>7. MailInv' /\ box'[s] = b /\ \A t \in Stations \ {s} : box'[t] = box[t]
    BY <1>1, <1>2, <1>4, <2>3, <2>6, BecomesKeeps DEF Kept
  <2>8. PICK x, y : x = box /\ y = box'
    OBVIOUS
  <2>9. /\ \A t \in Stations : Len(x[t]) \in Nat /\ Len(y[t]) \in Nat
        /\ (\A t \in Stations \ {s} : Len(y[t]) = Len(x[t])) /\ Len(y[s]) = Len(x[s]) + 1
    <3>1. \A t \in Stations : Len(box[t]) \in Nat
      BY MailFields DEF Kept
    <3> QED  BY <1>2, <2>1, <2>7, <2>8, <3>1
  <2>10. Cardinality(Stored(y)) <= Cardinality(Stored(x)) + 1
    BY <2>9, OneMoreStored
  <2>11. Held = Cardinality(Stored(x)) /\ Held' = Cardinality(Stored(y))
    BY <2>8 DEF Held, Stored
  <2>12. Cardinality(Stored(x)) \in Nat /\ Cardinality(Stored(y)) \in Nat /\ Total \in Nat
    BY StoredFinite, AprsMailAssumption
  <2> QED  BY <1>6, <2>7, <2>10, <2>11, <2>12 DEF Kept
<1>7. CASE ~ (Held < Total /\ Len(p.box) < PerStation)
  <2>1. q = [p EXCEPT !.fate[m] = "refused"] /\ "refused" \in Fates /\ "refused" \in Ended
    BY <1>3, <1>7 DEF Store, Fates, Ended
  <2>2. /\ q \in Mail(n) /\ q.box = p.box /\ q.pending = p.pending /\ q.waiting = p.waiting
        /\ q.fate = [p.fate EXCEPT ![m] = "refused"]
    BY <1>5, <2>1 DEF Mail
  <2>3. Sound(n, h, q, {})
    BY <1>2, <2>1, <2>2, EndSound
  <2> QED  BY <1>1, <1>2, <1>4, <2>2, <2>3, BecomesKept
<1> QED  BY <1>6, <1>7

LEMMA ExpiresKept ==
  ASSUME Kept, NEW s \in Stations, MailExpires(s)
  PROVE  Kept'
<1>1. PICK p, h, n : p = For(s) /\ h = hears[s] /\ n = Messages[s]
  OBVIOUS
<1>2. /\ Sound(n, h, p, {}) /\ n \in Nat /\ p.box = box[s] /\ p.box # <<>> /\ p \in Mail(n)
      /\ hears' = hears
  BY <1>1, MailFields DEF MailExpires, Kept, Sound
<1> DEFINE m == Head(p.box)
           b == Tail(p.box)
           r == [p EXCEPT !.box = b]
<1>3. PICK q : q = [p EXCEPT !.box = b, !.fate[m] = "expired"]
  OBVIOUS
<1>4. Becomes(s, q)
  <2>1. Becomes(s, [p EXCEPT !.box = Tail(@), !.fate[Head(p.box)] = "expired"])
    BY <1>1, <1>2 DEF MailExpires
  <2> QED  BY <1>3, <2>1
<1>5. b \in Seq(1 .. n)
  BY <1>2, SoundFields, TailOnce
<1>6. r \in Mail(n) /\ r.box = b /\ r.pending = p.pending /\ r.waiting = p.waiting /\ r.fate = p.fate
  <2> HIDE DEF b
  <2> QED  BY <1>2, <1>5 DEF Mail
<1>7. m \in 1 .. n /\ Sound(n, h, r, {m}) /\ Len(r.box) = Len(p.box) - 1 /\ Len(p.box) \in Nat
  <2> HIDE DEF r
  <2> QED  BY <1>2, <1>6, UnboxSound, SoundFields
<1>8. "expired" \in Ended /\ "expired" \in Fates
  BY DEF Ended, Fates
<1> HIDE DEF m, b
<1>9. /\ q \in Mail(n) /\ q.box = r.box /\ q.pending = r.pending /\ q.waiting = r.waiting
      /\ q.fate = [r.fate EXCEPT ![m] = "expired"]
  BY <1>2, <1>3, <1>5, <1>8 DEF Mail
<1> HIDE DEF r
<1>10. Sound(n, h, q, {})
  BY <1>2, <1>7, <1>8, <1>9, EndSound
<1>11. Len(q.box) <= Len(box[s])
  BY <1>2, <1>7, <1>9
<1> QED  BY <1>1, <1>2, <1>4, <1>10, <1>11, BecomesKept

(* Chat to a channel, to each radio in it.                                  *)
LEMMA ToChannelKept ==
  ASSUME Kept, NEW members \in SUBSET Radios, NEW rooms \in SUBSET members,
         ToChannel(members, rooms)
  PROVE  Kept'
<1> DEFINE Queued(s) == IF s \in members THEN EnqueueAprs(For(s), Min(Unsent(s)), s \in rooms)
                        ELSE For(s)
<1>1. /\ pending' = [s \in Stations |-> Queued(s).pending]
      /\ waiting' = [s \in Stations |-> Queued(s).waiting]
      /\ fate' = [s \in Stations |-> Queued(s).fate]
      /\ box' = box /\ hears' = hears
      /\ \A s \in members : Unsent(s) # {}
  BY DEF ToChannel
<1>2. Tables
  BY DEF Kept, MailInv
<1>3. Tables'
  BY <1>1, <1>2 DEF Tables
<1>4. ASSUME NEW s \in Stations
      PROVE  (hears[s] \subseteq 1 .. Messages[s] /\ Sound(Messages[s], hears[s], For(s), {}))'
  <2>1. PICK p, h, n, q : p = For(s) /\ h = hears[s] /\ n = Messages[s] /\ q = Queued(s)
    OBVIOUS
  <2>2. /\ Sound(n, h, p, {}) /\ n \in Nat /\ p.box = box[s] /\ h \subseteq 1 .. n
    BY <2>1, MailFields DEF Kept
  <2>3. Sound(n, h, q, {}) /\ q.box = p.box
    <3>1. CASE s \in members
      <4>1. PICK m, room : m = Min(Unsent(s)) /\ room = (s \in rooms)
        OBVIOUS
      <4>2. m \in 1 .. n /\ Sound(n, h, p, {m})
        BY <1>1, <2>1, <3>1, <4>1, UnsentNowhere DEF Kept
      <4>3. room \in BOOLEAN
        BY <4>1
      <4>4. q = EnqueueAprs(p, m, room)
        BY <2>1, <3>1, <4>1
      <4>5. Sound(n, h, EnqueueAprs(p, m, room), {}) /\ EnqueueAprs(p, m, room).box = p.box
        <5>1. n \in Nat /\ Sound(n, h, p, {m}) /\ m \in 1 .. n
          BY <2>2, <4>2
        <5> QED  BY <4>3, <5>1, EnqueueSound, ZenonT(60)
      <4> QED  BY <4>4, <4>5
    <3>2. CASE s \notin members
      BY <2>1, <2>2, <3>2
    <3> QED  BY <3>1, <3>2
  <2>4. q \in Mail(n)
    BY <2>3 DEF Sound
  <2>5. /\ box'[s] = q.box /\ pending'[s] = q.pending /\ waiting'[s] = q.waiting
        /\ fate'[s] = q.fate
    <3> HIDE DEF Queued
    <3> QED  BY <1>1, <2>1, <2>2, <2>3
  <2>6. For(s)' = q
    <3>1. For(s)' = [box |-> q.box, pending |-> q.pending, waiting |-> q.waiting, fate |-> q.fate]
      BY <2>5 DEF For
    <3> QED  BY <2>4, <3>1 DEF Mail
  <2> QED  BY <1>1, <2>1, <2>2, <2>3, <2>6
<1>5. MailInv'
  BY <1>3, <1>4 DEF MailInv
<1>6. Held' = Held
  BY <1>1 DEF Held
<1> QED  BY <1>5, <1>6 DEF Kept

(* A station hears what is in flight to it, and knows it from then on.      *)
LEMMA HearsKept ==
  ASSUME Kept, NEW s \in Stations, Hears(s)
  PROVE  Kept'
<1>1. /\ pending[s] # Nothing /\ hears' = [hears EXCEPT ![s] = @ \cup {pending[s].message}]
      /\ UNCHANGED outbound
  BY DEF Hears
<1>2. pending[s].message \in 1 .. Messages[s]
  BY <1>1, MailFields DEF Kept, Pendings
<1>3. Tables /\ Tables'
  BY <1>1 DEF Kept, MailInv, Tables, outbound
<1>4. ASSUME NEW t \in Stations
      PROVE  (hears[t] \subseteq 1 .. Messages[t] /\ Sound(Messages[t], hears[t], For(t), {}))'
  <2>1. For(t)' = For(t)
    BY <1>1 DEF For, outbound
  <2>2. hears[t] \subseteq hears'[t] /\ hears'[t] \subseteq 1 .. Messages[t]
    BY <1>1, <1>2, <1>3, MailFields DEF Tables, Kept
  <2>3. PICK p, h, g, n : p = For(t) /\ h = hears[t] /\ g = hears'[t] /\ n = Messages[t]
    OBVIOUS
  <2>4. Sound(n, h, p, {}) /\ h \subseteq g
    BY <2>2, <2>3, MailFields DEF Kept
  <2>5. Sound(n, g, p, {})
    BY <2>4 DEF Sound, Placed
  <2> QED  BY <2>1, <2>2, <2>3, <2>5
<1>5. MailInv'
  BY <1>3, <1>4 DEF MailInv
<1>6. Held' = Held
  BY <1>1 DEF Held, outbound
<1> QED  BY <1>5, <1>6 DEF Kept

(* What is in flight ends, and the next of those that wait starts.          *)
LEMMA ConcludeSound ==
  ASSUME NEW n \in Nat, NEW h, NEW p, Sound(n, h, p, {}), p.pending # Nothing,
         NEW f \in Ended, f = "acked" => p.pending.message \in h,
         NEW room \in BOOLEAN,
         NEW q \in Mail(n), q.box = p.box, q.pending = Nothing, q.waiting = p.waiting,
         q.fate = [p.fate EXCEPT ![p.pending.message] = f]
  PROVE  Sound(n, h, NextWaiting(q, room), {}) /\ NextWaiting(q, room).box = p.box
<1>1. p \in Mail(n) /\ Nothing \in Pendings(n)
  BY DEF Sound, Pendings
<1>2. PICK r : r = [p EXCEPT !.pending = Nothing]
  OBVIOUS
<1>3. /\ r \in Mail(n) /\ r.box = p.box /\ r.pending = Nothing /\ r.waiting = p.waiting
      /\ r.fate = p.fate
  BY <1>1, <1>2 DEF Mail
<1>4. PICK m : m = p.pending.message
  OBVIOUS
<1>5. m \in 1 .. n /\ Sound(n, h, r, {m})
  BY <1>3, <1>4, ReleaseSound
<1>6. /\ q.box = r.box /\ q.pending = r.pending /\ q.waiting = r.waiting
      /\ q.fate = [r.fate EXCEPT ![m] = f] /\ (f = "acked" => m \in h)
  BY <1>3, <1>4
<1>7. Sound(n, h, q, {})
  BY <1>5, <1>6, EndSound
<1>8. Sound(n, h, NextWaiting(q, room), {}) /\ NextWaiting(q, room).box = q.box
  BY <1>7, NextSound
<1> QED  BY <1>8

LEMMA EndsKept ==
  ASSUME Kept, NEW s \in Stations, pending[s] # Nothing, NEW room \in BOOLEAN,
         NEW f \in Ended, f = "acked" => pending[s].message \in hears[s],
         hears' = hears,
         Becomes(s, NextWaiting([For(s) EXCEPT !.pending = Nothing,
                                               !.fate[pending[s].message] = f], room))
  PROVE  Kept'
<1>1. PICK p, h, n : p = For(s) /\ h = hears[s] /\ n = Messages[s]
  OBVIOUS
<1>2. /\ Sound(n, h, p, {}) /\ n \in Nat /\ p.box = box[s] /\ p.pending = pending[s]
      /\ Len(box[s]) \in Nat /\ p \in Mail(n)
  BY <1>1, MailFields DEF Kept, Sound
<1>3. PICK q : q = [p EXCEPT !.pending = Nothing, !.fate[p.pending.message] = f]
  OBVIOUS
<1>4. PICK t : t = NextWaiting(q, room)
  OBVIOUS
<1>5. Becomes(s, t)
  <2>1. q = [For(s) EXCEPT !.pending = Nothing, !.fate[pending[s].message] = f]
    BY <1>1, <1>2, <1>3
  <2> QED  BY <1>4, <2>1
<1>6. f \in Fates /\ Nothing \in Pendings(n)
  BY DEF Ended, Pendings
<1>7. /\ q \in Mail(n) /\ q.box = p.box /\ q.pending = Nothing /\ q.waiting = p.waiting
      /\ q.fate = [p.fate EXCEPT ![p.pending.message] = f]
  BY <1>2, <1>3, <1>6 DEF Mail
<1>8. p.pending # Nothing /\ (f = "acked" => p.pending.message \in h)
  BY <1>1, <1>2
<1>9. Sound(n, h, t, {}) /\ t.box = p.box
  <2>1. Sound(n, h, NextWaiting(q, room), {}) /\ NextWaiting(q, room).box = p.box
    BY <1>2, <1>7, <1>8, ConcludeSound
  <2> QED  BY <1>4, <2>1
<1>10. Len(t.box) <= Len(box[s])
  BY <1>2, <1>9
<1> QED  BY <1>1, <1>5, <1>9, <1>10, BecomesKept

LEMMA AckKept ==
  ASSUME Kept, NEW s \in Stations, NEW m \in 1 .. Messages[s], NEW room \in BOOLEAN,
         OnAprsAck(s, m, room)
  PROVE  Kept'
<1>1. /\ m \in hears[s] /\ pending[s].message = m /\ hears' = hears
      /\ Becomes(s, NextWaiting([For(s) EXCEPT !.pending = Nothing, !.fate[m] = "acked"], room))
  BY DEF OnAprsAck
<1>2. pending[s] # Nothing
  <2>1. m # 0
    BY MailFields DEF Kept
  <2> QED  BY <1>1, <2>1 DEF Nothing
<1>3. PICK f : f = "acked"
  OBVIOUS
<1>4. f \in Ended
  BY <1>3 DEF Ended, Fates
<1> QED  BY <1>1, <1>2, <1>3, <1>4, EndsKept

(* The tick sends again, or gives up.                                       *)
LEMMA TickKept ==
  ASSUME Kept, NEW s \in Stations, NEW room \in BOOLEAN, TickAprs(s, room)
  PROVE  Kept'
<1>1. pending[s] # Nothing /\ hears' = hears
  BY DEF TickAprs
<1>2. CASE pending[s].attempts >= MaxAttempts
  <2>1. Becomes(s, NextWaiting([For(s) EXCEPT !.pending = Nothing,
                                   !.fate[pending[s].message] = "given up"], room))
    BY <1>2 DEF TickAprs
  <2>2. PICK f : f = "given up"
    OBVIOUS
  <2>3. f \in Ended /\ f # "acked"
    BY <2>2 DEF Ended, Fates
  <2> QED  BY <1>1, <2>1, <2>2, <2>3, EndsKept
<1>3. CASE ~ (pending[s].attempts >= MaxAttempts)
  <2>1. PICK p, h, n : p = For(s) /\ h = hears[s] /\ n = Messages[s]
    OBVIOUS
  <2>2. /\ Sound(n, h, p, {}) /\ n \in Nat /\ p.box = box[s] /\ p.pending = pending[s]
        /\ p \in Mail(n) /\ Len(box[s]) \in Nat
    BY <2>1, MailFields DEF Kept, Sound
  <2>3. PICK q : q = [p EXCEPT !.pending.attempts = @ + 1]
    OBVIOUS
  <2>4. Becomes(s, q)
    BY <1>3, <2>1, <2>3 DEF TickAprs
  <2> DEFINE v == [p.pending EXCEPT !.attempts = @ + 1]
  <2>5. v \in Pendings(n) /\ v.message = p.pending.message
    <3>1. p.pending \in [message : 1 .. n, attempts : 1 .. MaxAttempts] /\ MaxAttempts \in Nat
      BY <1>1, <2>2, AprsMailAssumption DEF Mail, Pendings
    <3>2. p.pending.attempts + 1 \in 1 .. MaxAttempts
      BY <1>3, <2>2, <3>1
    <3> QED  BY <3>1, <3>2 DEF Pendings
  <2>6. q = [p EXCEPT !.pending = v]
    BY <2>2, <2>3 DEF Mail
  <2> HIDE DEF v
  <2>7. q \in Mail(n) /\ q.box = p.box /\ q.pending = v /\ q.waiting = p.waiting /\ q.fate = p.fate
    BY <2>2, <2>5, <2>6 DEF Mail
  <2>8. Sound(n, h, q, {})
    BY <2>2, <2>5, <2>7 DEF Sound, Placed
  <2> QED  BY <1>1, <2>1, <2>2, <2>4, <2>7, <2>8, BecomesKept
<1> QED  BY <1>2, <1>3

(* Messages start nowhere.                                                  *)
LEMMA KeptInit == Init => Kept
<1> SUFFICES ASSUME Init  PROVE Kept
  OBVIOUS
<1>1. Tables
  BY DEF Init, Tables
<1>2. ASSUME NEW s \in Stations
      PROVE  hears[s] \subseteq 1 .. Messages[s] /\ Sound(Messages[s], hears[s], For(s), {})
  <2>1. PICK p, h, n : p = For(s) /\ h = hears[s] /\ n = Messages[s]
    OBVIOUS
  <2>2. /\ p.box = <<>> /\ p.pending = Nothing /\ p.waiting = <<>> /\ h = {}
        /\ p = [box |-> p.box, pending |-> p.pending, waiting |-> p.waiting, fate |-> p.fate]
        /\ p.fate = [m \in 1 .. n |-> "unsent"]
    BY <2>1 DEF Init, For
  <2>3. "unsent" \in Fates /\ Nothing \in Pendings(n) /\ <<>> \in Seq(1 .. n)
    BY DEF Fates, Pendings
  <2>4. p.fate \in [1 .. n -> Fates]
    BY <2>2, <2>3
  <2>5. p \in Mail(n)
    BY <2>2, <2>3, <2>4 DEF Mail
  <2>6. IsInjective(<<>>) /\ Len(<<>>) = 0 /\ ToSet(<<>>) = {}
    BY DEF IsInjective, ToSet
  <2>7. PerStation \in Nat /\ MaxWaiting \in Nat
    BY AprsMailAssumption
  <2>8. ASSUME NEW m \in 1 .. n  PROVE Placed(h, p, m)
    <3>1. p.fate[m] = "unsent"
      BY <2>2
    <3>2. p.pending.message = 0 /\ m # 0
      <4>1. p.pending.message = 0
        BY <2>2 DEF Nothing
      <4>2. m # 0
        OBVIOUS
      <4> QED  BY <4>1, <4>2
    <3>3. m \notin ToSet(p.box) /\ m \notin ToSet(p.waiting) /\ m # p.pending.message
      BY <2>2, <2>6, <3>2
    <3> QED  BY <3>1, <3>3 DEF Placed
  <2>9. Len(p.box) <= PerStation /\ Len(p.waiting) <= MaxWaiting
    BY <2>2, <2>6, <2>7
  <2>10. Sound(n, h, p, {})
    BY <2>2, <2>5, <2>6, <2>8, <2>9 DEF Sound
  <2> QED  BY <2>1, <2>2, <2>10
<1>3. MailInv
  BY <1>1, <1>2 DEF MailInv
<1>4. Stored(box) = {}
  <2>1. \A s \in Stations : Len(box[s]) = 0
    BY DEF Init
  <2> QED  BY <2>1 DEF Stored
<1>5. Held = Cardinality(Stored(box))
  BY DEF Held, Stored
<1>6. Held = 0
  BY <1>4, <1>5, FS_EmptySet
<1> QED  BY <1>3, <1>6, AprsMailAssumption DEF Kept

LEMMA KeptStep ==
  ASSUME Kept, [Next]_vars
  PROVE  Kept'
<1>1. ASSUME NEW s \in Stations, NEW room \in BOOLEAN, Direct(s, room) \/ TickAprs(s, room)
      PROVE  Kept'
  BY <1>1, DirectKept, TickKept
<1>2. ASSUME NEW s \in Stations, NEW m \in 1 .. Messages[s], NEW room \in BOOLEAN,
             OnAprsAck(s, m, room)
      PROVE  Kept'
  BY <1>2, AckKept
<1>3. ASSUME NEW s \in Stations, OfferMailbox(s) \/ MailExpires(s) \/ Hears(s)
      PROVE  Kept'
  BY <1>3, OfferKept, ExpiresKept, HearsKept
<1>4. ASSUME NEW s \in Stations, Hello(s)
      PROVE  Kept'
  <2>1. Flush(s) /\ hears' = hears
    BY <1>4 DEF Hello
  <2> QED  BY <2>1, FlushKept
<1>5. ASSUME NEW s \in Stations, Leave(s)
      PROVE  Kept'
  BY <1>5, SameKept DEF Leave
<1>6. ASSUME NEW members \in SUBSET Radios, NEW rooms \in SUBSET members,
             ToChannel(members, rooms)
      PROVE  Kept'
  BY <1>6, ToChannelKept
<1>7. ASSUME NEW mode \in {"on", "held", "off"}, Transmitter(mode)
      PROVE  Kept'
  BY <1>7, SameKept DEF Transmitter
<1>8. ASSUME NEW s \in Speakers, NEW id \in 0 .. Lines[s], Asks(s, id)
      PROVE  Kept'
  BY <1>8, SameKept DEF Asks
<1>9. ASSUME NEW s \in Speakers, NEW id \in 0 .. Lines[s], Chat(s, id)
      PROVE  Kept'
  <2>1. s \in Stations
    BY AprsMailAssumption
  <2>2. hears' = hears /\ (UNCHANGED outbound \/ Flush(s))
    BY <1>9 DEF Chat
  <2> QED  BY <2>1, <2>2, SameKept, FlushKept
<1>10. CASE ExpireMsgids \/ Tick
  BY <1>10, SameKept DEF ExpireMsgids, Tick
<1>11. CASE UNCHANGED vars
  <2>1. UNCHANGED outbound /\ hears' = hears
    BY <1>11 DEF vars, outbound
  <2> QED  BY <2>1, SameKept
<1> QED  BY <1>1, <1>2, <1>3, <1>4, <1>5, <1>6, <1>7, <1>8, <1>9, <1>10, <1>11 DEF Next

-----------------------------------------------------------------------------
(* The lines of the radios.  What is remembered is the latest of what was   *)
(* taken up; what is not is too old, or has as many others after it as the  *)
(* table has room for.                                                      *)
Forgotten(i) == now - heeded[i].at >= MsgidTtl \/ Len(heeded) - i >= MsgidMax

LinesInv ==
  /\ now \in Nat /\ heeded \in Seq(Keys)
  /\ \A i \in 1 .. Len(heeded) : heeded[i].at <= now
  /\ \A i, j \in 1 .. Len(heeded) : i < j => heeded[i].at <= heeded[j].at
  /\ seen \in SUBSET (1 .. Len(heeded)) /\ Cardinality(seen) <= MsgidMax
  /\ \A i \in seen, j \in 1 .. Len(heeded) : i < j => j \in seen
  /\ \A i \in (1 .. Len(heeded)) \ seen : Forgotten(i)
  /\ ShownOnce

LEMMA LinesFields ==
  ASSUME LinesInv
  PROVE  /\ Len(heeded) \in Nat /\ DOMAIN heeded = 1 .. Len(heeded)
         /\ \A i \in 1 .. Len(heeded) :
              heeded[i] \in Keys /\ heeded[i].at \in Nat /\ heeded[i].id \in Nat
         /\ IsFiniteSet(seen) /\ Cardinality(seen) \in Nat
         /\ MsgidTtl \in Nat /\ MsgidMax \in Nat /\ MsgidMax > 0
<1>1. Len(heeded) \in Nat /\ DOMAIN heeded = 1 .. Len(heeded) /\ heeded \in Seq(Keys)
  BY DEF LinesInv
<1>2. \A i \in 1 .. Len(heeded) : heeded[i] \in Keys
  BY <1>1
<1>3. IsFiniteSet(1 .. Len(heeded))
  BY <1>1, FS_Interval
<1>4. IsFiniteSet(seen) /\ Cardinality(seen) \in Nat
  BY <1>3, FS_Subset, FS_CardinalityType DEF LinesInv
<1>5. MsgidTtl \in Nat /\ MsgidMax \in Nat /\ MsgidMax > 0
  BY AprsMailAssumption
<1>6. \A x \in Keys : x.at \in Nat /\ x.id \in Nat
  BY DEF Keys
<1>7. \A i \in 1 .. Len(heeded) : heeded[i].at \in Nat /\ heeded[i].id \in Nat
  BY <1>2, <1>6
<1> QED  BY <1>1, <1>2, <1>4, <1>5, <1>7

LEMMA LinesSame ==
  ASSUME LinesInv, UNCHANGED inbound
  PROVE  LinesInv'
BY DEF LinesInv, inbound, Forgotten, ShownOnce

(* As the clock goes on, what was forgotten stays so.                       *)
LEMMA TickLines ==
  ASSUME LinesInv, Tick
  PROVE  LinesInv'
<1>1. now' = now + 1 /\ UNCHANGED <<heeded, seen>> /\ now \in Nat
  BY DEF Tick, LinesInv
<1>2. \A i \in 1 .. Len(heeded) : heeded'[i].at <= now'
  BY <1>1, LinesFields DEF LinesInv
<1>3. \A i \in (1 .. Len(heeded)) \ seen : Forgotten(i)'
  BY <1>1, LinesFields DEF LinesInv, Forgotten
<1>4. ShownOnce'
  BY <1>1 DEF LinesInv, ShownOnce
<1> QED  BY <1>1, <1>2, <1>3, <1>4 DEF LinesInv

(* The table without what is too old is still the latest.                   *)
LEMMA FreshIsLatest ==
  ASSUME LinesInv
  PROVE  /\ Fresh \in SUBSET seen /\ IsFiniteSet(Fresh)
         /\ Cardinality(Fresh) <= MsgidMax /\ Cardinality(Fresh) \in Nat
         /\ \A i \in Fresh, j \in 1 .. Len(heeded) : i < j => j \in Fresh
         /\ \A i \in (1 .. Len(heeded)) \ Fresh : Forgotten(i)
<1>1. Fresh \in SUBSET seen
  BY DEF Fresh
<1>2. /\ IsFiniteSet(Fresh) /\ Cardinality(Fresh) \in Nat
      /\ Cardinality(Fresh) <= Cardinality(seen)
  BY <1>1, LinesFields, FS_Subset, FS_CardinalityType
<1>3. Cardinality(Fresh) <= MsgidMax
  BY <1>2, LinesFields DEF LinesInv
<1>4. ASSUME NEW i \in Fresh, NEW j \in 1 .. Len(heeded), i < j
      PROVE  j \in Fresh
  <2>1. i \in 1 .. Len(heeded) /\ i \in seen /\ now - heeded[i].at < MsgidTtl
    BY DEF Fresh, LinesInv
  <2>2. j \in seen /\ heeded[i].at <= heeded[j].at
    BY <1>4, <2>1 DEF LinesInv
  <2>3. now \in Nat /\ heeded[i].at \in Nat /\ heeded[j].at \in Nat /\ MsgidTtl \in Nat
    BY <2>1, LinesFields DEF LinesInv
  <2> QED  BY <2>1, <2>2, <2>3 DEF Fresh
<1>5. ASSUME NEW i \in (1 .. Len(heeded)) \ Fresh
      PROVE  Forgotten(i)
  <2>1. CASE i \in seen
    BY <2>1, LinesFields DEF Fresh, Forgotten, LinesInv
  <2>2. CASE i \notin seen
    BY <2>2 DEF LinesInv
  <2> QED  BY <2>1, <2>2
<1> QED  BY <1>1, <1>2, <1>3, <1>4, <1>5

LEMMA ExpireLines ==
  ASSUME LinesInv, ExpireMsgids
  PROVE  LinesInv'
<1>1. seen' = Fresh /\ UNCHANGED <<now, heeded>>
  BY DEF ExpireMsgids
<1>2. \A i \in (1 .. Len(heeded)) \ Fresh : Forgotten(i)'
  BY <1>1, FreshIsLatest DEF Forgotten
<1> QED  BY <1>1, <1>2, FreshIsLatest DEF LinesInv, ShownOnce

(* A line is remembered: if the oldest made room for it, as many are        *)
(* remembered after that one as the table holds.                            *)
LEMMA RememberLines ==
  ASSUME LinesInv, NEW s \in Speakers, NEW id \in Nat,
         ~Duplicate(s, id), RememberMsgid(s, id), now' = now
  PROVE  LinesInv'
<1> DEFINE n == Len(heeded)
           e == [from |-> s, id |-> id, at |-> now]
           kept == IF Cardinality(Fresh) < MsgidMax THEN Fresh ELSE Fresh \ {Min(Fresh)}
<1>1. heeded' = Append(heeded, e) /\ seen' = kept \cup {n + 1}
  BY DEF RememberMsgid, Remembers
<1>2. /\ n \in Nat /\ now \in Nat /\ heeded \in Seq(Keys) /\ e \in Keys
      /\ e.from = s /\ e.id = id /\ e.at = now
  BY LinesFields DEF LinesInv, Keys
<1> HIDE DEF e
<1>3. /\ heeded' \in Seq(Keys) /\ Len(heeded') = n + 1
      /\ \A i \in 1 .. n : heeded'[i] = heeded[i]
      /\ heeded'[n + 1] = e
  BY <1>1, <1>2
<1>4. /\ Fresh \in SUBSET (1 .. n) /\ IsFiniteSet(Fresh)
      /\ Cardinality(Fresh) <= MsgidMax /\ Cardinality(Fresh) \in Nat
      /\ \A i \in Fresh, j \in 1 .. n : i < j => j \in Fresh
      /\ \A i \in (1 .. n) \ Fresh : Forgotten(i)
      /\ MsgidMax \in Nat /\ MsgidMax > 0 /\ MsgidTtl \in Nat
  BY FreshIsLatest, LinesFields DEF LinesInv
<1>5. /\ kept \in SUBSET Fresh /\ IsFiniteSet(kept)
      /\ Cardinality(kept) \in Nat /\ Cardinality(kept) < MsgidMax
      /\ \A i \in kept, j \in 1 .. n : i < j => j \in kept
      /\ \A i \in Fresh \ kept : n + 1 - i >= MsgidMax
  <2>1. CASE Cardinality(Fresh) < MsgidMax
    BY <1>4, <2>1
  <2>2. CASE ~(Cardinality(Fresh) < MsgidMax)
    <3>1. Cardinality(Fresh) = MsgidMax /\ kept = Fresh \ {Min(Fresh)}
      BY <1>4, <2>2
    <3>2. Fresh # {}
      BY <1>4, <3>1, FS_EmptySet
    <3>3. Min(Fresh) \in Fresh /\ \A y \in Fresh : Min(Fresh) <= y
      <4>1. Fresh \in SUBSET Nat
        BY <1>4
      <4>2. PICK x \in Fresh : \A y \in Fresh : x <= y
        BY <3>2, <4>1, NatLeast
      <4> QED  BY <4>2 DEF Min
    <3>4. PICK m : m = Min(Fresh)
      OBVIOUS
    <3>5. m \in Fresh /\ m \in 1 .. n /\ (\A y \in Fresh : m <= y) /\ kept = Fresh \ {m}
      BY <1>4, <3>1, <3>3, <3>4
    <3>6. IsFiniteSet(kept) /\ Cardinality(kept) = MsgidMax - 1
      BY <1>4, <3>1, <3>5, FS_RemoveElement
    <3>7. Fresh \in SUBSET (m .. n)
      BY <1>4, <3>5
    <3>8. IsFiniteSet(m .. n) /\ Cardinality(m .. n) = n - m + 1
      BY <1>2, <3>5, FS_Interval
    <3>9. MsgidMax <= n - m + 1
      BY <3>1, <3>7, <3>8, FS_Subset
    <3>10. \A i \in kept, j \in 1 .. n : i < j => j \in kept
      BY <1>4, <3>5
    <3> HIDE DEF kept
    <3>11. \A i \in Fresh \ kept : n + 1 - i >= MsgidMax
      BY <1>2, <1>4, <3>5, <3>9
    <3> QED  BY <1>4, <3>5, <3>6, <3>10, <3>11
  <2> QED  BY <2>1, <2>2
<1> HIDE DEF kept
<1>6. seen' \in SUBSET (1 .. Len(heeded')) /\ Cardinality(seen') <= MsgidMax
  <2>1. n + 1 \notin kept
    BY <1>2, <1>4, <1>5
  <2>2. Cardinality(seen') = Cardinality(kept) + 1
    BY <1>1, <1>5, <2>1, FS_AddElement
  <2>3. kept \in SUBSET (1 .. n) /\ (1 .. n) \in SUBSET (1 .. n + 1) /\ n + 1 \in 1 .. n + 1
    BY <1>2, <1>4, <1>5
  <2>4. seen' \in SUBSET (1 .. n + 1)
    <3> HIDE DEF n
    <3> QED  BY <1>1, <2>3
  <2> QED  BY <1>3, <1>4, <1>5, <2>2, <2>4
<1>7. \A i \in seen', j \in 1 .. Len(heeded') : i < j => j \in seen'
  BY <1>1, <1>2, <1>3, <1>4, <1>5
<1>8. ASSUME NEW i \in (1 .. Len(heeded')) \ seen'
      PROVE  Forgotten(i)'
  <2>1. i \in 1 .. n /\ i \notin kept /\ heeded'[i] = heeded[i] /\ Len(heeded') = n + 1
    BY <1>1, <1>2, <1>3
  <2>2. CASE i \in Fresh
    BY <1>5, <2>1, <2>2 DEF Forgotten
  <2>3. CASE i \notin Fresh
    <3>1. Forgotten(i)
      BY <1>4, <2>1, <2>3
    <3> QED  BY <1>2, <1>4, <2>1, <3>1 DEF Forgotten
  <2> QED  BY <2>2, <2>3
<1>9. /\ \A i \in 1 .. Len(heeded') : heeded'[i].at <= now'
      /\ \A i, j \in 1 .. Len(heeded') : i < j => heeded'[i].at <= heeded'[j].at
  <2>1. \A i \in 1 .. n : heeded'[i].at <= now
    BY <1>3 DEF LinesInv
  <2>2. \A i, j \in 1 .. n : i < j => heeded'[i].at <= heeded'[j].at
    BY <1>3 DEF LinesInv
  <2>3. \A i \in 1 .. n + 1 : i \in 1 .. n \/ i = n + 1
    BY <1>2
  <2> QED  BY <1>2, <1>3, <2>1, <2>2, <2>3
<1>10. ShownOnce'
  <2>1. SUFFICES ASSUME NEW i \in 1 .. n + 1, NEW j \in 1 .. n + 1, i < j,
                        heeded'[i].from = heeded'[j].from, heeded'[i].id = heeded'[j].id
                 PROVE  heeded'[j].at - heeded'[i].at >= MsgidTtl \/ j - i > MsgidMax
    BY <1>3 DEF ShownOnce
  <2>2. i \in 1 .. n /\ heeded'[i] = heeded[i]
    BY <1>2, <1>3, <2>1
  <2>3. CASE j \in 1 .. n
    <3>1. heeded'[j] = heeded[j] /\ DOMAIN heeded = 1 .. n
      BY <1>3, <2>3, LinesFields
    <3> QED  BY <2>1, <2>2, <2>3, <3>1 DEF LinesInv, ShownOnce
  <2>4. CASE j = n + 1
    <3>1. heeded[i].from = s /\ heeded[i].id = id
      BY <1>2, <1>3, <2>1, <2>2, <2>4
    <3>2. i \notin Fresh
      BY <3>1 DEF Duplicate
    <3>3. Forgotten(i)
      BY <1>4, <2>2, <3>2
    <3>4. heeded'[j].at = now
      BY <1>2, <1>3, <2>4
    <3> QED  BY <1>2, <1>4, <2>2, <2>4, <3>3, <3>4 DEF Forgotten
  <2> QED  BY <1>2, <2>3, <2>4
<1> QED  BY <1>2, <1>3, <1>6, <1>7, <1>8, <1>9, <1>10 DEF LinesInv

LEMMA LinesStep ==
  ASSUME LinesInv, [Next]_vars
  PROVE  LinesInv'
<1>1. ASSUME NEW s \in Stations, NEW room \in BOOLEAN, Direct(s, room) \/ TickAprs(s, room)
      PROVE  LinesInv'
  BY <1>1, LinesSame DEF Direct, TickAprs
<1>2. ASSUME NEW s \in Stations, NEW m \in 1 .. Messages[s], NEW room \in BOOLEAN,
             OnAprsAck(s, m, room)
      PROVE  LinesInv'
  BY <1>2, LinesSame DEF OnAprsAck
<1>3. ASSUME NEW s \in Stations,
             OfferMailbox(s) \/ MailExpires(s) \/ Hears(s) \/ Hello(s) \/ Leave(s)
      PROVE  LinesInv'
  BY <1>3, LinesSame DEF OfferMailbox, MailExpires, Hears, Hello, Leave
<1>4. ASSUME NEW members \in SUBSET Radios, NEW rooms \in SUBSET members,
             ToChannel(members, rooms)
      PROVE  LinesInv'
  BY <1>4, LinesSame DEF ToChannel
<1>5. ASSUME NEW mode \in {"on", "held", "off"}, Transmitter(mode)
      PROVE  LinesInv'
  BY <1>5, LinesSame DEF Transmitter
<1>6. ASSUME NEW s \in Speakers, NEW id \in 0 .. Lines[s], Asks(s, id) \/ Chat(s, id)
      PROVE  LinesInv'
  <2>1. TakesUp(s, id) /\ now' = now /\ id \in Nat
    BY <1>6, AprsMailAssumption DEF Asks, Chat
  <2>2. CASE UNCHANGED <<heeded, seen>>
    BY <2>1, <2>2, LinesSame DEF inbound
  <2>3. CASE RememberMsgid(s, id)
    BY <2>1, <2>3, RememberLines DEF TakesUp
  <2> QED  BY <2>1, <2>2, <2>3 DEF TakesUp
<1>7. CASE ExpireMsgids
  BY <1>7, ExpireLines
<1>8. CASE Tick
  BY <1>8, TickLines
<1>9. CASE UNCHANGED vars
  BY <1>9, LinesSame DEF vars, inbound
<1> QED  BY <1>1, <1>2, <1>3, <1>4, <1>5, <1>6, <1>7, <1>8, <1>9 DEF Next

LEMMA LinesInit == Init => LinesInv
<1> SUFFICES ASSUME Init  PROVE LinesInv
  OBVIOUS
<1>1. now = 0 /\ heeded = <<>> /\ seen = {} /\ Len(heeded) = 0
  BY DEF Init
<1>2. Cardinality(seen) = 0
  BY <1>1, FS_EmptySet
<1>3. \A i \in 1 .. Len(heeded) : FALSE
  BY <1>1
<1>4. ShownOnce
  BY <1>1 DEF ShownOnce
<1> QED  BY <1>1, <1>2, <1>3, <1>4, AprsMailAssumption DEF LinesInv

-----------------------------------------------------------------------------
(* The whole, and what follows from it.                                     *)
AprsMailInv ==
  /\ up \in {"on", "held", "off"} /\ present \subseteq Stations
  /\ Kept /\ LinesInv

(* The transmitter, and who is here.                                        *)
LEMMA RadioStep ==
  ASSUME up \in {"on", "held", "off"}, present \subseteq Stations, [Next]_vars
  PROVE  up' \in {"on", "held", "off"} /\ present' \subseteq Stations
<1>1. ASSUME NEW s \in Stations, NEW room \in BOOLEAN, Direct(s, room) \/ TickAprs(s, room)
      PROVE  UNCHANGED radio
  BY <1>1 DEF Direct, TickAprs
<1>2. ASSUME NEW s \in Stations, NEW m \in 1 .. Messages[s], NEW room \in BOOLEAN,
             OnAprsAck(s, m, room)
      PROVE  UNCHANGED radio
  BY <1>2 DEF OnAprsAck
<1>3. ASSUME NEW s \in Stations, OfferMailbox(s) \/ MailExpires(s) \/ Hears(s)
      PROVE  UNCHANGED radio
  BY <1>3 DEF OfferMailbox, MailExpires, Hears
<1>4. ASSUME NEW members \in SUBSET Radios, NEW rooms \in SUBSET members,
             ToChannel(members, rooms)
      PROVE  UNCHANGED radio
  BY <1>4 DEF ToChannel
<1>5. ASSUME NEW s \in Speakers, NEW id \in 0 .. Lines[s], Asks(s, id)
      PROVE  UNCHANGED radio
  BY <1>5 DEF Asks
<1>6. CASE ExpireMsgids \/ Tick
  BY <1>6 DEF ExpireMsgids, Tick, radio
<1>7. ASSUME NEW s \in Stations, Hello(s) \/ Leave(s)
      PROVE  up' = up /\ (present' = present \cup {s} \/ present' = present \ {s})
  BY <1>7 DEF Hello, Leave
<1>8. ASSUME NEW s \in Speakers, NEW id \in 0 .. Lines[s], Chat(s, id)
      PROVE  up' = up /\ present' = present \cup {s} /\ s \in Stations
  BY <1>8, AprsMailAssumption DEF Chat
<1>9. ASSUME NEW mode \in {"on", "held", "off"}, Transmitter(mode)
      PROVE  up' = mode /\ present' = present
  BY <1>9 DEF Transmitter
<1>10. CASE UNCHANGED vars
  BY <1>10 DEF vars
<1>11. CASE UNCHANGED radio
  BY <1>11 DEF radio
<1> QED  BY <1>1, <1>2, <1>3, <1>4, <1>5, <1>6, <1>7, <1>8, <1>9, <1>10, <1>11 DEF Next

(* The invariant of every behaviour: what is queued for each station is     *)
(* sound, the mailbox keeps to its total, and the lines remembered are the  *)
(* latest, up to what is too old or too many ago.                           *)
THEOREM AprsMailInvariant == Spec => []AprsMailInv
<1>1. Init => AprsMailInv
  BY KeptInit, LinesInit DEF Init, AprsMailInv
<1>2. AprsMailInv /\ [Next]_vars => AprsMailInv'
  <2> SUFFICES ASSUME AprsMailInv, [Next]_vars  PROVE AprsMailInv'
    OBVIOUS
  <2>1. Kept' /\ LinesInv'
    BY KeptStep, LinesStep DEF AprsMailInv
  <2>2. up' \in {"on", "held", "off"} /\ present' \subseteq Stations
    BY RadioStep DEF AprsMailInv
  <2> QED  BY <2>1, <2>2 DEF AprsMailInv
<1> QED  BY <1>1, <1>2, PTL DEF Spec

(* The mailbox never holds more than mailbox_per_station and mailbox_total, *)
(* no more wait behind a message in flight than may, none is sent more      *)
(* often than max_retries, and the memory of lines keeps to its size.       *)
THEOREM MailTyped == Spec => []TypeOK
<1>1. AprsMailInv => TypeOK
  <2> SUFFICES ASSUME AprsMailInv  PROVE TypeOK
    OBVIOUS
  <2>1. ASSUME NEW s \in Stations
        PROVE  /\ fate[s] \in [1 .. Messages[s] -> Fates]
               /\ box[s] \in Seq(1 .. Messages[s]) /\ Len(box[s]) <= PerStation
               /\ pending[s] = Nothing \/ (pending[s].message \in 1 .. Messages[s]
                                            /\ pending[s].attempts \in 1 .. MaxAttempts)
               /\ waiting[s] \in Seq(1 .. Messages[s]) /\ Len(waiting[s]) <= MaxWaiting
               /\ hears[s] \subseteq 1 .. Messages[s]
    <3>1. MailInv
      BY DEF AprsMailInv, Kept
    <3>2. PICK p, h, n : p = For(s) /\ h = hears[s] /\ n = Messages[s]
      OBVIOUS
    <3>3. Sound(n, h, p, {}) /\ n \in Nat /\ h \subseteq 1 .. n
      BY <3>1, <3>2, MailFields
    <3>4. p.box = box[s] /\ p.pending = pending[s] /\ p.waiting = waiting[s] /\ p.fate = fate[s]
      BY <3>2 DEF For
    <3>5. /\ p.box \in Seq(1 .. n) /\ p.waiting \in Seq(1 .. n)
          /\ p.pending \in Pendings(n) /\ p.fate \in [1 .. n -> Fates]
          /\ Len(p.box) <= PerStation /\ Len(p.waiting) <= MaxWaiting
      BY <3>3, SoundFields
    <3>6. p.pending = Nothing \/ (p.pending.message \in 1 .. n /\ p.pending.attempts \in 1 .. MaxAttempts)
      BY <3>5 DEF Pendings
    <3> QED  BY <3>2, <3>3, <3>4, <3>5, <3>6
  <2> QED  BY <2>1 DEF TypeOK, AprsMailInv, Kept, LinesInv
<1> QED  BY <1>1, AprsMailInvariant, PTL

(* A message for a station is held, waits or is in flight in one place and  *)
(* once, or has ended, and then nothing sends it again; what counts as      *)
(* acknowledged the station has heard.                                      *)
THEOREM FatesAreKept == Spec => []FatesAreTrue
<1>1. AprsMailInv => FatesAreTrue
  <2> SUFFICES ASSUME AprsMailInv, NEW s \in Stations
               PROVE  LET kept == box[s] \o waiting[s]
                                    \o (IF pending[s] = Nothing THEN <<>> ELSE <<pending[s].message>>)
                      IN  /\ IsInjective(kept)
                          /\ \A m \in 1 .. Messages[s] :
                               /\ fate[s][m] = "held" <=> m \in ToSet(box[s])
                               /\ fate[s][m] = "waiting" <=> m \in ToSet(waiting[s])
                               /\ fate[s][m] = "in flight" <=> m = pending[s].message
                               /\ fate[s][m] = "acked" => m \in hears[s]
    BY DEF FatesAreTrue
  <2>1. PICK p, h, n : p = For(s) /\ h = hears[s] /\ n = Messages[s]
    OBVIOUS
  <2>2. Sound(n, h, p, {}) /\ n \in Nat
    BY <2>1, MailFields DEF AprsMailInv, Kept
  <2>3. p.box = box[s] /\ p.pending = pending[s] /\ p.waiting = waiting[s] /\ p.fate = fate[s]
    BY <2>1 DEF For
  <2>4. \A m \in 1 .. n : Placed(h, p, m)
    BY <2>2 DEF Sound
  <2>5. PICK q, w, l : /\ q = p.box /\ w = p.waiting
                       /\ l = IF p.pending = Nothing THEN <<>> ELSE <<p.pending.message>>
    OBVIOUS
  <2>6. q \in Seq(1 .. n) /\ IsInjective(q) /\ w \in Seq(1 .. n) /\ IsInjective(w)
    BY <2>2, <2>5, SoundFields
  <2>7. ToSet(q) \subseteq 1 .. n /\ ToSet(w) \subseteq 1 .. n
    BY <2>6, ElementsIn
  <2>8. l \in Seq(1 .. n) /\ IsInjective(l) /\ ToSet(l) \subseteq {p.pending.message}
    <3>1. CASE p.pending = Nothing
      BY <2>5, <3>1 DEF IsInjective, ToSet
    <3>2. CASE p.pending # Nothing
      <4>1. PICK x : x = p.pending.message
        OBVIOUS
      <4>2. x \in 1 .. n
        BY <2>2, <3>2, <4>1, SoundFields DEF Pendings
      <4>3. l = <<x>> /\ DOMAIN l = {1}
        BY <2>5, <3>2, <4>1
      <4> QED  BY <4>1, <4>2, <4>3 DEF IsInjective, ToSet
    <3> QED  BY <3>1, <3>2
  <2>9. \A x \in ToSet(q) : x \notin ToSet(w)
    <3>1. \A x \in 1 .. n : ~ (x \in ToSet(q) /\ x \in ToSet(w))
      BY <2>4, <2>5 DEF Placed
    <3> QED  BY <2>7, <3>1
  <2>10. PICK c : c = q \o w
    OBVIOUS
  <2>11. c \in Seq(1 .. n) /\ IsInjective(c) /\ ToSet(c) \subseteq ToSet(q) \cup ToSet(w)
    BY <2>6, <2>9, <2>10, ConcatOnce
  <2>12. \A x \in ToSet(c) : x \notin ToSet(l)
    <3>1. \A x \in 1 .. n : x = p.pending.message => x \notin ToSet(q) /\ x \notin ToSet(w)
      BY <2>4, <2>5 DEF Placed
    <3> QED  BY <2>7, <2>8, <2>11, <3>1
  <2>13. IsInjective(c \o l)
    BY <2>8, <2>11, <2>12, ConcatOnce
  <2>14. IsInjective(box[s] \o waiting[s]
                       \o (IF pending[s] = Nothing THEN <<>> ELSE <<pending[s].message>>))
    BY <2>3, <2>5, <2>10, <2>13
  <2> QED  BY <2>1, <2>3, <2>4, <2>14 DEF Placed
<1> QED  BY <1>1, AprsMailInvariant, PTL

(* A line with a msgid that comes again is taken up again only when the     *)
(* first is as old as APRS_MSGID_TTL, or when as many others as             *)
(* APRS_MSGID_MAX have been taken up since: for any number of radios that   *)
(* share the table, any times and any order.                                *)
THEOREM LinesAreShownOnce == Spec => []ShownOnce
<1>1. AprsMailInv => ShownOnce
  BY DEF AprsMailInv, LinesInv
<1> QED  BY <1>1, AprsMailInvariant, PTL
=============================================================================
