--------------------------- MODULE ChannelsProofs ---------------------------
(***************************************************************************)
(* What TLAPS proves of the server's registry of users and channels and of *)
(* the session layer's table of stations, for any clients, stations,       *)
(* channels, limits and MODE lines.                                        *)
(***************************************************************************)
EXTENDS Channels, FiniteSetTheorems, WellFoundedInduction, TLAPS

-----------------------------------------------------------------------------
(* A set of natural numbers that is not empty has a least element.          *)
LEMMA NatLeast ==
  ASSUME NEW T \in SUBSET Nat, T # {}
  PROVE  \E x \in T : \A y \in T : x <= y
<1> DEFINE R == OpToRel(<, Nat)
<1>1. IsWellFoundedOn(R, Nat)
  BY NatLessThanWellFounded
<1>2. \A x, y \in Nat : x < y => <<x, y>> \in R
  BY DEF OpToRel
<1> HIDE DEF R
<1>3. PICK x \in T : \A y \in T : ~ (<<y, x>> \in R)
  BY <1>1, WFMin
<1>4. ASSUME NEW y \in T  PROVE x <= y
  <2>1. x \in Nat /\ y \in Nat /\ ~ (y < x)
    BY <1>2, <1>3
  <2> QED  BY <2>1
<1> QED  BY <1>4

(* Induction over the naturals.                                             *)
LEMMA NatByInduction ==
  ASSUME NEW T \in SUBSET Nat, 0 \in T, \A n \in T : n + 1 \in T
  PROVE  T = Nat
<1> SUFFICES ASSUME Nat \ T # {}  PROVE FALSE
  OBVIOUS
<1>1. PICK x \in Nat \ T : \A y \in Nat \ T : x <= y
  BY NatLeast
<1>2. x # 0 /\ x - 1 \in Nat
  BY <1>1
<1>3. x - 1 \in T
  BY <1>1, <1>2
<1> QED  BY <1>2, <1>3

-----------------------------------------------------------------------------
Everyone == Clients \cup Stations

-----------------------------------------------------------------------------
(* Tables.                                                                  *)
(* A table without some of its keys.                                        *)
LEMMA LessThose ==
  ASSUME NEW f, NEW X
  PROVE  /\ DOMAIN Less(f, X) = DOMAIN f \ X
         /\ \A y \in DOMAIN f \ X : Less(f, X)[y] = f[y]
BY DEF Less, Restrict

(* The line of stations: the quietest first, each once.                     *)
IsLine(q) == q \in Seq(Stations) /\ IsInjective(q)

LEMMA LineGrows ==
  ASSUME NEW q, IsLine(q), NEW x \in Stations \ ToSet(q)
  PROVE  IsLine(Append(q, x)) /\ ToSet(Append(q, x)) = ToSet(q) \cup {x}
<1> DEFINE a == Append(q, x)
           n == Len(q)
<1>1. a \in Seq(Stations) /\ n \in Nat /\ DOMAIN q = 1 .. n /\ DOMAIN a = 1 .. n + 1
  BY DEF IsLine
<1>2. (\A i \in 1 .. n : a[i] = q[i]) /\ a[n + 1] = x
  BY DEF IsLine
<1>3. \A i \in 1 .. n : a[i] # x
  BY <1>1, <1>2 DEF ToSet
<1> HIDE DEF a, n
<1>4. \A i \in 1 .. n + 1 : i \in 1 .. n \/ i = n + 1
  BY <1>1
<1>5. IsInjective(a)
  <2> SUFFICES ASSUME NEW i \in 1 .. n + 1, NEW j \in 1 .. n + 1, a[i] = a[j]  PROVE i = j
    BY <1>1 DEF IsInjective
  <2> QED  BY <1>1, <1>2, <1>3, <1>4 DEF IsInjective, IsLine
<1>6. ToSet(a) = ToSet(q) \cup {x}
  <2>1. \A i \in 1 .. n + 1 : a[i] \in ToSet(q) \cup {x}
    BY <1>1, <1>2, <1>4 DEF ToSet
  <2>2. \A i \in 1 .. n : q[i] \in ToSet(a)
    BY <1>1, <1>2 DEF ToSet
  <2>3. x \in ToSet(a)
    BY <1>1, <1>2 DEF ToSet
  <2> QED  BY <1>1, <2>1, <2>2, <2>3 DEF ToSet
<1> QED  BY <1>1, <1>5, <1>6 DEF a, IsLine

(* Stations step out of the line; the others keep their order.              *)
LEMMA LineShrinks ==
  ASSUME NEW q, IsLine(q), NEW X
  PROVE  IsLine(Without(q, X)) /\ ToSet(Without(q, X)) = ToSet(q) \ X
<1> DEFINE N == Len(q)
           Step(g, n) == IF n = 0 THEN <<>>
                         ELSE IF q[n] \in X THEN g[n - 1]
                         ELSE Append(g[n - 1], q[n])
           Keeps(g, n) == g = [i \in 0 .. n |-> Step(g, i)]
           Can(n) == \E g : Keeps(g, n)
           T == {n \in Nat : Can(n)}
<1>1. 0 \in T
  <2> DEFINE g == [i \in 0 .. 0 |-> <<>>]
  <2>1. Keeps(g, 0)
    OBVIOUS
  <2>2. Can(0)
    <3> HIDE DEF g, Keeps
    <3> QED  BY <2>1
  <2> HIDE DEF Can
  <2> QED  BY <2>2
<1>2. ASSUME NEW n \in T  PROVE n + 1 \in T
  <2>1. n \in Nat /\ Can(n)
    <3> HIDE DEF Can
    <3> QED  OBVIOUS
  <2>2. PICK g : Keeps(g, n)
    <3> HIDE DEF Keeps
    <3> QED  BY <2>1
  <2> DEFINE h == [i \in 0 .. n + 1 |-> IF i <= n THEN g[i] ELSE Step(g, n + 1)]
  <2>3. ASSUME NEW i \in 0 .. n + 1  PROVE h[i] = Step(h, i)
    <3>1. CASE i = 0
      BY <2>1, <2>2, <3>1
    <3>2. CASE i # 0
      <4>1. i - 1 \in 0 .. n /\ h[i - 1] = g[i - 1]
        BY <2>1, <3>2
      <4>2. h[i] = Step(g, i)
        <5>1. CASE i <= n
          <6>1. i \in 0 .. n /\ h[i] = g[i]
            BY <2>1, <5>1
          <6> HIDE DEF h
          <6>2. g[i] = Step(g, i)
            BY <2>2, <6>1
          <6> QED  BY <6>1, <6>2
        <5>2. CASE i = n + 1
          BY <2>1, <5>2
        <5> QED  BY <2>1, <5>1, <5>2
      <4> QED  BY <3>2, <4>1, <4>2
    <3> QED  BY <3>1, <3>2
  <2>4. Keeps(h, n + 1)
    BY <2>3
  <2>5. Can(n + 1)
    <3> HIDE DEF h, Keeps
    <3> QED  BY <2>4
  <2> HIDE DEF Can
  <2> QED  BY <2>1, <2>5
<1>3. N \in Nat /\ Can(N) /\ DOMAIN q = 1 .. N
  <2>1. T = Nat
    <3> HIDE DEF Can
    <3>1. T \in SUBSET Nat
      OBVIOUS
    <3> HIDE DEF T
    <3> QED  BY <1>1, <1>2, <3>1, NatByInduction
  <2> HIDE DEF Can
  <2> QED  BY <2>1 DEF IsLine
<1> DEFINE K == CHOOSE g : Keeps(g, N)
<1>4. Without(q, X) = K[N]
  BY DEF Without
<1>5. Keeps(K, N)
  <2> HIDE DEF Keeps
  <2> QED  BY <1>3
<1>6. /\ K[0] = <<>>
      /\ \A n \in 1 .. N : K[n] = IF q[n] \in X THEN K[n - 1] ELSE Append(K[n - 1], q[n])
  <2> HIDE DEF K
  <2>1. \A n \in 0 .. N : K[n] = Step(K, n)
    BY <1>5
  <2>2. \A n \in 1 .. N : n \in 0 .. N /\ n # 0
    BY <1>3
  <2> QED  BY <1>3, <2>1, <2>2
<1> HIDE DEF K
<1> DEFINE First(n) == {q[i] : i \in 1 .. n}
           Good(n) == IsLine(K[n]) /\ ToSet(K[n]) = First(n) \ X
           G == {n \in Nat : n <= N => Good(n)}
<1>7. 0 \in G
  <2>1. K[0] \in Seq(Stations) /\ DOMAIN K[0] = {}
    BY <1>6
  <2>2. Good(0)
    BY <2>1 DEF IsLine, IsInjective, ToSet
  <2> HIDE DEF Good
  <2> QED  BY <2>2
<1>8. ASSUME NEW n \in G  PROVE n + 1 \in G
  <2>0. n \in Nat /\ (n <= N => Good(n))
    <3> HIDE DEF Good
    <3> QED  OBVIOUS
  <2>1. ASSUME n + 1 <= N  PROVE Good(n + 1)
    <3> DEFINE k == K[n]
               x == q[n + 1]
    <3>1. /\ n + 1 \in 1 .. N /\ n <= N /\ x \in Stations
          /\ K[n + 1] = IF x \in X THEN k ELSE Append(k, x)
      BY <1>3, <1>6, <2>0, <2>1 DEF IsLine
    <3>2. IsLine(k) /\ ToSet(k) = First(n) \ X
      BY <2>0, <3>1
    <3>3. First(n + 1) = First(n) \cup {x}
      <4>1. \A i \in 1 .. n + 1 : i \in 1 .. n \/ i = n + 1
        BY <2>0
      <4>2. 1 .. n \subseteq 1 .. n + 1 /\ n + 1 \in 1 .. n + 1
        BY <2>0
      <4> QED  BY <4>1, <4>2
    <3>4. x \notin First(n)
      <4> SUFFICES ASSUME NEW i \in 1 .. n, q[i] = x  PROVE FALSE
        OBVIOUS
      <4>1. i \in DOMAIN q /\ n + 1 \in DOMAIN q /\ i # n + 1
        BY <1>3, <2>0, <3>1
      <4> QED  BY <4>1 DEF IsInjective, IsLine
    <3> HIDE DEF k, x, First
    <3>5. CASE x \in X
      BY <3>1, <3>2, <3>3, <3>5
    <3>6. CASE x \notin X
      <4>1. IsLine(Append(k, x)) /\ ToSet(Append(k, x)) = ToSet(k) \cup {x}
        BY <3>1, <3>2, <3>4, LineGrows
      <4> QED  BY <3>1, <3>2, <3>3, <3>6, <4>1
    <3> QED  BY <3>5, <3>6
  <2> HIDE DEF Good
  <2> QED  BY <2>0, <2>1
<1>9. Good(N)
  <2>1. G = Nat
    <3> HIDE DEF Good
    <3>1. G \in SUBSET Nat
      OBVIOUS
    <3> HIDE DEF G
    <3> QED  BY <1>7, <1>8, <3>1, NatByInduction
  <2> HIDE DEF Good
  <2> QED  BY <1>3, <2>1
<1>10. First(N) = ToSet(q)
  BY <1>3 DEF ToSet
<1> QED  BY <1>4, <1>9, <1>10

-----------------------------------------------------------------------------
(* What holds of the server in the middle of an event.  The registry:       *)
Fields == {"users", "chans", "peers", "heard", "removed", "evicted"}

IsChannel(r) ==
  /\ DOMAIN r = {"rf", "moderated", "locked", "key", "limit", "topic", "members"}
  /\ {r.rf, r.moderated, r.locked, r.key} \subseteq BOOLEAN
  /\ r.limit \in 0..1 /\ r.topic \in {"old", "new"}
  /\ \A u \in DOMAIN r.members : r.members[u] \in Flags

Registry(s) ==
  /\ DOMAIN s = Fields /\ s.evicted = {}
  /\ DOMAIN s.users \subseteq Everyone /\ \A u \in DOMAIN s.users : s.users[u] \in Users
  /\ Configured \subseteq DOMAIN s.chans /\ DOMAIN s.chans \subseteq Chans
  /\ \A c \in DOMAIN s.chans : IsChannel(s.chans[c])

(* who is where is kept twice, and agrees;                                  *)
Seats(s) ==
  /\ \A c \in DOMAIN s.chans : DOMAIN s.chans[c].members \subseteq DOMAIN s.users
  /\ \A u \in DOMAIN s.users : s.users[u].channels = {c \in DOMAIN s.chans : IsMember(s, u, c)}
  /\ \A u \in DOMAIN s.users \cap Clients :
       IsFiniteSet(s.users[u].channels) /\ Cardinality(s.users[u].channels) <= MaxChannels

(* but for the channels E, which are just being made, none of the users'    *)
(* own is empty;                                                            *)
NoneEmpty(s, E) ==
  \A c \in DOMAIN s.chans \ (Configured \cup E) : DOMAIN s.chans[c].members # {}

(* but for the users U, whose rights are still to be worked out again, who  *)
(* may operate on a bridge may by right.  What was given by hand there was  *)
(* given by a control operator: this is what makes it inductive, because it *)
(* is what RefreshPrivileges goes by.                                       *)
Earned(s, u, c) == s.users[u].oper \/ (u \in Operators[c] /\ s.users[u].identified)
Rights(s, given, U) ==
  \A c \in DOMAIN s.chans : s.chans[c].rf => \A u \in DOMAIN s.chans[c].members :
    /\ s.chans[c].members[u].opManual => <<u, c>> \in given
    /\ u \notin U /\ s.chans[c].members[u].op => Earned(s, u, c) \/ <<u, c>> \in given

Rooms(s, given, U, E) == Registry(s) /\ Seats(s) /\ NoneEmpty(s, E) /\ Rights(s, given, U)

LEMMA SameRooms ==
  ASSUME NEW s, NEW t, NEW given, NEW U, NEW E, Rooms(s, given, U, E),
         DOMAIN t = Fields, t.evicted = {}, t.users = s.users, t.chans = s.chans
  PROVE  Rooms(t, given, U, E)
BY DEF Rooms, Registry, Seats, NoneEmpty, Rights, Earned, IsMember

(* Somebody arrives, and is nowhere yet.                                    *)
LEMMA ArriveKeeps ==
  ASSUME NEW s, NEW given, Rooms(s, given, {}, {}),
         NEW u \in Everyone \ DOMAIN s.users, NEW r \in Users, r.channels = {},
         NEW t, DOMAIN t = Fields, t.evicted = {}, t.chans = s.chans,
         t.users = Put(s.users, u, r)
  PROVE  Rooms(t, given, {}, {})
<1>1. /\ DOMAIN t.users = DOMAIN s.users \cup {u} /\ t.users[u] = r
      /\ \A v \in DOMAIN s.users : t.users[v] = s.users[v]
  BY DEF Put
<1>3. Registry(t)
  BY <1>1 DEF Rooms, Registry
<1>4. \A c \in DOMAIN t.chans : DOMAIN t.chans[c].members \subseteq DOMAIN s.users
  BY DEF Rooms, Seats
<1>5. \A v, c : IsMember(t, v, c) <=> IsMember(s, v, c)
  BY DEF IsMember
<1>6. {c \in DOMAIN t.chans : IsMember(t, u, c)} = {}
  BY <1>4 DEF IsMember
<1>7. Seats(t)
  <2>1. ASSUME NEW v \in DOMAIN t.users
        PROVE  /\ t.users[v].channels = {c \in DOMAIN t.chans : IsMember(t, v, c)}
               /\ v \in Clients => IsFiniteSet(t.users[v].channels)
                                   /\ Cardinality(t.users[v].channels) <= MaxChannels
    <3>1. CASE v = u
      <4>1. t.users[v].channels = {}
        BY <1>1, <3>1
      <4>2. IsFiniteSet({}) /\ Cardinality({}) = 0 /\ MaxChannels \in Nat
        BY FS_EmptySet, ChannelsAssumption
      <4> QED  BY <1>6, <3>1, <4>1, <4>2
    <3>2. CASE v # u
      <4>1. v \in DOMAIN s.users /\ t.users[v] = s.users[v]
        BY <1>1, <3>2
      <4> QED  BY <1>5, <4>1 DEF Rooms, Seats
    <3> QED  BY <3>1, <3>2
  <2> QED  BY <1>1, <1>4, <2>1 DEF Seats
<1>8. NoneEmpty(t, {})
  BY DEF Rooms, NoneEmpty
<1>9. Rights(t, given, {})
  <2>1. ASSUME NEW c \in DOMAIN t.chans, NEW v \in DOMAIN t.chans[c].members
        PROVE  Earned(t, v, c) <=> Earned(s, v, c)
    BY <1>1, <1>4, <2>1 DEF Earned
  <2> QED  BY <2>1 DEF Rooms, Rights
<1> QED  BY <1>1, <1>3, <1>7, <1>8, <1>9 DEF Rooms

(* A channel is made, and is never bridged.                                 *)
LEMMA OpenKeeps ==
  ASSUME NEW s, NEW given, Rooms(s, given, {}, {}), NEW c \in Chans \ DOMAIN s.chans,
         NEW t, DOMAIN t = Fields, t.evicted = {}, t.users = s.users,
         t.chans = Put(s.chans, c, NewChannel(FALSE))
  PROVE  Rooms(t, given, {}, {c}) /\ c \in DOMAIN t.chans
<1>1. /\ DOMAIN t.chans = DOMAIN s.chans \cup {c} /\ t.chans[c] = NewChannel(FALSE)
      /\ \A d \in DOMAIN s.chans : t.chans[d] = s.chans[d]
  BY DEF Put
<1>2. IsChannel(NewChannel(FALSE)) /\ DOMAIN NewChannel(FALSE).members = {} /\ ~NewChannel(FALSE).rf
  BY DEF NewChannel, IsChannel
<1>3. Registry(t)
  BY <1>1, <1>2 DEF Rooms, Registry
<1>4. \A v, d : IsMember(t, v, d) <=> IsMember(s, v, d)
  BY <1>1, <1>2 DEF IsMember
<1>5. \A v : {d \in DOMAIN t.chans : IsMember(t, v, d)} = {d \in DOMAIN s.chans : IsMember(s, v, d)}
  BY <1>1, <1>4 DEF IsMember
<1>6. Seats(t)
  BY <1>1, <1>2, <1>5 DEF Rooms, Seats
<1>7. NoneEmpty(t, {c})
  BY <1>1 DEF Rooms, NoneEmpty
<1>8. Rights(t, given, {})
  BY <1>1, <1>2 DEF Rooms, Rights, Earned
<1> QED  BY <1>1, <1>3, <1>6, <1>7, <1>8 DEF Rooms

(* A user joins a channel, of the rights who they are gives.                *)
LEMMA JoinSeats ==
  ASSUME NEW s, Registry(s), NEW c \in DOMAIN s.chans, NEW u \in DOMAIN s.users, ~IsMember(s, u, c)
  PROVE  LET t == Join(s, u, c) IN
         /\ t.peers = s.peers /\ t.heard = s.heard /\ t.removed = s.removed
         /\ DOMAIN t.users = DOMAIN s.users
         /\ t.users[u].channels = s.users[u].channels \cup {c}
         /\ \A v \in DOMAIN s.users \ {u} : t.users[v] = s.users[v]
<1> DEFINE t == Join(s, u, c)
           f == FlagsFor(s, u, c, s.chans[c].members = <<>>)
<1>1. t = [s EXCEPT !.chans[c].members = Put(@, u, f), !.users[u].channels = @ \cup {c}]
  BY DEF Join, Exists
<1> HIDE DEF f
<1>2. /\ t.peers = s.peers /\ t.heard = s.heard /\ t.removed = s.removed
      /\ t.users = [s.users EXCEPT ![u].channels = @ \cup {c}]
  BY <1>1 DEF Registry, Fields
<1> HIDE DEF t
<1>3. s.users[u] \in Users
  BY DEF Registry
<1>4. /\ DOMAIN t.users = DOMAIN s.users
      /\ t.users[u].channels = s.users[u].channels \cup {c}
      /\ \A v \in DOMAIN s.users \ {u} : t.users[v] = s.users[v]
  BY <1>2, <1>3 DEF Users
<1> QED  BY <1>2, <1>4 DEF t

LEMMA JoinKeeps ==
  ASSUME NEW s, NEW given, NEW c \in DOMAIN s.chans, NEW E, E \subseteq {c},
         Rooms(s, given, {}, E), NEW u \in DOMAIN s.users, ~IsMember(s, u, c),
         u \in Clients => Cardinality(s.users[u].channels) < MaxChannels
  PROVE  Rooms(Join(s, u, c), given, {}, {})
<1> DEFINE t == Join(s, u, c)
           f == FlagsFor(s, u, c, s.chans[c].members = <<>>)
<1>1. t = [s EXCEPT !.chans[c].members = Put(@, u, f), !.users[u].channels = @ \cup {c}]
  BY DEF Join, Exists
<1>2. f \in Flags /\ ~f.opManual /\ (s.chans[c].rf /\ f.op => Earned(s, u, c))
  <2>1. /\ s.users[u].oper \in BOOLEAN /\ s.users[u].identified \in BOOLEAN
        /\ s.users[u].callsign \in BOOLEAN /\ s.chans[c].rf \in BOOLEAN
    BY DEF Rooms, Registry, IsChannel, Users
  <2> QED  BY <2>1 DEF FlagsFor, Flags, Earned, IsOper
<1> HIDE DEF f
<1>3. /\ DOMAIN t = Fields /\ t.evicted = s.evicted
      /\ t.peers = s.peers /\ t.heard = s.heard /\ t.removed = s.removed
      /\ t.chans = [s.chans EXCEPT ![c].members = Put(@, u, f)]
      /\ t.users = [s.users EXCEPT ![u].channels = @ \cup {c}]
  BY <1>1 DEF Rooms, Registry, Fields
<1> HIDE DEF t
<1>4. /\ DOMAIN t.users = DOMAIN s.users
      /\ \A v \in DOMAIN s.users \ {u} : t.users[v] = s.users[v]
      /\ t.users[u] = [s.users[u] EXCEPT !.channels = @ \cup {c}]
  BY <1>3
<1>5. /\ t.users[u] \in Users /\ t.users[u].channels = s.users[u].channels \cup {c}
      /\ t.users[u].oper = s.users[u].oper /\ t.users[u].identified = s.users[u].identified
  <2>1. s.users[u] \in Users /\ c \in Chans
    BY DEF Rooms, Registry
  <2> QED  BY <1>4, <2>1 DEF Users
<1>6. /\ DOMAIN t.chans = DOMAIN s.chans
      /\ \A d \in DOMAIN s.chans \ {c} : t.chans[d] = s.chans[d]
      /\ t.chans[c] = [s.chans[c] EXCEPT !.members = Put(@, u, f)]
  BY <1>3
<1>7. /\ IsChannel(t.chans[c]) /\ t.chans[c].rf = s.chans[c].rf
      /\ DOMAIN t.chans[c].members = DOMAIN s.chans[c].members \cup {u}
      /\ t.chans[c].members[u] = f
      /\ \A v \in DOMAIN s.chans[c].members \ {u} : t.chans[c].members[v] = s.chans[c].members[v]
  <2>1. IsChannel(s.chans[c])
    BY DEF Rooms, Registry
  <2>2. /\ DOMAIN t.chans[c] = DOMAIN s.chans[c]
        /\ t.chans[c].members = Put(s.chans[c].members, u, f)
        /\ \A k \in DOMAIN s.chans[c] \ {"members"} : t.chans[c][k] = s.chans[c][k]
    BY <1>6, <2>1 DEF IsChannel
  <2>3. /\ DOMAIN t.chans[c].members = DOMAIN s.chans[c].members \cup {u}
        /\ t.chans[c].members[u] = f
        /\ \A v \in DOMAIN s.chans[c].members \ {u} : t.chans[c].members[v] = s.chans[c].members[v]
    BY <2>2 DEF Put
  <2> QED  BY <1>2, <2>1, <2>2, <2>3 DEF IsChannel
<1>8. Registry(t)
  BY <1>3, <1>4, <1>5, <1>6, <1>7 DEF Rooms, Registry
<1>9. \A v, d : IsMember(t, v, d) <=> IsMember(s, v, d) \/ (v = u /\ d = c)
  BY <1>6, <1>7 DEF IsMember
<1>10. Seats(t)
  <2>1. ASSUME NEW d \in DOMAIN t.chans  PROVE DOMAIN t.chans[d].members \subseteq DOMAIN t.users
    BY <1>4, <1>6, <1>7 DEF Rooms, Seats
  <2>2. ASSUME NEW v \in DOMAIN t.users
        PROVE  t.users[v].channels = {d \in DOMAIN t.chans : IsMember(t, v, d)}
    <3>1. s.users[v].channels = {d \in DOMAIN s.chans : IsMember(s, v, d)}
      BY <1>4 DEF Rooms, Seats
    <3>2. CASE v = u
      BY <1>5, <1>6, <1>9, <3>1, <3>2
    <3>3. CASE v # u
      <4>1. t.users[v].channels = s.users[v].channels
        BY <1>4, <3>3
      <4> QED  BY <1>6, <1>9, <3>1, <3>3, <4>1
    <3> QED  BY <3>2, <3>3
  <2>3. ASSUME NEW v \in DOMAIN t.users \cap Clients
        PROVE  IsFiniteSet(t.users[v].channels) /\ Cardinality(t.users[v].channels) <= MaxChannels
    <3>1. IsFiniteSet(s.users[v].channels) /\ Cardinality(s.users[v].channels) <= MaxChannels
      BY <1>4 DEF Rooms, Seats
    <3>2. CASE v = u
      <4>1. c \notin s.users[u].channels
        BY DEF Rooms, Seats
      <4>2. /\ IsFiniteSet(s.users[u].channels \cup {c})
            /\ Cardinality(s.users[u].channels \cup {c}) = Cardinality(s.users[u].channels) + 1
        BY <3>1, <3>2, <4>1, FS_AddElement
      <4>3. Cardinality(s.users[u].channels) \in Nat /\ MaxChannels \in Nat
        BY <3>1, <3>2, FS_CardinalityType, ChannelsAssumption
      <4>4. Cardinality(s.users[u].channels \cup {c}) <= MaxChannels
        <5>1. Cardinality(s.users[u].channels) < MaxChannels
          BY <3>2
        <5> QED  BY <4>2, <4>3, <5>1
      <4>5. t.users[v].channels = s.users[u].channels \cup {c}
        BY <1>5, <3>2
      <4> QED  BY <4>2, <4>4, <4>5
    <3>3. CASE v # u
      BY <1>4, <3>1, <3>3
    <3> QED  BY <3>2, <3>3
  <2> QED  BY <2>1, <2>2, <2>3 DEF Seats
<1>11. NoneEmpty(t, {})
  BY <1>6, <1>7 DEF Rooms, NoneEmpty
<1>12. Rights(t, given, {})
  <2> SUFFICES ASSUME NEW d \in DOMAIN t.chans, t.chans[d].rf, NEW v \in DOMAIN t.chans[d].members
               PROVE  /\ t.chans[d].members[v].opManual => <<v, d>> \in given
                      /\ t.chans[d].members[v].op => Earned(t, v, d) \/ <<v, d>> \in given
    BY DEF Rights
  <2>1. v \in DOMAIN s.users => (Earned(t, v, d) <=> Earned(s, v, d))
    BY <1>4, <1>5 DEF Earned
  <2>2. CASE v = u /\ d = c
    BY <1>2, <1>7, <2>1, <2>2
  <2>3. CASE ~ (v = u /\ d = c)
    <3>1. /\ v \in DOMAIN s.chans[d].members /\ s.chans[d].rf /\ v \in DOMAIN s.users
          /\ t.chans[d].members[v] = s.chans[d].members[v]
      BY <1>6, <1>7, <2>3 DEF Rooms, Seats
    <3> QED  BY <1>6, <2>1, <3>1 DEF Rooms, Rights
  <2> QED  BY <2>2, <2>3
<1> QED  BY <1>3, <1>4, <1>5, <1>8, <1>10, <1>11, <1>12 DEF Rooms, t

(* Rights are worked out again.                                             *)
LEMMA RefreshKeeps ==
  ASSUME NEW s, NEW given, NEW U, Rooms(s, given, U, {})
  PROVE  LET t == RefreshPrivileges(s, U) IN
         /\ Rooms(t, given, {}, {})
         /\ t.users = s.users /\ t.peers = s.peers /\ t.heard = s.heard /\ t.removed = s.removed
<1> DEFINE t == RefreshPrivileges(s, U)
           Due(c) == {u \in U \cap DOMAIN s.users : c \in s.users[u].channels}
           F(c) == [u \in DOMAIN s.chans[c].members |->
                      IF u \in Due(c) THEN Intended(s, u, c) ELSE s.chans[c].members[u]]
<1>1. t = [s EXCEPT !.chans = [c \in DOMAIN @ |-> [@[c] EXCEPT !.members = F(c)]]]
  BY DEF RefreshPrivileges
<1>2. /\ DOMAIN t = Fields /\ t.evicted = s.evicted
      /\ t.users = s.users /\ t.peers = s.peers /\ t.heard = s.heard /\ t.removed = s.removed
      /\ t.chans = [c \in DOMAIN s.chans |-> [s.chans[c] EXCEPT !.members = F(c)]]
  BY <1>1 DEF Rooms, Registry, Fields
<1> HIDE DEF t, F
<1>3. /\ DOMAIN t.chans = DOMAIN s.chans
      /\ \A c \in DOMAIN s.chans : t.chans[c] = [s.chans[c] EXCEPT !.members = F(c)]
  BY <1>2
<1>4. ASSUME NEW c \in DOMAIN s.chans, NEW u \in DOMAIN s.chans[c].members
      PROVE  /\ Intended(s, u, c) \in Flags
             /\ Intended(s, u, c).opManual = s.chans[c].members[u].opManual
             /\ s.chans[c].rf /\ Intended(s, u, c).op =>
                  Earned(s, u, c) \/ s.chans[c].members[u].opManual
  <2>1. u \in DOMAIN s.users /\ s.chans[c].members[u] \in Flags /\ s.chans[c].rf \in BOOLEAN
    BY DEF Rooms, Registry, Seats, IsChannel
  <2>2. /\ s.users[u].oper \in BOOLEAN /\ s.users[u].identified \in BOOLEAN
        /\ s.users[u].callsign \in BOOLEAN
    BY <2>1 DEF Rooms, Registry, Users
  <2> DEFINE d == FlagsFor(s, u, c, FALSE)
  <2>3. /\ d.op \in BOOLEAN /\ d.voice \in BOOLEAN
        /\ s.chans[c].rf /\ d.op => Earned(s, u, c)
    BY <2>1, <2>2 DEF FlagsFor, IsOper, Earned
  <2> HIDE DEF d
  <2>4. Intended(s, u, c) =
          [s.chans[c].members[u] EXCEPT !.op = d.op \/ s.chans[c].members[u].opManual,
                                        !.voice = d.voice \/ s.chans[c].members[u].voiceManual]
    BY DEF Intended, d
  <2>5. /\ Intended(s, u, c).op = (d.op \/ s.chans[c].members[u].opManual)
        /\ Intended(s, u, c).opManual = s.chans[c].members[u].opManual
        /\ Intended(s, u, c) \in Flags
    BY <2>1, <2>3, <2>4 DEF Flags
  <2> QED  BY <2>3, <2>5
<1>5. ASSUME NEW c \in DOMAIN s.chans
      PROVE  /\ DOMAIN F(c) = DOMAIN s.chans[c].members
             /\ \A u \in DOMAIN s.chans[c].members :
                  F(c)[u] = IF u \in Due(c) THEN Intended(s, u, c) ELSE s.chans[c].members[u]
  BY DEF F
<1>6. ASSUME NEW c \in DOMAIN s.chans
      PROVE  /\ IsChannel(t.chans[c]) /\ t.chans[c].rf = s.chans[c].rf
             /\ t.chans[c].members = F(c)
  <2>1. IsChannel(s.chans[c])
    BY DEF Rooms, Registry
  <2>2. /\ DOMAIN t.chans[c] = DOMAIN s.chans[c]
        /\ t.chans[c].members = F(c)
        /\ \A k \in DOMAIN s.chans[c] \ {"members"} : t.chans[c][k] = s.chans[c][k]
    BY <1>3, <2>1 DEF IsChannel
  <2>3. \A u \in DOMAIN F(c) : F(c)[u] \in Flags
    BY <1>4, <1>5, <2>1 DEF IsChannel
  <2> QED  BY <2>1, <2>2, <2>3 DEF IsChannel
<1>7. Registry(t)
  BY <1>2, <1>3, <1>6 DEF Rooms, Registry
<1>8. \A v, c : IsMember(t, v, c) <=> IsMember(s, v, c)
  BY <1>3, <1>5, <1>6 DEF IsMember
<1>9. Seats(t)
  BY <1>2, <1>3, <1>5, <1>6, <1>8 DEF Rooms, Seats
<1>10. NoneEmpty(t, {})
  BY <1>3, <1>5, <1>6 DEF Rooms, NoneEmpty
<1>11. Rights(t, given, {})
  <2> SUFFICES ASSUME NEW c \in DOMAIN t.chans, t.chans[c].rf, NEW u \in DOMAIN t.chans[c].members
               PROVE  /\ t.chans[c].members[u].opManual => <<u, c>> \in given
                      /\ t.chans[c].members[u].op => Earned(t, u, c) \/ <<u, c>> \in given
    BY DEF Rights
  <2>1. /\ c \in DOMAIN s.chans /\ s.chans[c].rf /\ u \in DOMAIN s.chans[c].members
        /\ t.chans[c].members[u] =
             IF u \in Due(c) THEN Intended(s, u, c) ELSE s.chans[c].members[u]
    BY <1>3, <1>5, <1>6
  <2>2. u \in DOMAIN s.users /\ c \in s.users[u].channels
    BY <2>1 DEF Rooms, Seats, IsMember
  <2>3. Earned(t, u, c) <=> Earned(s, u, c)
    BY <1>2 DEF Earned
  <2>4. s.chans[c].members[u].opManual => <<u, c>> \in given
    BY <2>1 DEF Rooms, Rights
  <2>5. CASE u \in U
    BY <1>4, <2>1, <2>2, <2>3, <2>4, <2>5
  <2>6. CASE u \notin U
    BY <2>1, <2>3, <2>4, <2>6 DEF Rooms, Rights
  <2> QED  BY <2>5, <2>6
<1> QED  BY <1>2, <1>7, <1>9, <1>10, <1>11 DEF Rooms, t

(* Users leave channels; those left empty that are not configured go.       *)
LEMMA LeaveKeeps ==
  ASSUME NEW s, NEW given, NEW M \in SUBSET (Everyone \X Chans), Rooms(s, given, {}, {})
  PROVE  LET t == Leave(s, M) IN
         /\ Rooms(t, given, {}, {})
         /\ t.peers = s.peers /\ t.heard = s.heard /\ t.removed = s.removed
         /\ DOMAIN t.users = DOMAIN s.users /\ DOMAIN t.chans \subseteq DOMAIN s.chans
         /\ \A u \in DOMAIN s.users : \A c :
              c \in t.users[u].channels <=> c \in s.users[u].channels /\ <<u, c>> \notin M
<1> DEFINE t == Leave(s, M)
           Leavers(c) == {u \in DOMAIN s.users : <<u, c>> \in M}
           left == [c \in DOMAIN s.chans |-> [s.chans[c] EXCEPT !.members = Less(@, Leavers(c))]]
           reaped == {c \in DOMAIN left \ Configured :
                        Leavers(c) # {} /\ DOMAIN left[c].members = {}}
           seated(u) == s.users[u].channels \ {c \in DOMAIN left : <<u, c>> \in M}
<1>1. t = [s EXCEPT !.chans = Less(left, reaped),
                    !.users = [u \in DOMAIN s.users |-> [s.users[u] EXCEPT !.channels = seated(u)]]]
  BY DEF Leave
<1>2. /\ DOMAIN t = Fields /\ t.evicted = s.evicted
      /\ t.peers = s.peers /\ t.heard = s.heard /\ t.removed = s.removed
      /\ t.users = [u \in DOMAIN s.users |-> [s.users[u] EXCEPT !.channels = seated(u)]]
      /\ t.chans = Less(left, reaped)
  BY <1>1 DEF Rooms, Registry, Fields
<1>3. DOMAIN left = DOMAIN s.chans
  OBVIOUS
<1>4. \A u \in DOMAIN s.users : \A c : u \in Leavers(c) <=> <<u, c>> \in M
  OBVIOUS
<1>5. ASSUME NEW c \in DOMAIN s.chans
      PROVE  /\ IsChannel(left[c]) /\ left[c].rf = s.chans[c].rf
             /\ DOMAIN left[c].members = {u \in DOMAIN s.chans[c].members : <<u, c>> \notin M}
             /\ \A u \in DOMAIN left[c].members : left[c].members[u] = s.chans[c].members[u]
  <2> DEFINE L == Leavers(c)
  <2>1. IsChannel(s.chans[c])
    BY DEF Rooms, Registry
  <2>2. left[c] = [s.chans[c] EXCEPT !.members = Less(s.chans[c].members, L)]
    OBVIOUS
  <2>3. \A u \in DOMAIN s.chans[c].members : u \in L <=> <<u, c>> \in M
    BY <1>4 DEF Rooms, Seats
  <2> HIDE DEF L, left
  <2>4. /\ DOMAIN left[c] = DOMAIN s.chans[c]
        /\ left[c].members = Less(s.chans[c].members, L)
        /\ \A k \in DOMAIN s.chans[c] \ {"members"} : left[c][k] = s.chans[c][k]
    BY <2>1, <2>2 DEF IsChannel
  <2>5. /\ DOMAIN left[c].members = DOMAIN s.chans[c].members \ L
        /\ \A u \in DOMAIN s.chans[c].members \ L : left[c].members[u] = s.chans[c].members[u]
    BY <2>4 DEF Less, Restrict
  <2>6. DOMAIN left[c].members = {u \in DOMAIN s.chans[c].members : <<u, c>> \notin M}
    BY <2>3, <2>5
  <2> QED  BY <2>1, <2>4, <2>5, <2>6 DEF IsChannel
<1>6. /\ DOMAIN t.chans = DOMAIN s.chans \ reaped
      /\ \A c \in DOMAIN t.chans : t.chans[c] = left[c]
  <2>1. DOMAIN Less(left, reaped) = DOMAIN left \ reaped
        /\ \A c \in DOMAIN left \ reaped : Less(left, reaped)[c] = left[c]
    <3> HIDE DEF left, reaped
    <3> QED  BY LessThose
  <2> HIDE DEF left, reaped, t
  <2> QED  BY <1>2, <1>3, <2>1
<1>7. reaped \cap Configured = {} /\ \A c \in reaped : DOMAIN left[c].members = {}
  OBVIOUS
<1>8. \A c \in DOMAIN s.chans \ Configured : DOMAIN left[c].members = {} => c \in reaped
  <2> SUFFICES ASSUME NEW c \in DOMAIN s.chans \ Configured, DOMAIN left[c].members = {}
               PROVE  Leavers(c) # {}
    OBVIOUS
  <2>1. PICK u : u \in DOMAIN s.chans[c].members /\ u \in DOMAIN s.users
    BY DEF Rooms, Seats, NoneEmpty
  <2> HIDE DEF left
  <2>2. <<u, c>> \in M
    BY <1>5, <2>1
  <2> QED  BY <2>1, <2>2
<1> HIDE DEF left, reaped, t
<1>9. /\ DOMAIN t.users = DOMAIN s.users
      /\ \A u \in DOMAIN s.users : t.users[u] = [s.users[u] EXCEPT !.channels = seated(u)]
  BY <1>2
<1> HIDE DEF seated
<1>10. ASSUME NEW u \in DOMAIN s.users
       PROVE  /\ t.users[u] \in Users /\ t.users[u].channels = seated(u)
              /\ t.users[u].oper = s.users[u].oper /\ t.users[u].identified = s.users[u].identified
              /\ seated(u) \subseteq s.users[u].channels
  <2>1. s.users[u] \in Users
    BY DEF Rooms, Registry
  <2>2. seated(u) \subseteq s.users[u].channels
    BY DEF seated
  <2> QED  BY <1>9, <2>1, <2>2 DEF Users
<1>11. Registry(t)
  BY <1>2, <1>5, <1>6, <1>7, <1>9, <1>10 DEF Rooms, Registry
<1>12. \A u, c : IsMember(t, u, c) <=> IsMember(s, u, c) /\ <<u, c>> \notin M
  <2> SUFFICES ASSUME NEW u, NEW c
               PROVE  IsMember(t, u, c) <=> IsMember(s, u, c) /\ <<u, c>> \notin M
    OBVIOUS
  <2>1. CASE c \in DOMAIN s.chans
    <3>1. u \in DOMAIN left[c].members <=> u \in DOMAIN s.chans[c].members /\ <<u, c>> \notin M
      BY <1>5, <2>1
    <3>2. CASE c \in reaped
      BY <1>6, <1>7, <2>1, <3>1, <3>2 DEF IsMember
    <3>3. CASE c \notin reaped
      BY <1>6, <2>1, <3>1, <3>3 DEF IsMember
    <3> QED  BY <3>2, <3>3
  <2>2. CASE c \notin DOMAIN s.chans
    BY <1>6, <2>2 DEF IsMember
  <2> QED  BY <2>1, <2>2
<1>13. Seats(t)
  <2>1. ASSUME NEW c \in DOMAIN t.chans  PROVE DOMAIN t.chans[c].members \subseteq DOMAIN t.users
    BY <1>5, <1>6, <1>9 DEF Rooms, Seats
  <2>2. ASSUME NEW u \in DOMAIN t.users
        PROVE  t.users[u].channels = {c \in DOMAIN t.chans : IsMember(t, u, c)}
    <3>1. s.users[u].channels = {c \in DOMAIN s.chans : IsMember(s, u, c)}
      BY <1>9 DEF Rooms, Seats
    <3>2. \A c : c \in t.users[u].channels <=> IsMember(t, u, c)
      BY <1>3, <1>9, <1>10, <1>12, <3>1 DEF seated, IsMember
    <3> QED  BY <3>2 DEF IsMember
  <2>3. ASSUME NEW u \in DOMAIN t.users \cap Clients
        PROVE  IsFiniteSet(t.users[u].channels) /\ Cardinality(t.users[u].channels) <= MaxChannels
    <3>1. /\ IsFiniteSet(s.users[u].channels) /\ Cardinality(s.users[u].channels) <= MaxChannels
          /\ t.users[u].channels \subseteq s.users[u].channels
      BY <1>9, <1>10 DEF Rooms, Seats
    <3>2. /\ IsFiniteSet(t.users[u].channels)
          /\ Cardinality(t.users[u].channels) <= Cardinality(s.users[u].channels)
      BY <3>1, FS_Subset
    <3>3. Cardinality(t.users[u].channels) \in Nat /\ Cardinality(s.users[u].channels) \in Nat
          /\ MaxChannels \in Nat
      BY <3>1, <3>2, FS_CardinalityType, ChannelsAssumption
    <3> QED  BY <3>1, <3>2, <3>3
  <2> QED  BY <2>1, <2>2, <2>3 DEF Seats
<1>14. NoneEmpty(t, {})
  BY <1>6, <1>8 DEF NoneEmpty
<1>15. Rights(t, given, {})
  <2> SUFFICES ASSUME NEW c \in DOMAIN t.chans, t.chans[c].rf, NEW u \in DOMAIN t.chans[c].members
               PROVE  /\ t.chans[c].members[u].opManual => <<u, c>> \in given
                      /\ t.chans[c].members[u].op => Earned(t, u, c) \/ <<u, c>> \in given
    BY DEF Rights
  <2>1. /\ c \in DOMAIN s.chans /\ s.chans[c].rf /\ u \in DOMAIN s.chans[c].members
        /\ t.chans[c].members[u] = s.chans[c].members[u] /\ u \in DOMAIN s.users
    BY <1>5, <1>6 DEF Rooms, Seats
  <2>2. Earned(t, u, c) <=> Earned(s, u, c)
    BY <1>10, <2>1 DEF Earned
  <2> QED  BY <2>1, <2>2 DEF Rooms, Rights
<1>16. \A u \in DOMAIN s.users : \A c :
         c \in t.users[u].channels <=> c \in s.users[u].channels /\ <<u, c>> \notin M
  <2>1. \A u \in DOMAIN s.users : s.users[u].channels \subseteq DOMAIN s.chans
    BY DEF Rooms, Seats
  <2> QED  BY <1>3, <1>10, <2>1 DEF seated
<1> QED  BY <1>2, <1>6, <1>9, <1>11, <1>13, <1>14, <1>15, <1>16 DEF Rooms, t

(* Users are removed: they leave every channel first.                       *)
LEMMA DropKeeps ==
  ASSUME NEW s, NEW given, Rooms(s, given, {}, {}), NEW U \in SUBSET DOMAIN s.users
  PROVE  LET t == RemoveUsers(s, U) IN
         /\ Rooms(t, given, {}, {})
         /\ t.peers = s.peers /\ t.heard = s.heard /\ t.removed = s.removed
         /\ DOMAIN t.users = DOMAIN s.users \ U
         /\ \A u \in DOMAIN t.users : t.users[u].channels = s.users[u].channels
<1> DEFINE M == {m \in U \X Chans : m[2] \in s.users[m[1]].channels}
           w == Leave(s, M)
           t == RemoveUsers(s, U)
<1>1. t = [w EXCEPT !.users = Less(@, U)]
  BY DEF RemoveUsers
<1>2. \A u \in U : \A c \in Chans : <<u, c>> \in M <=> c \in s.users[u].channels
  OBVIOUS
<1>3. \A u, c : <<u, c>> \in M => u \in U
  OBVIOUS
<1>4. M \in SUBSET (Everyone \X Chans)
  BY DEF Rooms, Registry
<1> HIDE DEF M
<1>5. /\ Rooms(w, given, {}, {})
      /\ w.peers = s.peers /\ w.heard = s.heard /\ w.removed = s.removed
      /\ DOMAIN w.users = DOMAIN s.users /\ DOMAIN w.chans \subseteq DOMAIN s.chans
      /\ \A u \in DOMAIN s.users : \A c :
           c \in w.users[u].channels <=> c \in s.users[u].channels /\ <<u, c>> \notin M
  <2>1. w = Leave(s, M)
    OBVIOUS
  <2> HIDE DEF w
  <2> QED  BY <1>4, <2>1, LeaveKeeps
<1> HIDE DEF w
<1>6. /\ DOMAIN t = Fields /\ t.evicted = w.evicted /\ t.chans = w.chans
      /\ t.peers = w.peers /\ t.heard = w.heard /\ t.removed = w.removed
      /\ t.users = Less(w.users, U)
  BY <1>1, <1>5 DEF Rooms, Registry, Fields
<1> HIDE DEF t
<1>7. /\ DOMAIN t.users = DOMAIN w.users \ U
      /\ \A u \in DOMAIN w.users \ U : t.users[u] = w.users[u]
  BY <1>6 DEF Less, Restrict
<1>8. \A u \in U : w.users[u].channels = {}
  <2> SUFFICES ASSUME NEW u \in U, NEW c \in w.users[u].channels  PROVE FALSE
    BY <1>5
  <2>1. u \in DOMAIN s.users /\ c \in s.users[u].channels /\ <<u, c>> \notin M
    BY <1>5
  <2>2. c \in DOMAIN s.chans /\ c \in Chans
    BY <2>1 DEF Rooms, Seats, Registry
  <2> QED  BY <1>2, <2>1, <2>2
<1>9. \A u \in DOMAIN t.users : t.users[u].channels = s.users[u].channels
  <2> SUFFICES ASSUME NEW u \in DOMAIN t.users  PROVE t.users[u].channels = s.users[u].channels
    OBVIOUS
  <2>1. u \in DOMAIN s.users /\ t.users[u] = w.users[u] /\ u \notin U
    BY <1>5, <1>7
  <2>2. \A c : c \in t.users[u].channels <=> c \in s.users[u].channels
    BY <1>3, <1>5, <2>1
  <2>3. t.users[u] \in Users /\ s.users[u] \in Users
    BY <1>5, <2>1 DEF Rooms, Registry
  <2> QED  BY <2>2, <2>3 DEF Users
<1>10. \A u, c : IsMember(t, u, c) <=> IsMember(w, u, c)
  BY <1>6 DEF IsMember
<1>11. Registry(t)
  BY <1>5, <1>6, <1>7 DEF Rooms, Registry
<1>12. Seats(t)
  <2>1. ASSUME NEW c \in DOMAIN t.chans, NEW u \in DOMAIN t.chans[c].members  PROVE u \in DOMAIN t.users
    <3>1. u \in DOMAIN w.users /\ c \in w.users[u].channels
      BY <1>5, <1>6 DEF Rooms, Seats, IsMember
    <3> QED  BY <1>7, <1>8, <3>1
  <2>2. ASSUME NEW u \in DOMAIN t.users
        PROVE  t.users[u].channels = {c \in DOMAIN t.chans : IsMember(t, u, c)}
    <3>1. w.users[u].channels = {c \in DOMAIN w.chans : IsMember(w, u, c)}
      BY <1>5, <1>7 DEF Rooms, Seats
    <3> QED  BY <1>6, <1>7, <1>10, <3>1
  <2>3. ASSUME NEW u \in DOMAIN t.users \cap Clients
        PROVE  IsFiniteSet(t.users[u].channels) /\ Cardinality(t.users[u].channels) <= MaxChannels
    BY <1>5, <1>7 DEF Rooms, Seats
  <2> QED  BY <2>1, <2>2, <2>3 DEF Seats
<1>13. NoneEmpty(t, {})
  BY <1>5, <1>6 DEF Rooms, NoneEmpty
<1>14. Rights(t, given, {})
  <2>1. ASSUME NEW c \in DOMAIN t.chans, NEW u \in DOMAIN t.chans[c].members
        PROVE  Earned(t, u, c) <=> Earned(w, u, c)
    BY <1>7, <1>12 DEF Earned, Seats
  <2> QED  BY <1>5, <1>6, <2>1 DEF Rooms, Rights
<1> QED  BY <1>5, <1>6, <1>7, <1>9, <1>11, <1>12, <1>13, <1>14 DEF Rooms, t

(* One channel changes, and its members stay; the rights of more users may  *)
(* have to be worked out again.                                             *)
LEMMA ChangeKeeps ==
  ASSUME NEW s, NEW given, NEW U, Rooms(s, given, U, {}), NEW c \in DOMAIN s.chans,
         NEW V, U \subseteq V, NEW r, IsChannel(r),
         DOMAIN r.members = DOMAIN s.chans[c].members,
         NEW t, DOMAIN t = Fields, t.evicted = {}, t.users = s.users,
         DOMAIN t.chans = DOMAIN s.chans, t.chans[c] = r,
         \A d \in DOMAIN s.chans \ {c} : t.chans[d] = s.chans[d],
         r.rf => \A u \in DOMAIN r.members :
           /\ r.members[u].opManual => <<u, c>> \in given
           /\ u \notin V /\ r.members[u].op => Earned(s, u, c) \/ <<u, c>> \in given
  PROVE  Rooms(t, given, V, {})
<1>1. Registry(t)
  BY DEF Rooms, Registry
<1>2. \A u, d : IsMember(t, u, d) <=> IsMember(s, u, d)
  BY DEF IsMember
<1>3. Seats(t)
  BY <1>2 DEF Rooms, Seats
<1>4. NoneEmpty(t, {})
  BY DEF Rooms, NoneEmpty
<1>5. Rights(t, given, V)
  <2> SUFFICES ASSUME NEW d \in DOMAIN t.chans, t.chans[d].rf, NEW u \in DOMAIN t.chans[d].members
               PROVE  /\ t.chans[d].members[u].opManual => <<u, d>> \in given
                      /\ u \notin V /\ t.chans[d].members[u].op =>
                           Earned(t, u, d) \/ <<u, d>> \in given
    BY DEF Rights
  <2>1. Earned(t, u, d) <=> Earned(s, u, d)
    BY DEF Earned
  <2>2. CASE d = c
    BY <2>1, <2>2
  <2>3. CASE d # c
    BY <2>1, <2>3 DEF Rooms, Rights
  <2> QED  BY <2>2, <2>3
<1> QED  BY <1>1, <1>3, <1>4, <1>5 DEF Rooms

-----------------------------------------------------------------------------
(* MODE.  In the middle of a line, with the rights given that a control     *)
(* operator's line gives:                                                   *)
Working(w, s, c, bridged, oper, given) ==
  /\ DOMAIN w = {"s", "refresh"}
  /\ Rooms(w.s, given, w.refresh, {}) /\ w.refresh \subseteq DOMAIN w.s.chans[c].members
  /\ w.s.users = s.users /\ DOMAIN w.s.chans = DOMAIN s.chans
  /\ w.s.peers = s.peers /\ w.s.heard = s.heard /\ w.s.removed = s.removed
  /\ ~oper => w.s.chans[c].rf = bridged

Asks == [letter : {"m", "t", "r", "k", "l", "o", "v"}, on : BOOLEAN, who : Everyone]

(* The settings of a channel that say nothing of who may operate.           *)
LEMMA SettingKeeps ==
  ASSUME NEW s, NEW c \in DOMAIN s.chans, NEW bridged, NEW oper, NEW given,
         NEW w, Working(w, s, c, bridged, oper, given),
         NEW r, IsChannel(r), r.rf = w.s.chans[c].rf, r.members = w.s.chans[c].members,
         NEW v, v = [w EXCEPT !.s.chans[c] = r]
  PROVE  Working(v, s, c, bridged, oper, given)
<1>1. /\ DOMAIN v = {"s", "refresh"} /\ v.refresh = w.refresh
      /\ v.s = [w.s EXCEPT !.chans[c] = r]
  BY DEF Working
<1>2. DOMAIN w.s = Fields /\ w.s.evicted = {} /\ c \in DOMAIN w.s.chans
  BY DEF Working, Rooms, Registry
<1>3. /\ DOMAIN v.s = Fields /\ v.s.evicted = {} /\ v.s.users = w.s.users
      /\ v.s.peers = w.s.peers /\ v.s.heard = w.s.heard /\ v.s.removed = w.s.removed
      /\ v.s.chans = [w.s.chans EXCEPT ![c] = r]
  BY <1>1, <1>2 DEF Fields
<1>4. /\ DOMAIN v.s.chans = DOMAIN w.s.chans /\ v.s.chans[c] = r
      /\ \A d \in DOMAIN w.s.chans \ {c} : v.s.chans[d] = w.s.chans[d]
  BY <1>2, <1>3
<1>5. Rooms(w.s, given, w.refresh, {})
  BY DEF Working
<1>6. r.rf => \A u \in DOMAIN r.members :
        /\ r.members[u].opManual => <<u, c>> \in given
        /\ u \notin w.refresh /\ r.members[u].op => Earned(w.s, u, c) \/ <<u, c>> \in given
  BY <1>2, <1>5 DEF Rooms, Rights
<1>7. Rooms(v.s, given, w.refresh, {})
  BY <1>2, <1>3, <1>4, <1>5, <1>6, ChangeKeeps
<1> QED  BY <1>1, <1>3, <1>4, <1>7 DEF Working

(* A member's rights change by hand: any on a bridge are a control          *)
(* operator's to give.                                                      *)
LEMMA GiveKeeps ==
  ASSUME NEW s, NEW c \in DOMAIN s.chans, NEW bridged, NEW oper \in BOOLEAN, NEW given,
         NEW w, Working(w, s, c, bridged, oper, given),
         NEW letter \in {"o", "v"}, NEW on \in BOOLEAN, NEW who,
         letter = "o" => (oper \/ ~bridged) /\ (oper /\ on => <<who, c>> \in given)
  PROVE  Working(Give(w, c, letter, on, who), s, c, bridged, oper, given)
<1> DEFINE v == Give(w, c, letter, on, who)
<1> SUFFICES ASSUME IsMember(w.s, who, c)  PROVE Working(v, s, c, bridged, oper, given)
  BY DEF Give
<1> DEFINE old == w.s.chans[c]
           m == old.members[who]
           f == IF letter = "o" THEN [m EXCEPT !.op = on, !.opManual = on]
                                ELSE [m EXCEPT !.voice = on, !.voiceManual = on]
           ms == [old.members EXCEPT ![who] = f]
           r == [old EXCEPT !.members = ms]
<1>1. DOMAIN w.s = Fields /\ w.s.evicted = {} /\ c \in DOMAIN w.s.chans /\ IsChannel(old)
  BY DEF Working, Rooms, Registry
<1>2. who \in DOMAIN old.members /\ m \in Flags
  BY <1>1 DEF IsMember, IsChannel
<1>3. v = [w EXCEPT !.s.chans[c].members[who] = f]
  BY DEF Give
<1>4. /\ f \in Flags
      /\ letter = "v" => f.op = m.op /\ f.opManual = m.opManual
      /\ letter = "o" => f.op = on /\ f.opManual = on
  BY <1>2 DEF Flags
<1> HIDE DEF f, v
<1>5. /\ DOMAIN ms = DOMAIN old.members /\ ms[who] = f
      /\ \A u \in DOMAIN old.members \ {who} : ms[u] = old.members[u]
  BY <1>2
<1> HIDE DEF ms
<1>6. /\ DOMAIN r = DOMAIN old /\ r.members = ms
      /\ \A k \in DOMAIN old \ {"members"} : r[k] = old[k]
  BY <1>1 DEF IsChannel
<1> HIDE DEF r
<1>7. IsChannel(r) /\ r.rf = old.rf
  BY <1>1, <1>4, <1>5, <1>6 DEF IsChannel
<1>8. /\ DOMAIN v = {"s", "refresh"} /\ v.refresh = w.refresh
      /\ v.s = [w.s EXCEPT !.chans = [w.s.chans EXCEPT ![c] = r]]
  BY <1>3 DEF Working, r, ms
<1>9. /\ DOMAIN v.s = Fields /\ v.s.evicted = {} /\ v.s.users = w.s.users
      /\ v.s.peers = w.s.peers /\ v.s.heard = w.s.heard /\ v.s.removed = w.s.removed
      /\ v.s.chans = [w.s.chans EXCEPT ![c] = r]
  BY <1>1, <1>8 DEF Fields
<1>10. /\ DOMAIN v.s.chans = DOMAIN w.s.chans /\ v.s.chans[c] = r
       /\ \A d \in DOMAIN w.s.chans \ {c} : v.s.chans[d] = w.s.chans[d]
  BY <1>1, <1>9
<1>11. Rooms(w.s, given, w.refresh, {}) /\ (~oper => old.rf = bridged)
  BY DEF Working
<1>12. r.rf => \A u \in DOMAIN r.members :
         /\ r.members[u].opManual => <<u, c>> \in given
         /\ u \notin w.refresh /\ r.members[u].op => Earned(w.s, u, c) \/ <<u, c>> \in given
  <2> SUFFICES ASSUME r.rf, NEW u \in DOMAIN old.members
               PROVE  /\ ms[u].opManual => <<u, c>> \in given
                      /\ u \notin w.refresh /\ ms[u].op => Earned(w.s, u, c) \/ <<u, c>> \in given
    BY <1>5, <1>6
  <2>1. /\ old.members[u].opManual => <<u, c>> \in given
        /\ u \notin w.refresh /\ old.members[u].op => Earned(w.s, u, c) \/ <<u, c>> \in given
    BY <1>1, <1>7, <1>11 DEF Rooms, Rights
  <2>2. CASE u = who /\ letter = "o"
    BY <1>4, <1>5, <1>7, <1>11, <2>2
  <2>3. CASE u = who /\ letter = "v"
    BY <1>4, <1>5, <2>1, <2>3
  <2>4. CASE u # who
    BY <1>5, <2>1, <2>4
  <2> QED  BY <2>2, <2>3, <2>4
<1> HIDE DEF old
<1>13. DOMAIN r.members = DOMAIN w.s.chans[c].members
  BY <1>5, <1>6 DEF old
<1>14. Rooms(v.s, given, w.refresh, {})
  BY <1>1, <1>7, <1>9, <1>10, <1>11, <1>12, <1>13, ChangeKeeps
<1> QED  BY <1>7, <1>8, <1>9, <1>10, <1>11, <1>13, <1>14 DEF Working, v, old

(* A control operator bridges a channel, or takes it off the air: what was  *)
(* given by hand goes, and everybody's rights are to be worked out again.   *)
LEMMA BridgeKeeps ==
  ASSUME NEW s, NEW c \in DOMAIN s.chans, NEW bridged, NEW given,
         NEW w, Working(w, s, c, bridged, TRUE, given),
         NEW on \in BOOLEAN
  PROVE  Working(Bridge(w, c, on), s, c, bridged, TRUE, given)
<1> DEFINE v == Bridge(w, c, on)
           old == w.s.chans[c]
           clear == [u \in DOMAIN old.members |-> [old.members[u] EXCEPT !.opManual = @ /\ ~on]]
           r == [old EXCEPT !.rf = on, !.moderated = @ \/ on, !.members = clear]
<1> SUFFICES ASSUME old.rf # on
             PROVE  Working(v, s, c, bridged, TRUE, given)
  BY DEF Bridge
<1>1. DOMAIN w.s = Fields /\ w.s.evicted = {} /\ c \in DOMAIN w.s.chans /\ IsChannel(old)
  BY DEF Working, Rooms, Registry
<1>2. v = [s |-> [w.s EXCEPT !.chans[c].rf = on, !.chans[c].moderated = @ \/ on,
                             !.chans[c].members = clear],
           refresh |-> DOMAIN clear]
  BY DEF Bridge
<1>3. DOMAIN clear = DOMAIN old.members
      /\ \A u \in DOMAIN old.members : clear[u] \in Flags /\ (on => ~clear[u].opManual)
  <2>1. \A u \in DOMAIN old.members : old.members[u] \in Flags
    BY <1>1 DEF IsChannel
  <2> QED  BY <2>1 DEF Flags
<1> HIDE DEF clear, v
<1>4. /\ DOMAIN v = {"s", "refresh"} /\ v.refresh = DOMAIN clear
      /\ v.s = [w.s EXCEPT !.chans[c].rf = on, !.chans[c].moderated = @ \/ on,
                           !.chans[c].members = clear]
  BY <1>2
<1>5. /\ DOMAIN v.s = Fields /\ v.s.evicted = {} /\ v.s.users = w.s.users
      /\ v.s.peers = w.s.peers /\ v.s.heard = w.s.heard /\ v.s.removed = w.s.removed
      /\ v.s.chans = [w.s.chans EXCEPT ![c] = r]
  <2>1. /\ DOMAIN v.s = Fields /\ v.s.evicted = {} /\ v.s.users = w.s.users
        /\ v.s.peers = w.s.peers /\ v.s.heard = w.s.heard /\ v.s.removed = w.s.removed
    BY <1>1, <1>4 DEF Fields
  <2>2. v.s.chans = [w.s.chans EXCEPT ![c].rf = on, ![c].moderated = @ \/ on, ![c].members = clear]
    BY <1>1, <1>4 DEF Fields
  <2>3. v.s.chans = [w.s.chans EXCEPT ![c] = r]
    BY <1>1, <2>2 DEF IsChannel
  <2> QED  BY <2>1, <2>3
<1>6. /\ r.rf = on /\ r.members = clear /\ DOMAIN r = DOMAIN old
      /\ r.moderated = (old.moderated \/ on)
      /\ r.locked = old.locked /\ r.key = old.key /\ r.limit = old.limit /\ r.topic = old.topic
  BY <1>1 DEF IsChannel
<1> HIDE DEF r
<1>7. IsChannel(r)
  BY <1>1, <1>3, <1>6 DEF IsChannel
<1>8. /\ DOMAIN v.s.chans = DOMAIN w.s.chans /\ v.s.chans[c] = r
      /\ \A d \in DOMAIN w.s.chans \ {c} : v.s.chans[d] = w.s.chans[d]
  BY <1>1, <1>5
<1>9. r.rf => \A u \in DOMAIN r.members :
        /\ r.members[u].opManual => <<u, c>> \in given
        /\ u \notin v.refresh /\ r.members[u].op => Earned(w.s, u, c) \/ <<u, c>> \in given
  BY <1>3, <1>4, <1>6
<1>10. Rooms(w.s, given, w.refresh, {}) /\ w.refresh \subseteq v.refresh
  BY <1>3, <1>4 DEF Working
<1>11. DOMAIN r.members = DOMAIN w.s.chans[c].members
  BY <1>3, <1>6
<1> HIDE DEF old
<1>12. Rooms(v.s, given, v.refresh, {})
  BY <1>1, <1>5, <1>7, <1>8, <1>9, <1>10, <1>11, ChangeKeeps
<1>13. v.refresh \subseteq DOMAIN v.s.chans[c].members
  BY <1>4, <1>6, <1>8
<1> QED  BY <1>4, <1>5, <1>8, <1>12, <1>13 DEF Working, v

(* A letter of a line.  Who is no control operator leaves the rights on a   *)
(* bridged channel alone, and does not bridge one.                          *)
LEMMA LetterKeeps ==
  ASSUME NEW s, NEW c \in DOMAIN s.chans, NEW bridged \in BOOLEAN, NEW oper \in BOOLEAN, NEW given,
         NEW w, Working(w, s, c, bridged, oper, given), NEW ask \in Asks,
         oper /\ ask.letter = "o" /\ ask.on => <<ask.who, c>> \in given
  PROVE  Working(Letter(w, c, bridged, oper, ask), s, c, bridged, oper, given)
<1> DEFINE v == Letter(w, c, bridged, oper, ask)
           old == w.s.chans[c]
<1>1. IsChannel(old) /\ c \in DOMAIN w.s.chans
  BY DEF Working, Rooms, Registry
<1>2. ask.letter \in {"m", "t", "r", "k", "l", "o", "v"} /\ ask.on \in BOOLEAN
  BY DEF Asks
<1>3. CASE ask.letter = "m"
  <2> SUFFICES ASSUME ~ (bridged /\ ~oper)  PROVE Working(v, s, c, bridged, oper, given)
    BY <1>3 DEF Letter
  <2> DEFINE r == [old EXCEPT !.moderated = ask.on]
  <2>1. v = [w EXCEPT !.s.chans[c] = r]
    BY <1>3 DEF Letter
  <2>2. IsChannel(r) /\ r.rf = old.rf /\ r.members = old.members
    BY <1>1, <1>2 DEF IsChannel
  <2> HIDE DEF r, v
  <2> QED  BY <2>1, <2>2, SettingKeeps
<1>4. CASE ask.letter = "t"
  <2> DEFINE r == [old EXCEPT !.locked = ask.on]
  <2>1. v = [w EXCEPT !.s.chans[c] = r]
    BY <1>4 DEF Letter
  <2>2. IsChannel(r) /\ r.rf = old.rf /\ r.members = old.members
    BY <1>1, <1>2 DEF IsChannel
  <2> HIDE DEF r, v
  <2>3. Working(v, s, c, bridged, oper, given)
    BY <2>1, <2>2, SettingKeeps
  <2> QED  BY <2>3 DEF v
<1>5. CASE ask.letter = "k"
  <2> DEFINE r == [old EXCEPT !.key = ask.on]
  <2>1. v = [w EXCEPT !.s.chans[c] = r]
    BY <1>5 DEF Letter
  <2>2. IsChannel(r) /\ r.rf = old.rf /\ r.members = old.members
    BY <1>1, <1>2 DEF IsChannel
  <2> HIDE DEF r, v
  <2>3. Working(v, s, c, bridged, oper, given)
    BY <2>1, <2>2, SettingKeeps
  <2> QED  BY <2>3 DEF v
<1>6. CASE ask.letter = "l"
  <2> DEFINE r == [old EXCEPT !.limit = IF ask.on THEN 1 ELSE 0]
  <2>1. v = [w EXCEPT !.s.chans[c] = r]
    BY <1>6 DEF Letter
  <2>2. IsChannel(r) /\ r.rf = old.rf /\ r.members = old.members
    BY <1>1, <1>2 DEF IsChannel
  <2> HIDE DEF r, v
  <2>3. Working(v, s, c, bridged, oper, given)
    BY <2>1, <2>2, SettingKeeps
  <2> QED  BY <2>3 DEF v
<1>7. CASE ask.letter = "r"
  <2>1. CASE oper
    <3>1. v = Bridge(w, c, ask.on)
      BY <1>7, <2>1 DEF Letter
    <3> QED  BY <1>2, <2>1, <3>1, BridgeKeeps
  <2>2. CASE ~oper
    <3>1. v = w
      BY <1>7, <2>2 DEF Letter
    <3> QED  BY <3>1
  <2> QED  BY <2>1, <2>2
<1>8. CASE ask.letter = "o"
  <2>1. CASE bridged /\ ~oper
    <3>1. v = w
      BY <1>8, <2>1 DEF Letter
    <3> QED  BY <3>1
  <2>2. CASE ~ (bridged /\ ~oper)
    <3>1. v = Give(w, c, "o", ask.on, ask.who)
      BY <1>8, <2>2 DEF Letter
    <3>2. (oper \/ ~bridged) /\ (oper /\ ask.on => <<ask.who, c>> \in given)
      BY <1>8, <2>2
    <3> QED  BY <1>2, <3>1, <3>2, GiveKeeps
  <2> QED  BY <2>1, <2>2
<1>9. CASE ask.letter = "v"
  <2>1. v = Give(w, c, "v", ask.on, ask.who)
    BY <1>9 DEF Letter
  <2> QED  BY <1>2, <2>1, GiveKeeps
<1> HIDE DEF v
<1> QED  BY <1>2, <1>3, <1>4, <1>5, <1>6, <1>7, <1>8, <1>9 DEF v

(* A whole line.                                                            *)
LEMMA LettersKeep ==
  ASSUME NEW s, NEW given, Rooms(s, given, {}, {}), NEW c \in DOMAIN s.chans,
         NEW oper \in BOOLEAN, NEW request \in Seq(Asks),
         \A i \in DOMAIN request :
           oper /\ request[i].letter = "o" /\ request[i].on => <<request[i].who, c>> \in given
  PROVE  Working(Letters(s, c, s.chans[c].rf, oper, request), s, c, s.chans[c].rf, oper, given)
<1> DEFINE N == Len(request)
           bridged == s.chans[c].rf
           Step(g, n) == IF n = 0 THEN [s |-> s, refresh |-> {}]
                         ELSE Letter(g[n - 1], c, bridged, oper, request[n])
           Keeps(g, n) == g = [i \in 0 .. n |-> Step(g, i)]
           Can(n) == \E g : Keeps(g, n)
           T == {n \in Nat : Can(n)}
<1>1. 0 \in T
  <2> DEFINE g == [i \in 0 .. 0 |-> [s |-> s, refresh |-> {}]]
  <2>1. Keeps(g, 0)
    OBVIOUS
  <2>2. Can(0)
    <3> HIDE DEF g, Keeps
    <3> QED  BY <2>1
  <2> HIDE DEF Can
  <2> QED  BY <2>2
<1>2. ASSUME NEW n \in T  PROVE n + 1 \in T
  <2>1. n \in Nat /\ Can(n)
    <3> HIDE DEF Can
    <3> QED  OBVIOUS
  <2>2. PICK g : Keeps(g, n)
    <3> HIDE DEF Keeps
    <3> QED  BY <2>1
  <2> DEFINE h == [i \in 0 .. n + 1 |-> IF i <= n THEN g[i] ELSE Step(g, n + 1)]
  <2>3. ASSUME NEW i \in 0 .. n + 1  PROVE h[i] = Step(h, i)
    <3>1. CASE i = 0
      BY <2>1, <2>2, <3>1
    <3>2. CASE i # 0
      <4>1. i - 1 \in 0 .. n /\ h[i - 1] = g[i - 1]
        BY <2>1, <3>2
      <4>2. h[i] = Step(g, i)
        <5>1. CASE i <= n
          <6>1. i \in 0 .. n /\ h[i] = g[i]
            BY <2>1, <5>1
          <6> HIDE DEF h
          <6>2. g[i] = Step(g, i)
            BY <2>2, <6>1
          <6> QED  BY <6>1, <6>2
        <5>2. CASE i = n + 1
          BY <2>1, <5>2
        <5> QED  BY <2>1, <5>1, <5>2
      <4> QED  BY <3>2, <4>1, <4>2
    <3> QED  BY <3>1, <3>2
  <2>4. Keeps(h, n + 1)
    BY <2>3
  <2>5. Can(n + 1)
    <3> HIDE DEF h, Keeps
    <3> QED  BY <2>4
  <2> HIDE DEF Can
  <2> QED  BY <2>1, <2>5
<1>3. N \in Nat /\ Can(N) /\ DOMAIN request = 1 .. N
  <2>1. T = Nat
    <3> HIDE DEF Can
    <3>1. T \in SUBSET Nat
      OBVIOUS
    <3> HIDE DEF T
    <3> QED  BY <1>1, <1>2, <3>1, NatByInduction
  <2> HIDE DEF Can
  <2> QED  BY <2>1
<1> DEFINE K == CHOOSE g : Keeps(g, N)
<1>4. Letters(s, c, bridged, oper, request) = K[N]
  BY DEF Letters
<1>5. Keeps(K, N)
  <2> HIDE DEF Keeps
  <2> QED  BY <1>3
<1>6. /\ K[0] = [s |-> s, refresh |-> {}]
      /\ \A n \in 1 .. N : K[n] = Letter(K[n - 1], c, bridged, oper, request[n])
  <2> HIDE DEF K
  <2>1. \A n \in 0 .. N : K[n] = Step(K, n)
    BY <1>5
  <2>2. \A n \in 1 .. N : n \in 0 .. N /\ n # 0
    BY <1>3
  <2> QED  BY <1>3, <2>1, <2>2
<1> HIDE DEF K
<1> DEFINE Good(n) == Working(K[n], s, c, bridged, oper, given)
           G == {n \in Nat : n <= N => Good(n)}
<1>7. 0 \in G
  <2>1. DOMAIN K[0] = {"s", "refresh"} /\ K[0].s = s /\ K[0].refresh = {}
    BY <1>6
  <2>2. Good(0)
    BY <2>1 DEF Working
  <2> HIDE DEF Good
  <2> QED  BY <2>2
<1>8. ASSUME NEW n \in G  PROVE n + 1 \in G
  <2>0. n \in Nat /\ (n <= N => Good(n))
    <3> HIDE DEF Good
    <3> QED  OBVIOUS
  <2>1. ASSUME n + 1 <= N  PROVE Good(n + 1)
    <3>1. n + 1 \in 1 .. N /\ n <= N /\ request[n + 1] \in Asks
      BY <1>3, <2>0, <2>1
    <3>2. K[n + 1] = Letter(K[n], c, bridged, oper, request[n + 1])
      BY <1>6, <2>0, <3>1
    <3>3. Working(K[n], s, c, bridged, oper, given)
      BY <2>0, <3>1
    <3>4. oper /\ request[n + 1].letter = "o" /\ request[n + 1].on
            => <<request[n + 1].who, c>> \in given
      BY <1>3, <3>1
    <3>5. bridged \in BOOLEAN
      BY DEF Rooms, Registry, IsChannel
    <3> HIDE DEF bridged
    <3> QED  BY <3>1, <3>2, <3>3, <3>4, <3>5, LetterKeeps
  <2> HIDE DEF Good
  <2> QED  BY <2>0, <2>1
<1>9. Good(N)
  <2>1. G = Nat
    <3> HIDE DEF Good
    <3>1. G \in SUBSET Nat
      OBVIOUS
    <3> HIDE DEF G
    <3> QED  BY <1>7, <1>8, <3>1, NatByInduction
  <2> HIDE DEF Good
  <2> QED  BY <1>3, <2>1
<1> QED  BY <1>4, <1>9

(* MODE as a whole: the line, and then the rights worked out again.         *)
LEMMA ModeKeeps ==
  ASSUME NEW s, NEW given, Rooms(s, given, {}, {}), NEW c \in DOMAIN s.chans,
         NEW oper \in BOOLEAN, NEW request \in Seq(Asks),
         \A i \in DOMAIN request :
           oper /\ request[i].letter = "o" /\ request[i].on => <<request[i].who, c>> \in given
  PROVE  LET w == Letters(s, c, s.chans[c].rf, oper, request)
             t == RefreshPrivileges(w.s, w.refresh) IN
         /\ Rooms(t, given, {}, {})
         /\ t.users = s.users /\ t.peers = s.peers /\ t.heard = s.heard /\ t.removed = s.removed
<1> DEFINE w == Letters(s, c, s.chans[c].rf, oper, request)
<1>1. Working(w, s, c, s.chans[c].rf, oper, given)
  BY LettersKeep
<1> HIDE DEF w
<1>2. /\ Rooms(w.s, given, w.refresh, {}) /\ w.s.users = s.users
      /\ w.s.peers = s.peers /\ w.s.heard = s.heard /\ w.s.removed = s.removed
  BY <1>1 DEF Working
<1> DEFINE t == RefreshPrivileges(w.s, w.refresh)
<1>3. /\ Rooms(t, given, {}, {})
      /\ t.users = w.s.users /\ t.peers = w.s.peers /\ t.heard = w.s.heard
      /\ t.removed = w.s.removed
  <2>1. t = RefreshPrivileges(w.s, w.refresh)
    OBVIOUS
  <2> HIDE DEF t
  <2> QED  BY <1>2, <2>1, RefreshKeeps
<1> HIDE DEF t
<1>4. /\ Rooms(t, given, {}, {})
      /\ t.users = s.users /\ t.peers = s.peers /\ t.heard = s.heard /\ t.removed = s.removed
  BY <1>2, <1>3
<1> QED  BY <1>4 DEF t, w

(* Who somebody is changes: their rights are then to be worked out again.   *)
LEMMA UserKeeps ==
  ASSUME NEW s, NEW given, Rooms(s, given, {}, {}), NEW u \in DOMAIN s.users,
         NEW r \in Users, r.channels = s.users[u].channels,
         NEW t, DOMAIN t = Fields, t.evicted = {}, t.chans = s.chans,
         DOMAIN t.users = DOMAIN s.users, t.users[u] = r,
         \A v \in DOMAIN s.users \ {u} : t.users[v] = s.users[v]
  PROVE  Rooms(t, given, {u}, {})
<1>1. Registry(t)
  BY DEF Rooms, Registry
<1>2. \A v, c : IsMember(t, v, c) <=> IsMember(s, v, c)
  BY DEF IsMember
<1>3. \A v \in DOMAIN s.users : t.users[v].channels = s.users[v].channels
  OBVIOUS
<1>4. Seats(t)
  BY <1>2, <1>3 DEF Rooms, Seats
<1>5. NoneEmpty(t, {})
  BY DEF Rooms, NoneEmpty
<1>6. Rights(t, given, {u})
  <2>1. ASSUME NEW c \in DOMAIN t.chans, NEW v \in DOMAIN t.chans[c].members, v # u
        PROVE  Earned(t, v, c) <=> Earned(s, v, c)
    BY <2>1 DEF Rooms, Seats, Earned
  <2> QED  BY <2>1 DEF Rooms, Rights
<1> QED  BY <1>1, <1>4, <1>5, <1>6 DEF Rooms

-----------------------------------------------------------------------------
(* The table of stations, and how it agrees with the registry: but for the  *)
(* stations X, whoever is present has a record that says so, and is not     *)
(* barred.                                                                  *)
Table(s) ==
  /\ DOMAIN s.peers \subseteq Stations /\ \A x \in DOMAIN s.peers : s.peers[x] \in Peers
  /\ IsLine(s.heard) /\ ToSet(s.heard) = DOMAIN s.peers
  /\ IsFiniteSet(DOMAIN s.peers) /\ Cardinality(DOMAIN s.peers) <= MaxPeers
  /\ s.removed \subseteq Stations

Present(s, X) ==
  \A x \in (DOMAIN s.users \cap Stations) \ X :
    /\ x \in DOMAIN s.peers /\ s.peers[x].registered
    /\ x \notin s.removed
    /\ s.users[x].channels \cap s.peers[x].kicked = {}

Known(s) == \A x \in DOMAIN s.peers : s.peers[x].registered => x \in DOMAIN s.users

Server(s, given, X) == Rooms(s, given, {}, {}) /\ Table(s) /\ Present(s, X) /\ Known(s)

(* A station is heard from, or sent to.                                     *)
LEMMA TouchKeeps ==
  ASSUME NEW s, NEW given, NEW X, Server(s, given, X), NEW x \in Stations
  PROVE  LET t == Touch(s, x) IN
         /\ Server(t, given, X)
         /\ t.users = s.users /\ t.chans = s.chans /\ t.removed = s.removed
         /\ DOMAIN s.peers \subseteq DOMAIN t.peers
         /\ \A y \in DOMAIN s.peers : t.peers[y] = s.peers[y]
         /\ x \in DOMAIN s.peers => t.peers = s.peers
<1> DEFINE t == Touch(s, x)
<1>0. DOMAIN s = Fields /\ s.evicted = {}
  BY DEF Server, Rooms, Registry
<1>1. CASE x \in DOMAIN s.peers
  <2>1. t = [s EXCEPT !.heard = Append(Without(@, {x}), x)]
    BY <1>1 DEF Touch
  <2>2. /\ DOMAIN t = Fields /\ t.evicted = {} /\ t.heard = Append(Without(s.heard, {x}), x)
        /\ t.users = s.users /\ t.chans = s.chans /\ t.removed = s.removed /\ t.peers = s.peers
    BY <1>0, <2>1 DEF Fields
  <2>3. IsLine(Without(s.heard, {x})) /\ ToSet(Without(s.heard, {x})) = ToSet(s.heard) \ {x}
    BY LineShrinks DEF Server, Table
  <2> HIDE DEF t
  <2> DEFINE q == Without(s.heard, {x})
  <2>4. IsLine(t.heard) /\ ToSet(t.heard) = (ToSet(s.heard) \ {x}) \cup {x}
    <3>1. x \notin ToSet(q) /\ IsLine(q) /\ t.heard = Append(q, x)
      BY <2>2, <2>3
    <3>2. ToSet(q) = ToSet(s.heard) \ {x}
      BY <2>3
    <3> HIDE DEF q
    <3> QED  BY <3>1, <3>2, LineGrows
  <2>5. Table(t) /\ Present(t, X) /\ Known(t)
    BY <1>1, <2>2, <2>4 DEF Server, Table, Present, Known
  <2>6. Rooms(t, given, {}, {})
    BY <2>2, SameRooms DEF Server
  <2> QED  BY <2>2, <2>5, <2>6 DEF Server, t
<1>2. CASE x \notin DOMAIN s.peers /\ Cardinality(DOMAIN s.peers) >= MaxPeers
  BY <1>2 DEF Touch
<1>3. CASE x \notin DOMAIN s.peers /\ ~(Cardinality(DOMAIN s.peers) >= MaxPeers)
  <2> DEFINE r == [registered |-> FALSE, kicked |-> {}]
  <2>1. t = [s EXCEPT !.peers = Put(@, x, r), !.heard = Append(@, x)]
    BY <1>3 DEF Touch
  <2>2. /\ DOMAIN t = Fields /\ t.evicted = {} /\ t.heard = Append(s.heard, x)
        /\ t.users = s.users /\ t.chans = s.chans /\ t.removed = s.removed
        /\ t.peers = Put(s.peers, x, r)
    BY <1>0, <2>1 DEF Fields
  <2>3. r \in Peers /\ ~r.registered
    BY DEF Peers
  <2> HIDE DEF t, r
  <2>4. /\ DOMAIN t.peers = DOMAIN s.peers \cup {x} /\ t.peers[x] = r
        /\ \A y \in DOMAIN s.peers : t.peers[y] = s.peers[y]
    BY <1>3, <2>2 DEF Put
  <2>5. IsLine(t.heard) /\ ToSet(t.heard) = ToSet(s.heard) \cup {x}
    BY <1>3, <2>2, LineGrows DEF Server, Table
  <2>6. IsFiniteSet(DOMAIN t.peers) /\ Cardinality(DOMAIN t.peers) <= MaxPeers
    <3>1. IsFiniteSet(DOMAIN s.peers) /\ MaxPeers \in Nat
      BY ChannelsAssumption DEF Server, Table
    <3>2. /\ IsFiniteSet(DOMAIN s.peers \cup {x})
          /\ Cardinality(DOMAIN s.peers \cup {x}) = Cardinality(DOMAIN s.peers) + 1
      BY <1>3, <3>1, FS_AddElement
    <3>3. Cardinality(DOMAIN s.peers) \in Nat
      BY <3>1, FS_CardinalityType
    <3> QED  BY <1>3, <2>4, <3>1, <3>2, <3>3
  <2>7. Table(t)
    BY <2>2, <2>3, <2>4, <2>5, <2>6 DEF Server, Table
  <2>8. Present(t, X) /\ Known(t)
    BY <2>2, <2>3, <2>4 DEF Server, Present, Known
  <2>9. Rooms(t, given, {}, {})
    BY <2>2, SameRooms DEF Server
  <2> QED  BY <1>3, <2>2, <2>4, <2>7, <2>8, <2>9 DEF Server, t
<1> QED  BY <1>1, <1>2, <1>3

(* Something is sent to a station that has a record.  Nobody has to make    *)
(* room.                                                                    *)
LEMMA SendKeeps ==
  ASSUME NEW s, NEW given, NEW X, Server(s, given, X), NEW x \in DOMAIN s.peers, NEW air \in BOOLEAN
  PROVE  LET t == Unicast(s, x, air) IN
         /\ Server(t, given, X)
         /\ t.users = s.users /\ t.chans = s.chans /\ t.removed = s.removed /\ t.peers = s.peers
<1> DEFINE t == Unicast(s, x, air)
<1>1. t = IF air THEN Touch(s, x) ELSE s
  BY DEF Unicast, ForceTouch
<1>2. x \in Stations
  BY DEF Server, Table
<1> DEFINE w == Touch(s, x)
<1>3. w = Touch(s, x)
  OBVIOUS
<1> HIDE DEF w
<1>4. /\ Server(w, given, X)
      /\ w.users = s.users /\ w.chans = s.chans /\ w.removed = s.removed /\ w.peers = s.peers
  BY <1>2, <1>3, TouchKeeps
<1> HIDE DEF t
<1>5. t = w \/ t = s
  BY <1>1, <1>3
<1>6. /\ Server(t, given, X)
      /\ t.users = s.users /\ t.chans = s.chans /\ t.removed = s.removed /\ t.peers = s.peers
  BY <1>4, <1>5
<1> QED  BY <1>6 DEF t

(* Records are dropped; whoever was present by one must then go.            *)
LEMMA ForgetKeeps ==
  ASSUME NEW s, NEW given, Rooms(s, given, {}, {}), Table(s), NEW X
  PROVE  LET t == Forget(s, X) IN
         /\ Rooms(t, given, {}, {}) /\ Table(t)
         /\ t.users = s.users /\ t.removed = s.removed
         /\ DOMAIN t.peers = DOMAIN s.peers \ X
         /\ \A y \in DOMAIN t.peers : t.peers[y] = s.peers[y]
<1> DEFINE t == Forget(s, X)
<1>0. DOMAIN s = Fields /\ s.evicted = {}
  BY DEF Rooms, Registry
<1>1. t = [s EXCEPT !.peers = Less(@, X), !.heard = Without(@, X)]
  BY DEF Forget
<1>2. /\ DOMAIN t = Fields /\ t.evicted = {} /\ t.heard = Without(s.heard, X)
      /\ t.users = s.users /\ t.chans = s.chans /\ t.removed = s.removed
      /\ t.peers = Less(s.peers, X)
  BY <1>0, <1>1 DEF Fields
<1> HIDE DEF t
<1>3. /\ DOMAIN t.peers = DOMAIN s.peers \ X
      /\ \A y \in DOMAIN t.peers : t.peers[y] = s.peers[y]
  BY <1>2 DEF Less, Restrict
<1>4. IsLine(t.heard) /\ ToSet(t.heard) = ToSet(s.heard) \ X
  BY <1>2, LineShrinks DEF Table
<1>5. IsFiniteSet(DOMAIN t.peers) /\ Cardinality(DOMAIN t.peers) <= MaxPeers
  <2>1. IsFiniteSet(DOMAIN s.peers) /\ DOMAIN t.peers \subseteq DOMAIN s.peers
        /\ Cardinality(DOMAIN s.peers) <= MaxPeers
    BY <1>3 DEF Table
  <2>2. /\ IsFiniteSet(DOMAIN t.peers)
        /\ Cardinality(DOMAIN t.peers) <= Cardinality(DOMAIN s.peers)
    BY <2>1, FS_Subset
  <2>3. Cardinality(DOMAIN t.peers) \in Nat /\ Cardinality(DOMAIN s.peers) \in Nat /\ MaxPeers \in Nat
    BY <2>1, <2>2, FS_CardinalityType, ChannelsAssumption
  <2> QED  BY <2>1, <2>2, <2>3
<1>6. Table(t)
  BY <1>2, <1>3, <1>4, <1>5 DEF Table
<1>7. Rooms(t, given, {}, {})
  BY <1>2, SameRooms
<1> QED  BY <1>2, <1>3, <1>6, <1>7 DEF t

(* Users quit, and whoever had lost the record among them.                  *)
LEMMA QuitKeeps ==
  ASSUME NEW s, NEW given, NEW U, NEW X, X \subseteq U, Server(s, given, X)
  PROVE  Server(QuitUsers(s, U), given, {})
<1> DEFINE here == U \cap DOMAIN s.users
           r == RemoveUsers(s, here)
           t == Forget(r, here \cap Stations)
<1>1. CASE here = {}
  <2>1. QuitUsers(s, U) = s
    BY <1>1 DEF QuitUsers
  <2>2. Present(s, {})
    BY <1>1 DEF Server, Present
  <2> QED  BY <2>1, <2>2 DEF Server
<1>2. CASE here # {}
  <2>1. QuitUsers(s, U) = t
    BY <1>2 DEF QuitUsers
  <2>2. here \in SUBSET DOMAIN s.users /\ Rooms(s, given, {}, {})
    BY DEF Server
  <2>3. r = RemoveUsers(s, here)
    OBVIOUS
  <2> HIDE DEF here, r
  <2>4. /\ Rooms(r, given, {}, {})
        /\ r.peers = s.peers /\ r.heard = s.heard /\ r.removed = s.removed
        /\ DOMAIN r.users = DOMAIN s.users \ here
        /\ \A u \in DOMAIN r.users : r.users[u].channels = s.users[u].channels
    BY <2>2, <2>3, DropKeeps
  <2>5. Table(r)
    BY <2>4 DEF Server, Table
  <2>6. t = Forget(r, here \cap Stations)
    OBVIOUS
  <2> HIDE DEF t
  <2>7. /\ Rooms(t, given, {}, {}) /\ Table(t)
        /\ t.users = r.users /\ t.removed = r.removed
        /\ DOMAIN t.peers = DOMAIN r.peers \ (here \cap Stations)
        /\ \A y \in DOMAIN t.peers : t.peers[y] = r.peers[y]
    BY <2>4, <2>5, <2>6, ForgetKeeps
  <2>8. DOMAIN t.peers \subseteq Stations
    BY <2>7 DEF Table
  <2>9. Known(t)
    BY <2>4, <2>7, <2>8 DEF Server, Known
  <2>10. Present(t, {})
    <3> SUFFICES ASSUME NEW x \in DOMAIN t.users \cap Stations
                 PROVE  /\ x \in DOMAIN t.peers /\ t.peers[x].registered
                        /\ x \notin t.removed
                        /\ t.users[x].channels \cap t.peers[x].kicked = {}
      BY DEF Present
    <3>1. x \in DOMAIN s.users /\ x \notin here /\ t.users[x].channels = s.users[x].channels
      BY <2>4, <2>7
    <3>2. x \notin X
      BY <3>1 DEF here
    <3>3. /\ x \in DOMAIN s.peers /\ s.peers[x].registered /\ x \notin s.removed
          /\ s.users[x].channels \cap s.peers[x].kicked = {}
      BY <3>1, <3>2 DEF Server, Present
    <3>4. x \in DOMAIN t.peers /\ t.peers[x] = s.peers[x]
      BY <2>4, <2>7, <3>1, <3>3
    <3> QED  BY <2>4, <2>7, <3>1, <3>3, <3>4
  <2> QED  BY <2>1, <2>7, <2>9, <2>10 DEF Server
<1> QED  BY <1>1, <1>2

(* Nobody was evicted: the event is over as it stands.                      *)
LEMMA NobodyReaped ==
  ASSUME NEW s, s.evicted = {}
  PROVE  ReapEvicted(s) = s
BY DEF ReapEvicted, QuitUsers

(* A presence is made, for a station that is not barred.                    *)
LEMMA EnsureKeeps ==
  ASSUME NEW s, NEW given, Server(s, given, {}), NEW x \in DOMAIN s.peers, x \notin s.removed
  PROVE  LET t == EnsureUser(s, x) IN
         /\ Server(t, given, {})
         /\ x \in DOMAIN t.users /\ x \in DOMAIN t.peers
         /\ t.chans = s.chans /\ t.removed = s.removed
         /\ DOMAIN s.users \subseteq DOMAIN t.users
<1> DEFINE t == EnsureUser(s, x)
<1>0. x \in Stations /\ x \in Everyone /\ s.peers[x] \in Peers /\ DOMAIN s = Fields /\ s.evicted = {}
  BY DEF Server, Table, Everyone, Rooms, Registry
<1>1. CASE x \in DOMAIN s.users
  BY <1>1 DEF EnsureUser, Exists
<1>2. CASE x \notin DOMAIN s.users
  <2> DEFINE v == [s EXCEPT !.users = Put(@, x, NewUser(TRUE))]
             w == Touch(v, x)
  <2>1. t = IF x \in DOMAIN w.peers THEN [w EXCEPT !.peers[x].registered = TRUE] ELSE w
    BY <1>2 DEF EnsureUser, Exists
  <2>2. v = [s EXCEPT !.users = Put(@, x, NewUser(TRUE))]
    OBVIOUS
  <2>3. w = Touch(v, x)
    OBVIOUS
  <2> HIDE DEF v, w
  <2>4. /\ Rooms(v, given, {}, {})
        /\ v.chans = s.chans /\ v.peers = s.peers /\ v.heard = s.heard /\ v.removed = s.removed
        /\ DOMAIN v.users = DOMAIN s.users \cup {x} /\ v.users[x].channels = {}
        /\ \A y \in DOMAIN s.users : v.users[y] = s.users[y]
    <3> DEFINE r == NewUser(TRUE)
    <3>0. r \in Users /\ r.channels = {}
      BY DEF NewUser, Users
    <3>1. x \in Everyone \ DOMAIN s.users /\ Rooms(s, given, {}, {})
      BY <1>0, <1>2 DEF Server
    <3>2. /\ DOMAIN v = Fields /\ v.evicted = {} /\ v.chans = s.chans
          /\ v.users = Put(s.users, x, r)
          /\ v.peers = s.peers /\ v.heard = s.heard /\ v.removed = s.removed
      BY <1>0, <2>2 DEF Fields
    <3> HIDE DEF r, t
    <3>3. Rooms(v, given, {}, {})
      BY <3>0, <3>1, <3>2, ArriveKeeps
    <3>4. DOMAIN v.users = DOMAIN s.users \cup {x} /\ v.users[x].channels = {}
      BY <3>0, <3>2 DEF Put
    <3>5. \A y \in DOMAIN s.users : v.users[y] = s.users[y]
      BY <1>2, <3>2 DEF Put
    <3> QED  BY <3>2, <3>3, <3>4, <3>5
  <2>5. Server(v, given, {x})
    <3>1. Table(v)
      BY <2>4 DEF Server, Table
    <3>2. Present(v, {x}) /\ Known(v)
      BY <2>4 DEF Server, Present, Known
    <3> QED  BY <2>4, <3>1, <3>2 DEF Server
  <2>6. /\ Server(w, given, {x})
        /\ w.users = v.users /\ w.chans = v.chans /\ w.removed = v.removed /\ w.peers = v.peers
    BY <1>0, <2>3, <2>4, <2>5, TouchKeeps
  <2>7. t = [w EXCEPT !.peers[x].registered = TRUE]
    BY <2>1, <2>4, <2>6
  <2>8. DOMAIN w = Fields /\ w.evicted = {}
    BY <2>6 DEF Server, Rooms, Registry
  <2>9. /\ DOMAIN t = Fields /\ t.evicted = {}
        /\ t.users = w.users /\ t.chans = w.chans /\ t.heard = w.heard /\ t.removed = w.removed
        /\ t.peers = [w.peers EXCEPT ![x].registered = TRUE]
    BY <2>7, <2>8 DEF Fields
  <2> HIDE DEF t
  <2>10. /\ DOMAIN t.peers = DOMAIN s.peers
         /\ t.peers[x] \in Peers /\ t.peers[x].registered /\ t.peers[x].kicked = s.peers[x].kicked
         /\ \A y \in DOMAIN s.peers \ {x} : t.peers[y] = s.peers[y]
    <3>1. t.peers = [s.peers EXCEPT ![x].registered = TRUE]
      BY <2>4, <2>6, <2>9
    <3> QED  BY <1>0, <3>1 DEF Peers
  <2>11. Table(t)
    BY <2>4, <2>6, <2>9, <2>10 DEF Server, Table
  <2>12. Known(t)
    BY <2>4, <2>6, <2>9, <2>10 DEF Server, Known
  <2>13. Present(t, {})
    <3>1. w.users[x].channels = {} /\ t.removed = s.removed
      BY <2>4, <2>6, <2>9
    <3> QED  BY <1>0, <2>4, <2>6, <2>9, <2>10, <3>1 DEF Server, Present
  <2>14. Rooms(t, given, {}, {})
    BY <2>6, <2>9, SameRooms DEF Server
  <2> QED  BY <2>4, <2>6, <2>9, <2>10, <2>11, <2>12, <2>13, <2>14 DEF Server, t
<1> QED  BY <1>1, <1>2

-----------------------------------------------------------------------------
(* What a frame does, once its station is in the table: each keeps what     *)
(* holds of the server.                                                     *)
Fine(s, given) == Server(s, given, {})

LEMMA AnswerFine ==
  ASSUME NEW s, NEW given, Fine(s, given), NEW x \in DOMAIN s.peers
  PROVE  LET t == Answer(s, x) IN
         /\ Fine(t, given)
         /\ t.users = s.users /\ t.chans = s.chans /\ t.removed = s.removed /\ t.peers = s.peers
<1> DEFINE t == Unicast(s, x, TRUE)
<1>1. t = Unicast(s, x, TRUE) /\ TRUE \in BOOLEAN
  OBVIOUS
<1> HIDE DEF t
<1>2. /\ Server(t, given, {})
      /\ t.users = s.users /\ t.chans = s.chans /\ t.removed = s.removed /\ t.peers = s.peers
  BY <1>1, SendKeeps DEF Fine
<1> QED  BY <1>1, <1>2 DEF Answer, Fine

(* A station that was kicked from a channel may ask for it again.           *)
LEMMA RfJoinFine ==
  ASSUME NEW s, NEW given, Fine(s, given), NEW x \in DOMAIN s.peers, NEW c
  PROVE  Fine(RfJoin(s, x, c), given)
<1>1. CASE ~Bridged(s, c)
  <2>1. RfJoin(s, x, c) = Answer(s, x)
    BY <1>1 DEF RfJoin
  <2> QED  BY <2>1, AnswerFine
<1>2. CASE Bridged(s, c) /\ (IsMember(s, x, c) \/ ~Exists(s, x))
  BY <1>2 DEF RfJoin
<1>3. CASE Bridged(s, c) /\ ~IsMember(s, x, c) /\ Exists(s, x)
  <2> DEFINE v == Join(s, x, c)
             w == [v EXCEPT !.peers[x].kicked = @ \ {c}]
  <2>1. RfJoin(s, x, c) = Answer(w, x)
    BY <1>3 DEF RfJoin
  <2>2. v = Join(s, x, c)
    OBVIOUS
  <2>3. /\ c \in DOMAIN s.chans /\ x \in DOMAIN s.users /\ Rooms(s, given, {}, {})
        /\ {} \subseteq {c} /\ x \in Stations /\ s.peers[x] \in Peers
    BY <1>3 DEF Bridged, Exists, Fine, Server, Table
  <2>4. (x \in Clients => Cardinality(s.users[x].channels) < MaxChannels) /\ ~IsMember(s, x, c)
    BY <1>3, <2>3, ChannelsAssumption
  <2> HIDE DEF v, w
  <2>5. /\ Rooms(v, given, {}, {})
        /\ v.peers = s.peers /\ v.heard = s.heard /\ v.removed = s.removed
        /\ DOMAIN v.users = DOMAIN s.users
        /\ v.users[x].channels = s.users[x].channels \cup {c}
        /\ \A y \in DOMAIN s.users \ {x} : v.users[y] = s.users[y]
    <3>1. Rooms(v, given, {}, {})
      BY <2>2, <2>3, <2>4, JoinKeeps
    <3>2. Registry(s)
      BY <2>3 DEF Rooms
    <3> QED  BY <2>2, <2>3, <2>4, <3>1, <3>2, JoinSeats
  <2>6. /\ DOMAIN w = Fields /\ w.evicted = {}
        /\ w.users = v.users /\ w.chans = v.chans /\ w.heard = v.heard /\ w.removed = v.removed
        /\ w.peers = [v.peers EXCEPT ![x].kicked = @ \ {c}]
    <3>1. DOMAIN v = Fields /\ v.evicted = {}
      BY <2>5 DEF Rooms, Registry
    <3> QED  BY <3>1 DEF Fields, w
  <2>7. w.peers = [s.peers EXCEPT ![x].kicked = @ \ {c}]
    BY <2>5, <2>6
  <2>8. /\ DOMAIN w.peers = DOMAIN s.peers /\ w.peers[x] \in Peers
        /\ w.peers[x].registered = s.peers[x].registered
        /\ w.peers[x].kicked = s.peers[x].kicked \ {c}
        /\ \A y \in DOMAIN s.peers \ {x} : w.peers[y] = s.peers[y]
    BY <2>3, <2>7 DEF Peers
  <2>9. Table(w)
    BY <2>5, <2>6, <2>8 DEF Fine, Server, Table
  <2>10. Present(w, {}) /\ Known(w)
    BY <2>5, <2>6, <2>8 DEF Fine, Server, Present, Known
  <2>11. Rooms(w, given, {}, {})
    BY <2>5, <2>6, SameRooms
  <2>12. Fine(w, given) /\ x \in DOMAIN w.peers
    BY <2>8, <2>9, <2>10, <2>11 DEF Fine, Server
  <2> QED  BY <2>1, <2>12, AnswerFine
<1> QED  BY <1>1, <1>2, <1>3

LEMMA EnsureFine ==
  ASSUME NEW s, NEW given, Fine(s, given), NEW x \in DOMAIN s.peers, x \notin s.removed
  PROVE  LET t == EnsureUser(s, x) IN
         /\ Fine(t, given) /\ x \in DOMAIN t.peers /\ x \in DOMAIN t.users /\ t.chans = s.chans
BY EnsureKeeps DEF Fine

LEMMA LiftFine ==
  ASSUME NEW s, NEW given, Fine(s, given), NEW x
  PROVE  LET t == LiftBan(s, x) IN
         Fine(t, given) /\ t.peers = s.peers /\ t.users = s.users /\ x \notin t.removed
<1> DEFINE t == LiftBan(s, x)
<1>1. /\ DOMAIN t = Fields /\ t.evicted = {}
      /\ t.users = s.users /\ t.chans = s.chans /\ t.peers = s.peers /\ t.heard = s.heard
      /\ t.removed = s.removed \ {x}
  BY DEF LiftBan, Fine, Server, Rooms, Registry, Fields
<1> HIDE DEF t
<1>2. Rooms(t, given, {}, {})
  BY <1>1, SameRooms DEF Fine, Server
<1>3. Table(t) /\ Present(t, {}) /\ Known(t)
  BY <1>1 DEF Fine, Server, Table, Present, Known
<1> QED  BY <1>1, <1>2, <1>3 DEF Fine, Server, t

LEMMA ChatFine ==
  ASSUME NEW s, NEW given, Fine(s, given), NEW x \in DOMAIN s.peers, NEW c
  PROVE  Fine(Chat(s, x, c), given)
<1> DEFINE t == EnsureUser(s, x)
<1>1. CASE x \in s.removed
  <2>1. Chat(s, x, c) = Answer(s, x)
    BY <1>1 DEF Chat
  <2> QED  BY <2>1, AnswerFine
<1>2. CASE x \notin s.removed
  <2>1. Chat(s, x, c) \in {Answer(t, x), t, RfJoin(t, x, c)}
    BY <1>2 DEF Chat
  <2>2. t = EnsureUser(s, x)
    OBVIOUS
  <2> HIDE DEF t
  <2>3. Fine(t, given) /\ x \in DOMAIN t.peers
    BY <1>2, <2>2, EnsureFine
  <2> QED  BY <2>1, <2>3, AnswerFine, RfJoinFine
<1> QED  BY <1>1, <1>2

LEMMA PrivateFine ==
  ASSUME NEW s, NEW given, Fine(s, given), NEW x \in DOMAIN s.peers, NEW who, NEW air \in BOOLEAN
  PROVE  Fine(Private(s, x, who, air), given)
<1> DEFINE t == EnsureUser(s, x)
<1>1. CASE x \in s.removed
  <2>1. Private(s, x, who, air) = Answer(s, x)
    BY <1>1 DEF Private
  <2> QED  BY <2>1, AnswerFine
<1>2. CASE x \notin s.removed
  <2>1. Private(s, x, who, air) =
          IF who \notin DOMAIN t.users THEN Answer(t, x)
          ELSE IF who \in Stations THEN Unicast(t, who, air) ELSE t
    BY <1>2 DEF Private, Exists
  <2>2. t = EnsureUser(s, x)
    OBVIOUS
  <2> HIDE DEF t
  <2>3. Fine(t, given) /\ x \in DOMAIN t.peers
    BY <1>2, <2>2, EnsureFine
  <2>4. CASE who \notin DOMAIN t.users
    BY <2>1, <2>3, <2>4, AnswerFine
  <2>5. CASE who \in DOMAIN t.users /\ who \in Stations
    <3>1. who \in DOMAIN t.peers
      BY <2>3, <2>5 DEF Fine, Server, Present
    <3> QED  BY <2>1, <2>3, <2>5, <3>1, SendKeeps DEF Fine
  <2>6. CASE who \in DOMAIN t.users /\ who \notin Stations
    BY <2>1, <2>3, <2>6
  <2> QED  BY <2>4, <2>5, <2>6
<1> QED  BY <1>1, <1>2

-----------------------------------------------------------------------------
(* The inductive invariant, between events.                                 *)
ChannelsInv == Fine(Now, trusted) /\ modes \in 0..MaxModes

(* The event is over: what was given to a membership that is gone is        *)
(* forgotten, and that is no right of anybody.                              *)
LEMMA DoneFine ==
  ASSUME NEW s, NEW given, Fine(s, given), Done(s, given)
  PROVE  Fine(Now', trusted')
<1>1. ReapEvicted(s) = s /\ DOMAIN s = Fields /\ s.evicted = {}
  BY NobodyReaped DEF Fine, Server, Rooms, Registry
<1>2. /\ users' = s.users /\ chans' = s.chans /\ peers' = s.peers /\ heard' = s.heard
      /\ removed' = s.removed /\ trusted' = {g \in given : IsMember(s, g[1], g[2])}
  BY <1>1 DEF Done
<1> DEFINE kept == {g \in given : IsMember(s, g[1], g[2])}
           t == [users |-> s.users, chans |-> s.chans, peers |-> s.peers, heard |-> s.heard,
                 removed |-> s.removed, evicted |-> {}]
<1>3. Now' = t /\ trusted' = kept
  BY <1>2 DEF Now
<1>4. /\ DOMAIN t = Fields /\ t.evicted = {} /\ t.users = s.users /\ t.chans = s.chans
      /\ t.peers = s.peers /\ t.heard = s.heard /\ t.removed = s.removed
  BY DEF Fields
<1>5. ASSUME NEW c \in DOMAIN s.chans, NEW u \in DOMAIN s.chans[c].members
      PROVE  <<u, c>> \in given => <<u, c>> \in kept
  BY DEF IsMember
<1> HIDE DEF t, kept
<1>6. Rights(s, kept, {})
  BY <1>5 DEF Fine, Server, Rooms, Rights
<1>7. Rooms(s, kept, {}, {})
  BY <1>6 DEF Fine, Server, Rooms
<1>8. Rooms(t, kept, {}, {})
  BY <1>4, <1>7, SameRooms
<1>9. Table(t) /\ Present(t, {}) /\ Known(t)
  BY <1>4 DEF Fine, Server, Table, Present, Known
<1> QED  BY <1>3, <1>8, <1>9 DEF Fine, Server

(* One lemma for each kind of event.  First the lines of a client.          *)
LEMMA ConnectFine ==
  ASSUME ChannelsInv, NEW u \in Clients, Connect(u)  PROVE Fine(Now', trusted')
<1>1. PICK s, g : s = Now /\ g = trusted
  OBVIOUS
<1>2. PICK t : t = [s EXCEPT !.users = Put(@, u, NewUser(FALSE))]
  OBVIOUS
<1>3. Done(t, g) /\ u \notin DOMAIN s.users /\ Fine(s, g)
  BY <1>1, <1>2 DEF Connect, Becomes, Done, Now, ChannelsInv
<1>4. /\ DOMAIN t = Fields /\ t.evicted = {} /\ t.users = Put(s.users, u, NewUser(FALSE))
      /\ t.chans = s.chans /\ t.peers = s.peers /\ t.heard = s.heard /\ t.removed = s.removed
  BY <1>2, <1>3 DEF Fine, Server, Rooms, Registry, Fields
<1>5. PICK r : r = NewUser(FALSE)
  OBVIOUS
<1>6. r \in Users /\ r.channels = {} /\ u \in Everyone /\ u \notin Stations
  BY <1>5, ChannelsAssumption DEF NewUser, Users, Everyone
<1>7. Rooms(s, g, {}, {}) /\ t.users = Put(s.users, u, r)
  BY <1>3, <1>4, <1>5 DEF Fine, Server
<1>8. Rooms(t, g, {}, {})
  BY <1>3, <1>4, <1>6, <1>7, ArriveKeeps
<1>9. /\ DOMAIN t.users = DOMAIN s.users \cup {u}
      /\ \A v \in DOMAIN s.users : t.users[v] = s.users[v]
  BY <1>3, <1>7 DEF Put
<1>10. Fine(t, g)
  <2>1. Table(t) /\ Known(t)
    BY <1>3, <1>4, <1>9 DEF Fine, Server, Table, Known
  <2>2. Present(t, {})
    BY <1>3, <1>4, <1>6, <1>9 DEF Fine, Server, Present
  <2> QED  BY <1>8, <2>1, <2>2 DEF Fine, Server
<1> QED  BY <1>3, <1>10, DoneFine

LEMMA JoinFine ==
  ASSUME NEW s, NEW given, NEW w, Fine(w, given), NEW c \in Chans, NEW E, E \subseteq {c},
         Rooms(s, given, {}, E), c \in DOMAIN s.chans,
         s.users = w.users, s.peers = w.peers, s.heard = w.heard, s.removed = w.removed,
         NEW u \in DOMAIN s.users \cap Clients, ~IsMember(s, u, c),
         Cardinality(s.users[u].channels) < MaxChannels
  PROVE  Fine(Join(s, u, c), given)
<1>1. PICK t : t = Join(s, u, c)
  OBVIOUS
<1>2. Rooms(t, given, {}, {})
  BY <1>1, JoinKeeps
<1>3. /\ t.peers = s.peers /\ t.heard = s.heard /\ t.removed = s.removed
      /\ DOMAIN t.users = DOMAIN s.users
      /\ \A v \in DOMAIN s.users \ {u} : t.users[v] = s.users[v]
  <2>1. Registry(s)
    BY DEF Rooms
  <2> QED  BY <1>1, <2>1, JoinSeats
<1>4. u \notin Stations
  BY ChannelsAssumption
<1>5. Table(t) /\ Known(t)
  BY <1>3 DEF Fine, Server, Table, Known
<1>6. Present(t, {})
  BY <1>3, <1>4 DEF Fine, Server, Present
<1> QED  BY <1>1, <1>2, <1>5, <1>6 DEF Fine, Server

LEMMA DoJoinFine ==
  ASSUME ChannelsInv, NEW u \in Clients, NEW c \in Chans, NEW keyed \in BOOLEAN, DoJoin(u, c, keyed)
  PROVE  Fine(Now', trusted')
<1>1. PICK s, g : s = Now /\ g = trusted
  OBVIOUS
<1>2. /\ Fine(s, g) /\ u \in DOMAIN s.users /\ ~IsMember(s, u, c)
      /\ Cardinality(s.users[u].channels) < MaxChannels
  BY <1>1 DEF DoJoin, ChannelsInv, Exists, Now
<1>3. s.users = users /\ s.chans = chans
  BY <1>1 DEF Now
<1>4. CASE c \in DOMAIN chans
  <2>1. PICK t : t = Join(s, u, c)
    OBVIOUS
  <2>2. Done(t, g)
    BY <1>1, <1>4, <2>1 DEF DoJoin, Becomes, Done
  <2>3. Rooms(s, g, {}, {}) /\ {} \subseteq {c} /\ c \in DOMAIN s.chans
    BY <1>2, <1>3, <1>4 DEF Fine, Server
  <2>4. Fine(t, g)
    BY <1>2, <2>1, <2>3, JoinFine
  <2> QED  BY <2>2, <2>4, DoneFine
<1>5. CASE c \notin DOMAIN chans
  <2>1. PICK w : w = [s EXCEPT !.chans = Put(@, c, NewChannel(FALSE))]
    OBVIOUS
  <2>2. PICK t : t = Join(w, u, c)
    OBVIOUS
  <2>3. Done(t, g)
    BY <1>1, <1>5, <2>1, <2>2 DEF DoJoin, Becomes, Done
  <2>4. /\ DOMAIN w = Fields /\ w.evicted = {} /\ w.users = s.users
        /\ w.chans = Put(s.chans, c, NewChannel(FALSE))
        /\ w.peers = s.peers /\ w.heard = s.heard /\ w.removed = s.removed
    BY <1>2, <2>1 DEF Fine, Server, Rooms, Registry, Fields
  <2>5. Rooms(s, g, {}, {}) /\ c \in Chans \ DOMAIN s.chans
    BY <1>2, <1>3, <1>5 DEF Fine, Server
  <2>6. Rooms(w, g, {}, {c}) /\ c \in DOMAIN w.chans
    BY <2>4, <2>5, OpenKeeps
  <2>7. ~IsMember(w, u, c)
    BY <2>4, <2>5 DEF IsMember, Put, NewChannel
  <2>8. Fine(t, g)
    <3>1. {c} \subseteq {c} /\ u \in DOMAIN w.users \cap Clients
      BY <1>2, <2>4
    <3> QED  BY <1>2, <2>2, <2>4, <2>6, <2>7, <3>1, JoinFine
  <2> QED  BY <2>3, <2>8, DoneFine
<1> QED  BY <1>4, <1>5

LEMMA LeaveFine ==
  ASSUME NEW s, NEW given, Fine(s, given), NEW M \in SUBSET (Everyone \X Chans)
  PROVE  Fine(Leave(s, M), given)
<1>1. PICK t : t = Leave(s, M)
  OBVIOUS
<1>2. Rooms(s, given, {}, {})
  BY DEF Fine, Server
<1>3. /\ Rooms(t, given, {}, {})
      /\ t.peers = s.peers /\ t.heard = s.heard /\ t.removed = s.removed
      /\ DOMAIN t.users = DOMAIN s.users
      /\ \A u \in DOMAIN s.users : \A c :
           c \in t.users[u].channels <=> c \in s.users[u].channels /\ <<u, c>> \notin M
  BY <1>1, <1>2, LeaveKeeps
<1>4. Table(t) /\ Known(t)
  BY <1>3 DEF Fine, Server, Table, Known
<1>5. \A u \in DOMAIN s.users : t.users[u].channels \subseteq s.users[u].channels
  BY <1>3
<1>6. Present(t, {})
  BY <1>3, <1>5 DEF Fine, Server, Present
<1> QED  BY <1>1, <1>3, <1>4, <1>6 DEF Fine, Server

LEMMA DoPartFine ==
  ASSUME ChannelsInv, NEW u \in Clients, NEW c \in Chans, DoPart(u, c)  PROVE Fine(Now', trusted')
<1>1. PICK s, g, t : s = Now /\ g = trusted /\ t = Leave(s, {<<u, c>>})
  OBVIOUS
<1>2. Fine(s, g) /\ Done(t, g)
  BY <1>1 DEF DoPart, Becomes, Done, Part, ChannelsInv
<1>3. {<<u, c>>} \in SUBSET (Everyone \X Chans)
  BY DEF Everyone
<1>4. Fine(t, g)
  BY <1>1, <1>2, <1>3, LeaveFine
<1> QED  BY <1>2, <1>4, DoneFine

LEMMA JoinZeroFine ==
  ASSUME ChannelsInv, NEW u \in Clients, JoinZero(u)  PROVE Fine(Now', trusted')
<1>1. PICK s, g, t : s = Now /\ g = trusted /\ t = Leave(s, {u} \X s.users[u].channels)
  OBVIOUS
<1>2. Fine(s, g) /\ Done(t, g) /\ u \in DOMAIN s.users
  BY <1>1 DEF JoinZero, Becomes, Done, PartAll, ChannelsInv, Exists
<1>3. s.users[u].channels \subseteq Chans
  BY <1>2 DEF Fine, Server, Rooms, Registry, Users
<1>4. ({u} \X s.users[u].channels) \in SUBSET (Everyone \X Chans)
  BY <1>3 DEF Everyone
<1>5. Fine(t, g)
  BY <1>1, <1>2, <1>4, LeaveFine
<1> QED  BY <1>2, <1>5, DoneFine

LEMMA TopicFine ==
  ASSUME ChannelsInv, NEW u \in Clients, NEW c \in Chans, NEW topic \in {"old", "new"},
         Topic(u, c, topic)
  PROVE  Fine(Now', trusted') /\ modes' \in 0..MaxModes
<1>1. PICK s, g : s = Now /\ g = trusted
  OBVIOUS
<1>2. PICK t : t = [s EXCEPT !.chans[c].topic = topic]
  OBVIOUS
<1>3. Fine(s, g) /\ Done(t, g)
  BY <1>1, <1>2 DEF Topic, Done, ChannelsInv
<1>4. c \in DOMAIN s.chans
  BY <1>1 DEF Topic, IsMember
<1>5. DOMAIN s = Fields /\ s.evicted = {} /\ IsChannel(s.chans[c]) /\ Rooms(s, g, {}, {})
  BY <1>3, <1>4 DEF Fine, Server, Rooms, Registry
<1>6. /\ DOMAIN t = Fields /\ t.evicted = {} /\ t.users = s.users
      /\ t.peers = s.peers /\ t.heard = s.heard /\ t.removed = s.removed
      /\ t.chans = [s.chans EXCEPT ![c].topic = topic]
  BY <1>2, <1>5 DEF Fields
<1>7. PICK r : r = [s.chans[c] EXCEPT !.topic = topic]
  OBVIOUS
<1>8. IsChannel(r) /\ r.rf = s.chans[c].rf /\ r.members = s.chans[c].members
  BY <1>5, <1>7 DEF IsChannel
<1>9. /\ DOMAIN t.chans = DOMAIN s.chans /\ t.chans[c] = r
      /\ \A d \in DOMAIN s.chans \ {c} : t.chans[d] = s.chans[d]
  BY <1>4, <1>6, <1>7
<1>10. r.rf => \A v \in DOMAIN r.members :
         /\ r.members[v].opManual => <<v, c>> \in g
         /\ v \notin {} /\ r.members[v].op => Earned(s, v, c) \/ <<v, c>> \in g
  BY <1>4, <1>5, <1>8 DEF Rooms, Rights
<1>11. Rooms(t, g, {}, {})
  <2>1. {} \subseteq {} /\ DOMAIN r.members = DOMAIN s.chans[c].members
    BY <1>8
  <2> QED  BY <1>4, <1>5, <1>6, <1>8, <1>9, <1>10, <2>1, ChangeKeeps
<1>12. Table(t) /\ Present(t, {}) /\ Known(t)
  BY <1>3, <1>6 DEF Fine, Server, Table, Present, Known
<1>13. Fine(t, g)
  BY <1>11, <1>12 DEF Fine, Server
<1>14. modes' \in 0..MaxModes
  BY ChannelsAssumption DEF Topic, ChannelsInv
<1> QED  BY <1>3, <1>13, <1>14, DoneFine

LEMMA ModeFine ==
  ASSUME ChannelsInv, NEW u \in Clients, NEW c \in Chans, NEW request \in Requests,
         Mode(u, c, request)
  PROVE  Fine(Now', trusted') /\ modes' \in 0..MaxModes
<1>1. PICK s, g : s = Now /\ g = trusted
  OBVIOUS
<1>2. PICK oper \in BOOLEAN : oper = IsOper(s, u)
  <2>1. u \in DOMAIN s.users /\ Fine(s, g)
    BY <1>1 DEF Mode, Exists, ChannelsInv
  <2> QED  BY <2>1 DEF Fine, Server, Rooms, Registry, Users, IsOper
<1>3. PICK asked : asked = {v \in Clients \cup Stations : \E i \in DOMAIN request :
                     request[i].letter = "o" /\ request[i].on /\ request[i].who = v}
  OBVIOUS
<1>4. PICK given : given = IF oper THEN g \cup (asked \X {c}) ELSE g
  OBVIOUS
<1>5. PICK w : w = Letters(s, c, s.chans[c].rf, oper, request)
  OBVIOUS
<1>6. PICK t : t = RefreshPrivileges(w.s, w.refresh)
  OBVIOUS
<1>7. /\ c \in DOMAIN s.chans /\ Fine(s, g)
      /\ modes < MaxModes /\ modes' = modes + 1
  BY <1>1 DEF Mode, ChannelsInv, Now
<1>8. Done(t, given)
  <2>1. s.chans[c].rf = chans[c].rf
    BY <1>1 DEF Now
  <2> QED  BY <1>1, <1>2, <1>3, <1>4, <1>5, <1>6, <2>1 DEF Mode, Done
<1>9. request \in Seq(Asks)
  BY ChannelsAssumption DEF Asks, Everyone
<1>10. \A i \in DOMAIN request :
         oper /\ request[i].letter = "o" /\ request[i].on => <<request[i].who, c>> \in given
  <2> SUFFICES ASSUME NEW i \in DOMAIN request,
                      oper, request[i].letter = "o", request[i].on
               PROVE  <<request[i].who, c>> \in given
    OBVIOUS
  <2>1. request[i].who \in Clients \cup Stations
    <3>1. request[i] \in Asks
      BY <1>9
    <3> QED  BY <3>1 DEF Asks, Everyone
  <2>2. request[i].who \in asked
    BY <1>3, <2>1
  <2> QED  BY <1>4, <2>2
<1>11. Rooms(s, given, {}, {})
  <2>1. g \subseteq given
    BY <1>4
  <2>2. Rights(s, given, {})
    BY <1>7, <2>1 DEF Fine, Server, Rooms, Rights
  <2> QED  BY <1>7, <2>2 DEF Fine, Server, Rooms
<1>12. /\ Rooms(t, given, {}, {})
       /\ t.users = s.users /\ t.peers = s.peers /\ t.heard = s.heard /\ t.removed = s.removed
  BY <1>5, <1>6, <1>7, <1>9, <1>10, <1>11, ModeKeeps
<1>13. Table(t) /\ Present(t, {}) /\ Known(t)
  BY <1>7, <1>12 DEF Fine, Server, Table, Present, Known
<1>14. Fine(t, given)
  BY <1>12, <1>13 DEF Fine, Server
<1>15. modes' \in 0..MaxModes
  BY <1>7, ChannelsAssumption DEF ChannelsInv
<1> QED  BY <1>8, <1>14, <1>15, DoneFine

LEMMA KickFine ==
  ASSUME ChannelsInv, NEW u \in Clients, NEW c \in Chans, NEW who \in Everyone, NEW air \in BOOLEAN,
         Kick(u, c, who, air)
  PROVE  Fine(Now', trusted')
<1>1. PICK s, g : s = Now /\ g = trusted
  OBVIOUS
<1>2. PICK out : out = Leave(s, {<<who, c>>})
  OBVIOUS
<1>3. PICK marked : marked = IF who \in DOMAIN out.peers
                             THEN [out EXCEPT !.peers[who].kicked = @ \cup {c}] ELSE out
  OBVIOUS
<1>4. PICK t : t = IF who \in Stations THEN Unicast(marked, who, air) ELSE out
  OBVIOUS
<1>5. Fine(s, g) /\ Done(t, g) /\ who \in DOMAIN s.users
  <2>1. Fine(s, g) /\ Done(t, g)
    BY <1>1, <1>2, <1>3, <1>4 DEF Kick, Becomes, Done, Part, ChannelsInv
  <2>2. IsMember(s, who, c)
    BY <1>1 DEF Kick
  <2> QED  BY <2>1, <2>2 DEF Fine, Server, Rooms, Seats, IsMember
<1>6. {<<who, c>>} \in SUBSET (Everyone \X Chans) /\ Rooms(s, g, {}, {})
  BY <1>5 DEF Fine, Server
<1>7. Fine(out, g)
  BY <1>2, <1>5, <1>6, LeaveFine
<1>8. CASE who \notin Stations
  BY <1>4, <1>5, <1>7, <1>8, DoneFine
<1>9. CASE who \in Stations
  <2>1. /\ out.peers = s.peers /\ DOMAIN out.users = DOMAIN s.users
        /\ c \notin out.users[who].channels
    <3>1. PICK M \in SUBSET (Everyone \X Chans) : M = {<<who, c>>}
      BY <1>6
    <3>2. out = Leave(s, M)
      BY <1>2, <3>1
    <3>3. /\ Rooms(out, g, {}, {})
          /\ out.peers = s.peers /\ DOMAIN out.users = DOMAIN s.users
          /\ \A v \in DOMAIN s.users : \A d :
               d \in out.users[v].channels <=> d \in s.users[v].channels /\ <<v, d>> \notin M
      BY <1>6, <3>2, LeaveKeeps
    <3> QED  BY <1>5, <3>1, <3>3
  <2>2. who \in DOMAIN out.peers
    BY <1>5, <1>7, <1>9, <2>1 DEF Fine, Server, Present
  <2>3. DOMAIN out = Fields /\ out.evicted = {} /\ out.peers[who] \in Peers
    BY <1>7, <2>2 DEF Fine, Server, Rooms, Registry, Table
  <2>4. /\ DOMAIN marked = Fields /\ marked.evicted = {}
        /\ marked.users = out.users /\ marked.chans = out.chans
        /\ marked.heard = out.heard /\ marked.removed = out.removed
        /\ marked.peers = [out.peers EXCEPT ![who].kicked = @ \cup {c}]
    BY <1>3, <2>2, <2>3 DEF Fields
  <2>5. /\ DOMAIN marked.peers = DOMAIN out.peers /\ marked.peers[who] \in Peers
        /\ marked.peers[who].registered = out.peers[who].registered
        /\ marked.peers[who].kicked = out.peers[who].kicked \cup {c}
        /\ \A y \in DOMAIN out.peers \ {who} : marked.peers[y] = out.peers[y]
    BY <2>2, <2>3, <2>4 DEF Peers
  <2>6. Rooms(marked, g, {}, {})
    BY <1>7, <2>4, SameRooms DEF Fine, Server
  <2>7. Table(marked) /\ Known(marked)
    BY <1>7, <2>4, <2>5 DEF Fine, Server, Table, Known
  <2>8. Present(marked, {})
    BY <1>7, <2>1, <2>4, <2>5 DEF Fine, Server, Present
  <2>9. Server(marked, g, {}) /\ who \in DOMAIN marked.peers
    BY <2>2, <2>5, <2>6, <2>7, <2>8 DEF Server
  <2>10. t = Unicast(marked, who, air)
    BY <1>4, <1>9
  <2>11. Fine(t, g)
    BY <2>9, <2>10, SendKeeps DEF Fine
  <2> QED  BY <1>5, <2>11, DoneFine
<1> QED  BY <1>8, <1>9

LEMMA WhisperFine ==
  ASSUME ChannelsInv, NEW u \in Clients, NEW x \in Stations, Whisper(u, x)
  PROVE  Fine(Now', trusted')
<1>1. PICK s, g : s = Now /\ g = trusted
  OBVIOUS
<1>2. PICK t : t = Unicast(s, x, TRUE)
  OBVIOUS
<1>3. Fine(s, g) /\ Done(t, g) /\ x \in DOMAIN s.users
  BY <1>1, <1>2 DEF Whisper, Becomes, Done, Exists, ChannelsInv
<1>4. x \in DOMAIN s.peers
  BY <1>3 DEF Fine, Server, Present
<1>5. Fine(t, g)
  BY <1>2, <1>3, <1>4, AnswerFine DEF Answer
<1> QED  BY <1>3, <1>5, DoneFine

LEMMA QuitFine ==
  ASSUME NEW s, NEW given, Fine(s, given), NEW U
  PROVE  Fine(QuitUsers(s, U), given)
<1>1. {} \subseteq U
  OBVIOUS
<1> QED  BY <1>1, QuitKeeps DEF Fine

LEMMA LeavesFine ==
  ASSUME ChannelsInv, NEW u \in Clients, NEW who, Quit(u) \/ Kill(u, who)
  PROVE  Fine(Now', trusted')
<1>1. PICK s, g, t, v : s = Now /\ g = trusted /\ t = QuitUsers(s, {u}) /\ v = QuitUsers(s, {who})
  OBVIOUS
<1>2. Fine(s, g) /\ (Done(t, g) \/ Done(v, g))
  BY <1>1 DEF Quit, Kill, Becomes, Done, ChannelsInv
<1>3. Fine(t, g) /\ Fine(v, g)
  BY <1>1, <1>2, QuitFine
<1> QED  BY <1>2, <1>3, DoneFine

(* Somebody becomes a control operator, proves to be who they say, or shows *)
(* a callsign; or is seen to be no longer.                                  *)
LEMMA BecomesFine ==
  ASSUME NEW s, NEW given, Fine(s, given), NEW u \in DOMAIN s.users, u \in Clients,
         NEW r \in Users, r.channels = s.users[u].channels,
         NEW w, DOMAIN w = Fields, w.evicted = {}, w.chans = s.chans,
         w.peers = s.peers, w.heard = s.heard, w.removed = s.removed,
         w.users = [s.users EXCEPT ![u] = r]
  PROVE  Fine(RefreshPrivileges(w, {u}), given)
<1>1. /\ DOMAIN w.users = DOMAIN s.users /\ w.users[u] = r
      /\ \A v \in DOMAIN s.users \ {u} : w.users[v] = s.users[v]
  OBVIOUS
<1>2. Rooms(s, given, {}, {})
  BY DEF Fine, Server
<1>3. Rooms(w, given, {u}, {})
  BY <1>1, <1>2, UserKeeps
<1>4. PICK U : U = {u}
  OBVIOUS
<1>5. PICK t : t = RefreshPrivileges(w, U)
  OBVIOUS
<1>6. /\ Rooms(t, given, {}, {})
      /\ t.users = w.users /\ t.peers = w.peers /\ t.heard = w.heard /\ t.removed = w.removed
  <2>1. Rooms(w, given, U, {})
    BY <1>3, <1>4
  <2> QED  BY <1>5, <2>1, RefreshKeeps
<1>7. Table(t) /\ Known(t)
  BY <1>1, <1>6 DEF Fine, Server, Table, Known
<1>8. Present(t, {})
  <2>1. u \notin Stations
    BY ChannelsAssumption
  <2> QED  BY <1>1, <1>6, <2>1 DEF Fine, Server, Present
<1> QED  BY <1>4, <1>5, <1>6, <1>7, <1>8 DEF Fine, Server

LEMMA OperFine ==
  ASSUME ChannelsInv, NEW u \in Clients, Oper(u)
  PROVE  Fine(Now', trusted')
<1>1. PICK s, g : s = Now /\ g = trusted
  OBVIOUS
<1>2. PICK w : w = [s EXCEPT !.users[u].oper = TRUE]
  OBVIOUS
<1>3. PICK t : t = RefreshPrivileges(w, {u})
  OBVIOUS
<1>4. Fine(s, g) /\ Done(t, g) /\ u \in DOMAIN s.users
  BY <1>1, <1>2, <1>3 DEF Oper, Becomes, Done, Exists, ChannelsInv
<1>5. DOMAIN s = Fields /\ s.evicted = {} /\ s.users[u] \in Users
  BY <1>4 DEF Fine, Server, Rooms, Registry
<1>6. PICK r : r = [s.users[u] EXCEPT !.oper = TRUE]
  OBVIOUS
<1>7. /\ DOMAIN w = Fields /\ w.evicted = {} /\ w.chans = s.chans
      /\ w.peers = s.peers /\ w.heard = s.heard /\ w.removed = s.removed
      /\ w.users = [s.users EXCEPT ![u] = r]
  BY <1>2, <1>5, <1>6 DEF Fields
<1>8. r \in Users /\ r.channels = s.users[u].channels
  BY <1>5, <1>6 DEF Users
<1>9. Fine(t, g)
  BY <1>3, <1>4, <1>7, <1>8, BecomesFine
<1> QED  BY <1>4, <1>9, DoneFine

LEMMA IdentifyFine ==
  ASSUME ChannelsInv, NEW u \in Clients, NEW on \in BOOLEAN, Identify(u, on)
  PROVE  Fine(Now', trusted')
<1>1. PICK s, g : s = Now /\ g = trusted
  OBVIOUS
<1>2. PICK w : w = [s EXCEPT !.users[u].identified = on, !.users[u].callsign = @ /\ on]
  OBVIOUS
<1>3. PICK t : t = RefreshPrivileges(w, {u})
  OBVIOUS
<1>4. Fine(s, g) /\ Done(t, g) /\ u \in DOMAIN s.users
  BY <1>1, <1>2, <1>3 DEF Identify, Becomes, Done, Exists, ChannelsInv
<1>5. DOMAIN s = Fields /\ s.evicted = {} /\ s.users[u] \in Users
  BY <1>4 DEF Fine, Server, Rooms, Registry
<1>6. PICK r : r = [s.users[u] EXCEPT !.identified = on, !.callsign = @ /\ on]
  OBVIOUS
<1>7. /\ DOMAIN w = Fields /\ w.evicted = {} /\ w.chans = s.chans
      /\ w.peers = s.peers /\ w.heard = s.heard /\ w.removed = s.removed
      /\ w.users = [s.users EXCEPT ![u] = r]
  <2>1. /\ DOMAIN w = Fields /\ w.evicted = {} /\ w.chans = s.chans
        /\ w.peers = s.peers /\ w.heard = s.heard /\ w.removed = s.removed
    BY <1>2, <1>5 DEF Fields
  <2>2. w.users = [s.users EXCEPT ![u].identified = on, ![u].callsign = @ /\ on]
    BY <1>2, <1>5 DEF Fields
  <2>3. w.users = [s.users EXCEPT ![u] = r]
    BY <1>4, <1>5, <1>6, <2>2 DEF Users
  <2> QED  BY <2>1, <2>3
<1>8. r \in Users /\ r.channels = s.users[u].channels
  BY <1>5, <1>6 DEF Users
<1>9. Fine(t, g)
  BY <1>3, <1>4, <1>7, <1>8, BecomesFine
<1> QED  BY <1>4, <1>9, DoneFine

LEMMA CallsignFine ==
  ASSUME ChannelsInv, NEW u \in Clients, NEW on \in BOOLEAN, Callsign(u, on)
  PROVE  Fine(Now', trusted')
<1>1. PICK s, g : s = Now /\ g = trusted
  OBVIOUS
<1>2. PICK w : w = [s EXCEPT !.users[u].callsign = on]
  OBVIOUS
<1>3. PICK t : t = RefreshPrivileges(w, {u})
  OBVIOUS
<1>4. Fine(s, g) /\ Done(t, g) /\ u \in DOMAIN s.users
  BY <1>1, <1>2, <1>3 DEF Callsign, Becomes, Done, Exists, ChannelsInv
<1>5. DOMAIN s = Fields /\ s.evicted = {} /\ s.users[u] \in Users
  BY <1>4 DEF Fine, Server, Rooms, Registry
<1>6. PICK r : r = [s.users[u] EXCEPT !.callsign = on]
  OBVIOUS
<1>7. /\ DOMAIN w = Fields /\ w.evicted = {} /\ w.chans = s.chans
      /\ w.peers = s.peers /\ w.heard = s.heard /\ w.removed = s.removed
      /\ w.users = [s.users EXCEPT ![u] = r]
  BY <1>2, <1>5, <1>6 DEF Fields
<1>8. r \in Users /\ r.channels = s.users[u].channels
  BY <1>5, <1>6 DEF Users
<1>9. Fine(t, g)
  BY <1>3, <1>4, <1>7, <1>8, BecomesFine
<1> QED  BY <1>4, <1>9, DoneFine

LEMMA RadioKickFine ==
  ASSUME ChannelsInv, NEW u \in Clients, NEW x \in Stations, RadioKick(u, x)
  PROVE  Fine(Now', trusted')
<1>1. PICK s, g : s = Now /\ g = trusted
  OBVIOUS
<1>2. PICK w : w = [s EXCEPT !.removed = @ \cup {x}]
  OBVIOUS
<1>3. PICK U : U = {x}
  OBVIOUS
<1>4. PICK t : t = QuitUsers(w, U)
  OBVIOUS
<1>5. Fine(s, g) /\ Done(t, g)
  BY <1>1, <1>2, <1>3, <1>4 DEF RadioKick, Becomes, Done, ChannelsInv
<1>6. /\ DOMAIN w = Fields /\ w.evicted = {} /\ w.users = s.users /\ w.chans = s.chans
      /\ w.peers = s.peers /\ w.heard = s.heard /\ w.removed = s.removed \cup {x}
  BY <1>2, <1>5 DEF Fine, Server, Rooms, Registry, Fields
<1>7. Rooms(w, g, {}, {})
  BY <1>5, <1>6, SameRooms DEF Fine, Server
<1>8. Table(w) /\ Present(w, U) /\ Known(w)
  BY <1>3, <1>5, <1>6 DEF Fine, Server, Table, Present, Known
<1>9. Server(w, g, U) /\ U \subseteq U
  BY <1>7, <1>8 DEF Server
<1>10. Fine(t, g)
  BY <1>4, <1>9, QuitKeeps DEF Fine
<1> QED  BY <1>5, <1>10, DoneFine

(* Then the frames of a station.  Each finds it in the table.               *)
LEMMA FrameFine ==
  ASSUME ChannelsInv, NEW x \in Stations, Heard(x)
  PROVE  Fine(Frame(x), trusted) /\ x \in DOMAIN Frame(x).peers
<1>1. PICK s, g : s = Now /\ g = trusted
  OBVIOUS
<1>2. PICK t : t = Touch(s, x)
  OBVIOUS
<1>3. Server(s, g, {})
  BY <1>1 DEF ChannelsInv, Fine
<1>4. Server(t, g, {})
  BY <1>2, <1>3, TouchKeeps
<1> QED  BY <1>1, <1>2, <1>4 DEF Frame, Heard, Fine

LEMMA HelloFine ==
  ASSUME ChannelsInv, NEW x \in Stations, Hello(x)
  PROVE  Fine(Now', trusted')
<1>1. PICK s, g : s = Frame(x) /\ g = trusted
  OBVIOUS
<1>2. PICK w, v, t : w = LiftBan(s, x) /\ v = EnsureUser(w, x) /\ t = Answer(v, x)
  OBVIOUS
<1>3. Done(t, g) /\ Heard(x)
  BY <1>1, <1>2 DEF Hello, Becomes, Done
<1>4. Fine(s, g) /\ x \in DOMAIN s.peers
  BY <1>1, <1>3, FrameFine
<1>5. Fine(w, g) /\ w.peers = s.peers /\ x \notin w.removed
  BY <1>2, <1>4, LiftFine
<1>6. Fine(v, g) /\ x \in DOMAIN v.peers
  BY <1>2, <1>4, <1>5, EnsureFine
<1>7. Fine(t, g)
  BY <1>2, <1>6, AnswerFine
<1> QED  BY <1>3, <1>7, DoneFine

LEMMA JoinFrameFine ==
  ASSUME ChannelsInv, NEW x \in Stations, NEW c, JoinFrame(x, c)
  PROVE  Fine(Now', trusted')
<1>1. PICK s, g : s = Frame(x) /\ g = trusted
  OBVIOUS
<1>2. PICK w, v, t : w = LiftBan(s, x) /\ v = EnsureUser(w, x) /\ t = RfJoin(v, x, c)
  OBVIOUS
<1>3. Done(t, g) /\ Heard(x)
  BY <1>1, <1>2 DEF JoinFrame, Becomes, Done
<1>4. Fine(s, g) /\ x \in DOMAIN s.peers
  BY <1>1, <1>3, FrameFine
<1>5. Fine(w, g) /\ w.peers = s.peers /\ x \notin w.removed
  BY <1>2, <1>4, LiftFine
<1>6. Fine(v, g) /\ x \in DOMAIN v.peers
  BY <1>2, <1>4, <1>5, EnsureFine
<1>7. Fine(t, g)
  BY <1>2, <1>6, RfJoinFine
<1> QED  BY <1>3, <1>7, DoneFine

LEMMA PartFrameFine ==
  ASSUME ChannelsInv, NEW x \in Stations, NEW c \in Chans, PartFrame(x, c)
  PROVE  Fine(Now', trusted')
<1>1. PICK s, g, M : s = Frame(x) /\ g = trusted /\ M = {<<x, c>>}
  OBVIOUS
<1>2. PICK t : t = Leave(s, M)
  OBVIOUS
<1>3. (Done(t, g) \/ Done(s, g)) /\ Heard(x)
  BY <1>1, <1>2 DEF PartFrame, Becomes, Done, Part
<1>4. Fine(s, g)
  BY <1>1, <1>3, FrameFine
<1>5. M \in SUBSET (Everyone \X Chans)
  BY <1>1 DEF Everyone
<1>6. Fine(t, g)
  BY <1>2, <1>4, <1>5, LeaveFine
<1> QED  BY <1>3, <1>4, <1>6, DoneFine

LEMMA QueryFine ==
  ASSUME ChannelsInv, NEW x \in Stations, Query(x)
  PROVE  Fine(Now', trusted')
<1>1. PICK s, g : s = Frame(x) /\ g = trusted
  OBVIOUS
<1>2. PICK t : t = Answer(s, x)
  OBVIOUS
<1>3. (Done(t, g) \/ Done(s, g)) /\ Heard(x)
  BY <1>1, <1>2 DEF Query, Becomes, Done
<1>4. Fine(s, g) /\ x \in DOMAIN s.peers
  BY <1>1, <1>3, FrameFine
<1>5. Fine(t, g)
  BY <1>2, <1>4, AnswerFine
<1> QED  BY <1>3, <1>4, <1>5, DoneFine

LEMMA QuitFrameFine ==
  ASSUME ChannelsInv, NEW x \in Stations, QuitFrame(x)
  PROVE  Fine(Now', trusted')
<1>1. PICK s, g, U : s = Frame(x) /\ g = trusted /\ U = {x}
  OBVIOUS
<1>2. PICK t : t = QuitUsers(s, U)
  OBVIOUS
<1>3. Done(t, g) /\ Heard(x)
  BY <1>1, <1>2 DEF QuitFrame, Becomes, Done
<1>4. Fine(s, g)
  BY <1>1, <1>3, FrameFine
<1>5. Fine(t, g)
  BY <1>2, <1>4, QuitFine
<1> QED  BY <1>3, <1>5, DoneFine

LEMMA ChatFrameFine ==
  ASSUME ChannelsInv, NEW x \in Stations, NEW c, ChatFrame(x, c)
  PROVE  Fine(Now', trusted')
<1>1. PICK s, g : s = Frame(x) /\ g = trusted
  OBVIOUS
<1>2. PICK t : t = Chat(s, x, c)
  OBVIOUS
<1>3. Done(t, g) /\ Heard(x)
  BY <1>1, <1>2 DEF ChatFrame, Becomes, Done
<1>4. Fine(s, g) /\ x \in DOMAIN s.peers
  BY <1>1, <1>3, FrameFine
<1>5. Fine(t, g)
  BY <1>2, <1>4, ChatFine
<1> QED  BY <1>3, <1>5, DoneFine

LEMMA PrivateFrameFine ==
  ASSUME ChannelsInv, NEW x \in Stations, NEW who, NEW air \in BOOLEAN, PrivateFrame(x, who, air)
  PROVE  Fine(Now', trusted')
<1>1. PICK s, g : s = Frame(x) /\ g = trusted
  OBVIOUS
<1>2. PICK t : t = Private(s, x, who, air)
  OBVIOUS
<1>3. Done(t, g) /\ Heard(x)
  BY <1>1, <1>2 DEF PrivateFrame, Becomes, Done
<1>4. Fine(s, g) /\ x \in DOMAIN s.peers
  BY <1>1, <1>3, FrameFine
<1>5. Fine(t, g)
  BY <1>2, <1>4, PrivateFine
<1> QED  BY <1>3, <1>5, DoneFine

LEMMA AprsChatFine ==
  ASSUME ChannelsInv, NEW x \in Stations, NEW c, AprsChat(x, c)
  PROVE  Fine(Now', trusted')
<1>1. PICK s, g : s = Frame(x) /\ g = trusted
  OBVIOUS
<1>2. PICK v, t : v = EnsureUser(s, x) /\ t = RfJoin(v, x, c)
  OBVIOUS
<1>3. Heard(x)
  BY DEF AprsChat
<1>4. Fine(s, g) /\ x \in DOMAIN s.peers
  BY <1>1, <1>3, FrameFine
<1>5. CASE x \in removed \/ ~Bridged(Now, c)
  <2>1. Done(s, g)
    BY <1>1, <1>5 DEF AprsChat, Becomes, Done
  <2> QED  BY <1>4, <2>1, DoneFine
<1>6. CASE ~ (x \in removed \/ ~Bridged(Now, c))
  <2>1. Done(v, g) \/ Done(t, g)
    BY <1>1, <1>2, <1>6 DEF AprsChat, Becomes, Done
  <2>2. s.removed = removed
    <3>1. PICK n : n = Now
      OBVIOUS
    <3>2. Server(n, g, {}) /\ s = Touch(n, x) /\ n.removed = removed
      BY <1>1, <3>1 DEF ChannelsInv, Fine, Frame, Now
    <3> QED  BY <3>2, TouchKeeps
  <2>3. Fine(v, g) /\ x \in DOMAIN v.peers
    BY <1>2, <1>4, <1>6, <2>2, EnsureFine
  <2>4. Fine(t, g)
    BY <1>2, <2>3, RfJoinFine
  <2> QED  BY <2>1, <2>3, <2>4, DoneFine
<1> QED  BY <1>5, <1>6

(* And the stations that are lost.                                          *)
LEMMA LostFine ==
  ASSUME ChannelsInv, NEW gone \in SUBSET Stations, Lost(gone)
  PROVE  Fine(Now', trusted')
<1>1. PICK s, g : s = Now /\ g = trusted
  OBVIOUS
<1>2. PICK w : w = Forget(s, gone)
  OBVIOUS
<1>3. PICK t : t = QuitUsers(w, gone)
  OBVIOUS
<1>4. Fine(s, g) /\ Done(t, g)
  BY <1>1, <1>2, <1>3 DEF Lost, Becomes, Done, ChannelsInv
<1>5. Rooms(s, g, {}, {}) /\ Table(s)
  BY <1>4 DEF Fine, Server
<1>6. /\ Rooms(w, g, {}, {}) /\ Table(w)
      /\ w.users = s.users /\ w.removed = s.removed
      /\ DOMAIN w.peers = DOMAIN s.peers \ gone
      /\ \A y \in DOMAIN w.peers : w.peers[y] = s.peers[y]
  BY <1>2, <1>5, ForgetKeeps
<1>7. Present(w, gone) /\ Known(w)
  BY <1>4, <1>6 DEF Fine, Server, Present, Known
<1>8. Server(w, g, gone) /\ gone \subseteq gone
  BY <1>6, <1>7 DEF Server
<1>9. Fine(t, g)
  BY <1>3, <1>8, QuitKeeps DEF Fine
<1> QED  BY <1>4, <1>9, DoneFine

-----------------------------------------------------------------------------
LEMMA InitFine == Init => ChannelsInv
<1> SUFFICES ASSUME Init  PROVE ChannelsInv
  OBVIOUS
<1>1. PICK s : s = Now
  OBVIOUS
<1>2. /\ DOMAIN s = Fields /\ s.evicted = {} /\ s.users = <<>> /\ s.peers = <<>> /\ s.heard = <<>>
      /\ s.removed = {} /\ s.chans = [c \in Configured |-> NewChannel(c \in Radio)]
  BY <1>1 DEF Now, Init, Fields
<1>3. /\ DOMAIN s.users = {} /\ DOMAIN s.peers = {} /\ DOMAIN s.heard = {} /\ s.heard \in Seq(Stations)
  BY <1>2
<1>4. /\ DOMAIN s.chans = Configured
      /\ \A c \in Configured : IsChannel(s.chans[c]) /\ DOMAIN s.chans[c].members = {}
  <2>1. ASSUME NEW c \in Configured
        PROVE  IsChannel(s.chans[c]) /\ DOMAIN s.chans[c].members = {}
    <3> DEFINE rf == c \in Radio
    <3>1. rf \in BOOLEAN
      OBVIOUS
    <3>2. s.chans[c] = [rf |-> rf, moderated |-> rf, locked |-> TRUE, key |-> FALSE, limit |-> 0,
                        topic |-> "old", members |-> <<>>]
      BY <1>2 DEF NewChannel
    <3>3. DOMAIN <<>> = {}
      OBVIOUS
    <3> HIDE DEF rf
    <3> QED  BY <3>1, <3>2, <3>3 DEF IsChannel
  <2> QED  BY <1>2, <2>1
<1>5. Registry(s)
  BY <1>2, <1>3, <1>4, ChannelsAssumption DEF Registry
<1>6. Seats(s) /\ NoneEmpty(s, {})
  BY <1>3, <1>4 DEF Seats, NoneEmpty
<1>7. Rights(s, trusted, {})
  BY <1>4 DEF Rights
<1>8. IsFiniteSet({}) /\ Cardinality({}) <= MaxPeers
  BY FS_EmptySet, ChannelsAssumption
<1>9. IsLine(s.heard) /\ ToSet(s.heard) = DOMAIN s.peers
  BY <1>3 DEF IsLine, IsInjective, ToSet
<1>10. Table(s)
  BY <1>2, <1>3, <1>8, <1>9 DEF Table
<1>11. Present(s, {}) /\ Known(s)
  BY <1>3 DEF Present, Known
<1>12. Fine(s, trusted)
  BY <1>5, <1>6, <1>7, <1>10, <1>11 DEF Fine, Server, Rooms
<1>13. modes \in 0..MaxModes
  BY ChannelsAssumption DEF Init
<1> QED  BY <1>1, <1>12, <1>13 DEF ChannelsInv

LEMMA SameFine ==
  ASSUME ChannelsInv, UNCHANGED vars
  PROVE  Fine(Now', trusted') /\ modes' \in 0..MaxModes
<1>1. Now' = Now /\ trusted' = trusted /\ modes' = modes
  BY DEF vars, Now
<1> QED  BY <1>1 DEF ChannelsInv

LEMMA LineFine ==
  ASSUME ChannelsInv, NEW u \in Clients, Line(u)
  PROVE  Fine(Now', trusted') /\ modes' \in 0..MaxModes
<1>1. CASE Connect(u)
  BY <1>1, ConnectFine DEF Connect, Becomes, ChannelsInv
<1>2. CASE JoinZero(u)
  BY <1>2, JoinZeroFine DEF JoinZero, Becomes, ChannelsInv
<1>3. CASE Quit(u)
  BY <1>3, LeavesFine DEF Quit, Becomes, ChannelsInv
<1>4. ASSUME NEW c \in Chans, NEW keyed \in BOOLEAN, DoJoin(u, c, keyed)
      PROVE  Fine(Now', trusted') /\ modes' \in 0..MaxModes
  <2>1. modes' = modes
    BY <1>4 DEF DoJoin, Becomes
  <2> QED  BY <1>4, <2>1, DoJoinFine DEF ChannelsInv
<1>5. ASSUME NEW c \in Chans, DoPart(u, c)
      PROVE  Fine(Now', trusted') /\ modes' \in 0..MaxModes
  BY <1>5, DoPartFine DEF DoPart, Becomes, ChannelsInv
<1>6. ASSUME NEW c \in Chans, NEW topic \in {"old", "new"}, Topic(u, c, topic)
      PROVE  Fine(Now', trusted') /\ modes' \in 0..MaxModes
  BY <1>6, TopicFine
<1>7. ASSUME NEW c \in Chans, NEW request \in Requests, Mode(u, c, request)
      PROVE  Fine(Now', trusted') /\ modes' \in 0..MaxModes
  BY <1>7, ModeFine
<1>8. ASSUME NEW c \in Chans, NEW who \in Clients \cup Stations, NEW air \in BOOLEAN,
             Kick(u, c, who, air)
      PROVE  Fine(Now', trusted') /\ modes' \in 0..MaxModes
  <2>1. modes' = modes
    BY <1>8 DEF Kick, Becomes
  <2>2. who \in Everyone
    BY DEF Everyone
  <2> QED  BY <1>8, <2>1, <2>2, KickFine DEF ChannelsInv
<1>9. ASSUME NEW x \in Stations, Whisper(u, x)
      PROVE  Fine(Now', trusted') /\ modes' \in 0..MaxModes
  BY <1>9, WhisperFine DEF Whisper, Becomes, ChannelsInv
<1>10. ASSUME NEW x \in Stations, RadioKick(u, x)
       PROVE  Fine(Now', trusted') /\ modes' \in 0..MaxModes
  BY <1>10, RadioKickFine DEF RadioKick, Becomes, ChannelsInv
<1>11. ASSUME NEW who \in Clients \cup Stations, Kill(u, who)
       PROVE  Fine(Now', trusted') /\ modes' \in 0..MaxModes
  BY <1>11, LeavesFine DEF Kill, Becomes, ChannelsInv
<1>12. CASE Oper(u)
  BY <1>12, OperFine DEF Oper, Becomes, ChannelsInv
<1>13. ASSUME NEW on \in BOOLEAN, Identify(u, on)
       PROVE  Fine(Now', trusted') /\ modes' \in 0..MaxModes
  BY <1>13, IdentifyFine DEF Identify, Becomes, ChannelsInv
<1>14. ASSUME NEW on \in BOOLEAN, Callsign(u, on)
       PROVE  Fine(Now', trusted') /\ modes' \in 0..MaxModes
  BY <1>14, CallsignFine DEF Callsign, Becomes, ChannelsInv
<1> QED  BY <1>1, <1>2, <1>3, <1>4, <1>5, <1>6, <1>7, <1>8, <1>9, <1>10, <1>11, <1>12, <1>13, <1>14
         DEF Line

LEMMA AirFine ==
  ASSUME ChannelsInv, NEW x \in Stations, Air(x)
  PROVE  Fine(Now', trusted') /\ modes' \in 0..MaxModes
<1>1. modes' = modes
  BY DEF Air, Hello, Query, QuitFrame, JoinFrame, PartFrame, ChatFrame, AprsChat, PrivateFrame, Becomes
<1>2. CASE Hello(x)
  BY <1>1, <1>2, HelloFine DEF ChannelsInv
<1>3. CASE Query(x)
  BY <1>1, <1>3, QueryFine DEF ChannelsInv
<1>4. CASE QuitFrame(x)
  BY <1>1, <1>4, QuitFrameFine DEF ChannelsInv
<1>5. ASSUME NEW c \in Chans, JoinFrame(x, c) \/ PartFrame(x, c) \/ ChatFrame(x, c) \/ AprsChat(x, c)
      PROVE  Fine(Now', trusted')
  BY <1>5, JoinFrameFine, PartFrameFine, ChatFrameFine, AprsChatFine
<1>6. ASSUME NEW who \in Stations, NEW air \in BOOLEAN, PrivateFrame(x, who, air)
      PROVE  Fine(Now', trusted')
  BY <1>6, PrivateFrameFine
<1> QED  BY <1>1, <1>2, <1>3, <1>4, <1>5, <1>6 DEF Air, ChannelsInv

LEMMA NextFine == ChannelsInv /\ [Next]_vars => ChannelsInv'
<1> SUFFICES ASSUME ChannelsInv, [Next]_vars  PROVE Fine(Now', trusted') /\ modes' \in 0..MaxModes
  BY DEF ChannelsInv
<1>1. ASSUME NEW u \in Clients, Line(u)  PROVE Fine(Now', trusted') /\ modes' \in 0..MaxModes
  BY <1>1, LineFine
<1>2. ASSUME NEW x \in Stations, Air(x)  PROVE Fine(Now', trusted') /\ modes' \in 0..MaxModes
  BY <1>2, AirFine
<1>3. ASSUME NEW gone \in SUBSET Stations, Lost(gone)
      PROVE  Fine(Now', trusted') /\ modes' \in 0..MaxModes
  BY <1>3, LostFine DEF Lost, Becomes, ChannelsInv
<1>4. CASE UNCHANGED vars
  BY <1>4, SameFine
<1> QED  BY <1>1, <1>2, <1>3, <1>4 DEF Next

LEMMA ChannelsInvHolds == Spec => []ChannelsInv
BY InitFine, NextFine, PTL DEF Spec

(* The registry and the table of stations stay well formed: no channel of   *)
(* the configuration is ever lost, the line of stations names each of the   *)
(* table once, and the table does not outgrow max_peers (session.rs touch,  *)
(* force_touch).                                                            *)
THEOREM ServerTyped == Spec => []TypeOK
<1>1. ChannelsInv => TypeOK
  <2> SUFFICES ASSUME ChannelsInv  PROVE TypeOK
    OBVIOUS
  <2>1. PICK s : s = Now /\ Fine(s, trusted)
    BY DEF ChannelsInv
  <2>2. /\ s.users = users /\ s.chans = chans /\ s.peers = peers /\ s.heard = heard
        /\ s.removed = removed
    BY <2>1 DEF Now
  <2>3. /\ DOMAIN users \subseteq Clients \cup Stations
        /\ \A u \in DOMAIN users : users[u] \in Users
        /\ Configured \subseteq DOMAIN chans /\ DOMAIN chans \subseteq Chans
        /\ \A c \in DOMAIN chans : IsChannel(chans[c])
    BY <2>1, <2>2 DEF Fine, Server, Rooms, Registry, Everyone
  <2>4. /\ DOMAIN peers \subseteq Stations /\ Cardinality(DOMAIN peers) <= MaxPeers
        /\ \A x \in DOMAIN peers : peers[x] \in Peers
        /\ ToSet(heard) = DOMAIN peers /\ IsInjective(heard)
        /\ removed \subseteq Stations
    BY <2>1, <2>2 DEF Fine, Server, Table, IsLine
  <2> QED  BY <2>3, <2>4 DEF TypeOK, IsChannel, ChannelsInv
<1> QED  BY <1>1, ChannelsInvHolds, PTL

(* The table of users and the table of channels never disagree on who is    *)
(* where, whatever mix of JOIN, PART, KICK, KILL, QUIT, MODE and frames of  *)
(* the air changes them; an empty channel of the users' own is gone, and    *)
(* max_channels_per_user holds (state.rs join, part, remove_user,           *)
(* reap_channel).                                                           *)
THEOREM MembershipsAgree == Spec => []MembershipAgrees
<1>1. ChannelsInv => MembershipAgrees
  <2> SUFFICES ASSUME ChannelsInv  PROVE MembershipAgrees
    OBVIOUS
  <2>1. PICK s : s = Now /\ Fine(s, trusted)
    BY DEF ChannelsInv
  <2>2. s.users = users /\ s.chans = chans
    BY <2>1 DEF Now
  <2>3. /\ \A c \in DOMAIN chans : DOMAIN chans[c].members \subseteq DOMAIN users
        /\ \A u \in DOMAIN users : users[u].channels = {c \in DOMAIN chans : IsMember(s, u, c)}
        /\ \A u \in DOMAIN users \cap Clients : Cardinality(users[u].channels) <= MaxChannels
    BY <2>1, <2>2 DEF Fine, Server, Rooms, Seats
  <2>4. \A c \in DOMAIN chans \ Configured : DOMAIN chans[c].members # {}
    BY <2>1, <2>2 DEF Fine, Server, Rooms, NoneEmpty
  <2> QED  BY <2>1, <2>3, <2>4 DEF MembershipAgrees
<1> QED  BY <1>1, ChannelsInvHolds, PTL

(* Who may operate on a bridged channel is a control operator, an operator  *)
(* of the configuration who has proved it, or was made one by a control     *)
(* operator: bridging a channel takes back what its users gave each other   *)
(* (channels.rs cmd_mode, state.rs apply_intended_flags).                   *)
THEOREM BridgesAreControlled == Spec => []OpOnBridge
<1>1. ChannelsInv => OpOnBridge
  <2> SUFFICES ASSUME ChannelsInv  PROVE OpOnBridge
    OBVIOUS
  <2>1. PICK s : s = Now /\ Fine(s, trusted)
    BY DEF ChannelsInv
  <2>2. s.users = users /\ s.chans = chans
    BY <2>1 DEF Now
  <2>3. Rights(s, trusted, {})
    BY <2>1 DEF Fine, Server, Rooms
  <2> QED  BY <2>2, <2>3 DEF Rights, Earned, OpOnBridge
<1> QED  BY <1>1, ChannelsInvHolds, PTL

(* A station is present on IRC exactly when its record says so, and then it *)
(* is neither barred nor on a channel it was kicked from: no order of       *)
(* kicks, removals, retried frames and lost records parts the two tables    *)
(* (mod.rs reap_evicted_peers, quit_user; bridge.rs rf_message).            *)
THEOREM StationsAreAgreed == Spec => []StationsAgree
<1>1. ChannelsInv => StationsAgree
  <2> SUFFICES ASSUME ChannelsInv  PROVE StationsAgree
    OBVIOUS
  <2>1. PICK s : s = Now /\ Fine(s, trusted)
    BY DEF ChannelsInv
  <2>2. s.users = users /\ s.peers = peers /\ s.removed = removed
    BY <2>1 DEF Now
  <2>3. Present(s, {}) /\ Known(s)
    BY <2>1 DEF Fine, Server
  <2> QED  BY <2>2, <2>3 DEF Present, Known, StationsAgree
<1> QED  BY <1>1, ChannelsInvHolds, PTL
=============================================================================
