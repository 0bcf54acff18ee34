------------------------- MODULE ConnectionsProofs -------------------------
(***************************************************************************)
(* What TLAPS proves of connections, for any number of them, any limits    *)
(* and any lengths of the queues: first of the bans, which need no more    *)
(* than the roster (BanHolds), then of the rest, from one invariant in     *)
(* four parts (ConnInv): types, the gate's counts, what of each client is  *)
(* in the queue of events or ahead of it (RosterInv), and the roster as it *)
(* will be when each Connected in the queue is handled (PlaceInv).         *)
(***************************************************************************)
EXTENDS Connections, FiniteSetTheorems, TLAPS

(* What most of the server's steps do to the roster: some leave it.        *)
Shrinks == users' \subseteq users /\ UNCHANGED <<bans, exempt>>

LEMMA ShrinksKeeps ==
  ASSUME BannedIsOut, Shrinks
  PROVE  BannedIsOut'
BY DEF BannedIsOut, Shrinks

(* The tasks of the clients do not touch it.                               *)
LEMMA TasksShrink ==
  ASSUME NEW c \in Conns,
         \/ Admit(c) \/ Release(c) \/ Report(c) \/ Read(c)
         \/ IdleTick(c) \/ HangUp(c) \/ Write(c)
  PROVE  Shrinks
<1>1. CASE Admit(c)
  BY <1>1 DEF Admit, Accept, Count, GiveBack, ClaimHost, Handshake, server, Shrinks
<1>2. CASE Release(c)
  BY <1>2 DEF Release, GiveTotal, GiveHost, server, Shrinks
<1>3. CASE Report(c)
  BY <1>3 DEF Report, Announce, SendLine, Leave, server, Shrinks
<1>4. CASE Read(c)
  BY <1>4 DEF Read, ReadLine, ReadEnd, ReadError, server, Shrinks
<1>5. CASE IdleTick(c) \/ HangUp(c) \/ Write(c)
  BY <1>5 DEF IdleTick, HangUp, Write, server, Shrinks
<1> QED  BY <1>1, <1>2, <1>3, <1>4, <1>5

(* Whoever a step of the server sends away, nobody joins.                  *)
LEMMA StepShrinks ==
  ASSUME NEW gone, NEW newNamed, NEW says, Step(gone, newNamed, says)
  PROVE  users' = users \ gone
BY DEF Step

(* The only way in is past both looks at the ban.                          *)
LEMMA ConnectedKeeps ==
  ASSUME NEW c, BannedIsOut, Connected(c)
  PROVE  BannedIsOut'
BY DEF Connected, Refused, BannedIsOut

(* A new ban sends away everyone it covers but the one who gave it.        *)
LEMMA KlineKeeps ==
  ASSUME NEW c, NEW h, BannedIsOut, Kline(c, h)
  PROVE  BannedIsOut'
<1> DEFINE victims == {u \in users : u # c /\ HostOf[u] = h}
<1>1. users' = users \ victims
  BY StepShrinks DEF Kline
<1>2. /\ bans' = bans \cup {h}
      /\ exempt' = {u \in exempt : HostOf[u] # h} \cup {u \in {c} : HostOf[u] = h}
  BY DEF Kline, Ban
<1> SUFFICES ASSUME NEW u \in users', HostOf[u] \in bans'
             PROVE  u \in exempt'
  BY DEF BannedIsOut
<1>3. CASE HostOf[u] = h
  BY <1>1, <1>2, <1>3
<1>4. CASE HostOf[u] # h
  BY <1>1, <1>2, <1>4 DEF BannedIsOut
<1> QED  BY <1>3, <1>4

LEMMA UnklineKeeps ==
  ASSUME NEW c, NEW h, BannedIsOut, Unkline(c, h)
  PROVE  BannedIsOut'
<1>1. users' \subseteq users /\ bans' \subseteq bans /\ exempt' = exempt
  BY StepShrinks DEF Unkline, Unban
<1> QED  BY <1>1 DEF BannedIsOut

LEMMA CommandKeeps ==
  ASSUME NEW c, NEW line, BannedIsOut, Command(c, line)
  PROVE  BannedIsOut'
<1>1. CASE Ignored
  BY <1>1, ShrinksKeeps DEF Ignored, server, Shrinks
<1>2. ASSUME NEW ok, Register(c, ok)
      PROVE  Shrinks
  BY <1>2, StepShrinks DEF Register, Shrinks
<1>3. CASE Quit(c)
  BY <1>3, StepShrinks, ShrinksKeeps DEF Quit, Shrinks
<1>4. CASE Say(c)
  BY <1>4, StepShrinks, ShrinksKeeps DEF Say, Shrinks
<1>5. CASE Kline(c, line.host)
  BY <1>5, KlineKeeps
<1>6. CASE Unkline(c, line.host)
  BY <1>6, UnklineKeeps
<1>7. CASE Kill(c, line.whom)
  BY <1>7, StepShrinks, ShrinksKeeps DEF Kill, Shrinks
<1> QED  BY <1>1, <1>2, <1>3, <1>4, <1>5, <1>6, <1>7, ShrinksKeeps DEF Command

LEMMA HandleKeeps ==
  ASSUME BannedIsOut, Handle
  PROVE  BannedIsOut'
<1> DEFINE e == Head(inbox)
<1>1. CASE Connected(e.from)
  BY <1>1, ConnectedKeeps
<1>2. CASE Disconnected(e.from)
  BY <1>2, StepShrinks, ShrinksKeeps DEF Disconnected, Shrinks
<1>3. CASE Command(e.from, e.line)
  BY <1>3, CommandKeeps
<1> QED  BY <1>1, <1>2, <1>3 DEF Handle

(* From the moment of a KLINE nobody it covers is on the roster but the    *)
(* operator who gave it, whatever was in a handshake or in the queue       *)
(* (cmd_kline, Connected): BannedIsOut is inductive as it stands.          *)
THEOREM BanHolds == Spec => []BannedIsOut
<1>1. Init => BannedIsOut
  BY DEF Init, BannedIsOut
<1>2. BannedIsOut /\ [Next]_vars => BannedIsOut'
  <2> SUFFICES ASSUME BannedIsOut, [Next]_vars
               PROVE  BannedIsOut'
    OBVIOUS
  <2>1. CASE \E c \in Conns : \/ Admit(c) \/ Release(c) \/ Report(c) \/ Read(c)
                              \/ IdleTick(c) \/ HangUp(c) \/ Write(c)
    BY <2>1, TasksShrink, ShrinksKeeps
  <2>2. CASE Handle
    BY <2>2, HandleKeeps
  <2>3. ASSUME NEW stale \in SUBSET Conns, ExpireUnregistered(stale)
        PROVE  BannedIsOut'
    BY <2>3, StepShrinks, ShrinksKeeps DEF ExpireUnregistered, Shrinks
  <2>4. CASE UNCHANGED vars
    BY <2>4, ShrinksKeeps DEF vars, Shrinks
  <2> QED  BY <2>1, <2>2, <2>3, <2>4 DEF Next
<1> QED  BY <1>1, <1>2, PTL DEF Spec

-----------------------------------------------------------------------------
(* The gate: a place is counted from the first step of try_acquire to the  *)
(* first step of release, and a place of a host from the second step to    *)
(* the second.                                                             *)
Admitted == {c \in Counted : pc[c] # "full"}
HostedAt(h) == {c \in Conns : HostOf[c] = h /\ (c \in Seated \/ pc[c] \in {"drop", "drop2"})}

GateInv ==
  /\ MaxClients > 0 => total = Cardinality(Counted) /\ Cardinality(Admitted) <= MaxClients
  /\ MaxPerHost > 0 => \A h \in Hosts :
       perHost[h] = Cardinality(HostedAt(h)) /\ perHost[h] <= MaxPerHost

(* The queue: what is behind place i of it, and the roster when the event  *)
(* at that place is handled, if nobody is refused or sent away before.     *)
Hello(c) == [kind |-> "Connected", from |-> c]
Bye(c) == [kind |-> "Disconnected", from |-> c]

WillLeave(c, i) ==
  c \in failed \/ Listening(c) \/ \E j \in i + 1 .. Len(inbox) : inbox[j] = Bye(c)

RosterAt(i) ==
  {u \in Conns : /\ u \in users \/ \E j \in 1 .. i - 1 : inbox[j] = Hello(u)
                 /\ ~ \E j \in 1 .. i - 1 : inbox[j] = Bye(u)}

PlaceFor(c, i) ==
  /\ MaxClients > 0 => Cardinality(RosterAt(i)) < MaxClients
  /\ MaxPerHost > 0 =>
       Cardinality({u \in RosterAt(i) : HostOf[u] = HostOf[c]}) < MaxPerHost

Over(c) == pc[c] \in {"drop", "drop2", "ended"}

RosterInv ==
  /\ \A u \in users : WillLeave(u, 0)
  /\ \A u \in users \ links :
       \/ u \in failed
       \/ hangup[u] /\ Listening(u)
       \/ \E j \in 1 .. Len(inbox) : inbox[j] = Bye(u)
  /\ \A i \in 1 .. Len(inbox), c \in Conns :
       /\ inbox[i] = Hello(c) => WillLeave(c, i)
       /\ inbox[i] = Bye(c) => /\ Over(c)
                               /\ \A j \in i + 1 .. Len(inbox) : inbox[j] # Hello(c)

PlaceInv ==
  failed = {} =>
    \A i \in 1 .. Len(inbox), c \in Conns : inbox[i] = Hello(c) => PlaceFor(c, i)

HeldInv == \A c \in Conns : pc[c] = "send" => held[c] \in Lines

-----------------------------------------------------------------------------
(* The gate, step by step.                                                 *)
Typed == TypeOK /\ HeldInv

InConns(S) == S \subseteq Conns

LEMMA ConnsFinite ==
  ASSUME NEW S, InConns(S)
  PROVE  IsFiniteSet(S) /\ Cardinality(S) \in Nat
BY ConnAssumption, FS_Subset, FS_CardinalityType DEF InConns

LEMMA OneMore ==
  ASSUME NEW S, InConns(S), NEW c, c \notin S
  PROVE  Cardinality(S \cup {c}) = Cardinality(S) + 1
BY ConnsFinite, FS_AddElement

LEMMA OneLess ==
  ASSUME NEW S, InConns(S), NEW c, c \in S
  PROVE  Cardinality(S \ {c}) = Cardinality(S) - 1
BY ConnsFinite, FS_RemoveElement

LEMMA NoMore ==
  ASSUME NEW S, InConns(S), NEW T, T \subseteq S
  PROVE  Cardinality(T) \in Nat /\ Cardinality(T) <= Cardinality(S)
<1>1. IsFiniteSet(S) /\ InConns(T)
  BY ConnsFinite DEF InConns
<1> QED  BY <1>1, ConnsFinite, FS_Subset

(* A task that goes from one label to another with its place.              *)
Keeping == {"greet", "hello", "serve", "send", "leave", "drop"}

LEMMA KeepsPlace ==
  ASSUME Typed, GateInv, NEW c \in Conns, NEW to \in Keeping, pc[c] \in Keeping,
         Goto(c, to) \/ UNCHANGED pc, UNCHANGED <<total, perHost>>
  PROVE  GateInv'
<1>1. \A d \in Conns : pc'[d] = pc[d] \/ (d = c /\ pc'[d] = to)
  BY DEF Typed, TypeOK, Goto
<1>2. Counted' = Counted /\ Admitted' = Admitted
  BY <1>1 DEF Counted, Admitted, Keeping
<1>3. ASSUME NEW h
      PROVE  HostedAt(h)' = HostedAt(h)
  BY <1>1 DEF HostedAt, Seated, Keeping
<1> QED  BY <1>2, <1>3 DEF GateInv

LEMMA SameGate ==
  ASSUME GateInv, UNCHANGED <<pc, total, perHost>>
  PROVE  GateInv'
BY DEF GateInv, Counted, Admitted, HostedAt, Seated

LEMMA AdmitGate ==
  ASSUME Typed, GateInv, NEW c \in Conns, Admit(c)
  PROVE  GateInv'
<1>0. /\ pc \in [Conns -> {"idle", "count", "full", "host", "crowd", "greet", "hello", "serve",
                         "send", "leave", "drop", "drop2", "ended"}]
      /\ total \in Nat /\ perHost \in [Hosts -> Nat] /\ {MaxClients, MaxPerHost} \subseteq Nat
  BY ConnAssumption DEF Typed, TypeOK
<1>1. InConns(Counted) /\ InConns(Admitted) /\ \A h : InConns(HostedAt(h))
  BY DEF InConns, Counted, Admitted, HostedAt
<1>2. CASE Accept(c)
  <2>1. /\ \A d \in Conns : pc'[d] = pc[d] \/ (pc[d] = "idle" /\ pc'[d] \in {"ended", "count"})
        /\ UNCHANGED <<total, perHost>>
    BY <1>0, <1>2 DEF Accept, Goto
  <2>2. Counted' = Counted /\ Admitted' = Admitted /\ \A h : HostedAt(h)' = HostedAt(h)
    BY <2>1 DEF Counted, Admitted, HostedAt, Seated
  <2> QED  BY <2>1, <2>2 DEF GateInv
<1>3. CASE Count(c)
  <2>1. /\ pc[c] = "count" /\ \A d \in Conns \ {c} : pc'[d] = pc[d]
        /\ pc'[c] \in {"full", "host"} /\ UNCHANGED perHost
        /\ MaxClients > 0 => /\ total' = total + 1
                             /\ pc'[c] = IF total' > MaxClients THEN "full" ELSE "host"
    BY <1>0, <1>3 DEF Count, Goto
  <2>2. c \notin Counted /\ Counted' = Counted \cup {c}
    BY <2>1 DEF Counted
  <2>8. ASSUME NEW h
        PROVE  HostedAt(h)' = HostedAt(h)
    BY <2>1 DEF HostedAt, Seated
  <2>3. Cardinality(Counted') = Cardinality(Counted) + 1
    BY <1>1, <2>2, OneMore
  <2>4. pc'[c] = "full" => Admitted' = Admitted
    BY <2>1 DEF Admitted, Counted
  <2>5. Cardinality(Admitted') <= Cardinality(Counted')
    <3>1. InConns(Counted') /\ Admitted' \subseteq Counted'
      BY DEF InConns, Counted, Admitted
    <3> QED  BY <3>1, NoMore
  <2>6. /\ Cardinality(Counted) \in Nat /\ Cardinality(Counted') \in Nat
        /\ Cardinality(Admitted') \in Nat /\ MaxClients \in Nat
    BY <1>1, ConnsFinite, ConnAssumption DEF InConns, Counted, Admitted
  <2>7. MaxClients > 0 => total' = Cardinality(Counted') /\ Cardinality(Admitted') <= MaxClients
    BY <2>1, <2>3, <2>4, <2>5, <2>6 DEF GateInv
  <2> QED  BY <2>1, <2>7, <2>8 DEF GateInv
<1>4. CASE GiveBack(c)
  <2>1. /\ pc[c] \in {"full", "crowd"} /\ \A d \in Conns \ {c} : pc'[d] = pc[d]
        /\ pc'[c] = "ended" /\ UNCHANGED perHost /\ (MaxClients # 0 => total' = total - 1)
    BY <1>0, <1>4 DEF GiveBack, Goto
  <2>2. c \in Counted /\ Counted' = Counted \ {c} /\ Admitted' \subseteq Admitted
    BY <2>1 DEF Counted, Admitted
  <2>4. ASSUME NEW h
        PROVE  HostedAt(h)' = HostedAt(h)
    BY <2>1 DEF HostedAt, Seated
  <2>3. /\ Cardinality(Counted') = Cardinality(Counted) - 1
        /\ Cardinality(Admitted') <= Cardinality(Admitted)
        /\ Cardinality(Admitted') \in Nat /\ Cardinality(Admitted) \in Nat
    BY <1>1, <2>2, OneLess, NoMore, ConnsFinite
  <2>5. MaxClients > 0 => total' = Cardinality(Counted') /\ Cardinality(Admitted') <= MaxClients
    BY <1>0, <2>1, <2>3 DEF GateInv
  <2> QED  BY <2>1, <2>4, <2>5 DEF GateInv
<1>5. CASE ClaimHost(c)
  <2> DEFINE h == HostOf[c]
  <2>1. /\ pc[c] = "host" /\ UNCHANGED total
        /\ \A d \in Conns \ {c} : pc'[d] = pc[d]
        /\ \/ pc'[c] = "crowd" /\ UNCHANGED perHost
           \/ /\ pc'[c] = "greet"
              /\ MaxPerHost > 0 => perHost' = [perHost EXCEPT ![h] = @ + 1] /\ perHost[h] < MaxPerHost
    BY <1>0, <1>5, ConnAssumption DEF ClaimHost, Goto
  <2>2. Counted' = Counted /\ Admitted' = Admitted /\ total' = total
    BY <1>5, <2>1 DEF Counted, Admitted, ClaimHost
  <2>3. CASE pc'[c] = "crowd" /\ UNCHANGED perHost
    <3>1. \A x : HostedAt(x)' = HostedAt(x)
      BY <2>1, <2>3 DEF HostedAt, Seated
    <3> QED  BY <2>2, <2>3, <3>1 DEF GateInv
  <2>4. CASE pc'[c] = "greet"
    <3>1. h \in Hosts /\ perHost \in [Hosts -> Nat] /\ MaxPerHost \in Nat
      BY <1>0, ConnAssumption
    <3>2. /\ c \notin HostedAt(h) /\ HostedAt(h)' = HostedAt(h) \cup {c}
          /\ \A x \in Hosts \ {h} : HostedAt(x)' = HostedAt(x)
      BY <2>1, <2>4 DEF HostedAt, Seated
    <3>3. Cardinality(HostedAt(h)') = Cardinality(HostedAt(h)) + 1
      BY <1>1, <3>2, OneMore
    <3>4. ASSUME MaxPerHost > 0, NEW x \in Hosts
          PROVE  perHost'[x] = Cardinality(HostedAt(x)') /\ perHost'[x] <= MaxPerHost
      BY <1>0, <1>1, <2>1, <2>4, <3>1, <3>2, <3>3, <3>4, ConnsFinite DEF GateInv
    <3> QED  BY <2>2, <3>4 DEF GateInv
  <2> QED  BY <2>1, <2>3, <2>4
<1>6. CASE Handshake(c)
  BY <1>6, KeepsPlace DEF Handshake, Keeping
<1> QED  BY <1>2, <1>3, <1>4, <1>5, <1>6 DEF Admit

LEMMA ReleaseGate ==
  ASSUME Typed, GateInv, NEW c \in Conns, Release(c)
  PROVE  GateInv'
<1>0. /\ pc \in [Conns -> {"idle", "count", "full", "host", "crowd", "greet", "hello", "serve",
                         "send", "leave", "drop", "drop2", "ended"}]
      /\ total \in Nat /\ perHost \in [Hosts -> Nat] /\ {MaxClients, MaxPerHost} \subseteq Nat
  BY ConnAssumption DEF Typed, TypeOK
<1>1. InConns(Counted) /\ InConns(Admitted) /\ \A h : InConns(HostedAt(h))
  BY DEF InConns, Counted, Admitted, HostedAt
<1>2. CASE GiveTotal(c)
  <2>1. /\ pc[c] = "drop" /\ \A d \in Conns \ {c} : pc'[d] = pc[d]
        /\ pc'[c] = "drop2" /\ UNCHANGED perHost /\ (MaxClients # 0 => total' = total - 1)
    BY <1>0, <1>2 DEF GiveTotal, Goto
  <2>2. c \in Counted /\ Counted' = Counted \ {c} /\ Admitted' \subseteq Admitted
    BY <2>1 DEF Counted, Admitted
  <2>4. ASSUME NEW h
        PROVE  HostedAt(h)' = HostedAt(h)
    BY <2>1 DEF HostedAt, Seated
  <2>3. /\ Cardinality(Counted') = Cardinality(Counted) - 1
        /\ Cardinality(Admitted') <= Cardinality(Admitted)
        /\ Cardinality(Admitted') \in Nat /\ Cardinality(Admitted) \in Nat
    BY <1>1, <2>2, OneLess, NoMore, ConnsFinite
  <2>5. MaxClients > 0 => total' = Cardinality(Counted') /\ Cardinality(Admitted') <= MaxClients
    BY <1>0, <2>1, <2>3 DEF GateInv
  <2> QED  BY <2>1, <2>4, <2>5 DEF GateInv
<1>3. CASE GiveHost(c)
  <2> DEFINE h == HostOf[c]
  <2>1. /\ pc[c] = "drop2" /\ pc'[c] = "ended" /\ UNCHANGED total
        /\ perHost' = [perHost EXCEPT ![h] = IF @ > 0 THEN @ - 1 ELSE 0]
        /\ \A d \in Conns \ {c} : pc'[d] = pc[d]
        /\ h \in Hosts /\ perHost \in [Hosts -> Nat] /\ MaxPerHost \in Nat
    BY <1>0, <1>3, ConnAssumption DEF GiveHost, Goto
  <2>2. /\ c \in HostedAt(h) /\ HostedAt(h)' = HostedAt(h) \ {c}
        /\ \A x \in Hosts \ {h} : HostedAt(x)' = HostedAt(x)
        /\ Counted' = Counted /\ Admitted' = Admitted
    BY <2>1 DEF Counted, Admitted, HostedAt, Seated
  <2>3. /\ Cardinality(HostedAt(h)') = Cardinality(HostedAt(h)) - 1
        /\ Cardinality(HostedAt(h)) \in Nat /\ Cardinality(HostedAt(h)') \in Nat
    BY <1>1, <2>2, OneLess, ConnsFinite DEF InConns
  <2>4. ASSUME MaxPerHost > 0, NEW x \in Hosts
        PROVE  perHost'[x] = Cardinality(HostedAt(x)') /\ perHost'[x] <= MaxPerHost
    <3>1. /\ perHost[x] = Cardinality(HostedAt(x)) /\ perHost[x] <= MaxPerHost
          /\ perHost[h] = Cardinality(HostedAt(h))
      BY <2>1, <2>4 DEF GateInv
    <3>2. CASE x = h
      <4>1. perHost'[h] = perHost[h] - 1 /\ perHost[h] \in Nat
        BY <2>1, <2>3, <3>1
      <4> QED  BY <2>1, <2>3, <3>1, <3>2, <4>1
    <3>3. CASE x # h
      BY <2>1, <2>2, <3>1, <3>3
    <3> QED  BY <3>2, <3>3
  <2> QED  BY <2>1, <2>2, <2>4 DEF GateInv
<1> QED  BY <1>2, <1>3 DEF Release

LEMMA TasksGate ==
  ASSUME Typed, GateInv, NEW c \in Conns,
         \/ Admit(c) \/ Release(c) \/ Report(c) \/ Read(c)
         \/ IdleTick(c) \/ HangUp(c) \/ Write(c)
  PROVE  GateInv'
<1>1. CASE Announce(c) \/ SendLine(c) \/ Leave(c)
  BY <1>1, KeepsPlace DEF Announce, SendLine, Leave, Keeping
<1>2. CASE ReadLine(c) \/ ReadEnd(c) \/ ReadError(c)
  BY <1>2, KeepsPlace DEF ReadLine, ReadEnd, ReadError, Keeping
<1>3. CASE IdleTick(c) \/ HangUp(c)
  BY <1>3, KeepsPlace DEF IdleTick, HangUp, Keeping
<1>4. CASE Write(c)
  BY <1>4, SameGate DEF Write, tasks
<1> QED  BY <1>1, <1>2, <1>3, <1>4, AdmitGate, ReleaseGate DEF Report, Read

-----------------------------------------------------------------------------
(* Types.                                                                  *)
LEMMA PlaceToGive ==
  ASSUME Typed, GateInv, NEW c \in Counted, MaxClients # 0
  PROVE  total > 0
<1>1. InConns(Counted) /\ {c} \subseteq Counted /\ MaxClients \in Nat
  BY ConnAssumption DEF InConns, Counted
<1>2. Cardinality({c}) <= Cardinality(Counted) /\ Cardinality({c}) = 1
  BY <1>1, NoMore, FS_Singleton
<1> QED  BY <1>1, <1>2, ConnsFinite DEF GateInv

LEMMA PostTyped ==
  ASSUME Typed, NEW e \in Events, Post(e)
  PROVE  inbox' \in Seq(Events) /\ Len(inbox') <= EventCap
<1>1. /\ inbox \in Seq(Events) /\ inbox' = Append(inbox, e)
      /\ EventCap \in Nat /\ Len(inbox) < EventCap
  BY ConnAssumption DEF Typed, TypeOK, Post, Room
<1> QED  BY <1>1

LEMMA TasksTyped ==
  ASSUME Typed, GateInv, NEW c \in Conns,
         \/ Admit(c) \/ Release(c) \/ Report(c) \/ Read(c)
         \/ IdleTick(c) \/ HangUp(c) \/ Write(c)
  PROVE  Typed'
<1> USE ConnAssumption DEF Typed, TypeOK, HeldInv
<1>1. CASE Accept(c)
  BY <1>1 DEF Accept, Goto, server
<1>2. CASE Count(c)
  <2>1. total' \in Nat /\ \E to \in {"host", "full"} : Goto(c, to)
    BY <1>2 DEF Count
  <2> QED  BY <1>2, <2>1 DEF Count, Goto, server
<1>3. CASE GiveBack(c)
  <2>1. total' \in Nat
    BY <1>3, PlaceToGive DEF GiveBack, Counted
  <2> QED  BY <1>3, <2>1 DEF GiveBack, Goto, server
<1>4. CASE ClaimHost(c)
  <2>1. perHost' \in [Hosts -> Nat]
    BY <1>4 DEF ClaimHost
  <2> QED  BY <1>4, <2>1 DEF ClaimHost, Goto, server
<1>5. CASE Handshake(c)
  BY <1>5 DEF Handshake, Goto, server
<1>6. CASE GiveTotal(c)
  <2>1. total' \in Nat
    BY <1>6, PlaceToGive DEF GiveTotal, Counted
  <2> QED  BY <1>6, <2>1 DEF GiveTotal, Goto, server
<1>7. CASE GiveHost(c)
  BY <1>7 DEF GiveHost, Goto, server
<1>8. CASE Announce(c)
  <2>1. [kind |-> "Connected", from |-> c] \in Events
    BY DEF Events
  <2>2. inbox' \in Seq(Events) /\ Len(inbox') <= EventCap
    BY <1>8, <2>1, PostTyped DEF Announce
  <2> QED  BY <1>8, <2>2 DEF Announce, Goto, server
<1>9. CASE SendLine(c)
  <2>1. [kind |-> "Line", from |-> c, line |-> held[c]] \in Events
    BY <1>9 DEF SendLine, Events
  <2>2. inbox' \in Seq(Events) /\ Len(inbox') <= EventCap
    BY <1>9, <2>1, PostTyped DEF SendLine
  <2> QED  BY <1>9, <2>2 DEF SendLine, Goto, server
<1>10. CASE Leave(c)
  <2>1. [kind |-> "Disconnected", from |-> c] \in Events
    BY DEF Events
  <2>2. inbox' \in Seq(Events) /\ Len(inbox') <= EventCap
    BY <1>10, <2>1, PostTyped DEF Leave
  <2> QED  BY <1>10, <2>2 DEF Leave, Goto
<1>11. CASE ReadLine(c)
  <2>1. \A line \in Says[c] : line \in Lines
    OBVIOUS
  <2> QED  BY <1>11, <2>1 DEF ReadLine, Goto, server
<1>12. CASE ReadEnd(c)
  BY <1>12 DEF ReadEnd, Goto, server
<1>13. CASE ReadError(c)
  BY <1>13 DEF ReadError, Goto
<1>14. CASE IdleTick(c)
  <2>1. out' \in [Conns -> 0 .. OutCap]
    <3>1. out \in [Conns -> 0 .. OutCap] /\ out[c] \in 0 .. OutCap /\ OutCap \in Nat
      OBVIOUS
    <3> HIDE ConnAssumption DEF Typed, TypeOK, HeldInv
    <3>2. out' = out \/ (out[c] < OutCap /\ out' = [out EXCEPT ![c] = @ + 1])
      BY <1>14 DEF IdleTick
    <3> QED  BY <3>1, <3>2
  <2> QED  BY <1>14, <2>1 DEF IdleTick, Goto
<1>15. CASE HangUp(c)
  BY <1>15 DEF HangUp, Goto, server
<1>16. CASE Write(c)
  <2>1. out' \in [Conns -> 0 .. OutCap]
    <3>1. out \in [Conns -> 0 .. OutCap] /\ out[c] \in 0 .. OutCap /\ OutCap \in Nat
      OBVIOUS
    <3> HIDE ConnAssumption DEF Typed, TypeOK, HeldInv
    <3>2. /\ out[c] > 0
          /\ out' = [out EXCEPT ![c] = @ - 1] \/ out' = [out EXCEPT ![c] = 0]
      BY <1>16 DEF Write
    <3> QED  BY <3>1, <3>2
  <2> QED  BY <1>16, <2>1 DEF Write, tasks
<1> QED  BY <1>1, <1>2, <1>3, <1>4, <1>5, <1>6, <1>7, <1>8, <1>9, <1>10, <1>11, <1>12,
            <1>13, <1>14, <1>15, <1>16 DEF Admit, Release, Report, Read

(* What the server task changes of the state.                              *)
ServerOK ==
  /\ hangup \in [Conns -> BOOLEAN] /\ out \in [Conns -> 0 .. OutCap]
  /\ named \subseteq users /\ links \subseteq users /\ users \subseteq Conns
  /\ exempt \subseteq Conns
  /\ bans \subseteq Hosts /\ gateBans = bans

LEMMA StepTyped ==
  ASSUME Typed, NEW gone, NEW newNamed, newNamed \subseteq users,
         NEW says \in [Conns -> Nat], Step(gone, newNamed, says)
  PROVE  /\ hangup' \in [Conns -> BOOLEAN] /\ out' \in [Conns -> 0 .. OutCap]
         /\ named' \subseteq users' /\ links' \subseteq users' /\ users' \subseteq Conns
<1> DEFINE lines == [c \in Conns |-> says[c] + Farewells(gone, c)]
           lost == Lost(lines)
           cut == (lost \cup gone) \cap links
<1>1. /\ links' = links \ cut
      /\ hangup' = [c \in Conns |-> hangup[c] \/ (c \in cut /\ Listening(c))]
      /\ out' = [c \in Conns |->
           IF writer[c] = "closed" \/ c \notin links THEN out[c]
           ELSE IF c \in lost THEN OutCap ELSE out[c] + lines[c]]
      /\ users' = users \ gone /\ named' = newNamed \ gone
  BY DEF Step
<1>2. /\ hangup \in [Conns -> BOOLEAN] /\ out \in [Conns -> 0 .. OutCap]
      /\ named \subseteq users /\ links \subseteq users /\ users \subseteq Conns
      /\ OutCap \in Nat
  BY ConnAssumption DEF Typed, TypeOK
<1>3. hangup' \in [Conns -> BOOLEAN]
  BY <1>1, <1>2
<1>4. named' \subseteq users' /\ links' \subseteq users' /\ users' \subseteq Conns
  BY <1>1, <1>2
<1>5. ASSUME NEW c \in Conns
      PROVE  lines[c] \in Nat
  <2>1. InConns((gone \cap named) \ {c})
    BY <1>2 DEF InConns
  <2>2. Farewells(gone, c) \in Nat
    BY <2>1, ConnsFinite DEF Farewells
  <2> QED  BY <2>2
<1>6. ASSUME NEW c \in Conns
      PROVE  out'[c] \in 0 .. OutCap
  <2>1. c \in lost <=> c \in links /\ lines[c] > 0
                         /\ (writer[c] = "closed" \/ out[c] + lines[c] > OutCap)
    BY DEF Lost
  <2>2. out'[c] = IF writer[c] = "closed" \/ c \notin links THEN out[c]
                  ELSE IF c \in lost THEN OutCap ELSE out[c] + lines[c]
    BY <1>1
  <2>3. out[c] \in 0 .. OutCap /\ lines[c] \in Nat
    BY <1>2, <1>5
  <2> HIDE DEF lines, lost
  <2> QED  BY <1>2, <2>1, <2>2, <2>3
<1>7. out' \in [Conns -> 0 .. OutCap]
  <2>1. out' = [c \in Conns |-> out'[c]]
    BY <1>1
  <2> HIDE DEF lines, lost, cut
  <2> QED  BY <1>6, <2>1
<1> QED  BY <1>3, <1>4, <1>7

LEMMA CommandTyped ==
  ASSUME Typed, NEW c \in Conns, NEW line \in Lines, Command(c, line)
  PROVE  ServerOK'
<1>1. /\ named \subseteq users /\ exempt \subseteq Conns /\ users \subseteq Conns
      /\ bans \subseteq Hosts /\ gateBans = bans
  BY DEF Typed, TypeOK
<1>2. Silence \in [Conns -> Nat] /\ \A who : SayTo(who) \in [Conns -> Nat]
  BY DEF Silence, SayTo
<1>3. CASE Ignored
  BY <1>3 DEF Ignored, server, ServerOK, Typed, TypeOK
<1>4. CASE c \in users /\ \E ok \in BOOLEAN : Register(c, ok)
  BY <1>1, <1>2, <1>4, StepTyped DEF Register, Notice, ServerOK
<1>5. CASE Quit(c) \/ Say(c) \/ Kill(c, line.whom)
  BY <1>1, <1>2, <1>5, StepTyped DEF Quit, Say, Kill, Notice, ServerOK
<1>6. CASE line.cmd = "KLINE" /\ Kline(c, line.host)
  <2>1. line.host \in Hosts
    BY <1>6 DEF Lines
  <2>2. bans' \subseteq Hosts /\ gateBans' = bans' /\ exempt' \subseteq Conns
    BY <1>1, <1>6, <2>1 DEF Kline, Ban
  <2> QED  BY <1>1, <1>2, <1>6, <2>2, StepTyped DEF Kline, ServerOK
<1>7. CASE Unkline(c, line.host)
  BY <1>1, <1>2, <1>7, StepTyped DEF Unkline, Unban, Notice, ServerOK
<1> QED  BY <1>3, <1>4, <1>5, <1>6, <1>7 DEF Command

LEMMA HandleTyped ==
  ASSUME Typed, Handle
  PROVE  Typed'
<1> DEFINE e == Head(inbox)
<1>1. inbox \in Seq(Events) /\ inbox # <<>> /\ inbox' = Tail(inbox) /\ Len(inbox) <= EventCap
  BY DEF Handle, Typed, TypeOK
<1>2. e \in Events /\ e.from \in Conns /\ (e.kind = "Line" => e.line \in Lines)
  BY <1>1 DEF Events
<1>3. inbox' \in Seq(Events) /\ Len(inbox') <= EventCap
  BY <1>1, ConnAssumption
<1>4. ServerOK'
  <2>1. CASE Connected(e.from)
    <3>1. /\ e.from \in Conns /\ (hangup' = hangup \/ hangup' = [hangup EXCEPT ![e.from] = Listening(e.from)])
          /\ Listening(e.from) \in BOOLEAN
      BY <1>2, <2>1 DEF Connected, Listening
    <3>2. hangup' \in [Conns -> BOOLEAN]
      BY <3>1 DEF Typed, TypeOK
    <3> QED  BY <1>2, <2>1, <3>2 DEF Connected, ServerOK, Typed, TypeOK
  <2>2. CASE Disconnected(e.from)
    <3>1. Silence \in [Conns -> Nat] /\ named \subseteq users
      BY DEF Silence, Typed, TypeOK
    <3> QED  BY <2>2, <3>1, StepTyped DEF Disconnected, ServerOK, Typed, TypeOK
  <2>3. CASE e.kind = "Line" /\ Command(e.from, e.line)
    BY <1>2, <2>3, CommandTyped
  <2> QED  BY <2>1, <2>2, <2>3 DEF Handle
<1> QED  BY <1>3, <1>4 DEF Handle, tasks, ServerOK, Typed, TypeOK, HeldInv

LEMMA ExpireTyped ==
  ASSUME Typed, NEW stale, ExpireUnregistered(stale)
  PROVE  Typed'
<1>1. SayTo(stale) \in [Conns -> Nat] /\ named \subseteq users
  BY DEF SayTo, Typed, TypeOK
<1> QED  BY <1>1, StepTyped DEF ExpireUnregistered, tasks, Typed, TypeOK, HeldInv

LEMMA TypedGate ==
  ASSUME Typed, GateInv, [Next]_vars
  PROVE  Typed' /\ GateInv'
<1>1. CASE UNCHANGED vars
  BY <1>1, SameGate DEF vars, Typed, TypeOK, HeldInv
<1>2. CASE Handle
  BY <1>2, HandleTyped, SameGate DEF Handle, tasks
<1>3. CASE \E stale \in SUBSET Conns : ExpireUnregistered(stale)
  BY <1>3, ExpireTyped, SameGate DEF ExpireUnregistered, tasks
<1> QED  BY <1>1, <1>2, <1>3, TasksTyped, TasksGate DEF Next

-----------------------------------------------------------------------------
(* The queue and the roster, when a task moves and posts an event or none. *)
Posts(e) == inbox' = Append(inbox, e)

Moves ==
  /\ inbox' = inbox \/ \E e \in Events : Posts(e)
  /\ UNCHANGED <<users, links>> /\ failed \subseteq failed'
  /\ \A d \in Conns :
       /\ Over(d) => Over(d)'
       /\ Listening(d) => Listening(d)' \/ d \in failed' \/ Posts(Bye(d))
       /\ Listening(d) /\ hangup[d] => (Listening(d)' /\ hangup'[d]) \/ d \in failed' \/ Posts(Bye(d))
       /\ Posts(Hello(d)) => pc[d] = "hello" /\ Listening(d)'
       /\ Posts(Bye(d)) => Over(d)'

LEMMA MovesIndices ==
  ASSUME Typed, Moves
  PROVE  /\ Len(inbox) \in Nat /\ Len(inbox') \in Nat
         /\ \A j \in 1 .. Len(inbox) : inbox'[j] = inbox[j]
         /\ \/ Len(inbox') = Len(inbox) /\ \A e : ~Posts(e)
            \/ /\ Len(inbox') = Len(inbox) + 1
               /\ Posts(inbox'[Len(inbox) + 1])
               /\ \A e : Posts(e) => e = inbox'[Len(inbox) + 1]
<1>1. inbox \in Seq(Events)
  BY DEF Typed, TypeOK
<1>2. ASSUME NEW e, Posts(e)
      PROVE  /\ Len(inbox') = Len(inbox) + 1 /\ inbox'[Len(inbox) + 1] = e
             /\ \A j \in 1 .. Len(inbox) : inbox'[j] = inbox[j]
  BY <1>1, <1>2 DEF Posts
<1>3. CASE inbox' = inbox
  <2>1. \A e : ~Posts(e)
    BY <1>1, <1>2, <1>3
  <2> QED  BY <1>1, <1>3, <2>1
<1>4. CASE \E e \in Events : Posts(e)
  BY <1>1, <1>2, <1>4
<1> QED  BY <1>3, <1>4 DEF Moves

LEMMA MovesRoster ==
  ASSUME Typed, RosterInv, Moves
  PROVE  RosterInv'
<1> DEFINE n == Len(inbox)
           m == Len(inbox')
<1>1. /\ n \in Nat /\ m \in Nat /\ \A j \in 1 .. n : inbox'[j] = inbox[j]
      /\ \/ m = n /\ \A e : ~Posts(e)
         \/ /\ m = n + 1 /\ Posts(inbox'[n + 1])
            /\ \A e : Posts(e) => e = inbox'[n + 1]
  BY MovesIndices
<1>2. \A c \in Conns : Posts(Bye(c)) => m = n + 1 /\ inbox'[m] = Bye(c)
  BY <1>1
<1>0. users \subseteq Conns
  BY DEF Typed, TypeOK
<1>3. ASSUME NEW c \in Conns, NEW i \in 0 .. n, WillLeave(c, i)
      PROVE  WillLeave(c, i)'
  <2>1. CASE c \in failed
    BY <2>1 DEF Moves, WillLeave
  <2>2. CASE Listening(c)
    <3>1. Listening(c)' \/ c \in failed' \/ Posts(Bye(c))
      BY <2>2 DEF Moves
    <3> QED  BY <1>1, <1>2, <3>1 DEF WillLeave
  <2>3. CASE \E j \in i + 1 .. n : inbox[j] = Bye(c)
    BY <1>1, <2>3 DEF WillLeave
  <2> QED  BY <1>3, <2>1, <2>2, <2>3 DEF WillLeave
<1>4. \A u \in users' : WillLeave(u, 0)'
  BY <1>0, <1>1, <1>3 DEF RosterInv, Moves
<1>5. ASSUME NEW u \in users' \ links'
      PROVE  \/ u \in failed'
             \/ hangup'[u] /\ Listening(u)'
             \/ \E j \in 1 .. m : inbox'[j] = Bye(u)
  <2>1. \/ u \in failed
        \/ hangup[u] /\ Listening(u)
        \/ \E j \in 1 .. n : inbox[j] = Bye(u)
    BY DEF RosterInv, Moves
  <2>2. u \in Conns
    BY <1>0 DEF Moves
  <2>3. CASE hangup[u] /\ Listening(u)
    BY <1>1, <1>2, <2>2, <2>3 DEF Moves
  <2> QED  BY <1>1, <2>1, <2>3 DEF Moves
<1>6. ASSUME NEW i \in 1 .. m, NEW c \in Conns, inbox'[i] = Hello(c)
      PROVE  WillLeave(c, i)'
  <2>1. CASE i \in 1 .. n
    BY <1>1, <1>3, <1>6, <2>1 DEF RosterInv
  <2>2. CASE i \notin 1 .. n
    <3>1. Posts(Hello(c))
      BY <1>1, <1>6, <2>2
    <3> QED  BY <3>1 DEF Moves, WillLeave
  <2> QED  BY <2>1, <2>2
<1>7. ASSUME NEW i \in 1 .. m, NEW c \in Conns, inbox'[i] = Bye(c)
      PROVE  Over(c)' /\ \A j \in i + 1 .. m : inbox'[j] # Hello(c)
  <2>1. CASE i \in 1 .. n
    <3>1. Over(c) /\ \A j \in i + 1 .. n : inbox[j] # Hello(c)
      BY <1>1, <1>7, <2>1 DEF RosterInv
    <3>2. ~Posts(Hello(c))
      BY <3>1 DEF Moves, Over
    <3> QED  BY <1>1, <2>1, <3>1, <3>2 DEF Moves
  <2>2. CASE i \notin 1 .. n
    <3>1. Posts(Bye(c)) /\ i = m
      BY <1>1, <1>7, <2>2
    <3> QED  BY <1>1, <3>1 DEF Moves
  <2> QED  BY <2>1, <2>2
<1> QED  BY <1>4, <1>5, <1>6, <1>7 DEF RosterInv

(* Whoever is on the roster when a Connected that is posted now is handled *)
(* has a place now, and so has the one who posts it.                       *)
LEMMA MovesPlaces ==
  ASSUME Typed, GateInv, RosterInv, PlaceInv, Moves
  PROVE  PlaceInv'
<1> DEFINE n == Len(inbox)
<1>1. /\ n \in Nat /\ \A j \in 1 .. n : inbox'[j] = inbox[j]
      /\ \/ Len(inbox') = n /\ \A e : ~Posts(e)
         \/ Len(inbox') = n + 1 /\ Posts(inbox'[n + 1])
  BY MovesIndices
<1>2. ASSUME NEW i \in 1 .. n + 1
      PROVE  RosterAt(i)' = RosterAt(i)
  BY <1>1 DEF RosterAt, Moves
<1> SUFFICES ASSUME failed' = {}, NEW i \in 1 .. Len(inbox'), NEW c \in Conns,
                    inbox'[i] = Hello(c)
             PROVE  PlaceFor(c, i)'
  BY DEF PlaceInv
<1>3. failed = {}
  BY DEF Moves
<1>4. CASE i \in 1 .. n
  <2>1. PlaceFor(c, i)
    BY <1>1, <1>3, <1>4 DEF PlaceInv
  <2>2. RosterAt(i)' = RosterAt(i)
    BY <1>1, <1>2, <1>4
  <2> QED  BY <2>1, <2>2 DEF PlaceFor
<1>5. CASE i \notin 1 .. n
  <2>1. i = n + 1 /\ Posts(Hello(c))
    BY <1>1, <1>5
  <2>2. pc[c] = "hello"
    BY <2>1 DEF Moves
  <2>3. ASSUME NEW u \in RosterAt(i)
        PROVE  Listening(u)
    <3>1. /\ u \in Conns /\ (u \in users \/ \E j \in 1 .. n : inbox[j] = Hello(u))
          /\ ~ \E j \in 1 .. n : inbox[j] = Bye(u)
      BY <1>1, <2>1 DEF RosterAt
    <3>2. \E j \in 0 .. n : WillLeave(u, j)
      BY <1>1, <3>1 DEF RosterInv
    <3> QED  BY <1>1, <1>3, <3>1, <3>2 DEF WillLeave
  <2>4. RosterAt(i) \subseteq Admitted \ {c} /\ c \in Admitted /\ InConns(Admitted)
    BY <2>2, <2>3 DEF RosterAt, Listening, Admitted, Counted, InConns
  <2>5. MaxClients > 0 => Cardinality(RosterAt(i)) < MaxClients
    <3>1. InConns(Admitted \ {c})
      BY <2>4 DEF InConns
    <3>2. /\ Cardinality(Admitted \ {c}) = Cardinality(Admitted) - 1
          /\ Cardinality(RosterAt(i)) <= Cardinality(Admitted \ {c})
          /\ Cardinality(RosterAt(i)) \in Nat /\ Cardinality(Admitted) \in Nat
      BY <2>4, <3>1, OneLess, NoMore, ConnsFinite
    <3> QED  BY <3>2, ConnAssumption DEF GateInv
  <2> DEFINE h == HostOf[c]
             there == {u \in RosterAt(i) : HostOf[u] = h}
  <2>6. there \subseteq HostedAt(h) \ {c} /\ c \in HostedAt(h) /\ InConns(HostedAt(h)) /\ h \in Hosts
    BY <2>2, <2>3, ConnAssumption DEF RosterAt, Listening, HostedAt, Seated, InConns
  <2>7. MaxPerHost > 0 => Cardinality(there) < MaxPerHost
    <3>1. InConns(HostedAt(h) \ {c})
      BY <2>6 DEF InConns
    <3>2. /\ Cardinality(HostedAt(h) \ {c}) = Cardinality(HostedAt(h)) - 1
          /\ Cardinality(there) <= Cardinality(HostedAt(h) \ {c})
          /\ Cardinality(there) \in Nat /\ Cardinality(HostedAt(h)) \in Nat
      BY <2>6, <3>1, OneLess, NoMore, ConnsFinite
    <3> QED  BY <2>6, <3>2, ConnAssumption DEF GateInv
  <2>8. RosterAt(i)' = RosterAt(i)
    BY <1>1, <1>2, <2>1
  <2> QED  BY <2>5, <2>7, <2>8 DEF PlaceFor
<1> QED  BY <1>4, <1>5

LEMMA LastPosted ==
  ASSUME inbox \in Seq(Events), NEW d \in Events, NEW e \in Events, Posts(d), Posts(e)
  PROVE  d = e
<1>1. /\ Append(inbox, d)[Len(inbox) + 1] = d
      /\ Append(inbox, e)[Len(inbox) + 1] = e
  OBVIOUS
<1> QED  BY <1>1 DEF Posts

LEMMA TasksMove ==
  ASSUME Typed, NEW c \in Conns,
         \/ Admit(c) \/ Release(c) \/ Report(c) \/ Read(c)
         \/ IdleTick(c) \/ HangUp(c) \/ Write(c)
  PROVE  Moves
<1>0. /\ pc \in [Conns -> {"idle", "count", "full", "host", "crowd", "greet", "hello", "serve",
                         "send", "leave", "drop", "drop2", "ended"}]
      /\ hangup \in [Conns -> BOOLEAN] /\ inbox \in Seq(Events)
  BY DEF Typed, TypeOK
<1>1. \A e \in Events : Posts(e) => inbox' # inbox
  BY <1>0 DEF Posts
<1>2. \A d \in Conns : Hello(d) \in Events /\ Bye(d) \in Events
  BY DEF Hello, Bye, Events
<1> DEFINE Silent == inbox' = inbox /\ UNCHANGED <<users, links, hangup>> /\ failed' = failed
<1>3. ASSUME Silent,
             \A d \in Conns : Over(d) => Over(d)',
             \A d \in Conns : Listening(d) => Listening(d)'
      PROVE  Moves
  BY <1>1, <1>2, <1>3 DEF Moves
<1>4. CASE Admit(c)
  <2>1. Silent /\ \A d \in Conns : pc'[d] = pc[d] \/
          (d = c /\ pc[c] \in {"idle", "count", "full", "host", "crowd", "greet"})
    BY <1>0, <1>4 DEF Admit, Accept, Count, GiveBack, ClaimHost, Handshake, Goto, server
  <2> QED  BY <1>3, <2>1 DEF Over, Listening
<1>5. CASE Release(c)
  <2>1. Silent /\ pc[c] \in {"drop", "drop2"} /\ pc'[c] \in {"drop2", "ended"}
        /\ \A d \in Conns \ {c} : pc'[d] = pc[d]
    BY <1>0, <1>5 DEF Release, GiveTotal, GiveHost, Goto, server
  <2> QED  BY <1>3, <2>1 DEF Over, Listening
<1>6. CASE ReadLine(c) \/ ReadEnd(c) \/ HangUp(c) \/ IdleTick(c)
  <2>1. Silent /\ pc[c] = "serve" /\ pc'[c] \in {"send", "leave", "serve"}
        /\ \A d \in Conns \ {c} : pc'[d] = pc[d]
    BY <1>0, <1>6 DEF ReadLine, ReadEnd, HangUp, IdleTick, Goto, server
  <2> QED  BY <1>3, <2>1 DEF Over, Listening
<1>7. CASE Write(c)
  <2>1. Silent /\ pc' = pc
    BY <1>7 DEF Write, tasks
  <2> QED  BY <1>3, <2>1 DEF Over, Listening
<1>8. CASE ReadError(c)
  <2>1. /\ inbox' = inbox /\ UNCHANGED <<users, links>> /\ failed' = failed \cup {c}
        /\ \A d \in Conns \ {c} : pc'[d] = pc[d] /\ hangup'[d] = hangup[d]
        /\ pc[c] = "serve" /\ pc'[c] = "drop"
    BY <1>0, <1>8 DEF ReadError, Goto
  <2> QED  BY <1>1, <1>2, <2>1 DEF Moves, Over, Listening
<1>9. CASE Announce(c)
  <2>1. /\ Posts(Hello(c)) /\ UNCHANGED <<users, links, hangup, failed>>
        /\ \A d \in Conns \ {c} : pc'[d] = pc[d]
        /\ pc[c] = "hello" /\ pc'[c] = "serve"
    BY <1>0, <1>9 DEF Announce, Post, Posts, Hello, Goto, server
  <2>2. \A e \in Events : Posts(e) => e = Hello(c)
    BY <1>0, <1>2, <2>1, LastPosted
  <2>3. \A d \in Conns : ~Posts(Bye(d)) /\ (Posts(Hello(d)) => d = c)
    BY <1>2, <2>2 DEF Hello, Bye
  <2> QED  BY <1>2, <2>1, <2>3 DEF Moves, Over, Listening
<1>10. CASE SendLine(c)
  <2>1. /\ UNCHANGED <<users, links, hangup, failed>>
        /\ \A d \in Conns \ {c} : pc'[d] = pc[d]
        /\ pc[c] = "send" /\ pc'[c] = "serve" /\ held[c] \in Lines
        /\ Posts([kind |-> "Line", from |-> c, line |-> held[c]])
    BY <1>0, <1>10 DEF SendLine, Post, Posts, Goto, server, Typed, HeldInv
  <2> DEFINE e == [kind |-> "Line", from |-> c, line |-> held[c]]
  <2>2. e \in Events
    BY <2>1 DEF Events
  <2>3. \A d \in Conns : e # Hello(d) /\ e # Bye(d)
    BY DEF Hello, Bye
  <2>4. Posts(e)
    BY <2>1
  <2> HIDE DEF e
  <2>5. \A d \in Conns : ~Posts(Bye(d)) /\ ~Posts(Hello(d))
    BY <1>0, <1>2, <2>2, <2>3, <2>4, LastPosted
  <2> QED  BY <2>1, <2>2, <2>4, <2>5 DEF Moves, Over, Listening
<1>11. CASE Leave(c)
  <2>1. /\ Posts(Bye(c)) /\ UNCHANGED <<users, links, failed>>
        /\ \A d \in Conns \ {c} : pc'[d] = pc[d] /\ hangup'[d] = hangup[d]
        /\ pc[c] = "leave" /\ pc'[c] = "drop"
    BY <1>0, <1>11 DEF Leave, Post, Posts, Bye, Goto
  <2>2. \A e \in Events : Posts(e) => e = Bye(c)
    BY <1>0, <1>2, <2>1, LastPosted
  <2>3. \A d \in Conns : ~Posts(Hello(d)) /\ (Posts(Bye(d)) => d = c)
    BY <1>2, <2>2 DEF Hello, Bye
  <2> QED  BY <1>2, <2>1, <2>3 DEF Moves, Over, Listening
<1> QED  BY <1>4, <1>5, <1>6, <1>7, <1>8, <1>9, <1>10, <1>11 DEF Report, Read

-----------------------------------------------------------------------------
(* The queue and the roster, when the server task handles what it has.     *)
(* Whoever is cut off and is listening will hear it.                       *)
Cuts ==
  \A u \in users' \ links' :
    u \in users /\ (Listening(u) /\ (u \in links \/ hangup[u]) => hangup'[u])

LEMMA StepCuts ==
  ASSUME Typed, NEW gone, NEW newNamed, NEW says, Step(gone, newNamed, says)
  PROVE  Cuts
<1> DEFINE lines == [c \in Conns |-> says[c] + Farewells(gone, c)]
           cut == (Lost(lines) \cup gone) \cap links
<1>1. /\ links' = links \ cut /\ users' = users \ gone
      /\ hangup' = [c \in Conns |-> hangup[c] \/ (c \in cut /\ Listening(c))]
  BY DEF Step
<1>2. users \subseteq Conns
  BY DEF Typed, TypeOK
<1> HIDE DEF cut
<1> QED  BY <1>1, <1>2 DEF Cuts

LEMMA SameCuts ==
  ASSUME UNCHANGED <<users, links, hangup>>
  PROVE  Cuts
BY DEF Cuts

LEMMA CommandCuts ==
  ASSUME Typed, NEW c, NEW line, Command(c, line)
  PROVE  Cuts /\ users' \subseteq users
<1>1. CASE Ignored
  BY <1>1, SameCuts DEF Ignored, server
<1>2. ASSUME NEW ok, Register(c, ok)
      PROVE  Cuts /\ users' \subseteq users
  BY <1>2, StepCuts, StepShrinks DEF Register
<1>3. CASE Quit(c) \/ Say(c)
  BY <1>3, StepCuts, StepShrinks DEF Quit, Say
<1>4. CASE Kill(c, line.whom)
  BY <1>4, StepCuts, StepShrinks DEF Kill
<1>5. CASE Kline(c, line.host) \/ Unkline(c, line.host)
  BY <1>5, StepCuts, StepShrinks DEF Kline, Unkline
<1> QED  BY <1>1, <1>2, <1>3, <1>4, <1>5 DEF Command

(* What an event makes of the roster.                                      *)
Handles(e) ==
  /\ Cuts
  /\ \A u \in users' : u \in users \/ e = Hello(u)
  /\ \A u \in users' : e # Bye(u)

LEMMA HandleHandles ==
  ASSUME Typed, Handle
  PROVE  Handles(Head(inbox))
<1> DEFINE e == Head(inbox)
<1>1. e \in Events /\ e.from \in Conns
  BY DEF Handle, Typed, TypeOK, Events
<1>2. /\ e.kind = "Connected" => e = Hello(e.from)
      /\ \A u : e = Bye(u) => e.kind = "Disconnected" /\ u = e.from
  BY <1>1 DEF Events, Hello, Bye
<1> SUFFICES Handles(e)
  OBVIOUS
<1> HIDE DEF e
<1>3. CASE e.kind = "Connected" /\ Connected(e.from)
  <2> DEFINE c == e.from
  <2>1. \/ users' = users /\ links' = links /\ hangup' = [hangup EXCEPT ![c] = Listening(c)]
        \/ users' = users \cup {c} /\ links' = links \cup {c} /\ hangup' = hangup
    BY <1>3 DEF Connected
  <2>2. hangup \in [Conns -> BOOLEAN] /\ users \subseteq Conns
    BY DEF Typed, TypeOK
  <2>3. Cuts
    BY <1>1, <2>1, <2>2 DEF Cuts
  <2> QED  BY <1>2, <1>3, <2>1, <2>3 DEF Handles
<1>4. CASE e.kind = "Disconnected" /\ Disconnected(e.from)
  <2>1. CASE e.from \in users
    BY <1>2, <1>4, <2>1, StepCuts, StepShrinks DEF Disconnected, Handles
  <2>2. CASE e.from \notin users
    BY <1>2, <1>4, <2>2, SameCuts DEF Disconnected, Handles
  <2> QED  BY <2>1, <2>2
<1>5. CASE e.kind = "Line" /\ Command(e.from, e.line)
  BY <1>2, <1>5, CommandCuts DEF Handles
<1> QED  BY <1>3, <1>4, <1>5 DEF Handle, e

LEMMA TailIndices ==
  ASSUME Typed, Handle
  PROVE  /\ Len(inbox) \in Nat \ {0} /\ Len(inbox') = Len(inbox) - 1
         /\ \A j \in 1 .. Len(inbox) - 1 : inbox'[j] = inbox[j + 1]
         /\ Head(inbox) = inbox[1]
<1>1. inbox \in Seq(Events) /\ inbox # <<>> /\ inbox' = Tail(inbox)
  BY DEF Typed, TypeOK, Handle
<1> QED  BY <1>1

LEMMA HandleRoster ==
  ASSUME Typed, RosterInv, Handle
  PROVE  RosterInv'
<1> DEFINE n == Len(inbox)
<1>1. /\ n \in Nat \ {0} /\ Len(inbox') = n - 1
      /\ \A j \in 1 .. n - 1 : inbox'[j] = inbox[j + 1]
  BY TailIndices
<1>2. Handles(inbox[1]) /\ users \subseteq Conns
  BY TailIndices, HandleHandles DEF Typed, TypeOK
<1>3. pc' = pc /\ failed' = failed
  BY DEF Handle, tasks
<1> HIDE DEF n
<1>4. ASSUME NEW c, NEW i \in 1 .. n, WillLeave(c, i)
      PROVE  WillLeave(c, i - 1)'
  <2>1. ASSUME NEW j \in i + 1 .. n, inbox[j] = Bye(c)
        PROVE  j - 1 \in i .. n - 1 /\ inbox'[j - 1] = Bye(c)
    <3>1. j - 1 \in 1 .. n - 1 /\ (j - 1) + 1 = j
      BY <1>1
    <3> QED  BY <1>1, <2>1, <3>1
  <2> QED  BY <1>1, <1>3, <1>4, <2>1 DEF WillLeave, Listening, n
<1>5. ASSUME NEW u \in users'
      PROVE  WillLeave(u, 0)'
  <2>1. CASE inbox[1] = Hello(u)
    <3>1. u \in Conns
      BY <1>1, <1>2, <2>1, HandleTyped DEF Typed, TypeOK
    <3>2. WillLeave(u, 1)
      BY <1>1, <2>1, <3>1 DEF RosterInv, n
    <3> QED  BY <1>1, <1>4, <3>2
  <2>2. CASE u \in users
    <3>1. WillLeave(u, 0) /\ inbox[1] # Bye(u)
      BY <1>2, <2>2 DEF RosterInv, Handles
    <3>2. WillLeave(u, 1)
      BY <1>1, <3>1 DEF WillLeave, n
    <3> QED  BY <1>1, <1>4, <3>2
  <2> QED  BY <1>2, <2>1, <2>2 DEF Handles
<1>6. ASSUME NEW u \in users' \ links'
      PROVE  \/ u \in failed'
             \/ hangup'[u] /\ Listening(u)'
             \/ \E j \in 1 .. Len(inbox') : inbox'[j] = Bye(u)
  <2>1. u \in users /\ (Listening(u) /\ (u \in links \/ hangup[u]) => hangup'[u])
    BY <1>2 DEF Handles, Cuts
  <2>2. CASE Listening(u) /\ (u \in links \/ hangup[u])
    BY <1>3, <2>1, <2>2 DEF Listening
  <2>3. CASE ~(Listening(u) /\ (u \in links \/ hangup[u]))
    <3>1. u \in failed \/ \E j \in 1 .. n : inbox[j] = Bye(u)
      BY <1>1, <2>1, <2>3 DEF RosterInv, WillLeave, n
    <3>2. inbox[1] # Bye(u)
      BY <1>2 DEF Handles
    <3>3. ASSUME NEW j \in 1 .. n, inbox[j] = Bye(u)
          PROVE  j - 1 \in 1 .. n - 1 /\ inbox'[j - 1] = Bye(u)
      <4>1. j - 1 \in 1 .. n - 1 /\ (j - 1) + 1 = j
        BY <1>1, <3>2, <3>3
      <4> QED  BY <1>1, <3>3, <4>1
    <3> QED  BY <1>1, <1>3, <3>1, <3>3
  <2> QED  BY <2>2, <2>3
<1>7. ASSUME NEW i \in 1 .. Len(inbox'), NEW c \in Conns
      PROVE  /\ inbox'[i] = Hello(c) => WillLeave(c, i)'
             /\ inbox'[i] = Bye(c) => /\ Over(c)'
                                      /\ \A j \in i + 1 .. Len(inbox') : inbox'[j] # Hello(c)
  <2>1. i \in 1 .. n - 1 /\ i + 1 \in 1 .. n /\ inbox'[i] = inbox[i + 1] /\ (i + 1) - 1 = i
    BY <1>1
  <2>2. /\ inbox[i + 1] = Hello(c) => WillLeave(c, i + 1)
        /\ inbox[i + 1] = Bye(c) => /\ Over(c)
                                    /\ \A j \in i + 2 .. n : inbox[j] # Hello(c)
    BY <2>1 DEF RosterInv, n
  <2>3. inbox[i + 1] = Hello(c) => WillLeave(c, i)'
    <3>1. WillLeave(c, i + 1) => WillLeave(c, (i + 1) - 1)'
      BY <1>4, <2>1
    <3> QED  BY <2>1, <2>2, <3>1
  <2>4. ASSUME inbox[i + 1] = Bye(c), NEW j \in i + 1 .. Len(inbox')
        PROVE  inbox'[j] # Hello(c)
    <3>1. j \in 1 .. n - 1 /\ j + 1 \in i + 2 .. n
      BY <1>1, <2>1
    <3> QED  BY <1>1, <2>2, <2>4, <3>1
  <2> QED  BY <1>3, <2>1, <2>2, <2>3, <2>4 DEF Over
<1> QED  BY <1>5, <1>6, <1>7 DEF RosterInv

LEMMA HandlePlaces ==
  ASSUME Typed, RosterInv, PlaceInv, Handle
  PROVE  PlaceInv'
<1> DEFINE n == Len(inbox)
<1>1. /\ n \in Nat \ {0} /\ Len(inbox') = n - 1
      /\ \A j \in 1 .. n - 1 : inbox'[j] = inbox[j + 1]
  BY TailIndices
<1>2. Handles(inbox[1]) /\ users \subseteq Conns
  BY TailIndices, HandleHandles DEF Typed, TypeOK
<1>3. failed' = failed
  BY DEF Handle
<1> SUFFICES ASSUME failed = {}, NEW i \in 1 .. n - 1, NEW c \in Conns, inbox[i + 1] = Hello(c)
             PROVE  PlaceFor(c, i)'
  BY <1>1, <1>3 DEF PlaceInv
<1>4. ASSUME NEW u \in RosterAt(i)'
      PROVE  u \in RosterAt(i + 1)
  <2>1. /\ u \in Conns /\ (u \in users' \/ \E j \in 1 .. i - 1 : inbox'[j] = Hello(u))
        /\ ~ \E j \in 1 .. i - 1 : inbox'[j] = Bye(u)
    BY DEF RosterAt
  <2>2. \A j \in 2 .. i : j - 1 \in 1 .. i - 1 /\ inbox'[j - 1] = inbox[j]
    <3>1. \A j \in 2 .. i : j - 1 \in 1 .. n - 1 /\ (j - 1) + 1 = j /\ j - 1 \in 1 .. i - 1
      BY <1>1
    <3> QED  BY <1>1, <3>1
  <2>3. \A j \in 2 .. i : inbox[j] # Bye(u)
    BY <2>1, <2>2
  <2>4. \/ u \in users' \/ \E j \in 2 .. i : inbox[j] = Hello(u)
    <3>1. ASSUME NEW j \in 1 .. i - 1, inbox'[j] = Hello(u)
          PROVE  j + 1 \in 2 .. i /\ inbox[j + 1] = Hello(u)
      BY <1>1, <3>1
    <3> QED  BY <2>1, <3>1
  <2>5. inbox[1] # Bye(u)
    <3>1. CASE u \in users'
      BY <1>2, <3>1 DEF Handles
    <3>2. CASE \E j \in 2 .. i : inbox[j] = Hello(u)
      <4> PICK j \in 2 .. i : inbox[j] = Hello(u)
        BY <3>2
      <4>1. 1 \in 1 .. n /\ j \in 1 + 1 .. n
        BY <1>1
      <4> QED  BY <2>1, <4>1 DEF RosterInv
    <3> QED  BY <2>4, <3>1, <3>2
  <2>6. u \in users \/ \E j \in 1 .. i : inbox[j] = Hello(u)
    <3>1. CASE u \in users'
      BY <1>1, <1>2, <3>1 DEF Handles
    <3> QED  BY <2>4, <3>1
  <2>7. (i + 1) - 1 = i /\ \A j \in 1 .. i : j = 1 \/ j \in 2 .. i
    BY <1>1
  <2> QED  BY <2>1, <2>3, <2>5, <2>6, <2>7 DEF RosterAt
<1>5. RosterAt(i)' \subseteq RosterAt(i + 1) /\ InConns(RosterAt(i + 1))
  BY <1>4 DEF RosterAt, InConns
<1>6. PlaceFor(c, i + 1)
  <2>1. i + 1 \in 1 .. n
    BY <1>1
  <2> QED  BY <2>1 DEF PlaceInv
<1> DEFINE before == {u \in RosterAt(i + 1) : HostOf[u] = HostOf[c]}
           after == {u \in RosterAt(i)' : HostOf[u] = HostOf[c]}
<1>7. after \subseteq before /\ InConns(before) /\ InConns(RosterAt(i)') /\ InConns(after)
  BY <1>5 DEF InConns
<1>8. /\ Cardinality(RosterAt(i)') <= Cardinality(RosterAt(i + 1))
      /\ Cardinality(after) <= Cardinality(before)
  BY <1>5, <1>7, NoMore
<1>9. /\ Cardinality(RosterAt(i)') \in Nat /\ Cardinality(RosterAt(i + 1)) \in Nat
      /\ Cardinality(after) \in Nat /\ Cardinality(before) \in Nat
      /\ MaxClients \in Nat /\ MaxPerHost \in Nat
  BY <1>5, <1>7, ConnsFinite, ConnAssumption
<1>10. /\ MaxClients > 0 => Cardinality(RosterAt(i + 1)) < MaxClients
       /\ MaxPerHost > 0 => Cardinality(before) < MaxPerHost
  BY <1>6 DEF PlaceFor
<1> HIDE DEF before, after
<1>11. /\ MaxClients > 0 => Cardinality(RosterAt(i)') < MaxClients
       /\ MaxPerHost > 0 => Cardinality(after) < MaxPerHost
  BY <1>8, <1>9, <1>10
<1> QED  BY <1>11 DEF PlaceFor, after

LEMMA ExpireQueue ==
  ASSUME Typed, RosterInv, PlaceInv, NEW stale, ExpireUnregistered(stale)
  PROVE  RosterInv' /\ PlaceInv'
<1>1. /\ users' \subseteq users /\ Cuts
      /\ pc' = pc /\ inbox' = inbox /\ failed' = failed /\ users \subseteq Conns
  BY StepShrinks, StepCuts DEF ExpireUnregistered, tasks, Typed, TypeOK
<1>2. \A u, i : WillLeave(u, i)' <=> WillLeave(u, i)
  BY <1>1 DEF WillLeave, Listening
<1>3. ASSUME NEW u \in users' \ links'
      PROVE  \/ u \in failed'
             \/ hangup'[u] /\ Listening(u)'
             \/ \E j \in 1 .. Len(inbox') : inbox'[j] = Bye(u)
  BY <1>1 DEF Cuts, RosterInv, WillLeave, Listening
<1>4. RosterInv'
  BY <1>1, <1>2, <1>3 DEF RosterInv, Over
<1>5. ASSUME NEW c \in Conns, NEW i, PlaceFor(c, i)
      PROVE  PlaceFor(c, i)'
  <2> DEFINE before == {u \in RosterAt(i) : HostOf[u] = HostOf[c]}
             after == {u \in RosterAt(i)' : HostOf[u] = HostOf[c]}
  <2>1. RosterAt(i)' \subseteq RosterAt(i) /\ InConns(RosterAt(i))
    BY <1>1 DEF RosterAt, InConns
  <2>2. after \subseteq before /\ InConns(before)
    BY <2>1 DEF InConns
  <2>3. /\ Cardinality(RosterAt(i)') <= Cardinality(RosterAt(i))
        /\ Cardinality(after) <= Cardinality(before)
        /\ Cardinality(RosterAt(i)') \in Nat /\ Cardinality(RosterAt(i)) \in Nat
        /\ Cardinality(after) \in Nat /\ Cardinality(before) \in Nat
        /\ MaxClients \in Nat /\ MaxPerHost \in Nat
    BY <2>1, <2>2, NoMore, ConnsFinite, ConnAssumption
  <2>4. /\ MaxClients > 0 => Cardinality(RosterAt(i)) < MaxClients
        /\ MaxPerHost > 0 => Cardinality(before) < MaxPerHost
    BY <1>5 DEF PlaceFor
  <2> HIDE DEF before, after
  <2>5. /\ MaxClients > 0 => Cardinality(RosterAt(i)') < MaxClients
        /\ MaxPerHost > 0 => Cardinality(after) < MaxPerHost
    BY <2>3, <2>4
  <2> QED  BY <2>5 DEF PlaceFor, after
<1>6. PlaceInv'
  BY <1>1, <1>5 DEF PlaceInv
<1> QED  BY <1>4, <1>6

-----------------------------------------------------------------------------
(* The inductive invariant.                                                *)
ConnInv == Typed /\ GateInv /\ RosterInv /\ PlaceInv

LEMMA ConnInvInit == Init => ConnInv
<1> SUFFICES ASSUME Init  PROVE ConnInv
  OBVIOUS
<1>1. Len(inbox) = 0 /\ inbox \in Seq(Events) /\ EventCap \in Nat \ {0} /\ OutCap \in Nat \ {0}
  BY ConnAssumption DEF Init
<1>2. Typed
  BY <1>1, ConnAssumption DEF Init, Typed, TypeOK, HeldInv
<1>3. Counted = {} /\ Admitted = {} /\ \A h : HostedAt(h) = {}
  BY DEF Init, Counted, Admitted, HostedAt, Seated
<1>4. GateInv
  <2>1. Cardinality({}) = 0 /\ MaxClients \in Nat /\ MaxPerHost \in Nat
    BY FS_EmptySet, ConnAssumption
  <2>2. total = 0 /\ \A h \in Hosts : perHost[h] = 0
    BY DEF Init
  <2> QED  BY <1>3, <2>1, <2>2 DEF GateInv
<1>5. RosterInv /\ PlaceInv
  BY <1>1 DEF Init, RosterInv, PlaceInv
<1> QED  BY <1>2, <1>4, <1>5 DEF ConnInv

LEMMA ConnInvStep ==
  ASSUME ConnInv, [Next]_vars
  PROVE  ConnInv'
<1> USE DEF ConnInv
<1>1. Typed' /\ GateInv'
  BY TypedGate
<1>2. CASE UNCHANGED vars
  <2>1. \A u, i : WillLeave(u, i)' <=> WillLeave(u, i)
    BY <1>2 DEF vars, WillLeave, Listening
  <2>2. RosterInv'
    BY <1>2, <2>1 DEF vars, RosterInv, Listening, Over
  <2>3. PlaceInv'
    <3>1. \A i : RosterAt(i)' = RosterAt(i)
      BY <1>2 DEF vars, RosterAt
    <3>2. \A c, i : PlaceFor(c, i)' <=> PlaceFor(c, i)
      BY <3>1 DEF PlaceFor
    <3> QED  BY <1>2, <3>2 DEF vars, PlaceInv
  <2> QED  BY <1>1, <2>2, <2>3
<1>3. CASE \E c \in Conns : \/ Admit(c) \/ Release(c) \/ Report(c) \/ Read(c)
                            \/ IdleTick(c) \/ HangUp(c) \/ Write(c)
  BY <1>1, <1>3, TasksMove, MovesRoster, MovesPlaces
<1>4. CASE Handle
  BY <1>1, <1>4, HandleRoster, HandlePlaces
<1>5. CASE \E stale \in SUBSET Conns : ExpireUnregistered(stale)
  BY <1>1, <1>5, ExpireQueue
<1> QED  BY <1>2, <1>3, <1>4, <1>5 DEF Next

LEMMA ConnInvAlways == Spec => []ConnInv
<1>1. ConnInv /\ [Next]_vars => ConnInv'
  BY ConnInvStep
<1> QED  BY <1>1, ConnInvInit, PTL DEF Spec

(* The state is what the type invariant says: no queue of lines or events  *)
(* is over its bound, no count below zero, no link without a user, and the *)
(* gate has the bans of the accounts.                                      *)
THEOREM ConnectionsTyped == Spec => []TypeOK
<1>1. ConnInv => TypeOK
  BY DEF ConnInv, Typed
<1> QED  BY <1>1, ConnInvAlways, PTL

(* Admission counts every place once, whatever the order in which the      *)
(* tasks take its steps and whichever way they leave, and the limits hold  *)
(* (try_acquire, release).                                                 *)
THEOREM SlotsAreCounted == Spec => []SlotsAreExact
<1>1. ASSUME ConnInv
      PROVE  SlotsAreExact
  <2>1. /\ InConns(Counted) /\ InConns(Admitted) /\ Seated \subseteq Admitted
        /\ \A h : InConns(HostedAt(h)) /\ SeatedAt(h) \subseteq HostedAt(h)
    BY DEF InConns, Counted, Admitted, Seated, HostedAt, SeatedAt
  <2>2. Cardinality(Seated) <= Cardinality(Admitted) /\ Cardinality(Seated) \in Nat
        /\ Cardinality(Admitted) \in Nat
    BY <2>1, NoMore, ConnsFinite
  <2>3. MaxClients > 0 => total = Cardinality(Counted) /\ Cardinality(Seated) <= MaxClients
    BY <1>1, <2>2, ConnAssumption DEF ConnInv, GateInv
  <2>4. ASSUME MaxPerHost > 0, NEW h \in Hosts
        PROVE  /\ Cardinality(SeatedAt(h)) <= MaxPerHost
               /\ perHost[h] = Cardinality(HostedAt(h))
    <3>1. /\ Cardinality(SeatedAt(h)) <= Cardinality(HostedAt(h))
          /\ Cardinality(SeatedAt(h)) \in Nat /\ Cardinality(HostedAt(h)) \in Nat
      BY <2>1, NoMore, ConnsFinite
    <3>2. perHost[h] = Cardinality(HostedAt(h)) /\ perHost[h] <= MaxPerHost
      BY <1>1, <2>4 DEF ConnInv, GateInv
    <3> QED  BY <3>1, <3>2, ConnAssumption
  <2> QED  BY <2>3, <2>4 DEF SlotsAreExact, HostedAt
<1> QED  BY <1>1, ConnInvAlways, PTL

(* A slot is given back only after the end of its client is in the queue,  *)
(* so that the server's second look never refuses a client for want of a   *)
(* place the gate has given him (serve, Connected).                        *)
THEOREM GateSuffices == Spec => []GateIsEnough
<1>1. ASSUME ConnInv, NEW c \in Conns, failed = {}, inbox # <<>>,
             Head(inbox) = [kind |-> "Connected", from |-> c]
      PROVE  ~Overfull(c)
  <2>1. inbox \in Seq(Events) /\ users \subseteq Conns
    BY <1>1 DEF ConnInv, Typed, TypeOK
  <2>2. 1 \in 1 .. Len(inbox) /\ inbox[1] = Hello(c)
    BY <1>1, <2>1 DEF Hello
  <2>3. PlaceFor(c, 1)
    BY <1>1, <2>2 DEF ConnInv, PlaceInv
  <2>4. RosterAt(1) = users
    BY <2>1 DEF RosterAt
  <2>5. InConns(users) /\ InConns({u \in users : HostOf[u] = HostOf[c]})
    BY <2>1 DEF InConns
  <2>6. /\ Cardinality(users) \in Nat /\ Cardinality({u \in users : HostOf[u] = HostOf[c]}) \in Nat
        /\ MaxClients \in Nat /\ MaxPerHost \in Nat
    BY <2>5, ConnsFinite, ConnAssumption
  <2> QED  BY <2>3, <2>4, <2>6 DEF PlaceFor, Overfull
<1>2. ConnInv => GateIsEnough
  BY <1>1 DEF GateIsEnough
<1> QED  BY <1>2, ConnInvAlways, PTL

(* Whoever the server has cut off is on the roster only as long as his     *)
(* task has the hangup to see or its report is in the queue                *)
(* (Clients::send, disconnect), unless his socket failed under a read.     *)
THEOREM UnlinkedLeave == Spec => []UnlinkedIsLeaving
<1>1. ASSUME ConnInv
      PROVE  UnlinkedIsLeaving
  <2>1. inbox \in Seq(Events)
    BY <1>1 DEF ConnInv, Typed, TypeOK
  <2>2. \A j \in 1 .. Len(inbox) : inbox[j] \in Range(inbox)
    BY <2>1 DEF Range
  <2> QED  BY <1>1, <2>2 DEF ConnInv, RosterInv, UnlinkedIsLeaving, Listening, Bye
<1> QED  BY <1>1, ConnInvAlways, PTL
=============================================================================
