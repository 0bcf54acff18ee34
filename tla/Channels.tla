------------------------------ MODULE Channels ------------------------------
(***************************************************************************)
(* Who is on which channel, and with what rights: the server's registry of *)
(* users and channels (src/src/server/state.rs), the commands that change  *)
(* it (src/src/server/commands/channels.rs, operator.rs), the frames from  *)
(* the air that change it (src/src/server/bridge.rs), and the table of     *)
(* stations that the session layer keeps beside it (src/src/airc/          *)
(* session.rs), which refuses, forgets and bars stations on its own terms. *)
(*                                                                         *)
(* One task handles one event at a time, so each action is a whole event:  *)
(* a client's line, a frame heard, a tick.  What a station may send comes  *)
(* at any moment, in any order and again: the retries and echoes that the  *)
(* session layer does not recognise, as after the record of the station    *)
(* was forgotten, are no different from that.                              *)
(*                                                                         *)
(* A user of the net keeps the nick it came with; what a change of nick    *)
(* takes away (Accounts) is the loss of Identify and Callsign here.        *)
(***************************************************************************)
EXTENDS Integers, FiniteSets, SequencesExt

CONSTANTS
  Clients, Stations, Chans,
  Configured, Radio,       \* channels of the configuration, and which are bridged
  Operators,               \* its lists of operators
  Opers, Owners,           \* clients who may OPER, and who have a nick and a callsign
  MaxChannels,             \* max_channels_per_user
  MaxPeers,                \* max_peers
  Requests,                \* what is asked of MODE
  MaxModes                 \* bound of the model: MODE and TOPIC lines that change something

ASSUME ChannelsAssumption ==
  /\ Clients \cap Stations = {}
  /\ Radio \subseteq Configured /\ Configured \subseteq Chans
  /\ Operators \in [Chans -> SUBSET Clients]
  /\ \A c \in Chans \ Configured : Operators[c] = {}
  /\ Opers \subseteq Clients /\ Owners \subseteq Clients
  /\ MaxChannels \in Nat /\ MaxPeers \in Nat \ {0} /\ MaxModes \in Nat
  /\ Requests \subseteq Seq([letter : {"m", "t", "r", "k", "l", "o", "v"}, on : BOOLEAN,
                             who : Clients \cup Stations])

VARIABLES
  users, chans,        \* State.users, State.channels
  peers,               \* Sessions.peers
  heard,               \* the same stations, the quietest first
  removed,             \* Sessions.radio_kicked
  trusted,             \* history: rights to operate given by a control operator
  modes

vars == <<users, chans, peers, heard, removed, trusted, modes>>

Users == [oper : BOOLEAN, identified : BOOLEAN, callsign : BOOLEAN, channels : SUBSET Chans]
Flags == [op : BOOLEAN, voice : BOOLEAN, opManual : BOOLEAN, voiceManual : BOOLEAN]
Peers == [registered : BOOLEAN, kicked : SUBSET Chans]

TypeOK ==
  /\ DOMAIN users \subseteq Clients \cup Stations
  /\ \A u \in DOMAIN users : users[u] \in Users
  /\ Configured \subseteq DOMAIN chans /\ DOMAIN chans \subseteq Chans
  /\ \A c \in DOMAIN chans :
       /\ {chans[c].rf, chans[c].moderated, chans[c].locked, chans[c].key} \subseteq BOOLEAN
       /\ chans[c].limit \in 0..1 /\ chans[c].topic \in {"old", "new"}
       /\ \A u \in DOMAIN chans[c].members : chans[c].members[u] \in Flags
  /\ DOMAIN peers \subseteq Stations /\ Cardinality(DOMAIN peers) <= MaxPeers
  /\ \A x \in DOMAIN peers : peers[x] \in Peers
  /\ ToSet(heard) = DOMAIN peers /\ IsInjective(heard)
  /\ removed \subseteq Stations
  /\ modes \in 0..MaxModes

(* What one event works on: the server as it is, and the stations that     *)
(* were dropped from the table to make room.                               *)
Now == [users |-> users, chans |-> chans, peers |-> peers, heard |-> heard,
        removed |-> removed, evicted |-> {}]

NewUser(callsign) ==
  [oper |-> FALSE, identified |-> FALSE, callsign |-> callsign, channels |-> {}]
NewChannel(rf) ==
  [rf |-> rf, moderated |-> rf, locked |-> TRUE, key |-> FALSE, limit |-> 0, topic |-> "old",
   members |-> <<>>]

Init ==
  /\ users = <<>> /\ peers = <<>> /\ heard = <<>> /\ removed = {}
  /\ chans = [c \in Configured |-> NewChannel(c \in Radio)]
  /\ trusted = {} /\ modes = 0

Less(f, X) == Restrict(f, DOMAIN f \ X)
Put(f, x, v) == [y \in DOMAIN f \cup {x} |-> IF y = x THEN v ELSE f[y]]

-----------------------------------------------------------------------------
(* The registry. *)

Exists(s, u) == u \in DOMAIN s.users
IsMember(s, u, c) == c \in DOMAIN s.chans /\ u \in DOMAIN s.chans[c].members
IsOper(s, u) == s.users[u].oper
IsChanop(s, u, c) == IsOper(s, u) \/ (IsMember(s, u, c) /\ s.chans[c].members[u].op)

(* The rights a user has for who they are. *)
FlagsFor(s, u, c, first) ==
  LET configured == u \in Operators[c] /\ s.users[u].identified
      rf == s.chans[c].rf IN
  [op |-> IsOper(s, u) \/ configured \/ (~rf /\ first /\ u \notin Stations),
   voice |-> rf /\ (s.users[u].callsign \/ IsOper(s, u)),
   opManual |-> FALSE, voiceManual |-> FALSE]

Join(s, u, c) ==
  IF ~Exists(s, u) \/ c \notin DOMAIN s.chans \/ IsMember(s, u, c) THEN s
  ELSE [s EXCEPT !.chans[c].members = Put(@, u, FlagsFor(s, u, c, @ = <<>>)),
                 !.users[u].channels = @ \cup {c}]

(* The rights of a member worked out again; what was given by hand stays. *)
Intended(s, u, c) ==
  LET old == s.chans[c].members[u]
      derived == FlagsFor(s, u, c, FALSE) IN
  [old EXCEPT !.op = derived.op \/ old.opManual, !.voice = derived.voice \/ old.voiceManual]

(* ... for each of the users U, wherever they are. *)
RefreshPrivileges(s, U) ==
  LET Due(c) == {u \in U \cap DOMAIN s.users : c \in s.users[u].channels}
      Fresh(c) == [u \in DOMAIN s.chans[c].members |->
                     IF u \in Due(c) THEN Intended(s, u, c) ELSE s.chans[c].members[u]] IN
  [s EXCEPT !.chans = [c \in DOMAIN @ |-> [@[c] EXCEPT !.members = Fresh(c)]]]

(* Users leave channels, M says who which: both tables forget it, and so is *)
(* a channel left empty that is not configured.                             *)
Mutant_Leave(s, M) ==
  LET Leavers(c) == {u \in DOMAIN s.users : <<u, c>> \in M}
      left == [c \in DOMAIN s.chans |-> [s.chans[c] EXCEPT !.members = Less(@, Leavers(c))]]
      reaped == {c \in DOMAIN left \ Configured : Leavers(c) # {} /\ DOMAIN left[c].members = {}}
  IN [s EXCEPT !.chans = Less(left, reaped)]
Leave(s, M) ==
  LET Leavers(c) == {u \in DOMAIN s.users : <<u, c>> \in M}
      left == [c \in DOMAIN s.chans |-> [s.chans[c] EXCEPT !.members = Less(@, Leavers(c))]]
      reaped == {c \in DOMAIN left \ Configured : Leavers(c) # {} /\ DOMAIN left[c].members = {}}
  IN [s EXCEPT !.chans = Less(left, reaped),
               !.users = [u \in DOMAIN s.users |-> [s.users[u] EXCEPT !.channels =
                            @ \ {c \in DOMAIN left : <<u, c>> \in M}]]]

Part(s, u, c) == Leave(s, {<<u, c>>})
PartAll(s, u) == Leave(s, {u} \X s.users[u].channels)

RemoveUsers(s, U) ==
  [Leave(s, {m \in U \X Chans : m[2] \in s.users[m[1]].channels}) EXCEPT !.users = Less(@, U)]

-----------------------------------------------------------------------------
(* The table of stations. *)

(* The order without the stations X. *)
Without(line, X) ==
  LET kept[n \in 0 .. Len(line)] ==
        IF n = 0 THEN <<>>
        ELSE IF line[n] \in X THEN kept[n - 1]
        ELSE Append(kept[n - 1], line[n])
  IN kept[Len(line)]

Forget(s, X) == [s EXCEPT !.peers = Less(@, X), !.heard = Without(@, X)]

(* Heard from, or sent to: the last of the line.  A full table refuses.    *)
Mutant_Touch(s, x) ==
  IF x \in DOMAIN s.peers
  THEN [s EXCEPT !.heard = Append(Without(@, {x}), x)]
  ELSE [s EXCEPT !.peers = Put(@, x, [registered |-> FALSE, kicked |-> {}]),
                 !.heard = Append(@, x)]
Touch(s, x) ==
  IF x \in DOMAIN s.peers
  THEN [s EXCEPT !.heard = Append(Without(@, {x}), x)]
  ELSE IF Cardinality(DOMAIN s.peers) >= MaxPeers THEN s
  ELSE [s EXCEPT !.peers = Put(@, x, [registered |-> FALSE, kicked |-> {}]),
                 !.heard = Append(@, x)]

(* To send, the quietest makes room. *)
ForceTouch(s, x) ==
  IF x \notin DOMAIN s.peers /\ Cardinality(DOMAIN s.peers) >= MaxPeers
  THEN Touch([Forget(s, {Head(s.heard)}) EXCEPT !.evicted = @ \cup {Head(s.heard)}], x)
  ELSE Touch(s, x)

(* Anything to one station, if the transmitter takes it (air).  An answer  *)
(* to the station just heard leaves the table as it is either way.         *)
Unicast(s, x, air) == IF air THEN ForceTouch(s, x) ELSE s
Answer(s, x) == Unicast(s, x, TRUE)

(* Those of U who are here quit, and the stations lose their record. *)
QuitUsers(s, U) ==
  LET here == U \cap DOMAIN s.users IN
  IF here = {} THEN s ELSE Forget(RemoveUsers(s, here), here \cap Stations)

(* After every event: who lost the record loses the presence. *)
ReapEvicted(s) == QuitUsers(s, s.evicted)

(* The event is over.  A right given by a control operator lasts as long   *)
(* as the membership it was given to.                                      *)
Done(s, given) ==
  LET t == ReapEvicted(s) IN
  /\ users' = t.users /\ chans' = t.chans
  /\ peers' = t.peers /\ heard' = t.heard /\ removed' = t.removed
  /\ trusted' = {g \in given : IsMember(t, g[1], g[2])}
Becomes(s) == Done(s, trusted) /\ UNCHANGED modes

-----------------------------------------------------------------------------
(* Lines of a client. *)

Connect(u) ==
  /\ u \notin DOMAIN users
  /\ Becomes([Now EXCEPT !.users = Put(@, u, NewUser(FALSE))])

(* JOIN: a channel that does not exist is made, and is never bridged. *)
DoJoin(u, c, keyed) ==
  /\ Exists(Now, u) /\ ~IsMember(Now, u, c)
  /\ Cardinality(users[u].channels) < MaxChannels
  /\ IF c \in DOMAIN chans
     THEN /\ chans[c].key => keyed
          /\ chans[c].limit = 0 \/ Cardinality(DOMAIN chans[c].members) < chans[c].limit
          /\ Becomes(Join(Now, u, c))
     ELSE Becomes(Join([Now EXCEPT !.chans = Put(@, c, NewChannel(FALSE))], u, c))

DoPart(u, c) ==
  /\ Exists(Now, u) /\ IsMember(Now, u, c)
  /\ Becomes(Part(Now, u, c))

(* JOIN 0. *)
JoinZero(u) ==
  /\ Exists(Now, u) /\ users[u].channels # {}
  /\ Becomes(PartAll(Now, u))

Topic(u, c, topic) ==
  /\ Exists(Now, u) /\ IsMember(Now, u, c)
  /\ chans[c].locked => IsChanop(Now, u, c)
  /\ topic # chans[c].topic /\ modes < MaxModes
  /\ modes' = modes + 1
  /\ Done([Now EXCEPT !.chans[c].topic = topic], trusted)

(* MODE, letter by letter.  Whether the channel is bridged, and who asks,  *)
(* is looked up once, before the first of them.  w.refresh are the members *)
(* whose rights are worked out again after the last.                       *)
Mutant_Bridge(w, c, on) ==
  IF w.s.chans[c].rf = on THEN w
  ELSE [s |-> [w.s EXCEPT !.chans[c].rf = on, !.chans[c].moderated = @ \/ on],
        refresh |-> DOMAIN w.s.chans[c].members]
Bridge(w, c, on) ==
  LET clear == [u \in DOMAIN w.s.chans[c].members |->
                  [w.s.chans[c].members[u] EXCEPT !.opManual = @ /\ ~on]] IN
  IF w.s.chans[c].rf = on THEN w
  ELSE [s |-> [w.s EXCEPT !.chans[c].rf = on, !.chans[c].moderated = @ \/ on,
                          !.chans[c].members = clear],
        refresh |-> DOMAIN clear]
Give(w, c, letter, on, who) ==
  LET old == w.s.chans[c].members[who]
      flags == IF letter = "o" THEN [old EXCEPT !.op = on, !.opManual = on]
                               ELSE [old EXCEPT !.voice = on, !.voiceManual = on] IN
  IF IsMember(w.s, who, c) THEN [w EXCEPT !.s.chans[c].members[who] = flags] ELSE w

Letter(w, c, bridged, oper, ask) ==
  CASE ask.letter = "m" ->
         IF bridged /\ ~oper THEN w ELSE [w EXCEPT !.s.chans[c].moderated = ask.on]
    [] ask.letter = "t" -> [w EXCEPT !.s.chans[c].locked = ask.on]
    [] ask.letter = "r" -> IF oper THEN Bridge(w, c, ask.on) ELSE w
    [] ask.letter = "k" -> [w EXCEPT !.s.chans[c].key = ask.on]
    [] ask.letter = "l" -> [w EXCEPT !.s.chans[c].limit = IF ask.on THEN 1 ELSE 0]
    [] ask.letter = "o" ->
         IF bridged /\ ~oper THEN w ELSE Give(w, c, "o", ask.on, ask.who)
    [] ask.letter = "v" -> Give(w, c, "v", ask.on, ask.who)

(* The letters of a request, in order. *)
Letters(s, c, bridged, oper, request) ==
  LET after[n \in 0 .. Len(request)] ==
        IF n = 0 THEN [s |-> s, refresh |-> {}]
        ELSE Letter(after[n - 1], c, bridged, oper, request[n])
  IN after[Len(request)]

(* Given by a control operator: +o while the channel is bridged, or on the *)
(* line that bridges it.                                                   *)
Mode(u, c, request) ==
  /\ Exists(Now, u) /\ c \in DOMAIN chans /\ IsChanop(Now, u, c)
  /\ LET w == Letters(Now, c, chans[c].rf, IsOper(Now, u), request)
         t == RefreshPrivileges(w.s, w.refresh)
         asked == {v \in Clients \cup Stations : \E i \in DOMAIN request :
                     request[i].letter = "o" /\ request[i].on /\ request[i].who = v} IN
     /\ t # Now /\ modes < MaxModes
     /\ modes' = modes + 1
     /\ Done(t, IF IsOper(Now, u) THEN trusted \cup (asked \X {c}) ELSE trusted)

Kick(u, c, who, air) ==
  /\ Exists(Now, u) /\ c \in DOMAIN chans /\ IsChanop(Now, u, c)
  /\ IsMember(Now, who, c)
  /\ LET out == Part(Now, who, c)
         marked == IF who \in DOMAIN out.peers
                   THEN [out EXCEPT !.peers[who].kicked = @ \cup {c}] ELSE out IN
     Becomes(IF who \in Stations THEN Unicast(marked, who, air) ELSE out)

(* A private message or a notice to a station on the air. *)
Whisper(u, x) ==
  /\ Exists(Now, u) /\ Exists(Now, x) /\ u # x
  /\ Becomes(Unicast(Now, x, TRUE))

Quit(u) == Exists(Now, u) /\ Becomes(QuitUsers(Now, {u}))

(* OPER, IDENTIFY, CALLSIGN, and what takes the last two away: the rights  *)
(* on every channel follow.                                                *)
Oper(u) ==
  /\ Exists(Now, u) /\ ~IsOper(Now, u)
  /\ Becomes(RefreshPrivileges([Now EXCEPT !.users[u].oper = TRUE], {u}))
Identify(u, on) ==
  /\ Exists(Now, u) /\ users[u].identified # on
  /\ Becomes(RefreshPrivileges([Now EXCEPT !.users[u].identified = on,
                                           !.users[u].callsign = @ /\ on], {u}))
Callsign(u, on) ==
  /\ Exists(Now, u) /\ users[u].callsign # on
  /\ Becomes(RefreshPrivileges([Now EXCEPT !.users[u].callsign = on], {u}))

(* RADIO KICK: the station is removed, and barred until it asks again. *)
RadioKick(u, x) ==
  /\ Exists(Now, u) /\ IsOper(Now, u)
  /\ Becomes(QuitUsers([Now EXCEPT !.removed = @ \cup {x}], {x}))

Kill(u, who) ==
  /\ Exists(Now, u) /\ IsOper(Now, u) /\ Exists(Now, who)
  /\ Becomes(QuitUsers(Now, {who}))

-----------------------------------------------------------------------------
(* Frames from the air. *)

(* A presence for a station.  True registration is the session's. *)
EnsureUser(s, x) ==
  IF Exists(s, x) THEN s
  ELSE LET t == Touch([s EXCEPT !.users = Put(@, x, NewUser(TRUE))], x) IN
       IF x \in DOMAIN t.peers THEN [t EXCEPT !.peers[x].registered = TRUE] ELSE t

Bridged(s, c) == c \in DOMAIN s.chans /\ s.chans[c].rf

RfJoin(s, x, c) ==
  IF ~Bridged(s, c) THEN Answer(s, x)
  ELSE IF IsMember(s, x, c) \/ ~Exists(s, x) THEN s
  ELSE Answer([Join(s, x, c) EXCEPT !.peers[x].kicked = @ \ {c}], x)

WasKicked(s, x, c) == x \in DOMAIN s.peers /\ c \in s.peers[x].kicked
LiftBan(s, x) == [s EXCEPT !.removed = @ \ {x}]

(* A frame of a station that is not in the table, with no room for it, is  *)
(* not even acknowledged.                                                  *)
Heard(x) == x \in DOMAIN Touch(Now, x).peers
Frame(x) == Touch(Now, x)

Hello(x) ==
  /\ Heard(x)
  /\ Becomes(Answer(EnsureUser(LiftBan(Frame(x), x), x), x))

JoinFrame(x, c) ==
  /\ Heard(x)
  /\ Becomes(RfJoin(EnsureUser(LiftBan(Frame(x), x), x), x, c))

PartFrame(x, c) ==
  /\ Heard(x)
  /\ Becomes(IF IsMember(Now, x, c) THEN Part(Frame(x), x, c) ELSE Frame(x))

(* NAMES and PING: answered, if the station has said who it is. *)
Query(x) ==
  /\ Heard(x)
  /\ LET s == Frame(x) IN Becomes(IF s.peers[x].registered THEN Answer(s, x) ELSE s)

QuitFrame(x) == Heard(x) /\ Becomes(QuitUsers(Frame(x), {x}))

(* Chat: a lost JOIN is made up for, a KICK is not. *)
Mutant_Chat(s, x, c) ==
  LET t == EnsureUser(s, x) IN
  IF ~Bridged(t, c) THEN Answer(t, x)
  ELSE IF IsMember(t, x, c) THEN t
  ELSE IF WasKicked(t, x, c) THEN Answer(t, x)
  ELSE RfJoin(t, x, c)
Chat(s, x, c) ==
  LET t == EnsureUser(s, x) IN
  IF x \in s.removed THEN Answer(s, x)
  ELSE IF ~Bridged(t, c) THEN Answer(t, x)
  ELSE IF IsMember(t, x, c) THEN t
  ELSE IF WasKicked(t, x, c) THEN Answer(t, x)
  ELSE RfJoin(t, x, c)
ChatFrame(x, c) == Heard(x) /\ Becomes(Chat(Frame(x), x, c))

(* To a nick.  One of the net, or nobody's, changes no more than a message *)
(* of the station to itself.                                               *)
Private(s, x, who, air) ==
  LET t == EnsureUser(s, x) IN
  IF x \in s.removed THEN Answer(s, x)
  ELSE IF ~Exists(t, who) THEN Answer(t, x)
  ELSE IF who \in Stations THEN Unicast(t, who, air)
  ELSE t
PrivateFrame(x, who, air) == Heard(x) /\ Becomes(Private(Frame(x), x, who, air))

(* An APRS line for a channel.  The presence is made only once the channel *)
(* is known to be bridged, and nothing is answered in AIRC.                *)
AprsChat(x, c) ==
  /\ Heard(x)
  /\ LET t == EnsureUser(Frame(x), x) IN
     Becomes(IF x \in removed \/ ~Bridged(Now, c) THEN Frame(x)
             ELSE IF WasKicked(t, x, c) THEN t
             ELSE RfJoin(t, x, c))

(* Stations that were silent too long, or did not answer: they leave the   *)
(* table, and then the server.                                             *)
Lost(gone) ==
  /\ gone # {} /\ gone \subseteq DOMAIN peers
  /\ Becomes(QuitUsers(Forget(Now, gone), gone))

-----------------------------------------------------------------------------
Line(u) ==
  \/ Connect(u) \/ JoinZero(u) \/ Quit(u)
  \/ \E c \in Chans :
       \/ \E keyed \in BOOLEAN : DoJoin(u, c, keyed)
       \/ DoPart(u, c)
       \/ \E topic \in {"old", "new"} : Topic(u, c, topic)
       \/ \E request \in Requests : Mode(u, c, request)
       \/ \E who \in Clients \cup Stations, air \in BOOLEAN : Kick(u, c, who, air)
  \/ \E x \in Stations : Whisper(u, x) \/ RadioKick(u, x)
  \/ \E who \in Clients \cup Stations : Kill(u, who)
  \/ u \in Opers /\ Oper(u)
  \/ u \in Owners /\ \E on \in BOOLEAN : Identify(u, on) \/ Callsign(u, on)

Air(x) ==
  \/ Hello(x) \/ Query(x) \/ QuitFrame(x)
  \/ \E c \in Chans :
       JoinFrame(x, c) \/ PartFrame(x, c) \/ ChatFrame(x, c) \/ AprsChat(x, c)
  \/ \E who \in Stations, air \in BOOLEAN : PrivateFrame(x, who, air)

Next ==
  \/ \E u \in Clients : Line(u)
  \/ \E x \in Stations : Air(x)
  \/ \E gone \in SUBSET Stations : Lost(gone)

Spec == Init /\ [][Next]_vars

-----------------------------------------------------------------------------
(* Users and channels are two tables, changed by a dozen handlers: they    *)
(* agree on who is where, a channel that nobody configured exists only     *)
(* while somebody is on it, and nobody from the net is on more channels    *)
(* than allowed (state.rs join, part, remove_user, reap_channel).          *)
MembershipAgrees ==
  /\ \A c \in DOMAIN chans : DOMAIN chans[c].members \subseteq DOMAIN users
  /\ \A u \in DOMAIN users : users[u].channels = {c \in DOMAIN chans : IsMember(Now, u, c)}
  /\ \A c \in DOMAIN chans \ Configured : DOMAIN chans[c].members # {}
  /\ \A u \in DOMAIN users \cap Clients : Cardinality(users[u].channels) <= MaxChannels

(* On a bridged channel the right to operate goes back to a control        *)
(* operator, whatever the channel was before it was bridged: it is held by *)
(* one, by a nick of the configuration that has proved itself, or by whom  *)
(* a control operator gave it to (channels.rs cmd_mode, state.rs           *)
(* apply_intended_flags).                                                  *)
OpOnBridge ==
  \A c \in DOMAIN chans : chans[c].rf =>
    \A u \in DOMAIN chans[c].members : chans[c].members[u].op =>
      \/ users[u].oper
      \/ u \in Operators[c] /\ users[u].identified
      \/ <<u, c>> \in trusted

(* A station is present on IRC exactly as far as the session layer knows   *)
(* it: it has a record that says so, it is not barred by RADIO KICK, and   *)
(* it is on no channel it was kicked from.  The two tables are changed in  *)
(* different events and by different hands, and a record may be dropped    *)
(* for reasons the server does not know (mod.rs reap_evicted_peers,        *)
(* quit_user; bridge.rs rf_message).                                       *)
StationsAgree ==
  /\ \A x \in DOMAIN users \cap Stations :
       /\ x \in DOMAIN peers /\ peers[x].registered
       /\ x \notin removed
       /\ users[x].channels \cap peers[x].kicked = {}
  /\ \A x \in DOMAIN peers : peers[x].registered => x \in DOMAIN users
=============================================================================
