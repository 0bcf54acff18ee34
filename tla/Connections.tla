---------------------------- MODULE Connections ----------------------------
(***************************************************************************)
(* A connection from accept to close: the gate before the handshake        *)
(* (src/src/irc/admission.rs), the reading and the writing task of each    *)
(* client (src/src/irc/client.rs), and the server task, which owns the     *)
(* roster of users and the links to their writers (src/src/server/         *)
(* clients.rs, mod.rs) and is reached by one bounded queue of events.      *)
(*                                                                         *)
(* A reading task is at                                                    *)
(*   "idle"   not accepted yet          "serve"  in its select             *)
(*   "count"  past the ban check        "send"   holds a line for the      *)
(*   "full"   over the total                     server's queue            *)
(*   "host"   counted, host not yet     "leave"  has to report its end     *)
(*   "crowd"  over the host's limit     "drop"   gives its slot back       *)
(*   "greet"  has a slot, in TLS        "drop2"  the host's part of it     *)
(*   "hello"  has to report itself      "ended"                            *)
(*                                                                         *)
(* Who sees whom is the business of Channels: here every named user shares *)
(* a channel with every other.                                             *)
(***************************************************************************)
EXTENDS Integers, FiniteSets, Sequences, SequencesExt, TLC

CONSTANTS
  Conns,       \* sockets that will be accepted, each once
  Hosts, HostOf,
  StoredBans,  \* the bans in the nick file
  Says,        \* what each of them may send
  MaxClients, MaxPerHost,   \* zero for no limit
  EventCap,    \* places in the server's queue of events
  OutCap,      \* lines buffered for one client
  MaxLines,    \* bounds of the model: lines each client sends,
  Flaky        \* and the sockets that may fail under a read or a write

Lines == [cmd : {"REGISTER", "BADPASS", "SAY", "QUIT"}]
           \cup [cmd : {"KLINE", "UNKLINE"}, host : Hosts]
           \cup [cmd : {"KILL"}, whom : Conns]

ASSUME ConnAssumption ==
  /\ IsFiniteSet(Conns) /\ Says \in [Conns -> SUBSET Lines]
  /\ HostOf \in [Conns -> Hosts] /\ StoredBans \subseteq Hosts
  /\ {MaxClients, MaxPerHost} \subseteq Nat /\ Flaky \subseteq Conns /\ MaxLines \in [Conns -> Nat]
  /\ {EventCap, OutCap} \subseteq Nat \ {0}

VARIABLES
  pc, held,         \* each reading task, and the line it holds
  writer, out,      \* each writing task, and how many lines wait for it
  hangup,           \* hangup fired, and not yet seen
  total, perHost, gateBans,   \* Admission
  inbox,            \* the queue of events
  links,            \* Clients.links
  users, named,     \* State.users, and those registered
  bans,             \* Accounts.ip_bans
  exempt,           \* history: who issued a ban that covers himself
  said, failed      \* lines sent, and sockets that failed under a read

tasks == <<pc, held>>
gate == <<total, perHost, gateBans>>
server == <<links, users, named, bans, gateBans, exempt, hangup, out>>
vars == <<pc, held, writer, out, hangup, total, perHost, gateBans, inbox,
          links, users, named, bans, exempt, said, failed>>

NoLine == [cmd |-> "none"]
Events == [kind : {"Connected", "Disconnected"}, from : Conns]
            \cup [kind : {"Line"}, from : Conns, line : Lines]

TypeOK ==
  /\ pc \in [Conns -> {"idle", "count", "full", "host", "crowd", "greet", "hello",
                       "serve", "send", "leave", "drop", "drop2", "ended"}]
  /\ held \in [Conns -> Lines \cup {NoLine}]
  /\ hangup \in [Conns -> BOOLEAN]
  /\ writer \in [Conns -> {"open", "closed"}]
  /\ out \in [Conns -> 0 .. OutCap]
  /\ total \in Nat /\ perHost \in [Hosts -> Nat]
  /\ inbox \in Seq(Events) /\ Len(inbox) <= EventCap
  /\ named \subseteq users /\ links \subseteq users /\ users \subseteq Conns
  /\ exempt \subseteq Conns
  /\ bans \subseteq Hosts /\ gateBans = bans
  /\ said \in [Conns -> Nat] /\ failed \subseteq Conns

(* Admission::load_bans: the file of nicks may hold bans already. *)
Init ==
  /\ pc = [c \in Conns |-> "idle"] /\ held = [c \in Conns |-> NoLine]
  /\ hangup = [c \in Conns |-> FALSE]
  /\ writer = [c \in Conns |-> "closed"] /\ out = [c \in Conns |-> 0]
  /\ total = 0 /\ perHost = [h \in Hosts |-> 0]
  /\ inbox = <<>>
  /\ links = {} /\ users = {} /\ named = {} /\ exempt = {}
  /\ bans = StoredBans /\ gateBans = bans
  /\ said = [c \in Conns |-> 0] /\ failed = {}

Goto(c, label) == pc' = [pc EXCEPT ![c] = label]

-----------------------------------------------------------------------------
(* The gate: the bans, the total and the host's count are three steps. *)

Accept(c) ==
  /\ pc[c] = "idle"
  /\ Goto(c, IF HostOf[c] \in gateBans THEN "ended" ELSE "count")
  /\ UNCHANGED <<held, writer, inbox, said, failed, total, perHost, server>>

Count(c) ==
  /\ pc[c] = "count"
  /\ IF MaxClients = 0
     THEN Goto(c, "host") /\ UNCHANGED total
     ELSE /\ total' = total + 1
          /\ Goto(c, IF total' > MaxClients THEN "full" ELSE "host")
  /\ UNCHANGED <<held, writer, inbox, said, failed, perHost, server>>

Mutant_GiveBack(c) ==
  /\ pc[c] \in {"full", "crowd"}
  /\ total' = IF pc[c] = "full" THEN total - 1 ELSE total
  /\ Goto(c, "ended")
  /\ UNCHANGED <<held, writer, inbox, said, failed, perHost, server>>
(* Refused after being counted. *)
GiveBack(c) ==
  /\ pc[c] \in {"full", "crowd"}
  /\ total' = IF MaxClients = 0 THEN total ELSE total - 1
  /\ Goto(c, "ended")
  /\ UNCHANGED <<held, writer, inbox, said, failed, perHost, server>>

ClaimHost(c) ==
  LET h == HostOf[c] IN
  /\ pc[c] = "host"
  /\ IF MaxPerHost > 0 /\ perHost[h] >= MaxPerHost
     THEN Goto(c, "crowd") /\ UNCHANGED perHost
     ELSE /\ perHost' = [perHost EXCEPT ![h] = IF MaxPerHost > 0 THEN @ + 1 ELSE @]
          /\ Goto(c, "greet")
  /\ UNCHANGED <<held, writer, inbox, said, failed, total, server>>

(* The TLS handshake, or none. *)
Handshake(c) ==
  /\ pc[c] = "greet"
  /\ \E next \in {"hello", "drop"} : Goto(c, next)
  /\ UNCHANGED <<held, writer, inbox, said, failed, total, perHost, server>>

(* Slot's Drop. *)
GiveTotal(c) ==
  /\ pc[c] = "drop"
  /\ total' = IF MaxClients = 0 THEN total ELSE total - 1
  /\ Goto(c, "drop2")
  /\ UNCHANGED <<held, writer, inbox, said, failed, perHost, server>>

GiveHost(c) ==
  /\ pc[c] = "drop2"
  /\ perHost' = [perHost EXCEPT ![HostOf[c]] = IF @ > 0 THEN @ - 1 ELSE 0]
  /\ Goto(c, "ended")
  /\ UNCHANGED <<held, writer, inbox, said, failed, total, server>>

-----------------------------------------------------------------------------
(* The reading task.  While it waits for room in the server's queue it     *)
(* hears neither its socket nor a hangup.                                  *)

Room == Len(inbox) < EventCap
Post(e) == Room /\ inbox' = Append(inbox, e)

Announce(c) ==
  /\ pc[c] = "hello"
  /\ Post([kind |-> "Connected", from |-> c])
  /\ writer' = [writer EXCEPT ![c] = "open"]
  /\ Goto(c, "serve")
  /\ UNCHANGED <<held, said, failed, total, perHost, server>>

ReadLine(c) ==
  /\ pc[c] = "serve" /\ said[c] < MaxLines[c]
  /\ \E line \in Says[c] : held' = [held EXCEPT ![c] = line]
  /\ Goto(c, "send")
  /\ said' = [said EXCEPT ![c] = @ + 1]
  /\ UNCHANGED <<writer, inbox, failed, total, perHost, server>>

SendLine(c) ==
  /\ pc[c] = "send"
  /\ Post([kind |-> "Line", from |-> c, line |-> held[c]])
  /\ held' = [held EXCEPT ![c] = NoLine]
  /\ Goto(c, "serve")
  /\ UNCHANGED <<writer, said, failed, total, perHost, server>>

(* The end of the stream, or a line too long. *)
ReadEnd(c) ==
  /\ pc[c] = "serve"
  /\ Goto(c, "leave")
  /\ UNCHANGED <<held, writer, inbox, said, failed, total, perHost, server>>

(* `read?`: the task returns at once.  The writer it leaves behind writes  *)
(* on.                                                                     *)
ReadError(c) ==
  /\ pc[c] = "serve" /\ c \in Flaky
  /\ failed' = failed \cup {c}
  /\ Goto(c, "drop") /\ hangup' = [hangup EXCEPT ![c] = FALSE]
  /\ UNCHANGED <<held, writer, inbox, out, said, total, perHost,
                 links, users, named, bans, gateBans, exempt>>

(* The idle timer: the last PING was not answered, or the next is queued,  *)
(* unless there is no room or no writer for it.                            *)
IdleTick(c) ==
  /\ pc[c] = "serve"
  /\ \/ Goto(c, "leave") /\ UNCHANGED out
     \/ /\ writer[c] = "open" /\ out[c] < OutCap
        /\ out' = [out EXCEPT ![c] = @ + 1]
        /\ UNCHANGED pc
  /\ UNCHANGED <<held, writer, inbox, said, failed, total, perHost,
                 links, users, named, bans, gateBans, exempt, hangup>>

HangUp(c) ==
  /\ pc[c] = "serve" /\ hangup[c]
  /\ Goto(c, "leave")
  /\ UNCHANGED <<held, writer, inbox, said, failed, total, perHost, server>>

Mutant_Leave(c) ==
  /\ pc[c] = "leave"
  /\ Goto(c, "drop") /\ hangup' = [hangup EXCEPT ![c] = FALSE]
  /\ UNCHANGED <<held, writer, inbox, out, said, failed, total, perHost,
                 links, users, named, bans, gateBans, exempt>>
(* The end is reported before the slot is given back; the writer is        *)
(* aborted with what it had not written.                                   *)
Leave(c) ==
  /\ pc[c] = "leave"
  /\ Post([kind |-> "Disconnected", from |-> c])
  /\ writer' = [writer EXCEPT ![c] = "closed"]
  /\ out' = [out EXCEPT ![c] = 0]
  /\ Goto(c, "drop") /\ hangup' = [hangup EXCEPT ![c] = FALSE]
  /\ UNCHANGED <<held, said, failed, total, perHost,
                 links, users, named, bans, gateBans, exempt>>

(* The writing task writes a line, or finds the socket gone. *)
Write(c) ==
  /\ writer[c] = "open" /\ out[c] > 0
  /\ \/ out' = [out EXCEPT ![c] = @ - 1] /\ UNCHANGED writer
     \/ /\ c \in Flaky
        /\ out' = [out EXCEPT ![c] = 0] /\ writer' = [writer EXCEPT ![c] = "closed"]
  /\ UNCHANGED <<tasks, inbox, said, failed, total, perHost,
                 links, users, named, bans, gateBans, exempt, hangup>>

-----------------------------------------------------------------------------
(* The server task.  It never waits for a client. *)

(* Clients::send of lines[c] lines to each c: a client with no room for    *)
(* them, or no writer, is disconnected, and stays on the roster until its  *)
(* task reports.                                                           *)
Lost(lines) == {c \in links : lines[c] > 0 /\ (writer[c] = "closed" \/ out[c] + lines[c] > OutCap)}

(* quit_user for all of gone: the others who are named are told, the links *)
(* are dropped with the users.                                             *)
Farewells(gone, c) == IF c \in named THEN Cardinality((gone \cap named) \ {c}) ELSE 0

Mutant_Listening(c) == pc[c] = "serve"
(* Someone will hear the hangup: the task has not returned. *)
Listening(c) == pc[c] \in {"serve", "send", "leave"}

Step(gone, newNamed, says) ==
  LET lines == [c \in Conns |-> says[c] + Farewells(gone, c)]
      lost == Lost(lines)
      cut == (lost \cup gone) \cap links
  IN /\ links' = links \ cut
     /\ hangup' = [c \in Conns |-> hangup[c] \/ (c \in cut /\ Listening(c))]
     /\ out' = [c \in Conns |->
          IF writer[c] = "closed" \/ c \notin links THEN out[c]
          ELSE IF c \in lost THEN OutCap ELSE out[c] + lines[c]]
     /\ users' = users \ gone
     /\ named' = newNamed \ gone

Silence == [c \in Conns |-> 0]
SayTo(who) == [c \in Conns |-> IF c \in who THEN 1 ELSE 0]
Notice(c) == SayTo({c})

(* The second look at a client that has passed the gate. *)
Overfull(c) ==
  \/ MaxClients > 0 /\ Cardinality(users) >= MaxClients
  \/ MaxPerHost > 0 /\ Cardinality({u \in users : HostOf[u] = HostOf[c]}) >= MaxPerHost
Refused(c) == HostOf[c] \in bans \/ Overfull(c)

Mutant_Connected(c) ==
  /\ links' = links \cup {c}
  /\ IF Refused(c)
     THEN hangup' = [hangup EXCEPT ![c] = Listening(c)] /\ UNCHANGED users
     ELSE users' = users \cup {c} /\ UNCHANGED hangup
  /\ UNCHANGED <<named, bans, gateBans, exempt, out>>
Connected(c) ==
  /\ IF Refused(c)
     THEN hangup' = [hangup EXCEPT ![c] = Listening(c)] /\ UNCHANGED <<links, users>>
     ELSE links' = links \cup {c} /\ users' = users \cup {c} /\ UNCHANGED hangup
  /\ UNCHANGED <<named, bans, gateBans, exempt, out>>

Disconnected(c) ==
  /\ IF c \in users THEN Step({c}, named, Silence)
                    ELSE UNCHANGED <<links, users, named, hangup, out>>
  /\ UNCHANGED <<bans, gateBans, exempt>>

Ignored == UNCHANGED server

(* The last of NICK and USER, with the connection password or without. *)
Register(c, ok) ==
  /\ IF c \in named THEN Step({}, named, Notice(c))
     ELSE IF ok THEN Step({}, named \cup {c}, Notice(c))
     ELSE Step({c}, named, Notice(c))
  /\ UNCHANGED <<bans, gateBans, exempt>>

Say(c) ==
  /\ Step({}, named, SayTo(IF c \in named THEN named \ {c} ELSE {c}))
  /\ UNCHANGED <<bans, gateBans, exempt>>

Quit(c) ==
  /\ Step({c}, named, Notice(c))
  /\ UNCHANGED <<bans, gateBans, exempt>>

(* A ban is kept with the accounts and by the gate. *)
Ban(h) == bans' = bans \cup {h} /\ gateBans' = gateBans \cup {h}
Unban(h) == bans' = bans \ {h} /\ gateBans' = gateBans \ {h}

Mutant_Kline(c, h) ==
  LET victims == {u \in named : u # c /\ HostOf[u] = h} IN
  /\ Ban(h)
  /\ exempt' = {u \in exempt : HostOf[u] # h} \cup {u \in {c} : HostOf[u] = h}
  /\ Step(victims, named, SayTo(victims \cup {c}))
Kline(c, h) ==
  LET victims == {u \in users : u # c /\ HostOf[u] = h} IN
  /\ Ban(h)
  /\ exempt' = {u \in exempt : HostOf[u] # h} \cup {u \in {c} : HostOf[u] = h}
  /\ Step(victims, named, SayTo(victims \cup {c}))

Unkline(c, h) ==
  /\ Unban(h)
  /\ Step({}, named, Notice(c))
  /\ UNCHANGED exempt

Kill(c, whom) ==
  /\ IF whom \in named THEN Step({whom}, named, SayTo({whom}))
                       ELSE Step({}, named, Notice(c))
  /\ UNCHANGED <<bans, gateBans, exempt>>

Command(c, line) ==
  IF c \notin users THEN Ignored
  ELSE \/ line.cmd \in {"REGISTER", "BADPASS"} /\ Register(c, line.cmd = "REGISTER")
       \/ line.cmd = "QUIT" /\ Quit(c)
       \/ line.cmd = "SAY" /\ Say(c)
       \/ line.cmd \in {"KLINE", "UNKLINE", "KILL"} /\ c \notin named /\ Say(c)
       \/ line.cmd = "KLINE" /\ c \in named /\ Kline(c, line.host)
       \/ line.cmd = "UNKLINE" /\ c \in named /\ Unkline(c, line.host)
       \/ line.cmd = "KILL" /\ c \in named /\ Kill(c, line.whom)

Handle ==
  /\ inbox # <<>>
  /\ LET e == Head(inbox) IN
     \/ e.kind = "Connected" /\ Connected(e.from)
     \/ e.kind = "Disconnected" /\ Disconnected(e.from)
     \/ e.kind = "Line" /\ Command(e.from, e.line)
  /\ inbox' = Tail(inbox)
  /\ UNCHANGED <<tasks, writer, said, failed, total, perHost>>

(* The tick finds some who have not finished NICK and USER in time: which, *)
(* is a matter of time, and any may be.                                    *)
ExpireUnregistered(stale) ==
  /\ stale # {} /\ stale \subseteq users \ named
  /\ Step(stale, named, SayTo(stale))
  /\ UNCHANGED <<tasks, writer, inbox, said, failed, total, perHost, bans, gateBans, exempt>>

-----------------------------------------------------------------------------
Admit(c) == Accept(c) \/ Count(c) \/ GiveBack(c) \/ ClaimHost(c) \/ Handshake(c)
Release(c) == GiveTotal(c) \/ GiveHost(c)
Report(c) == Announce(c) \/ SendLine(c) \/ Leave(c)
Read(c) == ReadLine(c) \/ ReadEnd(c) \/ ReadError(c)

Next ==
  \/ \E c \in Conns : \/ Admit(c) \/ Release(c) \/ Report(c) \/ Read(c)
                      \/ IdleTick(c) \/ HangUp(c) \/ Write(c)
  \/ Handle
  \/ \E stale \in SUBSET Conns : ExpireUnregistered(stale)

Spec == Init /\ [][Next]_vars

-----------------------------------------------------------------------------
(* Safety. *)

Counted == {c \in Conns : pc[c] \in {"full", "host", "crowd", "greet", "hello",
                                     "serve", "send", "leave", "drop"}}
Seated == {c \in Conns : pc[c] \in {"greet", "hello", "serve", "send", "leave"}}
SeatedAt(h) == {c \in Seated : HostOf[c] = h}

(* The limits hold for those who got through the gate, whatever the order  *)
(* of its steps in different tasks, and no way out of it (refused, failed  *)
(* in the handshake, closed, dropped) keeps or returns a place twice       *)
(* (Admission::try_acquire, release).                                      *)
SlotsAreExact ==
  /\ MaxClients > 0 => /\ total = Cardinality(Counted)
                       /\ Cardinality(Seated) <= MaxClients
  /\ MaxPerHost > 0 => \A h \in Hosts :
       /\ Cardinality(SeatedAt(h)) <= MaxPerHost
       /\ perHost[h] = Cardinality({c \in Conns : HostOf[c] = h
                                      /\ (c \in Seated \/ pc[c] \in {"drop", "drop2"})})

(* The gate and the server count differently, one slots and the other      *)
(* users, at different times; still the server's second look never refuses *)
(* for want of a place a client the gate has let in, as long as no task    *)
(* ended without a word.  A slot is given back only after the end of its   *)
(* client is in the queue (serve).                                         *)
GateIsEnough ==
  \A c \in Conns :
    failed = {} /\ inbox # <<>> /\ Head(inbox) = [kind |-> "Connected", from |-> c] => ~Overfull(c)

(* From the moment of a KLINE nobody from that host is on the roster but   *)
(* the operator who gave it from there: those who were are gone, and those *)
(* who had passed the gate before, and were in their handshake, are        *)
(* refused when they arrive (cmd_kline, Connected).                        *)
BannedIsOut == \A u \in users : HostOf[u] \in bans => u \in exempt

(* A client the server has dropped in the middle of a delivery stays on    *)
(* the roster, without a link, only as long as its task has the hangup to  *)
(* see or its report to make, even if it waits for the server meanwhile    *)
(* (Clients::send, disconnect).                                            *)
UnlinkedIsLeaving ==
  \A u \in users \ links :
    \/ u \in failed
    \/ hangup[u] /\ pc[u] \in {"serve", "send", "leave"}
    \/ [kind |-> "Disconnected", from |-> u] \in Range(inbox)
=============================================================================
