------------------------------ MODULE AprsMail ------------------------------
(***************************************************************************)
(* Messages between the net and one station at a time, where nothing but   *)
(* the gateway's own records keeps them: the mailbox for stations that are *)
(* away (src/src/server/mailbox.rs, radio.rs flush_mailbox), chat to APRS  *)
(* radios, one in flight for each with the others waiting behind it        *)
(* (radio.rs enqueue_aprs_chat, on_aprs_ack, tick_aprs), and lines from    *)
(* APRS radios, which repeat them until they hear an ack (bridge.rs        *)
(* handle_aprs_message).                                                   *)
(*                                                                         *)
(* An id is drawn for every message started, from a space that does not    *)
(* come round within the life of an ack: here it is the message, the n-th  *)
(* to its station.  What the backlog has room for, whom policy lets through*)
(* and when a timer is due are choices.  A station hears or misses what is *)
(* sent, and its acks come late, again or never; the lines of the radios   *)
(* come in any order, and as often as the radio or a relay repeats them.   *)
(* The clock is that of the table of lines seen, and of nothing else here. *)
(***************************************************************************)
EXTENDS Integers, FiniteSets, SequencesExt

CONSTANTS
  Stations, Airc,          \* stations, and those that speak AIRC
  Speakers,                \* the APRS stations that send lines of their own
  Messages,                \* how many messages each station gets
  Lines,                   \* how many msgids a radio puts on its lines
  PerStation, Total,       \* mailbox_per_station, mailbox_total
  Batch,                   \* mailbox_flush_batch
  MaxWaiting,              \* messages that wait behind one in flight
  MaxAttempts,             \* max_retries, at least one
  MsgidTtl, MsgidMax,      \* APRS_MSGID_TTL, APRS_MSGID_MAX
  Budget,                  \* bound: numbers of messages and lines of one behaviour
  MaxTime                  \* bound: the clock

ASSUME AprsMailAssumption ==
  /\ IsFiniteSet(Stations)
  /\ Airc \subseteq Stations /\ Speakers \subseteq Stations \ Airc
  /\ Messages \in [Stations -> Nat] /\ Lines \in [Speakers -> Nat]
  /\ {PerStation, Total, MsgidTtl, MaxTime} \subseteq Nat
  /\ {Batch, MaxWaiting, MaxAttempts, MsgidMax} \subseteq Nat \ {0}

VARIABLES
  up,              \* the transmitter: "on", "held" by the interlock or "off"
  present,         \* stations with a user on IRC
  box,             \* Mailbox.boxes
  pending,         \* AprsOutbound.pending
  waiting,         \* AprsOutbound.waiting
  fate,            \* history: what became of each message to each station
  hears,           \* the messages a station has heard, and may acknowledge
  now,             \* the clock
  heeded,          \* history: the lines with a msgid that were taken up, in order
  seen             \* aprs_msgid: the lines remembered, by their place in heeded

radio == <<up, present>>
outbound == <<box, pending, waiting, fate>>
inbound == <<now, heeded, seen>>
vars == <<up, present, box, pending, waiting, fate, hears, now, heeded, seen>>

Nothing == [message |-> 0, attempts |-> 0]
Fates == {"unsent", "held", "waiting", "in flight", "session", "acked", "given up", "expired",
          "refused", "lost"}
Held == Cardinality({x \in Stations \X (1..PerStation) : x[2] <= Len(box[x[1]])})

Unsent(s) == {m \in 1..Messages[s] : fate[s][m] = "unsent"}
Sent == FoldSet(LAMBDA s, n : Messages[s] - Cardinality(Unsent(s)) + n, 0, Stations)
WithinBudget(messages, lines) == <<Sent + messages, Len(heeded) + lines>> \in Budget

Init ==
  /\ up = "on" /\ present = {}
  /\ box = [s \in Stations |-> <<>>] /\ pending = [s \in Stations |-> Nothing]
  /\ waiting = [s \in Stations |-> <<>>]
  /\ fate = [s \in Stations |-> [m \in 1..Messages[s] |-> "unsent"]]
  /\ hears = [s \in Stations |-> {}]
  /\ now = 0 /\ heeded = <<>> /\ seen = {}

-----------------------------------------------------------------------------
(* What is queued for one station: p.box, p.pending, p.waiting, p.fate.    *)

For(s) == [box |-> box[s], pending |-> pending[s], waiting |-> waiting[s], fate |-> fate[s]]
Becomes(s, p) ==
  /\ box' = [box EXCEPT ![s] = p.box] /\ pending' = [pending EXCEPT ![s] = p.pending]
  /\ waiting' = [waiting EXCEPT ![s] = p.waiting] /\ fate' = [fate EXCEPT ![s] = p.fate]

(* start_aprs_chat: without room for it the message is gone, and its       *)
(* caller does not look.                                                   *)
Start(p, m, room) ==
  IF room
  THEN [p EXCEPT !.pending = [message |-> m, attempts |-> 1], !.fate[m] = "in flight"]
  ELSE [p EXCEPT !.fate[m] = "lost"]

(* enqueue_aprs_chat, while the transmitter is up. *)
Accepts(p) == p.pending = Nothing \/ Len(p.waiting) < MaxWaiting
EnqueueAprs(p, m, room) ==
  IF p.pending = Nothing THEN Start(p, m, room)
  ELSE IF Accepts(p) THEN [p EXCEPT !.waiting = Append(@, m), !.fate[m] = "waiting"]
  ELSE [p EXCEPT !.fate[m] = "lost"]

(* The next of those that wait, when one is answered or given up. *)
NextWaiting(p, room) ==
  IF p.waiting = <<>> THEN p
  ELSE Start([p EXCEPT !.waiting = Tail(@)], Head(p.waiting), room)

(* One message from the mailbox to the transmitter, looked at before it is *)
(* taken.                                                                  *)
Hand(s, p) ==
  LET m == Head(p.box) IN
  IF p.box = <<>> THEN p
  ELSE IF s \in Airc THEN [p EXCEPT !.box = Tail(@), !.fate[m] = "session"]
  ELSE IF Accepts(p) THEN [EnqueueAprs(p, m, TRUE) EXCEPT !.box = Tail(@)]
  ELSE p

(* flush_mailbox: a batch at most, and no more than the backlog and the    *)
(* session have room for.                                                  *)
Handed(s, p, n) ==
  LET after[i \in 0..n] == IF i = 0 THEN p ELSE Hand(s, after[i - 1]) IN after[n]
Flush(s) ==
  IF up = "on" THEN \E n \in 0..Batch : Becomes(s, Handed(s, For(s), n)) ELSE UNCHANGED outbound

-----------------------------------------------------------------------------
(* From the net. *)

(* PRIVMSG past the gate of privilege, callsign, rate, content and backlog,*)
(* which may close on it for any of them.                                  *)
Screened(atOnce) == WithinBudget(1, 0) /\ up # "off" /\ (atOnce => up = "on")

(* To a nick.  A station that is here gets it now. *)
Direct(s, room) ==
  LET m == Min(Unsent(s)) IN
  /\ Unsent(s) # {} /\ s \in present /\ Screened(TRUE)
  /\ Becomes(s, IF s \in Airc
                THEN [For(s) EXCEPT !.fate[m] = IF room THEN "session" ELSE "lost"]
                ELSE EnqueueAprs(For(s), m, room))
  /\ UNCHANGED <<radio, inbound, hears>>

(* One that is away gets it from its mailbox, which takes mail while the   *)
(* interlock holds the transmitter, too.                                   *)
Store(p, m) ==
  IF Held < Total /\ Len(p.box) < PerStation
  THEN [p EXCEPT !.box = Append(@, m), !.fate[m] = "held"]
  ELSE [p EXCEPT !.fate[m] = "refused"]

OfferMailbox(s) ==
  /\ Unsent(s) # {} /\ s \notin present /\ Screened(FALSE)
  /\ Becomes(s, Store(For(s), Min(Unsent(s))))
  /\ UNCHANGED <<radio, inbound, hears>>

(* Chat to a channel goes out once in AIRC, and to each APRS radio in it    *)
(* apart.                                                                  *)
Radios == present \ Airc
ToChannel(members, rooms) ==
  LET p == [s \in Stations |-> IF s \in members THEN EnqueueAprs(For(s), Min(Unsent(s)), s \in rooms)
                               ELSE For(s)] IN
  /\ members # {} /\ (\A s \in members : Unsent(s) # {}) /\ Screened(TRUE)
  /\ pending' = [s \in Stations |-> p[s].pending] /\ waiting' = [s \in Stations |-> p[s].waiting]
  /\ fate' = [s \in Stations |-> p[s].fate]
  /\ UNCHANGED <<radio, box, inbound, hears>>

MailExpires(s) ==
  /\ box[s] # <<>>
  /\ Becomes(s, [For(s) EXCEPT !.box = Tail(@), !.fate[Head(box[s])] = "expired"])
  /\ UNCHANGED <<radio, inbound, hears>>

-----------------------------------------------------------------------------
(* The air. *)

Hears(s) ==
  /\ pending[s] # Nothing /\ pending[s].message \notin hears[s] /\ up = "on"
  /\ hears' = [hears EXCEPT ![s] = @ \cup {pending[s].message}]
  /\ UNCHANGED <<radio, outbound, inbound>>

(* An ack, for whatever the station ever heard. *)
Mutant_OnAprsAck(s, m, room) ==
  /\ m \in hears[s] /\ pending[s] # Nothing
  /\ Becomes(s, NextWaiting([For(s) EXCEPT !.pending = Nothing, !.fate[pending[s].message] = "acked"], room))
  /\ UNCHANGED <<radio, inbound, hears>>
OnAprsAck(s, m, room) ==
  /\ m \in hears[s] /\ pending[s].message = m
  /\ Becomes(s, NextWaiting([For(s) EXCEPT !.pending = Nothing, !.fate[m] = "acked"], room))
  /\ UNCHANGED <<radio, inbound, hears>>

(* The tick finds a message of this station unanswered for too long. *)
Mutant_TickAprs(s, room) ==
  /\ up = "on" /\ pending[s] # Nothing
  /\ IF pending[s].attempts > MaxAttempts
     THEN Becomes(s, NextWaiting([For(s) EXCEPT !.pending = Nothing,
                                                !.fate[pending[s].message] = "given up"], room))
     ELSE Becomes(s, [For(s) EXCEPT !.pending.attempts = @ + 1])
  /\ UNCHANGED <<radio, inbound, hears>>
TickAprs(s, room) ==
  /\ up = "on" /\ pending[s] # Nothing
  /\ IF pending[s].attempts >= MaxAttempts
     THEN Becomes(s, NextWaiting([For(s) EXCEPT !.pending = Nothing,
                                                !.fate[pending[s].message] = "given up"], room))
     ELSE Becomes(s, [For(s) EXCEPT !.pending.attempts = @ + 1])
  /\ UNCHANGED <<radio, inbound, hears>>

(* An AIRC station says HELLO: it is here, and gets its mail. *)
Hello(s) ==
  /\ s \in Airc
  /\ Flush(s) /\ present' = present \cup {s}
  /\ UNCHANGED <<up, inbound, hears>>

(* Signed off, silent too long, or removed.  What is in flight stays so.   *)
Leave(s) ==
  /\ s \in present /\ present' = present \ {s}
  /\ UNCHANGED <<up, outbound, inbound, hears>>

(* RADIO ON and OFF, and the interlock. *)
Transmitter(mode) ==
  /\ up # mode /\ up' = mode
  /\ UNCHANGED <<present, outbound, inbound, hears>>

-----------------------------------------------------------------------------
(* Lines of the APRS radios, in one table for all of them. *)

(* A line without a msgid wants no ack, and is not told from another. *)
NoId == 0
Keys == [from : Speakers, id : Nat, at : Nat]

Fresh == {n \in seen : now - heeded[n].at < MsgidTtl}
Duplicate(s, id) == \E n \in Fresh : heeded[n].from = s /\ heeded[n].id = id

(* remember_aprs_msgid: what is too old goes, and if the table is still     *)
(* full the oldest makes room.  (The Instants of two lines differ.)         *)
Remembers(s, id, kept) ==
  /\ heeded' = Append(heeded, [from |-> s, id |-> id, at |-> now])
  /\ seen' = kept \cup {Len(heeded) + 1}

Mutant_RememberMsgid(s, id) ==
  Remembers(s, id, IF Cardinality(Fresh) < MsgidMax THEN Fresh ELSE Fresh \ {Max(Fresh)})
RememberMsgid(s, id) ==
  Remembers(s, id, IF Cardinality(Fresh) < MsgidMax THEN Fresh ELSE Fresh \ {Min(Fresh)})

(* A line is taken up unless it is a duplicate, which is acknowledged and   *)
(* no more.  So is a line the table of stations has no place for; one that  *)
(* is barred by RADIO KICK is rejected, whether it was shown or not.        *)
TakesUp(s, id) ==
  /\ ~Duplicate(s, id)
  /\ IF id = NoId THEN UNCHANGED <<heeded, seen>>
     ELSE WithinBudget(0, 1) /\ RememberMsgid(s, id)

(* Help, or a line for a channel that is not there: the answer is text. *)
Asks(s, id) ==
  /\ TakesUp(s, id)
  /\ UNCHANGED <<radio, outbound, hears, now>>

(* A line for a channel or a nick, or one for a channel the station was     *)
(* kicked from, which is told so.  A station that was away is back, and     *)
(* gets its mail first.                                                     *)
Chat(s, id) ==
  /\ TakesUp(s, id)
  /\ IF s \in present THEN UNCHANGED outbound ELSE Flush(s)
  /\ present' = present \cup {s}
  /\ UNCHANGED <<up, hears, now>>

(* The server's tick sweeps the table. *)
ExpireMsgids ==
  /\ seen' = Fresh
  /\ UNCHANGED <<radio, outbound, hears, now, heeded>>

(* Bound: only ages count, so the clock starts with the first line. *)
Tick ==
  /\ heeded # <<>> /\ now < MaxTime /\ now' = now + 1
  /\ UNCHANGED <<radio, outbound, hears, heeded, seen>>

-----------------------------------------------------------------------------
Next ==
  \/ \E s \in Stations :
       \/ \E room \in BOOLEAN : Direct(s, room) \/ TickAprs(s, room)
       \/ \E m \in 1..Messages[s], room \in BOOLEAN : OnAprsAck(s, m, room)
       \/ OfferMailbox(s) \/ MailExpires(s) \/ Hears(s) \/ Hello(s) \/ Leave(s)
  \/ \E members \in SUBSET Radios : \E rooms \in SUBSET members : ToChannel(members, rooms)
  \/ \E mode \in {"on", "held", "off"} : Transmitter(mode)
  \/ \E s \in Speakers : \E id \in 0..Lines[s] : Asks(s, id) \/ Chat(s, id)
  \/ ExpireMsgids \/ Tick

Spec == Init /\ [][Next]_vars

-----------------------------------------------------------------------------
(* The mailbox keeps to its two limits, no more messages wait for a radio  *)
(* than may, none is sent more often than max_retries, and no more lines   *)
(* are remembered than there is room for.                                  *)
TypeOK ==
  /\ up \in {"on", "held", "off"} /\ present \subseteq Stations
  /\ \A s \in Stations :
       /\ fate[s] \in [1..Messages[s] -> Fates]
       /\ box[s] \in Seq(1..Messages[s]) /\ Len(box[s]) <= PerStation
       /\ pending[s] = Nothing \/ (pending[s].message \in 1..Messages[s]
                                    /\ pending[s].attempts \in 1..MaxAttempts)
       /\ waiting[s] \in Seq(1..Messages[s]) /\ Len(waiting[s]) <= MaxWaiting
       /\ hears[s] \subseteq 1..Messages[s]
  /\ Held <= Total
  /\ now \in Nat
  /\ heeded \in Seq(Keys)
  /\ seen \subseteq 1..Len(heeded) /\ Cardinality(seen) <= MsgidMax

(* A message for a station has one fate.  It is held, waits or is in       *)
(* flight in one place and once, or it has ended, and then nothing sends   *)
(* it again; one that counts as acknowledged the station has heard.        *)
FatesAreTrue == \A s \in Stations :
  LET kept == box[s] \o waiting[s] \o (IF pending[s] = Nothing THEN <<>> ELSE <<pending[s].message>>) IN
  /\ IsInjective(kept)
  /\ \A m \in 1..Messages[s] :
       /\ fate[s][m] = "held" <=> m \in ToSet(box[s])
       /\ fate[s][m] = "waiting" <=> m \in ToSet(waiting[s])
       /\ fate[s][m] = "in flight" <=> m = pending[s].message
       /\ fate[s][m] = "acked" => m \in hears[s]

(* A line with a msgid that comes again, because the radio did not hear the *)
(* ack or a relay repeats it, is taken up again only when the first is as   *)
(* old as APRS_MSGID_TTL, or when APRS_MSGID_MAX others have been taken up  *)
(* since, whichever radio they are from and however they fell.              *)
ShownOnce == \A i, j \in DOMAIN heeded :
  i < j /\ heeded[i].from = heeded[j].from /\ heeded[i].id = heeded[j].id
    => heeded[j].at - heeded[i].at >= MsgidTtl \/ j - i > MsgidMax
=============================================================================
