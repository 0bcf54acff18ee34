# rfircd in TLA+

rfircd joins an IRC server to a packet-radio channel: users on TCP and stations
on the air share channels, over a half-duplex link of a few hundred bits per
second, with a transmitter that must not overheat and must identify itself.
These modules model the link, the transmitter, and the server behind them:
connections, accounts, channels and mail.

The modules are read with the source beside them; `PROJECT.json` maps every
definition to the lines it stands for. Paths below are relative to `src/`.

## The system

| Component | Source | State | Operations |
|---|---|---|---|
| Session layer | `src/airc/session.rs` | per station: message in flight, queue, duplicate window, reassemblies, acknowledgement owed, epoch; one sequence counter | send, receive, tick, keyed, drain acks |
| Gateway's radio | `src/server/radio.rs`, `src/server/bridge.rs` | sessions, identification owed, mailbox, APRS messages | unicast, broadcast, handle a frame, identify, flush mail |
| Terminal station | `src/station.rs` | sessions, epoch | send, handle a frame, tick, HELLO |
| TNC pump | `src/ax25/tnc.rs` | link, frame in hand | poll, sleep, hear, key, defer, reconnect |
| Scheduler | `src/ax25/scheduler.rs` | five queues, airtime accounts, three holds | push, pop, requeue, expire, purge |
| Airtime governor | `src/ax25/airtime.rs` | bursts, run, cooldown | check, record, estimate |
| Interlock | `src/interlock.rs` | one flag | run a command, publish |
| Server | `src/server/mod.rs`, `state.rs`, `clients.rs` | users, channels, clients | events, a tick every 2 s |
| IRC commands | `src/server/commands/*` | – | the IRC protocol, operator commands |
| Accounts | `src/accounts.rs` | nick database and its file | register, identify, persist |
| Policy | `src/policy.rs` | rate buckets | check, expire |
| Mailbox | `src/server/mailbox.rs` | messages held for absent stations | store, peek, drop, expire |
| Connections | `src/irc/*` | admission slots, per-connection tasks | accept, register, read, write |
| APRS | `src/aprs.rs` | – | codec |
| Audit, KISS hub, config, wizard, codecs | `src/audit.rs`, `src/kisshub.rs`, `src/config.rs`, `src/wizard.rs`, `src/ax25/{frame,kiss,address}.rs`, `src/airc/frame.rs` | – | – |

**How they interact.** The server is one task: it takes events from a channel
(connections, received frames, finished password checks) and a tick every two
seconds, and handles each to its end. It calls the session layer directly, and
hands frames to the TNC by pushing them into the scheduler, which is shared with
the pump behind a lock; a `Notify` wakes the pump. The pump sends received frames
and keyed events back over channels. Flags are shared as atomics: inhibit (RADIO
OFF), interlock, duty override, the backlog shown to admission control. The
interlock poller, the audit writer, each connection, and each password check are
tasks of their own.

**What is hard.**

* Loss, duplication and reordering on the air; echoes by digipeaters; messages in
  fragments with selective acknowledgement; acknowledgements that ride on data;
  clocks that start when a frame is keyed, in another task, and not when it is
  queued; either end restarting. *Correct* means: a message is delivered at most
  once, what a sender concludes is true, and it does conclude.
* A transmitter with three independent limits (duty, budget, unbroken run), live
  changes by an operator, and two ways of asking the same question. *Correct*
  means: no limit is exceeded under any traffic, and a deferral is honest.
* One scheduler and a few flags shared by three tasks, with a pump that sleeps,
  is woken, takes a frame, asks, writes, and may fail at each step. *Correct*
  means: it listens before it talks, loses nothing, repeats nothing, and nothing
  but identification is keyed while it is off.
* A server that never waits for a client, and clients that wait for the server:
  bounded queues both ways, a gate that counts slots in other tasks while the
  server counts users, bans that meet handshakes. *Correct* means: the limits
  hold, no slot is lost, and who is cut off does leave.
* Rights that follow from several things (a nick proved, a callsign bound, a
  grant, an operator's password), each of which changes on its own, while passwords
  are checked on other threads; and a file written by threads that overtake each
  other. *Correct* means: no right outlives its reason, and the file does not go back.
* The same fact kept twice: membership with users and with channels, a station
  as a user and as a session that forgets, refuses and bars on its own terms.
  *Correct* means: the two agree after every event.
* Messages to stations that are away, or that acknowledge late, twice or never.
  *Correct* means: one place, one end, and *acknowledged* only if heard.

## Modules

```
 ReliableUnicast <--refined by-- ArqLink --extends--> AircSession
                                   ^
 MCArqLink ------------------------+

 Governor --extends--> Airtime <--extends-- Scheduler <--extends-- TxPath
    ^   ^                                                            ^
    |   +-------------------------refined by-------------------------+
 MCGovernor                                                       MCTxPath

 MCConnections ---> Connections        MCAccounts ---> Accounts
 MCChannels ---> Channels              MCAprsMail ---> AprsMail

 proofs:  GovernorProofs ---> Governor, AirtimeProofs
          TxPathProofs   ---> TxPath, AirtimeProofs; cites GovernorProofs
          ArqLinkProofs  ---> ArqLink         ChannelsProofs ---> Channels
          ConnectionsProofs ---> Connections  AccountsProofs ---> Accounts
          AprsMailProofs ---> AprsMail
```

The last four are views of one server task, which handles an event to its end:
an action is an event with everything it calls. They are not composed, because they
meet in one place each, and the meeting is an input of the view that reads it:
`Channels` takes the loss of a nick or a callsign as `Identify` and `Callsign`,
`AprsMail` takes the presence of a station as `Hello` and `Leave`.

### AircSession, ArqLink, ReliableUnicast

`AircSession` is `session.rs` as operators: a peer record in, and out come the peer
afterwards, the frames to send, the message delivered and those whose
acknowledgement is complete. `OnReceive` is `Sessions::on_receive` with all it
calls; `Enqueue`, `OnKeyed`, `DrainAcks`, `Timeout` and `ExpireReasm` are the rest.
A payload is the identity of its message and a number of fragments, so that
joining fragments of two messages is visible (`Garbled`). A deadline is running or
not; `ArqLink` lets a running one expire at any later tick, which covers every
backoff.

`ArqLink` puts one such record at each end of a radio channel, with the transmit
queue of each end and the air between them as sets: frames are keyed in any
order (the scheduler's choice), dropped unkeyed (stale, purged, refused), heard or
not and, with `Echo`, heard again at any later time. Its actions are the two
callers' handlers: `Submit` (`Radio::unicast`, `Station::send_to`), `Broadcast`,
`Receive` (`handle_rf_frame`, `handle_rf`), `Tick`, `Restart`, and the TNC's `Key`
and `Discard`. `accepted`, `delivered`, `outcome` and `gen` are history.

`ReliableUnicast` is the service without the protocol: accept, hear, conclude, in
order, with *acked* only for a message that was heard; when the sender forgets the
receiver, all that was not concluded is dropped at once (`Abandon`). `ArqLink` refines it
in each direction (`Downlink`, `Uplink`).

### Airtime, Governor

`Airtime` is `airtime.rs` as operators: `Settle` and `Delay` are the two halves of
`check()`, what it does to the governor and what it answers; `Record` is
`record()`; `TimeUntilClear` is the read-only question admission control asks. Key-down
times are whole units of time; percentages are of the window.

`Governor` drives it with a sender that never tires and an operator who changes
the duty cycle. It assumes one thing of its caller: a frame is not asked about
while the previous one is on the air. `TxPath` shows that the pump keeps to that.

### Scheduler, TxPath

`Scheduler` is `scheduler.rs` as operators. `TxPath` is the path of a frame from the
server's hands to the air: the server enqueues (`Send`, `Identify`), the operator
turns the transmitter off and on, the interlock trips and recovers, and the pump
goes round its loop in steps that stop wherever it reads shared state: `Poll`
(purge, expire, decide how long to sleep), `Sleep`, then `Wake`, `Hear` or `Alarm`,
then with a frame in hand `Discard`, `Defer` or `Approve`, then `Withhold`, `Key` or
`BreakWriting`. Anything the other tasks do may fall between two of them. The write of a
frame ends when the TNC has its octets, and the pump is at its loop again while the
transmitter is still keyed: `Hear` may come then, with a frame that was in the socket before.

### Connections

A connection from accept to close. Its reading task is a program counter through
the gate (`Accept`, `Count`, `ClaimHost`, each a separate atomic step of
`Admission::try_acquire`), the handshake, the loop of `serve` and the two steps of
`Slot`'s drop; its writing task is `Write`. The server takes one event at a time from
the bounded `inbox` (`Handle`), and never waits: `Step` is a delivery with all that
follows from it, the clients with no room left being cut off. A task that waits for room
in `inbox` hears no hangup, as in the code.

### Accounts

Users with the four things their right to transmit follows from, the accounts, the
password checks under way, and the threads that write the file. `Refresh` and `Strip`
are `refresh_rf_tx` and `strip_callsign_claims`; `Finish` is `finish_auth`, which looks
again at what may have changed; `Commit`, `StartWrite`, `EndWrite` and `Restart` are
`Accounts::commit`, its thread, `write_atomic` and a crash followed by `load`.

### Channels

`users` and `chans` are the two maps of `state.rs`; `peers`, `heard` and `removed` are the
session layer's table, in the order of its eviction, with the channels a station was
kicked from and the stations RADIO KICK bars. Each line of a client and each frame of a
station is an action, ending in `Done`, which reaps the users of evicted stations.
Frames may come in any order and again. `trusted` is history: who was given +o by a
control operator. `JoinZero` is `JOIN 0`, one channel after the other; `Letter` is one
letter of a MODE line, and a line applies its letters in their order, since the second
meets what the first has changed. Where the code walks over users or channels and the order
makes no difference, the model changes them all at once.

### AprsMail

For one station: the mailbox, the one APRS message in flight, those behind it, and what
became of each message (`fate`, history). The air is what a station has `hears`-d and may
acknowledge at any later time, again or never. For what the gateway sends, an id is its
message: the ids it draws do not come round within the life of an acknowledgement.

The other way, any APRS radio sends any of its lines at any time and again, with an id or
without. `heeded` is every line with an id that was taken up (shown, or answered with text),
with its time, in order; `seen`, the table `aprs_msgid` of all the radios, is which of them are
remembered. An id is forgotten when it is as old as APRS_MSGID_TTL, by the server's
sweep (`ExpireMsgids`) or the one before each insertion, and when it is the oldest of a full
table. A line without an id is never a duplicate: each copy a relay brings is shown, as in
the code (`src/server/bridge.rs:205`), and `ShownOnce` says nothing of it. Nor is a new line under an
id its radio used within the half hour shown: it is taken for the old one.

## Runs

Every run is exhaustive within its bounds. No run checks for deadlock: users stop
asking, each socket is accepted once, and clocks stop at `MaxTime`.

| Run | Shows | Bounds, and why they are enough |
|---|---|---|
| `arq_fragments` | `HolesAreTrue`, `AckedIsHeard`, and `Resolves` under `FairSpec` | one message of two fragments, two retries, and echoes, so that any frame may also never be heard: the fewest fragments with a hole to name, and a second round of retries after the first bitmap |
| `arq_window` | `AtMostOnce`, `Downlink` | two messages, one of them waiting for the other, one retry, echoes, and either end forgetting the other once: an old acknowledgement or an old frame can meet the next message, or a record that no longer knows it |
| `arq_mixed` | `TypeOK`, `NeverGarbled`, `Uplink` | one reassembly slot for a unicast and a broadcast of equal length down, and one unicast up: fragments compete, acknowledgements ride on data and cross; no retries, for which the theorem `UplinkIsKept` stands |
| `arq_restart` | `FreshNumbers` | one restart of the station, with HELLO, WELCOME and one message up, and one frame, any of them, lost before it is keyed |
| `governor` | `TypeOK`, `UnbrokenRun`, `DeferralEnds`, `HourCeiling`, `DutyCeiling`, `EstimateIsHonest` | two lengths of frame, 18 units of time against a duty window of 8 and a budget window of 12, so that bursts enter and leave both; max_duty set above the ceiling |
| `tx_duplex` | `ListensFirst`, `DrivesTheGovernor` | three frames of three classes, one frame heard at any time, key-down included, one link failure, 5 units of time against a reply window of 3 |
| `tx_faults` | `TypeOK`, `Accounted`, `OwedIsKept`, `SilentWhileOff`, `ShownWithinAFrame` | three frames, one of them long enough to make the next wait; one trip of the interlock, one link failure and one RADIO OFF, each at any point, recovered from at any later one; 3 units of time against a hold of 1 |
| `connections` | `TypeOK`, `SlotsAreExact`, `GateIsEnough`, `BannedIsOut`, `UnlinkedIsLeaving` | three sockets, room for two of them and for one of the two from the same host; two events in the queue and one line per client, so that both fill; two lines by an operator and one by another; one socket may fail |
| `accounts` | `TypeOK`, `GrantIsCurrent`, `OneCallOneUser`, `TakerHasDeadline`, `NeverBack`, `DiskIsCurrent` | two clients that want the same nick and the same callsign, one guest's nick among those asked for; one check at a time, which anything may overtake; three changes to the file, so that a thread can be overtaken twice; crashes at any point |
| `channels` | `TypeOK`, `MembershipAgrees`, `OpOnBridge`, `StationsAgree` | two stations (symmetric) and room for one, an operator and a nick of the configuration, a bridged channel and one that users make; one channel per user; two MODE or TOPIC lines that change something, of six combinations |
| `aprs_mail` | `TypeOK`, `FatesAreTrue`, `ShownOnce` | two APRS radios, to which three messages and one are sent and which send lines under two ids and one, and an AIRC station with one message; a memory of two ids for two units of time, and a clock of as many; four messages or four lines in one behaviour, or one of each: enough for one in flight, one behind it, one in the box, and for a line to be forgotten for its age or for two later ones, of its own radio or of the other |

The cooldown of the governor's runs is not shorter than its run gap. With a shorter
one (the configuration allows a run of one or two seconds) `TimeUntilClear` waits
for the gap where `check()` already sends: too long, never too short.

**Fairness** (`FairSpec`). The TNC task keys what it holds: its limits are windows
that slide, its link reconnects for ever. The housekeeping tick runs every two
seconds and starts the clock of what was keyed; a clock that runs is eventually
found expired. Nothing is assumed of the air.

### Where code and documents differ

`v_arq_expiry` (`AckedIsHeard`): a reassembly times out; its fragments are thrown away
and reported as in hand. `PROJECT.json` quotes the line it contradicts.

The others were met while modelling and have no run of their own.

Link and transmitter:

* A message whose only frame the TNC drops unkeyed (stale, RADIO OFF, a full class)
  never starts its clock (`src/airc/session.rs:640`): it is neither retried nor given up,
  and what is behind it waits for the idle timeout; `docs/design.md:371` has the
  station declared lost after three retries. `arq_fragments` shows `Resolves` where
  nothing is dropped; with `MaxDrops = 1` TLC finds a retry of the one missing fragment
  dropped, its clock never started, and the message still open.
* A frame that does not fit in the run waits only for the run gap, which resets the
  run: the cooldown of `docs/airtime.md:154` is met only by a run that is full
  (`src/ax25/airtime.rs:516`), and bursts may key the PA for more than half of a run
  and its cooldown.
* RADIO OFF sets a flag, and the pump purges when it next looks (`src/ax25/tnc.rs:509`):
  RADIO ON before that lets the backlog out, which the operator was told was purged.
* `enqueue` wakes the pump with `notify_waiters`, which is lost on a pump between its poll
  and its wait (`src/ax25/tnc.rs:598`): the frame waits out the idle sleep.
* Giving up the last unicast to a station forgets its duplicate window
  (`src/airc/session.rs:677`), so that a retry of what it sent before is delivered
  again; `docs/design.md:308` has the window per station. `AtMostOnce` is stated
  between two such forgettings (`gen`).
* A restarted gateway counts from 1 again, and only a station's HELLO carries an
  epoch: the station takes the new numbers for duplicates, acknowledges them and
  drops the messages (`session.rs:373`). `AckedIsHeard` holds as long as the
  gateway does not restart.
* After a frame that asks for an answer `scheduler.rs:20` has the transmitter held down so
  that the gateway listens when the answer arrives. Any frame the pump reads ends that hold
  (`src/ax25/tnc.rs:586`), the answer or not; one that was already in the socket when the
  question was keyed ends it before the transmitter has let go, and the next frame may be keyed
  over the answer. `ListensFirst` is stated with that: until *some* frame is read after
  the question.
* A frame its account can fund passes an earlier, dearer one of the same account
  (`src/ax25/scheduler.rs:291`); the comment at line 283 says they never overtake.
* A deferred frame holds the whole scheduler (`scheduler.rs:250`), shorter frames
  the governor would clear included; `src/ax25/airtime.rs:511` says asking about a
  large frame cannot block a smaller one.
* A frame put back is not published (`src/ax25/tnc.rs:690`), so the backlog shown
  may miss it; `ShownWithinAFrame` bounds the error by that one frame.
* Identification is owed and paid at queueing and has the highest class, so it
  overtakes the traffic it answers for, which then goes out with nothing owed
  (`src/server/radio.rs:763`, `docs/regulatory.md:49`).

Connections and accounts:

* A read error ends the reading task at `match read?` (`src/irc/client.rs:195`) without a
  `Disconnected`: the user and its nick stay for ever and count against the limits.
  `ReadError` is in the model; `GateIsEnough` and `UnlinkedIsLeaving` leave it out.
* The idle tick cancels `read_line_capped` in the middle of a line, and the `line.clear()`
  of the next turn drops the part already consumed.
* Dropping the output channel does not stop the writer, as `clients.rs` says: the idle
  timer holds a clone. `writer.abort()` may lose ERROR lines that are still queued.
* `expire_unidentified` renames to a guest's nick without looking whether it is
  registered (`src/server/mod.rs:514`, `docs/usage.md:133`): its new holder has no
  deadline. `TakerHasDeadline` leaves out the guest's nick.
* A password check carries the hash of the moment it began (`commands/accounts.rs:179`
  looks only at the nick): a nick dropped and registered again meanwhile is identified
  for with the old password. Two REGISTERs that finish out of order leave the
  earlier password.

Channels:

* What a station was kicked from is kept with its session, so that QUIT, or silence,
  and a message bring it back.
* A founder's +o is lost at the next refresh of his rights; `MODE -o` and `-v` of a right that
  follows from who one is come back at the next.
* A retry of HELLO or JOIN after RADIO KICK, once the duplicate window is forgotten, lifts
  the bar without having been sent anew.
* KILL of a station has no lasting effect: its next frame brings it back.
* With the gateway's tables in agreement (`StationsAgree`), `force_touch` never evicts there.

Mail and APRS:

* `flush_mailbox` says that the rest goes out "on the next thing we hear from them"
  (`src/server/radio.rs:612`), and is called only on HELLO or for a station newly here.
* A message taken from those waiting is lost if the backlog has no room when its turn
  comes, and those behind it then wait for the next message to that station.
* `emit_direct_chat_rf` ignores a message refused by the APRS queue.
* With a full table of stations an APRS line is acknowledged and not delivered.

## Proofs

Each theorem has the form `Spec => []P`, or `Spec => P` for an action property, for every
value of the constants that the module's assumption allows and for behaviours without
bound. Most rest on an inductive invariant of several parts, given below with what
it adds to the properties the runs check.

**`GovernorProofs`.** `TypeCorrect`, `RunIsBounded` (`UnbrokenRun`), `DutyIsBounded` and
`HourIsBounded` (the two ceilings), `EstimatesAreHonest`, `DeferralsEnd`.

* `UnbrokenRun` is about a history variable; nothing in it connects the history to the
  governor's own count. `RunIsTracked` does: until the transmitter has rested, the unbroken
  time is at most `run`, and a cooldown in force is counted from the last transmission.
  `check()` clears a frame only if `run` is 0 or has room for it (`SendHasRoom`), and `run`
  is reset only by a gap or a cooldown, each of which is a rest (`SettleKeeps`, `RecordKeeps`).
* The ceilings are about every transmission there ever was, and the governor forgets.
  `Remembered` says that what it has forgotten is outside both windows, and that
  transmissions do not overlap; then the part of the window that is keyed is at most
  the sum `check()` compared with the limit (`RoomIsEnough`).
* `EstimateIsHonest` has two halves. That `TimeUntilClear` is never less than what `check()`
  imposes holds for every configuration (`EstimateAgrees`). That it is zero whenever
  `check()` sends is proved from `RunGap <= Cooldown`: `Config::check` asks only that
  the cooldown be no shorter than a whole run, and with a cooldown shorter than the gap
  `time_until_clear` waits for the gap where `check()` already sends
  (`src/ax25/airtime.rs:688`).
* `DeferralEnds` is about the waits the pump is told, `check()`'s, each for the first limit that
  is hit; when one is over the frame may be deferred again for another. At whatever instant it is
  asked about (`Told`), the answer does not reach past the estimate, the wait over all
  limits at once, by more than the shortest deferral (`ToldReaches`), and after the estimate it
  is to send. The excess is there: at the instant a burst leaves its window `check()` still counts
  it (`src/ax25/airtime.rs:480`), and defers by `MinDelay`. `WaitIsForRoom` is that a wait for a
  window is no longer than until enough bursts have left it, `WaitReaches` that it stays so when it
  is asked for later, `WindowEmpties` that bursts only leave while nothing is keyed.

**`TxPathProofs`.** `PathTyped`, `ListeningComesFirst`, `FramesAreAccounted`, `OwedFramesAreKept`,
`OffIsSilent`, `ShownIsHonest`, and the refinement `PathDrivesTheGovernor`.

* `PlaceInv`: a frame accepted is in one queue, once, or in the pump's hand, and
  the pump's hand, between two of its steps, is where it could be lost or doubled. While a
  frame is in hand its class is not over its depth, so that `requeue`, which does not look,
  leaves it one over at most.
* `HoldInv`: each of the three holds covers everything keyed and heard until it is over or,
  for the reply window, until a frame has been read since. `ListensFirst` follows for the frame
  that is keyed next.
* `OffInv`: the pump has consent after RADIO OFF only at the instant of it. `ShownInv`: the
  backlog shown and the sum over what is queued or in hand differ by the longest frame
  at most (`Frames # {}`, so that there is one).
* The refinement maps the pump's states to the governor's: it asks and keys when its hold
  is over, at which time nothing is on the air. With it `PathKeepsTheLimits` is a corollary: the
  ceilings of the governor, duty, budget and run, hold of the pump's transmissions, by the theorems of
  `GovernorProofs` taken through the same INSTANCE.

**`ConnectionsProofs`.** `ConnectionsTyped`, `SlotsAreCounted`, `GateSuffices`, `UnlinkedLeave`,
`BanHolds`.

* `BannedIsOut` is inductive as it stands: the roster grows only in `Connected`, which looks
  at the bans again after the gate has, and `Kline` sends away all it covers but its giver.
* The rest are about what has been sent and not yet handled. `GateInv` ties the counters to the
  program counters of the tasks. `RosterInv`: behind every `Connected` in the queue, and
  for every user on the roster, the task is still to report its end, or its `Disconnected` is
  queued after it; this is what makes the roster a subset of those who hold a slot.
  `PlaceInv` looks ahead: the roster as it will be when the i-th event is handled has room for it.

**`AccountsProofs`.** `AccountsTyped`, `GrantsAreCurrent`, `CallsAreUnique`, `TakersHaveDeadlines`,
`FileIsCurrent`, `FileGoesForward`.

* `Sound` is what users and accounts have to do with each other between events: nicks and
  bindings are held once, identified means registered, and `rfTx` is what
  `may_transmit` would say now. An event gives one user another value and may change the account
  of his nick; it is sound but for that one user (`but`) until `refresh_rf_tx` settles it.
* `FileInv` and `FileFollows`: the file is not ahead of the counter of changes, the writer
  that holds the lock is not behind the file, and the latest change is with a thread, with the
  writer, or in the file, or a write has failed. Two changes in one event are the case where a
  writer has the lock with the first of them before the second is counted.

**`ChannelsProofs`.** `ServerTyped`, `MembershipsAgree`, `BridgesAreControlled`, `StationsAreAgreed`.

* An event is made of many small changes, and the properties do not hold between
  them. `Rooms` (users and channels) and `Server` (stations besides) have parameters for what is open in
  the middle of one: the users whose rights are yet to be refreshed, the channel made and
  not yet entered, the stations whose record is gone and whose user is not. Each helper of the
  model has a lemma that says what it does to them.
* `OpOnBridge` is not inductive. An operator's mark on a bridged channel is kept by
  `refresh_privileges` if it was set by hand; that it was then set by a control operator
  (`trusted`) is part of `Rights`, and needs that a channel that becomes bridged drops the marks
  that have no such reason.
* The invariant also gives that a station the server answers has a record, so that
  `force_touch` never evicts.

**`AprsMailProofs`.** `MailTyped`, `FatesAreKept`, `LinesAreShownOnce`.

* `Sound` is what the mailbox, the message in flight, those behind it and the fates of one
  station have to do with each other. A message that moves is for a moment in none of these
  places, and `Sound` is parameterised by the messages that are (`X`): it is taken out
  (`UnboxSound`, `UnwaitSound`, `ReleaseSound`) and then ends, starts or waits (`EndSound`, `StartSound`,
  `EnqueueSound`); each operator of the model is one of the one kind and one of the other.
  A batch from the mailbox is a recursion on its length, and sound by induction (`HandedSound`).
* That an ack is of the message in flight, and not of an earlier one that still has acks on
  their way, is what makes `fate = "acked"` imply that the station heard *this* message.
* The limit over all stations counts pairs of a station and a place in its box: a box
  that grows by one adds one pair (`OneMoreStored`), and one that shrinks adds none.
* `ShownOnce` is not inductive: it is about all that was taken up, and what decides is what is
  remembered. `LinesInv` adds that lines come in the order of their times, and that a line that is
  not remembered is as old as the TTL or has `MsgidMax` others after it (`Forgotten`). The latter
  because the remembered ones that are not too old are always the latest (`FreshIsLatest`): the one that
  makes room for another is the oldest, and everything since is still there. It holds for
  any number of radios and any memory of at least one.

**`ArqLinkProofs`.** `LinkTyped`, `NumbersAreFresh`, `NothingIsGarbledFrom`, `NothingIsGarbled`,
`NothingIsHeardTwice`, `DeliveredAtMostOnce`, `AckedIsHeardFrom`, `WhatIsAckedIsHeard`,
`WhatIsCollectedIsThere`, and the refinements `DownlinkIsKept` and `UplinkIsKept`.

* `LinkTyped` holds without a condition, also when the numbers have gone round. Its invariant is
  `Sane`: the types of everything, records, queues, air and history (`Shape`), which the lemmas below
  keep with all pairs for `A` and `B`.
* Each operator of `AircSession` has a lemma of one form: with a record that is `Good(p, A, B)`,
  what it sends was given its number in `A`, pairs of a message and a number,
  and what it holds of the other end was sent under the numbers in `B`. The lemmas do not say
  what `A` and `B` are, and so serve type correctness, with all pairs, and the rest.
* That a number means one message is not to be seen in the records, since they forget.
  `Ledger(own)` is the set of pairs the running process of each end has given, and the invariant
  `Numbered` says that there is one: below `nextSeq`, one message to a number (`Single`), and
  everything in the end's own record, in its queue, on its way and with the other end agrees with it.
  After a restart the other end still holds what the process before sent under the same numbers;
  the last part holds of it only when it has heard a HELLO of the new epoch (`Current`), which is the
  point of the epoch.
* Fragments are joined by number, so that what is `Garbled` has two messages under one number, and
  `Single` excludes it. `FreshNumbers` is that the window holds numbers of the ledger only.
* The conditions are the ones the code has. `NotRound`, that neither counter has reached its last
  value: after 65534 messages of one process numbers are given again. `NewEpochs`, that a restarted
  station draws an epoch not used before and not 0: `random_epoch` draws 16 bits (`src/station.rs:213`),
  so that the one or the other happens once in tens of thousands of restarts, and then the HELLO
  does not make the gateway forget. And for `Garbled`, that the sender does not restart: a gateway has
  no epoch, and what it sends under a number of its previous run may be joined with fragments from that.
* `AtMostOnce` rests on the duplicate window, and that forgets: after `DedupWindow` further numbers
  a late copy would be heard as new. `Timely(L)` is the condition: a frame is heard only while its
  sender has given fewer than `L` numbers since the frame's own, with `2 L <= DedupWindow + 3`.
  For the 64 of the code that is at most 31 further numbers between a frame and its last copy;
  `max_queue` is 16, and broadcasts draw from the same numbers. TLC finds a message
  delivered twice when `L` is larger by one (windows of 2 and 3), so the bound is exact.
* `Uses(e)` are the pairs of a message and a number that a frame or a record of `e` may still
  bring; `Sent(e)` says that each message but a HELLO has one number there and is asked for once. `Recorded`
  says that what has been delivered cannot be heard again: its number is
  `Covered`, that is, in the window with only numbers near it behind it, or too old to be timely. A number leaves
  the window when it and the `DedupWindow` behind it are different numbers in a range around it, so
  (`Crowded`, the pigeonhole) its sender is `L` numbers further on.
* `NothingIsHeardTwice` holds through any restarts of either end: a sender that restarts has nothing
  but a HELLO in use. What it leaves in fragments may be garbled, which is exempt there;
  `DeliveredAtMostOnce` is the property the runs check, for ends that stay up.
* `AckedIsHeard` and `HolesAreTrue` are about acknowledgements as claims: of a number, that the whole of its
  message was heard, or that these fragments of it are in hand. A claim is in six places, a frame, an ACK
  riding on data, what the receiver owes, what its reassemblies would say, what its window would
  say, and what the sender has collected. `Truths(B, h, rs)` are the claims that are true
  now, given the numbers the sender gave, what the receiver heard and what it has in hand,
  and `Truthful(e, B)` says that every claim about what `e` sent is one of them: those the receiver
  would make (`Honest`), those on their way (`Says`), and those collected (`Trusts`). Nothing that
  is true becomes false while no reassembly is given up (`NoneAbandoned`), which is
  what the theorems assume and what `v_arq_expiry` violates: a timeout, an eviction, or a restart in the
  middle of one. The sender must stay up, for `Ledger` to be of one process, and messages of the two ends
  must be told apart (`MessagesApart`). The receiver may restart in `AckedIsHeardFrom`.
* The refinement needs what order there is. `Lined` says that the message in flight and those
  behind it are the end of what was accepted, in that order, and exactly what is open; `Reached`
  that no frame of a message behind another has been made. What an operator of the session does to the line is one of
  four things, each a lemma: it stays, it advances by one, it is cleared, or a message joins it
  (`Stays`, `Advances`, `Clears`, `Joins`). These are a stutter, `Conclude` of the oldest,
  `Abandon` and `Accept`; what the other end does is a stutter or `Hear`, of the oldest since
  its frames are `Reached`; and that what is concluded as acked was heard is `AckedIsHeardFrom` in the
  state after. It is stated for an end that sends reliably only what its users ask for (`OnlyAsked`): the
  step in which the gateway takes the acknowledgement of one message and accepts its WELCOME is two steps of the
  service.

**`AirtimeProofs`.** The provers cannot instantiate the induction theorems of the library,
which take an operator. Induction is stated here about sets, as the existence of a
least element of a set of naturals and of a minimal one among finite sets, which the provers
can use; from it, that the sum of the community modules over a finite set is the recursive one,
splits at any element, and is monotonic. The duty and budget windows and the
backlog are such sums. The rest of the module is what `Settle`, `Delay`, `Record` and
`TimeUntilClear` return and keep, for both the modules that use them.

**Assumptions.** `AirtimeAssumption`: the windows and limits are natural numbers and a frame by
itself fits in a run, as `Config::check` enforces. `SchedulerAssumption`,
`ConnAssumption`, `AccountsAssumption`, `ChannelsAssumption`, `AprsMailAssumption`: sets that are finite and
distinct, limits that are natural numbers. Beyond these only `RunGap <= Cooldown`, `Frames # {}`,
and for `ArqLink` `NotRound`, `NewEpochs`, `Timely(L)`, `NoneAbandoned` and, what the model's inputs must keep to, `AnswersApart`,
`MessagesApart` and `OnlyAsked`: a WELCOME is not also asked for by a user, no message is both ends', and none is
both a unicast and a broadcast. All as above.

**Model-checked only.** `Resolves`, since liveness and ENABLED are out of the prover's reach.

## Not modelled

* In `ArqLink`, the station's HELLO that its tick repeats (`src/station.rs:295`), and echoes from
  before a restart: `Restart` takes the frames of both ends off the air. `Resolves` is checked
  where nothing is dropped unkeyed (`MaxDrops` is 0), for the reason given above.
* A station that is heard gets its callsign without a look at who claims it
  (`ensure_rf_user`, `src/server/bridge.rs:619`), and `set_callsign` looks at stations, too
  (`commands/operator.rs:186`): `Accounts` has the users of the net only.
* In `Channels`, `trusted` counts a +o by an operator also when it was given before the
  channel was bridged.
* In `ArqLink` each end knows one other. The table of stations is in `Channels`, without
  the messages in flight of the stations it evicts.
* Admission by backlog: `Send` may offer a frame at any time the transmitter is on,
  which is more than `backlog_has_room` allows.
* The time a write to the TNC takes; frames over `max_frame`; a changed pacing;
  `expire_accounts`; the end of a loopback; KISS frames that are not data or do not
  decode, after which the pump only polls again.
* A governor that is disabled (only with a loopback) and `Governor::reset`, which
  has no caller.
* Sequence numbers that wrap, in the runs: the window remembers 64 of 65535.
* Retries lose the TRUNCATED flag of the first transmission; flags other than
  ACK_REQ and RETRY are not in the model.
* The rate buckets and the screening of text in `policy.rs`: whoever asks them has a
  choice in the models, which is more than they allow. A full table of buckets gives
  back a full burst to whom it forgot (`src/policy.rs:59`).
* In `Connections`, CAP, PASS and the steps of registration: it is one line here. In
  `Accounts`, hashing, the topics and bans kept in the same file, and a crash between
  the rename and its fsync. In `Channels`, INVITE, AWAY, CTCP, presence notices on the air.
* Nicks are as `lower()` leaves them; its folding is not modelled.
* Codecs, configuration, the wizard, TLS, the audit log: text and octets.

## Plan

The project keeps to a dozen runs and forty checked properties, so that all of it
can be checked again in one go: a new module takes the place of a run, or of a
shallower property.

Every property a run checks is proved but `Resolves`. To prove next: the refinement of
`ReliableUnicast` with a WELCOME among what is accepted, by a service whose steps may be two at once.

To model next: the mail handed to a session and lost with it (`AprsMail` over
`AircSession` records); the rate buckets; sequence numbers that wrap.
