------------------------------ MODULE ArqLink ------------------------------
(***************************************************************************)
(* Two stations running the session layer against each other over a radio  *)
(* channel: the gateway (server/bridge.rs, server/radio.rs, server/mod.rs) *)
(* and the terminal station (station.rs).                                  *)
(*                                                                         *)
(* Between a session and the air is the transmit queue of the TNC task.    *)
(* Its scheduler may key the frames in it in any order, and may drop one   *)
(* unkeyed (stale, purged by RADIO OFF, or refused by a full class); TxPath*)
(* models the queue itself.  The transmit queue and the air are sets: two  *)
(* copies of one retransmission are one element, and what a second copy    *)
(* can do, an echo can do.                                                 *)
(*                                                                         *)
(* accepted, delivered, outcome and gen are history: no action reads them. *)
(***************************************************************************)
EXTENDS AircSession

CONSTANTS
  Gateway, Station,
  Outbox,     \* [Ends -> SUBSET Msgs]: unicasts each end's users ask for
  Broadcasts, \* [Ends -> SUBSET Msgs]: channel messages, notices, beacons
  Replies,    \* [Hellos -> SUBSET Msgs]: what the gateway answers (WELCOME)
  BootHello,  \* the HELLO each incarnation of the station starts with, or NoMsg
  Echo,       \* may a keyed frame be heard again later (a digipeater)?
  MaxDrops,   \* bound: frames dropped unkeyed
  MaxExpiries,\* bound: reassembly timeouts
  MaxIdles,   \* bound: stations forgotten for silence
  MaxRestarts \* [Ends -> Nat], bound: process restarts

Ends == {Gateway, Station}
Other(e) == IF e = Gateway THEN Station ELSE Gateway

ASSUME EndsAssumption ==
  /\ Gateway # Station
  /\ Outbox \in [Ends -> SUBSET Msgs]
  /\ Broadcasts \in [Ends -> SUBSET Msgs]
  /\ Replies \in [Hellos -> SUBSET Msgs]
  /\ Echo \in BOOLEAN
  /\ BootHello \in [0 .. MaxRestarts[Station] -> Hellos \cup {NoMsg}]
  /\ MaxDrops \in Nat /\ MaxExpiries \in Nat /\ MaxIdles \in Nat
  /\ MaxRestarts \in [Ends -> Nat]

VARIABLES
  peer,      \* peer[e]: e's session record of the other end
  nextSeq,   \* nextSeq[e]: e's sequence counter, shared with its broadcasts
  txq,       \* txq[e]: frames waiting in e's TNC task
  air,       \* air[e]: frames that may still be heard by e
  keyed,     \* keyed[e]: sequence numbers keyed since e's last tick
  todo,      \* todo[e]: messages e's users have not asked for yet
  used,      \* how much of each bound has been spent
  accepted,  \* accepted[e]: unicasts e's session has accepted, in order
  delivered, \* delivered[e]: what e's session gave to the layer above
  outcome,   \* outcome[m]: what e's session concluded about a unicast
  gen        \* gen[e]: how often e has forgotten the other end

history == <<accepted, delivered, outcome, gen>>
vars == <<peer, nextSeq, txq, air, keyed, todo, used, history>>

(* A process starts with an empty table and sequence number 1; a station's *)
(* first act is to send its HELLO.                                         *)
Booted(e, n) ==
  IF e = Station /\ BootHello[n] # NoMsg
    THEN Enqueue(NewPeer, BootHello[n], 1) ELSE Nothing(NewPeer)
BootSaid(e, n) == IF Booted(e, n).out = {} THEN <<>> ELSE <<BootHello[n]>>
BootSeq(e, n) == IF Booted(e, n).out = {} THEN 1 ELSE NextSeq(1)

Init ==
  /\ peer = [e \in Ends |-> Booted(e, 0).peer]
  /\ nextSeq = [e \in Ends |-> BootSeq(e, 0)]
  /\ txq = [e \in Ends |-> Booted(e, 0).out]
  /\ air = [e \in Ends |-> {}]
  /\ keyed = [e \in Ends |-> {}]
  /\ todo = [e \in Ends |-> Outbox[e] \cup Broadcasts[e]]
  /\ used = [drops |-> 0, expiries |-> 0, idles |-> 0, restarts |-> [e \in Ends |-> 0]]
  /\ accepted = [e \in Ends |-> BootSaid(e, 0)]
  /\ delivered = [e \in Ends |-> <<>>]
  /\ outcome = [m \in Msgs |-> IF m = BootHello[0] THEN "open" ELSE "none"]
  /\ gen = [e \in Ends |-> 0]

-----------------------------------------------------------------------------
(* What the history records of a step of e's session from p to r.peer.      *)

InHand(p) == {p.queue[i].msg : i \in DOMAIN p.queue}
               \cup (IF Idle(p) THEN {} ELSE {p.pending.msg})

Conclude(e, p, done) ==
  outcome' = [m \in Msgs |->
    IF m \in done THEN "acked"
    ELSE IF m \in InHand(p) THEN "open"
    ELSE IF m \in InHand(peer[e]) THEN "dropped"
    ELSE outcome[m]]

Forget(e, wiped) == gen' = IF wiped THEN [gen EXCEPT ![e] = @ + 1] ELSE gen

Deliver(e, m) ==
  delivered' = IF m = NoMsg THEN delivered
               ELSE [delivered EXCEPT ![e] = Append(@, [msg |-> m, gen |-> gen'[e]])]

-----------------------------------------------------------------------------
(* What a station leaves owing when it has sent, or its tick is over.       *)
Settled(e, p) == IF e = Station THEN DrainAcks(p) ELSE Nothing(p)

(* Submit: Radio::unicast / Station::send_to, which also sends the          *)
(* acknowledgements it still owes. The session may refuse.                  *)
SendTo(e, m) ==
  LET sent == Enqueue(peer[e], m, nextSeq[e])
      drained == Settled(e, sent.peer)
  IN [drained EXCEPT !.out = sent.out \cup @]

Submit(e, m) ==
  LET p == peer[e]
      sent == SendTo(e, m)
  IN /\ m \in todo[e] \cap Outbox[e]
     /\ todo' = [todo EXCEPT ![e] = @ \ {m}]
     /\ nextSeq' = [nextSeq EXCEPT ![e] = NextSeq(@)]
     /\ peer' = [peer EXCEPT ![e] = sent.peer]
     /\ txq' = [txq EXCEPT ![e] = @ \cup sent.out]
     /\ accepted' = IF Accepts(p) THEN [accepted EXCEPT ![e] = Append(@, m)] ELSE accepted
     /\ Conclude(e, sent.peer, {})
     /\ UNCHANGED <<air, keyed, used, delivered, gen>>

(* Station::send_chat: one frame, or fragments, that nobody acknowledges.   *)
SendChat(e, m) == FragsOf(m, nextSeq[e], FALSE)

(* Broadcast: Radio::broadcast / Station::send_chat. Unreliable, but out of *)
(* the same sequence space.                                                 *)
Broadcast(e, m) ==
  /\ m \in todo[e] \cap Broadcasts[e]
  /\ todo' = [todo EXCEPT ![e] = @ \ {m}]
  /\ nextSeq' = [nextSeq EXCEPT ![e] = NextSeq(@)]
  /\ txq' = [txq EXCEPT ![e] = @ \cup SendChat(e, m)]
  /\ UNCHANGED <<peer, air, keyed, used, history>>

(* The TNC writes a frame to the modem. Without echoes it is heard once or, *)
(* in a collision, not at all; with them it may be heard at any time after, *)
(* any number of times, and so perhaps never.                               *)
Key(e, f, arrives) ==
  /\ f \in txq[e]
  /\ Echo => arrives
  /\ txq' = [txq EXCEPT ![e] = @ \ {f}]
  /\ air' = IF arrives THEN [air EXCEPT ![Other(e)] = @ \cup {f}] ELSE air
  \* A broadcast is keyed for the protocol address, not for the peer.
  /\ keyed' = IF f.kind = "ACK" \/ f.want
                THEN [keyed EXCEPT ![e] = @ \cup {f.seq}] ELSE keyed
  /\ UNCHANGED <<peer, nextSeq, todo, used, history>>

(* The TNC drops a frame it has not keyed. *)
Discard(e, f) ==
  /\ used.drops < MaxDrops
  /\ f \in txq[e]
  /\ used' = [used EXCEPT !.drops = @ + 1]
  /\ txq' = [txq EXCEPT ![e] = @ \ {f}]
  /\ UNCHANGED <<peer, nextSeq, air, keyed, todo, history>>

(* Station::handle_rf: what the session makes of a frame, and nothing more. *)
(* What it owes for it is left to the next tick or send.                   *)
HandleRf(e, f) == OnReceive(peer[e], f)

(* handle_rf_frame on the gateway, which answers a HELLO with a reliable   *)
(* WELCOME, unless policy or the backlog refuses it, and sends what it     *)
(* still owes before it returns.                                           *)
ReceiveAs(e, f, reply) ==
  LET got == HandleRf(e, f)
      said == IF reply = NoMsg THEN Nothing(got.peer)
              ELSE Enqueue(got.peer, reply, nextSeq[e])
      drained == IF e = Gateway THEN DrainAcks(said.peer) ELSE Nothing(said.peer)
  IN /\ air' = IF Echo THEN air ELSE [air EXCEPT ![e] = @ \ {f}]
     /\ peer' = [peer EXCEPT ![e] = drained.peer]
     /\ nextSeq' = IF reply = NoMsg THEN nextSeq ELSE [nextSeq EXCEPT ![e] = NextSeq(@)]
     /\ txq' = [txq EXCEPT ![e] = @ \cup got.out \cup said.out \cup drained.out]
     /\ Forget(e, f.kind = "DATA" /\ NewSession(peer[e], f.msg) # peer[e])
     /\ accepted' = IF reply # NoMsg /\ Accepts(got.peer)
                      THEN [accepted EXCEPT ![e] = Append(@, reply)] ELSE accepted
     /\ Deliver(e, got.deliver)
     /\ Conclude(e, drained.peer, got.done)
     /\ UNCHANGED <<keyed, todo, used>>

Answers(e, m) ==
  IF e = Gateway /\ m \in Hellos
    THEN {NoMsg} \cup {r \in Replies[m] : outcome[r] = "none"} ELSE {NoMsg}

Receive(e, f) ==
  /\ f \in air[e]
  /\ \E reply \in Answers(e, HandleRf(e, f).deliver) : ReceiveAs(e, f, reply)

(* The clocks of what was keyed since the last tick start.                  *)
DrainKeyed(e) == OnKeyed(peer[e], keyed[e])

(* Housekeeping: start the clocks of what was keyed, report reassemblies   *)
(* that have run out of time, retry or give up what was not acknowledged,  *)
(* forget a silent station. A clock this very tick started cannot have run *)
(* out in it.                                                              *)
TickAs(e, n, what) ==
  LET started == DrainKeyed(e)
      aged == ExpireReasm(started, n)
      next == CASE what = "quiet" -> Nothing(aged.peer)
                [] what = "timeout" -> Timeout(aged.peer)
                [] what = "idle" -> Nothing(NewPeer)
      drained == Settled(e, next.peer)
  IN /\ what = "timeout" => /\ peer[e].pending.armed
                            /\ peer[e].pending.seq \notin keyed[e]
     /\ what = "idle" => used.idles < MaxIdles /\ peer[e] # NewPeer
     /\ used.expiries + n <= MaxExpiries
     /\ used' = [used EXCEPT !.expiries = @ + n,
                             !.idles = IF what = "idle" THEN @ + 1 ELSE @]
     /\ keyed' = [keyed EXCEPT ![e] = {}]
     /\ peer' = [peer EXCEPT ![e] = drained.peer]
     /\ txq' = [txq EXCEPT ![e] = @ \cup aged.out \cup next.out \cup drained.out]
     /\ Forget(e, next.peer = NewPeer /\ peer[e] # NewPeer)
     /\ Conclude(e, drained.peer, {})
     /\ UNCHANGED <<nextSeq, air, todo, accepted, delivered>>

Tick(e) ==
  \E n \in 0 .. Len(peer[e].reasm), what \in {"quiet", "timeout", "idle"} :
    TickAs(e, n, what)

(* The process is restarted: nothing of the session is kept, and the       *)
(* sequence counter starts at 1. A restart outlasts the frames in flight,  *)
(* not the ones waiting in the other end's queue.                          *)
Restart(e) ==
  LET n == used.restarts[e] + 1
      boot == Booted(e, n)
  IN
  /\ used.restarts[e] < MaxRestarts[e]
  /\ used' = [used EXCEPT !.restarts[e] = @ + 1]
  /\ peer' = [peer EXCEPT ![e] = boot.peer]
  /\ nextSeq' = [nextSeq EXCEPT ![e] = BootSeq(e, n)]
  /\ txq' = [txq EXCEPT ![e] = boot.out]
  /\ air' = [x \in Ends |-> {}]
  /\ keyed' = [keyed EXCEPT ![e] = {}]
  /\ accepted' = [accepted EXCEPT ![e] = @ \o BootSaid(e, n)]
  /\ Forget(e, TRUE)
  /\ Conclude(e, boot.peer, {})
  /\ UNCHANGED <<todo, delivered>>

Next ==
  \E e \in Ends :
    \/ \E m \in todo[e] : Submit(e, m)
    \/ \E m \in todo[e] : Broadcast(e, m)
    \/ \E f \in txq[e], arrives \in BOOLEAN : Key(e, f, arrives)
    \/ \E f \in txq[e] : Discard(e, f)
    \/ \E f \in air[e] : Receive(e, f)
    \/ Tick(e)
    \/ Restart(e)

Spec == Init /\ [][Next]_vars

-----------------------------------------------------------------------------
(* Properties. *)

Heard(e) == {delivered[e][i].msg : i \in DOMAIN delivered[e]}
Unicasts(e) == {accepted[e][i] : i \in DOMAIN accepted[e]}

Pendings ==
  {NoPending}
    \cup [seq : Seqs, msg : Msgs, acked : SUBSET Nat, attempts : 0 .. MaxRetries,
          armed : BOOLEAN]

Peers(p) ==
  /\ p.pending \in Pendings
  /\ p.queue \in Seq([seq : Seqs, msg : Msgs]) /\ Len(p.queue) <= MaxQueue
  /\ p.seen \in Seq(Seqs) /\ Len(p.seen) <= DedupWindow
  /\ Len(p.reasm) <= MaxReasm
  /\ \A i \in DOMAIN p.reasm :
       /\ p.reasm[i].seq \in Seqs /\ p.reasm[i].want \in BOOLEAN
       /\ \A k \in DOMAIN p.reasm[i].parts :
            p.reasm[i].parts[k] \in Msgs \cup {NoMsg}
  /\ p.owed.seq \in Seqs \cup {NoSeq} /\ p.owed.whole \in BOOLEAN
  /\ p.epoch \in Nat

(* Every session record keeps its shape and its limits: one message in      *)
(* flight, at most MaxQueue behind it, at most MaxReasm reassemblies and    *)
(* DedupWindow remembered numbers, never more than MaxRetries attempts.     *)
TypeOK ==
  /\ \A e \in Ends : Peers(peer[e])
  /\ nextSeq \in [Ends -> Seqs]
  /\ txq \in [Ends -> SUBSET Frames]
  /\ air \in [Ends -> SUBSET Frames]
  /\ keyed \in [Ends -> SUBSET Seqs]

(* Sessions::on_receive gives a message to the layer above once, however   *)
(* often its frames, its retries or their echoes arrive -- as long as the  *)
(* receiver has not forgotten the sender in between. HELLO is exempt: it is *)
(* answered every time on purpose.                                          *)
AtMostOnce ==
  \A e \in Ends : \A i, j \in DOMAIN delivered[e] :
    i # j /\ delivered[e][i].msg \notin Hellos => delivered[e][i] # delivered[e][j]

(* A sender that concludes "acknowledged" is right: the receiver was given *)
(* the message.                                                            *)
AckedIsHeard ==
  \A e \in Ends : \A m \in Unicasts(e) :
    outcome[m] = "acked" => m \in Heard(Other(e))

(* Fragments of two messages are never joined into one. *)
NeverGarbled == \A e \in Ends : Garbled \notin Heard(e)

(* The selective acknowledgements a sender has collected are true: every   *)
(* fragment it will not send again is in the receiver's hands.             *)
HolesAreTrue ==
  \A e \in Ends :
    LET q == peer[e].pending
        there == peer[Other(e)]
    IN ~Idle(peer[e]) /\ q.acked # {} =>
         \/ q.msg \in Heard(Other(e))
         \/ \E k \in DOMAIN there.reasm :
              /\ there.reasm[k].seq = q.seq
              /\ \A i \in q.acked : there.reasm[k].parts[i] = q.msg

(* A HELLO with a new epoch really starts afresh: once the gateway has it,  *)
(* no number the station has yet to use is already in the window, where it *)
(* would be acknowledged and thrown away.                                  *)
FreshNumbers ==
  LET boot == BootHello[used.restarts[Station]]
      there == peer[Gateway]
  IN boot # NoMsg /\ there.epoch = EpochOf[boot] =>
       \A i \in DOMAIN there.seen : there.seen[i] < nextSeq[Station]

(* Each direction of the link, seen as the service it is meant to provide.  *)
Concluded(e) == [m \in Outbox[e] |-> outcome[m]]

Down == INSTANCE ReliableUnicast WITH
  Msgs <- Outbox[Gateway], accepted <- accepted[Gateway],
  heard <- Heard(Station) \cap Outbox[Gateway], outcome <- Concluded(Gateway)
Up == INSTANCE ReliableUnicast WITH
  Msgs <- Outbox[Station], accepted <- accepted[Station],
  heard <- Heard(Gateway) \cap Outbox[Station], outcome <- Concluded(Station)

Downlink == Down!Spec
Uplink == Up!Spec

-----------------------------------------------------------------------------
(* Liveness. The TNC task keys what it holds (its window slides and its    *)
(* link reconnects), and the housekeeping tick runs every few seconds. No  *)
(* frame need ever be heard: the promise is that the sender stops waiting. *)
FairSpec ==
  /\ Spec
  /\ \A e \in Ends :
       /\ WF_vars(\E f \in txq[e], arrives \in BOOLEAN : Key(e, f, arrives))
       /\ WF_vars(keyed[e] # {} /\ TickAs(e, 0, "quiet"))
       /\ WF_vars(TickAs(e, 0, "timeout"))

(* Every accepted unicast is eventually acknowledged or given up. *)
Resolves ==
  \A e \in Ends : \A m \in Outbox[e] : outcome[m] = "open" ~> outcome[m] # "open"
=============================================================================
