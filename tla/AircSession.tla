---------------------------- MODULE AircSession ----------------------------
(***************************************************************************)
(* The AIRC/1 session layer (src/src/airc/session.rs): what one station    *)
(* remembers of another, and how each call of Sessions changes it.  There  *)
(* are no variables here: an operator takes a peer record and returns      *)
(*                                                                         *)
(*    [peer |-> the peer afterwards, out |-> frames handed to the TNC,     *)
(*     done |-> messages whose acknowledgement is now complete,            *)
(*     deliver |-> the message given to the layer above, or NoMsg]         *)
(*                                                                         *)
(* ArqLink joins two of them over a radio channel.                         *)
(*                                                                         *)
(* A payload is a message identity and a number of fragments.  A deadline  *)
(* is "running or not": how long it runs is scheduling, and ArqLink lets a *)
(* running one expire at any later tick.                                   *)
(***************************************************************************)
EXTENDS Integers, Sequences, FiniteSets

CONSTANTS
  Msgs,         \* message identities
  NoMsg,        \* not a message
  Garbled,      \* the result of joining fragments of different messages
  Size,         \* number of fragments of each message
  Hellos,       \* the messages that are a HELLO ...
  EpochOf,      \* ... and the session epoch each carries
  SeqSpace,     \* 65536: sequence numbers are 1 .. SeqSpace - 1
  MaxRetries,   \* SessionConfig.max_retries
  MaxQueue,     \* SessionConfig.max_queue
  DedupWindow,  \* SessionConfig.dedup_window
  MaxReasm      \* SessionConfig.max_reasm

ASSUME MsgsAssumption ==
  /\ NoMsg \notin Msgs /\ Garbled \notin Msgs /\ NoMsg # Garbled
  /\ Size \in [Msgs -> Nat \ {0}]
  /\ Hellos \subseteq Msgs
  /\ EpochOf \in [Hellos -> Nat]
  /\ \A m \in Hellos : Size[m] = 1

ASSUME LimitsAssumption ==
  /\ SeqSpace \in Nat /\ SeqSpace > 1
  /\ MaxRetries \in Nat /\ MaxQueue \in Nat
  /\ DedupWindow \in Nat \ {0} /\ MaxReasm \in Nat \ {0}

NoSeq == 0
Seqs == 1 .. (SeqSpace - 1)
Frags(m) == 0 .. (Size[m] - 1)

(* Sequence numbers wrap and skip 0. *)
NextSeq(s) == IF s + 1 = SeqSpace THEN 1 ELSE s + 1

-----------------------------------------------------------------------------
(* Frames. `want` is ACK_REQ on a frame addressed to its receiver: it is    *)
(* FALSE on a broadcast, and nothing else tells the two apart here.         *)

Frag(m, s, i, want) ==
  [kind |-> "DATA", msg |-> m, seq |-> s, idx |-> i,
   want |-> want, retry |-> FALSE, piggy |-> NoSeq]

FragsOf(m, s, want) == {Frag(m, s, i, want) : i \in Frags(m)}
Retries(fs) == {[f EXCEPT !.retry = TRUE] : f \in fs}

(* Mutant: the bitmap is left out of the encoding. *)
Mutant_AckFrame(a) == [kind |-> "ACK", seq |-> a.seq, whole |-> TRUE, bits |-> {}]
AckFrame(a) == [kind |-> "ACK", seq |-> a.seq, whole |-> a.whole, bits |-> a.bits]

Whole(s) == [seq |-> s, whole |-> TRUE, bits |-> {}]
(* Mutant: the holes are reported instead of what is in hand. *)
Mutant_Partial(s, parts) ==
  [seq |-> s, whole |-> FALSE, bits |-> {i \in DOMAIN parts : parts[i] = NoMsg}]
Partial(s, parts) ==
  [seq |-> s, whole |-> FALSE, bits |-> {i \in DOMAIN parts : parts[i] # NoMsg}]

Frames ==
  [kind : {"DATA"}, msg : Msgs, seq : Seqs, idx : Nat,
   want : BOOLEAN, retry : BOOLEAN, piggy : Seqs \cup {NoSeq}]
    \cup [kind : {"ACK"}, seq : Seqs, whole : BOOLEAN, bits : SUBSET Nat]

-----------------------------------------------------------------------------
(* A peer. `reasm` is ordered by the time each reassembly was started.      *)

NoAck == Whole(NoSeq)
NoPending ==
  [seq |-> NoSeq, msg |-> NoMsg, acked |-> {}, attempts |-> 0, armed |-> FALSE]

NewPeer ==
  [pending |-> NoPending, queue |-> <<>>, seen |-> <<>>, reasm |-> <<>>,
   owed |-> NoAck, epoch |-> 0]

Idle(p) == p.pending.seq = NoSeq
Remembered(p, s) == \E i \in DOMAIN p.seen : p.seen[i] = s

Nothing(p) == [peer |-> p, out |-> {}, done |-> {}, deliver |-> NoMsg]

StartPending(p, entry) ==
  [Nothing([p EXCEPT !.pending =
              [NoPending EXCEPT !.seq = entry.seq, !.msg = entry.msg]])
     EXCEPT !.out = FragsOf(entry.msg, entry.seq, TRUE)]

(* The in-flight message is over, one way or the other: the next one starts. *)
StartNext(p) ==
  IF p.queue = <<>> THEN Nothing([p EXCEPT !.pending = NoPending])
  ELSE StartPending([p EXCEPT !.queue = Tail(@)], Head(p.queue))

Unacked(q) == {f \in FragsOf(q.msg, q.seq, TRUE) : f.idx \notin q.acked}

(* Mutant: an acknowledgement of any earlier message completes this one. *)
Mutant_ApplyAck(p, a) ==
  IF Idle(p) \/ ~a.whole THEN Nothing(p)
  ELSE [StartNext(p) EXCEPT !.done = {p.pending.msg}]

(* An acknowledgement: of the whole message, or naming the fragments in    *)
(* hand, in which case only the holes are sent again -- and only if it     *)
(* said something new.                                                     *)
ApplyAck(p, a) ==
  LET q == p.pending
      acked == q.acked \cup (a.bits \cap Frags(q.msg))
      holes == [q EXCEPT !.acked = acked, !.attempts = 0, !.armed = FALSE]
  IN CASE q.seq = NoSeq \/ q.seq # a.seq -> Nothing(p)
       [] q.seq = a.seq /\ q.seq # NoSeq /\ (a.whole \/ acked = Frags(q.msg)) ->
            [StartNext(p) EXCEPT !.done = {q.msg}]
       [] OTHER ->
            IF acked = q.acked THEN Nothing(p)
            ELSE [Nothing([p EXCEPT !.pending = holes])
                    EXCEPT !.out = Retries(Unacked(holes))]

-----------------------------------------------------------------------------
(* Receiving. *)

(* Mutant: the new epoch is noted but the window is kept. *)
Mutant_NewSession(p, m) == IF m \in Hellos THEN [p EXCEPT !.epoch = EpochOf[m]] ELSE p

(* A HELLO with another epoch is a restarted station. *)
NewSession(p, m) ==
  IF m \in Hellos /\ EpochOf[m] # p.epoch
    THEN [NewPeer EXCEPT !.epoch = EpochOf[m]]
    ELSE p

(* Mutant: a delivered number is not remembered. *)
Mutant_Remember(p, s) == p

Remember(p, s) ==
  LET grown == Append(p.seen, s)
      over == Len(grown) - DedupWindow
  IN [p EXCEPT !.seen = IF over > 0 THEN SubSeq(grown, over + 1, Len(grown))
                                    ELSE grown]

OweAck(p, a, want) == IF want THEN [p EXCEPT !.owed = a] ELSE p

(* There is one reassembly for a number at most. *)
Reassembles(rs, s) == \E i \in DOMAIN rs : rs[i].seq = s
Slot(rs, s) == CHOOSE i \in DOMAIN rs : rs[i].seq = s
Without(rs, s) ==
  IF Reassembles(rs, s)
  THEN SubSeq(rs, 1, Slot(rs, s) - 1) \o SubSeq(rs, Slot(rs, s) + 1, Len(rs)) ELSE rs

(* The reassembly `f` belongs to, and the list of them once it is there: a *)
(* sequence number reused with another fragment count starts again, and a  *)
(* new one may push out the oldest.                                        *)
Blank(f) == [seq |-> f.seq, want |-> f.want,
             parts |-> [i \in Frags(f.msg) |-> NoMsg]]

(* Mutant: a full list reuses its oldest slot without emptying it. *)
Mutant_WithSlot(rs, f) ==
  IF rs = <<>> THEN <<Blank(f)>> ELSE [rs EXCEPT ![1].seq = f.seq]

WithSlot(rs, f) ==
  LET kept == IF Len(rs) >= MaxReasm THEN Tail(rs) ELSE rs
  IN IF ~Reassembles(rs, f.seq) THEN Append(kept, Blank(f))
     ELSE IF DOMAIN rs[Slot(rs, f.seq)].parts # Frags(f.msg)
            THEN Append(Without(rs, f.seq), Blank(f))
            ELSE rs

Stash(rs, f) ==
  LET slots == WithSlot(rs, f)
  IN [slots EXCEPT ![Slot(slots, f.seq)].parts[f.idx] = f.msg,
                   ![Slot(slots, f.seq)].want = @ \/ f.want]

Joined(parts) ==
  IF \A i \in DOMAIN parts : parts[i] = parts[0] THEN parts[0] ELSE Garbled

(* A fragment of a longer message. An incomplete set is reported only when *)
(* the fragment is a RETRY; a complete one is delivered and acknowledged.  *)
Reassemble(p, f) ==
  LET rs == Stash(p.reasm, f)
      r == rs[Slot(rs, f.seq)]
      complete == \A i \in DOMAIN r.parts : r.parts[i] # NoMsg
      kept == [p EXCEPT !.reasm = rs]
      whole == [Remember(p, f.seq) EXCEPT !.reasm = Without(rs, f.seq)]
  IN IF ~complete
       THEN Nothing(OweAck(kept, Partial(f.seq, r.parts), f.want /\ f.retry))
       ELSE [Nothing(OweAck(whole, Whole(f.seq), r.want))
               EXCEPT !.deliver = Joined(r.parts)]

(* A duplicate of a delivered message is acknowledged again and dropped,   *)
(* except that a HELLO is always answered.                                 *)
ReceiveData(p, f) ==
  CASE Remembered(p, f.seq) ->
         [Nothing(OweAck(p, Whole(f.seq), f.want))
            EXCEPT !.deliver = IF f.msg \in Hellos THEN f.msg ELSE NoMsg]
    [] ~Remembered(p, f.seq) /\ Size[f.msg] = 1 ->
         [Nothing(Remember(OweAck(p, Whole(f.seq), f.want), f.seq))
            EXCEPT !.deliver = f.msg]
    [] OTHER -> Reassemble(p, f)

(* Mutant: the frame's own number is read as the one it acknowledges. *)
Mutant_OnReceive(p, f) ==
  IF f.kind = "ACK" THEN ApplyAck(p, f)
  ELSE LET acked == ApplyAck(NewSession(p, f.msg), Whole(f.seq))
       IN [ReceiveData(acked.peer, f) EXCEPT !.out = acked.out, !.done = acked.done]

OnReceive(p, f) ==
  IF f.kind = "ACK" THEN ApplyAck(p, f)
  ELSE LET fresh == NewSession(p, f.msg)
           acked == IF f.piggy = NoSeq THEN Nothing(fresh)
                    ELSE ApplyAck(fresh, Whole(f.piggy))
           data == ReceiveData(acked.peer, f)
       IN [data EXCEPT !.out = acked.out, !.done = acked.done]

-----------------------------------------------------------------------------
(* Sending. *)

(* Standalone acknowledgements that no unicast carried. *)
DrainAcks(p) ==
  [Nothing([p EXCEPT !.owed = NoAck])
     EXCEPT !.out = IF p.owed.seq = NoSeq THEN {} ELSE {AckFrame(p.owed)}]

Accepts(p) == Idle(p) \/ Len(p.queue) < MaxQueue

(* A reliable unicast. One message is in flight; the rest wait. A complete *)
(* acknowledgement rides on the first fragment of one that goes out now;   *)
(* the copy kept for retries does not carry it.                            *)
Enqueue(p, m, s) ==
  LET entry == [seq |-> s, msg |-> m]
      carries == p.owed.seq # NoSeq /\ p.owed.whole
      started == StartPending(IF carries THEN [p EXCEPT !.owed = NoAck] ELSE p, entry)
      riding == {IF f.idx = 0 /\ carries THEN [f EXCEPT !.piggy = p.owed.seq] ELSE f :
                   f \in started.out}
  IN CASE Idle(p) -> [started EXCEPT !.out = riding]
       [] ~Idle(p) /\ Len(p.queue) < MaxQueue ->
            Nothing([p EXCEPT !.queue = Append(@, entry)])
       [] OTHER -> Nothing(p)

(* The TNC has keyed a frame with sequence number s: the ACK clock starts. *)
OnKeyed(p, keyed) ==
  IF p.pending.seq \in keyed THEN [p EXCEPT !.pending.armed = TRUE] ELSE p

(* Reassemblies that have run out of time, the n oldest. *)
ExpireReasm(p, n) ==
  [Nothing([p EXCEPT !.reasm = SubSeq(@, n + 1, Len(@))])
     EXCEPT !.out = {AckFrame(Partial(p.reasm[i].seq, p.reasm[i].parts)) :
                       i \in {j \in 1 .. n : p.reasm[j].want}}]

(* The ACK clock has run out: send again, or give the message up.          *)
(* A station with nothing left to be told is lost, and forgotten.          *)
Retry(p) ==
  [Nothing([p EXCEPT !.pending.attempts = @ + 1]) EXCEPT !.out = Retries(Unacked(p.pending))]

(* Mutant: a message is not given up while some of it has been acknowledged. *)
Mutant_GiveUp(p) ==
  IF p.pending.acked # {} THEN Nothing(p)
  ELSE IF p.queue = <<>> THEN Nothing(NewPeer) ELSE StartNext(p)
GiveUp(p) == IF p.queue = <<>> THEN Nothing(NewPeer) ELSE StartNext(p)

(* Mutant: one retry too many. *)
Mutant_Timeout(p) == IF p.pending.attempts <= MaxRetries THEN Retry(p) ELSE GiveUp(p)
Timeout(p) == IF p.pending.attempts < MaxRetries THEN Retry(p) ELSE GiveUp(p)
=============================================================================
