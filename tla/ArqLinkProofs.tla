---------------------------- MODULE ArqLinkProofs ----------------------------
(***************************************************************************)
(* What TLAPS proves of the session layer, for any messages, fragments,    *)
(* limits, losses, echoes and restarts.                                    *)
(***************************************************************************)
EXTENDS ArqLink, SequenceTheorems, FiniteSetTheorems, TLAPS

-----------------------------------------------------------------------------
(* The record an end keeps of the other.  What it sends, it sends under     *)
(* numbers given in A, pairs of a message and its number; what it has of    *)
(* the other end was sent under the numbers given in B.                     *)
Parts == UNION {[0 .. n - 1 -> Msgs \cup {NoMsg}] : n \in Nat \ {0}}
Slots == [seq : Seqs, want : BOOLEAN, parts : Parts]
Entries == [seq : Seqs, msg : Msgs]
Acks == [seq : Seqs \cup {NoSeq}, whole : BOOLEAN, bits : SUBSET Nat]

Records ==
  [pending : Pendings, queue : Seq(Entries), seen : Seq(Seqs), reasm : Seq(Slots),
   owed : Acks, epoch : Nat]

(* A number is reassembled in one place: what Slot chooses is the only one.  *)
Apart(rs) == \A i, j \in DOMAIN rs : rs[i].seq = rs[j].seq => i = j

Typed(p) ==
  /\ p \in Records /\ Apart(p.reasm)
  /\ Len(p.queue) <= MaxQueue /\ Len(p.seen) <= DedupWindow /\ Len(p.reasm) <= MaxReasm

Entitled(entry, A) == <<entry.msg, entry.seq>> \in A
Sends(p, A) ==
  /\ p.pending.seq # NoSeq => Entitled(p.pending, A)
  /\ \A i \in DOMAIN p.queue : Entitled(p.queue[i], A)

Holds(r, B) == \A k \in DOMAIN r.parts : r.parts[k] # NoMsg => <<r.parts[k], r.seq>> \in B
Knows(s, B) == \E m \in Msgs : <<m, s>> \in B
Hears(p, B) ==
  /\ \A i \in DOMAIN p.reasm : Holds(p.reasm[i], B)
  /\ \A i \in DOMAIN p.seen : Knows(p.seen[i], B)

Good(p, A, B) == Typed(p) /\ Sends(p, A) /\ Hears(p, B)

Carried(f, A) ==
  f \in Frames /\ (f.kind = "DATA" => <<f.msg, f.seq>> \in A /\ f.idx \in Frags(f.msg))
Carries(F, A) == \A f \in F : Carried(f, A)

(* No number is given to two messages.                                      *)
Single(B) == \A x \in Msgs, y \in Msgs, s \in Seqs : <<x, s>> \in B /\ <<y, s>> \in B => x = y

Sound(r, A, B) ==
  /\ Good(r.peer, A, B) /\ Carries(r.out, A) /\ r.done \subseteq Msgs
  /\ r.deliver \in Msgs \cup {NoMsg, Garbled}
  /\ Single(B) => r.deliver # Garbled

LEMMA Limits ==
  /\ SeqSpace \in Nat /\ SeqSpace > 1 /\ MaxRetries \in Nat /\ MaxQueue \in Nat
  /\ DedupWindow \in Nat /\ DedupWindow >= 1 /\ MaxReasm \in Nat /\ MaxReasm >= 1
  /\ 1 \in Seqs /\ NoSeq \notin Seqs /\ Seqs \subseteq Nat
  /\ Size \in [Msgs -> Nat \ {0}] /\ NoMsg \notin Msgs /\ Garbled \notin Msgs /\ NoMsg # Garbled
BY LimitsAssumption, MsgsAssumption DEF Seqs, NoSeq

LEMMA SizeIs ==
  ASSUME NEW m \in Msgs
  PROVE  /\ Size[m] \in Nat \ {0} /\ Frags(m) = 0 .. Size[m] - 1 /\ Frags(m) \subseteq Nat
         /\ 0 \in Frags(m)
BY MsgsAssumption DEF Frags

(* The fields of a record.                                                  *)
LEMMA Fields ==
  ASSUME NEW p, Typed(p)
  PROVE  /\ p \in Records
         /\ p.pending \in Pendings /\ p.queue \in Seq(Entries) /\ p.seen \in Seq(Seqs)
         /\ p.reasm \in Seq(Slots) /\ p.owed \in Acks /\ p.epoch \in Nat
         /\ Len(p.queue) \in Nat /\ Len(p.seen) \in Nat /\ Len(p.reasm) \in Nat
         /\ Len(p.queue) <= MaxQueue /\ Len(p.seen) <= DedupWindow /\ Len(p.reasm) <= MaxReasm
         /\ Apart(p.reasm)
<1>1. p \in Records
  BY DEF Typed
<1>2. /\ p.pending \in Pendings /\ p.queue \in Seq(Entries) /\ p.seen \in Seq(Seqs)
      /\ p.reasm \in Seq(Slots) /\ p.owed \in Acks /\ p.epoch \in Nat
  BY <1>1 DEF Records
<1> QED  BY <1>1, <1>2 DEF Typed

(* One field is replaced.                                                   *)
LEMMA SetPending ==
  ASSUME NEW A, NEW B, NEW p, Good(p, A, B), NEW v \in Pendings,
         v.seq # NoSeq => Entitled(v, A),
         NEW q, q = [p EXCEPT !.pending = v]
  PROVE  /\ Good(q, A, B) /\ q.pending = v /\ q.queue = p.queue /\ q.seen = p.seen
         /\ q.reasm = p.reasm /\ q.owed = p.owed /\ q.epoch = p.epoch
<1>1. p \in Records
  BY DEF Good, Typed
<1>2. /\ q \in Records /\ q.pending = v /\ q.queue = p.queue /\ q.seen = p.seen
      /\ q.reasm = p.reasm /\ q.owed = p.owed /\ q.epoch = p.epoch
  BY <1>1 DEF Records
<1> QED  BY <1>2 DEF Good, Typed, Sends, Hears

LEMMA SetQueue ==
  ASSUME NEW A, NEW B, NEW p, Good(p, A, B), NEW v \in Seq(Entries), Len(v) <= MaxQueue,
         \A i \in DOMAIN v : Entitled(v[i], A),
         NEW q, q = [p EXCEPT !.queue = v]
  PROVE  /\ Good(q, A, B) /\ q.queue = v /\ q.pending = p.pending /\ q.seen = p.seen
         /\ q.reasm = p.reasm /\ q.owed = p.owed /\ q.epoch = p.epoch
<1>1. p \in Records
  BY DEF Good, Typed
<1>2. /\ q \in Records /\ q.pending = p.pending /\ q.queue = v /\ q.seen = p.seen
      /\ q.reasm = p.reasm /\ q.owed = p.owed /\ q.epoch = p.epoch
  BY <1>1 DEF Records
<1> QED  BY <1>2 DEF Good, Typed, Sends, Hears

LEMMA SetSeen ==
  ASSUME NEW A, NEW B, NEW p, Good(p, A, B), NEW v \in Seq(Seqs), Len(v) <= DedupWindow,
         \A i \in DOMAIN v : Knows(v[i], B),
         NEW q, q = [p EXCEPT !.seen = v]
  PROVE  /\ Good(q, A, B) /\ q.seen = v /\ q.pending = p.pending /\ q.queue = p.queue
         /\ q.reasm = p.reasm /\ q.owed = p.owed /\ q.epoch = p.epoch
<1>1. p \in Records
  BY DEF Good, Typed
<1>2. /\ q \in Records /\ q.pending = p.pending /\ q.queue = p.queue /\ q.seen = v
      /\ q.reasm = p.reasm /\ q.owed = p.owed /\ q.epoch = p.epoch
  BY <1>1 DEF Records
<1> QED  BY <1>2 DEF Good, Typed, Sends, Hears

LEMMA SetReasm ==
  ASSUME NEW A, NEW B, NEW p, Good(p, A, B), NEW v \in Seq(Slots), Len(v) <= MaxReasm,
         \A i \in DOMAIN v : Holds(v[i], B), Apart(v),
         NEW q, q = [p EXCEPT !.reasm = v]
  PROVE  /\ Good(q, A, B) /\ q.reasm = v /\ q.pending = p.pending /\ q.queue = p.queue
         /\ q.seen = p.seen /\ q.owed = p.owed /\ q.epoch = p.epoch
<1>1. p \in Records
  BY DEF Good, Typed
<1>2. /\ q \in Records /\ q.pending = p.pending /\ q.queue = p.queue /\ q.seen = p.seen
      /\ q.reasm = v /\ q.owed = p.owed /\ q.epoch = p.epoch
  BY <1>1 DEF Records
<1> QED  BY <1>2 DEF Good, Typed, Sends, Hears

LEMMA SetOwed ==
  ASSUME NEW A, NEW B, NEW p, Good(p, A, B), NEW v \in Acks,
         NEW q, q = [p EXCEPT !.owed = v]
  PROVE  /\ Good(q, A, B) /\ q.owed = v /\ q.pending = p.pending /\ q.queue = p.queue
         /\ q.seen = p.seen /\ q.reasm = p.reasm /\ q.epoch = p.epoch
<1>1. p \in Records
  BY DEF Good, Typed
<1>2. /\ q \in Records /\ q.pending = p.pending /\ q.queue = p.queue /\ q.seen = p.seen
      /\ q.reasm = p.reasm /\ q.owed = v /\ q.epoch = p.epoch
  BY <1>1 DEF Records
<1> QED  BY <1>2 DEF Good, Typed, Sends, Hears

-----------------------------------------------------------------------------
(* Sending.                                                                 *)
LEMMA NothingSound ==
  ASSUME NEW A, NEW B, NEW p, Good(p, A, B)
  PROVE  Sound(Nothing(p), A, B) /\ Nothing(p).peer = p /\ Nothing(p).deliver = NoMsg
         /\ Nothing(p).out = {} /\ Nothing(p).done = {}
BY Limits DEF Nothing, Sound, Carries

LEMMA FragsCarried ==
  ASSUME NEW A, NEW m \in Msgs, NEW s \in Seqs, <<m, s>> \in A, NEW want \in BOOLEAN
  PROVE  /\ Carries(FragsOf(m, s, want), A) /\ FragsOf(m, s, want) # {}
         /\ \A f \in FragsOf(m, s, want) : f.kind = "DATA" /\ f.seq = s /\ f.msg = m
<1>1. ASSUME NEW i \in Frags(m)
      PROVE  Carried(Frag(m, s, i, want), A) /\ Frag(m, s, i, want).kind = "DATA"
             /\ Frag(m, s, i, want).seq = s /\ Frag(m, s, i, want).msg = m
  <2>1. i \in Nat
    BY SizeIs
  <2> QED  BY <2>1 DEF Frag, Carried, Frames
<1>2. 0 \in Frags(m)
  BY SizeIs
<1> QED  BY <1>1, <1>2 DEF Carries, FragsOf

LEMMA RetriesCarried ==
  ASSUME NEW A, NEW m \in Msgs, NEW s \in Seqs, <<m, s>> \in A,
         NEW F \in SUBSET FragsOf(m, s, TRUE)
  PROVE  Carries(Retries(F), A)
<1>1. ASSUME NEW f \in F  PROVE Carried([f EXCEPT !.retry = TRUE], A)
  <2>0. PICK want \in BOOLEAN : want = TRUE
    OBVIOUS
  <2>1. Carried(f, A) /\ f.kind = "DATA"
    <3>1. f \in FragsOf(m, s, want)
      BY <2>0
    <3>2. Carries(FragsOf(m, s, want), A) /\ f.kind = "DATA"
      BY <3>1, FragsCarried
    <3> QED  BY <3>1, <3>2 DEF Carries
  <2>2. f \in [kind : {"DATA"}, msg : Msgs, seq : Seqs, idx : Nat,
               want : BOOLEAN, retry : BOOLEAN, piggy : Seqs \cup {NoSeq}]
    BY <2>1 DEF Carried, Frames
  <2>3. PICK g : g = [f EXCEPT !.retry = TRUE]
    OBVIOUS
  <2>4. /\ g \in [kind : {"DATA"}, msg : Msgs, seq : Seqs, idx : Nat,
                  want : BOOLEAN, retry : BOOLEAN, piggy : Seqs \cup {NoSeq}]
        /\ g.msg = f.msg /\ g.seq = f.seq /\ g.idx = f.idx
    BY <2>2, <2>3
  <2>5. g \in Frames
    BY <2>4 DEF Frames
  <2> QED  BY <2>1, <2>3, <2>4, <2>5 DEF Carried
<1> QED  BY <1>1 DEF Retries, Carries

LEMMA StartSound ==
  ASSUME NEW A, NEW B, NEW p, Good(p, A, B), NEW entry \in Entries, Entitled(entry, A)
  PROVE  /\ Sound(StartPending(p, entry), A, B)
         /\ StartPending(p, entry).peer.owed = p.owed
         /\ StartPending(p, entry).out = FragsOf(entry.msg, entry.seq, TRUE)
<1>1. PICK v : v = [NoPending EXCEPT !.seq = entry.seq, !.msg = entry.msg]
  OBVIOUS
<1>2. entry.seq \in Seqs /\ entry.msg \in Msgs
  BY DEF Entries
<1>3. v \in Pendings /\ v.seq = entry.seq /\ v.msg = entry.msg
  <2>1. v = [seq |-> entry.seq, msg |-> entry.msg, acked |-> {}, attempts |-> 0, armed |-> FALSE]
    BY <1>1 DEF NoPending
  <2>2. 0 \in 0 .. MaxRetries
    BY Limits
  <2>3. v \in [seq : Seqs, msg : Msgs, acked : SUBSET Nat, attempts : 0 .. MaxRetries,
               armed : BOOLEAN]
    BY <1>2, <2>1, <2>2
  <2> QED  BY <2>1, <2>3 DEF Pendings
<1>4. Entitled(v, A)
  BY <1>3 DEF Entitled
<1>5. PICK q : q = [p EXCEPT !.pending = v]
  OBVIOUS
<1>6. Good(q, A, B) /\ q.owed = p.owed
  BY <1>3, <1>4, <1>5, SetPending
<1>7. StartPending(p, entry) = [Nothing(q) EXCEPT !.out = FragsOf(entry.msg, entry.seq, TRUE)]
  BY <1>1, <1>5 DEF StartPending
<1>8. PICK r : r = StartPending(p, entry)
  OBVIOUS
<1>9. /\ r.peer = q /\ r.out = FragsOf(entry.msg, entry.seq, TRUE) /\ r.done = {}
      /\ r.deliver = NoMsg
  BY <1>7, <1>8 DEF Nothing
<1>10. Carries(r.out, A)
  <2>1. PICK m \in Msgs, s \in Seqs : m = entry.msg /\ s = entry.seq
    BY <1>2
  <2>2. PICK want \in BOOLEAN : want = TRUE
    OBVIOUS
  <2>3. <<m, s>> \in A
    BY <2>1 DEF Entitled
  <2>4. Carries(FragsOf(m, s, want), A)
    BY <2>3, FragsCarried
  <2> QED  BY <2>1, <2>2, <2>4, <1>9
<1> QED  BY <1>6, <1>8, <1>9, <1>10, Limits DEF Sound

LEMMA StartNextSound ==
  ASSUME NEW A, NEW B, NEW p, Good(p, A, B)
  PROVE  Sound(StartNext(p), A, B)
<1>1. CASE p.queue = <<>>
  <2>1. NoPending \in Pendings /\ NoPending.seq = NoSeq
    BY DEF Pendings, NoPending
  <2>2. PICK v : v = NoPending
    OBVIOUS
  <2>3. PICK q : q = [p EXCEPT !.pending = v]
    OBVIOUS
  <2>4. Good(q, A, B)
    BY <2>1, <2>2, <2>3, SetPending
  <2>5. StartNext(p) = Nothing(q)
    BY <1>1, <2>2, <2>3 DEF StartNext
  <2> QED  BY <2>4, <2>5, NothingSound
<1>2. CASE p.queue # <<>>
  <2>1. p.queue \in Seq(Entries) /\ Len(p.queue) <= MaxQueue
    BY Fields DEF Good
  <2>2. PICK v, x, w : v = Tail(p.queue) /\ x = Head(p.queue) /\ w = p.queue
    OBVIOUS
  <2>3. /\ v \in Seq(Entries) /\ Len(v) = Len(w) - 1 /\ x \in Entries /\ x = w[1]
        /\ 1 \in DOMAIN w /\ Len(w) \in Nat
        /\ \A i \in DOMAIN v : i + 1 \in DOMAIN w /\ v[i] = w[i + 1]
    BY <1>2, <2>1, <2>2
  <2>4. \A i \in DOMAIN w : Entitled(w[i], A)
    BY <2>2 DEF Good, Sends
  <2>5. Len(v) <= MaxQueue
    BY <2>1, <2>2, <2>3, Limits
  <2>6. PICK q : q = [p EXCEPT !.queue = v]
    OBVIOUS
  <2>65. v \in Seq(Entries) /\ \A i \in DOMAIN v : Entitled(v[i], A)
    BY <2>3, <2>4
  <2>7. Good(q, A, B)
    BY <2>65, <2>5, <2>6, SetQueue
  <2>8. StartNext(p) = StartPending(q, x)
    BY <1>2, <2>2, <2>6 DEF StartNext
  <2>9. Entitled(x, A)
    BY <2>3, <2>4
  <2>10. x \in Entries
    BY <2>3
  <2>11. Sound(StartPending(q, x), A, B)
    BY <2>7, <2>9, <2>10, StartSound
  <2> QED  BY <2>8, <2>11
<1> QED  BY <1>1, <1>2

(* What is in flight.                                                       *)
LEMMA InFlight ==
  ASSUME NEW A, NEW B, NEW p, Good(p, A, B), p.pending.seq # NoSeq
  PROVE  /\ p.pending \in [seq : Seqs, msg : Msgs, acked : SUBSET Nat,
                           attempts : 0 .. MaxRetries, armed : BOOLEAN]
         /\ <<p.pending.msg, p.pending.seq>> \in A
<1>1. p.pending \in Pendings
  BY Fields DEF Good
<1>2. p.pending # NoPending
  BY DEF NoPending
<1> QED  BY <1>1, <1>2 DEF Pendings, Good, Sends, Entitled

LEMMA ApplyAckSound ==
  ASSUME NEW A, NEW B, NEW p, Good(p, A, B), NEW a
  PROVE  Sound(ApplyAck(p, a), A, B) /\ ApplyAck(p, a).deliver = NoMsg
<1> DEFINE q == p.pending
           acked == q.acked \cup (a.bits \cap Frags(q.msg))
           holes == [q EXCEPT !.acked = acked, !.attempts = 0, !.armed = FALSE]
           t == ApplyAck(p, a)
<1>1. CASE q.seq = NoSeq \/ q.seq # a.seq
  <2>1. t = Nothing(p)
    BY <1>1 DEF ApplyAck
  <2> QED  BY <2>1, NothingSound
<1>2. CASE q.seq # NoSeq /\ q.seq = a.seq /\ (a.whole \/ acked = Frags(q.msg))
  <2>1. t = [StartNext(p) EXCEPT !.done = {q.msg}]
    BY <1>2 DEF ApplyAck
  <2>2. q.msg \in Msgs
    BY <1>2, InFlight
  <2>3. PICK r : r = StartNext(p)
    OBVIOUS
  <2>4. Sound(r, A, B)
    BY <2>3, StartNextSound
  <2>5. r.deliver = NoMsg /\ r = [peer |-> r.peer, out |-> r.out, done |-> r.done, deliver |-> r.deliver]
    BY <2>3 DEF StartNext, StartPending, Nothing
  <2> HIDE DEF q
  <2>6. t.peer = r.peer /\ t.out = r.out /\ t.done = {q.msg} /\ t.deliver = NoMsg
    BY <2>1, <2>3, <2>5
  <2> HIDE DEF t
  <2>7. Sound(t, A, B)
    BY <2>2, <2>4, <2>6, Limits DEF Sound
  <2> QED  BY <2>6, <2>7 DEF t
<1>3. CASE q.seq # NoSeq /\ q.seq = a.seq /\ ~ (a.whole \/ acked = Frags(q.msg))
  <2>1. CASE acked = q.acked
    <3>1. t = Nothing(p)
      BY <1>3, <2>1 DEF ApplyAck
    <3> QED  BY <3>1, NothingSound
  <2>2. CASE acked # q.acked
    <3>1. t = [Nothing([p EXCEPT !.pending = holes]) EXCEPT !.out = Retries(Unacked(holes))]
      BY <1>3, <2>2 DEF ApplyAck
    <3>2. /\ q \in [seq : Seqs, msg : Msgs, acked : SUBSET Nat,
                    attempts : 0 .. MaxRetries, armed : BOOLEAN]
          /\ <<q.msg, q.seq>> \in A
      BY <1>3, InFlight
    <3>3. acked \in SUBSET Nat /\ 0 \in 0 .. MaxRetries
      BY <3>2, SizeIs, Limits
    <3> HIDE DEF q, acked
    <3>4. PICK v : v = holes
      OBVIOUS
    <3>5. /\ v \in [seq : Seqs, msg : Msgs, acked : SUBSET Nat,
                    attempts : 0 .. MaxRetries, armed : BOOLEAN]
          /\ v.msg = q.msg /\ v.seq = q.seq
      BY <3>2, <3>3, <3>4
    <3>6. v \in Pendings /\ Entitled(v, A) /\ v.msg \in Msgs /\ v.seq \in Seqs
          /\ <<v.msg, v.seq>> \in A
      BY <3>2, <3>5 DEF Pendings, Entitled
    <3>7. PICK z : z = [p EXCEPT !.pending = v]
      OBVIOUS
    <3>8. Good(z, A, B)
      BY <3>6, <3>7, SetPending
    <3>9. Unacked(v) \in SUBSET FragsOf(v.msg, v.seq, TRUE)
      BY DEF Unacked
    <3>10. Carries(Retries(Unacked(v)), A)
      BY <3>6, <3>9, RetriesCarried
    <3>11. /\ t.peer = z /\ t.out = Retries(Unacked(v)) /\ t.done = {} /\ t.deliver = NoMsg
      BY <3>1, <3>4, <3>7 DEF Nothing
    <3> HIDE DEF t
    <3>12. Sound(t, A, B)
      BY <3>8, <3>10, <3>11, Limits DEF Sound
    <3> QED  BY <3>11, <3>12 DEF t
  <2> QED  BY <2>1, <2>2
<1> QED  BY <1>1, <1>2, <1>3

-----------------------------------------------------------------------------
(* Receiving.                                                               *)
LEMMA NewPeerGood ==
  ASSUME NEW A, NEW B, NEW n \in Nat
  PROVE  Good([NewPeer EXCEPT !.epoch = n], A, B) /\ Good(NewPeer, A, B)
<1>1. NoPending \in Pendings /\ NoAck \in Acks /\ NoPending.seq = NoSeq
  BY DEF Pendings, NoPending, NoAck, Acks, Whole
<1>2. <<>> \in Seq(Entries) /\ <<>> \in Seq(Seqs) /\ <<>> \in Seq(Slots) /\ Len(<<>>) = 0
      /\ DOMAIN <<>> = {}
  OBVIOUS
<1>3. ASSUME NEW k \in Nat, NEW p,
             p = [pending |-> NoPending, queue |-> <<>>, seen |-> <<>>, reasm |-> <<>>,
                  owed |-> NoAck, epoch |-> k]
      PROVE  Good(p, A, B)
  <2>1. p \in Records
    BY <1>1, <1>2, <1>3 DEF Records
  <2>2. Typed(p)
    BY <1>2, <1>3, <2>1, Limits DEF Typed, Apart
  <2>3. Sends(p, A) /\ Hears(p, B)
    BY <1>1, <1>2, <1>3 DEF Sends, Hears
  <2> QED  BY <2>2, <2>3 DEF Good
<1>4. Good(NewPeer, A, B)
  BY <1>3 DEF NewPeer
<1>5. PICK p : p = [NewPeer EXCEPT !.epoch = n]
  OBVIOUS
<1>6. p = [pending |-> NoPending, queue |-> <<>>, seen |-> <<>>, reasm |-> <<>>,
           owed |-> NoAck, epoch |-> n]
  BY <1>5 DEF NewPeer
<1> QED  BY <1>3, <1>4, <1>5, <1>6

LEMMA FreshGood ==
  ASSUME NEW A, NEW B
  PROVE  Good(NewPeer, A, B)
<1>1. PICK n \in Nat : n = 0
  OBVIOUS
<1> QED  BY NewPeerGood

LEMMA NewSessionGood ==
  ASSUME NEW A, NEW B, NEW p, Good(p, A, B), NEW m \in Msgs
  PROVE  Good(NewSession(p, m), A, B)
<1>1. CASE m \in Hellos /\ EpochOf[m] # p.epoch
  <2>1. PICK n \in Nat : n = EpochOf[m]
    BY <1>1, MsgsAssumption
  <2>2. NewSession(p, m) = [NewPeer EXCEPT !.epoch = n]
    BY <1>1, <2>1 DEF NewSession
  <2> QED  BY <2>2, NewPeerGood
<1>2. CASE ~ (m \in Hellos /\ EpochOf[m] # p.epoch)
  BY <1>2 DEF NewSession
<1> QED  BY <1>1, <1>2

LEMMA RememberGood ==
  ASSUME NEW A, NEW B, NEW p, Good(p, A, B), NEW s \in Seqs, Knows(s, B)
  PROVE  Good(Remember(p, s), A, B) /\ Remember(p, s).owed = p.owed
<1>1. PICK c, g : c = p.seen /\ g = Append(c, s)
  OBVIOUS
<1>2. c \in Seq(Seqs) /\ Len(c) <= DedupWindow /\ \A i \in DOMAIN c : Knows(c[i], B)
  BY <1>1, Fields DEF Good, Hears
<1>3. /\ g \in Seq(Seqs) /\ Len(g) = Len(c) + 1 /\ Len(c) \in Nat
      /\ \A i \in 1 .. Len(g) : g[i] \in Seqs /\ Knows(g[i], B)
  BY <1>1, <1>2
<1>4. PICK w \in Nat : w = DedupWindow /\ w >= 1
  BY Limits
<1>5. PICK v : v = IF Len(g) - w > 0 THEN SubSeq(g, Len(g) - w + 1, Len(g)) ELSE g
  OBVIOUS
<1>6. v \in Seq(Seqs) /\ Len(v) <= w /\ \A i \in DOMAIN v : Knows(v[i], B)
  <2>1. CASE Len(g) - w > 0
    <3>0. PICK k \in Nat : k = Len(c)
      BY <1>3
    <3>00. k <= w /\ Len(g) = k + 1
      BY <1>2, <1>3, <1>4, <3>0
    <3>01. k + 1 - w > 0
      BY <2>1, <3>00
    <3>02. k = w
      BY <3>00, <3>01, <1>4
    <3>03. (w + 1) - w + 1 = 2
      OBVIOUS
    <3>1. v = SubSeq(g, 2, Len(g)) /\ Len(g) = w + 1
      BY <1>5, <2>1, <3>00, <3>02, <3>03
    <3>2. v \in Seq(Seqs) /\ Len(v) = Len(g) - 1 /\ \A i \in 1 .. Len(v) : v[i] = g[i + 1]
      BY <1>3, <1>4, <3>1
    <3> QED  BY <1>3, <1>4, <3>1, <3>2
  <2>2. CASE ~ (Len(g) - w > 0)
    BY <1>3, <1>4, <1>5, <2>2
  <2> QED  BY <2>1, <2>2
<1>7. PICK q : q = [p EXCEPT !.seen = v]
  OBVIOUS
<1>8. Remember(p, s) = q
  BY <1>1, <1>4, <1>5, <1>7 DEF Remember
<1>9. Len(v) <= DedupWindow /\ v \in Seq(Seqs) /\ \A i \in DOMAIN v : Knows(v[i], B)
  BY <1>4, <1>6
<1> QED  BY <1>7, <1>8, <1>9, SetSeen

LEMMA OweAckGood ==
  ASSUME NEW A, NEW B, NEW p, Good(p, A, B), NEW a \in Acks, NEW want
  PROVE  Good(OweAck(p, a, want), A, B)
<1>1. PICK q : q = [p EXCEPT !.owed = a]
  OBVIOUS
<1>2. Good(q, A, B)
  BY <1>1, SetOwed
<1> QED  BY <1>1, <1>2 DEF OweAck

LEMMA PartsAre ==
  ASSUME NEW parts \in Parts
  PROVE  /\ 0 \in DOMAIN parts /\ DOMAIN parts \subseteq Nat
         /\ \A k \in DOMAIN parts : parts[k] \in Msgs \cup {NoMsg}
         /\ \A k : \A v \in Msgs \cup {NoMsg} : [parts EXCEPT ![k] = v] \in Parts
<1>1. PICK n \in Nat \ {0} : parts \in [0 .. n - 1 -> Msgs \cup {NoMsg}]
  BY DEF Parts
<1>2. ASSUME NEW k, NEW v \in Msgs \cup {NoMsg}  PROVE [parts EXCEPT ![k] = v] \in Parts
  <2>1. [parts EXCEPT ![k] = v] \in [0 .. n - 1 -> Msgs \cup {NoMsg}]
    BY <1>1
  <2> QED  BY <2>1 DEF Parts
<1>3. /\ 0 \in DOMAIN parts /\ DOMAIN parts \subseteq Nat
      /\ \A k \in DOMAIN parts : parts[k] \in Msgs \cup {NoMsg}
  BY <1>1
<1>4. \A k : \A v \in Msgs \cup {NoMsg} : [parts EXCEPT ![k] = v] \in Parts
  BY <1>2, Zenon
<1> QED  BY <1>3, <1>4, Zenon

LEMMA AcksAre ==
  ASSUME NEW s \in Seqs
  PROVE  Whole(s) \in Acks /\ \A parts \in Parts : Partial(s, parts) \in Acks
<1>1. Whole(s) \in Acks
  BY DEF Whole, Acks
<1>2. ASSUME NEW parts \in Parts  PROVE Partial(s, parts) \in Acks
  BY PartsAre DEF Partial, Acks
<1> QED  BY <1>1, <1>2

(* The reassemblies.                                                        *)
(* No slot of ss but those of rs.                                           *)
Lesser(rs, ss) == \A j \in DOMAIN ss : \E k \in DOMAIN rs : rs[k] = ss[j]

Kept(rs, B) == rs \in Seq(Slots) /\ Apart(rs) /\ \A i \in DOMAIN rs : Holds(rs[i], B)

LEMMA SlotIs ==
  ASSUME NEW rs, NEW s, Reassembles(rs, s)
  PROVE  Slot(rs, s) \in DOMAIN rs /\ rs[Slot(rs, s)].seq = s
BY DEF Reassembles, Slot

LEMMA WithoutKept ==
  ASSUME NEW B, NEW rs, Kept(rs, B), NEW s
  PROVE  /\ Kept(Without(rs, s), B) /\ Len(Without(rs, s)) <= Len(rs)
         /\ Reassembles(rs, s) => Len(Without(rs, s)) = Len(rs) - 1
         /\ ~ Reassembles(Without(rs, s), s) /\ Lesser(rs, Without(rs, s))
<1>1. CASE ~ Reassembles(rs, s)
  BY <1>1 DEF Without, Kept, Lesser
<1>2. CASE Reassembles(rs, s)
  <2>1. PICK n \in Nat : n = Len(rs) /\ DOMAIN rs = 1 .. n /\ rs \in Seq(Slots)
    BY DEF Kept
  <2>2. PICK j \in 1 .. n : j = Slot(rs, s)
    BY <1>2, <2>1, SlotIs
  <2>3. PICK x, y : x = SubSeq(rs, 1, j - 1) /\ y = SubSeq(rs, j + 1, n)
    OBVIOUS
  <2>4. /\ x \in Seq(Slots) /\ Len(x) = j - 1 /\ \A i \in 1 .. Len(x) : x[i] = rs[i]
        /\ y \in Seq(Slots) /\ Len(y) = n - j /\ \A i \in 1 .. Len(y) : y[i] = rs[i + j]
    <3>1. /\ j - 1 \in Int /\ j + 1 \in Int /\ 1 \in Int /\ n \in Int
          /\ \A i \in 1 .. n : rs[i] \in Slots
      BY <2>1, <2>2, ElementOfSeq
    <3>2. /\ x \in Seq(Slots) /\ Len(x) = IF 1 <= j - 1 THEN (j - 1) - 1 + 1 ELSE 0
          /\ \A i \in 1 .. (j - 1) - 1 + 1 : x[i] = rs[1 + i - 1]
      <4>1. \A i \in 1 .. j - 1 : rs[i] \in Slots
        BY <2>1, <2>2, <3>1
      <4> QED  BY <3>1, <4>1, <2>3, SubSeqProperties
    <3>3. /\ y \in Seq(Slots) /\ Len(y) = IF j + 1 <= n THEN n - (j + 1) + 1 ELSE 0
          /\ \A i \in 1 .. n - (j + 1) + 1 : y[i] = rs[j + 1 + i - 1]
      <4>1. \A i \in j + 1 .. n : rs[i] \in Slots
        BY <2>1, <2>2, <3>1
      <4> QED  BY <3>1, <4>1, <2>3, SubSeqProperties
    <3>4. /\ (j - 1) - 1 + 1 = j - 1 /\ n - (j + 1) + 1 = n - j
          /\ ~ (1 <= j - 1) => j - 1 = 0
          /\ ~ (j + 1 <= n) => n - j = 0
          /\ \A i \in Int : 1 + i - 1 = i /\ j + 1 + i - 1 = i + j
      BY <2>1, <2>2
    <3>5. Len(x) = j - 1 /\ Len(y) = n - j
      BY <3>2, <3>3, <3>4
    <3>6. ASSUME NEW i \in 1 .. j - 1  PROVE x[i] = rs[i]
      BY <3>2, <3>4
    <3>7. ASSUME NEW i \in 1 .. n - j  PROVE y[i] = rs[i + j]
      BY <3>3, <3>4
    <3> QED  BY <3>2, <3>3, <3>5, <3>6, <3>7
  <2>5. PICK z : z = x \o y
    OBVIOUS
  <2>6. /\ z \in Seq(Slots) /\ Len(z) = n - 1
        /\ \A i \in 1 .. n - 1 : z[i] = IF i <= j - 1 THEN x[i] ELSE y[i - (j - 1)]
    <3>1. /\ z \in Seq(Slots) /\ Len(z) = Len(x) + Len(y)
          /\ \A i \in 1 .. Len(x) + Len(y) : z[i] = IF i <= Len(x) THEN x[i] ELSE y[i - Len(x)]
      BY <2>4, <2>5, ConcatProperties
    <3>2. Len(x) + Len(y) = n - 1
      BY <2>1, <2>2, <2>4
    <3> QED  BY <3>1, <3>2, <2>4
  <2>7. PICK h : h = [i \in 1 .. n - 1 |-> IF i <= j - 1 THEN i ELSE i + 1]
    OBVIOUS
  <2>8. /\ \A i \in 1 .. n - 1 : h[i] \in 1 .. n /\ h[i] # j
        /\ \A i, k \in 1 .. n - 1 : h[i] = h[k] => i = k
    BY <2>2, <2>7
  <2>9. ASSUME NEW i \in 1 .. n - 1  PROVE z[i] = rs[h[i]]
    <3>1. CASE i <= j - 1
      BY <2>2, <2>4, <2>6, <2>7, <3>1
    <3>2. CASE ~ (i <= j - 1)
      <4>1. i - (j - 1) \in 1 .. Len(y) /\ i - (j - 1) + j = i + 1
        BY <2>2, <2>4, <3>2
      <4> QED  BY <2>4, <2>6, <2>7, <3>2, <4>1
    <3> QED  BY <3>1, <3>2
  <2>10. DOMAIN z = 1 .. n - 1
    BY <2>6
  <2>11. \A i \in DOMAIN z : Holds(z[i], B)
    BY <2>1, <2>8, <2>9, <2>10 DEF Kept
  <2>12. Apart(rs) /\ DOMAIN rs = 1 .. n /\ rs[j].seq = s
    BY <1>2, <2>1, <2>2, SlotIs DEF Kept
  <2>13. Apart(z)
    BY <2>8, <2>9, <2>10, <2>12 DEF Apart
  <2>14. ~ Reassembles(z, s)
    BY <2>8, <2>9, <2>10, <2>12 DEF Apart, Reassembles
  <2>15. Without(rs, s) = z
    BY <1>2, <2>1, <2>2, <2>3, <2>5 DEF Without
  <2>16. n - 1 <= n
    OBVIOUS
  <2>17. Lesser(rs, z)
    BY <2>8, <2>9, <2>10, <2>12 DEF Lesser
  <2> QED  BY <1>2, <2>1, <2>6, <2>11, <2>13, <2>14, <2>15, <2>16, <2>17 DEF Kept
<1> QED  BY <1>1, <1>2

LEMMA AppendKept ==
  ASSUME NEW B, NEW rs, Kept(rs, B), NEW r \in Slots, Holds(r, B),
         ~ Reassembles(rs, r.seq)
  PROVE  /\ Kept(Append(rs, r), B) /\ Len(Append(rs, r)) = Len(rs) + 1
         /\ Reassembles(Append(rs, r), r.seq) /\ Append(rs, r)[Slot(Append(rs, r), r.seq)] = r
<1>0. PICK n \in Nat : n = Len(rs) /\ DOMAIN rs = 1 .. n /\ rs \in Seq(Slots)
  BY DEF Kept
<1>1. PICK z : z = Append(rs, r)
  OBVIOUS
<1>2. /\ z \in Seq(Slots) /\ Len(z) = n + 1 /\ z[n + 1] = r /\ DOMAIN z = 1 .. n + 1
      /\ \A i \in 1 .. n : z[i] = rs[i] /\ i \in DOMAIN rs
  BY <1>0, <1>1, AppendProperties
<1>3. ASSUME NEW i \in DOMAIN z  PROVE Holds(z[i], B)
  <2>1. i \in 1 .. n \/ i = n + 1
    BY <1>2
  <2> QED  BY <1>2, <2>1 DEF Kept
<1>4. n + 1 \in DOMAIN z
  BY <1>2
<1>5. Apart(z)
  <2>1. \A i \in 1 .. n : rs[i].seq # r.seq
    BY <1>0 DEF Reassembles
  <2>2. \A i \in DOMAIN z : i \in 1 .. n \/ i = n + 1
    BY <1>2
  <2> QED  BY <1>0, <1>2, <2>1, <2>2 DEF Kept, Apart
<1>6. Reassembles(z, r.seq)
  BY <1>2, <1>4 DEF Reassembles
<1>7. z[Slot(z, r.seq)] = r
  BY <1>2, <1>4, <1>5, <1>6, SlotIs DEF Apart
<1> QED  BY <1>0, <1>1, <1>2, <1>3, <1>5, <1>6, <1>7 DEF Kept

Data == [kind : {"DATA"}, msg : Msgs, seq : Seqs, idx : Nat,
         want : BOOLEAN, retry : BOOLEAN, piggy : Seqs \cup {NoSeq}]

LEMMA BlankIs ==
  ASSUME NEW B, NEW f \in Data
  PROVE  Blank(f) \in Slots /\ Holds(Blank(f), B) /\ Blank(f).seq = f.seq
<1>1. f.msg \in Msgs /\ f.seq \in Seqs /\ f.want \in BOOLEAN
  BY DEF Data
<1>2. PICK n \in Nat \ {0} : n = Size[f.msg] /\ Frags(f.msg) = 0 .. n - 1
  BY <1>1, SizeIs
<1>3. [i \in Frags(f.msg) |-> NoMsg] \in Parts
  BY <1>2 DEF Parts
<1> QED  BY <1>1, <1>3 DEF Blank, Slots, Holds

(* The slots of ss are those of rs, and one that is r.                      *)
Older(rs, r, ss) == \A j \in DOMAIN ss : ss[j] = r \/ \E k \in DOMAIN rs : rs[k] = ss[j]

LEMMA OlderIs ==
  ASSUME NEW rs, NEW ss \in Seq(Slots), NEW r \in Slots, Lesser(rs, ss)
  PROVE  Older(rs, r, Append(ss, r))
<1>1. PICK z, n : z = Append(ss, r) /\ n = Len(ss)
  OBVIOUS
<1>2. n \in Nat /\ DOMAIN ss = 1 .. n /\ DOMAIN z = 1 .. n + 1
  BY <1>1, AppendProperties
<1>3. z[n + 1] = r /\ \A i \in 1 .. n : z[i] = ss[i]
  BY <1>1, AppendProperties
<1>4. \A i \in DOMAIN z : i = n + 1 \/ i \in DOMAIN ss
  BY <1>2
<1> QED  BY <1>1, <1>2, <1>3, <1>4 DEF Lesser, Older

LEMMA WithSlotKept ==
  ASSUME NEW B, NEW rs, Kept(rs, B), Len(rs) <= MaxReasm, NEW f \in Data
  PROVE  /\ Kept(WithSlot(rs, f), B) /\ Len(WithSlot(rs, f)) <= MaxReasm
         /\ Reassembles(WithSlot(rs, f), f.seq)
         /\ DOMAIN WithSlot(rs, f)[Slot(WithSlot(rs, f), f.seq)].parts = Frags(f.msg)
         /\ Older(rs, Blank(f), WithSlot(rs, f))
<1>1. PICK b : b = Blank(f)
  OBVIOUS
<1>2. b \in Slots /\ Holds(b, B) /\ b.seq = f.seq
  BY <1>1, BlankIs
<1>25. DOMAIN b.parts = Frags(f.msg)
  BY <1>1 DEF Blank
<1>3. PICK w \in Nat : w = MaxReasm /\ w >= 1
  BY Limits
<1>4. PICK n \in Nat : n = Len(rs)
  BY DEF Kept
<1>5. PICK kept : kept = IF Len(rs) >= MaxReasm THEN Tail(rs) ELSE rs
  OBVIOUS
<1>6. /\ Kept(kept, B) /\ Len(kept) + 1 <= MaxReasm
      /\ ~ Reassembles(rs, f.seq) => ~ Reassembles(kept, f.seq)
      /\ Lesser(rs, kept)
  <2>1. CASE n >= w
    <3>1. kept = Tail(rs) /\ rs # <<>> /\ n = w /\ rs \in Seq(Slots) /\ DOMAIN rs = 1 .. n
      BY <1>3, <1>4, <1>5, <2>1 DEF Kept
    <3>2. /\ kept \in Seq(Slots) /\ Len(kept) = n - 1
          /\ \A i \in 1 .. Len(kept) : kept[i] = rs[i + 1]
      BY <1>4, <3>1, HeadTailProperties
    <3>3. \A i \in 1 .. Len(kept) : i + 1 \in DOMAIN rs
      BY <3>1, <3>2
    <3>4. DOMAIN kept = 1 .. Len(kept) /\ Len(kept) + 1 = w
      BY <3>1, <3>2
    <3>5. Apart(kept)
      <4>1. Apart(rs) /\ \A i, j \in 1 .. Len(kept) : i + 1 = j + 1 => i = j
        BY DEF Kept
      <4> QED  BY <3>2, <3>3, <3>4, <4>1 DEF Apart
    <3>6. ~ Reassembles(rs, f.seq) => ~ Reassembles(kept, f.seq)
      BY <3>2, <3>3, <3>4 DEF Reassembles
    <3>7. Lesser(rs, kept)
      BY <3>2, <3>3, <3>4 DEF Lesser
    <3> QED  BY <1>3, <3>2, <3>3, <3>4, <3>5, <3>6, <3>7 DEF Kept
  <2>2. CASE ~ (n >= w)
    BY <1>3, <1>4, <1>5, <2>2 DEF Lesser
  <2> QED  BY <2>1, <2>2
<1>7. CASE ~ Reassembles(rs, f.seq)
  <2>1. WithSlot(rs, f) = Append(kept, b)
    BY <1>1, <1>5, <1>7 DEF WithSlot
  <2>2. /\ Kept(Append(kept, b), B) /\ Len(Append(kept, b)) = Len(kept) + 1
        /\ Reassembles(Append(kept, b), b.seq)
        /\ Append(kept, b)[Slot(Append(kept, b), b.seq)] = b
    BY <1>2, <1>6, <1>7, AppendKept
  <2>3. Older(rs, b, Append(kept, b))
    BY <1>2, <1>6, OlderIs DEF Kept
  <2> QED  BY <1>1, <1>2, <1>25, <1>6, <2>1, <2>2, <2>3
<1>8. CASE Reassembles(rs, f.seq) /\ DOMAIN rs[Slot(rs, f.seq)].parts # Frags(f.msg)
  <2>1. PICK v : v = Without(rs, f.seq)
    OBVIOUS
  <2>2. Kept(v, B) /\ Len(v) = n - 1 /\ ~ Reassembles(v, f.seq) /\ Lesser(rs, v)
    BY <1>4, <1>8, <2>1, WithoutKept
  <2>3. WithSlot(rs, f) = Append(v, b)
    BY <1>1, <1>8, <2>1 DEF WithSlot
  <2>4. /\ Kept(Append(v, b), B) /\ Len(Append(v, b)) = Len(v) + 1
        /\ Reassembles(Append(v, b), b.seq) /\ Append(v, b)[Slot(Append(v, b), b.seq)] = b
    BY <1>2, <2>2, AppendKept
  <2>5. Older(rs, b, Append(v, b))
    BY <1>2, <2>2, OlderIs DEF Kept
  <2> QED  BY <1>1, <1>2, <1>25, <1>3, <1>4, <2>2, <2>3, <2>4, <2>5
<1>9. CASE Reassembles(rs, f.seq) /\ DOMAIN rs[Slot(rs, f.seq)].parts = Frags(f.msg)
  <2>1. WithSlot(rs, f) = rs
    BY <1>9 DEF WithSlot
  <2> QED  BY <1>9, <2>1 DEF Older
<1> QED  BY <1>7, <1>8, <1>9

(* The reassembly f belongs to is the only one that f changes.               *)
StashedIn(ss, f, rs) ==
  LET old == ss[Slot(ss, f.seq)]
      new == rs[Slot(rs, f.seq)]
  IN Older(ss, new, rs) /\ new.seq = f.seq /\ new.parts = [old.parts EXCEPT ![f.idx] = f.msg]

LEMMA StashKept ==
  ASSUME NEW B, NEW rs, Kept(rs, B), Len(rs) <= MaxReasm, NEW f \in Data,
         <<f.msg, f.seq>> \in B
  PROVE  /\ Kept(Stash(rs, f), B) /\ Len(Stash(rs, f)) <= MaxReasm
         /\ Reassembles(Stash(rs, f), f.seq)
         /\ LET parts == Stash(rs, f)[Slot(Stash(rs, f), f.seq)].parts
            IN DOMAIN parts = Frags(f.msg) /\ (f.idx \in Frags(f.msg) => parts[f.idx] = f.msg)
         /\ StashedIn(WithSlot(rs, f), f, Stash(rs, f))
<1>1. PICK ss : ss = WithSlot(rs, f)
  OBVIOUS
<1>2. /\ Kept(ss, B) /\ Len(ss) <= MaxReasm /\ Reassembles(ss, f.seq)
      /\ DOMAIN ss[Slot(ss, f.seq)].parts = Frags(f.msg)
  BY <1>1, WithSlotKept
<1>3. PICK n \in Nat : n = Len(ss) /\ DOMAIN ss = 1 .. n /\ ss \in Seq(Slots)
                       /\ ss \in [1 .. n -> Slots]
  BY <1>2 DEF Kept
<1>4. PICK j \in 1 .. n : j = Slot(ss, f.seq) /\ ss[j].seq = f.seq
  BY <1>2, <1>3, SlotIs
<1>5. f.msg \in Msgs \cup {NoMsg} /\ f.msg \in Msgs /\ f.want \in BOOLEAN /\ f.idx \in Nat
  BY DEF Data
<1>6. PICK r : r = ss[j]
  OBVIOUS
<1>7. r \in Slots /\ Holds(r, B) /\ r.seq = f.seq
  BY <1>2, <1>3, <1>4, <1>6 DEF Kept
<1>8. PICK c, w, i, m : c = r.parts /\ w = (r.want \/ f.want) /\ i = f.idx /\ m = f.msg
  OBVIOUS
<1>9. c \in Parts /\ w \in BOOLEAN
  BY <1>5, <1>7, <1>8 DEF Slots
<1>10. PICK d : d = [c EXCEPT ![i] = m]
  OBVIOUS
<1>11. d \in Parts
  BY <1>5, <1>8, <1>9, <1>10, PartsAre
<1>12. PICK z : z = [r EXCEPT !.parts = d, !.want = w]
  OBVIOUS
<1>13. z \in Slots /\ z.seq = f.seq /\ z.parts = d
  BY <1>7, <1>9, <1>11, <1>12 DEF Slots
<1>14. Holds(z, B)
  <2>1. ASSUME NEW k \in DOMAIN d, d[k] # NoMsg  PROVE <<d[k], f.seq>> \in B
    <3>1. DOMAIN d = DOMAIN c /\ d[k] = IF k = i THEN m ELSE c[k]
      BY <1>10, <2>1
    <3>2. CASE k = i
      BY <1>8, <3>1, <3>2
    <3>3. CASE k # i
      BY <1>7, <1>8, <2>1, <3>1, <3>3 DEF Holds
    <3> QED  BY <3>2, <3>3
  <2> QED  BY <1>13, <2>1 DEF Holds
<1>15. PICK q : q = [ss EXCEPT ![j] = z]
  OBVIOUS
<1>16. Stash(rs, f) = q
  <2>1. Stash(rs, f) = [ss EXCEPT ![j].parts[i] = m, ![j].want = @ \/ f.want]
    BY <1>1, <1>4, <1>8 DEF Stash
  <2>2. @ = [ss EXCEPT ![j] = [[r EXCEPT !.parts = [r.parts EXCEPT ![i] = m]]
                                  EXCEPT !.want = r.want \/ f.want]]
    BY <1>3, <1>6, <1>7 DEF Slots
  <2> QED  BY <2>1, <2>2, <1>8, <1>10, <1>12, <1>15
<1>17. q \in [1 .. n -> Slots] /\ q[j] = z /\ \A k \in 1 .. n : k # j => q[k] = ss[k]
  BY <1>3, <1>13, <1>15
<1>18. q \in Seq(Slots) /\ Len(q) = n
  BY <1>17
<1>19. ASSUME NEW k \in DOMAIN q  PROVE Holds(q[k], B)
  <2>1. k \in 1 .. n
    BY <1>17
  <2>2. CASE k = j
    BY <1>14, <1>17, <2>2
  <2>3. CASE k # j
    BY <1>2, <1>3, <1>17, <2>1, <2>3 DEF Kept
  <2> QED  BY <2>2, <2>3
<1>20. Apart(q)
  <2>1. \A k \in 1 .. n : q[k].seq = ss[k].seq
    BY <1>4, <1>13, <1>17
  <2>2. DOMAIN q = 1 .. n /\ DOMAIN ss = 1 .. n /\ Apart(ss)
    BY <1>2, <1>3, <1>17 DEF Kept
  <2> QED  BY <2>1, <2>2 DEF Apart
<1>21. DOMAIN q = 1 .. n /\ q[j].seq = f.seq
  BY <1>13, <1>17
<1>22. Reassembles(q, f.seq)
  BY <1>21 DEF Reassembles
<1>23. Slot(q, f.seq) = j
  BY <1>20, <1>21, <1>22, SlotIs DEF Apart
<1>24. DOMAIN d = Frags(f.msg) /\ (i \in Frags(f.msg) => d[i] = m)
  BY <1>2, <1>4, <1>6, <1>8, <1>10
<1>25. q[j].parts = d
  BY <1>13, <1>17
<1>26. Kept(q, B) /\ Len(q) <= MaxReasm
  BY <1>2, <1>3, <1>18, <1>19, <1>20 DEF Kept
<1>27. Older(ss, z, q)
  BY <1>3, <1>17 DEF Older
<1>28. StashedIn(ss, f, q)
  BY <1>4, <1>6, <1>8, <1>10, <1>13, <1>17, <1>23, <1>27 DEF StashedIn
<1> QED  BY <1>1, <1>8, <1>16, <1>22, <1>23, <1>24, <1>25, <1>26, <1>28

LEMMA JoinedIs ==
  ASSUME NEW B, NEW r \in Slots, Holds(r, B), \A i \in DOMAIN r.parts : r.parts[i] # NoMsg
  PROVE  /\ Joined(r.parts) \in Msgs \cup {Garbled}
         /\ Single(B) => Joined(r.parts) # Garbled
         /\ Knows(r.seq, B)
<1>1. PICK c, s : c = r.parts /\ s = r.seq
  OBVIOUS
<1>2. c \in Parts /\ s \in Seqs
  BY <1>1 DEF Slots
<1>3. /\ 0 \in DOMAIN c /\ \A k \in DOMAIN c : c[k] \in Msgs
      /\ \A k \in DOMAIN c : <<c[k], s>> \in B
  BY <1>1, <1>2, PartsAre DEF Holds
<1>4. ASSUME Single(B)  PROVE \A i \in DOMAIN c : c[i] = c[0]
  BY <1>2, <1>3, <1>4 DEF Single
<1> QED  BY <1>1, <1>3, <1>4, Limits DEF Joined, Knows

LEMMA ReassembleSound ==
  ASSUME NEW A, NEW B, NEW p, Good(p, A, B), NEW f \in Data, <<f.msg, f.seq>> \in B
  PROVE  Sound(Reassemble(p, f), A, B)
<1>1. PICK rs : rs = Stash(p.reasm, f)
  OBVIOUS
<1>2. Kept(p.reasm, B) /\ Len(p.reasm) <= MaxReasm
  BY Fields DEF Good, Hears, Kept
<1>3. Kept(rs, B) /\ Len(rs) <= MaxReasm /\ Reassembles(rs, f.seq)
  BY <1>1, <1>2, StashKept
<1>4. PICK r : r = rs[Slot(rs, f.seq)]
  OBVIOUS
<1>5. r \in Slots /\ Holds(r, B) /\ r.seq = f.seq /\ r.parts \in Parts
  <2>1. r \in Slots /\ Holds(r, B) /\ r.seq = f.seq
    BY <1>3, <1>4, SlotIs DEF Kept
  <2> QED  BY <2>1 DEF Slots
<1>6. PICK s : s = f.seq
  OBVIOUS
<1>7. s \in Seqs
  BY <1>6 DEF Data
<1>8. CASE ~ (\A i \in DOMAIN r.parts : r.parts[i] # NoMsg)
  <2>1. PICK kept : kept = [p EXCEPT !.reasm = rs]
    OBVIOUS
  <2>2. Good(kept, A, B)
    BY <1>3, <2>1, SetReasm DEF Kept
  <2>3. PICK a, want : a = Partial(s, r.parts) /\ want = (f.want /\ f.retry)
    OBVIOUS
  <2>4. a \in Acks
    BY <1>5, <1>7, <2>3, AcksAre
  <2>5. PICK q : q = OweAck(kept, a, want)
    OBVIOUS
  <2>6. Good(q, A, B)
    BY <2>2, <2>4, <2>5, OweAckGood
  <2>7. Reassemble(p, f) = Nothing(q)
    BY <1>1, <1>4, <1>6, <1>8, <2>1, <2>3, <2>5 DEF Reassemble
  <2> QED  BY <2>6, <2>7, NothingSound
<1>9. CASE \A i \in DOMAIN r.parts : r.parts[i] # NoMsg
  <2>1. /\ Joined(r.parts) \in Msgs \cup {Garbled}
        /\ Single(B) => Joined(r.parts) # Garbled
        /\ Knows(s, B)
    BY <1>5, <1>6, <1>9, JoinedIs
  <2>2. PICK x, y : x = Remember(p, s) /\ y = Without(rs, s)
    OBVIOUS
  <2>3. Good(x, A, B)
    BY <1>7, <2>1, <2>2, RememberGood
  <2>4. Kept(y, B) /\ Len(y) <= MaxReasm
    <3>1. Kept(y, B) /\ Len(y) <= Len(rs)
      BY <1>3, <2>2, WithoutKept
    <3>2. Len(y) \in Nat /\ Len(rs) \in Nat
      BY <1>3, <3>1 DEF Kept
    <3> QED  BY <1>3, <3>1, <3>2, Limits
  <2>5. PICK whole : whole = [x EXCEPT !.reasm = y]
    OBVIOUS
  <2>6. Good(whole, A, B)
    BY <2>3, <2>4, <2>5, SetReasm DEF Kept
  <2>7. PICK a, want : a = Whole(s) /\ want = r.want
    OBVIOUS
  <2>8. a \in Acks
    BY <1>7, <2>7, AcksAre
  <2>9. PICK q : q = OweAck(whole, a, want)
    OBVIOUS
  <2>10. Good(q, A, B)
    BY <2>6, <2>8, <2>9, OweAckGood
  <2>11. PICK v : v = Reassemble(p, f)
    OBVIOUS
  <2>12. v = [Nothing(q) EXCEPT !.deliver = Joined(r.parts)]
    BY <1>1, <1>4, <1>6, <1>9, <2>2, <2>5, <2>7, <2>9, <2>11 DEF Reassemble
  <2>13. v.peer = q /\ v.out = {} /\ v.done = {} /\ v.deliver = Joined(r.parts)
    BY <2>12 DEF Nothing
  <2> QED  BY <2>1, <2>10, <2>11, <2>13 DEF Sound, Carries
<1> QED  BY <1>8, <1>9

LEMMA ReceiveDataSound ==
  ASSUME NEW A, NEW B, NEW p, Good(p, A, B), NEW f \in Data, <<f.msg, f.seq>> \in B
  PROVE  Sound(ReceiveData(p, f), A, B)
<1>1. PICK s, m, want : s = f.seq /\ m = f.msg /\ want = f.want
  OBVIOUS
<1>2. s \in Seqs /\ m \in Msgs /\ <<m, s>> \in B /\ Knows(s, B)
  BY <1>1 DEF Data, Knows
<1>3. PICK a : a = Whole(s)
  OBVIOUS
<1>4. a \in Acks
  BY <1>2, <1>3, AcksAre
<1>5. PICK q : q = OweAck(p, a, want)
  OBVIOUS
<1>6. Good(q, A, B)
  BY <1>4, <1>5, OweAckGood
<1>7. PICK v : v = ReceiveData(p, f)
  OBVIOUS
<1>8. CASE Remembered(p, s)
  <2>1. PICK d : d = IF m \in Hellos THEN m ELSE NoMsg
    OBVIOUS
  <2>2. v = [Nothing(q) EXCEPT !.deliver = d]
    BY <1>1, <1>3, <1>5, <1>7, <1>8, <2>1 DEF ReceiveData
  <2>3. v.peer = q /\ v.out = {} /\ v.done = {} /\ v.deliver = d
    BY <2>2 DEF Nothing
  <2>4. d \in Msgs \cup {NoMsg}
    BY <1>2, <2>1
  <2> QED  BY <1>6, <1>7, <2>3, <2>4, Limits DEF Sound, Carries
<1>9. CASE ~ Remembered(p, s) /\ Size[m] = 1
  <2>1. PICK x : x = Remember(q, s)
    OBVIOUS
  <2>2. Good(x, A, B)
    BY <1>2, <1>6, <2>1, RememberGood
  <2>3. v = [Nothing(x) EXCEPT !.deliver = m]
    BY <1>1, <1>3, <1>5, <1>7, <1>9, <2>1 DEF ReceiveData
  <2>4. v.peer = x /\ v.out = {} /\ v.done = {} /\ v.deliver = m
    BY <2>3 DEF Nothing
  <2> QED  BY <1>2, <1>7, <2>2, <2>4, Limits DEF Sound, Carries
<1>10. CASE ~ Remembered(p, s) /\ Size[m] # 1
  <2>1. v = Reassemble(p, f)
    BY <1>1, <1>7, <1>10 DEF ReceiveData
  <2> QED  BY <1>7, <2>1, ReassembleSound
<1> QED  BY <1>8, <1>9, <1>10

(* A frame that starts a new session finds nothing of the old one.          *)
LEMMA OnDataSound ==
  ASSUME NEW A, NEW B, NEW p, NEW f \in Data, Good(NewSession(p, f.msg), A, B),
         <<f.msg, f.seq>> \in B
  PROVE  Sound(OnReceive(p, f), A, B)
<1>1. f.kind = "DATA"
  BY DEF Data
<1>2. PICK fresh : fresh = NewSession(p, f.msg)
  OBVIOUS
<1>3. PICK acked : acked = IF f.piggy = NoSeq THEN Nothing(fresh)
                           ELSE ApplyAck(fresh, Whole(f.piggy))
  OBVIOUS
<1>4. Sound(acked, A, B)
  BY <1>2, <1>3, NothingSound, ApplyAckSound
<1>5. PICK x : x = acked.peer
  OBVIOUS
<1>6. Good(x, A, B)
  BY <1>4, <1>5 DEF Sound
<1>7. PICK data : data = ReceiveData(x, f)
  OBVIOUS
<1>8. Sound(data, A, B)
  BY <1>6, <1>7, ReceiveDataSound
<1>9. PICK v : v = OnReceive(p, f)
  OBVIOUS
<1>10. v = [data EXCEPT !.out = acked.out, !.done = acked.done]
  BY <1>1, <1>2, <1>3, <1>5, <1>7, <1>9 DEF OnReceive
<1>11. data = [peer |-> data.peer, out |-> data.out, done |-> data.done, deliver |-> data.deliver]
  BY <1>7 DEF ReceiveData, Reassemble, Nothing
<1>12. /\ v.peer = data.peer /\ v.deliver = data.deliver
       /\ v.out = acked.out /\ v.done = acked.done
  BY <1>10, <1>11
<1> QED  BY <1>4, <1>8, <1>9, <1>12 DEF Sound

LEMMA OnReceiveSound ==
  ASSUME NEW A, NEW B, NEW p, Good(p, A, B), NEW f, Carried(f, B)
  PROVE  Sound(OnReceive(p, f), A, B)
<1>1. f \in Frames
  BY DEF Carried
<1>2. CASE f.kind = "ACK"
  BY <1>2, ApplyAckSound DEF OnReceive
<1>3. CASE f.kind # "ACK"
  <2>1. f \in Data /\ f.kind = "DATA"
    BY <1>1, <1>3 DEF Frames, Data
  <2>2. <<f.msg, f.seq>> \in B /\ f.msg \in Msgs
    BY <2>1 DEF Carried, Data
  <2>3. PICK m \in Msgs : m = f.msg
    BY <2>2
  <2>4. Good(NewSession(p, f.msg), A, B)
    BY <2>3, NewSessionGood
  <2> QED  BY <2>1, <2>2, <2>4, OnDataSound
<1> QED  BY <1>2, <1>3

-----------------------------------------------------------------------------
(* What an end sends of its own accord.                                     *)
LEMMA AckCarried ==
  ASSUME NEW A, NEW a \in Acks, a.seq # NoSeq
  PROVE  Carried(AckFrame(a), A)
<1>1. a.seq \in Seqs /\ a.whole \in BOOLEAN /\ a.bits \in SUBSET Nat
  BY DEF Acks
<1>2. PICK s, w, b : s = a.seq /\ w = a.whole /\ b = a.bits
  OBVIOUS
<1>3. [kind |-> "ACK", seq |-> s, whole |-> w, bits |-> b] \in Frames
  BY <1>1, <1>2 DEF Frames
<1> QED  BY <1>2, <1>3 DEF AckFrame, Carried

LEMMA DrainAcksSound ==
  ASSUME NEW A, NEW B, NEW p, Good(p, A, B)
  PROVE  Sound(DrainAcks(p), A, B)
<1>1. PICK a, q, v : a = NoAck /\ q = [p EXCEPT !.owed = a] /\ v = DrainAcks(p)
  OBVIOUS
<1>2. a \in Acks
  BY <1>1 DEF NoAck, Acks, Whole
<1>3. Good(q, A, B)
  BY <1>1, <1>2, SetOwed
<1>4. PICK F : F = IF p.owed.seq = NoSeq THEN {} ELSE {AckFrame(p.owed)}
  OBVIOUS
<1>5. Carries(F, A)
  <2>1. p.owed \in Acks
    BY Fields DEF Good
  <2>2. PICK b : b = p.owed
    OBVIOUS
  <2>3. b.seq # NoSeq => Carried(AckFrame(b), A)
    BY <2>1, <2>2, AckCarried
  <2> QED  BY <1>4, <2>2, <2>3 DEF Carries
<1>6. v.peer = q /\ v.out = F /\ v.done = {} /\ v.deliver = NoMsg
  BY <1>1, <1>4 DEF DrainAcks, Nothing
<1> QED  BY <1>1, <1>3, <1>5, <1>6, Limits DEF Sound

LEMMA SettledSound ==
  ASSUME NEW A, NEW B, NEW p, Good(p, A, B), NEW e
  PROVE  Sound(Settled(e, p), A, B)
BY DrainAcksSound, NothingSound DEF Settled

LEMMA EnqueueSound ==
  ASSUME NEW A, NEW B, NEW p, Good(p, A, B), NEW m \in Msgs, NEW s \in Seqs, <<m, s>> \in A
  PROVE  Sound(Enqueue(p, m, s), A, B)
<1>1. PICK entry, v : entry = [seq |-> s, msg |-> m] /\ v = Enqueue(p, m, s)
  OBVIOUS
<1>2. entry \in Entries /\ Entitled(entry, A) /\ entry.msg = m /\ entry.seq = s
  BY <1>1 DEF Entries, Entitled
<1>3. PICK k, carries : k = p.owed.seq /\ carries = (p.owed.seq # NoSeq /\ p.owed.whole)
  OBVIOUS
<1>4. p.owed \in Acks /\ p.owed.seq \in Seqs \cup {NoSeq}
  BY Fields DEF Good, Acks
<1>5. CASE Idle(p)
  <2>1. PICK a, z : a = NoAck /\ z = [p EXCEPT !.owed = a]
    OBVIOUS
  <2>2. a \in Acks
    BY <2>1 DEF NoAck, Acks, Whole
  <2>3. Good(z, A, B)
    BY <2>1, <2>2, SetOwed
  <2>4. PICK x : x = IF carries THEN z ELSE p
    OBVIOUS
  <2>5. Good(x, A, B)
    BY <2>3, <2>4
  <2>6. PICK started : started = StartPending(x, entry)
    OBVIOUS
  <2>7. Sound(started, A, B) /\ started.out = FragsOf(entry.msg, entry.seq, TRUE)
    BY <1>2, <2>5, <2>6, StartSound
  <2>8. PICK R : R = {IF f.idx = 0 /\ carries THEN [f EXCEPT !.piggy = k] ELSE f : f \in started.out}
    OBVIOUS
  <2>9. Carries(R, A)
    <3>1. ASSUME NEW f \in started.out  PROVE Carried(f, A) /\ f.kind = "DATA"
      <4>1. PICK want \in BOOLEAN : want = TRUE
        OBVIOUS
      <4>2. f \in FragsOf(m, s, want)
        BY <1>2, <2>7, <4>1
      <4>3. f.kind = "DATA"
        BY <4>2, FragsCarried
      <4> QED  BY <2>7, <4>3 DEF Sound, Carries
    <3>2. ASSUME NEW f \in started.out, carries  PROVE Carried([f EXCEPT !.piggy = k], A)
      <4>1. f \in Data /\ <<f.msg, f.seq>> \in A /\ f.idx \in Frags(f.msg)
        BY <3>1 DEF Carried, Frames, Data
      <4>2. k \in Seqs \cup {NoSeq}
        BY <1>3, <1>4
      <4>3. PICK g : g = [f EXCEPT !.piggy = k]
        OBVIOUS
      <4>4. g \in Data /\ g.msg = f.msg /\ g.seq = f.seq /\ g.idx = f.idx
        BY <4>1, <4>2, <4>3 DEF Data
      <4> QED  BY <4>1, <4>3, <4>4 DEF Carried, Data, Frames
    <3> QED  BY <2>8, <3>1, <3>2 DEF Carries
  <2>10. v = [started EXCEPT !.out = R]
    BY <1>1, <1>3, <1>5, <2>1, <2>4, <2>6, <2>8 DEF Enqueue
  <2>11. started = [peer |-> started.peer, out |-> started.out, done |-> started.done,
                    deliver |-> started.deliver]
    BY <2>6 DEF StartPending, Nothing
  <2>12. v.peer = started.peer /\ v.out = R /\ v.done = started.done /\ v.deliver = started.deliver
    BY <2>10, <2>11
  <2> QED  BY <1>1, <2>7, <2>9, <2>12 DEF Sound
<1>6. CASE ~ Idle(p) /\ Len(p.queue) < MaxQueue
  <2>0. PICK n \in Nat : n = MaxQueue
    BY Limits
  <2>1. PICK w, x : w = p.queue /\ x = Append(w, entry)
    OBVIOUS
  <2>2. w \in Seq(Entries) /\ \A i \in DOMAIN w : Entitled(w[i], A)
    BY <2>1, Fields DEF Good, Sends
  <2>3. PICK l \in Nat : l = Len(w) /\ DOMAIN w = 1 .. l
    BY <2>2
  <2>4. /\ x \in Seq(Entries) /\ Len(x) = l + 1 /\ DOMAIN x = 1 .. l + 1
        /\ x[l + 1] = entry /\ \A i \in 1 .. l : x[i] = w[i]
    BY <1>2, <2>1, <2>2, <2>3, AppendProperties
  <2>5. ASSUME NEW i \in DOMAIN x  PROVE Entitled(x[i], A)
    <3>1. i \in 1 .. l \/ i = l + 1
      BY <2>4
    <3> QED  BY <1>2, <2>2, <2>3, <2>4, <3>1
  <2>6. Len(x) <= MaxQueue
    BY <1>6, <2>0, <2>1, <2>3, <2>4
  <2>7. PICK q : q = [p EXCEPT !.queue = x]
    OBVIOUS
  <2>8. Good(q, A, B)
    BY <2>4, <2>5, <2>6, <2>7, SetQueue
  <2>9. v = Nothing(q)
    BY <1>1, <1>6, <2>1, <2>7 DEF Enqueue
  <2> QED  BY <1>1, <2>8, <2>9, NothingSound
<1>7. CASE ~ Idle(p) /\ ~ (Len(p.queue) < MaxQueue)
  <2>1. v = Nothing(p)
    BY <1>1, <1>7 DEF Enqueue
  <2> QED  BY <1>1, <2>1, NothingSound
<1> QED  BY <1>5, <1>6, <1>7

LEMMA OnKeyedGood ==
  ASSUME NEW A, NEW B, NEW p, Good(p, A, B), NEW ks \in SUBSET Seqs
  PROVE  Good(OnKeyed(p, ks), A, B)
<1>1. CASE p.pending.seq \in ks
  <2>1. p.pending.seq # NoSeq
    BY <1>1, Limits
  <2>2. /\ p.pending \in [seq : Seqs, msg : Msgs, acked : SUBSET Nat,
                          attempts : 0 .. MaxRetries, armed : BOOLEAN]
        /\ <<p.pending.msg, p.pending.seq>> \in A
    BY <2>1, InFlight
  <2>3. PICK v : v = [p.pending EXCEPT !.armed = TRUE]
    OBVIOUS
  <2>4. /\ v \in [seq : Seqs, msg : Msgs, acked : SUBSET Nat,
                  attempts : 0 .. MaxRetries, armed : BOOLEAN]
        /\ v.msg = p.pending.msg /\ v.seq = p.pending.seq
    BY <2>2, <2>3
  <2>5. v \in Pendings /\ Entitled(v, A)
    BY <2>2, <2>4 DEF Pendings, Entitled
  <2>6. PICK q : q = [p EXCEPT !.pending = v]
    OBVIOUS
  <2>7. Good(q, A, B)
    BY <2>5, <2>6, SetPending
  <2>8. OnKeyed(p, ks) = q
    BY <1>1, <2>3, <2>6 DEF OnKeyed
  <2> QED  BY <2>7, <2>8
<1>2. CASE ~ (p.pending.seq \in ks)
  BY <1>2 DEF OnKeyed
<1> QED  BY <1>1, <1>2

LEMMA ExpireReasmSound ==
  ASSUME NEW A, NEW B, NEW p, Good(p, A, B), NEW n \in 0 .. Len(p.reasm)
  PROVE  Sound(ExpireReasm(p, n), A, B)
<1>1. PICK rs : rs = p.reasm
  OBVIOUS
<1>2. rs \in Seq(Slots) /\ Len(rs) <= MaxReasm /\ \A i \in DOMAIN rs : Holds(rs[i], B)
  BY <1>1, Fields DEF Good, Hears
<1>3. PICK l \in Nat : l = Len(rs) /\ DOMAIN rs = 1 .. l
  BY <1>2
<1>4. n \in 0 .. l
  BY <1>1, <1>3
<1>5. PICK y : y = SubSeq(rs, n + 1, l)
  OBVIOUS
<1>6. /\ y \in Seq(Slots) /\ Len(y) = IF n + 1 <= l THEN l - (n + 1) + 1 ELSE 0
      /\ \A i \in 1 .. l - (n + 1) + 1 : y[i] = rs[n + 1 + i - 1]
  <2>1. n + 1 \in Int /\ l \in Int
    BY <1>4
  <2>2. ASSUME NEW i \in n + 1 .. l  PROVE rs[i] \in Slots
    <3>1. i \in 1 .. Len(rs)
      BY <1>3, <1>4
    <3> QED  BY <1>2, <3>1, ElementOfSeq
  <2> QED  BY <1>5, <2>1, <2>2, SubSeqProperties
<1>7. Len(y) = l - n
  BY <1>4, <1>6
<1>8. ASSUME NEW i \in DOMAIN y  PROVE Holds(y[i], B)
  <2>1. i \in 1 .. l - n
    BY <1>6, <1>7
  <2>2. i \in 1 .. l - (n + 1) + 1 /\ n + 1 + i - 1 \in 1 .. l
    BY <1>4, <2>1
  <2> QED  BY <1>2, <1>3, <1>6, <2>2
<1>9. Len(y) <= MaxReasm
  BY <1>2, <1>3, <1>4, <1>7, Limits
<1>10. PICK q : q = [p EXCEPT !.reasm = y]
  OBVIOUS
<1>11. Good(q, A, B)
  <2>1. DOMAIN y = 1 .. l - n /\ \A i \in 1 .. l - n : y[i] = rs[i + n] /\ i + n \in 1 .. l
    <3>1. l - (n + 1) + 1 = l - n /\ \A i \in 1 .. l - n : n + 1 + i - 1 = i + n /\ i + n \in 1 .. l
      BY <1>4
    <3> QED  BY <1>6, <1>7, <3>1
  <2>2. Apart(rs) /\ \A i, j \in 1 .. l - n : i + n = j + n => i = j
    BY <1>1, <1>4, Fields DEF Good
  <2>3. Apart(y)
    <3>1. ASSUME NEW i \in 1 .. l - n, NEW j \in 1 .. l - n, y[i].seq = y[j].seq  PROVE i = j
      <4>1. rs[i + n].seq = rs[j + n].seq /\ i + n \in DOMAIN rs /\ j + n \in DOMAIN rs
        BY <1>3, <2>1, <3>1
      <4>2. i + n = j + n
        BY <2>2, <4>1 DEF Apart
      <4> QED  BY <2>2, <4>2
    <3> QED  BY <2>1, <3>1 DEF Apart
  <2> QED  BY <1>6, <1>8, <1>9, <1>10, <2>3, SetReasm
<1>12. PICK F : F = {AckFrame(Partial(rs[i].seq, rs[i].parts)) : i \in {j \in 1 .. n : rs[j].want}}
  OBVIOUS
<1>13. Carries(F, A)
  <2>1. ASSUME NEW i \in 1 .. n  PROVE Carried(AckFrame(Partial(rs[i].seq, rs[i].parts)), A)
    <3>1. i \in 1 .. Len(rs)
      BY <1>3, <1>4
    <3>2. PICK s, c : s = rs[i].seq /\ c = rs[i].parts
      OBVIOUS
    <3>25. rs[i] \in Slots
      BY <1>2, <3>1, ElementOfSeq
    <3>3. s \in Seqs /\ c \in Parts
      BY <3>2, <3>25 DEF Slots
    <3>4. PICK a : a = Partial(s, c)
      OBVIOUS
    <3>5. a \in Acks /\ a.seq # NoSeq
      BY <3>3, <3>4, AcksAre, Limits DEF Partial
    <3>6. Carried(AckFrame(a), A)
      BY <3>5, AckCarried
    <3> QED  BY <3>2, <3>4, <3>6
  <2> QED  BY <1>12, <2>1 DEF Carries
<1>14. PICK v : v = ExpireReasm(p, n)
  OBVIOUS
<1>15. v.peer = q /\ v.out = F /\ v.done = {} /\ v.deliver = NoMsg
  BY <1>1, <1>3, <1>5, <1>10, <1>12, <1>14 DEF ExpireReasm, Nothing
<1> QED  BY <1>11, <1>13, <1>14, <1>15, Limits DEF Sound

LEMMA TimeoutSound ==
  ASSUME NEW A, NEW B, NEW p, Good(p, A, B), p.pending.seq # NoSeq
  PROVE  Sound(Timeout(p), A, B)
<1>1. PICK o : o = p.pending
  OBVIOUS
<1>2. /\ o \in [seq : Seqs, msg : Msgs, acked : SUBSET Nat,
                attempts : 0 .. MaxRetries, armed : BOOLEAN]
      /\ <<o.msg, o.seq>> \in A
  BY <1>1, InFlight
<1>3. CASE p.pending.attempts < MaxRetries
  <2>1. PICK v : v = [o EXCEPT !.attempts = @ + 1]
    OBVIOUS
  <2>2. o.attempts + 1 \in 0 .. MaxRetries
    BY <1>1, <1>2, <1>3, Limits
  <2>3. /\ v \in [seq : Seqs, msg : Msgs, acked : SUBSET Nat,
                  attempts : 0 .. MaxRetries, armed : BOOLEAN]
        /\ v.msg = o.msg /\ v.seq = o.seq
    BY <1>2, <2>1, <2>2
  <2>4. v \in Pendings /\ Entitled(v, A)
    BY <1>2, <2>3 DEF Pendings, Entitled
  <2>5. PICK q : q = [p EXCEPT !.pending = v]
    OBVIOUS
  <2>6. Good(q, A, B)
    BY <2>4, <2>5, SetPending
  <2>7. Unacked(o) \in SUBSET FragsOf(o.msg, o.seq, TRUE) /\ o.msg \in Msgs /\ o.seq \in Seqs
    BY <1>2 DEF Unacked
  <2>8. PICK F : F = Retries(Unacked(o))
    OBVIOUS
  <2>9. Carries(F, A)
    BY <1>2, <2>7, <2>8, RetriesCarried
  <2>10. PICK r : r = Timeout(p)
    OBVIOUS
  <2>11. r.peer = q /\ r.out = F /\ r.done = {} /\ r.deliver = NoMsg
    BY <1>1, <1>3, <2>1, <2>5, <2>8, <2>10 DEF Timeout, Retry, Nothing
  <2> QED  BY <2>6, <2>9, <2>10, <2>11, Limits DEF Sound
<1>4. CASE ~ (p.pending.attempts < MaxRetries)
  <2>1. Timeout(p) = GiveUp(p)
    BY <1>4 DEF Timeout
  <2>2. CASE p.queue = <<>>
    <3>1. Timeout(p) = Nothing(NewPeer)
      BY <2>1, <2>2 DEF GiveUp
    <3> QED  BY <3>1, FreshGood, NothingSound
  <2>3. CASE p.queue # <<>>
    BY <2>1, <2>3, StartNextSound DEF GiveUp
  <2> QED  BY <2>2, <2>3
<1> QED  BY <1>3, <1>4

LEMMA Widened ==
  ASSUME NEW A, NEW A2, NEW B, NEW B2, A \subseteq A2, B \subseteq B2
  PROVE  /\ \A p : Good(p, A, B) => Good(p, A2, B2)
         /\ \A F : Carries(F, A) => Carries(F, A2)
<1>1. ASSUME NEW p, Good(p, A, B)  PROVE Good(p, A2, B2)
  <2>1. Sends(p, A2)
    BY <1>1 DEF Good, Sends, Entitled
  <2>2. \A i \in DOMAIN p.reasm : Holds(p.reasm[i], B2)
    BY <1>1 DEF Good, Hears, Holds
  <2>3. \A i \in DOMAIN p.seen : Knows(p.seen[i], B2)
    BY <1>1 DEF Good, Hears, Knows
  <2> QED  BY <1>1, <2>1, <2>2, <2>3 DEF Good, Hears
<1>2. ASSUME NEW F, Carries(F, A)  PROVE Carries(F, A2)
  BY <1>2 DEF Carries, Carried
<1> QED  BY <1>1, <1>2

-----------------------------------------------------------------------------
(* The link.  Every pair of a message and a number:                         *)
Pairs == Msgs \X Seqs

(* What an end sends it sends under numbers in A, and what it has heard     *)
(* came under numbers in B.                                                 *)
Fine(e, A, B) == Good(peer[e], A, B) /\ Carries(txq[e], A) /\ Carries(air[Other(e)], A)

Heards == [msg : Msgs \cup {Garbled}, gen : Nat]

Spent == [drops : Nat, expiries : Nat, idles : Nat, restarts : [Ends -> Nat]]

Shape ==
  /\ peer \in [Ends -> Records] /\ nextSeq \in [Ends -> Seqs]
  /\ txq \in [Ends -> SUBSET Frames] /\ air \in [Ends -> SUBSET Frames]
  /\ keyed \in [Ends -> SUBSET Seqs] /\ todo \in [Ends -> SUBSET Msgs]
  /\ \A e \in Ends : todo[e] \subseteq Outbox[e] \cup Broadcasts[e]
  /\ used \in Spent
  /\ \A e \in Ends : used.restarts[e] <= MaxRestarts[e]
  /\ gen \in [Ends -> Nat] /\ delivered \in [Ends -> Seq(Heards)]

(* What a step of e leaves of the other end.                                *)
Untouched(e) ==
  /\ peer'[Other(e)] = peer[Other(e)] /\ txq'[Other(e)] = txq[Other(e)]
  /\ air'[e] \subseteq air[e]

LEMMA EndsAre ==
  ASSUME NEW e \in Ends
  PROVE  /\ Other(e) \in Ends /\ Other(e) # e /\ Other(Other(e)) = e
         /\ \A x \in Ends : x = e \/ x = Other(e)
BY EndsAssumption DEF Ends, Other

LEMMA Numbers ==
  ASSUME NEW s \in Seqs
  PROVE  NextSeq(s) \in Seqs /\ (s + 1 < SeqSpace => NextSeq(s) = s + 1)
BY Limits DEF NextSeq, Seqs

LEMMA SpentMore ==
  ASSUME NEW u \in Spent, NEW n \in Nat, NEW k \in Nat, NEW r \in [Ends -> Nat]
  PROVE  /\ [u EXCEPT !.drops = n] \in Spent /\ [u EXCEPT !.drops = n].restarts = u.restarts
         /\ [u EXCEPT !.expiries = n, !.idles = k] \in Spent
         /\ [u EXCEPT !.expiries = n, !.idles = k].restarts = u.restarts
         /\ [u EXCEPT !.restarts = r] \in Spent /\ [u EXCEPT !.restarts = r].restarts = r
BY DEF Spent

LEMMA SubmitFine ==
  ASSUME Shape, NEW e \in Ends, NEW m \in todo[e], NEW A, NEW B, Fine(e, A, B),
         Submit(e, m), <<m, nextSeq[e]>> \in A
  PROVE  Fine(e, A, B)' /\ Untouched(e)
<1>0. PICK p : p = peer[e]
  OBVIOUS
<1>1. PICK s \in Seqs : p = peer[e] /\ s = nextSeq[e]
  BY <1>0 DEF Shape
<1>2. Good(p, A, B) /\ m \in Msgs /\ <<m, s>> \in A
  BY <1>1 DEF Fine, Shape
<1>3. PICK sent : sent = Enqueue(p, m, s)
  OBVIOUS
<1>4. Sound(sent, A, B)
  BY <1>2, <1>3, EnqueueSound
<1>5. PICK x : x = sent.peer
  OBVIOUS
<1>6. PICK dr : dr = Settled(e, x)
  OBVIOUS
<1>7. Sound(dr, A, B)
  BY <1>4, <1>5, <1>6, SettledSound DEF Sound
<1>8. PICK r : r = SendTo(e, m)
  OBVIOUS
<1>9. dr = [peer |-> dr.peer, out |-> dr.out, done |-> dr.done, deliver |-> dr.deliver]
  BY <1>6 DEF Settled, DrainAcks, Nothing
<1>10. r = [dr EXCEPT !.out = sent.out \cup @]
  BY <1>1, <1>3, <1>5, <1>6, <1>8 DEF SendTo
<1>11. r.peer = dr.peer /\ r.out = sent.out \cup dr.out
  BY <1>9, <1>10
<1>12. Good(r.peer, A, B) /\ Carries(r.out, A)
  BY <1>4, <1>7, <1>11 DEF Sound, Carries
<1>13. /\ peer' = [peer EXCEPT ![e] = r.peer] /\ txq' = [txq EXCEPT ![e] = @ \cup r.out]
       /\ air' = air
  BY <1>8 DEF Submit
<1>14. peer'[e] = r.peer /\ txq'[e] = txq[e] \cup r.out /\ air' = air
  BY <1>13 DEF Shape
<1>15. Fine(e, A, B)'
  BY <1>12, <1>14 DEF Fine, Carries
<1>16. Untouched(e)
  BY <1>13, EndsAre DEF Shape, Untouched
<1> QED  BY <1>15, <1>16

LEMMA BroadcastFine ==
  ASSUME Shape, NEW e \in Ends, NEW m \in todo[e], NEW A, NEW B, Fine(e, A, B),
         Broadcast(e, m), <<m, nextSeq[e]>> \in A
  PROVE  Fine(e, A, B)' /\ Untouched(e)
<1>1. PICK s \in Seqs, want \in BOOLEAN : s = nextSeq[e] /\ want = FALSE
  BY DEF Shape
<1>2. m \in Msgs /\ <<m, s>> \in A
  BY <1>1 DEF Shape
<1>3. PICK F : F = FragsOf(m, s, want)
  OBVIOUS
<1>4. Carries(F, A)
  BY <1>2, <1>3, FragsCarried
<1>5. peer' = peer /\ air' = air /\ txq' = [txq EXCEPT ![e] = @ \cup F]
  BY <1>1, <1>3 DEF Broadcast, SendChat
<1>6. txq'[e] = txq[e] \cup F
  BY <1>5 DEF Shape
<1>7. Fine(e, A, B)'
  BY <1>4, <1>5, <1>6 DEF Fine, Carries
<1>8. Untouched(e)
  BY <1>5, EndsAre DEF Shape, Untouched
<1> QED  BY <1>7, <1>8

LEMMA KeyFine ==
  ASSUME Shape, NEW e \in Ends, NEW f \in txq[e], NEW arrives \in BOOLEAN, NEW A, NEW B,
         Fine(e, A, B), Key(e, f, arrives)
  PROVE  Fine(e, A, B)' /\ Untouched(e)
<1>1. /\ peer' = peer /\ txq' = [txq EXCEPT ![e] = @ \ {f}]
      /\ air' = IF arrives THEN [air EXCEPT ![Other(e)] = @ \cup {f}] ELSE air
  BY DEF Key
<1>2. /\ txq'[e] = txq[e] \ {f} /\ air'[e] = air[e]
      /\ air'[Other(e)] \subseteq air[Other(e)] \cup {f} /\ txq'[Other(e)] = txq[Other(e)]
  BY <1>1, EndsAre DEF Shape
<1>3. Carried(f, A)
  BY DEF Fine, Carries
<1>4. Fine(e, A, B)'
  BY <1>1, <1>2, <1>3 DEF Fine, Carries
<1> QED  BY <1>1, <1>2, <1>4 DEF Untouched

LEMMA DiscardFine ==
  ASSUME Shape, NEW e \in Ends, NEW f \in txq[e], NEW A, NEW B, Fine(e, A, B), Discard(e, f)
  PROVE  Fine(e, A, B)' /\ Untouched(e)
<1>1. peer' = peer /\ air' = air /\ txq' = [txq EXCEPT ![e] = @ \ {f}]
  BY DEF Discard
<1>2. txq'[e] = txq[e] \ {f} /\ txq'[Other(e)] = txq[Other(e)]
  BY <1>1, EndsAre DEF Shape
<1> QED  BY <1>1, <1>2 DEF Fine, Carries, Untouched

LEMMA ReceiveFine ==
  ASSUME Shape, NEW e \in Ends, NEW f \in air[e], NEW reply \in Msgs \cup {NoMsg},
         NEW A, NEW B, Sound(HandleRf(e, f), A, B),
         Carries(txq[e], A), Carries(air[Other(e)], A),
         reply # NoMsg /\ Accepts(HandleRf(e, f).peer) => <<reply, nextSeq[e]>> \in A,
         ReceiveAs(e, f, reply)
  PROVE  Fine(e, A, B)' /\ Untouched(e)
<1>1. PICK s \in Seqs : s = nextSeq[e]
  BY DEF Shape
<1>2. PICK got, p : got = HandleRf(e, f) /\ p = got.peer
  OBVIOUS
<1>3. Sound(got, A, B) /\ Good(p, A, B)
  BY <1>2 DEF Sound
<1>4. PICK said : said = IF reply = NoMsg THEN Nothing(p) ELSE Enqueue(p, reply, s)
  OBVIOUS
<1>5. Sound(said, A, B)
  <2>1. CASE reply = NoMsg
    BY <1>3, <1>4, <2>1, NothingSound
  <2>2. CASE reply # NoMsg /\ Accepts(p)
    <3>1. reply \in Msgs /\ <<reply, s>> \in A
      BY <1>1, <1>2, <2>2
    <3> QED  BY <1>3, <1>4, <2>2, <3>1, EnqueueSound
  <2>3. CASE reply # NoMsg /\ ~ Accepts(p)
    <3>1. Enqueue(p, reply, s) = Nothing(p)
      BY <2>3 DEF Enqueue, Accepts
    <3> QED  BY <1>3, <1>4, <2>3, <3>1, NothingSound
  <2> QED  BY <2>1, <2>2, <2>3
<1>6. PICK x : x = said.peer
  OBVIOUS
<1>7. PICK dr : dr = IF e = Gateway THEN DrainAcks(x) ELSE Nothing(x)
  OBVIOUS
<1>8. Sound(dr, A, B)
  <2>1. Good(x, A, B)
    BY <1>5, <1>6 DEF Sound
  <2> QED  BY <1>7, <2>1, DrainAcksSound, NothingSound
<1>9. /\ air' = IF Echo THEN air ELSE [air EXCEPT ![e] = @ \ {f}]
      /\ peer' = [peer EXCEPT ![e] = dr.peer]
      /\ txq' = [txq EXCEPT ![e] = @ \cup got.out \cup said.out \cup dr.out]
  BY <1>1, <1>2, <1>4, <1>6, <1>7 DEF ReceiveAs
<1>10. /\ peer'[e] = dr.peer /\ txq'[e] = txq[e] \cup got.out \cup said.out \cup dr.out
       /\ peer'[Other(e)] = peer[Other(e)] /\ txq'[Other(e)] = txq[Other(e)]
       /\ air'[Other(e)] = air[Other(e)] /\ air'[e] \subseteq air[e]
  BY <1>9, EndsAre DEF Shape
<1>11. Carries(txq'[e], A)
  BY <1>3, <1>5, <1>8, <1>10 DEF Sound, Carries
<1>12. Fine(e, A, B)'
  BY <1>8, <1>10, <1>11 DEF Fine, Sound
<1> QED  BY <1>10, <1>12 DEF Untouched

LEMMA TickFine ==
  ASSUME Shape, NEW e \in Ends, NEW n \in 0 .. Len(peer[e].reasm),
         NEW what \in {"quiet", "timeout", "idle"}, NEW A, NEW B, Fine(e, A, B),
         TickAs(e, n, what)
  PROVE  Fine(e, A, B)' /\ Untouched(e)
<1>1. PICK p : p = peer[e]
  OBVIOUS
<1>2. Good(p, A, B) /\ keyed[e] \in SUBSET Seqs
  BY <1>1 DEF Fine, Shape
<1>3. PICK started : started = DrainKeyed(e)
  OBVIOUS
<1>4. Good(started, A, B) /\ started.reasm = p.reasm /\ started.pending.seq = p.pending.seq
  <2>1. started = OnKeyed(p, keyed[e])
    BY <1>1, <1>3 DEF DrainKeyed
  <2>2. Good(started, A, B)
    BY <1>2, <2>1, OnKeyedGood
  <2>3. p \in Records
    BY <1>2 DEF Good, Typed
  <2>4. p.pending \in Pendings
    BY <2>3 DEF Records
  <2>5. started.reasm = p.reasm
    BY <2>1, <2>3 DEF OnKeyed, Records
  <2>6. started.pending.seq = p.pending.seq
    BY <2>1, <2>3, <2>4 DEF OnKeyed, Records, Pendings, NoPending
  <2> QED  BY <2>2, <2>5, <2>6
<1>5. PICK aged : aged = ExpireReasm(started, n)
  OBVIOUS
<1>6. Sound(aged, A, B)
  <2>1. n \in 0 .. Len(started.reasm)
    BY <1>1, <1>4
  <2> QED  BY <1>4, <1>5, <2>1, ExpireReasmSound
<1>7. PICK q : q = aged.peer
  OBVIOUS
<1>8. Good(q, A, B) /\ q.pending.seq = p.pending.seq
  <2>1. started \in Records
    BY <1>4 DEF Good, Typed
  <2>2. q = [started EXCEPT !.reasm = SubSeq(@, n + 1, Len(@))]
    BY <1>5, <1>7 DEF ExpireReasm, Nothing
  <2>3. q.pending = started.pending
    BY <2>1, <2>2 DEF Records
  <2> QED  BY <1>4, <1>6, <1>7, <2>3 DEF Sound
<1>9. PICK nx : nx = CASE what = "quiet" -> Nothing(q)
                       [] what = "timeout" -> Timeout(q)
                       [] what = "idle" -> Nothing(NewPeer)
  OBVIOUS
<1>10. Sound(nx, A, B)
  <2>1. CASE what = "quiet"
    <3>1. nx = Nothing(q)
      BY <1>9, <2>1
    <3> QED  BY <1>8, <3>1, NothingSound
  <2>2. CASE what = "timeout"
    <3>1. nx = Timeout(q)
      BY <1>9, <2>2
    <3>2. q.pending.seq # NoSeq
      <4>1. p.pending.armed
        BY <1>1, <2>2 DEF TickAs
      <4>2. p.pending # NoPending
        BY <4>1 DEF NoPending
      <4>3. p.pending \in Pendings
        BY <1>2, Fields DEF Good
      <4>4. p.pending.seq \in Seqs
        BY <4>2, <4>3 DEF Pendings
      <4> QED  BY <1>8, <4>4, Limits
    <3> QED  BY <1>8, <3>1, <3>2, TimeoutSound
  <2>3. CASE what = "idle"
    <3>1. nx = Nothing(NewPeer)
      BY <1>9, <2>3
    <3> QED  BY <3>1, FreshGood, NothingSound
  <2> QED  BY <2>1, <2>2, <2>3
<1>11. PICK y : y = nx.peer
  OBVIOUS
<1>12. PICK dr : dr = Settled(e, y)
  OBVIOUS
<1>13. Sound(dr, A, B)
  BY <1>10, <1>11, <1>12, SettledSound DEF Sound
<1>14. /\ air' = air /\ peer' = [peer EXCEPT ![e] = dr.peer]
       /\ txq' = [txq EXCEPT ![e] = @ \cup aged.out \cup nx.out \cup dr.out]
  BY <1>3, <1>5, <1>7, <1>9, <1>11, <1>12 DEF TickAs
<1>15. /\ peer'[e] = dr.peer /\ txq'[e] = txq[e] \cup aged.out \cup nx.out \cup dr.out
       /\ peer'[Other(e)] = peer[Other(e)] /\ txq'[Other(e)] = txq[Other(e)]
  BY <1>14, EndsAre DEF Shape
<1>16. Carries(txq'[e], A)
  BY <1>6, <1>10, <1>13, <1>15 DEF Sound, Carries, Fine
<1>17. Fine(e, A, B)'
  BY <1>13, <1>14, <1>15, <1>16 DEF Fine, Sound
<1> QED  BY <1>14, <1>15, <1>17 DEF Untouched

(* A process that starts.                                                   *)
LEMMA BootedSound ==
  ASSUME NEW A, NEW B, NEW e \in Ends, NEW n \in 0 .. MaxRestarts[Station],
         e = Station /\ BootHello[n] # NoMsg => <<BootHello[n], 1>> \in A
  PROVE  Sound(Booted(e, n), A, B) /\ BootSeq(e, n) \in Seqs
<1>1. BootSeq(e, n) \in Seqs
  BY Numbers, Limits DEF BootSeq
<1>2. CASE e = Station /\ BootHello[n] # NoMsg
  <2>1. PICK m \in Msgs, s \in Seqs : m = BootHello[n] /\ s = 1
    BY <1>2, EndsAssumption, MsgsAssumption, Limits
  <2>2. PICK p : p = NewPeer
    OBVIOUS
  <2>3. Good(p, A, B) /\ <<m, s>> \in A
    BY <1>2, <2>1, <2>2, FreshGood
  <2>4. Sound(Enqueue(p, m, s), A, B)
    BY <2>3, EnqueueSound
  <2>5. Booted(e, n) = Enqueue(p, m, s)
    BY <1>2, <2>1, <2>2 DEF Booted
  <2> QED  BY <1>1, <2>4, <2>5
<1>3. CASE ~ (e = Station /\ BootHello[n] # NoMsg)
  <2>1. Booted(e, n) = Nothing(NewPeer)
    BY <1>3 DEF Booted
  <2> QED  BY <1>1, <2>1, FreshGood, NothingSound
<1> QED  BY <1>2, <1>3

LEMMA RestartFine ==
  ASSUME Shape, NEW e \in Ends, NEW A, NEW B, Restart(e),
         e = Station /\ BootHello[used.restarts[e] + 1] # NoMsg
           => <<BootHello[used.restarts[e] + 1], 1>> \in A
  PROVE  /\ Fine(e, A, B)' /\ Untouched(e) /\ nextSeq' = [nextSeq EXCEPT ![e] = BootSeq(e, used.restarts[e] + 1)]
         /\ BootSeq(e, used.restarts[e] + 1) \in Seqs
<1>1. PICK n : n = used.restarts[e] + 1
  OBVIOUS
<1>2. e = Station => n \in 0 .. MaxRestarts[Station]
  BY <1>1, EndsAssumption DEF Restart, Shape, Spent, Ends
<1>3. PICK b : b = Booted(e, n)
  OBVIOUS
<1>4. Sound(b, A, B) /\ BootSeq(e, n) \in Seqs
  <2>1. CASE e = Station
    BY <1>1, <1>2, <1>3, <2>1, BootedSound
  <2>2. CASE e # Station
    <3>1. b = Nothing(NewPeer) /\ BootSeq(e, n) = 1
      BY <1>3, <2>2 DEF Booted, BootSeq, Nothing
    <3> QED  BY <3>1, FreshGood, NothingSound, Limits
  <2> QED  BY <2>1, <2>2
<1>5. /\ peer' = [peer EXCEPT ![e] = b.peer] /\ txq' = [txq EXCEPT ![e] = b.out]
      /\ air' = [x \in Ends |-> {}] /\ nextSeq' = [nextSeq EXCEPT ![e] = BootSeq(e, n)]
  BY <1>1, <1>3 DEF Restart
<1>6. /\ peer'[e] = b.peer /\ txq'[e] = b.out /\ air'[e] = {} /\ air'[Other(e)] = {}
      /\ peer'[Other(e)] = peer[Other(e)] /\ txq'[Other(e)] = txq[Other(e)]
  BY <1>5, EndsAre DEF Shape
<1>7. Fine(e, A, B)' /\ Untouched(e)
  BY <1>4, <1>6 DEF Fine, Sound, Carries, Untouched
<1> QED  BY <1>1, <1>4, <1>5, <1>7

-----------------------------------------------------------------------------
(* Types.                                                                   *)
Sane == Shape /\ \A e \in Ends : Fine(e, Pairs, Pairs)

(* The tables of a step by e keep their types.                              *)
TablesTyped ==
  /\ peer \in [Ends -> Records] /\ txq \in [Ends -> SUBSET Frames]
  /\ air \in [Ends -> SUBSET Frames]

LEMMA TablesKept ==
  ASSUME Shape, NEW e \in Ends, NEW A, NEW B, Fine(e, A, B)', Untouched(e),
         peer' = [peer EXCEPT ![e] = peer'[e]], txq' = [txq EXCEPT ![e] = txq'[e]],
         DOMAIN air' = Ends, air' = [x \in Ends |-> air'[x]]
  PROVE  TablesTyped'
<1>1. peer'[e] \in Records /\ txq'[e] \subseteq Frames /\ air'[Other(e)] \subseteq Frames
  BY DEF Fine, Good, Typed, Carries, Carried
<1>2. air'[e] \subseteq Frames
  BY DEF Untouched, Shape
<1>3. peer' \in [Ends -> Records] /\ txq' \in [Ends -> SUBSET Frames]
  BY <1>1 DEF Shape
<1>4. \A x \in Ends : air'[x] \in SUBSET Frames
  BY <1>1, <1>2, EndsAre
<1>5. air' \in [Ends -> SUBSET Frames]
  BY <1>4
<1> QED  BY <1>3, <1>5 DEF TablesTyped

LEMMA OtherFine ==
  ASSUME Shape, NEW e \in Ends, NEW A, NEW B, Fine(Other(e), A, B), Untouched(e)
  PROVE  Fine(Other(e), A, B)'
BY EndsAre DEF Fine, Untouched, Carries

LEMMA SaneSubmit ==
  ASSUME Sane, NEW e \in Ends, NEW m \in todo[e], Submit(e, m)
  PROVE  Sane'
<1>1. Shape /\ Fine(e, Pairs, Pairs) /\ Fine(Other(e), Pairs, Pairs)
  BY EndsAre DEF Sane
<1>2. <<m, nextSeq[e]>> \in Pairs
  BY <1>1 DEF Shape, Pairs
<1>3. Fine(e, Pairs, Pairs)' /\ Untouched(e)
  BY <1>1, <1>2, SubmitFine
<1>4. Fine(Other(e), Pairs, Pairs)'
  BY <1>1, <1>3, OtherFine
<1>5. TablesTyped'
  BY <1>1, <1>3, TablesKept DEF Submit, Shape
<1>6. nextSeq' \in [Ends -> Seqs]
  BY <1>1, Numbers DEF Submit, Shape
<1>7. todo' \in [Ends -> SUBSET Msgs] /\ \A x \in Ends : todo'[x] \subseteq Outbox[x] \cup Broadcasts[x]
  BY <1>1 DEF Submit, Shape
<1>8. keyed' = keyed /\ used' = used /\ gen' = gen /\ delivered' = delivered
  BY DEF Submit
<1>9. Shape'
  BY <1>1, <1>5, <1>6, <1>7, <1>8 DEF Shape, TablesTyped
<1> QED  BY <1>3, <1>4, <1>9, EndsAre DEF Sane

LEMMA SaneBroadcast ==
  ASSUME Sane, NEW e \in Ends, NEW m \in todo[e], Broadcast(e, m)
  PROVE  Sane'
<1>1. Shape /\ Fine(e, Pairs, Pairs) /\ Fine(Other(e), Pairs, Pairs)
  BY EndsAre DEF Sane
<1>2. <<m, nextSeq[e]>> \in Pairs
  BY <1>1 DEF Shape, Pairs
<1>3. Fine(e, Pairs, Pairs)' /\ Untouched(e)
  BY <1>1, <1>2, BroadcastFine
<1>4. Fine(Other(e), Pairs, Pairs)'
  BY <1>1, <1>3, OtherFine
<1>5. TablesTyped'
  BY <1>1, <1>3, TablesKept DEF Broadcast, Shape
<1>6. nextSeq' \in [Ends -> Seqs]
  BY <1>1, Numbers DEF Broadcast, Shape
<1>7. todo' \in [Ends -> SUBSET Msgs] /\ \A x \in Ends : todo'[x] \subseteq Outbox[x] \cup Broadcasts[x]
  BY <1>1 DEF Broadcast, Shape
<1>8. keyed' = keyed /\ used' = used /\ gen' = gen /\ delivered' = delivered
  BY DEF Broadcast, history
<1>9. Shape'
  BY <1>1, <1>5, <1>6, <1>7, <1>8 DEF Shape, TablesTyped
<1> QED  BY <1>3, <1>4, <1>9, EndsAre DEF Sane

LEMMA SaneKey ==
  ASSUME Sane, NEW e \in Ends, NEW f \in txq[e], NEW arrives \in BOOLEAN, Key(e, f, arrives)
  PROVE  Sane'
<1>1. Shape /\ Fine(e, Pairs, Pairs) /\ Fine(Other(e), Pairs, Pairs)
  BY EndsAre DEF Sane
<1>3. Fine(e, Pairs, Pairs)' /\ Untouched(e)
  BY <1>1, KeyFine
<1>4. Fine(Other(e), Pairs, Pairs)'
  BY <1>1, <1>3, OtherFine
<1>5. TablesTyped'
  <2>1. peer' = [peer EXCEPT ![e] = peer'[e]] /\ txq' = [txq EXCEPT ![e] = txq'[e]]
    BY <1>1 DEF Key, Shape
  <2>2. DOMAIN air' = Ends /\ air' = [x \in Ends |-> air'[x]]
    BY <1>1 DEF Key, Shape
  <2> QED  BY <1>1, <1>3, <2>1, <2>2, TablesKept
<1>6. keyed' \in [Ends -> SUBSET Seqs]
  <2>1. f \in Frames
    BY <1>1 DEF Shape
  <2>2. f.seq \in Seqs
    BY <2>1 DEF Frames
  <2> QED  BY <1>1, <2>2 DEF Key, Shape
<1>8. nextSeq' = nextSeq /\ todo' = todo /\ used' = used /\ gen' = gen /\ delivered' = delivered
  BY DEF Key, history
<1>9. Shape'
  BY <1>1, <1>5, <1>6, <1>8 DEF Shape, TablesTyped
<1> QED  BY <1>3, <1>4, <1>9, EndsAre DEF Sane

LEMMA SaneDiscard ==
  ASSUME Sane, NEW e \in Ends, NEW f \in txq[e], Discard(e, f)
  PROVE  Sane'
<1>1. Shape /\ Fine(e, Pairs, Pairs) /\ Fine(Other(e), Pairs, Pairs)
  BY EndsAre DEF Sane
<1>3. Fine(e, Pairs, Pairs)' /\ Untouched(e)
  BY <1>1, DiscardFine
<1>4. Fine(Other(e), Pairs, Pairs)'
  BY <1>1, <1>3, OtherFine
<1>5. TablesTyped'
  BY <1>1, <1>3, TablesKept DEF Discard, Shape
<1>6. used' \in Spent /\ used'.restarts = used.restarts
  <2>1. PICK d \in Nat : d = used.drops + 1
    BY <1>1 DEF Shape, Spent
  <2>2. used' = [used EXCEPT !.drops = d]
    BY <2>1 DEF Discard
  <2> QED  BY <1>1, <2>2, SpentMore DEF Shape
<1>8. nextSeq' = nextSeq /\ todo' = todo /\ keyed' = keyed /\ gen' = gen /\ delivered' = delivered
  BY DEF Discard, history
<1>9. Shape'
  BY <1>1, <1>5, <1>6, <1>8 DEF Shape, TablesTyped
<1> QED  BY <1>3, <1>4, <1>9, EndsAre DEF Sane

LEMMA SaneReceive ==
  ASSUME Sane, NEW e \in Ends, NEW f \in air[e], NEW reply \in Msgs \cup {NoMsg},
         ReceiveAs(e, f, reply)
  PROVE  Sane' /\ delivered' \in [Ends -> Seq(Heards)]
<1>1. Shape /\ Fine(e, Pairs, Pairs) /\ Fine(Other(e), Pairs, Pairs) /\ Other(Other(e)) = e
  BY EndsAre DEF Sane
<1>2. reply # NoMsg => <<reply, nextSeq[e]>> \in Pairs
  BY <1>1 DEF Shape, Pairs
<1>25. PICK got : got = HandleRf(e, f)
  OBVIOUS
<1>26. Sound(got, Pairs, Pairs)
  <2>1. PICK p : p = peer[e]
    OBVIOUS
  <2>2. Good(p, Pairs, Pairs) /\ Carried(f, Pairs)
    BY <1>1, <2>1 DEF Fine, Carries
  <2> QED  BY <1>25, <2>1, <2>2, OnReceiveSound DEF HandleRf
<1>3. Fine(e, Pairs, Pairs)' /\ Untouched(e)
  <2>1. Carries(txq[e], Pairs) /\ Carries(air[Other(e)], Pairs) /\ Sound(HandleRf(e, f), Pairs, Pairs)
    BY <1>1, <1>25, <1>26 DEF Fine
  <2> QED  BY <1>1, <1>2, <2>1, ReceiveFine
<1>4. Fine(Other(e), Pairs, Pairs)'
  BY <1>1, <1>3, OtherFine
<1>5. TablesTyped'
  <2>1. peer' = [peer EXCEPT ![e] = peer'[e]] /\ txq' = [txq EXCEPT ![e] = txq'[e]]
    BY <1>1 DEF ReceiveAs, Shape
  <2>2. DOMAIN air' = Ends /\ air' = [x \in Ends |-> air'[x]]
    BY <1>1 DEF ReceiveAs, Shape
  <2> QED  BY <1>1, <1>3, <2>1, <2>2, TablesKept
<1>6. nextSeq' \in [Ends -> Seqs]
  <2>1. nextSeq' = IF reply = NoMsg THEN nextSeq ELSE [nextSeq EXCEPT ![e] = NextSeq(@)]
    BY DEF ReceiveAs
  <2> QED  BY <1>1, <2>1, Numbers DEF Shape
<1>7. gen' \in [Ends -> Nat]
  BY <1>1 DEF ReceiveAs, Forget, Shape
<1>8. delivered' \in [Ends -> Seq(Heards)]
  <2>1. PICK d, g, c : d = got.deliver /\ g = gen'[e] /\ c = delivered[e]
    OBVIOUS
  <2>2. Deliver(e, d)
    BY <1>25, <2>1 DEF ReceiveAs
  <2>3. d \in Msgs \cup {NoMsg, Garbled}
    BY <1>26, <2>1 DEF Sound
  <2>4. CASE d = NoMsg
    BY <1>1, <2>2, <2>4 DEF Deliver, Shape
  <2>5. CASE d # NoMsg
    <3>1. PICK x : x = [msg |-> d, gen |-> g]
      OBVIOUS
    <3>2. x \in Heards /\ c \in Seq(Heards)
      BY <1>1, <1>7, <2>1, <2>3, <2>5, <3>1 DEF Heards, Shape
    <3>3. PICK z : z = Append(c, x)
      OBVIOUS
    <3>4. z \in Seq(Heards)
      BY <3>2, <3>3, AppendProperties
    <3>5. delivered' = [delivered EXCEPT ![e] = z]
      BY <2>1, <2>2, <2>5, <3>1, <3>3 DEF Deliver
    <3> QED  BY <1>1, <3>4, <3>5 DEF Shape
  <2> QED  BY <2>4, <2>5
<1>9. keyed' = keyed /\ used' = used /\ todo' = todo
  BY DEF ReceiveAs
<1>10. Shape'
  BY <1>1, <1>5, <1>6, <1>7, <1>8, <1>9 DEF Shape, TablesTyped
<1> QED  BY <1>3, <1>4, <1>8, <1>10, EndsAre DEF Sane

LEMMA SaneTick ==
  ASSUME Sane, NEW e \in Ends, NEW n \in 0 .. Len(peer[e].reasm),
         NEW what \in {"quiet", "timeout", "idle"}, TickAs(e, n, what)
  PROVE  Sane'
<1>1. Shape /\ Fine(e, Pairs, Pairs) /\ Fine(Other(e), Pairs, Pairs)
  BY EndsAre DEF Sane
<1>3. Fine(e, Pairs, Pairs)' /\ Untouched(e)
  BY <1>1, TickFine
<1>4. Fine(Other(e), Pairs, Pairs)'
  BY <1>1, <1>3, OtherFine
<1>5. TablesTyped'
  <2>1. peer' = [peer EXCEPT ![e] = peer'[e]] /\ txq' = [txq EXCEPT ![e] = txq'[e]]
    BY <1>1 DEF TickAs, Shape
  <2>2. DOMAIN air' = Ends /\ air' = [x \in Ends |-> air'[x]]
    BY <1>1 DEF TickAs, Shape
  <2> QED  BY <1>1, <1>3, <2>1, <2>2, TablesKept
<1>6. used' \in Spent /\ used'.restarts = used.restarts
  <2>1. n \in Nat
    <3>1. peer[e].reasm \in Seq(Slots)
      BY <1>1 DEF Shape, Records
    <3> QED  BY <3>1
  <2>2. used.expiries \in Nat /\ used.idles \in Nat
    BY <1>1 DEF Shape, Spent
  <2>3. PICK d \in Nat : d = used.expiries + n
    BY <2>1, <2>2
  <2>4. PICK k \in Nat : k = IF what = "idle" THEN used.idles + 1 ELSE used.idles
    BY <2>2
  <2>5. used' = [used EXCEPT !.expiries = d, !.idles = k]
    BY <2>3, <2>4 DEF TickAs
  <2>6. PICK u \in Spent, r \in [Ends -> Nat] : u = used /\ r = used.restarts
    BY <1>1 DEF Shape, Spent
  <2>7. /\ [u EXCEPT !.expiries = d, !.idles = k] \in Spent
        /\ [u EXCEPT !.expiries = d, !.idles = k].restarts = u.restarts
    BY <2>6 DEF Spent
  <2> QED  BY <2>5, <2>6, <2>7
<1>7. gen' \in [Ends -> Nat]
  BY <1>1 DEF TickAs, Forget, Shape
<1>8. keyed' \in [Ends -> SUBSET Seqs]
  BY <1>1 DEF TickAs, Shape
<1>9. nextSeq' = nextSeq /\ todo' = todo /\ delivered' = delivered
  BY DEF TickAs
<1>10. Shape'
  BY <1>1, <1>5, <1>6, <1>7, <1>8, <1>9 DEF Shape, TablesTyped
<1> QED  BY <1>3, <1>4, <1>10, EndsAre DEF Sane

LEMMA SaneRestart ==
  ASSUME Sane, NEW e \in Ends, Restart(e)
  PROVE  Sane' /\ used'.restarts = [used.restarts EXCEPT ![e] = @ + 1]
<1>1. Shape /\ Fine(e, Pairs, Pairs) /\ Fine(Other(e), Pairs, Pairs)
  BY EndsAre DEF Sane
<1>2. PICK n \in Nat : n = used.restarts[e] + 1
  BY <1>1 DEF Shape, Spent
<1>3. n <= MaxRestarts[e] /\ (e = Station => n \in 0 .. MaxRestarts[Station])
  BY <1>1, <1>2, EndsAssumption DEF Restart, Shape, Spent, Ends
<1>4. /\ Fine(e, Pairs, Pairs)' /\ Untouched(e) /\ nextSeq' = [nextSeq EXCEPT ![e] = BootSeq(e, n)]
      /\ BootSeq(e, n) \in Seqs
  <2>1. e = Station /\ BootHello[n] # NoMsg => <<BootHello[n], 1>> \in Pairs
    BY <1>3, Limits, EndsAssumption, MsgsAssumption DEF Pairs
  <2> QED  BY <1>1, <1>2, <2>1, RestartFine
<1>5. Fine(Other(e), Pairs, Pairs)'
  BY <1>1, <1>4, OtherFine
<1>6. TablesTyped'
  <2>1. peer' = [peer EXCEPT ![e] = peer'[e]] /\ txq' = [txq EXCEPT ![e] = txq'[e]]
    BY <1>1 DEF Restart, Shape
  <2>2. DOMAIN air' = Ends /\ air' = [x \in Ends |-> air'[x]]
    BY <1>1 DEF Restart, Shape
  <2> QED  BY <1>1, <1>4, <2>1, <2>2, TablesKept
<1>7. PICK r : r = [used.restarts EXCEPT ![e] = n]
  OBVIOUS
<1>8. r \in [Ends -> Nat] /\ r[e] = n /\ \A x \in Ends : x # e => r[x] = used.restarts[x]
  BY <1>1, <1>7 DEF Shape, Spent
<1>9. used' = [used EXCEPT !.restarts = r]
  BY <1>2, <1>7 DEF Restart
<1>10. used' \in Spent /\ used'.restarts = r
  <2>1. PICK k \in Nat : k = 0
    OBVIOUS
  <2> QED  BY <1>1, <1>8, <1>9, SpentMore DEF Shape
<1>11. gen' \in [Ends -> Nat]
  BY <1>1 DEF Restart, Forget, Shape
<1>12. keyed' \in [Ends -> SUBSET Seqs]
  BY <1>1 DEF Restart, Shape
<1>13. todo' = todo /\ delivered' = delivered
  BY DEF Restart
<1>14. \A x \in Ends : used'.restarts[x] <= MaxRestarts[x]
  BY <1>1, <1>3, <1>8, <1>10 DEF Shape
<1>15. Shape'
  BY <1>1, <1>4, <1>6, <1>10, <1>11, <1>12, <1>13, <1>14 DEF Shape, TablesTyped
<1> QED  BY <1>2, <1>4, <1>5, <1>7, <1>10, <1>15, EndsAre DEF Sane

LEMMA SaneInit ==
  ASSUME Init
  PROVE  Sane
<1>1. ASSUME NEW e \in Ends
      PROVE  /\ Good(peer[e], Pairs, Pairs) /\ Carries(txq[e], Pairs) /\ nextSeq[e] \in Seqs
             /\ air[e] = {}
  <2>0. PICK n \in Nat : n = 0
    OBVIOUS
  <2>1. n \in 0 .. MaxRestarts[Station]
    BY <2>0, EndsAssumption DEF Ends
  <2>2. e = Station /\ BootHello[n] # NoMsg => <<BootHello[n], 1>> \in Pairs
    BY <2>1, Limits, EndsAssumption, MsgsAssumption DEF Pairs
  <2>3. PICK b : b = Booted(e, n)
    OBVIOUS
  <2>4. Sound(b, Pairs, Pairs) /\ BootSeq(e, n) \in Seqs
    BY <2>1, <2>2, <2>3, BootedSound
  <2> QED  BY <2>0, <2>3, <2>4 DEF Init, Sound
<1>2. ASSUME NEW e \in Ends  PROVE peer[e] \in Records /\ txq[e] \subseteq Frames
  BY <1>1 DEF Good, Typed, Carries, Carried
<1>3. /\ peer \in [Ends -> Records] /\ nextSeq \in [Ends -> Seqs]
      /\ txq \in [Ends -> SUBSET Frames] /\ air \in [Ends -> SUBSET Frames]
  BY <1>1, <1>2 DEF Init
<1>4. keyed \in [Ends -> SUBSET Seqs] /\ gen \in [Ends -> Nat]
  BY DEF Init
<1>5. todo \in [Ends -> SUBSET Msgs] /\ \A e \in Ends : todo[e] \subseteq Outbox[e] \cup Broadcasts[e]
  BY EndsAssumption DEF Init
<1>6. PICK r \in [Ends -> Nat], z \in Nat : r = [e \in Ends |-> 0] /\ z = 0
  OBVIOUS
<1>7. used = [drops |-> z, expiries |-> z, idles |-> z, restarts |-> r]
  BY <1>6 DEF Init
<1>8. used \in Spent /\ used.restarts = r
  BY <1>7 DEF Spent
<1>9. \A e \in Ends : used.restarts[e] <= MaxRestarts[e]
  BY <1>6, <1>8, EndsAssumption
<1>10. delivered \in [Ends -> Seq(Heards)]
  <2>1. <<>> \in Seq(Heards)
    OBVIOUS
  <2> QED  BY <2>1 DEF Init
<1>11. Shape
  BY <1>3, <1>4, <1>5, <1>8, <1>9, <1>10 DEF Shape
<1> QED  BY <1>1, <1>11, EndsAre DEF Sane, Fine, Carries

(* A step, one action at a time.                                            *)
Moves(e) ==
  \/ \E m \in todo[e] : Submit(e, m) \/ Broadcast(e, m)
  \/ \E f \in txq[e], arrives \in BOOLEAN : Key(e, f, arrives) \/ Discard(e, f)
  \/ \E f \in air[e], reply \in Msgs \cup {NoMsg} :
       /\ reply # NoMsg => e = Gateway
       /\ reply \in Answers(e, HandleRf(e, f).deliver) /\ ReceiveAs(e, f, reply)
  \/ \E n \in 0 .. Len(peer[e].reasm), what \in {"quiet", "timeout", "idle"} : TickAs(e, n, what)
  \/ Restart(e)

LEMMA AnswersAre ==
  ASSUME NEW e, NEW m
  PROVE  \A r \in Answers(e, m) : r \in Msgs \cup {NoMsg} /\ (r # NoMsg => e = Gateway)
BY EndsAssumption DEF Answers

LEMMA NextMoves ==
  ASSUME Next
  PROVE  \E e \in Ends : Moves(e)
<1>1. PICK e \in Ends :
    \/ \E m \in todo[e] : Submit(e, m)
    \/ \E m \in todo[e] : Broadcast(e, m)
    \/ \E f \in txq[e], arrives \in BOOLEAN : Key(e, f, arrives)
    \/ \E f \in txq[e] : Discard(e, f)
    \/ \E f \in air[e] : Receive(e, f)
    \/ Tick(e)
    \/ Restart(e)
  BY DEF Next
<1>2. CASE \E f \in air[e] : Receive(e, f)
  <2>1. PICK f \in air[e] : \E reply \in Answers(e, HandleRf(e, f).deliver) : ReceiveAs(e, f, reply)
    BY <1>2 DEF Receive
  <2>2. PICK d : d = HandleRf(e, f).deliver
    OBVIOUS
  <2>3. PICK reply \in Answers(e, d) : ReceiveAs(e, f, reply)
    BY <2>1, <2>2
  <2>4. reply \in Msgs \cup {NoMsg} /\ (reply # NoMsg => e = Gateway)
    BY <2>3, AnswersAre
  <2> QED  BY <2>2, <2>3, <2>4 DEF Moves
<1>3. CASE Tick(e)
  BY <1>3 DEF Tick, Moves
<1> QED  BY <1>1, <1>2, <1>3 DEF Moves

LEMMA SaneStep ==
  ASSUME Sane, [Next]_vars
  PROVE  Sane'
<1>1. CASE Next
  <2>1. PICK e \in Ends : Moves(e)
    BY <1>1, NextMoves
  <2> QED
    BY <2>1, SaneSubmit, SaneBroadcast, SaneKey, SaneDiscard, SaneReceive, SaneTick, SaneRestart
       DEF Moves
<1>2. CASE vars' = vars
  BY <1>2 DEF vars, history, Sane, Shape, Fine
<1> QED  BY <1>1, <1>2

LEMMA AlwaysSane == Spec => []Sane
<1>1. Init => Sane
  BY SaneInit
<1>2. Sane /\ [Next]_vars => Sane'
  BY SaneStep
<1> QED  BY <1>1, <1>2, PTL DEF Spec

(* A session record never loses its shape or outgrows its limits (one       *)
(* message in flight, MaxQueue behind it, MaxReasm reassemblies,            *)
(* DedupWindow remembered numbers, MaxRetries attempts), whatever is        *)
(* lost, echoed, dropped or restarted, and also once the numbers have       *)
(* gone round (Sessions in session.rs and its callers on both ends).        *)
THEOREM LinkTyped == Spec => []TypeOK
<1>1. Sane => TypeOK
  <2>1. ASSUME NEW p, Typed(p)  PROVE Peers(p)
    <3>1. \A i \in DOMAIN p.reasm : p.reasm[i] \in Slots
      BY <2>1, Fields
    <3>2. \A i \in DOMAIN p.reasm : /\ p.reasm[i].seq \in Seqs /\ p.reasm[i].want \in BOOLEAN
                                    /\ p.reasm[i].parts \in Parts
      BY <3>1 DEF Slots
    <3> QED  BY <2>1, <3>2, Fields, PartsAre DEF Peers, Entries, Acks
  <2> QED  BY <2>1 DEF Sane, Shape, Fine, Good, TypeOK
<1> QED  BY <1>1, AlwaysSane, PTL

-----------------------------------------------------------------------------
(* The epoch of a session, which only a HELLO sets and only forgetting the  *)
(* other end clears, and the numbers remembered, which only DATA adds to.   *)
Marks == {"epoch", "seen"}
USE DEF Marks
Bears(k, p, n) == k \in DOMAIN p /\ p[k] = n

LEMMA MarkOfStart ==
  ASSUME NEW k \in Marks, NEW p, NEW n, Bears(k, p, n)
  PROVE  /\ \A entry : Bears(k, StartPending(p, entry).peer, n)
         /\ Bears(k, StartNext(p).peer, n)
<1>1. ASSUME NEW q, Bears(k, q, n), NEW entry  PROVE Bears(k, StartPending(q, entry).peer, n)
  BY <1>1 DEF Bears, StartPending, Nothing
<1>2. PICK z, x : z = [p EXCEPT !.queue = Tail(@)] /\ x = Head(p.queue)
  OBVIOUS
<1>3. Bears(k, z, n)
  BY <1>2 DEF Bears
<1>4. Bears(k, StartPending(z, x).peer, n)
  BY <1>1, <1>3
<1>5. ASSUME p.queue = <<>>  PROVE Bears(k, StartNext(p).peer, n)
  BY <1>5 DEF StartNext, Nothing, Bears
<1>6. ASSUME p.queue # <<>>  PROVE Bears(k, StartNext(p).peer, n)
  BY <1>2, <1>4, <1>6 DEF StartNext
<1> QED  BY <1>1, <1>5, <1>6

LEMMA MarkOfAck ==
  ASSUME NEW k \in Marks, NEW p, NEW n, Bears(k, p, n), NEW a
  PROVE  Bears(k, ApplyAck(p, a).peer, n)
<1>1. PICK r : r = StartNext(p)
  OBVIOUS
<1>2. r = [peer |-> r.peer, out |-> r.out, done |-> r.done, deliver |-> r.deliver]
  BY <1>1 DEF StartNext, StartPending, Nothing
<1>3. Bears(k, r.peer, n)
  BY <1>1, MarkOfStart
<1>4. PICK t : t = ApplyAck(p, a)
  OBVIOUS
<1>5. t.peer = r.peer \/ t.peer = p \/ \E v : t.peer = [p EXCEPT !.pending = v]
  <2>1. \/ t = Nothing(p)
        \/ \E d : t = [r EXCEPT !.done = d]
        \/ \E v, o : t = [Nothing([p EXCEPT !.pending = v]) EXCEPT !.out = o]
    BY <1>1, <1>4, Zenon DEF ApplyAck
  <2>2. CASE t = Nothing(p)
    BY <2>2 DEF Nothing
  <2>3. CASE \E d : t = [r EXCEPT !.done = d]
    BY <1>2, <2>3
  <2>4. CASE \E v, o : t = [Nothing([p EXCEPT !.pending = v]) EXCEPT !.out = o]
    <3>1. PICK v, o : t = [Nothing([p EXCEPT !.pending = v]) EXCEPT !.out = o]
      BY <2>4
    <3>2. t.peer = [p EXCEPT !.pending = v]
      BY <3>1 DEF Nothing
    <3> QED  BY <3>2
  <2> QED  BY <2>1, <2>2, <2>3, <2>4
<1> QED  BY <1>3, <1>4, <1>5 DEF Bears

LEMMA MarkOfData ==
  ASSUME NEW k \in {"epoch", "pending", "queue"}, NEW p, NEW n, Bears(k, p, n), NEW f
  PROVE  Bears(k, ReceiveData(p, f).peer, n)
<1>1. ASSUME NEW q, Bears(k, q, n), NEW s, NEW a, NEW w, NEW v
      PROVE  /\ Bears(k, Remember(q, s), n) /\ Bears(k, OweAck(q, a, w), n)
             /\ Bears(k, [q EXCEPT !.reasm = v], n)
  BY <1>1 DEF Bears, Remember, OweAck
<1>2. ASSUME NEW q, Bears(k, q, n), NEW d
      PROVE  Bears(k, Nothing(q).peer, n) /\ Bears(k, [Nothing(q) EXCEPT !.deliver = d].peer, n)
  BY <1>2 DEF Nothing
<1>3. Bears(k, Reassemble(p, f).peer, n)
  <2>1. PICK rs : rs = Stash(p.reasm, f)
    OBVIOUS
  <2>2. PICK r : r = rs[Slot(rs, f.seq)]
    OBVIOUS
  <2>3. PICK kept, x : kept = [p EXCEPT !.reasm = rs] /\ x = Remember(p, f.seq)
    OBVIOUS
  <2>4. Bears(k, kept, n) /\ Bears(k, x, n)
    BY <1>1, <2>3
  <2>5. PICK whole : whole = [x EXCEPT !.reasm = Without(rs, f.seq)]
    OBVIOUS
  <2>6. Bears(k, whole, n)
    BY <1>1, <2>4, <2>5
  <2>7. PICK y, z : /\ y = OweAck(kept, Partial(f.seq, r.parts), f.want /\ f.retry)
                    /\ z = OweAck(whole, Whole(f.seq), r.want)
    OBVIOUS
  <2>8. Bears(k, y, n) /\ Bears(k, z, n)
    BY <1>1, <2>4, <2>6, <2>7, Zenon
  <2>9. \/ Reassemble(p, f) = Nothing(y)
        \/ Reassemble(p, f) = [Nothing(z) EXCEPT !.deliver = Joined(r.parts)]
    BY <2>1, <2>2, <2>3, <2>5, <2>7 DEF Reassemble
  <2> QED  BY <1>2, <2>8, <2>9
<1>4. PICK x : x = OweAck(p, Whole(f.seq), f.want)
  OBVIOUS
<1>5. Bears(k, x, n)
  BY <1>1, <1>4
<1>6. PICK y : y = Remember(x, f.seq)
  OBVIOUS
<1>7. Bears(k, y, n)
  BY <1>1, <1>5, <1>6
<1>8. \/ \E d : ReceiveData(p, f) = [Nothing(x) EXCEPT !.deliver = d]
      \/ \E d : ReceiveData(p, f) = [Nothing(y) EXCEPT !.deliver = d]
      \/ ReceiveData(p, f) = Reassemble(p, f)
  BY <1>4, <1>6 DEF ReceiveData
<1> QED  BY <1>2, <1>3, <1>5, <1>7, <1>8

LEMMA EpochOfReceive ==
  ASSUME NEW p, NEW n, Bears("epoch", p, n), NEW f
  PROVE  /\ f.kind = "ACK" => Bears("epoch", OnReceive(p, f).peer, n)
         /\ f.kind # "ACK" =>
              Bears("epoch", OnReceive(p, f).peer, IF f.msg \in Hellos THEN EpochOf[f.msg] ELSE n)
<1>1. CASE f.kind = "ACK"
  BY <1>1, MarkOfAck DEF OnReceive
<1>2. CASE f.kind # "ACK"
  <2>1. PICK fresh : fresh = NewSession(p, f.msg)
    OBVIOUS
  <2>2. PICK k : k = IF f.msg \in Hellos THEN EpochOf[f.msg] ELSE n
    OBVIOUS
  <2>3. Bears("epoch", fresh, k)
    BY <2>1, <2>2 DEF Bears, NewSession, NewPeer
  <2>4. PICK acked : acked = IF f.piggy = NoSeq THEN Nothing(fresh)
                             ELSE ApplyAck(fresh, Whole(f.piggy))
    OBVIOUS
  <2>5. Bears("epoch", acked.peer, k)
    <3>1. Bears("epoch", ApplyAck(fresh, Whole(f.piggy)).peer, k)
      BY <2>3, MarkOfAck
    <3>2. Nothing(fresh).peer = fresh
      BY DEF Nothing
    <3> QED  BY <2>3, <2>4, <3>1, <3>2
  <2>6. PICK x : x = acked.peer
    OBVIOUS
  <2>7. PICK data : data = ReceiveData(x, f)
    OBVIOUS
  <2>8. Bears("epoch", data.peer, k)
    BY <2>5, <2>6, <2>7, MarkOfData
  <2>9. PICK v : v = OnReceive(p, f)
    OBVIOUS
  <2>10. v = [data EXCEPT !.out = acked.out, !.done = acked.done]
    BY <1>2, <2>1, <2>4, <2>6, <2>7, <2>9 DEF OnReceive
  <2>11. data = [peer |-> data.peer, out |-> data.out, done |-> data.done, deliver |-> data.deliver]
    BY <2>7 DEF ReceiveData, Reassemble, Nothing
  <2>12. v.peer = data.peer
    BY <2>10, <2>11
  <2> QED  BY <1>2, <2>2, <2>8, <2>9, <2>12
<1> QED  BY <1>1, <1>2

LEMMA MarkOfSend ==
  ASSUME NEW k \in Marks, NEW p, NEW n, Bears(k, p, n)
  PROVE  /\ \A m, s : Bears(k, Enqueue(p, m, s).peer, n)
         /\ Bears(k, DrainAcks(p).peer, n)
         /\ \A e : Bears(k, Settled(e, p).peer, n)
         /\ \A ks : Bears(k, OnKeyed(p, ks), n)
         /\ \A j : Bears(k, ExpireReasm(p, j).peer, n)
         /\ Bears(k, Timeout(p).peer, n) \/ Timeout(p).peer = NewPeer
<1>1. Bears(k, DrainAcks(p).peer, n)
  BY DEF Bears, DrainAcks, Nothing
<1>2. ASSUME NEW e  PROVE Bears(k, Settled(e, p).peer, n)
  BY <1>1 DEF Settled, Nothing
<1>3. ASSUME NEW ks  PROVE Bears(k, OnKeyed(p, ks), n)
  BY DEF Bears, OnKeyed
<1>4. ASSUME NEW j  PROVE Bears(k, ExpireReasm(p, j).peer, n)
  BY DEF Bears, ExpireReasm, Nothing
<1>5. Bears(k, Timeout(p).peer, n) \/ Timeout(p).peer = NewPeer
  <2>1. Bears(k, Retry(p).peer, n)
    BY DEF Bears, Retry, Nothing
  <2>2. GiveUp(p).peer = NewPeer \/ GiveUp(p) = StartNext(p)
    BY DEF GiveUp, Nothing
  <2>3. Bears(k, StartNext(p).peer, n)
    BY MarkOfStart
  <2> QED  BY <2>1, <2>2, <2>3 DEF Timeout
<1>6. ASSUME NEW m, NEW s  PROVE Bears(k, Enqueue(p, m, s).peer, n)
  <2>1. PICK entry, carries : /\ entry = [seq |-> s, msg |-> m]
                              /\ carries = (p.owed.seq # NoSeq /\ p.owed.whole)
    OBVIOUS
  <2>2. PICK z : z = IF carries THEN [p EXCEPT !.owed = NoAck] ELSE p
    OBVIOUS
  <2>3. Bears(k, z, n)
    BY <2>2 DEF Bears
  <2>4. PICK started : started = StartPending(z, entry)
    OBVIOUS
  <2>5. Bears(k, started.peer, n)
    BY <2>3, <2>4, MarkOfStart
  <2>6. started = [peer |-> started.peer, out |-> started.out, done |-> started.done,
                   deliver |-> started.deliver]
    BY <2>4 DEF StartPending, Nothing
  <2>7. PICK v : v = Enqueue(p, m, s)
    OBVIOUS
  <2>8. CASE Idle(p)
    <3>1. \E o : v = [started EXCEPT !.out = o]
      BY <2>1, <2>2, <2>4, <2>7, <2>8, Zenon DEF Enqueue
    <3>2. v.peer = started.peer
      BY <2>6, <3>1
    <3> QED  BY <2>5, <2>7, <3>2
  <2>9. CASE ~ Idle(p)
    <3>1. v.peer = p \/ \E q : v.peer = [p EXCEPT !.queue = q]
      BY <2>7, <2>9 DEF Enqueue, Nothing
    <3> QED  BY <2>7, <3>1 DEF Bears
  <2> QED  BY <2>8, <2>9
<1> QED  BY <1>1, <1>2, <1>3, <1>4, <1>5, <1>6

-----------------------------------------------------------------------------
(* Numbers.  As long as they have not gone round, a number means one        *)
(* message of the process that gave it.                                     *)
NotRound == \A e \in Ends : nextSeq[e] + 1 < SeqSpace

(* The epochs a station's HELLOs have borne before its n-th restart, and    *)
(* the zero of a gateway that has heard none.                               *)
Earlier(n) ==
  {0} \cup {EpochOf[BootHello[k]] : k \in {j \in 0 .. n - 1 : BootHello[j] # NoMsg}}
      \cup {EpochOf[m] : m \in Hellos \cap (Outbox[Station] \cup Broadcasts[Station])}

(* Each restart draws an epoch that was not used before: random_epoch() in  *)
(* station.rs draws 16 bits, which makes it likely and not certain.         *)
NewEpochs ==
  \A n \in 1 .. MaxRestarts[Station] :
    BootHello[n] # NoMsg => EpochOf[BootHello[n]] \notin Earlier(n)

Epochs == Earlier(used.restarts[Station] + 1)
Boot == BootHello[used.restarts[Station]]

(* The other end has in its record only what the running process of e sent. *)
Current(e) ==
  \/ used.restarts[e] = 0
  \/ e = Station /\ Boot # NoMsg /\ peer[Gateway].epoch = EpochOf[Boot]

(* own[e]: the numbers the running process of e has given.                  *)
Ledger(own) ==
  /\ own \in [Ends -> SUBSET Pairs]
  /\ \A e \in Ends :
       /\ \A x \in own[e] : x[2] < nextSeq[e]
       /\ Single(own[e])
       /\ Fine(e, own[e], Pairs)
       /\ Current(Other(e)) => Fine(e, own[e], own[Other(e)])
  /\ peer[Gateway].epoch \in Epochs
  /\ \A x \in own[Station] : x[1] \in Hellos => EpochOf[x[1]] \in Epochs

LEMMA SingleMore ==
  ASSUME NEW A \in SUBSET Pairs, NEW s \in Seqs, NEW m \in Msgs, Single(A),
         \A x \in A : x[2] < s, s + 1 < SeqSpace
  PROVE  /\ Single(A \cup {<<m, s>>}) /\ A \cup {<<m, s>>} \in SUBSET Pairs
         /\ \A x \in A \cup {<<m, s>>} : x[2] < NextSeq(s)
<1>1. s \in Nat /\ NextSeq(s) = s + 1 /\ Seqs \subseteq Nat
  BY Limits, Numbers
<1>2. <<m, s>> \in Pairs
  BY DEF Pairs
<1>3. \A x \in A : x \in Pairs /\ x[2] \in Nat
  BY <1>1 DEF Pairs
<1>4. ASSUME NEW x \in A \cup {<<m, s>>}  PROVE x[2] < NextSeq(s)
  BY <1>1, <1>3, <1>4
<1>5. ASSUME NEW y \in Msgs  PROVE <<y, s>> \notin A
  BY <1>1
<1>6. Single(A \cup {<<m, s>>})
  <2>1. SUFFICES ASSUME NEW x \in Msgs, NEW y \in Msgs, NEW t \in Seqs,
                        <<x, t>> \in A \cup {<<m, s>>}, <<y, t>> \in A \cup {<<m, s>>}
                 PROVE  x = y
    BY DEF Single
  <2>2. CASE t = s
    BY <1>5, <2>1, <2>2
  <2>3. CASE t # s
    BY <2>1, <2>3 DEF Single
  <2> QED  BY <2>2, <2>3
<1> QED  BY <1>2, <1>4, <1>6

(* A ledger that has lost nothing of an end that does not restart.          *)
Extends(own, new) == \A x \in Ends : MaxRestarts[x] = 0 => own[x] \subseteq new[x]

LEMMA LedgerStep ==
  ASSUME NEW own, Ledger(own), Shape, NEW e \in Ends, NEW A \in SUBSET Pairs, own[e] \subseteq A,
         Single(A), \A x \in A : x[2] < nextSeq'[e],
         nextSeq'[Other(e)] = nextSeq[Other(e)], Untouched(e), used'.restarts = used.restarts,
         Fine(e, A, Pairs)', Current(Other(e))' => Fine(e, A, own[Other(e)])',
         peer'[Gateway].epoch \in Epochs,
         e = Station => \A x \in A : x[1] \in Hellos => EpochOf[x[1]] \in Epochs
  PROVE  \E new : Ledger(new)' /\ Extends(own, new)
<1>1. PICK new : new = [own EXCEPT ![e] = A]
  OBVIOUS
<1>2. PICK o : o = Other(e)
  OBVIOUS
<1>3. o \in Ends /\ o # e /\ Other(o) = e /\ \A x \in Ends : x = e \/ x = o
  BY <1>2, EndsAre
<1>4. new \in [Ends -> SUBSET Pairs] /\ new[e] = A /\ new[o] = own[o]
  BY <1>1, <1>3 DEF Ledger
<1>5. Epochs' = Epochs
  BY DEF Epochs
<1>6. Current(e)' => Current(e)
  BY <1>2, EndsAre, EndsAssumption DEF Current, Boot, Untouched, Ends, Other
<1>7. Fine(o, own[o], Pairs)'
  BY <1>2, <1>3, OtherFine DEF Ledger
<1>8. Current(e)' => Fine(o, own[o], A)'
  <2>1. ASSUME Current(e)  PROVE Fine(o, own[o], A)
    <3>1. Fine(o, own[o], own[e])
      BY <1>3, <2>1 DEF Ledger
    <3> QED  BY <3>1, Widened DEF Fine
  <2> QED  BY <1>2, <1>6, <2>1, OtherFine
<1>9. \A x \in new[e] : x[2] < nextSeq'[e]
  BY <1>4
<1>10. \A x \in new[o] : x[2] < nextSeq'[o]
  BY <1>2, <1>3, <1>4 DEF Ledger
<1>11. Single(new[e]) /\ Single(new[o])
  BY <1>3, <1>4 DEF Ledger
<1>12. \A x \in new[Station] : x[1] \in Hellos => EpochOf[x[1]] \in Epochs
  <2>1. CASE e = Station
    BY <1>4, <2>1
  <2>2. CASE e # Station
    BY <1>3, <1>4, <2>2 DEF Ledger, Ends
  <2> QED  BY <2>1, <2>2
<1>13. ASSUME NEW x \in Ends
       PROVE  /\ \A y \in new[x] : y[2] < nextSeq'[x]
              /\ Single(new[x])
              /\ Fine(x, new[x], Pairs)'
              /\ Current(Other(x))' => Fine(x, new[x], new[Other(x)])'
  <2>1. CASE x = e
    BY <1>2, <1>4, <1>9, <1>11, <2>1
  <2>2. CASE x = o
    BY <1>3, <1>4, <1>7, <1>8, <1>10, <1>11, <2>2
  <2> QED  BY <1>3, <2>1, <2>2
<1>14. Ledger(new)'
  BY <1>4, <1>5, <1>12, <1>13 DEF Ledger
<1>15. Extends(own, new)
  BY <1>3, <1>4 DEF Extends
<1> QED  BY <1>14, <1>15

(* What the record of the station keeps of its epoch.                       *)
LEMMA BearsIt ==
  ASSUME Shape, NEW e \in Ends
  PROVE  /\ Bears("epoch", peer[e], peer[e].epoch) /\ peer[e].epoch \in Nat
         /\ Current(Station) <=> \/ used.restarts[Station] = 0
                                 \/ Boot # NoMsg /\ peer[Gateway].epoch = EpochOf[Boot]
         /\ Current(Gateway) <=> used.restarts[Gateway] = 0
<1>1. peer[e] \in Records
  BY DEF Shape
<1>2. Bears("epoch", peer[e], peer[e].epoch) /\ peer[e].epoch \in Nat
  BY <1>1 DEF Bears, Records
<1> QED  BY <1>2, EndsAssumption DEF Current

(* An end that keeps its epoch is no more current than it was.              *)
LEMMA CurrentKept ==
  ASSUME Shape, NEW e \in Ends, used'.restarts = used.restarts, Untouched(e),
         peer'[e].epoch = peer[e].epoch
  PROVE  /\ Current(Other(e))' => Current(Other(e))
         /\ peer'[Gateway].epoch = peer[Gateway].epoch
<1>1. peer'[Gateway].epoch = peer[Gateway].epoch
  BY EndsAre, EndsAssumption DEF Untouched, Ends, Other
<1> QED  BY <1>1 DEF Current, Boot

LEMMA LedgerSubmit ==
  ASSUME NEW own, Ledger(own), Shape, NotRound, NEW e \in Ends, NEW m \in todo[e], Submit(e, m)
  PROVE  \E new : Ledger(new)' /\ Extends(own, new)
<1>1. PICK s \in Seqs : s = nextSeq[e]
  BY DEF Shape
<1>2. m \in Msgs /\ s + 1 < SeqSpace /\ m \in Outbox[e] \cup Broadcasts[e]
  BY <1>1 DEF Shape, NotRound
<1>3. PICK O \in SUBSET Pairs : O = own[e]
  BY DEF Ledger
<1>4. Single(O) /\ \A x \in O : x[2] < s
  BY <1>1, <1>3 DEF Ledger
<1>5. PICK A : A = O \cup {<<m, s>>}
  OBVIOUS
<1>6. Single(A) /\ A \in SUBSET Pairs /\ \A x \in A : x[2] < NextSeq(s)
  BY <1>2, <1>4, <1>5, SingleMore
<1>7. Fine(e, A, Pairs)
  BY <1>3, <1>5, Widened DEF Ledger, Fine
<1>8. Current(Other(e)) => Fine(e, A, own[Other(e)])
  BY <1>3, <1>5, Widened DEF Ledger, Fine
<1>9. <<m, nextSeq[e]>> \in A
  BY <1>1, <1>5
<1>10. Fine(e, A, Pairs)' /\ Untouched(e)
  BY <1>7, <1>9, SubmitFine
<1>11. Current(Other(e)) => Fine(e, A, own[Other(e)])'
  BY <1>8, <1>9, SubmitFine
<1>12. /\ nextSeq'[e] = NextSeq(s) /\ nextSeq'[Other(e)] = nextSeq[Other(e)]
       /\ used'.restarts = used.restarts
  BY <1>1, EndsAre DEF Submit, Shape
<1>13. peer'[e].epoch = peer[e].epoch
  <2>1. PICK p, n : p = peer[e] /\ n = p.epoch
    OBVIOUS
  <2>2. Bears("epoch", p, n)
    BY <2>1, BearsIt
  <2>3. PICK sent, x : sent = Enqueue(p, m, s) /\ x = sent.peer
    OBVIOUS
  <2>4. Bears("epoch", x, n)
    BY <2>2, <2>3, MarkOfSend
  <2>5. PICK dr : dr = Settled(e, x)
    OBVIOUS
  <2>6. Bears("epoch", dr.peer, n)
    BY <2>4, <2>5, MarkOfSend
  <2>7. dr = [peer |-> dr.peer, out |-> dr.out, done |-> dr.done, deliver |-> dr.deliver]
    BY <2>5 DEF Settled, DrainAcks, Nothing
  <2>8. SendTo(e, m) = [dr EXCEPT !.out = sent.out \cup @]
    BY <1>1, <2>1, <2>3, <2>5 DEF SendTo
  <2>9. SendTo(e, m).peer = dr.peer
    BY <2>7, <2>8
  <2>10. peer'[e] = dr.peer
    BY <2>9 DEF Submit, Shape
  <2> QED  BY <2>1, <2>6, <2>10 DEF Bears
<1>14. /\ Current(Other(e))' => Fine(e, A, own[Other(e)])'
       /\ peer'[Gateway].epoch \in Epochs
  BY <1>10, <1>11, <1>12, <1>13, CurrentKept DEF Ledger
<1>15. e = Station => \A x \in A : x[1] \in Hellos => EpochOf[x[1]] \in Epochs
  <2>1. ASSUME e = Station, m \in Hellos  PROVE EpochOf[m] \in Epochs
    BY <1>2, <2>1 DEF Epochs, Earlier
  <2> QED  BY <1>3, <1>5, <2>1 DEF Ledger
<1>16. \A x \in A : x[2] < nextSeq'[e]
  BY <1>6, <1>12
<1>17. own[e] \subseteq A /\ A \in SUBSET Pairs /\ Single(A)
  BY <1>3, <1>5, <1>6
<1> QED  BY <1>10, <1>12, <1>14, <1>15, <1>16, <1>17, LedgerStep

LEMMA LedgerBroadcast ==
  ASSUME NEW own, Ledger(own), Shape, NotRound, NEW e \in Ends, NEW m \in todo[e],
         Broadcast(e, m)
  PROVE  \E new : Ledger(new)' /\ Extends(own, new)
<1>1. PICK s \in Seqs : s = nextSeq[e]
  BY DEF Shape
<1>2. m \in Msgs /\ s + 1 < SeqSpace /\ m \in Outbox[e] \cup Broadcasts[e]
  BY <1>1 DEF Shape, NotRound
<1>3. PICK O \in SUBSET Pairs : O = own[e]
  BY DEF Ledger
<1>4. Single(O) /\ \A x \in O : x[2] < s
  BY <1>1, <1>3 DEF Ledger
<1>5. PICK A : A = O \cup {<<m, s>>}
  OBVIOUS
<1>6. Single(A) /\ A \in SUBSET Pairs /\ \A x \in A : x[2] < NextSeq(s)
  BY <1>2, <1>4, <1>5, SingleMore
<1>7. Fine(e, A, Pairs)
  BY <1>3, <1>5, Widened DEF Ledger, Fine
<1>8. Current(Other(e)) => Fine(e, A, own[Other(e)])
  BY <1>3, <1>5, Widened DEF Ledger, Fine
<1>9. <<m, nextSeq[e]>> \in A
  BY <1>1, <1>5
<1>10. Fine(e, A, Pairs)' /\ Untouched(e)
  BY <1>7, <1>9, BroadcastFine
<1>11. Current(Other(e)) => Fine(e, A, own[Other(e)])'
  BY <1>8, <1>9, BroadcastFine
<1>12. /\ nextSeq'[e] = NextSeq(s) /\ nextSeq'[Other(e)] = nextSeq[Other(e)]
       /\ used'.restarts = used.restarts /\ peer' = peer
  BY <1>1, EndsAre DEF Broadcast, Shape
<1>14. /\ Current(Other(e))' => Fine(e, A, own[Other(e)])'
       /\ peer'[Gateway].epoch \in Epochs
  BY <1>10, <1>11, <1>12, CurrentKept DEF Ledger
<1>15. e = Station => \A x \in A : x[1] \in Hellos => EpochOf[x[1]] \in Epochs
  <2>1. ASSUME e = Station, m \in Hellos  PROVE EpochOf[m] \in Epochs
    BY <1>2, <2>1 DEF Epochs, Earlier
  <2> QED  BY <1>3, <1>5, <2>1 DEF Ledger
<1>16. \A x \in A : x[2] < nextSeq'[e]
  BY <1>6, <1>12
<1>17. own[e] \subseteq A /\ A \in SUBSET Pairs /\ Single(A)
  BY <1>3, <1>5, <1>6
<1> QED  BY <1>10, <1>12, <1>14, <1>15, <1>16, <1>17, LedgerStep

(* A step that gives no number and keeps the epoch.                         *)
LEMMA LedgerKeep ==
  ASSUME NEW own, Ledger(own), Shape, NEW e \in Ends, Untouched(e),
         nextSeq' = nextSeq, used'.restarts = used.restarts,
         Fine(e, own[e], Pairs)', Current(Other(e))' => Fine(e, own[e], own[Other(e)])',
         peer'[Gateway].epoch \in Epochs
  PROVE  \E new : Ledger(new)' /\ Extends(own, new)
<1>1. PICK A \in SUBSET Pairs : A = own[e]
  BY DEF Ledger
<1>2. own[e] \subseteq A /\ Single(A) /\ \A x \in A : x[2] < nextSeq'[e]
  BY <1>1 DEF Ledger
<1>3. e = Station => \A x \in A : x[1] \in Hellos => EpochOf[x[1]] \in Epochs
  BY <1>1 DEF Ledger
<1>4. Fine(e, A, Pairs)' /\ (Current(Other(e))' => Fine(e, A, own[Other(e)])')
  BY <1>1
<1>5. nextSeq'[Other(e)] = nextSeq[Other(e)]
  OBVIOUS
<1> QED  BY <1>2, <1>3, <1>4, <1>5, LedgerStep

LEMMA LedgerKey ==
  ASSUME NEW own, Ledger(own), Shape, NEW e \in Ends, NEW f \in txq[e], NEW arrives \in BOOLEAN,
         Key(e, f, arrives) \/ Discard(e, f)
  PROVE  \E new : Ledger(new)' /\ Extends(own, new)
<1>1. PICK A, B : A = own[e] /\ B = own[Other(e)]
  OBVIOUS
<1>2. Fine(e, A, Pairs)' /\ Untouched(e)
  BY <1>1, KeyFine, DiscardFine DEF Ledger
<1>3. Current(Other(e)) => Fine(e, A, B)'
  BY <1>1, KeyFine, DiscardFine DEF Ledger
<1>4. nextSeq' = nextSeq /\ peer' = peer /\ used'.restarts = used.restarts
  BY DEF Key, Discard, Shape, Spent
<1>5. /\ Current(Other(e))' => Fine(e, A, B)'
      /\ peer'[Gateway].epoch \in Epochs
  BY <1>2, <1>3, <1>4, CurrentKept DEF Ledger
<1> QED  BY <1>1, <1>2, <1>4, <1>5, LedgerKeep

(* A tick that changes the epoch has forgotten the other end.               *)
LEMMA TickForgets ==
  ASSUME Shape, NEW e \in Ends, NEW n \in 0 .. Len(peer[e].reasm),
         NEW what \in {"quiet", "timeout", "idle"}, TickAs(e, n, what)
  PROVE  \/ peer'[e].epoch = peer[e].epoch
         \/ peer'[e].epoch = 0 /\ \A A, B : Good(peer'[e], A, B)
<1>1. PICK p, k : p = peer[e] /\ k = p.epoch
  OBVIOUS
<1>2. Bears("epoch", p, k)
  BY <1>1, BearsIt
<1>3. PICK started : started = DrainKeyed(e)
  OBVIOUS
<1>4. Bears("epoch", started, k)
  BY <1>1, <1>2, <1>3, MarkOfSend DEF DrainKeyed
<1>5. PICK aged, q : aged = ExpireReasm(started, n) /\ q = aged.peer
  OBVIOUS
<1>6. Bears("epoch", q, k)
  BY <1>4, <1>5, MarkOfSend
<1>7. PICK nx : nx = CASE what = "quiet" -> Nothing(q)
                       [] what = "timeout" -> Timeout(q)
                       [] what = "idle" -> Nothing(NewPeer)
  OBVIOUS
<1>8. PICK y : y = nx.peer
  OBVIOUS
<1>9. Bears("epoch", y, k) \/ y = NewPeer
  <2>1. CASE what = "quiet"
    BY <1>6, <1>7, <1>8, <2>1 DEF Nothing
  <2>2. CASE what = "timeout"
    <3>1. y = Timeout(q).peer
      BY <1>7, <1>8, <2>2
    <3> QED  BY <1>6, <3>1, MarkOfSend
  <2>3. CASE what = "idle"
    BY <1>7, <1>8, <2>3 DEF Nothing
  <2> QED  BY <2>1, <2>2, <2>3
<1>10. PICK dr : dr = Settled(e, y)
  OBVIOUS
<1>11. peer' = [peer EXCEPT ![e] = dr.peer]
  BY <1>3, <1>5, <1>7, <1>8, <1>10 DEF TickAs
<1>12. peer'[e] = dr.peer
  BY <1>11 DEF Shape
<1>13. CASE Bears("epoch", y, k)
  <2>1. Bears("epoch", dr.peer, k)
    BY <1>10, <1>13, MarkOfSend
  <2> QED  BY <1>1, <1>12, <2>1 DEF Bears
<1>14. CASE y = NewPeer
  <2>1. ASSUME NEW A, NEW B  PROVE Good(dr.peer, A, B)
    <3>1. Good(y, A, B)
      BY <1>14, FreshGood
    <3> QED  BY <1>10, <3>1, SettledSound DEF Sound
  <2>2. PICK z : z = 0
    OBVIOUS
  <2>3. Bears("epoch", y, z)
    BY <1>14, <2>2 DEF NewPeer, Bears
  <2>4. Bears("epoch", dr.peer, z)
    BY <1>10, <2>3, MarkOfSend
  <2> QED  BY <1>12, <2>1, <2>2, <2>4 DEF Bears
<1> QED  BY <1>9, <1>13, <1>14

LEMMA LedgerTick ==
  ASSUME NEW own, Ledger(own), Shape, NEW e \in Ends, NEW n \in 0 .. Len(peer[e].reasm),
         NEW what \in {"quiet", "timeout", "idle"}, TickAs(e, n, what)
  PROVE  \E new : Ledger(new)' /\ Extends(own, new)
<1>1. PICK A, B : A = own[e] /\ B = own[Other(e)]
  OBVIOUS
<1>2. Fine(e, A, Pairs)' /\ Untouched(e)
  BY <1>1, TickFine DEF Ledger
<1>3. Current(Other(e)) => Fine(e, A, B)'
  BY <1>1, TickFine DEF Ledger
<1>4. nextSeq' = nextSeq /\ used'.restarts = used.restarts
  BY DEF TickAs, Shape, Spent
<1>5. /\ Current(Other(e))' => Fine(e, A, B)'
      /\ peer'[Gateway].epoch \in Epochs
  <2>1. CASE peer'[e].epoch = peer[e].epoch
    BY <1>2, <1>3, <1>4, <2>1, CurrentKept DEF Ledger
  <2>2. CASE peer'[e].epoch = 0 /\ \A C, D : Good(peer'[e], C, D)
    <3>1. Good(peer'[e], A, B)
      BY <2>2
    <3>2. Fine(e, A, B)'
      BY <1>2, <3>1 DEF Fine
    <3>3. 0 \in Epochs
      BY DEF Epochs, Earlier
    <3>4. peer'[Gateway].epoch = 0 \/ peer'[Gateway].epoch = peer[Gateway].epoch
      BY <1>2, <2>2, EndsAre, EndsAssumption DEF Untouched, Ends, Other
    <3> QED  BY <3>2, <3>3, <3>4 DEF Ledger
  <2> QED  BY <2>1, <2>2, TickForgets
<1> QED  BY <1>1, <1>2, <1>4, <1>5, LedgerKeep

(* What a frame does to a record, when the record holds only what the       *)
(* running process of the other end sent, or the frame starts a session.    *)
LEMMA HeardSound ==
  ASSUME NEW own, Ledger(own), Shape, NEW e \in Ends, NEW f \in air[e], NEW A, own[e] \subseteq A
  PROVE  /\ Sound(HandleRf(e, f), A, Pairs)
         /\ Current(Other(e)) => Sound(HandleRf(e, f), A, own[Other(e)])
         /\ HandleRf(e, f).peer.epoch # peer[e].epoch =>
              /\ Sound(HandleRf(e, f), A, own[Other(e)])
              /\ \E x \in own[Other(e)] : x[1] \in Hellos /\ HandleRf(e, f).peer.epoch = EpochOf[x[1]]
<1>1. PICK p, n, B : p = peer[e] /\ n = p.epoch /\ B = own[Other(e)]
  OBVIOUS
<1>2. PICK v : v = HandleRf(e, f)
  OBVIOUS
<1>3. v = OnReceive(p, f)
  BY <1>1, <1>2 DEF HandleRf
<1>4. Carried(f, B) /\ Carried(f, Pairs)
  <2>1. Carries(air[e], B)
    BY <1>1, EndsAre DEF Ledger, Fine
  <2>2. B \subseteq Pairs
    BY <1>1, EndsAre DEF Ledger
  <2> QED  BY <2>1, <2>2 DEF Carries, Carried
<1>5. Good(p, A, Pairs)
  BY <1>1, Widened DEF Ledger, Fine
<1>6. Sound(v, A, Pairs)
  BY <1>3, <1>4, <1>5, OnReceiveSound
<1>7. ASSUME Current(Other(e))  PROVE Sound(v, A, B)
  <2>1. Good(p, A, B)
    BY <1>1, <1>7, Widened DEF Ledger, Fine
  <2> QED  BY <1>3, <1>4, <2>1, OnReceiveSound
<1>8. ASSUME v.peer.epoch # n
      PROVE  Sound(v, A, B) /\ \E x \in B : x[1] \in Hellos /\ v.peer.epoch = EpochOf[x[1]]
  <2>1. Bears("epoch", p, n)
    BY <1>1, BearsIt
  <2>2. f.kind # "ACK" /\ f.msg \in Hellos /\ v.peer.epoch = EpochOf[f.msg]
    BY <1>3, <1>8, <2>1, EpochOfReceive DEF Bears
  <2>3. f \in Data /\ f.kind = "DATA"
    BY <1>4, <2>2 DEF Carried, Frames, Data
  <2>4. <<f.msg, f.seq>> \in B
    BY <1>4, <2>3 DEF Carried
  <2>5. PICK k \in Nat : k = EpochOf[f.msg]
    BY <2>2, MsgsAssumption
  <2>6. k # p.epoch
    BY <1>1, <1>8, <2>2, <2>5
  <2>7. NewSession(p, f.msg) = [NewPeer EXCEPT !.epoch = k]
    BY <2>2, <2>5, <2>6 DEF NewSession
  <2>8. Good(NewSession(p, f.msg), A, B)
    BY <2>7, NewPeerGood
  <2>9. Sound(v, A, B)
    BY <1>3, <2>3, <2>4, <2>8, OnDataSound
  <2>10. PICK x : x = <<f.msg, f.seq>>
    OBVIOUS
  <2> QED  BY <2>2, <2>4, <2>9, <2>10
<1> QED  BY <1>1, <1>2, <1>6, <1>7, <1>8

LEMMA ReceiveEpoch ==
  ASSUME Shape, NEW e \in Ends, NEW f \in air[e], NEW reply, ReceiveAs(e, f, reply),
         NEW n, Bears("epoch", HandleRf(e, f).peer, n)
  PROVE  peer'[e].epoch = n
<1>1. PICK p : p = HandleRf(e, f).peer
  OBVIOUS
<1>2. PICK said, x : /\ said = IF reply = NoMsg THEN Nothing(p) ELSE Enqueue(p, reply, nextSeq[e])
                     /\ x = said.peer
  OBVIOUS
<1>3. Bears("epoch", x, n)
  <2>1. Bears("epoch", Enqueue(p, reply, nextSeq[e]).peer, n)
    BY <1>1, MarkOfSend
  <2> QED  BY <1>1, <1>2, <2>1 DEF Nothing
<1>4. PICK dr : dr = IF e = Gateway THEN DrainAcks(x) ELSE Nothing(x)
  OBVIOUS
<1>5. Bears("epoch", dr.peer, n)
  <2>1. Bears("epoch", DrainAcks(x).peer, n)
    BY <1>3, MarkOfSend
  <2> QED  BY <1>3, <1>4, <2>1 DEF Nothing
<1>6. peer' = [peer EXCEPT ![e] = dr.peer]
  BY <1>1, <1>2, <1>4 DEF ReceiveAs
<1> QED  BY <1>5, <1>6 DEF Shape, Bears

LEMMA LedgerReceive ==
  ASSUME NEW own, Ledger(own), Shape, NotRound, NEW e \in Ends, NEW f \in air[e],
         NEW reply \in Msgs \cup {NoMsg}, reply # NoMsg => e = Gateway, ReceiveAs(e, f, reply)
  PROVE  \E new : Ledger(new)' /\ Extends(own, new)
<1>1. PICK s \in Seqs : s = nextSeq[e]
  BY DEF Shape
<1>2. PICK O \in SUBSET Pairs : O = own[e]
  BY DEF Ledger
<1>3. Single(O) /\ (\A x \in O : x[2] < s) /\ s + 1 < SeqSpace
  BY <1>1, <1>2 DEF Ledger, NotRound
<1>4. PICK A : A = IF reply = NoMsg THEN O ELSE O \cup {<<reply, s>>}
  OBVIOUS
<1>5. PICK t : t = IF reply = NoMsg THEN s ELSE NextSeq(s)
  OBVIOUS
<1>6. O \subseteq A /\ A \in SUBSET Pairs /\ Single(A) /\ \A x \in A : x[2] < t
  <2>1. CASE reply = NoMsg
    BY <1>3, <1>4, <1>5, <2>1
  <2>2. CASE reply # NoMsg
    <3>1. reply \in Msgs
      BY <2>2
    <3> QED  BY <1>3, <1>4, <1>5, <2>2, <3>1, SingleMore
  <2> QED  BY <2>1, <2>2
<1>7. reply # NoMsg => <<reply, nextSeq[e]>> \in A
  BY <1>1, <1>4
<1>8. Carries(txq[e], A) /\ Carries(air[Other(e)], A)
  BY <1>2, <1>6, Widened DEF Ledger, Fine
<1>9. PICK B : B = own[Other(e)]
  OBVIOUS
<1>10. PICK p : p = HandleRf(e, f).peer
  OBVIOUS
<1>11. own[e] \subseteq A
  BY <1>2, <1>6
<1>12. Fine(e, A, Pairs)' /\ Untouched(e)
  <2>1. Sound(HandleRf(e, f), A, Pairs)
    BY <1>11, HeardSound
  <2> QED  BY <1>7, <1>8, <2>1, ReceiveFine
<1>13. ASSUME Current(Other(e)) \/ p.epoch # peer[e].epoch
       PROVE  Fine(e, A, B)'
  <2>1. Sound(HandleRf(e, f), A, B)
    BY <1>9, <1>10, <1>11, <1>13, HeardSound
  <2> QED  BY <1>7, <1>8, <2>1, ReceiveFine
<1>14. nextSeq'[e] = t /\ nextSeq'[Other(e)] = nextSeq[Other(e)] /\ used'.restarts = used.restarts
  BY <1>1, <1>5, EndsAre DEF ReceiveAs, Shape
<1>15. peer'[e].epoch = p.epoch
  <2>1. p \in Records
    BY <1>10, <1>11, HeardSound DEF Sound, Good, Typed
  <2>2. PICK n : n = p.epoch
    OBVIOUS
  <2>3. Bears("epoch", p, n)
    BY <2>1, <2>2 DEF Bears, Records
  <2> QED  BY <1>10, <2>2, <2>3, ReceiveEpoch
<1>16. Current(Other(e))' => Fine(e, A, B)'
  <2>1. CASE p.epoch = peer[e].epoch
    <3>1. Current(Other(e))' => Current(Other(e))
      BY <1>12, <1>14, <1>15, <2>1, CurrentKept
    <3> QED  BY <1>13, <3>1
  <2>2. CASE p.epoch # peer[e].epoch
    BY <1>13, <2>2
  <2> QED  BY <2>1, <2>2
<1>17. peer'[Gateway].epoch \in Epochs
  <2>1. CASE p.epoch = peer[e].epoch
    BY <1>12, <1>14, <1>15, <2>1, CurrentKept DEF Ledger
  <2>2. CASE p.epoch # peer[e].epoch
    <3>1. CASE e = Gateway
      <4>1. PICK x \in own[Station] : x[1] \in Hellos /\ p.epoch = EpochOf[x[1]]
        BY <1>10, <1>11, <2>2, <3>1, HeardSound DEF Other
      <4> QED  BY <1>15, <3>1, <4>1 DEF Ledger
    <3>2. CASE e # Gateway
      BY <1>12, <3>2, EndsAre DEF Untouched, Ledger, Other
    <3> QED  BY <3>1, <3>2
  <2> QED  BY <2>1, <2>2
<1>18. e = Station => \A x \in A : x[1] \in Hellos => EpochOf[x[1]] \in Epochs
  BY <1>2, <1>4, EndsAssumption DEF Ledger
<1>19. \A x \in A : x[2] < nextSeq'[e]
  BY <1>6, <1>14
<1>20. Current(Other(e))' => Fine(e, A, own[Other(e)])'
  BY <1>9, <1>16
<1> QED  BY <1>6, <1>11, <1>12, <1>14, <1>17, <1>18, <1>19, <1>20, LedgerStep

(* The first number of a process.                                           *)
LEMMA FirstNumber ==
  ASSUME NEW e \in Ends, NEW n \in 0 .. MaxRestarts[Station], e = Station, BootHello[n] # NoMsg
  PROVE  BootSeq(e, n) = NextSeq(1)
<1>1. PICK m \in Msgs, s \in Seqs : m = BootHello[n] /\ s = 1
  BY EndsAssumption, MsgsAssumption, Limits
<1>2. PICK p, entry : p = NewPeer /\ entry = [seq |-> s, msg |-> m]
  OBVIOUS
<1>3. p.owed.seq = NoSeq /\ Idle(p)
  BY <1>2 DEF NewPeer, NoAck, Whole, Idle, NoPending
<1>4. PICK started : started = StartPending(p, entry)
  OBVIOUS
<1>5. started.out = FragsOf(m, s, TRUE) /\ entry.msg = m /\ entry.seq = s
      /\ started = [peer |-> started.peer, out |-> started.out, done |-> started.done,
                    deliver |-> started.deliver]
  BY <1>2, <1>4 DEF StartPending, Nothing
<1>6. PICK v : v = Enqueue(p, m, s)
  OBVIOUS
<1>7. v = [started EXCEPT !.out = {f : f \in started.out}]
  BY <1>2, <1>3, <1>4, <1>6 DEF Enqueue
<1>8. v.out = started.out
  BY <1>5, <1>7
<1>9. started.out # {}
  <2>1. PICK want \in BOOLEAN : want = TRUE
    OBVIOUS
  <2>2. PICK C : <<m, s>> \in C
    <3>1. <<m, s>> \in {<<m, s>>}
      OBVIOUS
    <3> QED  BY <3>1
  <2>3. FragsOf(m, s, want) # {}
    BY <2>2, FragsCarried
  <2> QED  BY <1>5, <2>1, <2>3
<1>10. Booted(e, n) = v
  BY <1>1, <1>2, <1>6 DEF Booted
<1> QED  BY <1>8, <1>9, <1>10 DEF BootSeq

(* What a process gives at its start.                                       *)
BootPairs(e, n) == IF e = Station /\ BootHello[n] # NoMsg THEN {<<BootHello[n], 1>>} ELSE {}

LEMMA BootGives ==
  ASSUME NEW e \in Ends, NEW n \in Nat, e = Station => n \in 0 .. MaxRestarts[Station], SeqSpace > 2
  PROVE  /\ BootPairs(e, n) \in SUBSET Pairs /\ Single(BootPairs(e, n))
         /\ \A x \in BootPairs(e, n) : x[2] < BootSeq(e, n)
         /\ e = Station => \A x \in BootPairs(e, n) : EpochOf[x[1]] \in Earlier(n + 1)
         /\ e = Station /\ BootHello[n] # NoMsg => <<BootHello[n], 1>> \in BootPairs(e, n)
<1>1. CASE e = Station /\ BootHello[n] # NoMsg
  <2>1. n \in 0 .. MaxRestarts[Station]
    BY <1>1
  <2>2. BootHello[n] \in Msgs
    BY <1>1, <2>1, EndsAssumption, MsgsAssumption
  <2>3. PICK m \in Msgs, s \in Seqs : m = BootHello[n] /\ s = 1
    BY <2>2, Limits
  <2>4. BootPairs(e, n) = {<<m, s>>}
    BY <1>1, <2>3 DEF BootPairs
  <2>5. BootSeq(e, n) = 2
    <3>1. NextSeq(1) = 2
      BY LimitsAssumption DEF NextSeq
    <3> QED  BY <1>1, <2>1, <3>1, FirstNumber
  <2>6. EpochOf[m] \in Earlier(n + 1)
    <3>1. n \in {j \in 0 .. (n + 1) - 1 : BootHello[j] # NoMsg}
      BY <1>1
    <3> QED  BY <2>3, <3>1 DEF Earlier
  <2> QED  BY <1>1, <2>3, <2>4, <2>5, <2>6 DEF Pairs, Single
<1>2. CASE ~ (e = Station /\ BootHello[n] # NoMsg)
  BY <1>2 DEF BootPairs, Single
<1> QED  BY <1>1, <1>2

LEMMA EarlierGrows ==
  ASSUME NEW n \in Nat
  PROVE  Earlier(n) \subseteq Earlier(n + 1)
<1>1. \A j \in 0 .. n - 1 : j \in 0 .. (n + 1) - 1
  OBVIOUS
<1> QED  BY <1>1 DEF Earlier

LEMMA LedgerRestart ==
  ASSUME NEW own, Ledger(own), Sane, NotRound, NewEpochs, NEW e \in Ends, Restart(e)
  PROVE  \E new : Ledger(new)' /\ Extends(own, new)
<1>0. Shape
  BY DEF Sane
<1>1. PICK k \in Nat : k = used.restarts[e]
  BY <1>0 DEF Shape, Spent
<1>2. PICK n \in Nat : n = k + 1 /\ n >= 1
  OBVIOUS
<1>3. n <= MaxRestarts[e] /\ (e = Station => n \in 0 .. MaxRestarts[Station])
  BY <1>0, <1>1, <1>2, EndsAssumption DEF Restart, Ends
<1>4. used'.restarts = [used.restarts EXCEPT ![e] = @ + 1]
  BY SaneRestart
<1>5. /\ used'.restarts[e] = n /\ used'.restarts[Other(e)] = used.restarts[Other(e)]
  BY <1>0, <1>1, <1>2, <1>4, EndsAre DEF Shape, Spent
<1>6. SeqSpace > 2
  <2>1. nextSeq[e] \in Seqs /\ nextSeq[e] + 1 < SeqSpace
    BY <1>0 DEF Shape, NotRound
  <2> QED  BY <2>1, Limits DEF Seqs
<1>7. PICK A : A = BootPairs(e, n)
  OBVIOUS
<1>8. /\ A \in SUBSET Pairs /\ Single(A) /\ \A x \in A : x[2] < BootSeq(e, n)
      /\ e = Station => \A x \in A : EpochOf[x[1]] \in Earlier(n + 1)
      /\ e = Station /\ BootHello[n] # NoMsg => <<BootHello[n], 1>> \in A
  BY <1>3, <1>6, <1>7, BootGives
<1>9. ASSUME NEW B  PROVE Fine(e, A, B)'
  <2>1. e = Station /\ BootHello[used.restarts[e] + 1] # NoMsg
          => <<BootHello[used.restarts[e] + 1], 1>> \in A
    BY <1>1, <1>2, <1>8
  <2> QED  BY <1>0, <2>1, RestartFine
<1>10. /\ Untouched(e) /\ nextSeq' = [nextSeq EXCEPT ![e] = BootSeq(e, n)]
       /\ BootSeq(e, n) \in Seqs
  <2>1. e = Station /\ BootHello[used.restarts[e] + 1] # NoMsg
          => <<BootHello[used.restarts[e] + 1], 1>> \in A
    BY <1>1, <1>2, <1>8
  <2> QED  BY <1>0, <1>1, <1>2, <2>1, RestartFine
<1>11. PICK o : o = Other(e)
  OBVIOUS
<1>12. o \in Ends /\ o # e /\ Other(o) = e /\ \A x \in Ends : x = e \/ x = o
  BY <1>11, EndsAre
<1>13. PICK new : new = [own EXCEPT ![e] = A]
  OBVIOUS
<1>14. new \in [Ends -> SUBSET Pairs] /\ new[e] = A /\ new[o] = own[o]
  BY <1>8, <1>12, <1>13 DEF Ledger
<1>15. nextSeq'[e] = BootSeq(e, n) /\ nextSeq'[o] = nextSeq[o]
  BY <1>0, <1>10, <1>12 DEF Shape
<1>16. peer'[Gateway].epoch \in Epochs'
  <2>1. CASE e = Station
    <3>1. Epochs' = Earlier(n + 1) /\ Epochs = Earlier(n)
      BY <1>1, <1>2, <1>5, <2>1 DEF Epochs
    <3>2. peer'[Gateway] = peer[Gateway]
      BY <1>10, <2>1, EndsAssumption DEF Untouched, Other
    <3> QED  BY <3>1, <3>2, EarlierGrows DEF Ledger
  <2>2. CASE e = Gateway
    <3>1. peer'[e].epoch = 0
      <4>1. peer' = [peer EXCEPT ![e] = Booted(e, n).peer]
        BY <1>1, <1>2 DEF Restart
      <4>2. Booted(e, n).peer = NewPeer
        BY <2>2, EndsAssumption DEF Booted, Nothing
      <4> QED  BY <1>0, <4>1, <4>2 DEF Shape, NewPeer
    <3> QED  BY <2>2, <3>1 DEF Epochs, Earlier
  <2> QED  BY <2>1, <2>2 DEF Ends
<1>17. ~ Current(e)'
  <2>1. CASE e = Gateway
    BY <1>2, <1>5, <2>1, EndsAssumption DEF Current
  <2>2. CASE e = Station
    <3>1. peer'[Gateway] = peer[Gateway]
      BY <1>10, <2>2, EndsAssumption DEF Untouched, Other
    <3>2. peer[Gateway].epoch \in Earlier(n)
      BY <1>1, <1>2, <2>2 DEF Ledger, Epochs
    <3>3. Boot' = BootHello[n]
      BY <1>5, <2>2 DEF Boot
    <3>4. n \in 1 .. MaxRestarts[Station]
      BY <1>2, <1>3, <2>2, EndsAssumption
    <3>5. BootHello[n] # NoMsg => EpochOf[BootHello[n]] \notin Earlier(n)
      BY <3>4 DEF NewEpochs
    <3> QED  BY <1>2, <1>5, <3>1, <3>2, <3>3, <3>5 DEF Current
  <2> QED  BY <2>1, <2>2 DEF Ends
<1>18. Fine(o, own[o], Pairs)'
  BY <1>0, <1>10, <1>11, <1>12, OtherFine DEF Ledger
<1>19. \A x \in new[Station] : x[1] \in Hellos => EpochOf[x[1]] \in Epochs'
  <2>1. CASE e = Station
    BY <1>5, <1>8, <1>14, <2>1 DEF Epochs
  <2>2. CASE e # Station
    <3>1. o = Station
      BY <1>12, <2>2 DEF Ends
    <3> QED  BY <1>5, <1>11, <1>14, <3>1 DEF Epochs, Ledger
  <2> QED  BY <2>1, <2>2
<1>20. ASSUME NEW x \in Ends
       PROVE  /\ \A y \in new[x] : y[2] < nextSeq'[x]
              /\ Single(new[x])
              /\ Fine(x, new[x], Pairs)'
              /\ Current(Other(x))' => Fine(x, new[x], new[Other(x)])'
  <2>1. CASE x = e
    BY <1>8, <1>9, <1>14, <1>15, <2>1
  <2>2. CASE x = o
    <3>1. ~ Current(Other(x))'
      BY <1>12, <1>17, <2>2
    <3>2. \A y \in new[x] : y[2] < nextSeq'[x]
      BY <1>12, <1>14, <1>15, <2>2 DEF Ledger
    <3> QED  BY <1>12, <1>14, <1>18, <2>2, <3>1, <3>2 DEF Ledger
  <2> QED  BY <1>12, <2>1, <2>2
<1>21. Ledger(new)'
  BY <1>14, <1>16, <1>19, <1>20 DEF Ledger
<1>22. Extends(own, new)
  BY <1>1, <1>2, <1>3, <1>12, <1>14 DEF Extends
<1> QED  BY <1>21, <1>22

LEMMA LedgerInit ==
  ASSUME Init, NotRound
  PROVE  \E own : Ledger(own)
<1>0. Sane
  BY SaneInit
<1>1. PICK n \in Nat : n = 0
  OBVIOUS
<1>2. n \in 0 .. MaxRestarts[Station] /\ \A e \in Ends : used.restarts[e] = n
  BY <1>1, EndsAssumption DEF Init, Ends
<1>3. PICK own : own = [e \in Ends |-> BootPairs(e, n)]
  OBVIOUS
<1>4. ASSUME NEW e \in Ends
      PROVE  /\ nextSeq[e] = BootSeq(e, n) /\ peer[e] = Booted(e, n).peer
             /\ txq[e] = Booted(e, n).out /\ air[e] = {} /\ SeqSpace > 2
  <2>1. nextSeq[e] \in Seqs /\ nextSeq[e] + 1 < SeqSpace
    BY <1>0 DEF Sane, Shape, NotRound
  <2>2. SeqSpace > 2
    BY <2>1, Limits DEF Seqs
  <2> QED  BY <1>1, <2>2 DEF Init
<1>5. ASSUME NEW e \in Ends
      PROVE  /\ BootPairs(e, n) \in SUBSET Pairs /\ Single(BootPairs(e, n))
             /\ \A x \in BootPairs(e, n) : x[2] < nextSeq[e]
             /\ e = Station => \A x \in BootPairs(e, n) : EpochOf[x[1]] \in Earlier(n + 1)
             /\ e = Station /\ BootHello[n] # NoMsg => <<BootHello[n], 1>> \in BootPairs(e, n)
  BY <1>2, <1>4, BootGives
<1>6. ASSUME NEW e \in Ends, NEW B  PROVE Fine(e, BootPairs(e, n), B)
  <2>1. PICK A : A = BootPairs(e, n)
    OBVIOUS
  <2>2. e = Station /\ BootHello[n] # NoMsg => <<BootHello[n], 1>> \in A
    BY <1>5, <2>1
  <2>3. Sound(Booted(e, n), A, B)
    BY <1>2, <2>2, BootedSound
  <2> QED  BY <1>4, <2>1, <2>3, EndsAre DEF Sound, Fine, Carries
<1>7. peer[Gateway].epoch = 0
  <2>1. Booted(Gateway, n) = Nothing(NewPeer) /\ Gateway \in Ends
    BY EndsAssumption DEF Booted, Ends
  <2> QED  BY <1>4, <2>1 DEF Nothing, NewPeer
<1>8. Epochs = Earlier(n + 1)
  BY <1>2 DEF Epochs, Ends
<1>9. peer[Gateway].epoch \in Epochs
  BY <1>7, <1>8 DEF Earlier
<1>10. \A x \in own[Station] : x[1] \in Hellos => EpochOf[x[1]] \in Epochs
  BY <1>3, <1>5, <1>8 DEF Ends
<1>11. own \in [Ends -> SUBSET Pairs]
  BY <1>3, <1>5
<1>12. ASSUME NEW e \in Ends
       PROVE  /\ \A x \in own[e] : x[2] < nextSeq[e]
              /\ Single(own[e])
              /\ Fine(e, own[e], Pairs)
              /\ Current(Other(e)) => Fine(e, own[e], own[Other(e)])
  <2>1. own[e] = BootPairs(e, n)
    BY <1>3
  <2> QED  BY <1>5, <1>6, <2>1
<1>13. Ledger(own)
  BY <1>9, <1>10, <1>11, <1>12 DEF Ledger
<1> QED  BY <1>13

LEMMA LedgerNext ==
  ASSUME NewEpochs, Sane, NEW own, Ledger(own), NotRound, [Next]_vars
  PROVE  \E new : Ledger(new)' /\ Extends(own, new)
<1>1. Ledger(own)
  OBVIOUS
<1>2. Shape
  BY DEF Sane
<1>3. CASE Next
  <2>1. PICK e \in Ends : Moves(e)
    BY <1>3, NextMoves
  <2>2. CASE \E m \in todo[e] : Submit(e, m) \/ Broadcast(e, m)
    BY <1>1, <1>2, <2>2, LedgerSubmit, LedgerBroadcast
  <2>3. CASE \E f \in txq[e], arrives \in BOOLEAN : Key(e, f, arrives) \/ Discard(e, f)
    BY <1>1, <1>2, <2>3, LedgerKey
  <2>4. CASE \E f \in air[e], reply \in Msgs \cup {NoMsg} :
               /\ reply # NoMsg => e = Gateway
               /\ reply \in Answers(e, HandleRf(e, f).deliver) /\ ReceiveAs(e, f, reply)
    BY <1>1, <1>2, <2>4, LedgerReceive
  <2>5. CASE \E n \in 0 .. Len(peer[e].reasm), what \in {"quiet", "timeout", "idle"} :
               TickAs(e, n, what)
    BY <1>1, <1>2, <2>5, LedgerTick
  <2>6. CASE Restart(e)
    BY <1>1, <2>6, LedgerRestart
  <2> QED  BY <2>1, <2>2, <2>3, <2>4, <2>5, <2>6 DEF Moves
<1>4. CASE vars' = vars
  <2>1. Ledger(own)'
    BY <1>1, <1>4 DEF vars, history, Ledger, Fine, Current, Epochs, Boot
  <2> QED  BY <2>1 DEF Extends
<1> QED  BY <1>3, <1>4

Numbered == Sane /\ \E own : Ledger(own)

LEMMA AlwaysNumbered ==
  ASSUME NewEpochs
  PROVE  Spec /\ []NotRound => []Numbered
<1>1. Init /\ NotRound => Numbered
  BY SaneInit, LedgerInit DEF Numbered
<1>2. Numbered /\ NotRound /\ [Next]_vars => Numbered'
  <2>1. SUFFICES ASSUME Sane, NEW own, Ledger(own), NotRound, [Next]_vars
                 PROVE  Numbered'
    BY DEF Numbered
  <2> QED  BY <2>1, SaneStep, LedgerNext DEF Numbered
<1> QED  BY <1>1, <1>2, PTL DEF Spec

(* A restarted station that says HELLO with an epoch of its own gets the    *)
(* fresh window it needs: once the gateway has it, the numbers the station  *)
(* is going to use are in no record of the gateway (Sessions::on_receive,   *)
(* the epoch test), whatever was lost or is still waiting, and however      *)
(* often either end restarted before.                                       *)
THEOREM NumbersAreFresh ==
  ASSUME NewEpochs
  PROVE  Spec /\ []NotRound => []FreshNumbers
<1>1. Numbered => FreshNumbers
  <2>1. SUFFICES ASSUME Sane, NEW own, Ledger(own), Boot # NoMsg,
                        peer[Gateway].epoch = EpochOf[Boot],
                        NEW i \in DOMAIN peer[Gateway].seen
                 PROVE  peer[Gateway].seen[i] < nextSeq[Station]
    BY DEF Numbered, FreshNumbers, Boot
  <2>2. Gateway \in Ends /\ Station \in Ends /\ Other(Gateway) = Station
    BY EndsAssumption DEF Ends, Other
  <2>3. Current(Station)
    BY <2>1 DEF Current
  <2>4. Good(peer[Gateway], own[Gateway], own[Station])
    BY <2>1, <2>2, <2>3 DEF Ledger, Fine
  <2>5. PICK m \in Msgs : <<m, peer[Gateway].seen[i]>> \in own[Station]
    BY <2>1, <2>4 DEF Good, Hears, Knows
  <2> QED  BY <2>1, <2>2, <2>5 DEF Ledger
<1> QED  BY <1>1, AlwaysNumbered, PTL

(* What is delivered to e never mixes two messages.                         *)
Clean(e) == \A i \in DOMAIN delivered[e] : delivered[e][i].msg # Garbled

LEMMA CleanStep ==
  ASSUME Numbered, NEW e \in Ends, MaxRestarts[Other(e)] = 0, Clean(e), [Next]_vars
  PROVE  Clean(e)'
<1>0. Sane /\ Shape /\ Other(e) \in Ends
  BY EndsAre DEF Numbered, Sane
<1>1. PICK own : Ledger(own)
  BY DEF Numbered
<1>2. Current(Other(e))
  <2>1. PICK k \in Nat : k = used.restarts[Other(e)] /\ k <= 0
    BY <1>0 DEF Shape, Spent
  <2> QED  BY <2>1 DEF Current
<1>3. CASE Next
  <2>1. PICK x \in Ends : Moves(x)
    BY <1>3, NextMoves
  <2>2. CASE \E f \in air[x], reply \in Msgs \cup {NoMsg} :
               /\ reply # NoMsg => x = Gateway
               /\ reply \in Answers(x, HandleRf(x, f).deliver) /\ ReceiveAs(x, f, reply)
    <3>1. PICK f \in air[x], reply \in Msgs \cup {NoMsg} : ReceiveAs(x, f, reply)
      BY <2>2
    <3>2. delivered' \in [Ends -> Seq(Heards)]
      BY <1>0, <3>1, SaneReceive
    <3>3. PICK d, g, c : d = HandleRf(x, f).deliver /\ g = gen'[x] /\ c = delivered[x]
      OBVIOUS
    <3>4. Deliver(x, d)
      BY <3>1, <3>3 DEF ReceiveAs
    <3>5. CASE d = NoMsg
      BY <3>4, <3>5 DEF Deliver, Clean
    <3>6. CASE d # NoMsg /\ x # e
      BY <1>0, <3>4, <3>6 DEF Deliver, Clean, Shape
    <3>7. CASE d # NoMsg /\ x = e
      <4>1. PICK A, B : A = own[e] /\ B = own[Other(e)] /\ Single(B)
        BY <1>0, <1>1 DEF Ledger
      <4>2. Sound(HandleRf(x, f), A, B)
        BY <1>0, <1>1, <1>2, <3>7, <4>1, HeardSound
      <4>3. d # Garbled /\ d \in Msgs
        BY <3>3, <3>7, <4>1, <4>2 DEF Sound
      <4>4. PICK y : y = [msg |-> d, gen |-> g]
        OBVIOUS
      <4>5. gen'[x] \in Nat
        BY <1>0, <3>1, SaneReceive DEF Sane, Shape
      <4>6. y \in Heards /\ c \in Seq(Heards) /\ y.msg # Garbled
        BY <1>0, <3>3, <4>3, <4>4, <4>5 DEF Heards, Shape
      <4>7. PICK z : z = Append(c, y)
        OBVIOUS
      <4>8. PICK l \in Nat : l = Len(c) /\ DOMAIN c = 1 .. l
        BY <4>6
      <4>9. /\ DOMAIN z = 1 .. l + 1 /\ z[l + 1] = y
            /\ \A i \in 1 .. l : z[i] = c[i]
        BY <4>6, <4>7, <4>8, AppendProperties
      <4>10. ASSUME NEW i \in DOMAIN z  PROVE z[i].msg # Garbled
        <5>1. i \in 1 .. l \/ i = l + 1
          BY <4>9
        <5> QED  BY <3>3, <3>7, <4>6, <4>8, <4>9, <5>1 DEF Clean
      <4>11. delivered'[e] = z
        BY <1>0, <3>3, <3>4, <3>7, <4>4, <4>7 DEF Deliver, Shape
      <4> QED  BY <4>10, <4>11 DEF Clean
    <3> QED  BY <3>5, <3>6, <3>7
  <2>3. CASE delivered' = delivered
    BY <2>3 DEF Clean
  <2> QED
    BY <2>1, <2>2, <2>3
       DEF Moves, Submit, Broadcast, Key, Discard, TickAs, Restart, history
<1>4. CASE vars' = vars
  BY <1>4 DEF vars, history, Clean
<1> QED  BY <1>3, <1>4

(* The fragments an end joins are those of one message: no user is ever     *)
(* shown two messages run into one (Sessions::reassemble), as long as the   *)
(* process that sends them is the same and its numbers have not gone round. *)
(* Nothing is asked of the end that hears.                                  *)
THEOREM NothingIsGarbledFrom ==
  ASSUME NewEpochs, NEW e \in Ends, MaxRestarts[e] = 0
  PROVE  Spec /\ []NotRound => [](Garbled \notin Heard(Other(e)))
<1>1. Init => Clean(Other(e))
  BY EndsAre DEF Init, Clean
<1>2. Numbered /\ Clean(Other(e)) /\ [Next]_vars => Clean(Other(e))'
  <2>1. Other(e) \in Ends /\ MaxRestarts[Other(Other(e))] = 0
    BY EndsAre
  <2> QED  BY <2>1, CleanStep
<1>3. Clean(Other(e)) => Garbled \notin Heard(Other(e))
  BY DEF Clean, Heard
<1>4. Spec /\ []NotRound => []Numbered
  BY AlwaysNumbered
<1> QED  BY <1>1, <1>2, <1>3, <1>4, PTL DEF Spec

(* Where neither process restarts, that is NeverGarbled.                    *)
THEOREM NothingIsGarbled ==
  ASSUME \A e \in Ends : MaxRestarts[e] = 0
  PROVE  Spec /\ []NotRound => []NeverGarbled
<1>1. Gateway \in Ends /\ Station \in Ends /\ Other(Gateway) = Station /\ Other(Station) = Gateway
  BY EndsAssumption DEF Ends, Other
<1>2. NewEpochs
  BY <1>1 DEF NewEpochs
<1>3. Init => Clean(Gateway) /\ Clean(Station)
  BY <1>1 DEF Init, Clean
<1>4. Numbered /\ Clean(Gateway) /\ Clean(Station) /\ [Next]_vars
        => Clean(Gateway)' /\ Clean(Station)'
  BY <1>1, CleanStep
<1>5. Clean(Gateway) /\ Clean(Station) => NeverGarbled
  BY DEF Clean, NeverGarbled, Heard, Ends
<1>6. Spec /\ []NotRound => []Numbered
  BY <1>2, AlwaysNumbered
<1> QED  BY <1>3, <1>4, <1>5, <1>6, PTL DEF Spec

-----------------------------------------------------------------------------
(* Delivery at most once.                                                   *)

(* The messages, with their numbers, that some frame or record of e may     *)
(* still bring to the other end.                                            *)
UsedBy(p, T) ==
  {<<f.msg, f.seq>> : f \in {f \in T : f.kind = "DATA"}}
    \cup {<<p.queue[i].msg, p.queue[i].seq>> : i \in DOMAIN p.queue}
    \cup (IF Idle(p) THEN {} ELSE {<<p.pending.msg, p.pending.seq>>})
Uses(e) == UsedBy(peer[e], txq[e] \cup air[Other(e)])

LEMMA UsedByFine ==
  ASSUME NEW p, NEW T, NEW A
  PROVE  /\ Good(p, A, Pairs) /\ Carries(T, A) => UsedBy(p, T) \subseteq A
         /\ Good(p, Pairs, Pairs) /\ Carries(T, Pairs) /\ UsedBy(p, T) \subseteq A
              => Good(p, A, Pairs) /\ Carries(T, A)
<1>1. ASSUME Good(p, A, Pairs), Carries(T, A)
      PROVE  UsedBy(p, T) \subseteq A
  <2>1. ASSUME NEW f \in T, f.kind = "DATA"
        PROVE  <<f.msg, f.seq>> \in A
    BY <1>1, <2>1 DEF Carries, Carried
  <2>2. \A i \in DOMAIN p.queue : <<p.queue[i].msg, p.queue[i].seq>> \in A
    BY <1>1 DEF Good, Sends, Entitled
  <2>3. ~ Idle(p) => <<p.pending.msg, p.pending.seq>> \in A
    BY <1>1 DEF Good, Sends, Entitled, Idle
  <2> QED  BY <2>1, <2>2, <2>3 DEF UsedBy
<1>2. ASSUME Good(p, Pairs, Pairs), Carries(T, Pairs), UsedBy(p, T) \subseteq A
      PROVE  Good(p, A, Pairs) /\ Carries(T, A)
  <2>1. ASSUME NEW f \in T
        PROVE  Carried(f, A)
    <3>1. Carried(f, Pairs)
      BY <1>2 DEF Carries
    <3>2. f.kind = "DATA" => <<f.msg, f.seq>> \in UsedBy(p, T)
      BY DEF UsedBy
    <3> QED  BY <1>2, <3>1, <3>2 DEF Carried
  <2>2. ASSUME NEW i \in DOMAIN p.queue
        PROVE  <<p.queue[i].msg, p.queue[i].seq>> \in A
    BY <1>2 DEF UsedBy
  <2>3. ~ Idle(p) => <<p.pending.msg, p.pending.seq>> \in A
    BY <1>2 DEF UsedBy
  <2>4. Good(p, A, Pairs)
    BY <1>2, <2>2, <2>3 DEF Good, Sends, Entitled, Idle
  <2> QED  BY <2>1, <2>4 DEF Carries
<1> QED  BY <1>1, <1>2

LEMMA UsesFine ==
  ASSUME NEW e \in Ends, NEW A
  PROVE  /\ Fine(e, A, Pairs) => Uses(e) \subseteq A
         /\ Fine(e, A, Pairs)' => Uses(e)' \subseteq A
         /\ Fine(e, Pairs, Pairs) /\ Uses(e) \subseteq A => Fine(e, A, Pairs)
<1>1. PICK p, T, q, U : /\ p = peer[e] /\ T = txq[e] \cup air[Other(e)]
                        /\ q = peer'[e] /\ U = txq'[e] \cup air'[Other(e)]
  OBVIOUS
<1>2. /\ Fine(e, A, Pairs) <=> Good(p, A, Pairs) /\ Carries(T, A)
      /\ Fine(e, Pairs, Pairs) <=> Good(p, Pairs, Pairs) /\ Carries(T, Pairs)
      /\ Fine(e, A, Pairs)' <=> Good(q, A, Pairs) /\ Carries(U, A)
  BY <1>1 DEF Fine, Carries
<1>3. Uses(e) = UsedBy(p, T) /\ Uses(e)' = UsedBy(q, U)
  BY <1>1 DEF Uses
<1> QED  BY <1>2, <1>3, UsedByFine

Plain == Msgs \ Hellos
Answerable == UNION {Replies[h] : h \in Hellos}

(* What e will not send, or answer with, again.                             *)
Gone(e) ==
  {m \in Plain : m \notin todo[e] /\ (e = Gateway /\ m \in Answerable => outcome[m] # "none")}

(* A step after which e gives no new number, or gives its next one to m.    *)
Keeps(e) == Uses(e)' \subseteq Uses(e) /\ Gone(e) \subseteq Gone(e)' /\ nextSeq'[e] >= nextSeq[e]
Gives(e, m) ==
  /\ Uses(e)' \subseteq Uses(e) \cup {<<m, nextSeq[e]>>} /\ nextSeq'[e] > nextSeq[e]
  /\ Gone(e) \subseteq Gone(e)' /\ m \notin Gone(e) /\ m \in Hellos \cup Gone(e)'
(* A step after which the numbers of e start again.                         *)
StartsAgain(e) ==
  /\ \A x \in Uses(e)' : x[1] \in Hellos /\ x[2] < nextSeq'[e]
  /\ Gone(e) \subseteq Gone(e)'

Sent(e) ==
  /\ \A x \in Uses(e) : x[2] < nextSeq[e] /\ x[1] \in Hellos \cup Gone(e)
  /\ \A x, y \in Uses(e) : x[1] = y[1] /\ x[1] \in Plain => x[2] = y[2]

LEMMA SentStep ==
  ASSUME Sane, Sane', NEW e \in Ends, Sent(e),
         Keeps(e) \/ StartsAgain(e) \/ \E m \in Msgs : Gives(e, m)
  PROVE  Sent(e)'
<1>0. /\ nextSeq[e] \in Nat /\ nextSeq'[e] \in Nat
      /\ \A x \in Uses(e) : x[1] \in Msgs /\ x[2] \in Nat
      /\ \A x \in Uses(e)' : x[1] \in Msgs /\ x[2] \in Nat
  <2>1. Uses(e) \subseteq Pairs /\ (Uses(e) \subseteq Pairs)'
    BY UsesFine DEF Sane
  <2>2. \A x \in Pairs : x[1] \in Msgs /\ x[2] \in Nat
    BY Limits DEF Pairs
  <2>3. nextSeq[e] \in Nat /\ nextSeq'[e] \in Nat
    BY Limits DEF Sane, Shape
  <2> QED  BY <2>1, <2>2, <2>3
<1>1. CASE Keeps(e)
  BY <1>0, <1>1 DEF Keeps, Sent
<1>2. CASE StartsAgain(e)
  BY <1>0, <1>2 DEF StartsAgain, Sent, Plain
<1>3. CASE \E m \in Msgs : Gives(e, m)
  <2>1. PICK m \in Msgs : Gives(e, m)
    BY <1>3
  <2>2. PICK n, U : n = nextSeq[e] /\ U = Uses(e)
    OBVIOUS
  <2>3. \A x \in Uses(e)' : x \in U \/ (x[1] = m /\ x[2] = n)
    BY <2>1, <2>2 DEF Gives
  <2>4. /\ \A x \in U : x[2] < n /\ x[1] \in Hellos \cup Gone(e)
        /\ \A x, y \in U : x[1] = y[1] /\ x[1] \in Plain => x[2] = y[2]
    BY <2>2 DEF Sent
  <2>5. nextSeq'[e] > n /\ Gone(e) \subseteq Gone(e)' /\ m \notin Gone(e) /\ m \in Hellos \cup Gone(e)'
    BY <2>1, <2>2 DEF Gives
  <2>6. \A x \in Uses(e)' : x[2] < nextSeq'[e] /\ x[1] \in Hellos \cup Gone(e)'
    BY <1>0, <2>2, <2>3, <2>4, <2>5
  <2>7. \A x, y \in Uses(e)' : x[1] = y[1] /\ x[1] \in Plain => x[2] = y[2]
    BY <2>3, <2>4, <2>5 DEF Plain
  <2> QED  BY <2>6, <2>7 DEF Sent
<1> QED  BY <1>1, <1>2, <1>3

(* The window as Remember leaves it.                                        *)
Recent(c, u) ==
  LET grown == Append(c, u)
      over == Len(grown) - DedupWindow
  IN IF over > 0 THEN SubSeq(grown, over + 1, Len(grown)) ELSE grown
Distinct(c) == \A i, j \in DOMAIN c : c[i] = c[j] => i = j
Holding(c, s) == \E i \in DOMAIN c : c[i] = s

(* The number s of a message that was heard, where n is its sender's next:  *)
(* it is too old to be heard again, or in the window, followed by numbers   *)
(* that were not too old when it was there to be compared with.             *)
Covered(L, c, s, n) ==
  /\ s < n
  /\ \/ s + L <= n
     \/ \E i \in DOMAIN c :
          c[i] = s /\ \A j \in DOMAIN c : j > i => s + 1 < c[j] + L /\ c[j] < n

LEMMA RecentIs ==
  ASSUME NEW c \in Seq(Seqs), Len(c) <= DedupWindow, NEW u \in Seqs
  PROVE  LET r == Recent(c, u) IN
         /\ r \in Seq(Seqs)
         /\ \/ Len(c) < DedupWindow /\ r = Append(c, u)
            \/ /\ Len(c) = DedupWindow /\ Len(r) = DedupWindow
               /\ \A k \in 1 .. DedupWindow : r[k] = Append(c, u)[k + 1]
<1>1. PICK l \in Nat : l = Len(c)
  OBVIOUS
<1>11. PICK g : g = Append(c, u)
  OBVIOUS
<1>2. /\ g \in Seq(Seqs) /\ Len(g) = l + 1 /\ \A k \in 1 .. l + 1 : g[k] \in Seqs
  BY <1>1, <1>11, AppendProperties, ElementOfSeq
<1>3. PICK d \in Nat : d = DedupWindow /\ l <= d /\ d >= 1
  BY <1>1, Limits
<1>4. CASE l < d
  <2>1. Recent(c, u) = g
    BY <1>1, <1>11, <1>2, <1>3, <1>4 DEF Recent
  <2> QED  BY <1>1, <1>11, <1>2, <1>3, <1>4, <2>1
<1>5. CASE l = d
  <2>1. PICK r : r = SubSeq(g, 2, d + 1)
    OBVIOUS
  <2>2. Recent(c, u) = r
    BY <1>1, <1>11, <1>2, <1>3, <1>5, <2>1 DEF Recent
  <2>3. /\ r \in Seq(Seqs) /\ Len(r) = (d + 1) - 2 + 1
        /\ \A i \in 1 .. (d + 1) - 2 + 1 : r[i] = g[2 + i - 1]
    <3>1. /\ 2 \in Int /\ d + 1 \in Int /\ 2 <= d + 1
          /\ \A i \in 2 .. d + 1 : g[i] \in Seqs
      BY <1>2, <1>3, <1>5
    <3> QED  BY <3>1, <2>1, SubSeqProperties
  <2>4. (d + 1) - 2 + 1 = d /\ \A k \in 1 .. d : 2 + k - 1 = k + 1
    BY <1>3
  <2>5. Len(r) = d /\ \A k \in 1 .. d : r[k] = g[k + 1]
    BY <2>3, <2>4
  <2> QED  BY <1>1, <1>11, <1>3, <1>5, <2>2, <2>3, <2>5
<1> QED  BY <1>3, <1>4, <1>5

(* D + 1 different numbers need as much room.                               *)
LEMMA Crowded ==
  ASSUME NEW d \in Nat, NEW g, Distinct(g), DOMAIN g = 1 .. d + 1,
         NEW a \in Int, NEW b \in Int, \A k \in 1 .. d + 1 : g[k] \in a .. b
  PROVE  d + 1 <= b - a + 1
<1>1. SUFFICES ASSUME ~ (d + 1 <= b - a + 1)  PROVE FALSE
  OBVIOUS
<1>2. PICK S, T : S = 1 .. d + 1 /\ T = a .. b
  OBVIOUS
<1>3. /\ IsFiniteSet(S) /\ Cardinality(S) = d + 1
      /\ IsFiniteSet(T) /\ Cardinality(T) = IF a > b THEN 0 ELSE b - a + 1
  <2>1. 1 \in Int /\ d + 1 \in Int /\ d + 1 - 1 + 1 = d + 1 /\ ~ (1 > d + 1)
    OBVIOUS
  <2> QED  BY <1>2, <2>1, FS_Interval
<1>4. Cardinality(T) < Cardinality(S)
  BY <1>1, <1>3
<1>5. PICK h : h = [k \in S |-> g[k]]
  OBVIOUS
<1>6. h \in [S -> T]
  BY <1>2, <1>5
<1>7. \E x, y \in S : x # y /\ h[x] = h[y]
  BY <1>3, <1>4, <1>6, FS_PigeonHole
<1> QED  BY <1>2, <1>5, <1>7 DEF Distinct

LEMMA RecentCovers ==
  ASSUME NEW L \in Nat, 2 * L <= DedupWindow + 3,
         NEW c \in Seq(Seqs), Len(c) <= DedupWindow, Distinct(c),
         NEW u \in Seqs, ~ Holding(c, u), NEW n \in Nat, u < n, n < u + L
  PROVE  /\ Distinct(Recent(c, u)) /\ Covered(L, Recent(c, u), u, n)
         /\ \A s \in Seqs : Covered(L, c, s, n) => Covered(L, Recent(c, u), s, n)
<1>1. PICK l \in Nat : l = Len(c)
  OBVIOUS
<1>11. PICK g, r : g = Append(c, u) /\ r = Recent(c, u)
  OBVIOUS
<1>2. PICK d \in Nat : d = DedupWindow /\ l <= d /\ d >= 1 /\ 2 * L <= d + 3
  BY <1>1, Limits
<1>3. /\ g \in Seq(Seqs) /\ Len(g) = l + 1 /\ DOMAIN g = 1 .. l + 1 /\ DOMAIN c = 1 .. l
      /\ g[l + 1] = u /\ \A k \in 1 .. l : g[k] = c[k]
      /\ \A k \in 1 .. l + 1 : g[k] \in Seqs /\ g[k] \in Nat
      /\ \A k \in 1 .. l : c[k] \in Seqs /\ c[k] \in Nat
  <2>1. /\ g \in Seq(Seqs) /\ Len(g) = l + 1 /\ DOMAIN c = 1 .. l
        /\ g[l + 1] = u /\ \A k \in 1 .. l : g[k] = c[k]
    BY <1>1, <1>11, AppendProperties
  <2>2. /\ DOMAIN g = 1 .. l + 1 /\ \A k \in 1 .. l + 1 : g[k] \in Seqs
        /\ \A k \in 1 .. l : c[k] \in Seqs
    BY <1>1, <2>1, ElementOfSeq
  <2> QED  BY <2>1, <2>2, Limits
<1>4. \A k \in 1 .. l + 1 : k \in 1 .. l \/ k = l + 1
  OBVIOUS
<1>5. Distinct(g)
  BY <1>3, <1>4 DEF Distinct, Holding
<1>6. u \in Nat
  BY Limits
<1>7. ASSUME NEW s \in Seqs, NEW i \in 1 .. l, c[i] = s, s < n,
             \A j \in 1 .. l : j > i => s + 1 < c[j] + L /\ c[j] < n
      PROVE  \A j \in 1 .. l + 1 : j > i => s + 1 < g[j] + L /\ g[j] < n
  <2>1. s + 1 < u + L
    BY <1>6, <1>7, Limits
  <2> QED  BY <1>3, <1>4, <1>7, <2>1
<1>8. \/ l < d /\ r = g
      \/ l = d /\ r \in Seq(Seqs) /\ DOMAIN r = 1 .. d /\ \A k \in 1 .. d : r[k] = g[k + 1]
  <2>1. /\ r \in Seq(Seqs)
        /\ \/ Len(c) < DedupWindow /\ r = Append(c, u)
           \/ /\ Len(c) = DedupWindow /\ Len(r) = DedupWindow
              /\ \A k \in 1 .. DedupWindow : r[k] = Append(c, u)[k + 1]
    BY <1>11, RecentIs
  <2>2. Len(r) = d => DOMAIN r = 1 .. d
    BY <2>1
  <2> QED  BY <1>1, <1>11, <1>2, <2>1, <2>2
<1>9. CASE l < d /\ r = g
  <2>1. Covered(L, g, u, n)
    <3>1. l + 1 \in 1 .. l + 1 /\ \A j \in 1 .. l + 1 : ~ (j > l + 1)
      OBVIOUS
    <3> QED  BY <1>3, <3>1 DEF Covered
  <2>2. ASSUME NEW s \in Seqs, Covered(L, c, s, n)  PROVE Covered(L, g, s, n)
    <3>1. CASE s + L <= n
      BY <2>2, <3>1 DEF Covered
    <3>2. CASE ~ (s + L <= n)
      <4>1. PICK i \in 1 .. l : c[i] = s /\ s < n /\ \A j \in 1 .. l : j > i => s + 1 < c[j] + L /\ c[j] < n
        BY <1>3, <2>2, <3>2 DEF Covered
      <4>2. \A j \in 1 .. l + 1 : j > i => s + 1 < g[j] + L /\ g[j] < n
        BY <1>7, <4>1
      <4>3. i \in 1 .. l + 1 /\ g[i] = s
        BY <1>3, <4>1
      <4> QED  BY <1>3, <4>1, <4>2, <4>3 DEF Covered
    <3> QED  BY <3>1, <3>2
  <2> QED  BY <1>11, <1>5, <1>9, <2>1, <2>2
<1>10. CASE l = d /\ r \in Seq(Seqs) /\ DOMAIN r = 1 .. d /\ \A k \in 1 .. d : r[k] = g[k + 1]
  <2>1. \A k \in 1 .. d : k + 1 \in 1 .. l + 1
    BY <1>10
  <2>2. Distinct(r)
    <3>1. \A i, j \in 1 .. d : i + 1 = j + 1 => i = j
      OBVIOUS
    <3>2. ASSUME NEW i \in 1 .. d, NEW j \in 1 .. d, r[i] = r[j]  PROVE i = j
      <4>1. g[i + 1] = g[j + 1] /\ i + 1 \in DOMAIN g /\ j + 1 \in DOMAIN g
        BY <1>3, <1>10, <2>1, <3>2
      <4>2. i + 1 = j + 1
        BY <1>5, <4>1 DEF Distinct
      <4> QED  BY <3>1, <4>2
    <3> QED  BY <1>10, <3>2 DEF Distinct
  <2>3. d \in 1 .. d /\ r[d] = u /\ \A j \in 1 .. d : ~ (j > d)
    BY <1>2, <1>3, <1>10
  <2>4. Covered(L, r, u, n)
    BY <1>10, <2>3 DEF Covered
  <2>5. ASSUME NEW s \in Seqs, Covered(L, c, s, n)  PROVE Covered(L, r, s, n)
    <3>1. CASE s + L <= n
      BY <2>5, <3>1 DEF Covered
    <3>2. CASE ~ (s + L <= n)
      <4>1. PICK i \in 1 .. l : c[i] = s /\ s < n /\ \A j \in 1 .. l : j > i => s + 1 < c[j] + L /\ c[j] < n
        BY <1>3, <2>5, <3>2 DEF Covered
      <4>2. \A j \in 1 .. l + 1 : j > i => s + 1 < g[j] + L /\ g[j] < n
        BY <1>7, <4>1
      <4>3. i # 1
        <5>1. SUFFICES ASSUME i = 1  PROVE FALSE
          OBVIOUS
        <5>2. PICK a \in Int, b \in Int : a = s + 2 - L /\ b = n - 1
          BY Limits
        <5>3. ASSUME NEW k \in 1 .. d + 1  PROVE g[k] \in a .. b
          <6>1. CASE k = 1
            <7>1. g[1] = s /\ L >= 2
              BY <1>2, <1>3, <1>6, <1>10, <4>1, <5>1
            <7> QED  BY <4>1, <5>2, <6>1, <7>1, Limits
          <6>2. CASE k # 1
            <7>1. k \in 1 .. l + 1 /\ k > i
              BY <1>10, <5>1, <6>2
            <7>2. s + 1 < g[k] + L /\ g[k] < n /\ g[k] \in Nat /\ s \in Nat
              BY <1>3, <4>2, <7>1, Limits
            <7> QED  BY <5>2, <7>2
          <6> QED  BY <6>1, <6>2
        <5>4. d + 1 <= b - a + 1
          BY <1>3, <1>5, <1>10, <5>3, Crowded
        <5>5. s \in Nat
          BY Limits
        <5> QED  BY <1>2, <3>2, <5>2, <5>4, <5>5
      <4>4. i - 1 \in 1 .. d /\ r[i - 1] = s
        <5>1. i - 1 \in 1 .. d /\ (i - 1) + 1 = i
          BY <1>10, <4>3
        <5>2. r[i - 1] = g[i]
          BY <1>10, <5>1
        <5> QED  BY <1>3, <4>1, <5>1, <5>2
      <4>5. ASSUME NEW j \in 1 .. d, j > i - 1  PROVE s + 1 < r[j] + L /\ r[j] < n
        <5>1. j + 1 \in 1 .. l + 1 /\ j + 1 > i
          BY <1>10, <4>5
        <5> QED  BY <1>10, <4>2, <5>1
      <4> QED  BY <1>10, <4>1, <4>4, <4>5 DEF Covered
    <3> QED  BY <3>1, <3>2
  <2> QED  BY <1>11, <2>2, <2>4, <2>5
<1> QED  BY <1>8, <1>9, <1>10

LEMMA CoveredLonger ==
  ASSUME NEW L \in Nat, NEW c \in Seq(Seqs), NEW s \in Seqs, NEW n \in Nat, NEW k \in Nat, n <= k,
         Covered(L, c, s, n)
  PROVE  Covered(L, c, s, k)
<1>1. \A j \in DOMAIN c : c[j] \in Nat
  <2>1. DOMAIN c = 1 .. Len(c) /\ \A j \in 1 .. Len(c) : c[j] \in Seqs
    BY ElementOfSeq
  <2> QED  BY <2>1, Limits
<1>2. s \in Nat
  BY Limits
<1>3. CASE s + L <= n
  BY <1>2, <1>3 DEF Covered
<1>4. CASE ~ (s + L <= n)
  <2>1. PICK i \in DOMAIN c : c[i] = s /\ \A j \in DOMAIN c : j > i => s + 1 < c[j] + L /\ c[j] < n
    BY <1>4 DEF Covered
  <2>2. \A j \in DOMAIN c : j > i => s + 1 < c[j] + L /\ c[j] < k
    BY <1>1, <2>1
  <2> QED  BY <1>2, <2>1, <2>2 DEF Covered
<1> QED  BY <1>3, <1>4

(* What a data frame brings, and what it leaves in the window.              *)
Brings(c, f, after, deliver) ==
  \/ after = c /\ deliver \in {NoMsg} \cup (Hellos \cap {f.msg})
  \/ ~ Holding(c, f.seq) /\ after = Recent(c, f.seq) /\ deliver \in {f.msg, Garbled}

LEMMA SeenOfData ==
  ASSUME NEW p, NEW A, Good(p, A, Pairs), NEW f \in Data, f.idx \in Frags(f.msg),
         NEW c, Bears("seen", p, c)
  PROVE  \E after : /\ Bears("seen", ReceiveData(p, f).peer, after)
                    /\ Brings(c, f, after, ReceiveData(p, f).deliver)
<1>0. f.msg \in Msgs /\ f.seq \in Seqs /\ <<f.msg, f.seq>> \in Pairs
  BY DEF Data, Pairs
<1>1. ASSUME NEW q, NEW b, Bears("seen", q, b), NEW s, NEW a, NEW w, NEW v
      PROVE  /\ Bears("seen", Remember(q, s), Recent(b, s)) /\ Bears("seen", OweAck(q, a, w), b)
             /\ Bears("seen", [q EXCEPT !.reasm = v], b)
  BY <1>1 DEF Bears, Remember, Recent, OweAck
<1>2. PICK r : r = ReceiveData(p, f)
  OBVIOUS
<1>3. PICK after : after = Recent(c, f.seq)
  OBVIOUS
<1>4. Remembered(p, f.seq) <=> Holding(c, f.seq)
  BY DEF Remembered, Holding, Bears
<1>5. PICK x, y : x = OweAck(p, Whole(f.seq), f.want) /\ y = Remember(x, f.seq)
  OBVIOUS
<1>6. Bears("seen", x, c) /\ Bears("seen", y, after)
  BY <1>1, <1>3, <1>5
<1>7. CASE Remembered(p, f.seq)
  <2>1. r = [Nothing(x) EXCEPT !.deliver = IF f.msg \in Hellos THEN f.msg ELSE NoMsg]
    BY <1>2, <1>5, <1>7 DEF ReceiveData
  <2>2. r.peer = x /\ r.deliver = IF f.msg \in Hellos THEN f.msg ELSE NoMsg
    BY <2>1 DEF Nothing
  <2>3. r.deliver \in {NoMsg} \cup Hellos
    BY <2>2
  <2> QED  BY <1>2, <1>6, <2>2, <2>3 DEF Brings
<1>8. CASE ~ Remembered(p, f.seq) /\ Size[f.msg] = 1
  <2>1. r = [Nothing(y) EXCEPT !.deliver = f.msg]
    BY <1>2, <1>5, <1>8 DEF ReceiveData
  <2>2. r.peer = y /\ r.deliver = f.msg
    BY <2>1 DEF Nothing
  <2> QED  BY <1>2, <1>3, <1>4, <1>6, <1>8, <2>2 DEF Brings
<1>9. CASE ~ Remembered(p, f.seq) /\ Size[f.msg] # 1
  <2>0. r = Reassemble(p, f)
    BY <1>2, <1>9 DEF ReceiveData
  <2>1. PICK rs : rs = Stash(p.reasm, f)
    OBVIOUS
  <2>2. PICK s, parts : s = rs[Slot(rs, f.seq)] /\ parts = s.parts
    OBVIOUS
  <2>3. DOMAIN parts = Frags(f.msg) /\ parts[f.idx] = f.msg
    <3>1. Kept(p.reasm, Pairs) /\ Len(p.reasm) <= MaxReasm
      BY Fields DEF Good, Hears, Kept
    <3> QED  BY <1>0, <2>1, <2>2, <3>1, StashKept
  <2>4. PICK kept, z : kept = [p EXCEPT !.reasm = rs] /\ z = Remember(p, f.seq)
    OBVIOUS
  <2>5. Bears("seen", kept, c) /\ Bears("seen", z, after)
    BY <1>1, <1>3, <2>4
  <2>6. PICK whole : whole = [z EXCEPT !.reasm = Without(rs, f.seq)]
    OBVIOUS
  <2>7. Bears("seen", whole, after)
    BY <1>1, <2>5, <2>6
  <2>8. PICK t, u : /\ t = OweAck(kept, Partial(f.seq, parts), f.want /\ f.retry)
                    /\ u = OweAck(whole, Whole(f.seq), s.want)
    OBVIOUS
  <2>9. Bears("seen", t, c) /\ Bears("seen", u, after)
    BY <1>1, <2>5, <2>7, <2>8, Zenon
  <2>10. \/ r = Nothing(t)
         \/ r = [Nothing(u) EXCEPT !.deliver = Joined(parts)]
    BY <2>0, <2>1, <2>2, <2>4, <2>6, <2>8 DEF Reassemble
  <2>11. CASE r = Nothing(t)
    <3>1. r.peer = t /\ r.deliver = NoMsg
      BY <2>11 DEF Nothing
    <3> QED  BY <1>2, <2>9, <3>1 DEF Brings
  <2>12. CASE r = [Nothing(u) EXCEPT !.deliver = Joined(parts)]
    <3>1. r.peer = u /\ r.deliver = Joined(parts)
      BY <2>12 DEF Nothing
    <3>2. Joined(parts) \in {f.msg, Garbled}
      BY <2>3 DEF Joined
    <3> QED  BY <1>2, <1>3, <1>4, <1>9, <2>9, <3>1, <3>2 DEF Brings
  <2> QED  BY <2>10, <2>11, <2>12
<1> QED  BY <1>7, <1>8, <1>9

(* A HELLO that starts the record afresh brings no other message; anything  *)
(* else is compared with the window as it was.                              *)
LEMMA SeenOfReceive ==
  ASSUME NEW p, NEW A, Good(p, A, Pairs), NEW f, Carried(f, Pairs)
  PROVE  LET r == OnReceive(p, f) IN
         /\ f.kind = "ACK" => Bears("seen", r.peer, p.seen) /\ r.deliver = NoMsg
         /\ f.kind = "DATA" /\ NewSession(p, f.msg) = p =>
              \E after : Bears("seen", r.peer, after) /\ Brings(p.seen, f, after, r.deliver)
         /\ f.kind = "DATA" /\ NewSession(p, f.msg) # p =>
              /\ \E after : Bears("seen", r.peer, after) /\ Brings(<<>>, f, after, r.deliver)
              /\ f.msg \in Hellos
<1>0. PICK r : r = OnReceive(p, f)
  OBVIOUS
<1>1. Bears("seen", p, p.seen) /\ Bears("seen", NewPeer, <<>>)
      /\ \A n : Bears("seen", [NewPeer EXCEPT !.epoch = n], <<>>)
  BY Fields DEF Good, Records, Bears, NewPeer
<1>2. CASE f.kind = "ACK"
  <2>1. r = ApplyAck(p, f)
    BY <1>0, <1>2 DEF OnReceive
  <2>2. Bears("seen", r.peer, p.seen)
    BY <1>1, <2>1, MarkOfAck
  <2>3. r.deliver = NoMsg
    BY <2>1, ApplyAckSound
  <2> QED  BY <1>0, <1>2, <2>2, <2>3
<1>3. CASE f.kind = "DATA"
  <2>0. /\ f \in Data /\ <<f.msg, f.seq>> \in Pairs /\ f.idx \in Frags(f.msg) /\ f.msg \in Msgs
    BY <1>3 DEF Carried, Frames, Data
  <2>1. PICK fresh : fresh = NewSession(p, f.msg)
    OBVIOUS
  <2>2. Good(fresh, A, Pairs)
    BY <2>0, <2>1, NewSessionGood
  <2>3. PICK c : c = fresh.seen
    OBVIOUS
  <2>4. /\ Bears("seen", fresh, c) /\ (fresh = p => c = p.seen)
        /\ fresh # p => c = <<>> /\ f.msg \in Hellos
    <3>1. fresh = p \/ (fresh = [NewPeer EXCEPT !.epoch = EpochOf[f.msg]] /\ f.msg \in Hellos)
      BY <2>1 DEF NewSession
    <3> QED  BY <1>1, <2>3, <3>1 DEF Bears
  <2>5. PICK acked : acked = IF f.piggy = NoSeq THEN Nothing(fresh)
                             ELSE ApplyAck(fresh, Whole(f.piggy))
    OBVIOUS
  <2>6. Bears("seen", acked.peer, c)
    <3>1. Bears("seen", ApplyAck(fresh, Whole(f.piggy)).peer, c)
      BY <2>4, MarkOfAck
    <3>2. Nothing(fresh).peer = fresh
      BY DEF Nothing
    <3> QED  BY <2>4, <2>5, <3>1, <3>2
  <2>7. Good(acked.peer, A, Pairs)
    <3>1. Sound(ApplyAck(fresh, Whole(f.piggy)), A, Pairs) /\ Sound(Nothing(fresh), A, Pairs)
      BY <2>2, ApplyAckSound, NothingSound
    <3> QED  BY <2>5, <3>1 DEF Sound
  <2>8. PICK x, data : x = acked.peer /\ data = ReceiveData(x, f)
    OBVIOUS
  <2>9. PICK after : Bears("seen", data.peer, after) /\ Brings(c, f, after, data.deliver)
    BY <2>0, <2>6, <2>7, <2>8, SeenOfData
  <2>10. r = [data EXCEPT !.out = acked.out, !.done = acked.done]
    BY <1>0, <1>3, <2>1, <2>5, <2>8 DEF OnReceive
  <2>11. data = [peer |-> data.peer, out |-> data.out, done |-> data.done, deliver |-> data.deliver]
    BY <2>8 DEF ReceiveData, Reassemble, Nothing
  <2>12. r.peer = data.peer /\ r.deliver = data.deliver
    BY <2>10, <2>11
  <2> QED  BY <1>0, <1>3, <2>1, <2>4, <2>9, <2>12
<1>4. f.kind \in {"ACK", "DATA"}
  BY DEF Carried, Frames
<1> QED  BY <1>2, <1>3, <1>4

-----------------------------------------------------------------------------
(* How a step changes what an end has sent.                                 *)
AnswersApart == Answerable \cap (Outbox[Gateway] \cup Broadcasts[Gateway]) \subseteq Hellos

LEMMA OutcomeKept ==
  ASSUME NEW e, NEW p, NEW done, Conclude(e, p, done), NEW m \in Msgs
  PROVE  /\ outcome[m] # "none" => outcome'[m] # "none"
         /\ m \in done \cup InHand(p) => outcome'[m] # "none"
BY DEF Conclude

LEMMA GoneKept ==
  ASSUME Sane, NEW x \in Ends, Moves(x)
  PROVE  \A e \in Ends : Gone(e) \subseteq Gone(e)' /\ todo'[e] \subseteq todo[e]
<1>1. \A m \in Msgs : outcome[m] # "none" => outcome'[m] # "none"
  <2>1. outcome' = outcome \/ \E p, done : Conclude(x, p, done)
    BY DEF Moves, Submit, Broadcast, Key, Discard, ReceiveAs, TickAs, Restart, history
  <2> QED  BY <2>1, OutcomeKept
<1>2. ASSUME NEW e \in Ends  PROVE todo'[e] \subseteq todo[e]
  <2>1. todo' = todo \/ \E m : todo' = [todo EXCEPT ![x] = @ \ {m}]
    BY DEF Moves, Submit, Broadcast, Key, Discard, ReceiveAs, TickAs, Restart
  <2> QED  BY <2>1 DEF Sane, Shape
<1> QED  BY <1>1, <1>2 DEF Gone, Plain

LEMMA OtherKeeps ==
  ASSUME Sane, NEW x \in Ends, Moves(x), Untouched(x), nextSeq'[Other(x)] = nextSeq[Other(x)]
  PROVE  Keeps(Other(x))
<1>1. PICK o \in Ends : o = Other(x)
  BY EndsAre
<1>2. PICK A : A = Uses(o)
  OBVIOUS
<1>3. Fine(o, A, Pairs)
  BY <1>1, <1>2, UsesFine DEF Sane
<1>4. Fine(o, A, Pairs)'
  BY <1>1, <1>3, OtherFine DEF Sane
<1>5. nextSeq[o] \in Nat
  BY <1>1, Limits DEF Sane, Shape
<1> QED  BY <1>1, <1>2, <1>4, <1>5, UsesFine, GoneKept DEF Keeps

LEMMA GivesNew ==
  ASSUME Sane, NotRound, AnswersApart, NEW x \in Ends, NEW m \in todo[x],
         Submit(x, m) \/ Broadcast(x, m)
  PROVE  Keeps(Other(x)) /\ m \in Msgs /\ Gives(x, m)
<1>0. Shape /\ m \in Msgs /\ nextSeq[x] \in Seqs /\ Moves(x)
  BY DEF Sane, Shape, Moves
<1>1. PICK A, n : n = nextSeq[x] /\ A = Uses(x) \cup {<<m, n>>}
  OBVIOUS
<1>2. Fine(x, A, Pairs)
  BY <1>1, UsesFine DEF Sane
<1>3. Fine(x, A, Pairs)' /\ Untouched(x)
  BY <1>0, <1>1, <1>2, SubmitFine, BroadcastFine
<1>4. nextSeq' = [nextSeq EXCEPT ![x] = NextSeq(n)] /\ todo' = [todo EXCEPT ![x] = todo[x] \ {m}]
  BY <1>1 DEF Submit, Broadcast
<1>5. nextSeq'[x] > n
  <2>1. NextSeq(n) = n + 1 /\ n \in Nat
    BY <1>0, <1>1, Numbers, Limits DEF NotRound
  <2>2. nextSeq'[x] = NextSeq(n)
    BY <1>0, <1>4 DEF Shape
  <2> QED  BY <2>1, <2>2
<1>6. Keeps(Other(x))
  BY <1>0, <1>3, <1>4, EndsAre, OtherKeeps DEF Shape
<1>7. m \notin todo'[x] /\ m \in todo[x]
  BY <1>0, <1>4 DEF Shape
<1>8. x = Gateway /\ m \in Answerable => m \in Hellos
  BY <1>0 DEF AnswersApart, Shape
<1>9. m \notin Gone(x) /\ m \in Hellos \cup Gone(x)'
  BY <1>0, <1>7, <1>8 DEF Gone, Plain
<1>10. Uses(x)' \subseteq A
  BY <1>3, UsesFine
<1> QED  BY <1>0, <1>1, <1>5, <1>6, <1>9, <1>10, GoneKept DEF Gives

LEMMA GivesNone ==
  ASSUME Sane, NEW x \in Ends, Moves(x), nextSeq' = nextSeq, Untouched(x),
         \A A : Fine(x, A, Pairs) => Fine(x, A, Pairs)'
  PROVE  Keeps(Other(x)) /\ Keeps(x)
<1>1. PICK A : A = Uses(x)
  OBVIOUS
<1>2. Fine(x, A, Pairs)'
  BY <1>1, UsesFine DEF Sane
<1>3. nextSeq[x] \in Nat
  BY Limits DEF Sane, Shape
<1> QED  BY <1>1, <1>2, <1>3, UsesFine, OtherKeeps, GoneKept DEF Keeps

LEMMA InHandNow ==
  ASSUME NEW A, NEW B, NEW p, Good(p, A, B), Accepts(p), NEW m \in Msgs, NEW s \in Seqs,
         <<m, s>> \in A
  PROVE  m \in InHand(DrainAcks(Enqueue(p, m, s).peer).peer)
<1>1. PICK v : v = Enqueue(p, m, s)
  OBVIOUS
<1>2. PICK q : q = v.peer
  OBVIOUS
<1>3. Good(q, A, B)
  BY <1>1, <1>2, EnqueueSound DEF Sound
<1>4. m \in InHand(q)
  <2>1. PICK entry : entry = [seq |-> s, msg |-> m]
    OBVIOUS
  <2>2. entry \in Entries /\ entry.seq = s /\ entry.msg = m
    BY <2>1 DEF Entries
  <2>3. CASE Idle(p)
    <3>1. PICK w : w = IF p.owed.seq # NoSeq /\ p.owed.whole THEN [p EXCEPT !.owed = NoAck] ELSE p
      OBVIOUS
    <3>2. w.pending = p.pending /\ DOMAIN w = DOMAIN p /\ "pending" \in DOMAIN p
      BY <3>1, Fields DEF Good, Records
    <3>3. q = StartPending(w, entry).peer
      <4>1. \E o : v = [StartPending(w, entry) EXCEPT !.out = o]
        BY <1>1, <2>1, <2>3, <3>1 DEF Enqueue
      <4> QED  BY <1>2, <4>1 DEF StartPending, Nothing
    <3>4. q.pending = [NoPending EXCEPT !.seq = s, !.msg = m]
      BY <2>2, <3>2, <3>3 DEF StartPending, Nothing
    <3>5. q.pending.seq = s /\ q.pending.msg = m
      BY <3>4 DEF NoPending
    <3> QED  BY <3>5, Limits DEF InHand, Idle
  <2>4. CASE ~ Idle(p)
    <3>1. v = Nothing([p EXCEPT !.queue = Append(@, entry)])
      BY <1>1, <2>1, <2>4 DEF Enqueue, Accepts
    <3>2. PICK c, z : c = p.queue /\ z = Append(c, entry)
      OBVIOUS
    <3>3. q.queue = z
      BY <1>2, <3>1, <3>2, Fields DEF Nothing, Good, Records
    <3>4. c \in Seq(Entries)
      BY <3>2, Fields DEF Good
    <3>5. Len(c) + 1 \in DOMAIN z /\ z[Len(c) + 1] = entry
      BY <2>2, <3>2, <3>4, AppendProperties
    <3> QED  BY <2>2, <3>3, <3>5 DEF InHand
  <2> QED  BY <2>3, <2>4
<1>5. DrainAcks(q).peer = [q EXCEPT !.owed = NoAck]
  BY DEF DrainAcks, Nothing
<1>6. DrainAcks(q).peer.queue = q.queue /\ DrainAcks(q).peer.pending = q.pending
  BY <1>3, <1>5, Fields DEF Good, Records
<1> QED  BY <1>1, <1>2, <1>4, <1>6 DEF InHand, Idle

LEMMA GivesAnswer ==
  ASSUME Sane, NotRound, AnswersApart, NEW x \in Ends, NEW f \in air[x],
         NEW reply \in Msgs \cup {NoMsg}, reply # NoMsg => x = Gateway,
         reply \in Answers(x, HandleRf(x, f).deliver), ReceiveAs(x, f, reply)
  PROVE  Keeps(Other(x)) /\ (Keeps(x) \/ \E m \in Msgs : Gives(x, m))
<1>0. Shape /\ nextSeq[x] \in Seqs /\ nextSeq[x] \in Nat /\ Moves(x)
  BY Limits DEF Sane, Shape, Moves
<1>1. PICK n, p : n = nextSeq[x] /\ p = HandleRf(x, f).peer
  OBVIOUS
<1>2. ASSUME NEW A, Uses(x) \subseteq A  PROVE Sound(HandleRf(x, f), A, Pairs)
  <2>1. Good(peer[x], A, Pairs)
    BY <1>2, UsesFine DEF Sane, Fine
  <2>2. Carried(f, Pairs)
    BY EndsAre DEF Sane, Fine, Carries
  <2> QED  BY <2>1, <2>2, OnReceiveSound DEF HandleRf
<1>3. ASSUME NEW A, Uses(x) \subseteq A, reply # NoMsg /\ Accepts(p) => <<reply, n>> \in A
      PROVE  Uses(x)' \subseteq A /\ Untouched(x)
  <2>1. Carries(txq[x], A) /\ Carries(air[Other(x)], A)
    BY <1>3, UsesFine DEF Sane, Fine
  <2>2. Fine(x, A, Pairs)' /\ Untouched(x)
    BY <1>0, <1>1, <1>2, <1>3, <2>1, ReceiveFine
  <2> QED  BY <2>2, UsesFine
<1>4. nextSeq' = IF reply = NoMsg THEN nextSeq ELSE [nextSeq EXCEPT ![x] = NextSeq(n)]
  BY <1>1 DEF ReceiveAs
<1>5. nextSeq'[Other(x)] = nextSeq[Other(x)] /\ nextSeq'[x] >= n /\ (reply # NoMsg => nextSeq'[x] > n)
  BY <1>0, <1>1, <1>4, EndsAre, Numbers, Limits DEF Shape, NotRound
<1>6. PICK U : U = Uses(x)
  OBVIOUS
<1>7. PICK A : A = U \cup {<<reply, n>>}
  OBVIOUS
<1>8. Uses(x)' \subseteq A /\ Untouched(x)
  BY <1>3, <1>6, <1>7
<1>9. Keeps(Other(x))
  BY <1>0, <1>5, <1>8, OtherKeeps
<1>10. CASE ~ (reply # NoMsg /\ Accepts(p))
  <2>1. Uses(x)' \subseteq U
    BY <1>3, <1>6, <1>10
  <2>2. Keeps(x)
    BY <1>0, <1>1, <1>5, <1>6, <2>1, GoneKept DEF Keeps
  <2> QED  BY <1>9, <2>2
<1>11. CASE reply # NoMsg /\ Accepts(p)
  <2>1. PICK d : d = HandleRf(x, f).deliver
    OBVIOUS
  <2>2. x = Gateway /\ d \in Hellos /\ reply \in Replies[d] /\ outcome[reply] = "none" /\ reply \in Msgs
    BY <1>11, <2>1 DEF Answers
  <2>3. reply \in Answerable
    BY <2>2 DEF Answerable
  <2>4. outcome'[reply] # "none"
    <3>1. Good(p, A, Pairs)
      BY <1>1, <1>2, <1>6, <1>7 DEF Sound
    <3>2. PICK s \in Seqs, m \in Msgs : s = n /\ m = reply /\ <<m, s>> \in A
      BY <1>0, <1>1, <1>7, <2>2
    <3>3. PICK q : q = DrainAcks(Enqueue(p, m, s).peer).peer
      OBVIOUS
    <3>4. m \in InHand(q)
      BY <1>11, <3>1, <3>2, <3>3, InHandNow
    <3>5. Conclude(x, q, HandleRf(x, f).done)
      BY <1>1, <1>11, <2>2, <3>2, <3>3 DEF ReceiveAs
    <3> QED  BY <3>2, <3>4, <3>5, OutcomeKept
  <2>5. reply \in Plain => reply \notin todo[x] /\ reply \notin todo'[x]
    BY <1>0, <2>2, <2>3, GoneKept DEF AnswersApart, Plain, Shape
  <2>6. reply \notin Gone(x) /\ reply \in Hellos \cup Gone(x)'
    BY <2>2, <2>3, <2>4, <2>5 DEF Gone, Plain
  <2>7. Gives(x, reply)
    BY <1>0, <1>1, <1>5, <1>6, <1>7, <1>8, <1>11, <2>6, GoneKept DEF Gives
  <2> QED  BY <1>9, <2>2, <2>7
<1> QED  BY <1>10, <1>11

LEMMA GivesFirst ==
  ASSUME Sane, NotRound, NEW x \in Ends, Restart(x)
  PROVE  Keeps(Other(x)) /\ StartsAgain(x)
<1>0. Shape /\ Moves(x)
  BY DEF Sane, Moves
<1>1. PICK k \in Nat : k = used.restarts[x]
  BY <1>0 DEF Shape, Spent
<1>2. PICK n \in Nat : n = k + 1
  OBVIOUS
<1>3. x = Station => n \in 0 .. MaxRestarts[Station]
  BY <1>0, <1>1, <1>2, EndsAssumption DEF Restart, Ends
<1>4. SeqSpace > 2
  <2>1. nextSeq[x] \in Seqs /\ nextSeq[x] + 1 < SeqSpace
    BY <1>0 DEF Shape, NotRound
  <2> QED  BY <2>1, Limits DEF Seqs
<1>5. PICK A : A = BootPairs(x, n)
  OBVIOUS
<1>6. /\ \A y \in A : y[2] < BootSeq(x, n)
      /\ x = Station /\ BootHello[n] # NoMsg => <<BootHello[n], 1>> \in A
  BY <1>3, <1>4, <1>5, BootGives
<1>7. \A y \in A : y[1] \in Hellos
  <2>1. CASE x = Station /\ BootHello[n] # NoMsg
    <3>1. BootHello[n] \in Hellos
      BY <1>3, <2>1, EndsAssumption
    <3> QED  BY <1>5, <2>1, <3>1 DEF BootPairs
  <2>2. CASE ~ (x = Station /\ BootHello[n] # NoMsg)
    BY <1>5, <2>2 DEF BootPairs
  <2> QED  BY <2>1, <2>2
<1>8. /\ Fine(x, A, Pairs)' /\ Untouched(x)
      /\ nextSeq' = [nextSeq EXCEPT ![x] = BootSeq(x, n)]
  <2>1. x = Station /\ BootHello[used.restarts[x] + 1] # NoMsg
          => <<BootHello[used.restarts[x] + 1], 1>> \in A
    BY <1>1, <1>2, <1>6
  <2> QED  BY <1>0, <1>1, <1>2, <2>1, RestartFine
<1>9. nextSeq'[x] = BootSeq(x, n) /\ nextSeq'[Other(x)] = nextSeq[Other(x)]
  BY <1>0, <1>8, EndsAre DEF Shape
<1>10. Uses(x)' \subseteq A
  BY <1>8, UsesFine
<1> QED  BY <1>0, <1>6, <1>7, <1>8, <1>9, <1>10, OtherKeeps, GoneKept DEF StartsAgain

LEMMA SendsStep ==
  ASSUME Sane, NotRound, AnswersApart, NEW x \in Ends, Moves(x)
  PROVE  /\ Keeps(Other(x))
         /\ Keeps(x) \/ StartsAgain(x) \/ \E m \in Msgs : Gives(x, m)
<1>0. Shape
  BY DEF Sane
<1>1. CASE \E m \in todo[x] : Submit(x, m) \/ Broadcast(x, m)
  BY <1>1, GivesNew
<1>2. CASE \E f \in txq[x], arrives \in BOOLEAN : Key(x, f, arrives) \/ Discard(x, f)
  <2>1. PICK f \in txq[x], arrives \in BOOLEAN : Key(x, f, arrives) \/ Discard(x, f)
    BY <1>2
  <2>2. nextSeq' = nextSeq
    BY <2>1 DEF Key, Discard
  <2>3. \A A : Fine(x, A, Pairs) => Fine(x, A, Pairs)' /\ Untouched(x)
    BY <1>0, <2>1, KeyFine, DiscardFine
  <2>4. Untouched(x)
    BY <2>3 DEF Sane
  <2> QED  BY <2>2, <2>3, <2>4, GivesNone
<1>3. CASE \E f \in air[x], reply \in Msgs \cup {NoMsg} :
             /\ reply # NoMsg => x = Gateway
             /\ reply \in Answers(x, HandleRf(x, f).deliver) /\ ReceiveAs(x, f, reply)
  BY <1>3, GivesAnswer
<1>4. CASE \E n \in 0 .. Len(peer[x].reasm), what \in {"quiet", "timeout", "idle"} :
             TickAs(x, n, what)
  <2>1. PICK n \in 0 .. Len(peer[x].reasm), what \in {"quiet", "timeout", "idle"} :
          TickAs(x, n, what)
    BY <1>4
  <2>2. nextSeq' = nextSeq
    BY <2>1 DEF TickAs
  <2>3. \A A : Fine(x, A, Pairs) => Fine(x, A, Pairs)' /\ Untouched(x)
    BY <1>0, <2>1, TickFine
  <2>4. Untouched(x)
    BY <2>3 DEF Sane
  <2> QED  BY <2>2, <2>3, <2>4, GivesNone
<1>5. CASE Restart(x)
  BY <1>5, GivesFirst
<1> QED  BY <1>1, <1>2, <1>3, <1>4, <1>5 DEF Moves

-----------------------------------------------------------------------------
(* What was delivered to e.  A message is behind its sender, and while the  *)
(* record it was delivered under lasts, its number is covered.              *)
Fits(L, e, d) ==
  /\ d.gen <= gen[e]
  /\ d.msg \in Plain =>
       /\ d.msg \in Gone(Other(e))
       /\ d.gen = gen[e] =>
            \A s \in Seqs : <<d.msg, s>> \in Uses(Other(e)) =>
              Covered(L, peer[e].seen, s, nextSeq[Other(e)])

Recorded(L, e) ==
  /\ Distinct(peer[e].seen)
  /\ \A i \in DOMAIN delivered[e] : Fits(L, e, delivered[e][i])
  /\ \A i, j \in DOMAIN delivered[e] :
       delivered[e][i].msg \in Plain /\ delivered[e][i] = delivered[e][j] => i = j

(* A new delivery that is not a repetition.                                 *)
NotYet(L, e, d) ==
  d \in Plain =>
    /\ Keeps(Other(e)) /\ gen'[e] = gen[e] /\ d \in Gone(Other(e))
    /\ \A s \in Seqs : <<d, s>> \in Uses(Other(e)) =>
         Covered(L, peer'[e].seen, s, nextSeq[Other(e)])
    /\ \A i \in DOMAIN delivered[e] : delivered[e][i] # [msg |-> d, gen |-> gen[e]]

LEMMA RecordedStep ==
  ASSUME Sane, Sane', NEW L \in Nat, NEW e \in Ends, Sent(Other(e)), Recorded(L, e),
         \/ Keeps(Other(e)) \/ StartsAgain(Other(e))
         \/ \E m \in Msgs : Gives(Other(e), m),
         Distinct(peer'[e].seen),
         \/ gen'[e] > gen[e]
         \/ /\ gen'[e] = gen[e]
            /\ \A s \in Seqs : Covered(L, peer[e].seen, s, nextSeq[Other(e)])
                                 => Covered(L, peer'[e].seen, s, nextSeq[Other(e)]),
         \/ delivered'[e] = delivered[e]
         \/ \E d \in Msgs \cup {Garbled} :
              /\ delivered'[e] = Append(delivered[e], [msg |-> d, gen |-> gen'[e]])
              /\ NotYet(L, e, d)
  PROVE  Recorded(L, e)'
<1>1. PICK o \in Ends : o = Other(e)
  BY EndsAre
<1>2. PICK n, k, g, h : n = nextSeq[o] /\ k = nextSeq'[o] /\ g = gen[e] /\ h = gen'[e]
  OBVIOUS
<1>3. n \in Nat /\ k \in Nat /\ g \in Nat /\ h \in Nat
  BY <1>2, Limits DEF Sane, Shape
<1>4. PICK c, b : c = peer[e].seen /\ b = peer'[e].seen
  OBVIOUS
<1>5. c \in Seq(Seqs) /\ b \in Seq(Seqs)
  BY <1>4, Fields DEF Sane, Shape, Records
<1>6. PICK U, V, G, H : U = Uses(o) /\ V = Uses(o)' /\ G = Gone(o) /\ H = Gone(o)'
  OBVIOUS
<1>7. \/ V \subseteq U /\ G \subseteq H /\ k >= n
      \/ (\A x \in V : x[1] \in Hellos) /\ G \subseteq H
      \/ \E m \in Msgs : V \subseteq U \cup {<<m, n>>} /\ k > n /\ G \subseteq H /\ m \notin G
  BY <1>1, <1>2, <1>6 DEF Keeps, StartsAgain, Gives
<1>8. G \subseteq H /\ G \subseteq Plain
  BY <1>6, <1>7 DEF Gone
<1>9. ASSUME NEW m \in G, NEW s \in Seqs, <<m, s>> \in V  PROVE <<m, s>> \in U /\ k >= n
  <2>1. m \notin Hellos
    BY <1>8 DEF Plain
  <2> QED  BY <1>3, <1>7, <1>9, <2>1
<1>10. h > g \/ (h = g /\ \A s \in Seqs : Covered(L, c, s, n) => Covered(L, b, s, n))
  BY <1>1, <1>2, <1>4
<1>11. PICK D, E : D = delivered[e] /\ E = delivered'[e]
  OBVIOUS
<1>12. D \in Seq(Heards) /\ E \in Seq(Heards)
  BY <1>11 DEF Sane, Shape
<1>13. \A d : /\ Fits(L, e, d) <=>
                   /\ d.gen <= g
                   /\ d.msg \in Plain =>
                        /\ d.msg \in G
                        /\ d.gen = g => \A s \in Seqs : <<d.msg, s>> \in U => Covered(L, c, s, n)
              /\ Fits(L, e, d)' <=>
                   /\ d.gen <= h
                   /\ d.msg \in Plain =>
                        /\ d.msg \in H
                        /\ d.gen = h => \A s \in Seqs : <<d.msg, s>> \in V => Covered(L, b, s, k)
  BY <1>1, <1>2, <1>4, <1>6 DEF Fits
<1>14. ASSUME NEW d \in Heards, Fits(L, e, d)  PROVE Fits(L, e, d)'
  <2>1. d.gen \in Nat /\ d.gen <= g
    BY <1>13, <1>14 DEF Heards
  <2>2. d.gen <= h
    BY <1>3, <1>10, <2>1
  <2>3. ASSUME d.msg \in Plain, d.gen = h, NEW s \in Seqs, <<d.msg, s>> \in V
        PROVE  Covered(L, b, s, k)
    <3>1. h = g
      BY <1>3, <1>10, <2>1, <2>3
    <3>2. d.msg \in G
      BY <1>13, <1>14, <2>3
    <3>3. <<d.msg, s>> \in U /\ k >= n
      BY <1>9, <2>3, <3>2
    <3>4. Covered(L, c, s, n)
      BY <1>13, <1>14, <2>3, <3>1, <3>3
    <3>5. Covered(L, b, s, n)
      BY <1>3, <1>10, <3>1, <3>4
    <3> QED  BY <1>3, <1>5, <3>3, <3>5, CoveredLonger
  <2> QED  BY <1>8, <1>13, <1>14, <2>2, <2>3
<1>15. /\ \A i \in DOMAIN D : D[i] \in Heards /\ Fits(L, e, D[i])
       /\ \A i, j \in DOMAIN D : D[i].msg \in Plain /\ D[i] = D[j] => i = j
  <2>1. \A i \in 1 .. Len(D) : D[i] \in Heards
    BY <1>12, ElementOfSeq
  <2>2. DOMAIN D = 1 .. Len(D)
    BY <1>12
  <2> QED  BY <1>11, <2>1, <2>2 DEF Recorded
<1>16. ASSUME /\ \A i \in DOMAIN E : Fits(L, e, E[i])'
              /\ \A i, j \in DOMAIN E : E[i].msg \in Plain /\ E[i] = E[j] => i = j
       PROVE  Recorded(L, e)'
  BY <1>11, <1>16 DEF Recorded
<1>17. CASE E = D
  BY <1>14, <1>15, <1>16, <1>17
<1>18. CASE \E d \in Msgs \cup {Garbled} : /\ E = Append(D, [msg |-> d, gen |-> h])
                                           /\ NotYet(L, e, d)
  <2>1. PICK d \in Msgs \cup {Garbled} : E = Append(D, [msg |-> d, gen |-> h]) /\ NotYet(L, e, d)
    BY <1>18
  <2>2. PICK y : y = [msg |-> d, gen |-> h]
    OBVIOUS
  <2>3. y \in Heards /\ y.msg = d /\ y.gen = h
    BY <1>3, <2>2 DEF Heards
  <2>4. PICK l \in Nat : l = Len(D) /\ DOMAIN D = 1 .. l
    BY <1>12
  <2>5. /\ DOMAIN E = 1 .. l + 1 /\ E[l + 1] = y
        /\ \A i \in 1 .. l : E[i] = D[i]
    BY <1>12, <2>1, <2>2, <2>3, <2>4, AppendProperties
  <2>6. d \in Plain =>
          /\ V \subseteq U /\ k >= n /\ h = g /\ d \in G
          /\ \A s \in Seqs : <<d, s>> \in U => Covered(L, b, s, n)
          /\ \A i \in 1 .. l : D[i] # y
    BY <1>1, <1>2, <1>4, <1>6, <1>11, <2>1, <2>2, <2>4 DEF NotYet, Keeps
  <2>7. ASSUME d \in Plain, NEW s \in Seqs, <<d, s>> \in V  PROVE Covered(L, b, s, k)
    <3>1. Covered(L, b, s, n) /\ n <= k
      BY <1>3, <2>6, <2>7
    <3> QED  BY <1>3, <1>5, <3>1, CoveredLonger
  <2>8. Fits(L, e, y)'
    <3>1. h <= h
      BY <1>3
    <3> QED  BY <1>8, <1>13, <2>3, <2>6, <2>7, <3>1
  <2>9. \A i \in DOMAIN E : i \in 1 .. l \/ i = l + 1
    BY <2>5
  <2>10. \A i \in DOMAIN E : Fits(L, e, E[i])'
    BY <1>14, <1>15, <2>4, <2>5, <2>8, <2>9
  <2>11. \A i, j \in DOMAIN E : E[i].msg \in Plain /\ E[i] = E[j] => i = j
    BY <1>15, <2>3, <2>4, <2>5, <2>6, <2>9
  <2> QED  BY <1>16, <2>10, <2>11
<1> QED  BY <1>2, <1>11, <1>17, <1>18

LEMMA SeenOfTick ==
  ASSUME Shape, NEW e \in Ends, NEW n \in 0 .. Len(peer[e].reasm),
         NEW what \in {"quiet", "timeout", "idle"}, TickAs(e, n, what)
  PROVE  \/ peer'[e].seen = peer[e].seen /\ gen'[e] = gen[e]
         \/ peer'[e].seen = <<>> /\ gen'[e] > gen[e]
<1>1. PICK p, k : p = peer[e] /\ k = p.seen
  OBVIOUS
<1>2. Bears("seen", p, k)
  BY <1>1 DEF Shape, Records, Bears
<1>3. PICK started : started = DrainKeyed(e)
  OBVIOUS
<1>4. Bears("seen", started, k)
  BY <1>1, <1>2, <1>3, MarkOfSend DEF DrainKeyed
<1>5. PICK aged, q : aged = ExpireReasm(started, n) /\ q = aged.peer
  OBVIOUS
<1>6. Bears("seen", q, k)
  BY <1>4, <1>5, MarkOfSend
<1>7. PICK nx : nx = CASE what = "quiet" -> Nothing(q)
                       [] what = "timeout" -> Timeout(q)
                       [] what = "idle" -> Nothing(NewPeer)
  OBVIOUS
<1>8. PICK y : y = nx.peer
  OBVIOUS
<1>9. Bears("seen", y, k) \/ y = NewPeer
  <2>1. CASE what = "quiet"
    BY <1>6, <1>7, <1>8, <2>1 DEF Nothing
  <2>2. CASE what = "timeout"
    <3>1. y = Timeout(q).peer
      BY <1>7, <1>8, <2>2
    <3> QED  BY <1>6, <3>1, MarkOfSend
  <2>3. CASE what = "idle"
    BY <1>7, <1>8, <2>3 DEF Nothing
  <2> QED  BY <2>1, <2>2, <2>3
<1>10. PICK dr : dr = Settled(e, y)
  OBVIOUS
<1>11. /\ peer' = [peer EXCEPT ![e] = dr.peer]
       /\ gen' = IF y = NewPeer /\ p # NewPeer THEN [gen EXCEPT ![e] = @ + 1] ELSE gen
  BY <1>1, <1>3, <1>5, <1>7, <1>8, <1>10 DEF TickAs, Forget
<1>12. peer'[e] = dr.peer
  BY <1>11 DEF Shape
<1>13. gen'[e] = IF y = NewPeer /\ p # NewPeer THEN gen[e] + 1 ELSE gen[e]
  BY <1>11 DEF Shape
<1>14. CASE y = NewPeer
  <2>1. PICK z : z = <<>>
    OBVIOUS
  <2>2. Bears("seen", y, z)
    BY <1>14, <2>1 DEF NewPeer, Bears
  <2>3. Bears("seen", dr.peer, z)
    BY <1>10, <2>2, MarkOfSend
  <2>4. p = NewPeer => k = <<>>
    BY <1>1 DEF NewPeer
  <2>5. gen[e] \in Nat
    BY DEF Shape
  <2> QED  BY <1>1, <1>12, <1>13, <1>14, <2>1, <2>3, <2>4, <2>5 DEF Bears
<1>15. CASE y # NewPeer
  <2>1. Bears("seen", dr.peer, k)
    BY <1>9, <1>10, <1>15, MarkOfSend
  <2> QED  BY <1>1, <1>12, <1>13, <1>15, <2>1 DEF Bears
<1> QED  BY <1>14, <1>15

LEMMA SeenOfSubmit ==
  ASSUME Shape, NEW e \in Ends, NEW m, Submit(e, m)
  PROVE  peer'[e].seen = peer[e].seen
<1>1. PICK p, k, s : p = peer[e] /\ k = p.seen /\ s = nextSeq[e]
  OBVIOUS
<1>2. Bears("seen", p, k)
  BY <1>1 DEF Shape, Records, Bears
<1>3. PICK sent, x : sent = Enqueue(p, m, s) /\ x = sent.peer
  OBVIOUS
<1>4. Bears("seen", x, k)
  BY <1>2, <1>3, MarkOfSend
<1>5. PICK dr : dr = Settled(e, x)
  OBVIOUS
<1>6. Bears("seen", dr.peer, k)
  BY <1>4, <1>5, MarkOfSend
<1>7. PICK o : o = sent.out
  OBVIOUS
<1>8. SendTo(e, m) = [dr EXCEPT !.out = o \cup @]
  BY <1>1, <1>3, <1>5, <1>7 DEF SendTo
<1>9. dr = [peer |-> dr.peer, out |-> dr.out, done |-> dr.done, deliver |-> dr.deliver]
  BY <1>5 DEF Settled, DrainAcks, Nothing
<1>10. SendTo(e, m).peer = dr.peer
  BY <1>8, <1>9
<1>11. peer'[e] = dr.peer
  BY <1>10 DEF Submit, Shape
<1> QED  BY <1>1, <1>6, <1>11 DEF Bears

LEMMA SeenOfReply ==
  ASSUME Shape, NEW e \in Ends, NEW f \in air[e], NEW reply, ReceiveAs(e, f, reply),
         NEW n, Bears("seen", HandleRf(e, f).peer, n)
  PROVE  peer'[e].seen = n
<1>1. PICK p : p = HandleRf(e, f).peer
  OBVIOUS
<1>2. PICK said, x : /\ said = IF reply = NoMsg THEN Nothing(p) ELSE Enqueue(p, reply, nextSeq[e])
                     /\ x = said.peer
  OBVIOUS
<1>3. Bears("seen", x, n)
  <2>1. Bears("seen", Enqueue(p, reply, nextSeq[e]).peer, n)
    BY <1>1, MarkOfSend
  <2> QED  BY <1>1, <1>2, <2>1 DEF Nothing
<1>4. PICK dr : dr = IF e = Gateway THEN DrainAcks(x) ELSE Nothing(x)
  OBVIOUS
<1>5. Bears("seen", dr.peer, n)
  <2>1. Bears("seen", DrainAcks(x).peer, n)
    BY <1>3, MarkOfSend
  <2> QED  BY <1>3, <1>4, <2>1 DEF Nothing
<1>6. peer' = [peer EXCEPT ![e] = dr.peer]
  BY <1>1, <1>2, <1>4 DEF ReceiveAs
<1> QED  BY <1>5, <1>6 DEF Shape, Bears

LEMMA SeenOfBoot ==
  ASSUME NEW e, NEW n
  PROVE  Bears("seen", Booted(e, n).peer, <<>>)
<1>1. PICK z : z = <<>>
  OBVIOUS
<1>2. Bears("seen", NewPeer, z)
  BY <1>1 DEF NewPeer, Bears
<1>3. Bears("seen", Enqueue(NewPeer, BootHello[n], 1).peer, z)
  BY <1>2, MarkOfSend
<1>4. Nothing(NewPeer).peer = NewPeer
  BY DEF Nothing
<1> QED  BY <1>1, <1>2, <1>3, <1>4 DEF Booted

-----------------------------------------------------------------------------
(* A frame is heard before its sender has given L further numbers.          *)
Timely(L) ==
  \A e \in Ends : \A f \in air[e] :
    f.kind = "DATA" /\ Receive(e, f) => nextSeq[Other(e)] < f.seq + L

LEMMA RecordedReceive ==
  ASSUME Sane, Sane', NEW L \in Nat, 2 * L <= DedupWindow + 3, Timely(L), NEW e \in Ends,
         Sent(Other(e)), Recorded(L, e), Keeps(Other(e)),
         NEW f \in air[e], NEW reply \in Msgs \cup {NoMsg},
         reply \in Answers(e, HandleRf(e, f).deliver), ReceiveAs(e, f, reply)
  PROVE  Recorded(L, e)'
<1>0. Shape
  BY DEF Sane
<1>1. PICK o \in Ends : o = Other(e)
  BY EndsAre
<1>2. PICK n \in Nat : n = nextSeq[o]
  BY <1>1, Limits DEF Sane, Shape
<1>3. PICK p, c, r, d : p = peer[e] /\ c = p.seen /\ r = HandleRf(e, f) /\ d = r.deliver
  OBVIOUS
<1>4. /\ Good(p, Pairs, Pairs) /\ c \in Seq(Seqs) /\ Len(c) <= DedupWindow /\ Carried(f, Pairs)
      /\ Distinct(c) /\ r = OnReceive(p, f)
  <2>1. Good(p, Pairs, Pairs) /\ Carried(f, Pairs)
    BY <1>3, EndsAre DEF Sane, Fine, Carries
  <2>2. c \in Seq(Seqs) /\ Len(c) <= DedupWindow
    BY <1>3, <2>1, Fields DEF Good
  <2> QED  BY <1>3, <2>1, <2>2 DEF HandleRf, Recorded
<1>5. /\ f.kind = "ACK" => Bears("seen", r.peer, c) /\ d = NoMsg
      /\ f.kind = "DATA" /\ NewSession(p, f.msg) = p =>
           \E after : Bears("seen", r.peer, after) /\ Brings(c, f, after, d)
      /\ f.kind = "DATA" /\ NewSession(p, f.msg) # p =>
           /\ \E after : Bears("seen", r.peer, after) /\ Brings(<<>>, f, after, d)
           /\ f.msg \in Hellos
  BY <1>3, <1>4, SeenOfReceive
<1>6. \A after : Bears("seen", r.peer, after) => peer'[e].seen = after
  BY <1>0, <1>3, SeenOfReply
<1>7. PICK g, h : g = gen[e] /\ h = gen'[e]
  OBVIOUS
<1>8. /\ g \in Nat
      /\ h = IF f.kind = "DATA" /\ NewSession(p, f.msg) # p THEN g + 1 ELSE g
  BY <1>0, <1>3, <1>7 DEF ReceiveAs, Forget, Shape
<1>9. d \in Msgs \cup {NoMsg, Garbled}
  BY <1>3, <1>4, OnReceiveSound DEF Sound
<1>10. PICK D : D = delivered[e]
  OBVIOUS
<1>11. delivered'[e] = IF d = NoMsg THEN D ELSE Append(D, [msg |-> d, gen |-> h])
  BY <1>0, <1>3, <1>7, <1>10 DEF ReceiveAs, Deliver, Shape
<1>12. NoMsg \notin Msgs /\ Garbled \notin Msgs /\ NoMsg # Garbled /\ <<>> \in Seq(Seqs)
       /\ Len(<<>>) = 0 /\ Distinct(<<>>)
  BY Limits DEF Distinct
<1>13. ASSUME Distinct(peer'[e].seen), d # NoMsg => NotYet(L, e, d),
              h > g \/ (h = g /\ \A s \in Seqs : Covered(L, c, s, n) => Covered(L, peer'[e].seen, s, n))
       PROVE  Recorded(L, e)'
  <2>1. \/ gen'[e] > gen[e]
        \/ /\ gen'[e] = gen[e]
           /\ \A s \in Seqs : Covered(L, peer[e].seen, s, nextSeq[Other(e)])
                                => Covered(L, peer'[e].seen, s, nextSeq[Other(e)])
    BY <1>1, <1>2, <1>3, <1>7, <1>13
  <2>2. \/ delivered'[e] = delivered[e]
        \/ \E x \in Msgs \cup {Garbled} :
             /\ delivered'[e] = Append(delivered[e], [msg |-> x, gen |-> gen'[e]])
             /\ NotYet(L, e, x)
    BY <1>7, <1>9, <1>10, <1>11, <1>13
  <2> QED  BY <1>13, <2>1, <2>2, RecordedStep
<1>14. CASE f.kind = "ACK"
  <2>1. peer'[e].seen = c /\ d = NoMsg
    BY <1>5, <1>6, <1>14
  <2> QED  BY <1>4, <1>8, <1>13, <1>14, <2>1
<1>15. CASE f.kind = "DATA"
  <2>1. PICK m \in Msgs, u \in Seqs : m = f.msg /\ u = f.seq
    BY <1>4, <1>15 DEF Carried, Frames
  <2>2. <<m, u>> \in Uses(o)
    BY <1>1, <1>15, <2>1, EndsAre DEF Uses, UsedBy
  <2>3. u < n /\ m \in Hellos \cup Gone(o)
    BY <1>1, <1>2, <2>2 DEF Sent
  <2>4. n < u + L
    <3>1. Receive(e, f)
      BY DEF Receive
    <3> QED  BY <1>1, <1>2, <1>15, <2>1, <3>1 DEF Timely
  <2>5. ASSUME NEW b \in Seq(Seqs), Len(b) <= DedupWindow, Distinct(b), ~ Holding(b, u)
        PROVE  /\ Distinct(Recent(b, u)) /\ Covered(L, Recent(b, u), u, n)
               /\ \A s \in Seqs : Covered(L, b, s, n) => Covered(L, Recent(b, u), s, n)
    BY <2>3, <2>4, <2>5, RecentCovers
  <2>6. \A x \in {NoMsg, Garbled} \cup Hellos : NotYet(L, e, x)
    BY <1>12 DEF NotYet, Plain
  <2>7. CASE NewSession(p, f.msg) # p
    <3>1. PICK after : Bears("seen", r.peer, after) /\ Brings(<<>>, f, after, d)
      BY <1>5, <1>15, <2>7
    <3>2. m \in Hellos
      BY <1>5, <1>15, <2>1, <2>7
    <3>3. d \in {NoMsg, Garbled} \cup Hellos
      BY <2>1, <3>1, <3>2 DEF Brings
    <3>4. Distinct(after)
      <4>1. PICK b : b = <<>>
        OBVIOUS
      <4>2. b \in Seq(Seqs) /\ Len(b) <= DedupWindow /\ Distinct(b)
        BY <1>12, <4>1, Limits
      <4> QED  BY <2>1, <2>5, <3>1, <4>1, <4>2 DEF Brings
    <3>5. h > g
      BY <1>8, <1>15, <2>7
    <3> QED  BY <1>6, <1>13, <2>6, <3>1, <3>3, <3>4, <3>5
  <2>8. CASE NewSession(p, f.msg) = p
    <3>1. PICK after : Bears("seen", r.peer, after) /\ Brings(c, f, after, d)
      BY <1>5, <1>15, <2>8
    <3>2. h = g /\ peer'[e].seen = after
      BY <1>6, <1>8, <2>8, <3>1
    <3>3. CASE after = c /\ d \in {NoMsg} \cup Hellos
      BY <1>4, <1>13, <2>6, <3>2, <3>3
    <3>4. CASE ~ Holding(c, u) /\ after = Recent(c, u) /\ d \in {m, Garbled}
      <4>1. /\ Distinct(after) /\ Covered(L, after, u, n)
            /\ \A s \in Seqs : Covered(L, c, s, n) => Covered(L, after, s, n)
        BY <1>4, <2>5, <3>4
      <4>2. ASSUME m \in Plain  PROVE NotYet(L, e, m)
        <5>1. m \in Gone(o)
          BY <2>3, <4>2 DEF Plain
        <5>2. ASSUME NEW s \in Seqs, <<m, s>> \in Uses(o)  PROVE Covered(L, after, s, n)
          <6>1. s = u
            <7>1. PICK x, y : x = <<m, s>> /\ y = <<m, u>>
              OBVIOUS
            <7>2. x \in Uses(o) /\ y \in Uses(o) /\ x[1] = y[1] /\ x[1] \in Plain
              BY <2>2, <4>2, <5>2, <7>1
            <7>3. x[2] = y[2]
              BY <1>1, <7>2 DEF Sent
            <7> QED  BY <7>1, <7>3
          <6> QED  BY <4>1, <6>1
        <5>3. ASSUME NEW i \in DOMAIN delivered[e], delivered[e][i] = [msg |-> m, gen |-> gen[e]]
              PROVE  FALSE
          <6>1. Fits(L, e, delivered[e][i])
            BY <5>3 DEF Recorded
          <6>2. PICK y : y = delivered[e][i]
            OBVIOUS
          <6>3. y.msg = m /\ y.gen = gen[e]
            BY <5>3, <6>2
          <6>4. Covered(L, c, u, n)
            BY <1>1, <1>2, <1>3, <2>2, <4>2, <6>1, <6>2, <6>3 DEF Fits
          <6>5. u + L <= n \/ Holding(c, u)
            BY <6>4 DEF Covered, Holding
          <6> QED  BY <1>2, <2>4, <3>4, <6>5, Limits
        <5> QED  BY <1>1, <1>2, <1>7, <3>2, <5>1, <5>2, <5>3 DEF NotYet
      <4>3. d # NoMsg => NotYet(L, e, d)
        <5>1. m \in Plain \/ m \in Hellos
          BY DEF Plain
        <5> QED  BY <2>6, <3>4, <4>2, <5>1
      <4> QED  BY <1>13, <3>2, <4>1, <4>3
    <3> QED  BY <2>1, <3>1, <3>3, <3>4 DEF Brings
  <2> QED  BY <2>7, <2>8
<1>16. f.kind \in {"ACK", "DATA"}
  BY <1>4 DEF Carried, Frames
<1> QED  BY <1>14, <1>15, <1>16

(* What a step leaves of the other end's records.                           *)
LEMMA OthersRecords ==
  ASSUME Sane, NEW x \in Ends, Moves(x)
  PROVE  LET e == Other(x) IN
         peer'[e] = peer[e] /\ gen'[e] = gen[e] /\ delivered'[e] = delivered[e]
<1>0. Shape /\ Other(x) \in Ends /\ Other(x) # x
  BY EndsAre DEF Sane
<1>1. peer' = peer \/ \E p : peer' = [peer EXCEPT ![x] = p]
  BY DEF Moves, Submit, Broadcast, Key, Discard, ReceiveAs, TickAs, Restart
<1>2. gen' = gen \/ \E w : Forget(x, w)
  BY DEF Moves, Submit, Broadcast, Key, Discard, ReceiveAs, TickAs, Restart, history
<1>3. delivered' = delivered \/ \E m : Deliver(x, m)
  BY DEF Moves, Submit, Broadcast, Key, Discard, ReceiveAs, TickAs, Restart, history
<1> QED  BY <1>0, <1>1, <1>2, <1>3 DEF Shape, Forget, Deliver

LEMMA SeenOfRestart ==
  ASSUME Shape, NEW e \in Ends, Restart(e)
  PROVE  peer'[e].seen = <<>> /\ gen'[e] > gen[e]
<1>1. PICK p : p = Booted(e, used.restarts[e] + 1).peer
  OBVIOUS
<1>2. peer'[e] = p
  BY <1>1 DEF Restart, Shape
<1>3. Bears("seen", p, <<>>)
  BY <1>1, SeenOfBoot
<1>4. gen' = [gen EXCEPT ![e] = @ + 1]
  BY DEF Restart, Forget
<1>5. gen[e] \in Nat /\ gen'[e] = gen[e] + 1
  BY <1>4 DEF Shape
<1> QED  BY <1>2, <1>3, <1>5 DEF Bears

(* A step of e in which it hears nothing.                                   *)
LEMMA SeenOfMove ==
  ASSUME Sane, NEW e \in Ends,
         \/ \E m \in todo[e] : Submit(e, m) \/ Broadcast(e, m)
         \/ \E f \in txq[e], arrives \in BOOLEAN : Key(e, f, arrives) \/ Discard(e, f)
         \/ \E n \in 0 .. Len(peer[e].reasm), what \in {"quiet", "timeout", "idle"} :
              TickAs(e, n, what)
         \/ Restart(e)
  PROVE  /\ delivered'[e] = delivered[e]
         /\ \/ peer'[e].seen = peer[e].seen /\ gen'[e] = gen[e]
            \/ peer'[e].seen = <<>> /\ gen'[e] > gen[e]
<1>0. Shape
  BY DEF Sane
<1>1. CASE \E m \in todo[e] : Submit(e, m) \/ Broadcast(e, m)
  <2>1. PICK m \in todo[e] : Submit(e, m) \/ Broadcast(e, m)
    BY <1>1
  <2>2. CASE Submit(e, m)
    BY <1>0, <2>2, SeenOfSubmit DEF Submit
  <2>3. CASE Broadcast(e, m)
    BY <2>3 DEF Broadcast, history
  <2> QED  BY <2>1, <2>2, <2>3
<1>2. CASE \E f \in txq[e], arrives \in BOOLEAN : Key(e, f, arrives) \/ Discard(e, f)
  BY <1>2 DEF Key, Discard, history
<1>3. CASE \E n \in 0 .. Len(peer[e].reasm), what \in {"quiet", "timeout", "idle"} :
             TickAs(e, n, what)
  <2>1. PICK n \in 0 .. Len(peer[e].reasm), what \in {"quiet", "timeout", "idle"} :
          TickAs(e, n, what)
    BY <1>3
  <2>2. delivered' = delivered
    BY <2>1 DEF TickAs
  <2> QED  BY <1>0, <2>1, <2>2, SeenOfTick
<1>4. CASE Restart(e)
  BY <1>0, <1>4, SeenOfRestart DEF Restart
<1> QED  BY <1>1, <1>2, <1>3, <1>4

LEMMA RecordedSame ==
  ASSUME Sane, Sane', NEW L \in Nat, NEW e \in Ends, Sent(Other(e)), Recorded(L, e),
         \/ Keeps(Other(e)) \/ StartsAgain(Other(e))
         \/ \E m \in Msgs : Gives(Other(e), m),
         delivered'[e] = delivered[e],
         \/ peer'[e].seen = peer[e].seen /\ gen'[e] = gen[e]
         \/ peer'[e].seen = <<>> /\ gen'[e] > gen[e]
  PROVE  Recorded(L, e)'
<1>1. Distinct(<<>>)
  BY DEF Distinct
<1>2. Distinct(peer'[e].seen)
  BY <1>1 DEF Recorded
<1> QED  BY <1>2, RecordedStep

Filed(L) == Sane /\ \A e \in Ends : Sent(e) /\ Recorded(L, e)

LEMMA FiledNext ==
  ASSUME NEW L \in Nat, 2 * L <= DedupWindow + 3, AnswersApart, Filed(L), NotRound,
         [Next]_vars, [Timely(L)]_vars
  PROVE  Filed(L)'
<1>0. Sane /\ Sane' /\ Shape
  BY SaneStep DEF Filed, Sane
<1>1. CASE vars' = vars
  <2>1. /\ peer' = peer /\ nextSeq' = nextSeq /\ txq' = txq /\ air' = air /\ todo' = todo
        /\ delivered' = delivered /\ outcome' = outcome /\ gen' = gen
    BY <1>1 DEF vars, history
  <2>2. ASSUME NEW e \in Ends  PROVE Uses(e)' = Uses(e) /\ Gone(e)' = Gone(e)
    BY <2>1 DEF Uses, Gone
  <2>3. ASSUME NEW e \in Ends  PROVE Sent(e)'
    BY <2>1, <2>2 DEF Filed, Sent
  <2>4. ASSUME NEW e \in Ends  PROVE Recorded(L, e)'
    <3>1. \A d : Fits(L, e, d)' <=> Fits(L, e, d)
      BY <2>1, <2>2, EndsAre DEF Fits
    <3> QED  BY <2>1, <3>1 DEF Filed, Recorded
  <2> QED  BY <1>0, <2>3, <2>4 DEF Filed
<1>2. CASE Next /\ Timely(L)
  <2>1. PICK x \in Ends : Moves(x)
    BY <1>2, NextMoves
  <2>2. PICK o \in Ends : o = Other(x) /\ Other(o) = x /\ \A e \in Ends : e = x \/ e = o
    BY EndsAre
  <2>3. Keeps(o) /\ (Keeps(x) \/ StartsAgain(x) \/ \E m \in Msgs : Gives(x, m))
    BY <1>0, <2>1, <2>2, SendsStep
  <2>4. Sent(x)' /\ Sent(o)'
    BY <1>0, <2>2, <2>3, SentStep DEF Filed
  <2>5. Recorded(L, o)'
    <3>1. peer'[o] = peer[o] /\ gen'[o] = gen[o] /\ delivered'[o] = delivered[o]
      BY <1>0, <2>1, <2>2, OthersRecords
    <3> QED  BY <1>0, <2>2, <2>3, <3>1, RecordedSame DEF Filed
  <2>6. Recorded(L, x)'
    <3>1. CASE \E f \in air[x], reply \in Msgs \cup {NoMsg} :
                 /\ reply # NoMsg => x = Gateway
                 /\ reply \in Answers(x, HandleRf(x, f).deliver) /\ ReceiveAs(x, f, reply)
      <4>1. PICK f \in air[x], reply \in Msgs \cup {NoMsg} :
                   reply \in Answers(x, HandleRf(x, f).deliver) /\ ReceiveAs(x, f, reply)
        BY <3>1
      <4> QED  BY <1>0, <1>2, <2>2, <2>3, <4>1, RecordedReceive DEF Filed
    <3>2. CASE \/ \E m \in todo[x] : Submit(x, m) \/ Broadcast(x, m)
               \/ \E f \in txq[x], arrives \in BOOLEAN : Key(x, f, arrives) \/ Discard(x, f)
               \/ \E n \in 0 .. Len(peer[x].reasm), what \in {"quiet", "timeout", "idle"} :
                    TickAs(x, n, what)
               \/ Restart(x)
      <4>1. /\ delivered'[x] = delivered[x]
            /\ \/ peer'[x].seen = peer[x].seen /\ gen'[x] = gen[x]
               \/ peer'[x].seen = <<>> /\ gen'[x] > gen[x]
        BY <1>0, <3>2, SeenOfMove
      <4> QED  BY <1>0, <2>2, <2>3, <4>1, RecordedSame DEF Filed
    <3> QED  BY <2>1, <3>1, <3>2 DEF Moves
  <2> QED  BY <1>0, <2>2, <2>4, <2>5, <2>6 DEF Filed
<1> QED  BY <1>1, <1>2

LEMMA FiledInit ==
  ASSUME Init, NotRound, NEW L \in Nat
  PROVE  Filed(L)
<1>0. Sane /\ Shape
  BY SaneInit DEF Sane
<1>1. PICK n \in Nat : n = 0
  OBVIOUS
<1>2. n \in 0 .. MaxRestarts[Station]
  BY <1>1, EndsAssumption DEF Ends
<1>3. ASSUME NEW e \in Ends
      PROVE  /\ nextSeq[e] = BootSeq(e, n) /\ peer[e] = Booted(e, n).peer
             /\ txq[e] = Booted(e, n).out /\ air[e] = {} /\ SeqSpace > 2
             /\ delivered[e] = <<>>
  <2>1. nextSeq[e] \in Seqs /\ nextSeq[e] + 1 < SeqSpace
    BY <1>0 DEF Shape, NotRound
  <2>2. SeqSpace > 2
    BY <2>1, Limits DEF Seqs
  <2> QED  BY <1>1, <2>2 DEF Init
<1>4. ASSUME NEW e \in Ends  PROVE Sent(e)
  <2>1. PICK A : A = BootPairs(e, n)
    OBVIOUS
  <2>2. /\ \A x \in A : x[2] < nextSeq[e]
        /\ e = Station /\ BootHello[n] # NoMsg => <<BootHello[n], 1>> \in A
    BY <1>2, <1>3, <2>1, BootGives
  <2>3. \A x \in A : x[1] \in Hellos
    <3>1. CASE e = Station /\ BootHello[n] # NoMsg
      <4>1. BootHello[n] \in Hellos
        BY <1>2, <3>1, EndsAssumption
      <4> QED  BY <2>1, <3>1, <4>1 DEF BootPairs
    <3>2. CASE ~ (e = Station /\ BootHello[n] # NoMsg)
      BY <2>1, <3>2 DEF BootPairs
    <3> QED  BY <3>1, <3>2
  <2>4. Sound(Booted(e, n), A, Pairs)
    BY <1>2, <2>2, BootedSound
  <2>5. Fine(e, A, Pairs)
    BY <1>3, <2>4, EndsAre DEF Sound, Fine, Carries
  <2>6. Uses(e) \subseteq A
    BY <2>5, UsesFine
  <2> QED  BY <2>2, <2>3, <2>6 DEF Sent, Plain
<1>5. ASSUME NEW e \in Ends  PROVE Recorded(L, e)
  <2>1. peer[e].seen = <<>>
    BY <1>3, SeenOfBoot DEF Bears
  <2> QED  BY <1>3, <2>1 DEF Recorded, Distinct
<1> QED  BY <1>0, <1>4, <1>5 DEF Filed

(* What reaches the layer above but a HELLO, which is answered every time,  *)
(* and what a restarted sender garbles.                                     *)
HeardOnce ==
  \A e \in Ends : \A i, j \in DOMAIN delivered[e] :
    delivered[e][i].msg \in Plain /\ delivered[e][i] = delivered[e][j] => i = j

(* Whatever is given to the layer above is given once (Sessions::           *)
(* receive_data, remember_seq), and once again only after the record of the *)
(* sender was forgotten -- however often its frames are repeated, and       *)
(* however often either end restarts -- as long as the window is wide       *)
(* enough: a frame must be heard before its sender has given L further      *)
(* numbers, where 2 L is at most the width of the window and 3.             *)
THEOREM NothingIsHeardTwice ==
  ASSUME NEW L \in Nat, 2 * L <= DedupWindow + 3, AnswersApart
  PROVE  Spec /\ []NotRound /\ [][Timely(L)]_vars => []HeardOnce
<1>1. Init /\ NotRound => Filed(L)
  BY FiledInit
<1>2. Filed(L) /\ NotRound /\ [Next]_vars /\ [Timely(L)]_vars => Filed(L)'
  BY FiledNext
<1>3. Filed(L) => HeardOnce
  BY DEF Filed, Recorded, HeardOnce
<1> QED  BY <1>1, <1>2, <1>3, PTL DEF Spec

(* Where neither process restarts, that is AtMostOnce.                      *)
THEOREM DeliveredAtMostOnce ==
  ASSUME NEW L \in Nat, 2 * L <= DedupWindow + 3, AnswersApart,
         \A e \in Ends : MaxRestarts[e] = 0
  PROVE  Spec /\ []NotRound /\ [][Timely(L)]_vars => []AtMostOnce
<1>1. Spec /\ []NotRound => []NeverGarbled
  BY NothingIsGarbled
<1>2. Spec => []Sane
  BY AlwaysSane
<1>3. Spec /\ []NotRound /\ [][Timely(L)]_vars => []HeardOnce
  BY NothingIsHeardTwice
<1>4. Sane /\ NeverGarbled /\ HeardOnce => AtMostOnce
  <2>1. SUFFICES ASSUME Sane, NeverGarbled, HeardOnce, NEW e \in Ends,
                        NEW i \in DOMAIN delivered[e], NEW j \in DOMAIN delivered[e],
                        i # j, delivered[e][i].msg \notin Hellos
                 PROVE  delivered[e][i] # delivered[e][j]
    BY DEF AtMostOnce
  <2>2. delivered[e] \in Seq(Heards)
    BY <2>1 DEF Sane, Shape
  <2>3. delivered[e][i] \in Heards
    BY <2>2, ElementOfSeq
  <2>4. delivered[e][i].msg # Garbled
    BY <2>1 DEF NeverGarbled, Heard
  <2>5. delivered[e][i].msg \in Plain
    BY <2>1, <2>3, <2>4 DEF Heards, Plain
  <2> QED  BY <2>1, <2>5 DEF HeardOnce
<1> QED  BY <1>1, <1>2, <1>3, <1>4, PTL

-----------------------------------------------------------------------------
(* What is acknowledged.  A claim is what an acknowledgement says: that the *)
(* message of a number has been heard, or which of its fragments are in     *)
(* hand.  V is the set of the claims that are true.                         *)
Vouched(f, V) ==
  /\ f.kind = "ACK" => [seq |-> f.seq, whole |-> f.whole, bits |-> f.bits] \in V
  /\ f.kind = "DATA" /\ f.piggy # NoSeq => Whole(f.piggy) \in V
Closed(V) == \A a \in V : a.whole => Whole(a.seq) \in V

(* What an end with the record p may still claim.                           *)
Owes(p, V) ==
  /\ p.owed.seq # NoSeq => p.owed \in V
  /\ \A k \in DOMAIN p.reasm : Partial(p.reasm[k].seq, p.reasm[k].parts) \in V

(* What it has collected of the claims of the other.                        *)
Collected(q) == [seq |-> q.seq, whole |-> FALSE, bits |-> q.acked]
Trusts(p, V) == p.pending.seq # NoSeq => Collected(p.pending) \in V

Says(F, V) == \A f \in F : Vouched(f, V)

(* A step that hears nothing: what was owed is still owed, or is not, and   *)
(* everything is forgotten, or some reassemblies, or nothing.               *)
Calm(p, q) ==
  /\ q.owed = p.owed \/ q.owed = NoAck
  /\ q.seen = p.seen \/ q.seen = <<>>
  /\ Lesser(p.reasm, q.reasm)

(* One that collects nothing: what was acknowledged of the message in       *)
(* flight is as before, or nothing.                                         *)
Rests(p, q) ==
  \/ q.pending.acked = {}
  \/ q.pending.seq = p.pending.seq /\ q.pending.acked = p.pending.acked

LEMMA LesserIs ==
  /\ \A rs : Lesser(rs, rs) /\ Lesser(rs, <<>>)
  /\ \A rs, ss, tt : Lesser(rs, ss) /\ Lesser(ss, tt) => Lesser(rs, tt)
<1>1. DOMAIN <<>> = {}
  OBVIOUS
<1>2. ASSUME NEW rs, NEW ss, NEW tt, Lesser(rs, ss), Lesser(ss, tt)  PROVE Lesser(rs, tt)
  BY <1>2, Zenon DEF Lesser
<1> QED  BY <1>1, <1>2 DEF Lesser

LEMMA CalmThen ==
  ASSUME NEW p, NEW q, NEW x
  PROVE  /\ Calm(p, p) /\ Rests(p, p)
         /\ Calm(p, q) /\ Calm(q, x) => Calm(p, x)
         /\ Rests(p, q) /\ Rests(q, x) => Rests(p, x)
         /\ \A V : Owes(p, V) /\ Calm(p, q) => Owes(q, V)
<1>1. ASSUME NEW V, Owes(p, V), Calm(p, q)  PROVE Owes(q, V)
  <2>1. q.owed.seq # NoSeq => q.owed \in V
    BY <1>1 DEF Owes, Calm, NoAck, Whole
  <2> QED  BY <1>1, <2>1 DEF Owes, Calm, Lesser
<1>2. Calm(p, q) /\ Calm(q, x) => Calm(p, x)
  BY LesserIs DEF Calm
<1> QED  BY <1>1, <1>2, LesserIs DEF Calm, Rests

LEMMA SilentFrags ==
  ASSUME NEW m, NEW s, NEW want \in BOOLEAN, NEW V, NEW T, NEW F,
         \/ F = FragsOf(m, s, want)
         \/ F = Retries({g \in FragsOf(m, s, want) : g.idx \notin T})
  PROVE  Says(F, V)
<1>1. ASSUME NEW i  PROVE Vouched(Frag(m, s, i, want), V)
                          /\ Vouched([Frag(m, s, i, want) EXCEPT !.retry = TRUE], V)
  BY DEF Frag, Vouched
<1>2. ASSUME NEW f \in F  PROVE Vouched(f, V)
  <2>1. CASE F = FragsOf(m, s, want)
    <3>1. PICK i : f = Frag(m, s, i, want)
      BY <2>1 DEF FragsOf
    <3> QED  BY <1>1, <3>1
  <2>2. CASE F = Retries({g \in FragsOf(m, s, want) : g.idx \notin T})
    <3>1. PICK g \in FragsOf(m, s, want) : f = [g EXCEPT !.retry = TRUE]
      BY <2>2 DEF Retries
    <3>2. PICK i : g = Frag(m, s, i, want)
      BY DEF FragsOf
    <3> QED  BY <1>1, <3>1, <3>2
  <2> QED  BY <2>1, <2>2
<1> QED  BY <1>2 DEF Says

LEMMA CalmStart ==
  ASSUME NEW p \in Records, NEW V, NEW entry, NEW q, NEW F,
         q = StartPending(p, entry).peer, F = StartPending(p, entry).out
  PROVE  Says(F, V) /\ Calm(p, q) /\ q.pending.acked = {}
<1>1. PICK z : z = [NoPending EXCEPT !.seq = entry.seq, !.msg = entry.msg]
  OBVIOUS
<1>2. q = [p EXCEPT !.pending = z] /\ F = FragsOf(entry.msg, entry.seq, TRUE)
  BY <1>1 DEF StartPending, Nothing
<1>3. q.pending = z /\ q.owed = p.owed /\ q.seen = p.seen /\ q.reasm = p.reasm
  BY <1>2 DEF Records
<1>4. z.acked = {}
  BY <1>1 DEF NoPending
<1>5. Says(F, V)
  <2>1. PICK want \in BOOLEAN : want = TRUE
    OBVIOUS
  <2>2. PICK m, t : m = entry.msg /\ t = entry.seq
    OBVIOUS
  <2>3. F = FragsOf(m, t, want)
    BY <1>2, <2>1, <2>2
  <2> QED  BY <2>3, SilentFrags
<1>6. Lesser(p.reasm, q.reasm)
  BY <1>3, LesserIs
<1> QED  BY <1>2, <1>3, <1>4, <1>5, <1>6 DEF Calm

LEMMA CalmNext ==
  ASSUME NEW p \in Records, NEW V, NEW q, NEW F, q = StartNext(p).peer, F = StartNext(p).out
  PROVE  /\ Says(F, V) /\ Calm(p, q) /\ q.pending.acked = {}
         /\ q.owed = p.owed /\ q.seen = p.seen /\ q.reasm = p.reasm
<1>1. CASE p.queue = <<>>
  <2>1. q = [p EXCEPT !.pending = NoPending] /\ F = {}
    BY <1>1 DEF StartNext, Nothing
  <2>2. /\ q.pending.acked = {} /\ q.owed = p.owed /\ q.seen = p.seen /\ q.reasm = p.reasm
    BY <2>1 DEF Records, NoPending
  <2>3. Lesser(p.reasm, q.reasm)
    BY <2>2, LesserIs
  <2> QED  BY <2>1, <2>2, <2>3 DEF Calm, Says
<1>2. CASE p.queue # <<>>
  <2>1. PICK w, x : w = [p EXCEPT !.queue = Tail(@)] /\ x = Head(p.queue)
    OBVIOUS
  <2>2. PICK z : z = [NoPending EXCEPT !.seq = x.seq, !.msg = x.msg]
    OBVIOUS
  <2>3. q = [w EXCEPT !.pending = z] /\ F = FragsOf(x.msg, x.seq, TRUE)
    BY <1>2, <2>1, <2>2 DEF StartNext, StartPending, Nothing
  <2>4. /\ q.pending = z /\ q.owed = p.owed /\ q.seen = p.seen /\ q.reasm = p.reasm
    BY <2>1, <2>3 DEF Records
  <2>5. z.acked = {}
    BY <2>2 DEF NoPending
  <2>6. Lesser(p.reasm, q.reasm)
    BY <2>4, LesserIs
  <2>7. PICK want \in BOOLEAN : want = TRUE
    OBVIOUS
  <2>8. PICK m, t : m = x.msg /\ t = x.seq
    OBVIOUS
  <2>9. F = FragsOf(m, t, want)
    BY <2>3, <2>7, <2>8
  <2>10. Says(F, V)
    BY <2>9, SilentFrags
  <2> QED  BY <2>4, <2>5, <2>6, <2>10 DEF Calm
<1> QED  BY <1>1, <1>2

LEMMA CalmDrain ==
  ASSUME NEW p \in Records, NEW V, Owes(p, V), NEW e, NEW q, NEW F
  PROVE  /\ q = DrainAcks(p).peer /\ F = DrainAcks(p).out =>
              Says(F, V) /\ Calm(p, q) /\ Rests(p, q) /\ q.seen = p.seen /\ q.reasm = p.reasm
         /\ q = Settled(e, p).peer /\ F = Settled(e, p).out =>
              Says(F, V) /\ Calm(p, q) /\ Rests(p, q) /\ q.seen = p.seen /\ q.reasm = p.reasm
<1>1. ASSUME q = DrainAcks(p).peer, F = DrainAcks(p).out
      PROVE  Says(F, V) /\ Calm(p, q) /\ Rests(p, q) /\ q.seen = p.seen /\ q.reasm = p.reasm
  <2>1. q = [p EXCEPT !.owed = NoAck]
    BY <1>1 DEF DrainAcks, Nothing
  <2>2. F = IF p.owed.seq = NoSeq THEN {} ELSE {AckFrame(p.owed)}
    BY <1>1 DEF DrainAcks, Nothing
  <2>3. q.pending = p.pending /\ q.owed = NoAck /\ q.seen = p.seen /\ q.reasm = p.reasm
    BY <2>1 DEF Records
  <2>4. p.owed \in Acks
    BY DEF Records
  <2>5. PICK a : a = p.owed
    OBVIOUS
  <2>6. a = [seq |-> a.seq, whole |-> a.whole, bits |-> a.bits]
    BY <2>4, <2>5 DEF Acks
  <2>7. Says(F, V)
    BY <2>2, <2>5, <2>6 DEF Says, Vouched, AckFrame, Owes
  <2>8. Lesser(p.reasm, q.reasm)
    BY <2>3, LesserIs
  <2> QED  BY <2>3, <2>7, <2>8 DEF Calm, Rests
<1>2. ASSUME q = p, F = {}
      PROVE  Says(F, V) /\ Calm(p, q) /\ Rests(p, q) /\ q.seen = p.seen /\ q.reasm = p.reasm
  BY <1>2, CalmThen DEF Says
<1> QED  BY <1>1, <1>2 DEF Settled, Nothing

LEMMA CalmAck ==
  ASSUME NEW p \in Records, NEW V, NEW a, NEW q, NEW F,
         q = ApplyAck(p, a).peer, F = ApplyAck(p, a).out
  PROVE  /\ Says(F, V) /\ Calm(p, q)
         /\ q.owed = p.owed /\ q.seen = p.seen /\ q.reasm = p.reasm
<1>1. PICK r : r = StartNext(p)
  OBVIOUS
<1>2. r = [peer |-> r.peer, out |-> r.out, done |-> r.done, deliver |-> r.deliver]
  BY <1>1 DEF StartNext, StartPending, Nothing
<1>3. /\ Says(r.out, V) /\ Calm(p, r.peer)
      /\ r.peer.owed = p.owed /\ r.peer.seen = p.seen /\ r.peer.reasm = p.reasm
  BY <1>1, CalmNext
<1>4. PICK t : t = ApplyAck(p, a)
  OBVIOUS
<1>5. \/ t = Nothing(p)
      \/ \E d : t = [r EXCEPT !.done = d]
      \/ \E v : t = [Nothing([p EXCEPT !.pending = v]) EXCEPT !.out = Retries(Unacked(v))]
  BY <1>1, <1>4, Zenon DEF ApplyAck
<1>6. CASE t = Nothing(p)
  BY <1>4, <1>6, CalmThen DEF Nothing, Says
<1>7. CASE \E d : t = [r EXCEPT !.done = d]
  BY <1>2, <1>3, <1>4, <1>7
<1>8. CASE \E v : t = [Nothing([p EXCEPT !.pending = v]) EXCEPT !.out = Retries(Unacked(v))]
  <2>1. PICK v : t = [Nothing([p EXCEPT !.pending = v]) EXCEPT !.out = Retries(Unacked(v))]
    BY <1>8
  <2>2. q = [p EXCEPT !.pending = v] /\ F = Retries(Unacked(v))
    BY <1>4, <2>1 DEF Nothing
  <2>3. q.owed = p.owed /\ q.seen = p.seen /\ q.reasm = p.reasm
    BY <2>2 DEF Records
  <2>35. PICK want \in BOOLEAN : want = TRUE
    OBVIOUS
  <2>4. PICK m, s, T : m = v.msg /\ s = v.seq /\ T = v.acked
    OBVIOUS
  <2>5. F = Retries({g \in FragsOf(m, s, want) : g.idx \notin T})
    BY <2>2, <2>35, <2>4 DEF Unacked
  <2>6. Says(F, V)
    BY <2>5, SilentFrags
  <2>7. Lesser(p.reasm, q.reasm)
    BY <2>3, LesserIs
  <2> QED  BY <2>3, <2>6, <2>7 DEF Calm
<1> QED  BY <1>5, <1>6, <1>7, <1>8

LEMMA CalmTimeout ==
  ASSUME NEW p \in Records, NEW V, NEW q, NEW F,
         q = Timeout(p).peer, F = Timeout(p).out
  PROVE  Says(F, V) /\ Calm(p, q) /\ Rests(p, q)
<1>1. CASE Timeout(p) = Retry(p)
  <2>1. PICK v : v = [p.pending EXCEPT !.attempts = @ + 1]
    OBVIOUS
  <2>2. q = [p EXCEPT !.pending = v] /\ F = Retries(Unacked(p.pending))
    BY <1>1, <2>1 DEF Retry, Nothing
  <2>3. /\ q.owed = p.owed /\ q.seen = p.seen /\ q.reasm = p.reasm /\ q.pending = v
    BY <2>2 DEF Records
  <2>4. v.acked = p.pending.acked /\ v.seq = p.pending.seq
    <3>1. p.pending \in Pendings
      BY DEF Records
    <3>2. \E A, B, C, D, E : p.pending = [seq |-> A, msg |-> B, acked |-> C, attempts |-> D, armed |-> E]
      BY <3>1 DEF Pendings, NoPending
    <3> QED  BY <2>1, <3>2
  <2>45. PICK want \in BOOLEAN : want = TRUE
    OBVIOUS
  <2>5. PICK m, s, T : m = p.pending.msg /\ s = p.pending.seq /\ T = p.pending.acked
    OBVIOUS
  <2>6. F = Retries({g \in FragsOf(m, s, want) : g.idx \notin T})
    BY <2>2, <2>45, <2>5 DEF Unacked
  <2>7. Says(F, V)
    BY <2>6, SilentFrags
  <2>8. Lesser(p.reasm, q.reasm)
    BY <2>3, LesserIs
  <2> QED  BY <2>3, <2>4, <2>7, <2>8 DEF Calm, Rests
<1>2. CASE Timeout(p) = Nothing(NewPeer)
  <2>1. q = NewPeer /\ F = {}
    BY <1>2 DEF Nothing
  <2>2. q.owed = NoAck /\ q.seen = <<>> /\ q.reasm = <<>> /\ q.pending.acked = {}
    BY <2>1 DEF NewPeer, NoPending
  <2>3. Lesser(p.reasm, q.reasm)
    BY <2>2, LesserIs
  <2> QED  BY <2>1, <2>2, <2>3 DEF Says, Calm, Rests
<1>3. CASE Timeout(p) = StartNext(p)
  BY <1>3, CalmNext DEF Rests
<1> QED  BY <1>1, <1>2, <1>3 DEF Timeout, GiveUp

LEMMA CalmKeyed ==
  ASSUME NEW p \in Records, NEW ks, NEW q, q = OnKeyed(p, ks)
  PROVE  Calm(p, q) /\ Rests(p, q) /\ q.reasm = p.reasm
<1>1. PICK v : v = [p.pending EXCEPT !.armed = TRUE]
  OBVIOUS
<1>2. CASE q = p
  BY <1>2, CalmThen
<1>3. CASE q = [p EXCEPT !.pending.armed = TRUE]
  <2>1. /\ q.owed = p.owed /\ q.seen = p.seen /\ q.reasm = p.reasm
    BY <1>3 DEF Records
  <2>2. q.pending.seq = p.pending.seq /\ q.pending.acked = p.pending.acked
    <3>1. p.pending \in Pendings
      BY DEF Records
    <3>2. \E A, B, C, D, E : p.pending = [seq |-> A, msg |-> B, acked |-> C, attempts |-> D, armed |-> E]
      BY <3>1 DEF Pendings, NoPending
    <3>3. q.pending = v
      BY <1>1, <1>3 DEF Records
    <3> QED  BY <1>1, <3>2, <3>3
  <2>3. Lesser(p.reasm, q.reasm)
    BY <2>1, LesserIs
  <2> QED  BY <2>1, <2>2, <2>3 DEF Calm, Rests
<1> QED  BY <1>2, <1>3 DEF OnKeyed

LEMMA CalmExpire ==
  ASSUME NEW p \in Records, NEW V, Owes(p, V), NEW n \in 0 .. Len(p.reasm), NEW q, NEW F,
         q = ExpireReasm(p, n).peer, F = ExpireReasm(p, n).out
  PROVE  Says(F, V) /\ Calm(p, q) /\ Rests(p, q)
<1>1. PICK rs : rs = p.reasm
  OBVIOUS
<1>2. rs \in Seq(Slots)
  BY <1>1 DEF Records
<1>3. PICK l \in Nat : l = Len(rs) /\ DOMAIN rs = 1 .. l
  BY <1>2
<1>4. PICK y : y = SubSeq(rs, n + 1, l)
  OBVIOUS
<1>5. q = [p EXCEPT !.reasm = y]
  BY <1>1, <1>3, <1>4 DEF ExpireReasm, Nothing
<1>6. /\ q.owed = p.owed /\ q.seen = p.seen /\ q.reasm = y /\ q.pending = p.pending
  BY <1>5 DEF Records
<1>7. Lesser(rs, y)
  <2>1. n \in Nat /\ n <= l
    BY <1>1, <1>3
  <2>2. /\ y \in Seq(Slots) /\ Len(y) = IF n + 1 <= l THEN l - (n + 1) + 1 ELSE 0
        /\ \A i \in 1 .. l - (n + 1) + 1 : y[i] = rs[n + 1 + i - 1]
    BY <1>2, <1>3, <1>4, <2>1, SubSeqProperties
  <2>3. DOMAIN y = 1 .. l - n
    BY <2>1, <2>2
  <2>4. ASSUME NEW j \in DOMAIN y  PROVE n + j \in DOMAIN rs /\ rs[n + j] = y[j]
    <3>1. j \in 1 .. l - (n + 1) + 1 /\ n + 1 + j - 1 = n + j
      BY <2>1, <2>3
    <3>2. y[j] = rs[n + 1 + j - 1]
      BY <2>2, <3>1
    <3> QED  BY <1>3, <2>1, <3>1, <3>2
  <2> QED  BY <2>4 DEF Lesser
<1>8. Says(F, V)
  <2>1. SUFFICES ASSUME NEW f \in F  PROVE Vouched(f, V)
    BY DEF Says
  <2>2. PICK j \in 1 .. n : f = AckFrame(Partial(rs[j].seq, rs[j].parts))
    BY <1>1, <2>1 DEF ExpireReasm
  <2>3. j \in DOMAIN rs
    BY <1>1, <1>3
  <2>4. Partial(rs[j].seq, rs[j].parts) \in V
    BY <1>1, <2>3 DEF Owes
  <2> QED  BY <2>2, <2>4 DEF Vouched, AckFrame, Partial
<1> QED  BY <1>1, <1>6, <1>7, <1>8 DEF Calm, Rests

LEMMA CalmSend ==
  ASSUME NEW p \in Records, NEW V, Owes(p, V), Closed(V), NEW m, NEW s, NEW q, NEW F,
         q = Enqueue(p, m, s).peer, F = Enqueue(p, m, s).out
  PROVE  Says(F, V) /\ Calm(p, q) /\ Rests(p, q) /\ q.seen = p.seen /\ q.reasm = p.reasm
<1>1. PICK entry, carries : /\ entry = [seq |-> s, msg |-> m]
                            /\ carries = (p.owed.seq # NoSeq /\ p.owed.whole)
  OBVIOUS
<1>2. PICK w : w = IF carries THEN [p EXCEPT !.owed = NoAck] ELSE p
  OBVIOUS
<1>3. /\ w \in Records /\ w.seen = p.seen /\ w.reasm = p.reasm /\ w.pending = p.pending
      /\ w.owed = p.owed \/ w.owed = NoAck
  <2>1. NoAck \in Acks
    BY DEF NoAck, Acks, Whole
  <2> QED  BY <1>2, <2>1 DEF Records
<1>4. CASE Idle(p)
  <2>1. PICK x, G : x = StartPending(w, entry).peer /\ G = StartPending(w, entry).out
    OBVIOUS
  <2>15. G = FragsOf(entry.msg, entry.seq, TRUE)
    BY <2>1 DEF StartPending, Nothing
  <2>2. /\ Says(G, V) /\ x.pending.acked = {}
        /\ x.owed = w.owed /\ x.seen = w.seen /\ x.reasm = w.reasm
    <3>1. w \in Records /\ x = StartPending(w, entry).peer /\ G = StartPending(w, entry).out
      BY <1>3, <2>1
    <3>2. Says(G, V)
      BY <3>1, CalmStart
    <3>3. x.pending.acked = {}
      BY <3>1, CalmStart
    <3>4. x.owed = w.owed /\ x.seen = w.seen /\ x.reasm = w.reasm
      BY <3>1 DEF StartPending, Nothing, Records
    <3> QED  BY <3>2, <3>3, <3>4
  <2>3. q = x /\ F = {IF f.idx = 0 /\ carries THEN [f EXCEPT !.piggy = p.owed.seq] ELSE f : f \in G}
    BY <1>1, <1>2, <1>4, <2>1 DEF Enqueue, StartPending, Nothing
  <2>4. ASSUME NEW f \in G, carries  PROVE Vouched([f EXCEPT !.piggy = p.owed.seq], V)
    <3>1. Whole(p.owed.seq) \in V
      BY <1>1, <2>4 DEF Owes, Closed
    <3>2. \E i \in Frags(entry.msg) : f = Frag(entry.msg, entry.seq, i, TRUE)
      BY <2>15 DEF FragsOf
    <3> QED  BY <3>1, <3>2 DEF Frag, Vouched
  <2>5. Says(F, V)
    BY <2>2, <2>3, <2>4 DEF Says
  <2>6. Lesser(p.reasm, q.reasm)
    BY <1>3, <2>2, <2>3, LesserIs
  <2> QED  BY <1>3, <2>2, <2>3, <2>5, <2>6 DEF Calm, Rests
<1>5. CASE ~ Idle(p)
  <2>1. F = {} /\ (q = p \/ \E v : q = [p EXCEPT !.queue = v])
    BY <1>5 DEF Enqueue, Nothing
  <2>2. q.pending = p.pending /\ q.owed = p.owed /\ q.seen = p.seen /\ q.reasm = p.reasm
    BY <2>1 DEF Records
  <2>3. Lesser(p.reasm, q.reasm)
    BY <2>2, LesserIs
  <2> QED  BY <2>1, <2>2, <2>3 DEF Calm, Rests, Says
<1> QED  BY <1>4, <1>5

LEMMA CalmNewPeer ==
  ASSUME NEW p, NEW q, q.owed = NoAck, q.seen = <<>>, q.reasm = <<>>, q.pending.acked = {}
  PROVE  Calm(p, q) /\ Rests(p, q)
BY LesserIs DEF Calm, Rests

LEMMA CalmSession ==
  ASSUME NEW p, NEW m, NEW q, q = NewSession(p, m)
  PROVE  /\ Calm(p, q) /\ Rests(p, q)
         /\ \/ q = p
            \/ m \in Hellos /\ q.owed = NoAck /\ q.seen = <<>> /\ q.reasm = <<>>
<1>1. CASE q = p
  BY <1>1, CalmThen
<1>2. CASE m \in Hellos /\ q = [NewPeer EXCEPT !.epoch = EpochOf[m]]
  <2>1. q.owed = NoAck /\ q.seen = <<>> /\ q.reasm = <<>> /\ q.pending.acked = {}
    BY <1>2 DEF NewPeer, NoPending
  <2> QED  BY <1>2, <2>1, CalmNewPeer
<1> QED  BY <1>1, <1>2 DEF NewSession

-----------------------------------------------------------------------------
(* What is true: B are the numbers the sender has given, h is what the      *)
(* receiver has heard and rs what it has in hand of the rest.               *)
Gathers(rs, m, a) ==
  \E k \in DOMAIN rs :
    rs[k].seq = a.seq /\ \A i \in a.bits : i \in DOMAIN rs[k].parts /\ rs[k].parts[i] = m
Truths(B, h, rs) ==
  {a \in Acks : \E m \in Msgs :
     /\ <<m, a.seq>> \in B
     /\ m \in h \/ (~ a.whole /\ (a.bits = {} \/ Gathers(rs, m, a)))}

(* A reassembly that lacks a fragment of the message of its number.         *)
Half(r, B) ==
  \E m \in Msgs : /\ <<m, r.seq>> \in B /\ DOMAIN r.parts = Frags(m)
                  /\ \E i \in Frags(m) : r.parts[i] = NoMsg
Halves(rs, B) == \A k \in DOMAIN rs : Half(rs[k], B)
HeardAll(seen, B, h) == \A i \in DOMAIN seen : \E m \in h : <<m, seen[i]>> \in B

(* A record that owes no acknowledgement but a true one.                    *)
Honest(p, B, h) ==
  /\ HeardAll(p.seen, B, h) /\ Halves(p.reasm, B)
  /\ p.owed.seq # NoSeq => p.owed \in Truths(B, h, p.reasm)

(* A reassembly that goes on has lost nothing it had.                       *)
Grown(rs, ss) ==
  \A k \in DOMAIN rs, j \in DOMAIN ss : rs[k].seq = ss[j].seq =>
    \A i \in DOMAIN rs[k].parts : rs[k].parts[i] # NoMsg =>
      i \in DOMAIN ss[j].parts /\ ss[j].parts[i] = rs[k].parts[i]
(* And none is given up.                                                    *)
NoneLost(p, q) ==
  \A k \in DOMAIN p.reasm :
    Reassembles(q.reasm, p.reasm[k].seq) \/ Remembered(q, p.reasm[k].seq)

LEMMA SlotHolds ==
  ASSUME NEW B, Single(B), NEW r \in Slots, Holds(r, B), NEW m \in Msgs, <<m, r.seq>> \in B
  PROVE  \A i \in DOMAIN r.parts : r.parts[i] # NoMsg => r.parts[i] = m
<1>1. PICK c, s : c = r.parts /\ s = r.seq
  OBVIOUS
<1>2. c \in Parts /\ s \in Seqs
  BY <1>1 DEF Slots
<1>3. ASSUME NEW i \in DOMAIN c, c[i] # NoMsg  PROVE c[i] = m
  <2>1. c[i] \in Msgs
    BY <1>2, <1>3, PartsAre
  <2> QED  BY <1>1, <1>2, <1>3, <2>1 DEF Holds, Single
<1> QED  BY <1>1, <1>3

LEMMA TruthsClosed ==
  ASSUME NEW B, NEW h, NEW rs
  PROVE  Closed(Truths(B, h, rs))
<1>1. SUFFICES ASSUME NEW a \in Truths(B, h, rs), a.whole  PROVE Whole(a.seq) \in Truths(B, h, rs)
  BY DEF Closed
<1>2. a.seq \in Seqs \cup {NoSeq} /\ \E m \in Msgs : <<m, a.seq>> \in B /\ m \in h
  BY <1>1 DEF Truths, Acks
<1>3. PICK w : w = Whole(a.seq)
  OBVIOUS
<1>4. w \in Acks /\ w.seq = a.seq
  BY <1>2, <1>3 DEF Whole, Acks
<1> QED  BY <1>2, <1>3, <1>4 DEF Truths

LEMMA HonestOwes ==
  ASSUME NEW B, Single(B), NEW h, NEW p \in Records, Kept(p.reasm, B), Honest(p, B, h)
  PROVE  Owes(p, Truths(B, h, p.reasm))
<1>1. PICK rs : rs = p.reasm
  OBVIOUS
<1>2. ASSUME NEW k \in DOMAIN rs  PROVE Partial(rs[k].seq, rs[k].parts) \in Truths(B, h, rs)
  <2>1. PICK r : r = rs[k]
    OBVIOUS
  <2>2. r \in Slots /\ Holds(r, B) /\ Half(r, B)
    BY <1>1, <2>1 DEF Kept, Honest, Halves
  <2>3. r.seq \in Seqs /\ r.parts \in Parts
    BY <2>2 DEF Slots
  <2>4. PICK m \in Msgs : <<m, r.seq>> \in B
    BY <2>2 DEF Half
  <2>5. PICK a : a = Partial(r.seq, r.parts)
    OBVIOUS
  <2>6. a.seq = r.seq /\ a.whole = FALSE /\ a.bits = {i \in DOMAIN r.parts : r.parts[i] # NoMsg}
    BY <2>5 DEF Partial
  <2>7. a \in Acks
    BY <2>3, <2>5, AcksAre
  <2>8. \A i \in a.bits : i \in DOMAIN r.parts /\ r.parts[i] = m
    BY <2>2, <2>4, <2>6, SlotHolds
  <2>9. Gathers(rs, m, a)
    BY <2>1, <2>6, <2>8 DEF Gathers
  <2> QED  BY <2>1, <2>4, <2>5, <2>6, <2>7, <2>9 DEF Truths
<1> QED  BY <1>1, <1>2 DEF Owes, Honest

LEMMA TruthsKept ==
  ASSUME NEW B \in SUBSET Pairs, Single(B), NEW h, NEW h2, h \subseteq h2, NEW p, NEW q,
         Kept(p.reasm, B), Grown(p.reasm, q.reasm), NoneLost(p, q), HeardAll(q.seen, B, h2)
  PROVE  Truths(B, h, p.reasm) \subseteq Truths(B, h2, q.reasm)
<1>1. PICK rs, ss : rs = p.reasm /\ ss = q.reasm
  OBVIOUS
<1>2. SUFFICES ASSUME NEW a \in Truths(B, h, rs)  PROVE a \in Truths(B, h2, ss)
  BY <1>1
<1>3. PICK m \in Msgs : /\ <<m, a.seq>> \in B
                        /\ m \in h \/ (~ a.whole /\ (a.bits = {} \/ Gathers(rs, m, a)))
  BY DEF Truths
<1>4. a \in Acks /\ a.seq \in Seqs
  BY <1>3 DEF Truths, Pairs
<1>5. CASE m \in h \/ (~ a.whole /\ a.bits = {})
  BY <1>3, <1>4, <1>5 DEF Truths
<1>6. CASE ~ a.whole /\ Gathers(rs, m, a)
  <2>1. PICK k \in DOMAIN rs :
          rs[k].seq = a.seq /\ \A i \in a.bits : i \in DOMAIN rs[k].parts /\ rs[k].parts[i] = m
    BY <1>6 DEF Gathers
  <2>2. CASE Reassembles(ss, a.seq)
    <3>1. PICK j \in DOMAIN ss : ss[j].seq = a.seq
      BY <2>2 DEF Reassembles
    <3>2. \A i \in a.bits : i \in DOMAIN ss[j].parts /\ ss[j].parts[i] = m
      BY <1>1, <2>1, <3>1, Limits DEF Grown
    <3>3. Gathers(ss, m, a)
      BY <3>1, <3>2 DEF Gathers
    <3> QED  BY <1>3, <1>4, <1>6, <3>3 DEF Truths
  <2>3. CASE Remembered(q, a.seq)
    <3>1. PICK x \in h2 : <<x, a.seq>> \in B
      BY <2>3 DEF Remembered, HeardAll
    <3>2. x \in Msgs
      BY <3>1 DEF Pairs
    <3>3. x = m
      BY <1>3, <1>4, <3>1, <3>2 DEF Single
    <3> QED  BY <1>3, <1>4, <3>1, <3>3 DEF Truths
  <2> QED  BY <1>1, <2>1, <2>2, <2>3 DEF NoneLost
<1> QED  BY <1>3, <1>5, <1>6

LEMMA LesserGrown ==
  ASSUME NEW rs, NEW ss, NEW tt, Apart(rs), Lesser(rs, ss)
  PROVE  Grown(rs, ss) /\ (Grown(tt, rs) => Grown(tt, ss))
<1>1. Grown(rs, ss)
  <2>1. ASSUME NEW k \in DOMAIN rs, NEW j \in DOMAIN ss, rs[k].seq = ss[j].seq
        PROVE  rs[k] = ss[j]
    BY <2>1 DEF Lesser, Apart
  <2> QED  BY <2>1 DEF Grown
<1>2. ASSUME Grown(tt, rs)  PROVE Grown(tt, ss)
  <2>1. SUFFICES ASSUME NEW k \in DOMAIN tt, NEW j \in DOMAIN ss, tt[k].seq = ss[j].seq,
                        NEW i \in DOMAIN tt[k].parts, tt[k].parts[i] # NoMsg
                 PROVE  i \in DOMAIN ss[j].parts /\ ss[j].parts[i] = tt[k].parts[i]
    BY DEF Grown
  <2>2. PICK l \in DOMAIN rs : rs[l] = ss[j]
    BY DEF Lesser
  <2> QED  BY <1>2, <2>1, <2>2 DEF Grown
<1> QED  BY <1>1, <1>2

(* A calm step of an honest end that gives nothing up.                      *)
LEMMA CalmHonest ==
  ASSUME NEW B \in SUBSET Pairs, Single(B), NEW h, NEW p, NEW q, Kept(p.reasm, B),
         Honest(p, B, h), Calm(p, q), NoneLost(p, q)
  PROVE  Truths(B, h, p.reasm) \subseteq Truths(B, h, q.reasm) /\ Honest(q, B, h)
<1>1. HeardAll(q.seen, B, h)
  BY DEF Calm, Honest, HeardAll
<1>2. Grown(p.reasm, q.reasm)
  BY LesserGrown DEF Calm, Kept
<1>3. Truths(B, h, p.reasm) \subseteq Truths(B, h, q.reasm)
  BY <1>1, <1>2, TruthsKept
<1>4. Halves(q.reasm, B)
  BY DEF Calm, Lesser, Honest, Halves
<1>5. q.owed.seq # NoSeq => q.owed \in Truths(B, h, q.reasm)
  BY <1>3 DEF Calm, Honest, NoAck, Whole
<1> QED  BY <1>1, <1>3, <1>4, <1>5 DEF Honest

LEMMA StashHonest ==
  ASSUME NEW B \in SUBSET Pairs, Single(B), NEW rs, Kept(rs, B), Len(rs) <= MaxReasm,
         Halves(rs, B), NEW f \in Data, f.idx \in Frags(f.msg), <<f.msg, f.seq>> \in B,
         NEW z, z = Stash(rs, f)
  PROVE  /\ Grown(rs, z)
         /\ \A j \in DOMAIN z : z[j].seq # f.seq => Half(z[j], B)
<1>1. PICK ss, s, m : ss = WithSlot(rs, f) /\ s = f.seq /\ m = f.msg
  OBVIOUS
<1>2. m \in Msgs /\ s \in Seqs /\ <<m, s>> \in B
  BY <1>1 DEF Data
<1>3. Kept(z, B) /\ Reassembles(z, f.seq) /\ StashedIn(ss, f, z)
  BY <1>1, StashKept
<1>4. Older(rs, Blank(f), ss) /\ Blank(f).seq = s
  BY <1>1, WithSlotKept DEF Blank
<1>5. PICK new, j0 : j0 = Slot(z, s) /\ new = z[j0]
  OBVIOUS
<1>6. Older(ss, new, z) /\ new.seq = s /\ j0 \in DOMAIN z
  BY <1>1, <1>3, <1>5, SlotIs DEF StashedIn
<1>7. ASSUME NEW j \in DOMAIN z, z[j].seq # s  PROVE \E k \in DOMAIN rs : rs[k] = z[j]
  <2>1. PICK l \in DOMAIN ss : ss[l] = z[j]
    BY <1>6, <1>7 DEF Older
  <2> QED  BY <1>4, <1>7, <2>1 DEF Older
<1>8. ASSUME NEW k \in DOMAIN rs, NEW j \in DOMAIN z, rs[k].seq = z[j].seq,
             NEW i \in DOMAIN rs[k].parts, rs[k].parts[i] # NoMsg
      PROVE  i \in DOMAIN z[j].parts /\ z[j].parts[i] = rs[k].parts[i]
  <2>1. CASE z[j].seq # s
    <3>1. PICK l \in DOMAIN rs : rs[l] = z[j]
      BY <1>7, <2>1
    <3>2. l = k
      BY <1>8, <3>1 DEF Kept, Apart
    <3> QED  BY <1>8, <3>1, <3>2
  <2>2. CASE z[j].seq = s
    <3>1. j = j0
      BY <1>3, <1>5, <1>6, <2>2 DEF Kept, Apart
    <3>2. PICK r : r = rs[k]
      OBVIOUS
    <3>3. r \in Slots /\ Holds(r, B) /\ Half(r, B) /\ r.seq = s
      BY <1>8, <2>2, <3>2 DEF Kept, Halves
    <3>4. r.parts[i] = m
      BY <1>2, <1>8, <3>2, <3>3, SlotHolds
    <3>5. DOMAIN r.parts = Frags(m)
      BY <1>2, <3>3 DEF Half, Single
    <3>6. Reassembles(rs, s) /\ Slot(rs, s) = k
      <4>1. Reassembles(rs, s)
        BY <3>2, <3>3 DEF Reassembles
      <4>2. Slot(rs, s) \in DOMAIN rs /\ rs[Slot(rs, s)].seq = s
        BY <4>1, SlotIs
      <4> QED  BY <3>2, <3>3, <4>1, <4>2 DEF Kept, Apart
    <3>7. ss = rs
      BY <1>1, <3>2, <3>5, <3>6 DEF WithSlot
    <3>8. new.parts = [r.parts EXCEPT ![f.idx] = m]
      BY <1>1, <1>3, <1>5, <3>2, <3>6, <3>7 DEF StashedIn
    <3>9. i \in DOMAIN new.parts /\ new.parts[i] = m
      BY <1>8, <3>2, <3>4, <3>8
    <3> QED  BY <1>5, <3>1, <3>2, <3>4, <3>9
  <2> QED  BY <2>1, <2>2
<1>9. ASSUME NEW j \in DOMAIN z, z[j].seq # s  PROVE Half(z[j], B)
  BY <1>7, <1>9 DEF Halves
<1> QED  BY <1>1, <1>8, <1>9 DEF Grown

(* What is in the window after a number has been added to it.               *)
LEMMA RememberHonest ==
  ASSUME NEW B, NEW h, NEW h2, h \subseteq h2, NEW c \in Seq(Seqs), Len(c) <= DedupWindow,
         NEW u \in Seqs, HeardAll(c, B, h), \E m \in h2 : <<m, u>> \in B
  PROVE  HeardAll(Recent(c, u), B, h2)
<1>1. PICK r, g, l, d : r = Recent(c, u) /\ g = Append(c, u) /\ l = Len(c) /\ d = DedupWindow
  OBVIOUS
<1>2. l \in Nat /\ d \in Nat /\ DOMAIN c = 1 .. l
  BY <1>1, Limits
<1>3. g[l + 1] = u /\ DOMAIN g = 1 .. l + 1 /\ \A i \in 1 .. l : g[i] = c[i]
  BY <1>1, AppendProperties
<1>4. ASSUME NEW i \in DOMAIN g  PROVE \E m \in h2 : <<m, g[i]>> \in B
  <2>1. i \in 1 .. l \/ i = l + 1
    BY <1>2, <1>3
  <2> QED  BY <1>2, <1>3, <2>1 DEF HeardAll
<1>5. r \in Seq(Seqs)
  BY <1>1, RecentIs
<1>6. \/ r = g
      \/ l = d /\ Len(r) = d /\ \A k \in 1 .. d : r[k] = g[k + 1]
  BY <1>1, RecentIs
<1>7. CASE r = g
  BY <1>1, <1>4, <1>7 DEF HeardAll
<1>8. CASE l = d /\ Len(r) = d /\ \A k \in 1 .. d : r[k] = g[k + 1]
  <2>1. DOMAIN r = 1 .. d /\ \A k \in 1 .. d : k + 1 \in DOMAIN g
    BY <1>2, <1>3, <1>5, <1>8
  <2> QED  BY <1>1, <1>4, <1>8, <2>1 DEF HeardAll
<1> QED  BY <1>6, <1>7, <1>8

(* The record after a step that owes at most a true acknowledgement more.   *)
LEMMA HonestThen ==
  ASSUME NEW B \in SUBSET Pairs, Single(B), NEW h, NEW h2, h \subseteq h2, NEW p, NEW q,
         Kept(p.reasm, B), Honest(p, B, h), Grown(p.reasm, q.reasm), NoneLost(p, q),
         HeardAll(q.seen, B, h2), Halves(q.reasm, B),
         q.owed = p.owed \/ q.owed \in Truths(B, h2, q.reasm)
  PROVE  Honest(q, B, h2)
BY TruthsKept DEF Honest

LEMMA HonestData ==
  ASSUME NEW B \in SUBSET Pairs, Single(B), NEW A, NEW p, Good(p, A, B), NEW h, Honest(p, B, h),
         NEW f \in Data, f.idx \in Frags(f.msg), <<f.msg, f.seq>> \in B,
         NEW r, r = ReceiveData(p, f), NEW h2, h \subseteq h2, r.deliver = NoMsg \/ r.deliver \in h2,
         NoneLost(p, r.peer)
  PROVE  /\ Honest(r.peer, B, h2) /\ Grown(p.reasm, r.peer.reasm)
         /\ r.peer.pending = p.pending
         /\ Size[f.msg] = 1 => r.peer.reasm = p.reasm
<1>1. PICK s, m, want, q : s = f.seq /\ m = f.msg /\ want = f.want /\ q = r.peer
  OBVIOUS
<1>2. m \in Msgs /\ s \in Seqs /\ <<m, s>> \in B /\ m # NoMsg
  BY <1>1, Limits DEF Data
<1>3. p \in Records /\ Kept(p.reasm, B) /\ Len(p.reasm) <= MaxReasm /\ p.seen \in Seq(Seqs)
      /\ Len(p.seen) <= DedupWindow
  BY Fields DEF Good, Hears, Kept
<1>4. Grown(p.reasm, p.reasm) /\ HeardAll(p.seen, B, h2)
  BY <1>3, LesserIs, LesserGrown DEF Kept, Honest, HeardAll
<1>5. PICK a : a = Whole(s)
  OBVIOUS
<1>6. a \in Acks /\ a.seq = s /\ a.whole = TRUE
  BY <1>2, <1>5, AcksAre DEF Whole
<1>7. ASSUME NEW x \in h2, <<x, s>> \in B  PROVE \A rs : a \in Truths(B, h2, rs)
  BY <1>6, <1>7 DEF Truths, Pairs
<1>8. PICK y : y = OweAck(p, a, want)
  OBVIOUS
<1>9. /\ y \in Records /\ y.seen = p.seen /\ y.reasm = p.reasm /\ y.pending = p.pending
      /\ y.owed = p.owed \/ y.owed = a
  BY <1>3, <1>6, <1>8 DEF OweAck, Records
<1>10. CASE Remembered(p, s)
  <2>1. PICK d : r = [Nothing(y) EXCEPT !.deliver = d]
    BY <1>1, <1>5, <1>8, <1>10 DEF ReceiveData
  <2>2. q = y
    BY <1>1, <2>1 DEF Nothing
  <2>3. PICK x \in h : <<x, s>> \in B
    BY <1>10 DEF Remembered, Honest, HeardAll
  <2>4. q.owed = p.owed \/ q.owed \in Truths(B, h2, q.reasm)
    BY <1>7, <1>9, <2>2, <2>3
  <2>5. Honest(q, B, h2)
    <3>1. Grown(p.reasm, q.reasm) /\ HeardAll(q.seen, B, h2) /\ Halves(q.reasm, B) /\ NoneLost(p, q)
      BY <1>1, <1>4, <1>9, <2>2 DEF Honest
    <3> QED  BY <1>3, <2>4, <3>1, HonestThen
  <2> QED  BY <1>1, <1>4, <1>9, <2>2, <2>5
<1>11. CASE ~ Remembered(p, s) /\ Size[m] = 1
  <2>1. PICK z, c : z = Remember(y, s) /\ c = Recent(p.seen, s)
    OBVIOUS
  <2>2. r = [Nothing(z) EXCEPT !.deliver = m]
    BY <1>1, <1>5, <1>8, <1>11, <2>1 DEF ReceiveData
  <2>3. q = z /\ r.deliver = m
    BY <1>1, <2>2 DEF Nothing
  <2>4. z = [y EXCEPT !.seen = c]
    BY <1>9, <2>1 DEF Remember, Recent
  <2>5. q.seen = c /\ q.reasm = p.reasm /\ q.pending = p.pending /\ q.owed = y.owed
    BY <1>9, <2>3, <2>4 DEF Records
  <2>6. m \in h2
    BY <1>2, <2>3
  <2>7. q.owed = p.owed \/ q.owed \in Truths(B, h2, q.reasm)
    BY <1>2, <1>7, <1>9, <2>5, <2>6
  <2>8. HeardAll(q.seen, B, h2)
    BY <1>2, <1>3, <2>1, <2>5, <2>6, RememberHonest DEF Honest
  <2>9. Honest(q, B, h2)
    <3>1. Grown(p.reasm, q.reasm) /\ Halves(q.reasm, B) /\ NoneLost(p, q)
      BY <1>1, <1>4, <2>5 DEF Honest
    <3> QED  BY <1>3, <2>7, <2>8, <3>1, HonestThen
  <2> QED  BY <1>1, <1>4, <2>5, <2>9
<1>12. CASE ~ Remembered(p, s) /\ Size[m] # 1
  <2>0. r = Reassemble(p, f)
    BY <1>1, <1>12 DEF ReceiveData
  <2>1. PICK rs : rs = Stash(p.reasm, f)
    OBVIOUS
  <2>2. Kept(rs, B) /\ Reassembles(rs, s)
    BY <1>1, <1>3, <2>1, StashKept
  <2>3. Grown(p.reasm, rs) /\ \A j \in DOMAIN rs : rs[j].seq # s => Half(rs[j], B)
    BY <1>1, <1>3, <2>1, StashHonest DEF Honest
  <2>4. PICK k, t, c : k = Slot(rs, s) /\ t = rs[k] /\ c = t.parts
    OBVIOUS
  <2>5. k \in DOMAIN rs /\ t.seq = s
    BY <2>2, <2>4, SlotIs
  <2>6. t \in Slots /\ Holds(t, B) /\ DOMAIN c = Frags(m)
    BY <1>1, <1>3, <2>1, <2>2, <2>4, <2>5, StashKept DEF Kept
  <2>7. c \in Parts /\ t.want \in BOOLEAN
    BY <2>4, <2>6 DEF Slots
  <2>8. \A i \in DOMAIN c : c[i] # NoMsg => c[i] = m
    BY <1>2, <2>4, <2>5, <2>6, SlotHolds
  <2>9. CASE ~ (\A i \in DOMAIN c : c[i] # NoMsg)
    <3>1. PICK b, x, z, w : /\ b = Partial(s, c) /\ x = [p EXCEPT !.reasm = rs]
                            /\ w = (f.want /\ f.retry) /\ z = OweAck(x, b, w)
      OBVIOUS
    <3>2. r = Nothing(z)
      BY <1>1, <2>0, <2>1, <2>4, <2>9, <3>1 DEF Reassemble
    <3>3. q = z
      BY <1>1, <3>2 DEF Nothing
    <3>4. x.reasm = rs /\ x.seen = p.seen /\ x.pending = p.pending /\ x.owed = p.owed
      BY <1>3, <3>1 DEF Records
    <3>45. DOMAIN x = DOMAIN p /\ "owed" \in DOMAIN p
      BY <1>3, <3>1 DEF Records
    <3>5. /\ q.reasm = rs /\ q.seen = p.seen /\ q.pending = p.pending
          /\ q.owed = p.owed \/ q.owed = b
      BY <3>1, <3>3, <3>4, <3>45 DEF OweAck
    <3>6. Halves(rs, B)
      <4>1. Half(t, B)
        BY <1>2, <2>4, <2>5, <2>6, <2>9 DEF Half
      <4>2. \A j \in DOMAIN rs : rs[j].seq = s => j = k
        BY <2>2, <2>5, <2>4 DEF Kept, Apart
      <4> QED  BY <2>3, <2>4, <4>1, <4>2 DEF Halves
    <3>7. b \in Truths(B, h2, rs)
      <4>1. b \in Acks
        BY <1>2, <2>7, <3>1, AcksAre
      <4>2. b.seq = s /\ b.whole = FALSE /\ b.bits = {i \in DOMAIN c : c[i] # NoMsg}
        BY <3>1 DEF Partial
      <4>3. Gathers(rs, m, b)
        BY <2>4, <2>5, <2>8, <4>2 DEF Gathers
      <4> QED  BY <1>2, <4>1, <4>2, <4>3 DEF Truths
    <3>8. Honest(q, B, h2)
      <4>1. Grown(p.reasm, q.reasm) /\ HeardAll(q.seen, B, h2) /\ Halves(q.reasm, B)
            /\ NoneLost(p, q) /\ (q.owed = p.owed \/ q.owed \in Truths(B, h2, q.reasm))
        BY <1>1, <1>4, <2>3, <3>5, <3>6, <3>7
      <4> QED  BY <1>3, <4>1, HonestThen
    <3> QED  BY <1>1, <1>12, <2>3, <3>5, <3>8
  <2>10. CASE \A i \in DOMAIN c : c[i] # NoMsg
    <3>1. PICK x, v, w, z : /\ x = Remember(p, s) /\ v = Without(rs, s)
                            /\ w = [x EXCEPT !.reasm = v] /\ z = OweAck(w, a, t.want)
      OBVIOUS
    <3>2. r = [Nothing(z) EXCEPT !.deliver = Joined(c)]
      BY <1>1, <1>5, <2>0, <2>1, <2>4, <2>10, <3>1 DEF Reassemble
    <3>3. q = z /\ r.deliver = Joined(c)
      BY <1>1, <3>2 DEF Nothing
    <3>4. PICK u : u = Recent(p.seen, s)
      OBVIOUS
    <3>5. x = [p EXCEPT !.seen = u]
      BY <3>1, <3>4 DEF Remember, Recent
    <3>6. /\ w.reasm = v /\ w.seen = u /\ w.pending = p.pending /\ w.owed = p.owed
          /\ DOMAIN w = DOMAIN p /\ "owed" \in DOMAIN p
      BY <1>3, <3>1, <3>5 DEF Records
    <3>7. /\ q.reasm = v /\ q.seen = u /\ q.pending = p.pending
          /\ q.owed = p.owed \/ q.owed = a
      BY <3>1, <3>3, <3>6 DEF OweAck
    <3>8. m \in h2
      <4>1. 0 \in DOMAIN c /\ c[0] = m /\ \A i \in DOMAIN c : c[i] = c[0]
        BY <2>7, <2>8, <2>10, PartsAre
      <4>2. Joined(c) = m
        BY <4>1 DEF Joined
      <4> QED  BY <1>2, <3>3, <4>2
    <3>9. Lesser(rs, v) /\ ~ Reassembles(v, s)
      BY <2>2, <3>1, WithoutKept
    <3>10. Grown(p.reasm, v)
      BY <2>2, <2>3, <3>9, LesserGrown DEF Kept
    <3>11. Halves(v, B)
      <4>1. ASSUME NEW j \in DOMAIN v  PROVE Half(v[j], B)
        <5>1. v[j].seq # s
          BY <3>9 DEF Reassembles
        <5> QED  BY <2>3, <3>9, <5>1 DEF Lesser
      <4> QED  BY <4>1 DEF Halves
    <3>12. HeardAll(u, B, h2)
      BY <1>2, <1>3, <3>4, <3>8, RememberHonest DEF Honest
    <3>13. Honest(q, B, h2)
      <4>1. a \in Truths(B, h2, q.reasm)
        BY <1>2, <1>7, <3>8
      <4>2. Grown(p.reasm, q.reasm) /\ HeardAll(q.seen, B, h2) /\ Halves(q.reasm, B)
            /\ NoneLost(p, q) /\ (q.owed = p.owed \/ q.owed \in Truths(B, h2, q.reasm))
        BY <1>1, <3>7, <3>10, <3>11, <3>12, <4>1
      <4> QED  BY <1>3, <4>2, HonestThen
    <3> QED  BY <1>1, <1>12, <3>7, <3>10, <3>13
  <2> QED  BY <2>9, <2>10
<1> QED  BY <1>1, <1>10, <1>11, <1>12

(* What a frame makes the end that hears it say, or owe, is true.           *)
LEMMA HonestReceive ==
  ASSUME NEW B \in SUBSET Pairs, Single(B), NEW A, NEW p, Good(p, A, B), NEW h, Honest(p, B, h),
         NEW f, Carried(f, B), NEW r, r = OnReceive(p, f),
         NEW h2, h \subseteq h2, r.deliver = NoMsg \/ r.deliver \in h2, NoneLost(p, r.peer)
  PROVE  /\ Honest(r.peer, B, h2)
         /\ Truths(B, h, p.reasm) \subseteq Truths(B, h2, r.peer.reasm)
         /\ \A V : Says(r.out, V)
<1>1. p \in Records /\ Kept(p.reasm, B)
  BY Fields DEF Good, Hears, Kept
<1>2. ASSUME NEW q, q.owed = p.owed, q.seen = p.seen, q.reasm = p.reasm
      PROVE  Honest(q, B, h)
  BY <1>2 DEF Honest
<1>3. f.kind \in {"ACK", "DATA"}
  BY DEF Carried, Frames
<1>4. CASE f.kind = "ACK"
  <2>1. r = ApplyAck(p, f)
    BY <1>4 DEF OnReceive
  <2>2. PICK q, F : q = r.peer /\ F = r.out
    OBVIOUS
  <2>3. /\ \A V : Says(F, V)
        /\ q.owed = p.owed /\ q.seen = p.seen /\ q.reasm = p.reasm
    BY <1>1, <2>1, <2>2, CalmAck
  <2>4. Honest(q, B, h)
    BY <1>2, <2>3
  <2>5. Grown(p.reasm, q.reasm)
    BY <1>1, <2>3, LesserIs, LesserGrown DEF Kept
  <2>6. HeardAll(q.seen, B, h2) /\ Halves(q.reasm, B) /\ NoneLost(p, q)
    BY <2>2, <2>4 DEF Honest, HeardAll
  <2>7. Honest(q, B, h2)
    BY <1>1, <2>3, <2>5, <2>6, HonestThen
  <2>8. Truths(B, h, p.reasm) \subseteq Truths(B, h2, q.reasm)
    BY <1>1, <2>5, <2>6, TruthsKept
  <2> QED  BY <2>2, <2>3, <2>7, <2>8
<1>5. CASE f.kind = "DATA"
  <2>1. f \in Data /\ <<f.msg, f.seq>> \in B /\ f.idx \in Frags(f.msg) /\ f.msg \in Msgs
    BY <1>5 DEF Carried, Frames, Data
  <2>2. PICK m, fresh : m = f.msg /\ fresh = NewSession(p, m)
    OBVIOUS
  <2>3. Good(fresh, A, B) /\ fresh \in Records
    <3>1. Good(fresh, A, B)
      BY <2>1, <2>2, NewSessionGood
    <3> QED  BY <3>1, Fields DEF Good
  <2>4. \/ fresh = p
        \/ m \in Hellos /\ fresh.owed = NoAck /\ fresh.seen = <<>> /\ fresh.reasm = <<>>
    BY <2>2, CalmSession
  <2>5. PICK acked : acked = IF f.piggy = NoSeq THEN Nothing(fresh)
                             ELSE ApplyAck(fresh, Whole(f.piggy))
    OBVIOUS
  <2>6. PICK x, F, a : x = acked.peer /\ F = acked.out /\ a = Whole(f.piggy)
    OBVIOUS
  <2>7. Good(x, A, B)
    BY <2>3, <2>5, <2>6, ApplyAckSound, NothingSound DEF Sound
  <2>8. /\ \A V : Says(F, V)
        /\ x.owed = fresh.owed /\ x.seen = fresh.seen /\ x.reasm = fresh.reasm
    <3>1. CASE f.piggy = NoSeq
      <4>1. x = fresh /\ F = {}
        BY <2>5, <2>6, <3>1 DEF Nothing
      <4> QED  BY <4>1 DEF Says
    <3>2. CASE f.piggy # NoSeq
      <4>1. x = ApplyAck(fresh, a).peer /\ F = ApplyAck(fresh, a).out
        BY <2>5, <2>6, <3>2
      <4> QED  BY <2>3, <4>1, CalmAck
    <3> QED  BY <3>1, <3>2
  <2>9. Honest(x, B, h)
    <3>1. CASE fresh = p
      BY <1>2, <2>8, <3>1
    <3>2. CASE fresh.owed = NoAck /\ fresh.seen = <<>> /\ fresh.reasm = <<>>
      BY <2>8, <3>2 DEF Honest, HeardAll, Halves, NoAck, Whole
    <3> QED  BY <2>4, <3>1, <3>2
  <2>10. PICK data, q : data = ReceiveData(x, f) /\ q = data.peer
    OBVIOUS
  <2>11. r = [data EXCEPT !.out = F, !.done = acked.done]
    BY <1>5, <2>2, <2>5, <2>6, <2>10 DEF OnReceive
  <2>12. data = [peer |-> q, out |-> data.out, done |-> data.done, deliver |-> data.deliver]
    BY <2>10 DEF ReceiveData, Reassemble, Nothing
  <2>13. r.peer = q /\ r.deliver = data.deliver /\ r.out = F
    BY <2>11, <2>12
  <2>14. NoneLost(x, q)
    BY <2>4, <2>8, <2>13 DEF NoneLost
  <2>15. /\ Honest(q, B, h2) /\ Grown(x.reasm, q.reasm)
         /\ Size[m] = 1 => q.reasm = x.reasm
    <3>1. data.deliver = NoMsg \/ data.deliver \in h2
      BY <2>13
    <3>2. Honest(q, B, h2)
      BY <2>1, <2>7, <2>9, <2>10, <2>14, <3>1, HonestData
    <3>3. Grown(x.reasm, q.reasm)
      BY <2>1, <2>7, <2>9, <2>10, <2>14, <3>1, HonestData
    <3>4. Size[m] = 1 => q.reasm = x.reasm
      BY <2>1, <2>2, <2>7, <2>9, <2>10, <2>14, <3>1, HonestData
    <3> QED  BY <3>2, <3>3, <3>4
  <2>16. Grown(p.reasm, q.reasm)
    <3>1. CASE fresh = p
      BY <2>8, <2>15, <3>1
    <3>2. CASE m \in Hellos /\ fresh.reasm = <<>>
      <4>1. q.reasm = <<>>
        BY <2>8, <2>15, <3>2, MsgsAssumption
      <4> QED  BY <4>1 DEF Grown
    <3> QED  BY <2>4, <3>1, <3>2
  <2>17. Truths(B, h, p.reasm) \subseteq Truths(B, h2, q.reasm)
    BY <1>1, <2>13, <2>15, <2>16, TruthsKept DEF Honest
  <2> QED  BY <2>8, <2>13, <2>15, <2>17
<1> QED  BY <1>3, <1>4, <1>5

-----------------------------------------------------------------------------
(* The end that is told.                                                    *)
LEMMA RestsTrust ==
  ASSUME NEW B \in SUBSET Pairs, NEW h, NEW rs, NEW p, NEW q, Good(q, B, Pairs),
         Rests(p, q), Trusts(p, Truths(B, h, rs)) \/ q.pending.acked = {}
  PROVE  Trusts(q, Truths(B, h, rs))
<1>1. SUFFICES ASSUME q.pending.seq # NoSeq  PROVE Collected(q.pending) \in Truths(B, h, rs)
  BY DEF Trusts
<1>2. PICK v, a : v = q.pending /\ a = Collected(v)
  OBVIOUS
<1>3. v.seq \in Seqs /\ v.acked \in SUBSET Nat /\ v.msg \in Msgs /\ <<v.msg, v.seq>> \in B
  BY <1>1, <1>2, InFlight
<1>4. a.seq = v.seq /\ a.whole = FALSE /\ a.bits = v.acked /\ a \in Acks
  BY <1>2, <1>3 DEF Collected, Acks
<1>5. CASE v.acked = {}
  BY <1>2, <1>3, <1>4, <1>5 DEF Truths
<1>6. CASE v.acked # {} /\ v.seq = p.pending.seq /\ v.acked = p.pending.acked
  <2>1. a = Collected(p.pending)
    BY <1>2, <1>6 DEF Collected
  <2> QED  BY <1>1, <1>2, <1>6, <2>1 DEF Trusts
<1> QED  BY <1>2, <1>5, <1>6 DEF Rests

(* What two true claims of a message say together.                          *)
LEMMA TruthsJoin ==
  ASSUME NEW B \in SUBSET Pairs, Single(B), NEW h, NEW rs, Apart(rs), NEW m \in Msgs, NEW s \in Seqs,
         <<m, s>> \in B, NEW a \in Truths(B, h, rs), NEW b \in Truths(B, h, rs),
         a.seq = s, b.seq = s, ~ a.whole, ~ b.whole, NEW T, T \subseteq a.bits \cup b.bits
  PROVE  /\ [seq |-> s, whole |-> FALSE, bits |-> T] \in Truths(B, h, rs)
         /\ Halves(rs, B) /\ T = Frags(m) => m \in h
<1>1. ASSUME NEW d \in {a, b}  PROVE m \in h \/ d.bits = {} \/ Gathers(rs, m, d)
  <2>1. PICK x \in Msgs : <<x, d.seq>> \in B /\ (x \in h \/ d.bits = {} \/ Gathers(rs, x, d))
    BY DEF Truths
  <2>2. x = m
    BY <2>1 DEF Single
  <2> QED  BY <2>1, <2>2
<1>2. PICK t : t = [seq |-> s, whole |-> FALSE, bits |-> T]
  OBVIOUS
<1>3. a.bits \in SUBSET Nat /\ b.bits \in SUBSET Nat
  BY DEF Truths, Acks
<1>4. t \in Acks /\ t.seq = s /\ t.whole = FALSE /\ t.bits = T
  BY <1>2, <1>3 DEF Acks
<1>5. m \in h \/ T = {} \/ Gathers(rs, m, t)
  <2>1. SUFFICES ASSUME m \notin h, NEW i \in T  PROVE Gathers(rs, m, t)
    OBVIOUS
  <2>2. PICK k \in DOMAIN rs : rs[k].seq = s
    BY <1>1, <2>1 DEF Gathers
  <2>3. ASSUME NEW j \in T  PROVE j \in DOMAIN rs[k].parts /\ rs[k].parts[j] = m
    <3>1. PICK d \in {a, b} : j \in d.bits /\ d.seq = s
      OBVIOUS
    <3>2. PICK l \in DOMAIN rs : /\ rs[l].seq = s
                                 /\ j \in DOMAIN rs[l].parts /\ rs[l].parts[j] = m
      BY <1>1, <2>1, <3>1 DEF Gathers
    <3>3. l = k
      BY <2>2, <3>2 DEF Apart
    <3> QED  BY <3>2, <3>3
  <2> QED  BY <1>4, <2>2, <2>3 DEF Gathers
<1>6. t \in Truths(B, h, rs)
  BY <1>4, <1>5 DEF Truths
<1>7. ASSUME Halves(rs, B), T = Frags(m), m \notin h  PROVE FALSE
  <2>1. 0 \in T
    BY <1>7, SizeIs
  <2>2. PICK k \in DOMAIN rs :
          rs[k].seq = s /\ \A i \in T : i \in DOMAIN rs[k].parts /\ rs[k].parts[i] = m
    BY <1>4, <1>5, <1>7, <2>1 DEF Gathers
  <2>3. PICK x \in Msgs : <<x, s>> \in B /\ \E i \in Frags(x) : rs[k].parts[i] = NoMsg
    BY <1>7, <2>2 DEF Halves, Half
  <2>4. x = m
    BY <2>3 DEF Single
  <2> QED  BY <1>7, <2>2, <2>3, <2>4, Limits
<1> QED  BY <1>2, <1>6, <1>7

LEMMA TrustsAck ==
  ASSUME NEW B \in SUBSET Pairs, Single(B), NEW h, NEW rs, Apart(rs), Halves(rs, B),
         NEW p, Good(p, B, Pairs), Trusts(p, Truths(B, h, rs)),
         NEW a, [seq |-> a.seq, whole |-> a.whole, bits |-> a.bits] \in Truths(B, h, rs),
         NEW r, r = ApplyAck(p, a)
  PROVE  Trusts(r.peer, Truths(B, h, rs)) /\ r.done \subseteq h
<1>1. PICK q, V, d : /\ q = p.pending /\ V = Truths(B, h, rs)
                     /\ d = [seq |-> a.seq, whole |-> a.whole, bits |-> a.bits]
  OBVIOUS
<1>2. d \in V /\ d.seq = a.seq /\ d.whole = a.whole /\ d.bits = a.bits
  BY <1>1
<1>3. PICK acked : acked = q.acked \cup (a.bits \cap Frags(q.msg))
  OBVIOUS
<1>4. Good(r.peer, B, Pairs) /\ p \in Records
  BY ApplyAckSound, Fields DEF Sound, Good
<1>5. CASE r = Nothing(p)
  BY <1>1, <1>5 DEF Nothing
<1>6. ASSUME q.seq # NoSeq, q.seq = a.seq
      PROVE  /\ q.msg \in Msgs /\ q.seq \in Seqs /\ <<q.msg, q.seq>> \in B /\ q.acked \in SUBSET Nat
             /\ a.whole => q.msg \in h
             /\ ~ a.whole =>
                  /\ [seq |-> q.seq, whole |-> FALSE, bits |-> acked] \in V
                  /\ acked = Frags(q.msg) => q.msg \in h
  <2>1. PICK m, s : m = q.msg /\ s = q.seq
    OBVIOUS
  <2>2. m \in Msgs /\ s \in Seqs /\ <<m, s>> \in B /\ q.acked \in SUBSET Nat
    BY <1>1, <1>6, <2>1, InFlight
  <2>3. ASSUME a.whole  PROVE m \in h
    <3>1. PICK x \in Msgs : <<x, d.seq>> \in B /\ x \in h
      BY <1>1, <1>2, <2>3 DEF Truths
    <3> QED  BY <1>2, <1>6, <2>1, <2>2, <3>1 DEF Single
  <2>4. ASSUME ~ a.whole
        PROVE  /\ [seq |-> s, whole |-> FALSE, bits |-> acked] \in V
               /\ acked = Frags(m) => m \in h
    <3>1. PICK b : b = Collected(q)
      OBVIOUS
    <3>2. b \in V /\ b.seq = s /\ ~ b.whole /\ b.bits = q.acked
      BY <1>1, <1>6, <2>1, <3>1 DEF Trusts, Collected
    <3>3. acked \subseteq b.bits \cup d.bits
      BY <1>2, <1>3, <3>2
    <3>4. /\ m \in Msgs /\ s \in Seqs /\ <<m, s>> \in B
          /\ b \in Truths(B, h, rs) /\ d \in Truths(B, h, rs)
          /\ b.seq = s /\ d.seq = s /\ ~ b.whole /\ ~ d.whole
      BY <1>1, <1>2, <1>6, <2>1, <2>2, <2>4, <3>2
    <3>5. [seq |-> s, whole |-> FALSE, bits |-> acked] \in Truths(B, h, rs)
      BY <3>3, <3>4, TruthsJoin
    <3>6. Halves(rs, B) /\ acked = Frags(m) => m \in h
      BY <3>3, <3>4, TruthsJoin
    <3> QED  BY <1>1, <3>5, <3>6
  <2> QED  BY <2>1, <2>2, <2>3, <2>4
<1>7. CASE q.seq # NoSeq /\ q.seq = a.seq /\ (a.whole \/ acked = Frags(q.msg))
  <2>1. PICK t, z : t = StartNext(p) /\ z = t.peer
    OBVIOUS
  <2>2. z.pending.acked = {}
    <3>1. PICK F : F = t.out
      OBVIOUS
    <3> QED  BY <1>4, <2>1, <3>1, CalmNext
  <2>3. r = [t EXCEPT !.done = {q.msg}]
    BY <1>1, <1>3, <1>7, <2>1 DEF ApplyAck
  <2>4. t = [peer |-> t.peer, out |-> t.out, done |-> t.done, deliver |-> t.deliver]
    BY <2>1 DEF StartNext, StartPending, Nothing
  <2>5. r.peer = z /\ r.done = {q.msg}
    BY <2>1, <2>3, <2>4
  <2>6. q.msg \in h
    BY <1>6, <1>7
  <2>7. Trusts(z, V)
    <3>1. Good(z, B, Pairs) /\ Rests(p, z)
      BY <1>4, <2>2, <2>5 DEF Rests
    <3> QED  BY <1>1, <2>2, <3>1, RestsTrust
  <2> QED  BY <1>1, <2>5, <2>6, <2>7
<1>8. CASE q.seq # NoSeq /\ q.seq = a.seq /\ ~ (a.whole \/ acked = Frags(q.msg)) /\ acked # q.acked
  <2>1. PICK v, z : v = [q EXCEPT !.acked = acked, !.attempts = 0, !.armed = FALSE]
                    /\ z = [p EXCEPT !.pending = v]
    OBVIOUS
  <2>2. r = [Nothing(z) EXCEPT !.out = Retries(Unacked(v))]
    BY <1>1, <1>3, <1>8, <2>1 DEF ApplyAck
  <2>3. r.peer = z /\ r.done = {}
    BY <2>2 DEF Nothing
  <2>4. z.pending = v
    BY <1>4, <2>1 DEF Records
  <2>5. v.seq = q.seq /\ v.acked = acked
    <3>1. q \in [seq : Seqs, msg : Msgs, acked : SUBSET Nat, attempts : 0 .. MaxRetries,
                 armed : BOOLEAN]
      BY <1>1, <1>8, InFlight
    <3> QED  BY <2>1, <3>1
  <2>6. Collected(v) \in V
    BY <1>6, <1>8, <2>5 DEF Collected
  <2> QED  BY <1>1, <2>3, <2>4, <2>6 DEF Trusts
<1>9. q.seq = NoSeq \/ q.seq # a.seq => r = Nothing(p)
  BY <1>1 DEF ApplyAck
<1>10. q.seq # NoSeq /\ q.seq = a.seq /\ ~ (a.whole \/ acked = Frags(q.msg)) /\ acked = q.acked
         => r = Nothing(p)
  BY <1>1, <1>3 DEF ApplyAck
<1> QED  BY <1>5, <1>7, <1>8, <1>9, <1>10

(* An end that is told the truth stops sending only what has been heard.    *)
LEMMA TrustsReceive ==
  ASSUME NEW B \in SUBSET Pairs, Single(B), NEW h, NEW rs, Apart(rs), Halves(rs, B),
         NEW p, Good(p, B, Pairs), Trusts(p, Truths(B, h, rs)),
         NEW f, Carried(f, Pairs), Vouched(f, Truths(B, h, rs)), NEW r, r = OnReceive(p, f)
  PROVE  Trusts(r.peer, Truths(B, h, rs)) /\ r.done \subseteq h
<1>1. f.kind \in {"ACK", "DATA"}
  BY DEF Carried, Frames
<1>2. CASE f.kind = "ACK"
  <2>1. r = ApplyAck(p, f)
    BY <1>2 DEF OnReceive
  <2> QED  BY <1>2, <2>1, TrustsAck DEF Vouched
<1>3. CASE f.kind = "DATA"
  <2>1. f.msg \in Msgs
    BY <1>3 DEF Carried, Frames
  <2>2. PICK m, fresh, a : m = f.msg /\ fresh = NewSession(p, m) /\ a = Whole(f.piggy)
    OBVIOUS
  <2>3. Good(fresh, B, Pairs) /\ Rests(p, fresh)
    BY <2>1, <2>2, NewSessionGood, CalmSession
  <2>4. Trusts(fresh, Truths(B, h, rs))
    BY <2>3, RestsTrust
  <2>5. PICK acked : acked = IF f.piggy = NoSeq THEN Nothing(fresh) ELSE ApplyAck(fresh, a)
    OBVIOUS
  <2>6. Trusts(acked.peer, Truths(B, h, rs)) /\ acked.done \subseteq h
    <3>1. CASE f.piggy = NoSeq
      BY <2>4, <2>5, <3>1 DEF Nothing
    <3>2. CASE f.piggy # NoSeq
      <4>1. [seq |-> a.seq, whole |-> a.whole, bits |-> a.bits] \in Truths(B, h, rs)
        BY <1>3, <2>2, <3>2 DEF Vouched, Whole
      <4>2. acked = ApplyAck(fresh, a)
        BY <2>5, <3>2
      <4> QED  BY <2>3, <2>4, <4>1, <4>2, TrustsAck
    <3> QED  BY <3>1, <3>2
  <2>7. PICK x, data, v : x = acked.peer /\ data = ReceiveData(x, f) /\ v = x.pending
    OBVIOUS
  <2>8. x \in Records
    <3>1. Good(x, B, Pairs)
      BY <2>3, <2>5, <2>7, ApplyAckSound, NothingSound DEF Sound
    <3> QED  BY <3>1, Fields DEF Good
  <2>9. data.peer.pending = v
    <3>1. Bears("pending", x, v)
      BY <2>7, <2>8 DEF Bears, Records
    <3>2. Bears("pending", data.peer, v)
      BY <2>7, <3>1, MarkOfData
    <3> QED  BY <3>2 DEF Bears
  <2>10. r = [data EXCEPT !.out = acked.out, !.done = acked.done]
    BY <1>3, <2>2, <2>5, <2>7 DEF OnReceive
  <2>11. data = [peer |-> data.peer, out |-> data.out, done |-> data.done, deliver |-> data.deliver]
    BY <2>7 DEF ReceiveData, Reassemble, Nothing
  <2>12. r.peer = data.peer /\ r.done = acked.done
    BY <2>10, <2>11
  <2> QED  BY <2>6, <2>7, <2>9, <2>12 DEF Trusts
<1> QED  BY <1>1, <1>2, <1>3

-----------------------------------------------------------------------------
(* The steps of an end in which it hears nothing are calm.                  *)
LEMMA OwesAny ==
  ASSUME NEW p \in Records
  PROVE  Owes(p, Acks) /\ Closed(Acks)
<1>1. p.owed \in Acks /\ p.reasm \in Seq(Slots)
  BY DEF Records
<1>2. ASSUME NEW k \in DOMAIN p.reasm
      PROVE  Partial(p.reasm[k].seq, p.reasm[k].parts) \in Acks
  <2>1. PICK r \in Slots : r = p.reasm[k]
    BY <1>1, ElementOfSeq
  <2>2. r.seq \in Seqs /\ DOMAIN r.parts \in SUBSET Nat
    BY DEF Slots, Parts
  <2> QED  BY <2>1, <2>2 DEF Partial, Acks
<1>3. Closed(Acks)
  BY DEF Closed, Acks, Whole
<1> QED  BY <1>1, <1>2, <1>3 DEF Owes

(* What an end has yet to say in the steps of its own.                      *)
Saying(e) == txq[e] \cup air[Other(e)]

LEMMA CalmSubmit ==
  ASSUME Sane, NEW e \in Ends, NEW m \in todo[e], Submit(e, m),
         NEW V, Owes(peer[e], V), Closed(V)
  PROVE  /\ Calm(peer[e], peer'[e]) /\ Rests(peer[e], peer'[e])
         /\ Says(Saying(e), V) => Says(Saying(e)', V)
<1>0. Shape
  BY DEF Sane
<1>1. PICK p : p = peer[e]
  OBVIOUS
<1>2. PICK s \in Seqs : s = nextSeq[e]
  BY <1>0 DEF Shape
<1>3. Good(p, Pairs, Pairs) /\ m \in Msgs /\ <<m, s>> \in Pairs
  BY <1>0, <1>1 DEF Sane, Fine, Shape, Pairs
<1>4. PICK sent, x, F : sent = Enqueue(p, m, s) /\ x = sent.peer /\ F = sent.out
  OBVIOUS
<1>5. Good(x, Pairs, Pairs)
  BY <1>3, <1>4, EnqueueSound DEF Sound
<1>6. p \in Records /\ x \in Records
  BY <1>3, <1>5, Fields DEF Good
<1>7. Says(F, V) /\ Calm(p, x) /\ Rests(p, x)
  BY <1>1, <1>4, <1>6, CalmSend
<1>8. Owes(x, V)
  BY <1>1, <1>7, CalmThen
<1>9. PICK dr, y, G : dr = Settled(e, x) /\ y = dr.peer /\ G = dr.out
  OBVIOUS
<1>10. Says(G, V) /\ Calm(x, y) /\ Rests(x, y)
  BY <1>6, <1>8, <1>9, CalmDrain
<1>11. Calm(p, y) /\ Rests(p, y)
  BY <1>7, <1>10, CalmThen
<1>12. SendTo(e, m) = [dr EXCEPT !.out = F \cup @]
  BY <1>1, <1>2, <1>4, <1>9 DEF SendTo
<1>13. dr = [peer |-> dr.peer, out |-> dr.out, done |-> dr.done, deliver |-> dr.deliver]
  BY <1>9 DEF Settled, DrainAcks, Nothing
<1>14. SendTo(e, m).peer = y /\ SendTo(e, m).out = F \cup G
  BY <1>9, <1>12, <1>13
<1>15. peer'[e] = y /\ txq'[e] = txq[e] \cup F \cup G /\ air' = air
  BY <1>0, <1>14 DEF Submit, Shape
<1>16. Says(Saying(e), V) => Says(Saying(e)', V)
  BY <1>7, <1>10, <1>15 DEF Says, Saying
<1> QED  BY <1>1, <1>11, <1>15, <1>16

LEMMA CalmBroadcast ==
  ASSUME Sane, NEW e \in Ends, NEW m \in todo[e], Broadcast(e, m), NEW V
  PROVE  /\ Calm(peer[e], peer'[e]) /\ Rests(peer[e], peer'[e])
         /\ Says(Saying(e), V) => Says(Saying(e)', V)
<1>1. PICK s \in Seqs, want \in BOOLEAN : s = nextSeq[e] /\ want = FALSE
  BY DEF Sane, Shape
<1>2. PICK F : F = FragsOf(m, s, want)
  OBVIOUS
<1>3. Says(F, V)
  BY <1>2, SilentFrags
<1>4. peer' = peer /\ air' = air /\ txq' = [txq EXCEPT ![e] = @ \cup F]
  BY <1>1, <1>2 DEF Broadcast, SendChat
<1>5. txq'[e] = txq[e] \cup F
  BY <1>4 DEF Sane, Shape
<1>6. Says(Saying(e), V) => Says(Saying(e)', V)
  BY <1>3, <1>4, <1>5 DEF Says, Saying
<1> QED  BY <1>4, <1>6, CalmThen

LEMMA CalmKey ==
  ASSUME Sane, NEW e \in Ends, NEW f \in txq[e], NEW arrives \in BOOLEAN,
         Key(e, f, arrives) \/ Discard(e, f), NEW V
  PROVE  /\ Calm(peer[e], peer'[e]) /\ Rests(peer[e], peer'[e])
         /\ Says(Saying(e), V) => Says(Saying(e)', V)
<1>1. peer' = peer
  BY DEF Key, Discard
<1>2. txq'[e] \subseteq txq[e] /\ air'[Other(e)] \subseteq air[Other(e)] \cup {f}
  BY EndsAre DEF Sane, Shape, Key, Discard
<1>3. Says(Saying(e), V) => Says(Saying(e)', V)
  BY <1>2 DEF Says, Saying
<1> QED  BY <1>1, <1>3, CalmThen

LEMMA CalmTick ==
  ASSUME Sane, NEW e \in Ends, NEW n \in 0 .. Len(peer[e].reasm),
         NEW what \in {"quiet", "timeout", "idle"}, TickAs(e, n, what),
         NEW V, Owes(peer[e], V)
  PROVE  /\ Calm(peer[e], peer'[e]) /\ Rests(peer[e], peer'[e])
         /\ Says(Saying(e), V) => Says(Saying(e)', V)
<1>0. Shape
  BY DEF Sane
<1>1. PICK p : p = peer[e]
  OBVIOUS
<1>2. Good(p, Pairs, Pairs) /\ p \in Records /\ keyed[e] \in SUBSET Seqs
  BY <1>0, <1>1, Fields DEF Sane, Fine, Shape, Good
<1>3. PICK started : started = DrainKeyed(e)
  OBVIOUS
<1>4. started = OnKeyed(p, keyed[e])
  BY <1>1, <1>3 DEF DrainKeyed
<1>5. Good(started, Pairs, Pairs) /\ started \in Records
  BY <1>2, <1>4, OnKeyedGood, Fields DEF Good
<1>6. Calm(p, started) /\ Rests(p, started) /\ started.reasm = p.reasm
  BY <1>2, <1>4, CalmKeyed
<1>7. PICK aged, q, F : aged = ExpireReasm(started, n) /\ q = aged.peer /\ F = aged.out
  OBVIOUS
<1>8. n \in 0 .. Len(started.reasm)
  BY <1>1, <1>6
<1>9. Good(q, Pairs, Pairs) /\ q \in Records
  BY <1>5, <1>7, <1>8, ExpireReasmSound, Fields DEF Sound, Good
<1>10. Owes(started, V)
  BY <1>1, <1>6, CalmThen
<1>11. Says(F, V) /\ Calm(started, q) /\ Rests(started, q)
  BY <1>5, <1>7, <1>8, <1>10, CalmExpire
<1>12. Calm(p, q) /\ Rests(p, q)
  BY <1>6, <1>11, CalmThen
<1>13. PICK nx : nx = CASE what = "quiet" -> Nothing(q)
                        [] what = "timeout" -> Timeout(q)
                        [] what = "idle" -> Nothing(NewPeer)
  OBVIOUS
<1>14. PICK y, G : y = nx.peer /\ G = nx.out
  OBVIOUS
<1>15. Good(y, Pairs, Pairs) /\ Says(G, V) /\ Calm(q, y) /\ Rests(q, y)
  <2>1. CASE what = "quiet"
    <3>1. y = q /\ G = {}
      BY <1>13, <1>14, <2>1 DEF Nothing
    <3> QED  BY <1>9, <3>1, CalmThen DEF Says
  <2>2. CASE what = "timeout"
    <3>1. nx = Timeout(q)
      BY <1>13, <2>2
    <3>2. q.pending.seq # NoSeq
      <4>1. p.pending.armed
        BY <1>1, <2>2 DEF TickAs
      <4>2. p.pending # NoPending /\ p.pending \in Pendings
        BY <1>2, <4>1 DEF NoPending, Records
      <4>3. p.pending.seq \in Seqs
        BY <4>2 DEF Pendings
      <4>4. started.pending.seq = p.pending.seq
        BY <1>2, <1>4, <4>2 DEF OnKeyed, Records, Pendings, NoPending
      <4>5. q = [started EXCEPT !.reasm = SubSeq(@, n + 1, Len(@))]
        BY <1>7 DEF ExpireReasm, Nothing
      <4>6. q.pending = started.pending
        BY <1>5, <4>5 DEF Records
      <4> QED  BY <4>3, <4>4, <4>6, Limits
    <3>3. Good(y, Pairs, Pairs)
      BY <1>9, <1>14, <3>1, <3>2, TimeoutSound DEF Sound
    <3> QED  BY <1>9, <1>14, <3>1, <3>3, CalmTimeout
  <2>3. CASE what = "idle"
    <3>1. y = NewPeer /\ G = {}
      BY <1>13, <1>14, <2>3 DEF Nothing
    <3>2. Good(y, Pairs, Pairs)
      BY <3>1, FreshGood
    <3>3. y.owed = NoAck /\ y.seen = <<>> /\ y.reasm = <<>> /\ y.pending.acked = {}
      BY <3>1 DEF NewPeer, NoPending
    <3> QED  BY <3>1, <3>2, <3>3, CalmNewPeer DEF Says
  <2> QED  BY <2>1, <2>2, <2>3
<1>16. Calm(p, y) /\ Rests(p, y)
  BY <1>12, <1>15, CalmThen
<1>17. Owes(y, V) /\ y \in Records
  BY <1>1, <1>15, <1>16, CalmThen, Fields DEF Good
<1>18. PICK dr, z, H : dr = Settled(e, y) /\ z = dr.peer /\ H = dr.out
  OBVIOUS
<1>19. Says(H, V) /\ Calm(y, z) /\ Rests(y, z)
  BY <1>17, <1>18, CalmDrain
<1>20. Calm(p, z) /\ Rests(p, z)
  BY <1>16, <1>19, CalmThen
<1>21. /\ air' = air /\ peer' = [peer EXCEPT ![e] = z]
       /\ txq' = [txq EXCEPT ![e] = @ \cup F \cup G \cup H]
  BY <1>3, <1>7, <1>13, <1>14, <1>18 DEF TickAs
<1>22. peer'[e] = z /\ txq'[e] = txq[e] \cup F \cup G \cup H
  BY <1>0, <1>21 DEF Shape
<1>23. Says(Saying(e), V) => Says(Saying(e)', V)
  BY <1>11, <1>15, <1>19, <1>21, <1>22 DEF Says, Saying
<1> QED  BY <1>1, <1>20, <1>22, <1>23

LEMMA CalmBooted ==
  ASSUME NEW e, NEW n, NEW boot, boot = Booted(e, n), NEW V, Closed(V)
  PROVE  /\ \A p : Calm(p, boot.peer) /\ Rests(p, boot.peer)
         /\ Says(boot.out, V)
         /\ boot.peer.owed = NoAck /\ boot.peer.seen = <<>> /\ DOMAIN boot.peer.reasm = {}
         /\ boot.peer.pending.acked = {}
<1>1. PICK y, F, z : y = boot.peer /\ F = boot.out /\ z = NewPeer
  OBVIOUS
<1>2. z.owed = NoAck /\ z.seen = <<>> /\ z.reasm = <<>> /\ z.pending.acked = {}
  BY <1>1 DEF NewPeer, NoPending
<1>3. ASSUME NEW p  PROVE Calm(p, z) /\ Rests(p, z)
  BY <1>2, CalmNewPeer
<1>4. z \in Records
  BY <1>1, FreshGood, Fields DEF Good
<1>5. Owes(z, V)
  BY <1>2 DEF Owes, NoAck, Whole
<1>6. Says(F, V) /\ Calm(z, y) /\ Rests(z, y)
  <2>1. CASE boot = Enqueue(z, BootHello[n], 1)
    BY <1>1, <1>4, <1>5, <2>1, CalmSend
  <2>2. CASE boot = Nothing(z)
    BY <1>1, <2>2, CalmThen DEF Nothing, Says
  <2> QED  BY <1>1, <2>1, <2>2 DEF Booted
<1>7. ASSUME NEW p  PROVE Calm(p, y) /\ Rests(p, y)
  BY <1>3, <1>6, CalmThen
<1>8. y.owed = NoAck /\ y.seen = <<>> /\ y.pending.acked = {}
  BY <1>2, <1>6 DEF Calm, Rests
<1>9. DOMAIN y.reasm = {}
  BY <1>2, <1>6 DEF Calm, Lesser
<1> QED  BY <1>1, <1>6, <1>7, <1>8, <1>9

LEMMA CalmRestart ==
  ASSUME Sane, NEW e \in Ends, Restart(e), NEW V, Closed(V)
  PROVE  /\ Calm(peer[e], peer'[e]) /\ Rests(peer[e], peer'[e])
         /\ Says(Saying(e)', V)
<1>0. Shape /\ Other(e) \in Ends
  BY EndsAre DEF Sane
<1>1. PICK n, boot, p, y, F : /\ n = used.restarts[e] + 1 /\ boot = Booted(e, n) /\ p = peer[e]
                              /\ y = boot.peer /\ F = boot.out
  OBVIOUS
<1>2. Calm(p, y) /\ Rests(p, y) /\ Says(F, V)
  BY <1>1, CalmBooted
<1>3. peer'[e] = y /\ txq'[e] = F /\ air'[Other(e)] = {}
  BY <1>0, <1>1 DEF Restart, Shape
<1>4. Says(Saying(e)', V)
  BY <1>2, <1>3 DEF Saying, Says
<1> QED  BY <1>1, <1>2, <1>3, <1>4

(* A step of e in which it hears nothing.                                   *)
Speaks(e) ==
  \/ \E m \in todo[e] : Submit(e, m) \/ Broadcast(e, m)
  \/ \E f \in txq[e], arrives \in BOOLEAN : Key(e, f, arrives) \/ Discard(e, f)
  \/ \E n \in 0 .. Len(peer[e].reasm), what \in {"quiet", "timeout", "idle"} : TickAs(e, n, what)
  \/ Restart(e)

LEMMA CalmMove ==
  ASSUME Sane, NEW e \in Ends, Speaks(e), NEW V, Owes(peer[e], V), Closed(V)
  PROVE  /\ Calm(peer[e], peer'[e]) /\ Rests(peer[e], peer'[e])
         /\ Says(Saying(e), V) => Says(Saying(e)', V)
<1>1. CASE \E m \in todo[e] : Submit(e, m) \/ Broadcast(e, m)
  BY <1>1, CalmSubmit, CalmBroadcast
<1>2. CASE \E f \in txq[e], arrives \in BOOLEAN : Key(e, f, arrives) \/ Discard(e, f)
  BY <1>2, CalmKey
<1>3. CASE \E n \in 0 .. Len(peer[e].reasm), what \in {"quiet", "timeout", "idle"} :
             TickAs(e, n, what)
  BY <1>3, CalmTick
<1>4. CASE Restart(e)
  BY <1>4, CalmRestart
<1> QED  BY <1>1, <1>2, <1>3, <1>4 DEF Speaks

(* What is the same after any of its steps.                                 *)
LEMMA MovesLeave ==
  ASSUME Sane, NEW e \in Ends, Moves(e)
  PROVE  /\ Untouched(e)
         /\ peer'[Other(e)] = peer[Other(e)] /\ txq'[Other(e)] = txq[Other(e)]
         /\ air'[e] \subseteq air[e] /\ delivered'[Other(e)] = delivered[Other(e)]
         /\ Heard(Other(e))' = Heard(Other(e))
         /\ Speaks(e) => delivered' = delivered

<1>0. Shape /\ Other(e) \in Ends /\ Other(e) # e
  BY EndsAre DEF Sane
<1>1. peer'[Other(e)] = peer[Other(e)] /\ delivered'[Other(e)] = delivered[Other(e)]
  BY OthersRecords
<1>2. \/ txq' = txq \/ \E F : txq' = [txq EXCEPT ![e] = F]
  BY DEF Moves, Submit, Broadcast, Key, Discard, ReceiveAs, TickAs, Restart
<1>3. txq'[Other(e)] = txq[Other(e)]
  BY <1>0, <1>2 DEF Shape
<1>4. \/ air' = air \/ \E F : air' = [air EXCEPT ![Other(e)] = F] \/ \E f : air' = [air EXCEPT ![e] = @ \ {f}]
      \/ air' = [x \in Ends |-> {}]
  BY DEF Moves, Submit, Broadcast, Key, Discard, ReceiveAs, TickAs, Restart
<1>5. air'[e] \subseteq air[e]
  BY <1>0, <1>4 DEF Shape
<1>6. Heard(Other(e))' = Heard(Other(e))
  BY <1>1 DEF Heard
<1>7. Speaks(e) => delivered' = delivered
  BY DEF Speaks, Submit, Broadcast, Key, Discard, TickAs, Restart, history
<1> QED  BY <1>1, <1>3, <1>5, <1>6, <1>7 DEF Untouched

(* What Conclude makes of the messages.                                     *)
LEMMA AckedAre ==
  ASSUME NEW e, NEW p, NEW done, Conclude(e, p, done), NEW m \in Msgs, outcome'[m] = "acked"
  PROVE  m \in done \/ outcome[m] = "acked"
BY DEF Conclude

LEMMA SpeaksConclude ==
  ASSUME NEW e \in Ends, Speaks(e), NEW m \in Msgs, outcome'[m] = "acked"
  PROVE  outcome[m] = "acked"
<1>1. outcome' = outcome \/ \E p : Conclude(e, p, {})
  BY DEF Speaks, Submit, Broadcast, Key, Discard, TickAs, Restart, history
<1> QED  BY <1>1, AckedAre

-----------------------------------------------------------------------------
(* One direction of the link, from e to the other end.  B are the numbers   *)
(* e has given.                                                             *)
Truth(e, B) == Truths(B, Heard(Other(e)), peer[Other(e)].reasm)

(* The messages that are e's to send.                                       *)
Mine(e) ==
  Outbox[e] \cup Broadcasts[e]
    \cup (IF e = Gateway THEN Answerable
          ELSE {BootHello[n] : n \in 0 .. MaxRestarts[Station]} \ {NoMsg})

(* Whatever is said to e, or may yet be, is true, and so is what e has      *)
(* concluded from it.                                                       *)
Truthful(e, B) ==
  /\ Honest(peer[Other(e)], B, Heard(Other(e)))
  /\ Says(Saying(Other(e)), Truth(e, B))
  /\ Trusts(peer[e], Truth(e, B))
  /\ \A m \in Mine(e) : outcome[m] = "acked" => m \in Heard(Other(e))

LEMMA TruthsMore ==
  ASSUME NEW B, NEW B2, B \subseteq B2, NEW h, NEW h2, h \subseteq h2, NEW rs
  PROVE  /\ Truths(B, h, rs) \subseteq Truths(B2, h2, rs)
         /\ \A p : Honest(p, B, h) => Honest(p, B2, h2)
<1>1. Truths(B, h, rs) \subseteq Truths(B2, h2, rs) /\ \A ss : Truths(B, h, ss) \subseteq Truths(B2, h2, ss)
  BY DEF Truths
<1>2. ASSUME NEW p, Honest(p, B, h)  PROVE Honest(p, B2, h2)
  <2>1. HeardAll(p.seen, B2, h2)
    BY <1>2 DEF Honest, HeardAll
  <2>2. Halves(p.reasm, B2)
    BY <1>2 DEF Honest, Halves, Half
  <2> QED  BY <1>1, <1>2, <2>1, <2>2 DEF Honest
<1> QED  BY <1>1, <1>2

LEMMA SaysMore ==
  ASSUME NEW V, NEW W, V \subseteq W
  PROVE  /\ \A F : Says(F, V) => Says(F, W)
         /\ \A p : Trusts(p, V) => Trusts(p, W)
BY DEF Says, Vouched, Trusts

LEMMA TruthfulMore ==
  ASSUME NEW e, NEW B, NEW B2, B \subseteq B2, Truthful(e, B)
  PROVE  Truthful(e, B2)
<1>1. PICK h, rs : h = Heard(Other(e)) /\ rs = peer[Other(e)].reasm
  OBVIOUS
<1>2. Truths(B, h, rs) \subseteq Truths(B2, h, rs) /\ Honest(peer[Other(e)], B2, h)
  BY <1>1, TruthsMore DEF Truthful
<1>3. Truth(e, B) \subseteq Truth(e, B2)
  BY <1>1, <1>2 DEF Truth
<1> QED  BY <1>1, <1>2, <1>3, SaysMore DEF Truthful

(* A step of e in which it hears nothing.                                   *)
LEMMA TrustSpeaks ==
  ASSUME Sane, NEW e \in Ends, Speaks(e), NEW B \in SUBSET Pairs, Fine(e, B, Pairs)',
         Mine(e) \subseteq Msgs, Truthful(e, B)
  PROVE  Truthful(e, B)'
<1>1. PICK o \in Ends : o = Other(e) /\ Other(o) = e
  BY EndsAre
<1>2. Moves(e)
  BY DEF Speaks, Moves
<1>3. /\ peer'[o] = peer[o] /\ txq'[o] = txq[o] /\ air'[e] \subseteq air[e]
      /\ Heard(o)' = Heard(o)
  BY <1>1, <1>2, MovesLeave
<1>4. PICK p, q, h, rs : p = peer[e] /\ q = peer'[e] /\ h = Heard(o) /\ rs = peer[o].reasm
  OBVIOUS
<1>5. Truth(e, B) = Truths(B, h, rs) /\ Truth(e, B)' = Truths(B, h, rs)
  BY <1>1, <1>3, <1>4 DEF Truth
<1>6. p \in Records
  BY <1>4 DEF Sane, Shape
<1>7. Rests(p, q)
  BY <1>4, <1>6, OwesAny, CalmMove
<1>8. Good(q, B, Pairs)
  BY <1>4 DEF Fine
<1>9. Trusts(q, Truths(B, h, rs))
  BY <1>4, <1>5, <1>7, <1>8, RestsTrust DEF Truthful
<1>10. Says(Saying(o)', Truths(B, h, rs))
  BY <1>1, <1>3, <1>5 DEF Truthful, Says, Saying
<1>11. Honest(peer[o], B, Heard(o))'
  BY <1>1, <1>3 DEF Truthful
<1>12. \A m \in Mine(e) : outcome'[m] = "acked" => m \in Heard(o)'
  BY <1>1, <1>3, SpeaksConclude DEF Truthful
<1>13. (/\ Honest(peer[o], B, Heard(o))
        /\ Says(Saying(o), Truth(e, B))
        /\ Trusts(peer[e], Truth(e, B))
        /\ \A m \in Mine(e) : outcome[m] = "acked" => m \in Heard(o))'
  BY <1>4, <1>5, <1>9, <1>10, <1>11, <1>12
<1> QED  BY <1>1, <1>13 DEF Truthful

(* The reply of the end that hears, and what it still owes, after the frame *)
(* has been taken in.                                                       *)
LEMMA CalmReply ==
  ASSUME Sane, NEW e \in Ends, NEW f \in air[e], NEW reply \in Msgs \cup {NoMsg},
         ReceiveAs(e, f, reply), NEW got, got = HandleRf(e, f), NEW V, Owes(got.peer, V), Closed(V)
  PROVE  /\ Rests(got.peer, peer'[e]) /\ Calm(got.peer, peer'[e])
         /\ peer'[e].seen = got.peer.seen /\ peer'[e].reasm = got.peer.reasm
         /\ Says(txq[e] \cup got.out, V) => Says(txq'[e], V)
<1>0. Shape
  BY DEF Sane
<1>1. PICK p : p = got.peer
  OBVIOUS
<1>2. PICK s \in Seqs : s = nextSeq[e]
  BY <1>0 DEF Shape
<1>3. Good(p, Pairs, Pairs)
  <2>1. Good(peer[e], Pairs, Pairs) /\ Carries(air[Other(Other(e))], Pairs)
    BY EndsAre DEF Sane, Fine
  <2>2. Carried(f, Pairs)
    BY <2>1, EndsAre DEF Carries
  <2>3. PICK w : w = peer[e]
    OBVIOUS
  <2>4. Sound(OnReceive(w, f), Pairs, Pairs)
    BY <2>1, <2>2, <2>3, OnReceiveSound
  <2> QED  BY <1>1, <2>3, <2>4 DEF HandleRf, Sound
<1>4. PICK said, x, F : /\ said = IF reply = NoMsg THEN Nothing(p) ELSE Enqueue(p, reply, s)
                        /\ x = said.peer /\ F = said.out
  OBVIOUS
<1>5. p \in Records
  BY <1>3, Fields DEF Good
<1>6. /\ x \in Records /\ Says(F, V) /\ Calm(p, x) /\ Rests(p, x)
      /\ x.seen = p.seen /\ x.reasm = p.reasm
  <2>1. CASE reply = NoMsg
    <3>1. x = p /\ F = {}
      BY <1>4, <2>1 DEF Nothing
    <3> QED  BY <1>5, <3>1, CalmThen DEF Says
  <2>2. CASE reply # NoMsg
    <3>1. said = Enqueue(p, reply, s) /\ reply \in Msgs /\ <<reply, s>> \in Pairs
      BY <1>4, <2>2 DEF Pairs
    <3>2. Good(x, Pairs, Pairs)
      BY <1>3, <1>4, <3>1, EnqueueSound DEF Sound
    <3>3. x \in Records
      BY <3>2, Fields DEF Good
    <3> QED  BY <1>1, <1>4, <1>5, <3>1, <3>3, CalmSend
  <2> QED  BY <2>1, <2>2
<1>7. Owes(x, V)
  BY <1>1, <1>6, CalmThen
<1>8. PICK dr, y, G : /\ dr = IF e = Gateway THEN DrainAcks(x) ELSE Nothing(x)
                      /\ y = dr.peer /\ G = dr.out
  OBVIOUS
<1>9. Says(G, V) /\ Calm(x, y) /\ Rests(x, y) /\ y.seen = x.seen /\ y.reasm = x.reasm
  <2>1. CASE e = Gateway
    BY <1>6, <1>7, <1>8, <2>1, CalmDrain
  <2>2. CASE e # Gateway
    <3>1. y = x /\ G = {}
      BY <1>8, <2>2 DEF Nothing
    <3> QED  BY <3>1, CalmThen DEF Says
  <2> QED  BY <2>1, <2>2
<1>10. Calm(p, y) /\ Rests(p, y)
  BY <1>6, <1>9, CalmThen
<1>11. /\ peer' = [peer EXCEPT ![e] = y]
       /\ txq' = [txq EXCEPT ![e] = @ \cup got.out \cup F \cup G]
  BY <1>1, <1>2, <1>4, <1>8 DEF ReceiveAs
<1>12. peer'[e] = y /\ txq'[e] = txq[e] \cup got.out \cup F \cup G
  BY <1>0, <1>11 DEF Shape
<1>13. Says(txq[e] \cup got.out, V) => Says(txq'[e], V)
  BY <1>6, <1>9, <1>12 DEF Says
<1> QED  BY <1>1, <1>6, <1>9, <1>10, <1>12, <1>13

(* A step in which e hears.                                                 *)
LEMMA TrustHears ==
  ASSUME Sane, NEW e \in Ends, NEW f \in air[e], NEW reply \in Msgs \cup {NoMsg}, Moves(e),
         ReceiveAs(e, f, reply), NEW B \in SUBSET Pairs, Single(B), Good(peer[e], B, Pairs),
         Fine(e, B, Pairs)', Mine(e) \subseteq Msgs, Truthful(e, B)
  PROVE  Truthful(e, B)'
<1>1. PICK o \in Ends : o = Other(e) /\ Other(o) = e
  BY EndsAre
<1>2. /\ peer'[o] = peer[o] /\ txq'[o] = txq[o] /\ air'[e] \subseteq air[e]
      /\ Heard(o)' = Heard(o)
  BY <1>1, MovesLeave
<1>3. PICK p, q, h, rs : p = peer[e] /\ q = peer'[e] /\ h = Heard(o) /\ rs = peer[o].reasm
  OBVIOUS
<1>4. Truth(e, B) = Truths(B, h, rs) /\ Truth(e, B)' = Truths(B, h, rs)
  BY <1>1, <1>2, <1>3 DEF Truth
<1>5. PICK got, x, done : got = HandleRf(e, f) /\ x = got.peer /\ done = got.done
  OBVIOUS
<1>6. got = OnReceive(p, f)
  BY <1>3, <1>5 DEF HandleRf
<1>7. Carried(f, Pairs)
  BY <1>1 DEF Sane, Fine, Carries
<1>8. Vouched(f, Truths(B, h, rs))
  BY <1>1, <1>4 DEF Truthful, Says, Saying
<1>9. Apart(rs) /\ Halves(rs, B)
  <2>1. Good(peer[o], Pairs, Pairs)
    BY DEF Sane, Fine
  <2> QED  BY <1>1, <1>3, <2>1, Fields DEF Good, Truthful, Honest
<1>10. Good(p, B, Pairs) /\ Trusts(p, Truths(B, h, rs))
  BY <1>3, <1>4 DEF Truthful
<1>11. Trusts(got.peer, Truths(B, h, rs)) /\ got.done \subseteq h
  BY <1>6, <1>7, <1>8, <1>9, <1>10, TrustsReceive
<1>12. x \in Records
  <2>1. Good(x, B, Pairs)
    BY <1>5, <1>6, <1>7, <1>10, OnReceiveSound DEF Sound
  <2> QED  BY <2>1, Fields DEF Good
<1>13. Rests(x, q)
  <2>1. Owes(got.peer, Acks) /\ Closed(Acks)
    BY <1>5, <1>12, OwesAny
  <2> QED  BY <1>3, <1>5, <2>1, CalmReply
<1>14. Good(q, B, Pairs)
  BY <1>3 DEF Fine
<1>15. Trusts(q, Truths(B, h, rs))
  BY <1>5, <1>11, <1>13, <1>14, RestsTrust
<1>16. Says(Saying(o)', Truths(B, h, rs))
  BY <1>1, <1>2, <1>4 DEF Truthful, Says, Saying
<1>17. Honest(peer[o], B, Heard(o))'
  BY <1>1, <1>2 DEF Truthful
<1>18. \A m \in Mine(e) : outcome'[m] = "acked" => m \in Heard(o)'
  <2>1. \E w : Conclude(e, w, done)
    BY <1>5 DEF ReceiveAs
  <2>2. \A m \in Msgs : outcome'[m] = "acked" => m \in done \/ outcome[m] = "acked"
    BY <2>1, AckedAre
  <2> QED  BY <1>1, <1>2, <1>3, <1>5, <1>11, <2>2 DEF Truthful
<1>19. (/\ Honest(peer[o], B, Heard(o))
        /\ Says(Saying(o), Truth(e, B))
        /\ Trusts(peer[e], Truth(e, B))
        /\ \A m \in Mine(e) : outcome[m] = "acked" => m \in Heard(o))'
  BY <1>3, <1>4, <1>15, <1>16, <1>17, <1>18
<1> QED  BY <1>1, <1>19 DEF Truthful

(* The end that hears gives no reassembly up.                               *)
NoneAbandoned(e) == NoneLost(peer[e], peer'[e])

(* A step of the other end in which it hears nothing.                       *)
LEMMA HonestSpeaks ==
  ASSUME Sane, NEW e \in Ends, Speaks(Other(e)), NoneAbandoned(Other(e)),
         NEW B \in SUBSET Pairs, Single(B), Hears(peer[Other(e)], B),
         Mine(e) \subseteq Msgs, Truthful(e, B)
  PROVE  Truthful(e, B)'
<1>1. PICK o \in Ends : o = Other(e) /\ Other(o) = e
  BY EndsAre
<1>2. Moves(o) /\ Speaks(o)
  BY <1>1 DEF Speaks, Moves
<1>3. peer'[e] = peer[e] /\ delivered' = delivered
  BY <1>1, <1>2, MovesLeave
<1>4. PICK p, q, h, V, W : /\ p = peer[o] /\ q = peer'[o] /\ h = Heard(o)
                           /\ V = Truths(B, h, p.reasm) /\ W = Truths(B, h, q.reasm)
  OBVIOUS
<1>5. Heard(o)' = h
  BY <1>3, <1>4 DEF Heard
<1>6. Truth(e, B) = V /\ Truth(e, B)' = W
  BY <1>1, <1>4, <1>5 DEF Truth
<1>7. p \in Records /\ Kept(p.reasm, B) /\ Honest(p, B, h)
  <2>1. Good(p, Pairs, Pairs)
    BY <1>4 DEF Sane, Fine
  <2> QED  BY <1>1, <1>4, <2>1, Fields DEF Good, Hears, Kept, Truthful
<1>8. Owes(p, V) /\ Closed(V)
  BY <1>4, <1>7, HonestOwes, TruthsClosed
<1>9. Calm(p, q) /\ (Says(Saying(o), V) => Says(Saying(o)', V))
  BY <1>2, <1>4, <1>8, CalmMove
<1>10. V \subseteq W /\ Honest(q, B, h)
  BY <1>1, <1>4, <1>7, <1>9, CalmHonest DEF NoneAbandoned
<1>11. Says(Saying(o)', W) /\ Trusts(peer'[e], W)
  BY <1>1, <1>3, <1>6, <1>9, <1>10, SaysMore DEF Truthful
<1>12. \A m \in Mine(e) : outcome'[m] = "acked" => m \in h
  BY <1>1, <1>2, <1>4, SpeaksConclude DEF Truthful
<1>13. (/\ Honest(peer[o], B, Heard(o))
        /\ Says(Saying(o), Truth(e, B))
        /\ Trusts(peer[e], Truth(e, B))
        /\ \A m \in Mine(e) : outcome[m] = "acked" => m \in Heard(o))'
  BY <1>4, <1>5, <1>6, <1>10, <1>11, <1>12
<1> QED  BY <1>1, <1>13 DEF Truthful

(* What is acknowledged to an end is a message of its own.                  *)
LEMMA DoneIsSent ==
  ASSUME NEW M \in SUBSET Msgs, NEW p, Good(p, M \X Seqs, Pairs), NEW f, Carried(f, Pairs)
  PROVE  OnReceive(p, f).done \subseteq M
<1>1. ASSUME NEW q, Good(q, M \X Seqs, Pairs), NEW a  PROVE ApplyAck(q, a).done \subseteq M
  <2>1. q.pending.seq # NoSeq => q.pending.msg \in M
    BY <1>1 DEF Good, Sends, Entitled
  <2>2. \A w : Nothing(w).done = {}
    BY DEF Nothing
  <2>3. PICK next : next = StartNext(q)
    OBVIOUS
  <2>4. next = [peer |-> next.peer, out |-> next.out, done |-> next.done, deliver |-> next.deliver]
    BY <2>3 DEF StartNext, StartPending, Nothing
  <2>5. \A D : [next EXCEPT !.done = D].done = D
    BY <2>4
  <2>6. \A w, F : [Nothing(w) EXCEPT !.out = F].done = {}
    BY DEF Nothing
  <2> QED  BY <2>1, <2>2, <2>3, <2>5, <2>6 DEF ApplyAck
<1>2. CASE f.kind = "ACK"
  BY <1>1, <1>2 DEF OnReceive
<1>3. CASE f.kind # "ACK"
  <2>1. f.msg \in Msgs
    BY <1>3 DEF Carried, Frames
  <2>2. PICK fresh : fresh = NewSession(p, f.msg)
    OBVIOUS
  <2>3. Good(fresh, M \X Seqs, Pairs)
    BY <2>1, <2>2, NewSessionGood
  <2>4. PICK acked : acked = IF f.piggy = NoSeq THEN Nothing(fresh) ELSE ApplyAck(fresh, Whole(f.piggy))
    OBVIOUS
  <2>5. acked.done \subseteq M
    BY <1>1, <2>3, <2>4 DEF Nothing
  <2>6. PICK data : data = ReceiveData(acked.peer, f)
    OBVIOUS
  <2>7. data = [peer |-> data.peer, out |-> data.out, done |-> data.done, deliver |-> data.deliver]
    BY <2>6 DEF ReceiveData, Reassemble, Nothing
  <2>8. OnReceive(p, f) = [data EXCEPT !.out = acked.out, !.done = acked.done]
    BY <1>3, <2>2, <2>4, <2>6 DEF OnReceive
  <2>9. OnReceive(p, f).done = acked.done
    BY <2>7, <2>8
  <2> QED  BY <2>5, <2>9
<1> QED  BY <1>2, <1>3

LEMMA HeardMore ==
  ASSUME Sane, NEW e \in Ends, NEW f \in air[e], NEW reply \in Msgs \cup {NoMsg},
         ReceiveAs(e, f, reply), NEW d, d = HandleRf(e, f).deliver
  PROVE  /\ Heard(e) \subseteq Heard(e)' /\ (d = NoMsg \/ d \in Heard(e)')
         /\ Heard(e)' \subseteq Heard(e) \cup ({d} \ {NoMsg})
<1>0. Shape /\ delivered' \in [Ends -> Seq(Heards)]
  BY SaneReceive DEF Sane
<1>1. Deliver(e, d)
  BY DEF ReceiveAs
<1>2. CASE d = NoMsg
  BY <1>1, <1>2 DEF Deliver, Heard
<1>3. CASE d # NoMsg
  <2>1. PICK c, z, y : c = delivered[e] /\ z = delivered'[e] /\ y = [msg |-> d, gen |-> gen'[e]]
    OBVIOUS
  <2>2. c \in Seq(Heards) /\ z = Append(c, y)
    BY <1>0, <1>1, <1>3, <2>1 DEF Deliver, Shape
  <2>3. PICK l \in Nat : l = Len(c) /\ DOMAIN c = 1 .. l
    BY <2>2
  <2>35. z \in Seq(Heards)
    BY <1>0, <2>1
  <2>36. Len(z) = l + 1 /\ z[l + 1] = y /\ \A i \in 1 .. l : z[i] = c[i]
    BY <2>2, <2>3
  <2>4. DOMAIN z = 1 .. l + 1
    BY <2>35, <2>36
  <2>5. \A i \in DOMAIN c : i \in DOMAIN z /\ z[i] = c[i]
    BY <2>3, <2>36, <2>4
  <2>6. l + 1 \in DOMAIN z /\ z[l + 1].msg = d
    BY <2>1, <2>36, <2>4
  <2>7. \A i \in DOMAIN z : (i \in DOMAIN c /\ z[i] = c[i]) \/ z[i].msg = d
    <3>1. \A i \in 1 .. l + 1 : i \in 1 .. l \/ i = l + 1
      BY <2>3
    <3> QED  BY <2>3, <2>36, <2>4, <2>6, <3>1
  <2> QED  BY <1>3, <2>1, <2>5, <2>6, <2>7 DEF Heard
<1> QED  BY <1>2, <1>3

(* A step in which the other end hears.                                     *)
LEMMA HonestHears ==
  ASSUME Sane, NEW e \in Ends, NEW o \in Ends, o = Other(e), Moves(o),
         NEW f \in air[o], NEW reply \in Msgs \cup {NoMsg}, ReceiveAs(o, f, reply),
         NoneAbandoned(o), NEW B \in SUBSET Pairs, Single(B), Hears(peer[o], B),
         Carries(air[o], B), Good(peer[o], Mine(o) \X Seqs, Pairs),
         Mine(e) \subseteq Msgs, Mine(o) \subseteq Msgs, Mine(e) \cap Mine(o) = {}, Truthful(e, B)
  PROVE  Truthful(e, B)'
<1>1. Other(o) = e
  BY EndsAre
<1>2. peer'[e] = peer[e] /\ air'[Other(o)] = air[Other(o)]
  <2>1. air'[e] = air[e]
    BY <1>1, EndsAre DEF Sane, Shape, ReceiveAs
  <2> QED  BY <1>1, <2>1, MovesLeave
<1>3. PICK got, x, d, done : /\ got = HandleRf(o, f) /\ x = got.peer /\ d = got.deliver
                             /\ done = got.done
  OBVIOUS
<1>4. PICK p, y, h, h2 : p = peer[o] /\ y = peer'[o] /\ h = Heard(o) /\ h2 = Heard(o)'
  OBVIOUS
<1>5. got = OnReceive(p, f) /\ Carried(f, B)
  BY <1>3, <1>4 DEF HandleRf, Carries
<1>6. h \subseteq h2 /\ (got.deliver = NoMsg \/ got.deliver \in h2)
  BY <1>3, <1>4, HeardMore
<1>7. Good(p, Pairs, B) /\ Honest(p, B, h)
  BY <1>4 DEF Sane, Fine, Good, Truthful
<1>8. Good(x, Pairs, B) /\ x \in Records
  <2>1. Good(x, Pairs, B)
    BY <1>3, <1>5, <1>7, OnReceiveSound DEF Sound
  <2> QED  BY <2>1, Fields DEF Good
<1>9. Kept(x.reasm, B)
  BY <1>8, Fields DEF Good, Hears, Kept
<1>10. y.seen = x.seen /\ y.reasm = x.reasm
  <2>1. Owes(got.peer, Acks) /\ Closed(Acks)
    BY <1>3, <1>8, OwesAny
  <2>2. PICK V : V = Acks
    OBVIOUS
  <2>3. Owes(got.peer, V) /\ Closed(V)
    BY <2>1, <2>2
  <2>4. got = HandleRf(o, f)
    BY <1>3
  <2>5. /\ Rests(got.peer, peer'[o]) /\ Calm(got.peer, peer'[o])
        /\ peer'[o].seen = got.peer.seen /\ peer'[o].reasm = got.peer.reasm
        /\ Says(txq[o] \cup got.out, V) => Says(txq'[o], V)
    BY <2>3, <2>4, CalmReply
  <2> QED  BY <1>3, <1>4, <2>5
<1>11. NoneLost(p, x)
  BY <1>4, <1>10 DEF NoneAbandoned, NoneLost, Remembered
<1>12. PICK V, W : V = Truths(B, h, p.reasm) /\ W = Truths(B, h2, x.reasm)
  OBVIOUS
<1>13. Honest(x, B, h2) /\ V \subseteq W /\ Says(got.out, W)
  <2>1. NoneLost(p, got.peer)
    BY <1>3, <1>11
  <2>2. /\ Honest(got.peer, B, h2)
        /\ Truths(B, h, p.reasm) \subseteq Truths(B, h2, got.peer.reasm)
        /\ \A U : Says(got.out, U)
    BY <1>5, <1>6, <1>7, <2>1, HonestReceive
  <2> QED  BY <1>3, <1>12, <2>2
<1>14. Owes(x, W) /\ Closed(W)
  BY <1>8, <1>9, <1>12, <1>13, HonestOwes, TruthsClosed
<1>15. Calm(x, y) /\ (Says(txq[o] \cup got.out, W) => Says(txq'[o], W))
  BY <1>3, <1>4, <1>14, CalmReply
<1>16. NoneLost(x, y)
  BY <1>10 DEF NoneLost, Reassembles
<1>17. Honest(y, B, h2)
  BY <1>9, <1>13, <1>15, <1>16, CalmHonest
<1>18. Truth(e, B) = V /\ Truth(e, B)' = W
  BY <1>4, <1>10, <1>12 DEF Truth
<1>19. Says(Saying(o), W)
  BY <1>13, <1>18, SaysMore DEF Truthful
<1>20. Says(txq'[o], W)
  BY <1>13, <1>15, <1>19 DEF Says, Saying
<1>21. Says(Saying(o)', W)
  BY <1>2, <1>19, <1>20 DEF Says, Saying
<1>22. Trusts(peer'[e], W)
  BY <1>2, <1>13, <1>18, SaysMore DEF Truthful
<1>23. \A m \in Mine(e) : outcome'[m] = "acked" => m \in h2
  <2>1. done \subseteq Mine(o)
    <3>1. Carried(f, Pairs)
      BY <1>5, Widened, EndsAre DEF Sane, Fine, Carries
    <3>2. PICK M \in SUBSET Msgs : M = Mine(o)
      OBVIOUS
    <3>3. OnReceive(p, f).done \subseteq M
      BY <1>4, <3>1, <3>2, DoneIsSent
    <3> QED  BY <1>3, <1>5, <3>2, <3>3
  <2>2. \E w : Conclude(o, w, done)
    BY <1>3 DEF ReceiveAs
  <2>3. \A m \in Msgs : outcome'[m] = "acked" => m \in done \/ outcome[m] = "acked"
    BY <2>2, AckedAre
  <2> QED  BY <1>4, <1>6, <2>1, <2>3 DEF Truthful
<1>24. (/\ Honest(peer[o], B, Heard(o))
        /\ Says(Saying(o), Truth(e, B))
        /\ Trusts(peer[e], Truth(e, B))
        /\ \A m \in Mine(e) : outcome[m] = "acked" => m \in Heard(o))'
  BY <1>4, <1>17, <1>18, <1>21, <1>22, <1>23
<1> QED  BY <1>24 DEF Truthful

-----------------------------------------------------------------------------
(* An end sends only what is its own.                                       *)
Belongs(e) == Fine(e, Mine(e) \X Seqs, Pairs)

Asked ==
  /\ accepted \in [Ends -> Seq(Msgs)]
  /\ \A e \in Ends : accepted[e] \in Seq(Mine(e))

LEMMA MineAre ==
  ASSUME NEW e \in Ends
  PROVE  /\ Mine(e) \subseteq Msgs /\ Outbox[e] \cup Broadcasts[e] \subseteq Mine(e)
         /\ e = Gateway => Answerable \subseteq Mine(e)
         /\ \A n \in 0 .. MaxRestarts[Station] :
              e = Station /\ BootHello[n] # NoMsg => BootHello[n] \in Mine(e)
<1>1. Answerable \subseteq Msgs
  BY EndsAssumption DEF Answerable
<1>2. \A n \in 0 .. MaxRestarts[Station] : BootHello[n] \in Msgs \cup {NoMsg}
  BY EndsAssumption, MsgsAssumption
<1>3. Outbox[e] \subseteq Msgs /\ Broadcasts[e] \subseteq Msgs
  BY EndsAssumption
<1> QED  BY <1>1, <1>2, <1>3, EndsAssumption DEF Mine

LEMMA AnswerIsMine ==
  ASSUME NEW e \in Ends, NEW m, NEW reply \in Answers(e, m), reply # NoMsg
  PROVE  reply \in Mine(e)
<1>1. e = Gateway /\ m \in Hellos /\ reply \in Replies[m]
  BY DEF Answers
<1>2. reply \in Answerable
  BY <1>1 DEF Answerable
<1> QED  BY <1>1, <1>2, MineAre

LEMMA BelongsMove ==
  ASSUME Sane, NEW e \in Ends, Moves(e), Belongs(e), Belongs(Other(e))
  PROVE  Belongs(e)' /\ Belongs(Other(e))'
<1>0. Shape /\ Other(e) \in Ends
  BY EndsAre DEF Sane
<1>1. Belongs(Other(e))'
  <2>1. PICK M : M = Mine(Other(e))
    OBVIOUS
  <2>2. Fine(Other(e), M \X Seqs, Pairs)'
    BY <1>0, <2>1, MovesLeave, OtherFine DEF Belongs
  <2> QED  BY <2>1, <2>2 DEF Belongs
<1>2. PICK M, A : M = Mine(e) /\ A = M \X Seqs
  OBVIOUS
<1>3. Fine(e, A, Pairs)
  BY <1>2 DEF Belongs
<1>4. SUFFICES Fine(e, A, Pairs)'
  BY <1>1, <1>2 DEF Belongs
<1>5. CASE \E m \in todo[e] : Submit(e, m) \/ Broadcast(e, m)
  <2>1. PICK m \in todo[e] : Submit(e, m) \/ Broadcast(e, m)
    BY <1>5
  <2>2. m \in M /\ nextSeq[e] \in Seqs
    BY <1>0, <1>2, MineAre DEF Shape
  <2>3. <<m, nextSeq[e]>> \in A
    BY <1>2, <2>2
  <2> QED  BY <1>0, <1>3, <2>1, <2>3, SubmitFine, BroadcastFine
<1>6. CASE \E f \in txq[e], arrives \in BOOLEAN : Key(e, f, arrives) \/ Discard(e, f)
  BY <1>0, <1>3, <1>6, KeyFine, DiscardFine
<1>7. CASE \E f \in air[e], reply \in Msgs \cup {NoMsg} :
             /\ reply # NoMsg => e = Gateway
             /\ reply \in Answers(e, HandleRf(e, f).deliver) /\ ReceiveAs(e, f, reply)
  <2>1. PICK f \in air[e], reply \in Msgs \cup {NoMsg} :
          reply \in Answers(e, HandleRf(e, f).deliver) /\ ReceiveAs(e, f, reply)
    BY <1>7
  <2>2. PICK p : p = peer[e]
    OBVIOUS
  <2>3. Good(p, A, Pairs) /\ Carried(f, Pairs)
    BY <1>3, <2>2, EndsAre DEF Sane, Fine, Carries
  <2>4. Sound(HandleRf(e, f), A, Pairs)
    BY <2>2, <2>3, OnReceiveSound DEF HandleRf
  <2>5. reply # NoMsg => <<reply, nextSeq[e]>> \in A
    BY <1>0, <1>2, <2>1, AnswerIsMine DEF Shape
  <2>6. Carries(txq[e], A) /\ Carries(air[Other(e)], A)
    BY <1>3 DEF Fine
  <2> QED  BY <1>0, <2>1, <2>4, <2>5, <2>6, ReceiveFine
<1>8. CASE \E n \in 0 .. Len(peer[e].reasm), what \in {"quiet", "timeout", "idle"} :
             TickAs(e, n, what)
  BY <1>0, <1>3, <1>8, TickFine
<1>9. CASE Restart(e)
  <2>1. PICK n : n = used.restarts[e] + 1
    OBVIOUS
  <2>2. e = Station => n \in 0 .. MaxRestarts[Station]
    BY <1>0, <1>9, <2>1, EndsAssumption DEF Restart, Shape, Spent, Ends
  <2>3. e = Station /\ BootHello[n] # NoMsg => <<BootHello[n], 1>> \in A
    BY <1>2, <2>2, MineAre, Limits
  <2> QED  BY <1>0, <1>9, <2>1, <2>3, RestartFine
<1> QED  BY <1>5, <1>6, <1>7, <1>8, <1>9 DEF Moves

LEMMA AskedMove ==
  ASSUME Sane, NEW e \in Ends, Moves(e), Asked
  PROVE  Asked'
<1>0. Shape
  BY DEF Sane
<1>1. PICK M \in SUBSET Msgs : M = Mine(e)
  BY MineAre
<1>2. PICK c : c = accepted[e] /\ c \in Seq(M) /\ c \in Seq(Msgs)
  BY <1>1 DEF Asked
<1>3. SUFFICES \/ accepted' = accepted
               \/ \E t \in Seq(M) : accepted' = [accepted EXCEPT ![e] = t]
  <2>1. ASSUME NEW t \in Seq(M), accepted' = [accepted EXCEPT ![e] = t]
        PROVE  Asked'
    <3>1. t \in Seq(Msgs)
      OBVIOUS
    <3>2. accepted'[e] = t /\ accepted'[Other(e)] = accepted[Other(e)]
      BY <2>1, EndsAre DEF Asked
    <3> QED  BY <1>1, <2>1, <3>1, <3>2, EndsAre DEF Asked
  <2>2. ASSUME accepted' = accepted
        PROVE  Asked'
    BY <2>2 DEF Asked
  <2> QED  BY <2>1, <2>2
<1>4. \A m \in M : Append(c, m) \in Seq(M)
  BY <1>2
<1>5. CASE \E m \in todo[e] : Submit(e, m) \/ Broadcast(e, m)
  <2>1. PICK m \in todo[e] : Submit(e, m) \/ Broadcast(e, m)
    BY <1>5
  <2>2. m \in M
    BY <1>0, <1>1, MineAre DEF Shape
  <2>3. accepted' = accepted \/ accepted' = [accepted EXCEPT ![e] = Append(c, m)]
    BY <1>2, <2>1 DEF Submit, Broadcast, history
  <2> QED  BY <1>4, <2>2, <2>3
<1>6. CASE \E f \in txq[e], arrives \in BOOLEAN : Key(e, f, arrives) \/ Discard(e, f)
  BY <1>6 DEF Key, Discard, history
<1>7. CASE \E f \in air[e], reply \in Msgs \cup {NoMsg} :
             /\ reply # NoMsg => e = Gateway
             /\ reply \in Answers(e, HandleRf(e, f).deliver) /\ ReceiveAs(e, f, reply)
  <2>1. PICK f \in air[e], reply \in Msgs \cup {NoMsg} :
          reply \in Answers(e, HandleRf(e, f).deliver) /\ ReceiveAs(e, f, reply)
    BY <1>7
  <2>2. PICK d : d = HandleRf(e, f).deliver
    OBVIOUS
  <2>3. reply # NoMsg => reply \in M
    BY <1>1, <2>1, <2>2, AnswerIsMine
  <2>4. \/ accepted' = accepted
        \/ reply # NoMsg /\ accepted' = [accepted EXCEPT ![e] = Append(c, reply)]
    BY <1>2, <2>1 DEF ReceiveAs
  <2> QED  BY <1>4, <2>3, <2>4
<1>8. CASE \E n \in 0 .. Len(peer[e].reasm), what \in {"quiet", "timeout", "idle"} :
             TickAs(e, n, what)
  BY <1>8 DEF TickAs
<1>9. CASE Restart(e)
  <2>1. PICK n, t : n = used.restarts[e] + 1 /\ t = BootSaid(e, n)
    OBVIOUS
  <2>2. e = Station => n \in 0 .. MaxRestarts[Station]
    BY <1>0, <1>9, <2>1, EndsAssumption DEF Restart, Shape, Spent, Ends
  <2>3. t \in Seq(M)
    <3>1. CASE e = Station /\ BootHello[n] # NoMsg
      <4>1. BootHello[n] \in M
        BY <1>1, <2>2, <3>1, MineAre
      <4> QED  BY <2>1, <4>1 DEF BootSaid
    <3>2. CASE ~ (e = Station /\ BootHello[n] # NoMsg)
      BY <2>1, <3>2 DEF BootSaid, Booted, Nothing
    <3> QED  BY <3>1, <3>2
  <2>4. accepted' = [accepted EXCEPT ![e] = c \o t]
    BY <1>2, <1>9, <2>1 DEF Restart
  <2>5. c \o t \in Seq(M)
    BY <1>2, <2>3
  <2> QED  BY <2>4, <2>5
<1> QED  BY <1>5, <1>6, <1>7, <1>8, <1>9 DEF Moves

(* The two ends send different messages.                                    *)
MessagesApart == Mine(Gateway) \cap Mine(Station) = {}

LEMMA TruthfulInit ==
  ASSUME Init, NEW e \in Ends, NEW B \in SUBSET Pairs, Fine(e, B, Pairs)
  PROVE  Truthful(e, B)
<1>1. PICK o \in Ends : o = Other(e) /\ Other(o) = e
  BY EndsAre
<1>2. PICK h, rs, y, x, here, there :
        /\ h = Heard(o) /\ y = peer[o] /\ rs = y.reasm /\ x = peer[e]
        /\ there = Booted(o, 0) /\ here = Booted(e, 0)
  OBVIOUS
<1>3. PICK V : V = Truths(B, h, rs)
  OBVIOUS
<1>4. Closed(V)
  BY <1>3, TruthsClosed
<1>5. y = there.peer /\ x = here.peer /\ txq[o] = there.out /\ air[e] = {}
  BY <1>1, <1>2 DEF Init
<1>6. /\ y.owed = NoAck /\ y.seen = <<>> /\ DOMAIN y.reasm = {} /\ Says(there.out, V)
      /\ x.pending.acked = {}
  BY <1>2, <1>4, <1>5, CalmBooted
<1>7. Honest(y, B, h)
  BY <1>6 DEF Honest, HeardAll, Halves, NoAck, Whole
<1>8. Says(Saying(o), V)
  BY <1>1, <1>5, <1>6 DEF Saying, Says
<1>9. Trusts(x, V)
  <2>1. Good(x, B, Pairs) /\ Rests(x, x)
    BY <1>2, CalmThen DEF Fine
  <2> QED  BY <1>3, <1>6, <2>1, RestsTrust
<1>10. \A m \in Mine(e) : outcome[m] # "acked"
  BY MineAre DEF Init
<1> QED  BY <1>1, <1>2, <1>3, <1>7, <1>8, <1>9, <1>10 DEF Truthful, Truth

LEMMA TruthfulNext ==
  ASSUME NewEpochs, MessagesApart, NotRound, Sane, NEW e \in Ends, MaxRestarts[e] = 0,
         Belongs(Other(e)), NEW own, Ledger(own), NEW new, Ledger(new)', Extends(own, new),
         Truthful(e, own[e]), NoneAbandoned(Other(e)) \/ vars' = vars, [Next]_vars
  PROVE  Truthful(e, new[e])'
<1>1. PICK o \in Ends : o = Other(e) /\ Other(o) = e /\ \A x \in Ends : x = e \/ x = o
  BY EndsAre
<1>2. PICK B, C : B = new[e] /\ C = own[e]
  OBVIOUS
<1>3. C \subseteq B /\ B \in SUBSET Pairs /\ Single(B) /\ Fine(e, B, Pairs)'
  BY <1>2 DEF Ledger, Extends
<1>4. Truthful(e, B)
  BY <1>2, <1>3, TruthfulMore
<1>5. Mine(e) \subseteq Msgs /\ Mine(o) \subseteq Msgs
  BY MineAre
<1>6. Mine(e) \cap Mine(o) = {}
  BY <1>1, EndsAssumption DEF MessagesApart, Ends, Other
<1>7. Fine(e, C, Pairs) /\ Good(peer[o], own[o], C)
  <2>1. PICK k \in Nat : k = used.restarts[e] /\ k <= 0
    BY DEF Sane, Shape, Spent
  <2>2. Current(e)
    BY <2>1 DEF Current
  <2>3. Fine(o, own[o], own[e])
    BY <1>1, <2>2 DEF Ledger
  <2> QED  BY <1>2, <2>3 DEF Ledger, Fine
<1>8. /\ Good(peer[e], B, Pairs) /\ Carries(air[o], B) /\ Hears(peer[o], B)
  <2>1. PICK p, q, A, F : p = peer[e] /\ q = peer[o] /\ A = own[o] /\ F = air[o]
    OBVIOUS
  <2>2. Good(p, C, Pairs) /\ Carries(F, C) /\ Good(q, A, C)
    BY <1>1, <1>7, <2>1 DEF Fine
  <2>3. Good(p, B, Pairs) /\ Carries(F, B) /\ Good(q, A, B)
    BY <1>3, <2>2, Widened
  <2> QED  BY <2>1, <2>3 DEF Good
<1>9. Good(peer[o], Mine(o) \X Seqs, Pairs)
  BY <1>1 DEF Belongs, Fine
<1>10. SUFFICES Truthful(e, B)'
  BY <1>2
<1>11. CASE vars' = vars
  BY <1>4, <1>11 DEF vars, history, Truthful, Truth, Saying, Heard
<1>12. CASE Next /\ NoneAbandoned(o)
  <2>1. PICK x \in Ends : Moves(x)
    BY <1>12, NextMoves
  <2>2. CASE Speaks(x)
    <3>1. CASE x = e
      BY <1>3, <1>4, <1>5, <2>2, <3>1, TrustSpeaks
    <3>2. CASE x = o
      BY <1>1, <1>3, <1>4, <1>5, <1>8, <1>12, <2>2, <3>2, HonestSpeaks
    <3> QED  BY <1>1, <3>1, <3>2
  <2>3. CASE \E f \in air[x], reply \in Msgs \cup {NoMsg} : ReceiveAs(x, f, reply)
    <3>1. PICK f \in air[x], reply \in Msgs \cup {NoMsg} : ReceiveAs(x, f, reply)
      BY <2>3
    <3>2. CASE x = e
      BY <1>3, <1>4, <1>5, <1>8, <2>1, <3>1, <3>2, TrustHears
    <3>3. CASE x = o
      BY <1>1, <1>3, <1>4, <1>5, <1>6, <1>8, <1>9, <1>12, <2>1, <3>1, <3>3, HonestHears
    <3> QED  BY <1>1, <3>2, <3>3
  <2> QED  BY <2>1, <2>2, <2>3 DEF Moves, Speaks
<1> QED  BY <1>1, <1>11, <1>12

(* What the ends in D conclude is true.                                     *)
Believed(D) ==
  /\ Sane /\ Asked /\ \A e \in Ends : Belongs(e)
  /\ \E own : Ledger(own) /\ \A e \in D : Truthful(e, own[e])

(* What D depends on: the ends that hear it give no reassembly up.          *)
Patient(D) == \A e \in D : NoneAbandoned(Other(e))

LEMMA BelongsInit ==
  ASSUME Init, Sane
  PROVE  Asked /\ \A e \in Ends : Belongs(e)
<1>1. ASSUME NEW e \in Ends  PROVE accepted[e] \in Seq(Mine(e)) /\ Belongs(e)
  <2>1. PICK n, M : n = 0 /\ M = Mine(e)
    OBVIOUS
  <2>2. 0 \in 0 .. MaxRestarts[Station]
    BY EndsAssumption DEF Ends
  <2>3. e = Station /\ BootHello[0] # NoMsg => BootHello[0] \in M
    BY <2>1, <2>2, MineAre
  <2>4. accepted[e] = BootSaid(e, 0)
    BY DEF Init
  <2>5. accepted[e] \in Seq(M)
    BY <2>3, <2>4 DEF BootSaid, Booted, Nothing
  <2>6. PICK A, boot : A = M \X Seqs /\ boot = Booted(e, 0)
    OBVIOUS
  <2>7. e = Station /\ BootHello[0] # NoMsg => <<BootHello[0], 1>> \in A
    BY <2>3, <2>6, Limits
  <2>8. Sound(Booted(e, 0), A, Pairs)
    BY <2>2, <2>7, BootedSound
  <2>9. peer[e] = boot.peer /\ txq[e] = boot.out /\ air[Other(e)] = {}
    BY <2>6, EndsAre DEF Init
  <2>10. Fine(e, A, Pairs)
    BY <2>6, <2>8, <2>9 DEF Sound, Fine, Carries
  <2> QED  BY <2>1, <2>5, <2>6, <2>10 DEF Belongs
<1>2. \A e \in Ends : Mine(e) \in SUBSET Msgs
  BY MineAre
<1>3. \A e \in Ends : accepted[e] \in Seq(Msgs)
  BY <1>1, <1>2
<1>4. accepted \in [Ends -> Seq(Msgs)]
  BY <1>3 DEF Init
<1> QED  BY <1>1, <1>4 DEF Asked

LEMMA BelievedInit ==
  ASSUME NotRound, Init, NEW D \in SUBSET Ends
  PROVE  Believed(D)
<1>1. Sane /\ Asked /\ \A e \in Ends : Belongs(e)
  BY SaneInit, BelongsInit
<1>2. PICK own : Ledger(own)
  BY LedgerInit
<1>3. ASSUME NEW e \in D  PROVE Truthful(e, own[e])
  <2>1. PICK B : B = own[e]
    OBVIOUS
  <2>2. B \in SUBSET Pairs /\ Fine(e, B, Pairs) /\ e \in Ends
    BY <1>2, <2>1 DEF Ledger
  <2>3. Truthful(e, B)
    BY <2>2, TruthfulInit
  <2> QED  BY <2>1, <2>3
<1> QED  BY <1>1, <1>2, <1>3 DEF Believed

LEMMA BelievedNext ==
  ASSUME NewEpochs, MessagesApart, NEW D \in SUBSET Ends, \A e \in D : MaxRestarts[e] = 0,
         NotRound, Believed(D), [Next]_vars, [Patient(D)]_vars
  PROVE  Believed(D)'
<1>1. Sane'
  BY SaneStep DEF Believed
<1>2. Asked' /\ \A e \in Ends : Belongs(e)'
  <2>1. CASE Next
    <3>1. PICK x \in Ends : Moves(x)
      BY <2>1, NextMoves
    <3>2. Other(x) \in Ends /\ \A e \in Ends : e = x \/ e = Other(x)
      BY EndsAre
    <3>3. Asked'
      BY <3>1, AskedMove DEF Believed
    <3>4. Belongs(x)' /\ Belongs(Other(x))'
      BY <3>1, <3>2, BelongsMove DEF Believed
    <3> QED  BY <3>2, <3>3, <3>4
  <2>2. CASE vars' = vars
    BY <2>2 DEF Believed, vars, history, Asked, Belongs, Fine
  <2> QED  BY <2>1, <2>2
<1>3. PICK own : Ledger(own) /\ \A e \in D : Truthful(e, own[e])
  BY DEF Believed
<1>4. PICK new : Ledger(new)' /\ Extends(own, new)
  BY <1>3, LedgerNext DEF Believed
<1>5. ASSUME NEW e \in D  PROVE Truthful(e, new[e])'
  <2>1. e \in Ends /\ Belongs(Other(e)) /\ MaxRestarts[e] = 0
    BY EndsAre DEF Believed
  <2>2. NoneAbandoned(Other(e)) \/ vars' = vars
    BY DEF Patient
  <2> QED  BY <1>3, <1>4, <2>1, <2>2, TruthfulNext DEF Believed
<1>6. (\E w : Ledger(w) /\ \A e \in D : Truthful(e, w[e]))'
  BY <1>4, <1>5
<1> QED  BY <1>1, <1>2, <1>6 DEF Believed

LEMMA BelievedTrue ==
  ASSUME NEW D \in SUBSET Ends, Believed(D), NEW e \in D
  PROVE  /\ \A m \in Unicasts(e) : outcome[m] = "acked" => m \in Heard(Other(e))
         /\ LET q == peer[e].pending
                there == peer[Other(e)]
            IN ~Idle(peer[e]) /\ q.acked # {} =>
                 \/ q.msg \in Heard(Other(e))
                 \/ \E k \in DOMAIN there.reasm :
                      /\ there.reasm[k].seq = q.seq
                      /\ \A i \in q.acked : there.reasm[k].parts[i] = q.msg
<1>1. e \in Ends /\ Sane /\ Asked
  BY DEF Believed
<1>2. PICK own : Ledger(own) /\ Truthful(e, own[e])
  BY DEF Believed
<1>3. \A m \in Unicasts(e) : m \in Mine(e)
  <2>1. PICK M, c : M = Mine(e) /\ c = accepted[e] /\ c \in Seq(M)
    BY <1>1 DEF Asked
  <2>2. \A i \in DOMAIN c : c[i] \in M
    BY <2>1, ElementOfSeq
  <2> QED  BY <2>1, <2>2 DEF Unicasts
<1>4. PICK q, B, h, rs : /\ q = peer[e].pending /\ B = own[e] /\ h = Heard(Other(e))
                         /\ rs = peer[Other(e)].reasm
  OBVIOUS
<1>5. ASSUME q.seq # NoSeq, q.acked # {}
      PROVE  \/ q.msg \in h
             \/ \E k \in DOMAIN rs :
                  rs[k].seq = q.seq /\ \A i \in q.acked : rs[k].parts[i] = q.msg
  <2>1. Collected(q) \in Truths(B, h, rs)
    BY <1>2, <1>4, <1>5 DEF Truthful, Trusts, Truth
  <2>2. PICK m \in Msgs : /\ <<m, q.seq>> \in B
                          /\ m \in h \/ Gathers(rs, m, Collected(q))
    BY <1>5, <2>1 DEF Truths, Collected
  <2>3. Good(peer[e], B, Pairs) /\ Single(B)
    BY <1>1, <1>2, <1>4 DEF Ledger, Fine
  <2>4. <<q.msg, q.seq>> \in B
    BY <1>4, <1>5, <2>3 DEF Good, Sends, Entitled
  <2>5. q.msg \in Msgs /\ q.seq \in Seqs
    <3>1. q \in Pendings
      BY <1>4, <2>3, Fields DEF Good
    <3> QED  BY <1>5, <3>1, Limits DEF Pendings, NoPending
  <2>6. m = q.msg
    BY <2>2, <2>3, <2>4, <2>5 DEF Single
  <2> QED  BY <2>2, <2>6 DEF Gathers, Collected
<1> QED  BY <1>2, <1>3, <1>4, <1>5 DEF Truthful, Idle

LEMMA AlwaysBelieved ==
  ASSUME MessagesApart, \A e \in Ends : MaxRestarts[e] = 0
  PROVE  Spec /\ []NotRound /\ [][Patient(Ends)]_vars => []Believed(Ends)
<1>1. PICK D \in SUBSET Ends : D = Ends
  OBVIOUS
<1>2. NewEpochs
  BY EndsAssumption DEF NewEpochs, Ends
<1>3. Init /\ NotRound => Believed(Ends)
  BY <1>1, BelievedInit
<1>4. Believed(Ends) /\ NotRound /\ [Next]_vars /\ [Patient(Ends)]_vars => Believed(Ends)'
  BY <1>1, <1>2, BelievedNext
<1> QED  BY <1>3, <1>4, PTL DEF Spec

(* An end that takes a message for acknowledged is right: it was heard      *)
(* (apply_ack on one side, Sessions::on_receive and drain_acks on the       *)
(* other), in whatever pieces the acknowledgements came, and whatever was   *)
(* lost, echoed or overtaken.  The other end may restart, as long as it     *)
(* does not throw away, or let expire, what it has of a message: what it    *)
(* has said it has, it must keep.                                           *)
THEOREM AckedIsHeardFrom ==
  ASSUME NewEpochs, MessagesApart, NEW e \in Ends, MaxRestarts[e] = 0
  PROVE  Spec /\ []NotRound /\ [][NoneAbandoned(Other(e))]_vars
           => [](\A m \in Unicasts(e) : outcome[m] = "acked" => m \in Heard(Other(e)))
<1>1. PICK D \in SUBSET Ends : D = {e}
  OBVIOUS
<1>2. Init /\ NotRound => Believed(D)
  BY BelievedInit
<1>3. Believed(D) /\ NotRound /\ [Next]_vars /\ [NoneAbandoned(Other(e))]_vars => Believed(D)'
  <2>1. Patient(D) <=> NoneAbandoned(Other(e))
    BY <1>1 DEF Patient
  <2>2. \A x \in D : MaxRestarts[x] = 0
    BY <1>1
  <2> QED  BY <2>1, <2>2, BelievedNext
<1>4. Believed(D) => \A m \in Unicasts(e) : outcome[m] = "acked" => m \in Heard(Other(e))
  BY <1>1, BelievedTrue
<1> QED  BY <1>2, <1>3, <1>4, PTL DEF Spec

(* Where neither process restarts, that is AckedIsHeard.                    *)
THEOREM WhatIsAckedIsHeard ==
  ASSUME MessagesApart, \A e \in Ends : MaxRestarts[e] = 0
  PROVE  Spec /\ []NotRound /\ [][Patient(Ends)]_vars => []AckedIsHeard
<1>1. Spec /\ []NotRound /\ [][Patient(Ends)]_vars => []Believed(Ends)
  BY AlwaysBelieved
<1>2. Believed(Ends) => AckedIsHeard
  BY BelievedTrue DEF AckedIsHeard
<1> QED  BY <1>1, <1>2, PTL

(* The fragments a sender has been told to leave out of its next attempt    *)
(* are in the receiver's hands (apply_ack against bitmap_from_parts): what  *)
(* several partial acknowledgements said of a message holds together, and   *)
(* never comes from another message that bore its number.                   *)
THEOREM WhatIsCollectedIsThere ==
  ASSUME MessagesApart, \A e \in Ends : MaxRestarts[e] = 0
  PROVE  Spec /\ []NotRound /\ [][Patient(Ends)]_vars => []HolesAreTrue
<1>1. Spec /\ []NotRound /\ [][Patient(Ends)]_vars => []Believed(Ends)
  BY AlwaysBelieved
<1>2. Believed(Ends) => HolesAreTrue
  BY BelievedTrue DEF HolesAreTrue
<1> QED  BY <1>1, <1>2, PTL

-----------------------------------------------------------------------------
(* The line of unicasts of a record: the one in flight, and those behind    *)
(* it.  What an operator does to it is one of four things.                  *)
Stays(p, q) ==
  /\ q.queue = p.queue
  /\ q.pending.seq = p.pending.seq /\ q.pending.msg = p.pending.msg

Advances(p, q) ==
  /\ ~Idle(p)
  /\ IF p.queue = <<>> THEN Idle(q) /\ q.queue = <<>>
     ELSE ~Idle(q) /\ q.pending.msg = Head(p.queue).msg /\ q.queue = Tail(p.queue)

Clears(q) == Idle(q) /\ q.queue = <<>>

Joins(p, q, m) ==
  IF Idle(p) THEN ~Idle(q) /\ q.pending.msg = m /\ q.queue = p.queue
  ELSE /\ q.pending.seq = p.pending.seq /\ q.pending.msg = p.pending.msg
       /\ \E s \in Seqs : q.queue = Append(p.queue, [seq |-> s, msg |-> m])

(* Data that is handed to the TNC is of the message in flight.              *)
Utters(F, q) ==
  \A f \in F : f.kind = "DATA" => q.pending.seq # NoSeq /\ f.msg = q.pending.msg

LEMMA ThenStays ==
  ASSUME NEW p, NEW q, NEW y
  PROVE  /\ Stays(p, q) /\ Stays(q, y) => Stays(p, y)
         /\ Stays(p, q) /\ Advances(q, y) => Advances(p, y)
         /\ Advances(p, q) /\ Stays(q, y) => Advances(p, y)
         /\ Clears(q) /\ Stays(q, y) => Clears(y)
         /\ \A m : Joins(p, q, m) /\ Stays(q, y) => Joins(p, y, m)
         /\ \A F : Utters(F, q) /\ Stays(q, y) => Utters(F, y)
         /\ \A F, G : Utters(F, q) /\ Utters(G, q) => Utters(F \cup G, q)
<1>1. /\ Stays(p, q) /\ Stays(q, y) => Stays(p, y)
      /\ Clears(q) /\ Stays(q, y) => Clears(y)
  BY DEF Stays, Clears, Idle
<1>2. /\ Stays(p, q) /\ Advances(q, y) => Advances(p, y)
      /\ Advances(p, q) /\ Stays(q, y) => Advances(p, y)
  BY DEF Stays, Advances, Idle
<1>3. \A m : Joins(p, q, m) /\ Stays(q, y) => Joins(p, y, m)
  BY DEF Stays, Joins, Idle
<1>4. \A F : Utters(F, q) /\ Stays(q, y) => Utters(F, y)
  BY DEF Stays, Utters
<1>5. \A F, G : Utters(F, q) /\ Utters(G, q) => Utters(F \cup G, q)
  BY DEF Utters
<1> QED  BY <1>1, <1>2, <1>3, <1>4, <1>5

LEMMA LineOfSame ==
  ASSUME NEW p
  PROVE  Stays(p, p) /\ Utters({}, p) /\ Clears(NewPeer)
BY DEF Stays, Utters, Clears, NewPeer, NoPending, Idle

LEMMA LineOfStart ==
  ASSUME NEW p \in Records, NEW entry \in Entries, NEW r, r = StartPending(p, entry)
  PROVE  /\ r.peer.pending.seq = entry.seq /\ r.peer.pending.msg = entry.msg
         /\ r.peer.queue = p.queue /\ ~Idle(r.peer) /\ Utters(r.out, r.peer)
         /\ r.done = {}
<1>1. PICK v : v = [NoPending EXCEPT !.seq = entry.seq, !.msg = entry.msg]
  OBVIOUS
<1>2. v.seq = entry.seq /\ v.msg = entry.msg
  BY <1>1 DEF NoPending
<1>3. PICK q : q = [p EXCEPT !.pending = v]
  OBVIOUS
<1>4. q.pending = v /\ q.queue = p.queue
  BY <1>3 DEF Records
<1>5. r.peer = q /\ r.out = FragsOf(entry.msg, entry.seq, TRUE) /\ r.done = {}
  BY <1>1, <1>3 DEF StartPending, Nothing
<1>6. entry.seq # NoSeq
  BY Limits DEF Entries
<1>7. \A f \in r.out : f.msg = entry.msg
  BY <1>5 DEF FragsOf, Frag
<1> QED  BY <1>2, <1>4, <1>5, <1>6, <1>7 DEF Idle, Utters

LEMMA LineOfNext ==
  ASSUME NEW A, NEW B, NEW p, Good(p, A, B), ~Idle(p), NEW r, r = StartNext(p)
  PROVE  Advances(p, r.peer) /\ Utters(r.out, r.peer) /\ r.done = {}
<1>0. p \in Records /\ p.queue \in Seq(Entries)
  BY Fields DEF Good
<1>1. CASE p.queue = <<>>
  <2>1. PICK v, q : v = NoPending /\ q = [p EXCEPT !.pending = v]
    OBVIOUS
  <2>2. q.pending = v /\ q.queue = p.queue /\ v.seq = NoSeq
    BY <1>0, <2>1 DEF Records, NoPending
  <2>3. r = Nothing(q)
    BY <1>1, <2>1 DEF StartNext
  <2>4. r.peer = q /\ r.out = {} /\ r.done = {}
    BY <2>3 DEF Nothing
  <2> QED  BY <1>1, <2>2, <2>4 DEF Advances, Idle, Utters
<1>2. CASE p.queue # <<>>
  <2>1. PICK v, x, w : v = Tail(p.queue) /\ x = Head(p.queue) /\ w = p.queue
    OBVIOUS
  <2>2. v \in Seq(Entries) /\ x \in Entries
    BY <1>0, <1>2, <2>1
  <2>3. PICK q : q = [p EXCEPT !.queue = v]
    OBVIOUS
  <2>4. q \in Records /\ q.queue = v
    BY <1>0, <2>2, <2>3 DEF Records
  <2>5. r = StartPending(q, x)
    BY <1>2, <2>1, <2>3 DEF StartNext
  <2>6. /\ r.peer.pending.seq = x.seq /\ r.peer.pending.msg = x.msg
        /\ r.peer.queue = q.queue /\ ~Idle(r.peer) /\ Utters(r.out, r.peer) /\ r.done = {}
    BY <2>2, <2>4, <2>5, LineOfStart
  <2> QED  BY <1>2, <2>1, <2>4, <2>6 DEF Advances
<1> QED  BY <1>1, <1>2

LEMMA LineOfAck ==
  ASSUME NEW A, NEW B, NEW p, Good(p, A, B), NEW a, NEW r, r = ApplyAck(p, a)
  PROVE  /\ \/ Stays(p, r.peer) /\ r.done = {}
            \/ Advances(p, r.peer) /\ r.done = {p.pending.msg}
         /\ Utters(r.out, r.peer)
<1>1. PICK q, acked : q = p.pending /\ acked = q.acked \cup (a.bits \cap Frags(q.msg))
  OBVIOUS
<1>2. PICK v : v = [q EXCEPT !.acked = acked, !.attempts = 0, !.armed = FALSE]
  OBVIOUS
<1>3. PICK x : x = StartNext(p)
  OBVIOUS
<1>4. \/ r = Nothing(p)
      \/ q.seq # NoSeq /\ r = [x EXCEPT !.done = {q.msg}]
      \/ /\ q.seq # NoSeq
         /\ r = [Nothing([p EXCEPT !.pending = v]) EXCEPT !.out = Retries(Unacked(v))]
  BY <1>1, <1>2, <1>3, Zenon DEF ApplyAck
<1>5. CASE r = Nothing(p)
  BY <1>5, LineOfSame DEF Nothing
<1>6. CASE q.seq # NoSeq /\ r = [x EXCEPT !.done = {q.msg}]
  <2>1. x = [peer |-> x.peer, out |-> x.out, done |-> x.done, deliver |-> x.deliver]
    BY <1>3 DEF StartNext, StartPending, Nothing
  <2>2. r.peer = x.peer /\ r.out = x.out /\ r.done = {q.msg}
    BY <1>6, <2>1
  <2>3. Advances(p, x.peer) /\ Utters(x.out, x.peer)
    BY <1>1, <1>3, <1>6, LineOfNext DEF Idle
  <2> QED  BY <1>1, <2>2, <2>3
<1>7. CASE /\ q.seq # NoSeq
           /\ r = [Nothing([p EXCEPT !.pending = v]) EXCEPT !.out = Retries(Unacked(v))]
  <2>1. /\ q \in [seq : Seqs, msg : Msgs, acked : SUBSET Nat,
                  attempts : 0 .. MaxRetries, armed : BOOLEAN]
        /\ p \in Records
    BY <1>1, <1>7, InFlight, Fields DEF Good
  <2>2. v.seq = q.seq /\ v.msg = q.msg
    BY <1>2, <2>1
  <2>3. PICK z : z = [p EXCEPT !.pending = v]
    OBVIOUS
  <2>4. z.pending = v /\ z.queue = p.queue
    BY <2>1, <2>3 DEF Records
  <2>5. r.peer = z /\ r.out = Retries(Unacked(v)) /\ r.done = {}
    BY <1>7, <2>3 DEF Nothing
  <2>6. \A f \in r.out : f.msg = v.msg
    BY <2>5 DEF Retries, Unacked, FragsOf, Frag
  <2> QED  BY <1>1, <1>7, <2>2, <2>4, <2>5, <2>6 DEF Stays, Utters
<1> QED  BY <1>4, <1>5, <1>6, <1>7

LEMMA LineOfData ==
  ASSUME NEW p \in Records, NEW f, NEW r, r = ReceiveData(p, f)
  PROVE  Stays(p, r.peer)
<1>1. PICK v, c : v = p.pending /\ c = p.queue
  OBVIOUS
<1>2. Bears("pending", p, v) /\ Bears("queue", p, c)
  BY <1>1 DEF Bears, Records
<1>3. Bears("pending", r.peer, v) /\ Bears("queue", r.peer, c)
  BY <1>2, MarkOfData
<1> QED  BY <1>1, <1>3 DEF Bears, Stays

(* What is received completes the message in flight at most, or is a HELLO  *)
(* that clears the line.                                                    *)
LEMMA LineOfReceive ==
  ASSUME NEW A, NEW B, NEW p, Good(p, A, B), NEW f, Carried(f, B), NEW r, r = OnReceive(p, f)
  PROVE  /\ \/ Stays(p, r.peer) /\ r.done = {}
            \/ Advances(p, r.peer) /\ r.done = {p.pending.msg}
            \/ Clears(r.peer) /\ r.done = {}
         /\ Utters(r.out, r.peer)
<1>1. CASE f.kind = "ACK"
  <2>1. r = ApplyAck(p, f)
    BY <1>1 DEF OnReceive
  <2> QED  BY <2>1, LineOfAck
<1>2. CASE f.kind # "ACK"
  <2>1. f \in Data /\ f.msg \in Msgs /\ <<f.msg, f.seq>> \in B
    BY <1>2 DEF Carried, Frames, Data
  <2>2. PICK fresh : fresh = NewSession(p, f.msg)
    OBVIOUS
  <2>3. Good(fresh, A, B)
    BY <2>1, <2>2, NewSessionGood
  <2>4. fresh = p \/ Clears(fresh)
    BY <2>2 DEF NewSession, NewPeer, NoPending, Clears, Idle
  <2>5. PICK acked : acked = IF f.piggy = NoSeq THEN Nothing(fresh)
                             ELSE ApplyAck(fresh, Whole(f.piggy))
    OBVIOUS
  <2>6. /\ \/ Stays(fresh, acked.peer) /\ acked.done = {}
           \/ Advances(fresh, acked.peer) /\ acked.done = {fresh.pending.msg}
        /\ Utters(acked.out, acked.peer) /\ acked.peer \in Records
    <3>1. CASE f.piggy = NoSeq
      <4>1. acked.peer = fresh /\ acked.out = {} /\ acked.done = {}
        BY <2>5, <3>1 DEF Nothing
      <4> QED  BY <2>3, <4>1, LineOfSame, Fields DEF Good
    <3>2. CASE f.piggy # NoSeq
      <4>1. acked = ApplyAck(fresh, Whole(f.piggy))
        BY <2>5, <3>2
      <4>2. acked.peer \in Records
        <5>1. Sound(acked, A, B)
          BY <2>3, <4>1, ApplyAckSound
        <5> QED  BY <5>1, Fields DEF Sound, Good
      <4> QED  BY <2>3, <4>1, <4>2, LineOfAck
    <3> QED  BY <3>1, <3>2
  <2>7. PICK x, data : x = acked.peer /\ data = ReceiveData(x, f)
    OBVIOUS
  <2>8. Stays(x, data.peer)
    BY <2>6, <2>7, LineOfData
  <2>9. r = [data EXCEPT !.out = acked.out, !.done = acked.done]
    BY <1>2, <2>2, <2>5, <2>7 DEF OnReceive
  <2>10. data = [peer |-> data.peer, out |-> data.out, done |-> data.done, deliver |-> data.deliver]
    BY <2>7 DEF ReceiveData, Reassemble, Nothing
  <2>11. r.peer = data.peer /\ r.out = acked.out /\ r.done = acked.done
    BY <2>9, <2>10
  <2>12. Utters(r.out, r.peer)
    BY <2>6, <2>7, <2>8, <2>11, ThenStays
  <2>13. CASE fresh = p
    BY <2>6, <2>7, <2>8, <2>11, <2>12, <2>13, ThenStays
  <2>14. CASE Clears(fresh)
    <3>1. Stays(fresh, x) /\ acked.done = {}
      BY <2>6, <2>7, <2>14 DEF Clears, Advances
    <3> QED  BY <2>8, <2>11, <2>12, <2>14, <3>1, ThenStays
  <2> QED  BY <2>4, <2>13, <2>14
<1> QED  BY <1>1, <1>2

(* A message is taken into the line unless the line is full.                *)
LEMMA LineOfSend ==
  ASSUME NEW p \in Records, NEW m \in Msgs, NEW s \in Seqs, NEW r, r = Enqueue(p, m, s)
  PROVE  /\ Accepts(p) => Joins(p, r.peer, m)
         /\ ~Accepts(p) => Stays(p, r.peer)
         /\ Utters(r.out, r.peer) /\ r.done = {}
<1>1. PICK entry, carries : entry = [seq |-> s, msg |-> m]
                            /\ carries = (p.owed.seq # NoSeq /\ p.owed.whole)
  OBVIOUS
<1>2. entry \in Entries /\ entry.msg = m
  BY <1>1 DEF Entries
<1>3. CASE Idle(p)
  <2>1. PICK x : x = IF carries THEN [p EXCEPT !.owed = NoAck] ELSE p
    OBVIOUS
  <2>2. x \in Records /\ x.queue = p.queue
    BY <2>1 DEF Records, NoAck, Whole, Acks
  <2>3. PICK started : started = StartPending(x, entry)
    OBVIOUS
  <2>4. /\ started.peer.pending.seq = entry.seq /\ started.peer.pending.msg = entry.msg
        /\ started.peer.queue = x.queue /\ ~Idle(started.peer)
        /\ Utters(started.out, started.peer) /\ started.done = {}
    BY <1>2, <2>2, <2>3, LineOfStart
  <2>5. PICK riding :
          riding = {IF f.idx = 0 /\ carries THEN [f EXCEPT !.piggy = p.owed.seq] ELSE f :
                      f \in started.out}
    OBVIOUS
  <2>6. r = [started EXCEPT !.out = riding]
    BY <1>1, <1>3, <2>1, <2>3, <2>5 DEF Enqueue
  <2>7. started = [peer |-> started.peer, out |-> started.out, done |-> started.done,
                   deliver |-> started.deliver]
    BY <2>3 DEF StartPending, Nothing
  <2>8. r.peer = started.peer /\ r.out = riding /\ r.done = started.done
    BY <2>6, <2>7
  <2>9. \A f \in riding : f.msg = m
    <3>1. started.out = FragsOf(entry.msg, entry.seq, TRUE)
      BY <2>3 DEF StartPending, Nothing
    <3> QED  BY <1>2, <2>5, <3>1 DEF FragsOf, Frag
  <2>10. Utters(r.out, r.peer)
    BY <1>2, <2>4, <2>8, <2>9 DEF Utters, Idle
  <2> QED  BY <1>2, <1>3, <2>2, <2>4, <2>8, <2>10 DEF Joins, Accepts
<1>4. CASE ~Idle(p) /\ Len(p.queue) < MaxQueue
  <2>1. PICK c, q : c = Append(p.queue, entry) /\ q = [p EXCEPT !.queue = c]
    OBVIOUS
  <2>2. q.pending = p.pending /\ q.queue = c
    BY <2>1 DEF Records
  <2>3. r = Nothing(q)
    BY <1>1, <1>4, <2>1 DEF Enqueue
  <2>4. r.peer = q /\ r.out = {} /\ r.done = {}
    BY <2>3 DEF Nothing
  <2> QED  BY <1>1, <1>4, <2>1, <2>2, <2>4 DEF Joins, Accepts, Utters
<1>5. CASE ~Idle(p) /\ ~(Len(p.queue) < MaxQueue)
  <2>1. r = Nothing(p)
    BY <1>5 DEF Enqueue
  <2> QED  BY <1>5, <2>1, LineOfSame DEF Nothing, Accepts
<1> QED  BY <1>3, <1>4, <1>5

LEMMA LineOfDrain ==
  ASSUME NEW p \in Records, NEW e, NEW r, r = Settled(e, p)
  PROVE  Stays(p, r.peer) /\ Utters(r.out, r.peer) /\ r.done = {}
<1>1. CASE e = Station
  <2>1. PICK q, F : q = [p EXCEPT !.owed = NoAck]
                    /\ F = IF p.owed.seq = NoSeq THEN {} ELSE {AckFrame(p.owed)}
    OBVIOUS
  <2>2. q.pending = p.pending /\ q.queue = p.queue
    BY <2>1 DEF Records
  <2>3. r.peer = q /\ r.out = F /\ r.done = {}
    BY <1>1, <2>1 DEF Settled, DrainAcks, Nothing
  <2>4. \A f \in F : f.kind = "ACK"
    BY <2>1 DEF AckFrame
  <2> QED  BY <2>2, <2>3, <2>4 DEF Stays, Utters
<1>2. CASE e # Station
  BY <1>2, LineOfSame DEF Settled, Nothing
<1> QED  BY <1>1, <1>2

LEMMA LineOfKeyed ==
  ASSUME NEW p \in Records, NEW ks
  PROVE  Stays(p, OnKeyed(p, ks))
<1>1. PICK v : v = [p.pending EXCEPT !.armed = TRUE]
  OBVIOUS
<1>2. v.seq = p.pending.seq /\ v.msg = p.pending.msg
  BY <1>1 DEF Records, Pendings, NoPending
<1>3. PICK q : q = [p EXCEPT !.pending = v]
  OBVIOUS
<1>4. q.pending = v /\ q.queue = p.queue
  BY <1>3 DEF Records
<1>5. OnKeyed(p, ks) \in {p, q}
  BY <1>1, <1>3 DEF OnKeyed
<1> QED  BY <1>2, <1>4, <1>5 DEF Stays

LEMMA LineOfExpire ==
  ASSUME NEW p \in Records, NEW n, NEW r, r = ExpireReasm(p, n)
  PROVE  /\ Stays(p, r.peer) /\ Utters(r.out, r.peer) /\ r.done = {}
         /\ \A f \in r.out : f.kind = "ACK"
<1>1. PICK q : q = [p EXCEPT !.reasm = SubSeq(@, n + 1, Len(@))]
  OBVIOUS
<1>2. q.pending = p.pending /\ q.queue = p.queue
  BY <1>1 DEF Records
<1>3. r.peer = q /\ r.done = {} /\ \A f \in r.out : f.kind = "ACK"
  BY <1>1 DEF ExpireReasm, Nothing, AckFrame
<1> QED  BY <1>2, <1>3 DEF Stays, Utters

LEMMA LineOfTimeout ==
  ASSUME NEW A, NEW B, NEW p, Good(p, A, B), ~Idle(p), NEW r, r = Timeout(p)
  PROVE  /\ Stays(p, r.peer) \/ Advances(p, r.peer)
         /\ Utters(r.out, r.peer) /\ r.done = {}
<1>0. p \in Records /\ p.pending.seq # NoSeq
  BY Fields DEF Good, Idle
<1>1. CASE p.pending.attempts < MaxRetries
  <2>1. PICK q : q = p.pending
    OBVIOUS
  <2>2. q \in [seq : Seqs, msg : Msgs, acked : SUBSET Nat,
               attempts : 0 .. MaxRetries, armed : BOOLEAN]
    BY <1>0, <2>1, InFlight
  <2>3. PICK v : v = [q EXCEPT !.attempts = @ + 1]
    OBVIOUS
  <2>4. v.seq = q.seq /\ v.msg = q.msg
    BY <2>2, <2>3
  <2>5. PICK z : z = [p EXCEPT !.pending = v]
    OBVIOUS
  <2>6. z.pending = v /\ z.queue = p.queue
    BY <1>0, <2>5 DEF Records
  <2>7. r.peer = z /\ r.out = Retries(Unacked(q)) /\ r.done = {}
    BY <1>1, <2>1, <2>3, <2>5 DEF Timeout, Retry, Nothing
  <2>8. \A f \in r.out : f.msg = q.msg
    BY <2>7 DEF Retries, Unacked, FragsOf, Frag
  <2> QED  BY <1>0, <2>1, <2>4, <2>6, <2>7, <2>8 DEF Stays, Utters
<1>2. CASE ~(p.pending.attempts < MaxRetries)
  <2>1. CASE p.queue = <<>>
    <3>1. r = Nothing(NewPeer)
      BY <1>2, <2>1 DEF Timeout, GiveUp
    <3>2. r.peer = NewPeer /\ r.out = {} /\ r.done = {}
      BY <3>1 DEF Nothing
    <3> QED  BY <2>1, <3>2, LineOfSame DEF Advances, Clears, Utters
  <2>2. CASE p.queue # <<>>
    <3>1. r = StartNext(p)
      BY <1>2, <2>2 DEF Timeout, GiveUp
    <3> QED  BY <3>1, LineOfNext
  <2> QED  BY <2>1, <2>2
<1> QED  BY <1>1, <1>2

-----------------------------------------------------------------------------
(* What a step of e does to its own line, to what it has accepted and to    *)
(* what it has concluded.  The other end has heard nothing in it.           *)
Settles(p, q, done) ==
  \A m \in Msgs :
    outcome'[m] = IF m \in done THEN "acked"
                  ELSE IF m \in InHand(q) THEN "open"
                  ELSE IF m \in InHand(p) THEN "dropped" ELSE outcome[m]

Turns(e, p, q) ==
  \/ /\ Stays(p, q) /\ accepted'[e] = accepted[e]
     /\ Settles(p, q, {}) \/ \A m \in Msgs : outcome'[m] = outcome[m]
  \/ /\ Advances(p, q) /\ accepted'[e] = accepted[e]
     /\ \E done \in {{}, {p.pending.msg}} : Settles(p, q, done)
  \/ Clears(q) /\ accepted'[e] = accepted[e] /\ Settles(p, q, {})
  \/ \E m \in todo[e] \cap Outbox[e] :
       /\ Joins(p, q, m) /\ accepted'[e] = Append(accepted[e], m) /\ Settles(p, q, {})
       /\ m \notin todo'[e]

Speech(e) ==
  \A f \in txq'[e] : f \in txq[e] \/ f.kind = "ACK" \/ f.msg \in Broadcasts[e]
                       \/ /\ f.msg = peer'[e].pending.msg /\ peer'[e].pending.seq # NoSeq

LEMMA ConcludeSettles ==
  ASSUME NEW e, NEW q, NEW done, Conclude(e, q, done)
  PROVE  Settles(peer[e], q, done)
BY DEF Conclude, Settles

LEMMA TurnOfSubmit ==
  ASSUME Sane, Asked, NEW e \in Ends, NEW m \in todo[e], Submit(e, m)
  PROVE  Turns(e, peer[e], peer'[e]) /\ Speech(e) /\ air' = air
<1>0. Shape
  BY DEF Sane
<1>1. PICK p : p = peer[e]
  OBVIOUS
<1>2. PICK s \in Seqs : s = nextSeq[e]
  BY <1>0 DEF Shape
<1>3. p \in Records /\ Good(p, Pairs, Pairs) /\ m \in Msgs /\ <<m, s>> \in Pairs
  BY <1>0, <1>1, Fields DEF Sane, Fine, Good, Shape, Pairs
<1>4. PICK sent, x, F : sent = Enqueue(p, m, s) /\ x = sent.peer /\ F = sent.out
  OBVIOUS
<1>5. x \in Records
  <2>1. Sound(sent, Pairs, Pairs)
    BY <1>3, <1>4, EnqueueSound
  <2> QED  BY <1>4, <2>1, Fields DEF Sound, Good
<1>6. /\ Accepts(p) => Joins(p, x, m)
      /\ ~Accepts(p) => Stays(p, x)
      /\ Utters(F, x)
  BY <1>3, <1>4, LineOfSend
<1>7. PICK dr, y, G : dr = Settled(e, x) /\ y = dr.peer /\ G = dr.out
  OBVIOUS
<1>8. Stays(x, y) /\ Utters(G, y)
  BY <1>5, <1>7, LineOfDrain
<1>9. /\ Accepts(p) => Joins(p, y, m)
      /\ ~Accepts(p) => Stays(p, y)
      /\ Utters(F \cup G, y)
  BY <1>6, <1>8, ThenStays
<1>10. SendTo(e, m) = [dr EXCEPT !.out = F \cup @]
  BY <1>1, <1>2, <1>4, <1>7 DEF SendTo
<1>11. dr = [peer |-> dr.peer, out |-> dr.out, done |-> dr.done, deliver |-> dr.deliver]
  BY <1>7 DEF Settled, DrainAcks, Nothing
<1>12. SendTo(e, m).peer = y /\ SendTo(e, m).out = F \cup G
  BY <1>7, <1>10, <1>11
<1>125. Conclude(e, SendTo(e, m).peer, {})
  BY DEF Submit
<1>13. Settles(p, y, {})
  BY <1>1, <1>12, <1>125, ConcludeSettles
<1>14. /\ peer'[e] = y /\ txq'[e] = txq[e] \cup (F \cup G) /\ air' = air
       /\ m \in Outbox[e] /\ m \notin todo'[e]
  BY <1>0, <1>12 DEF Submit, Shape
<1>15. Speech(e)
  <2>1. txq'[e] \subseteq Frames
    <3>1. Sane'
      BY SaneSubmit
    <3> QED  BY <3>1 DEF Sane, Shape
  <2> QED  BY <1>9, <1>14, <2>1 DEF Speech, Utters, Frames
<1>16. accepted' = IF Accepts(p) THEN [accepted EXCEPT ![e] = Append(@, m)] ELSE accepted
  BY <1>1 DEF Submit
<1>17. CASE Accepts(p)
  <2>1. accepted'[e] = Append(accepted[e], m)
    BY <1>16, <1>17 DEF Asked
  <2> QED  BY <1>1, <1>9, <1>13, <1>14, <1>15, <1>17, <2>1 DEF Turns
<1>18. CASE ~Accepts(p)
  BY <1>1, <1>9, <1>13, <1>14, <1>15, <1>16, <1>18 DEF Turns
<1> QED  BY <1>17, <1>18

LEMMA TurnOfOthers ==
  ASSUME Sane, NEW e \in Ends,
         \/ \E m \in todo[e] : Broadcast(e, m)
         \/ \E f \in txq[e], arrives \in BOOLEAN : Key(e, f, arrives) \/ Discard(e, f)
  PROVE  /\ Turns(e, peer[e], peer'[e]) /\ Speech(e)
         /\ air'[Other(e)] \subseteq air[Other(e)] \cup txq[e]
<1>0. Shape
  BY DEF Sane
<1>1. peer' = peer /\ accepted' = accepted /\ outcome' = outcome
  BY DEF Broadcast, Key, Discard, history
<1>2. Turns(e, peer[e], peer'[e])
  BY <1>1, LineOfSame DEF Turns
<1>3. CASE \E m \in todo[e] : Broadcast(e, m)
  <2>1. PICK m \in todo[e] : Broadcast(e, m)
    BY <1>3
  <2>2. txq'[e] = txq[e] \cup SendChat(e, m) /\ air' = air /\ m \in Broadcasts[e]
    BY <1>0, <2>1 DEF Broadcast, Shape
  <2>3. \A f \in SendChat(e, m) : f.msg = m
    BY DEF SendChat, FragsOf, Frag
  <2> QED  BY <1>2, <2>2, <2>3 DEF Speech
<1>4. CASE \E f \in txq[e], arrives \in BOOLEAN : Key(e, f, arrives) \/ Discard(e, f)
  <2>1. txq'[e] \subseteq txq[e] /\ air'[Other(e)] \subseteq air[Other(e)] \cup txq[e]
    BY <1>0, <1>4, EndsAre DEF Key, Discard, Shape
  <2> QED  BY <1>2, <2>1 DEF Speech
<1> QED  BY <1>3, <1>4

(* A frame is heard, and nothing is answered.                               *)
LEMMA TurnOfReceive ==
  ASSUME Sane, NEW e \in Ends, NEW f \in air[e], ReceiveAs(e, f, NoMsg)
  PROVE  Turns(e, peer[e], peer'[e]) /\ Speech(e) /\ air'[Other(e)] = air[Other(e)]
<1>0. Shape
  BY DEF Sane
<1>1. PICK p : p = peer[e]
  OBVIOUS
<1>2. Good(p, Pairs, Pairs) /\ Carried(f, Pairs)
  <2>1. Carries(air[Other(Other(e))], Pairs)
    BY EndsAre DEF Sane, Fine
  <2> QED  BY <1>1, <2>1, EndsAre DEF Sane, Fine, Carries
<1>3. PICK got, x, F, done : got = HandleRf(e, f) /\ x = got.peer /\ F = got.out /\ done = got.done
  OBVIOUS
<1>4. got = OnReceive(p, f)
  BY <1>1, <1>3 DEF HandleRf
<1>5. x \in Records
  <2>1. Sound(got, Pairs, Pairs)
    BY <1>2, <1>4, OnReceiveSound
  <2> QED  BY <1>3, <2>1, Fields DEF Sound, Good
<1>6. /\ \/ Stays(p, x) /\ done = {}
         \/ Advances(p, x) /\ done = {p.pending.msg}
         \/ Clears(x) /\ done = {}
      /\ Utters(F, x)
  BY <1>2, <1>3, <1>4, LineOfReceive
<1>7. PICK dr, y, G : /\ dr = IF e = Gateway THEN DrainAcks(x) ELSE Nothing(x)
                      /\ y = dr.peer /\ G = dr.out
  OBVIOUS
<1>8. Stays(x, y) /\ Utters(G, y)
  <2>1. CASE e = Gateway
    <3>1. PICK z : z = Station
      OBVIOUS
    <3>2. dr = Settled(z, x)
      BY <1>7, <2>1, <3>1 DEF Settled
    <3> QED  BY <1>5, <1>7, <3>2, LineOfDrain
  <2>2. CASE e # Gateway
    BY <1>7, <2>2, LineOfSame DEF Nothing
  <2> QED  BY <2>1, <2>2
<1>9. /\ \/ Stays(p, y) /\ done = {}
         \/ Advances(p, y) /\ done = {p.pending.msg}
         \/ Clears(y) /\ done = {}
      /\ Utters(F \cup G, y)
  BY <1>6, <1>8, ThenStays
<1>10. /\ peer' = [peer EXCEPT ![e] = y] /\ txq' = [txq EXCEPT ![e] = @ \cup F \cup {} \cup G]
       /\ Conclude(e, y, done) /\ accepted' = accepted
       /\ air' = IF Echo THEN air ELSE [air EXCEPT ![e] = @ \ {f}]
  BY <1>3, <1>7 DEF ReceiveAs, Nothing
<1>11. /\ peer'[e] = y /\ txq'[e] = txq[e] \cup (F \cup G) /\ air'[Other(e)] = air[Other(e)]
  BY <1>0, <1>10, EndsAre DEF Shape
<1>12. Settles(p, y, done)
  BY <1>1, <1>10, ConcludeSettles
<1>13. Speech(e)
  <2>1. txq'[e] \subseteq Frames
    <3>1. PICK reply \in Msgs \cup {NoMsg} : reply = NoMsg
      OBVIOUS
    <3>2. Sane'
      BY <3>1, SaneReceive
    <3> QED  BY <3>2 DEF Sane, Shape
  <2> QED  BY <1>9, <1>11, <2>1 DEF Speech, Utters, Frames
<1> QED  BY <1>1, <1>9, <1>10, <1>11, <1>12, <1>13 DEF Turns

LEMMA TurnOfTick ==
  ASSUME Sane, NEW e \in Ends, NEW n \in 0 .. Len(peer[e].reasm),
         NEW what \in {"quiet", "timeout", "idle"}, TickAs(e, n, what)
  PROVE  Turns(e, peer[e], peer'[e]) /\ Speech(e) /\ air' = air
<1>0. Shape
  BY DEF Sane
<1>1. PICK p : p = peer[e]
  OBVIOUS
<1>2. Good(p, Pairs, Pairs) /\ p \in Records /\ keyed[e] \in SUBSET Seqs
  BY <1>0, <1>1, Fields DEF Sane, Fine, Shape, Good
<1>3. PICK started : started = DrainKeyed(e)
  OBVIOUS
<1>4. started = OnKeyed(p, keyed[e])
  BY <1>1, <1>3 DEF DrainKeyed
<1>5. Good(started, Pairs, Pairs) /\ started \in Records
  BY <1>2, <1>4, OnKeyedGood, Fields DEF Good
<1>6. Stays(p, started) /\ started.reasm = p.reasm
  BY <1>2, <1>4, LineOfKeyed, CalmKeyed
<1>7. PICK aged, q, F : aged = ExpireReasm(started, n) /\ q = aged.peer /\ F = aged.out
  OBVIOUS
<1>8. n \in 0 .. Len(started.reasm)
  BY <1>1, <1>6
<1>9. Good(q, Pairs, Pairs) /\ q \in Records
  BY <1>5, <1>7, <1>8, ExpireReasmSound, Fields DEF Sound, Good
<1>10. Stays(started, q) /\ Utters(F, q) /\ \A f \in F : f.kind = "ACK"
  BY <1>5, <1>7, LineOfExpire
<1>11. Stays(p, q)
  BY <1>6, <1>10, ThenStays
<1>12. PICK nx : nx = CASE what = "quiet" -> Nothing(q)
                        [] what = "timeout" -> Timeout(q)
                        [] what = "idle" -> Nothing(NewPeer)
  OBVIOUS
<1>13. PICK z, G : z = nx.peer /\ G = nx.out
  OBVIOUS
<1>14. /\ Stays(q, z) \/ Advances(q, z) \/ Clears(z)
       /\ Utters(G, z) /\ z \in Records
  <2>1. CASE what = "quiet"
    BY <1>9, <1>12, <1>13, <2>1, LineOfSame DEF Nothing
  <2>2. CASE what = "timeout"
    <3>1. nx = Timeout(q)
      BY <1>12, <2>2
    <3>2. p.pending.seq # NoSeq
      <4>1. p.pending.armed
        BY <1>1, <2>2 DEF TickAs
      <4>2. p.pending # NoPending /\ p.pending \in Pendings
        BY <1>2, <4>1 DEF NoPending, Records
      <4> QED  BY <4>2, Limits DEF Pendings
    <3>3. ~Idle(q)
      BY <1>11, <3>2 DEF Stays, Idle
    <3>4. z \in Records
      <4>1. Sound(nx, Pairs, Pairs)
        BY <1>9, <3>1, <3>3, TimeoutSound DEF Idle
      <4> QED  BY <1>13, <4>1, Fields DEF Sound, Good
    <3> QED  BY <1>9, <1>13, <3>1, <3>3, <3>4, LineOfTimeout
  <2>3. CASE what = "idle"
    <3>1. NewPeer \in Records
      <4>1. Good(NewPeer, Pairs, Pairs)
        BY FreshGood
      <4> QED  BY <4>1, Fields DEF Good
    <3>2. z = NewPeer /\ G = {}
      BY <1>12, <1>13, <2>3 DEF Nothing
    <3> QED  BY <3>1, <3>2, LineOfSame DEF Utters
  <2> QED  BY <2>1, <2>2, <2>3
<1>15. PICK dr, y, H : dr = Settled(e, z) /\ y = dr.peer /\ H = dr.out
  OBVIOUS
<1>16. Stays(z, y) /\ Utters(H, y)
  BY <1>14, <1>15, LineOfDrain
<1>17. /\ Stays(p, y) \/ Advances(p, y) \/ Clears(y)
       /\ Utters(G \cup H, y)
  BY <1>11, <1>14, <1>16, ThenStays
<1>18. /\ peer' = [peer EXCEPT ![e] = y] /\ txq' = [txq EXCEPT ![e] = @ \cup F \cup G \cup H]
       /\ Conclude(e, y, {}) /\ accepted' = accepted /\ air' = air
  BY <1>3, <1>7, <1>12, <1>13, <1>15 DEF TickAs
<1>19. peer'[e] = y /\ txq'[e] = txq[e] \cup F \cup (G \cup H)
  BY <1>0, <1>18 DEF Shape
<1>20. Settles(p, y, {})
  BY <1>1, <1>18, ConcludeSettles
<1>21. Speech(e)
  <2>1. txq'[e] \subseteq Frames
    <3>1. Sane'
      BY SaneTick
    <3> QED  BY <3>1 DEF Sane, Shape
  <2> QED  BY <1>10, <1>17, <1>19, <2>1 DEF Speech, Utters, Frames
<1> QED  BY <1>1, <1>17, <1>18, <1>19, <1>20, <1>21 DEF Turns

-----------------------------------------------------------------------------
(* How the line fits what has been accepted: it is the end of it, and what  *)
(* is in it is open.  a is what has been accepted, w what was concluded,    *)
(* box what may be asked for and left what has not been asked for yet.      *)
Back(p) == IF Idle(p) THEN 0 ELSE 1 + Len(p.queue)
Nth(p, j) == IF j = 1 THEN p.pending.msg ELSE p.queue[j - 1].msg

Lined(a, p, w, box, left) ==
  /\ a \in Seq(box)
  /\ Idle(p) => p.queue = <<>>
  /\ Back(p) <= Len(a)
  /\ \A j \in 1 .. Back(p) : a[Len(a) - Back(p) + j] = Nth(p, j)
  /\ \A i, j \in DOMAIN a : a[i] = a[j] => i = j
  /\ \A i \in DOMAIN a : a[i] \notin left
  /\ \A i \in DOMAIN a : w[a[i]] = "open" <=> i > Len(a) - Back(p)
  /\ \A m \in box : w[m] # "none" => \E i \in DOMAIN a : a[i] = m

(* A step of the abstract service, or none, over values.                    *)
Elder(a, w, i) == \A j \in 1 .. (i - 1) : w[a[j]] # "open"

Serves(a, h, w, a2, h2, w2, box) ==
  \/ a2 = a /\ h2 = h /\ \A x \in box : w2[x] = w[x]
  \/ /\ h2 = h
     /\ \E m \in box : /\ w[m] = "none" /\ a2 = Append(a, m)
                       /\ \A x \in box : w2[x] = IF x = m THEN "open" ELSE w[x]
  \/ /\ a2 = a /\ h2 = h
     /\ \A x \in box : w2[x] = IF w[x] = "open" THEN "dropped" ELSE w[x]
  \/ /\ a2 = a /\ \A x \in box : w2[x] = w[x]
     /\ \E i \in DOMAIN a : Elder(a, w, i) /\ a[i] \notin h /\ h2 = h \cup {a[i]}
  \/ /\ a2 = a /\ h2 = h
     /\ \E i \in DOMAIN a, how \in {"acked", "dropped"} :
          /\ Elder(a, w, i) /\ w[a[i]] = "open" /\ (how = "acked" => a[i] \in h)
          /\ \A x \in box : w2[x] = IF x = a[i] THEN how ELSE w[x]

LEMMA HandIs ==
  ASSUME NEW p \in Records, Idle(p) => p.queue = <<>>, NEW k, k = Back(p)
  PROVE  /\ k \in Nat
         /\ \A m : m \in InHand(p) <=> \E j \in 1 .. k : Nth(p, j) = m
<1>1. PICK c, l : c = p.queue /\ l = Len(c)
  OBVIOUS
<1>2. c \in Seq(Entries) /\ l \in Nat /\ DOMAIN c = 1 .. l
  BY <1>1 DEF Records
<1>3. CASE Idle(p)
  <2>1. k = 0 /\ InHand(p) = {}
    BY <1>3 DEF Back, InHand
  <2> QED  BY <2>1
<1>4. CASE ~Idle(p)
  <2>1. k = 1 + l /\ InHand(p) = {c[i].msg : i \in 1 .. l} \cup {p.pending.msg}
    BY <1>1, <1>2, <1>4 DEF Back, InHand
  <2>2. ASSUME NEW m, NEW i \in 1 .. l, m = c[i].msg  PROVE \E j \in 1 .. k : Nth(p, j) = m
    <3>1. i + 1 \in 1 .. k /\ i + 1 # 1 /\ (i + 1) - 1 = i
      BY <1>2, <2>1
    <3>2. Nth(p, i + 1) = m
      BY <1>1, <2>2, <3>1 DEF Nth
    <3> QED  BY <3>1, <3>2
  <2>3. 1 \in 1 .. k /\ Nth(p, 1) = p.pending.msg
    BY <1>2, <2>1 DEF Nth
  <2>4. ASSUME NEW j \in 1 .. k  PROVE Nth(p, j) \in InHand(p)
    <3>1. CASE j = 1
      BY <2>1, <3>1 DEF Nth
    <3>2. CASE j # 1
      <4>1. j - 1 \in 1 .. l
        BY <1>2, <2>1, <3>2
      <4> QED  BY <1>1, <2>1, <3>2, <4>1 DEF Nth
    <3> QED  BY <3>1, <3>2
  <2> QED  BY <1>2, <2>1, <2>2, <2>3, <2>4
<1> QED  BY <1>3, <1>4

LEMMA FromTheBack ==
  ASSUME NEW k \in Nat, NEW l \in Nat, k <= l, NEW i \in 1 .. l, i > l - k
  PROVE  \E j \in 1 .. k : l - k + j = i
<1>1. i - (l - k) \in 1 .. k /\ l - k + (i - (l - k)) = i
  OBVIOUS
<1> QED  BY <1>1

(* What is left in the line is the end of what was accepted, and what is    *)
(* done was before it.                                                      *)
Ending(a, q, done, k, l) ==
  /\ \A j \in 1 .. k : a[l - k + j] = Nth(q, j)
  /\ \A m \in done : \E i \in 1 .. l : i <= l - k /\ a[i] = m

(* What is in hand is the end of what was accepted.                         *)
LEMMA HandIsTheEnd ==
  ASSUME NEW p \in Records, NEW a, Idle(p) => p.queue = <<>>,
         NEW k, k = Back(p), NEW l \in Nat, k <= l, Ending(a, p, {}, k, l)
  PROVE  /\ k \in Nat
         /\ \A m : m \in InHand(p) <=> \E i \in 1 .. l : i > l - k /\ a[i] = m
<1>0. \A j \in 1 .. k : a[l - k + j] = Nth(p, j)
  BY DEF Ending
<1>1. k \in Nat /\ \A m : m \in InHand(p) <=> \E j \in 1 .. k : Nth(p, j) = m
  BY HandIs
<1>2. ASSUME NEW j \in 1 .. k  PROVE \E i \in 1 .. l : i > l - k /\ a[i] = Nth(p, j)
  <2>1. l - k + j \in 1 .. l /\ l - k + j > l - k
    BY <1>1
  <2> QED  BY <1>0, <2>1
<1>3. ASSUME NEW i \in 1 .. l, i > l - k  PROVE a[i] \in InHand(p)
  <2>1. PICK j \in 1 .. k : l - k + j = i
    BY <1>1, <1>3, FromTheBack
  <2> QED  BY <1>0, <1>1, <2>1
<1> QED  BY <1>1, <1>2, <1>3

(* What is in hand is what is open.                                         *)
LEMMA HandIsOpen ==
  ASSUME NEW p \in Records, NEW a, NEW w, NEW box, NEW left, Lined(a, p, w, box, left),
         NEW k, k = Back(p), NEW l, l = Len(a)
  PROVE  /\ k \in Nat /\ l \in Nat /\ k <= l /\ DOMAIN a = 1 .. l
         /\ \A m : m \in InHand(p) <=> \E i \in 1 .. l : i > l - k /\ a[i] = m
         /\ \A m \in box : m \in InHand(p) <=> w[m] = "open"
<1>1. a \in Seq(box) /\ l \in Nat /\ DOMAIN a = 1 .. l
  BY DEF Lined
<1>2. /\ Idle(p) => p.queue = <<>>
      /\ k <= l /\ \A j \in 1 .. k : a[l - k + j] = Nth(p, j)
  BY DEF Lined
<1>3. k \in Nat /\ \A m : m \in InHand(p) <=> \E i \in 1 .. l : i > l - k /\ a[i] = m
  <2>1. PICK n \in Nat : n = l
    BY <1>1
  <2>2. k <= n /\ Ending(a, p, {}, k, n)
    BY <1>2, <2>1 DEF Ending
  <2>3. k \in Nat /\ \A m : m \in InHand(p) <=> \E i \in 1 .. n : i > n - k /\ a[i] = m
    BY <1>2, <2>2, HandIsTheEnd
  <2> QED  BY <2>1, <2>3
<1>4. \A i \in 1 .. l : w[a[i]] = "open" <=> i > l - k
  BY <1>1 DEF Lined
<1>5. \A m \in box : w[m] # "none" => \E i \in 1 .. l : a[i] = m
  BY <1>1 DEF Lined
<1>6. \A m \in box : m \in InHand(p) <=> w[m] = "open"
  BY <1>3, <1>4, <1>5
<1> QED  BY <1>1, <1>2, <1>3, <1>6

(* What a step of a session concludes, over values.                         *)
Results(p, q, w, w2, done, box) ==
  \A m \in box : w2[m] = IF m \in done THEN "acked"
                         ELSE IF m \in InHand(q) THEN "open"
                         ELSE IF m \in InHand(p) THEN "dropped" ELSE w[m]

(* A line that has only become shorter at its front still fits.             *)
Shortens(p, q, a, w, w2, done, box, left, left2, k, l) ==
  /\ p \in Records /\ q \in Records /\ left2 \subseteq left
  /\ Lined(a, p, w, box, left) /\ Results(p, q, w, w2, done, box)
  /\ k \in Nat /\ k = Back(q) /\ k <= Back(p) /\ (Idle(q) => q.queue = <<>>)
  /\ l \in Nat /\ l = Len(a) /\ Ending(a, q, done, k, l)

LEMMA StillLined ==
  ASSUME NEW p, NEW q, NEW a, NEW w, NEW w2, NEW done, NEW box, NEW left, NEW left2,
         NEW k, NEW l, Shortens(p, q, a, w, w2, done, box, left, left2, k, l)
  PROVE  /\ Lined(a, q, w2, box, left2)
         /\ \A m : m \in InHand(q) <=> \E i \in 1 .. l : i > l - k /\ a[i] = m
<1>0. /\ p \in Records /\ q \in Records /\ left2 \subseteq left
      /\ Lined(a, p, w, box, left) /\ Results(p, q, w, w2, done, box)
      /\ k \in Nat /\ k = Back(q) /\ k <= Back(p) /\ (Idle(q) => q.queue = <<>>)
      /\ l \in Nat /\ l = Len(a) /\ Ending(a, q, done, k, l)
  BY DEF Shortens
<1>1. PICK b : b = Back(p)
  OBVIOUS
<1>2. /\ b \in Nat /\ l \in Nat /\ b <= l /\ DOMAIN a = 1 .. l
      /\ \A m : m \in InHand(p) <=> \E i \in 1 .. l : i > l - b /\ a[i] = m
      /\ \A m \in box : m \in InHand(p) <=> w[m] = "open"
  BY <1>0, <1>1, HandIsOpen
<1>3. k \in Nat
  BY <1>0
<1>4. k <= l
  BY <1>0, <1>1, <1>2, <1>3
<1>5. \A m : m \in InHand(q) <=> \E i \in 1 .. l : i > l - k /\ a[i] = m
  <2>1. Ending(a, q, {}, k, l)
    BY <1>0 DEF Ending
  <2> QED  BY <1>0, <1>2, <1>4, <2>1, HandIsTheEnd
<1>6. /\ a \in Seq(box) /\ \A i \in 1 .. l : a[i] \in box
      /\ \A i, j \in 1 .. l : a[i] = a[j] => i = j
      /\ \A i \in 1 .. l : a[i] \notin left2
      /\ \A m \in box : w[m] # "none" => \E i \in 1 .. l : a[i] = m
  BY <1>0, <1>2 DEF Lined
<1>7. ASSUME NEW i \in 1 .. l  PROVE w2[a[i]] = "open" <=> i > l - k
  <2>1. a[i] \in done => i <= l - k
    BY <1>0, <1>6 DEF Ending
  <2>2. a[i] \in InHand(q) <=> i > l - k
    BY <1>5, <1>6
  <2>3. CASE i > l - k
    <3>1. a[i] \notin done
      BY <2>1, <2>3, <1>2, <1>3
    <3> QED  BY <1>0, <1>6, <2>2, <2>3, <3>1 DEF Results
  <2>4. CASE ~(i > l - k)
    <3>1. a[i] \notin InHand(q)
      BY <2>2, <2>4
    <3> QED  BY <1>0, <1>2, <1>6, <2>4, <3>1 DEF Results
  <2> QED  BY <2>3, <2>4
<1>8. ASSUME NEW m \in box, w2[m] # "none"  PROVE \E i \in 1 .. l : a[i] = m
  BY <1>0, <1>2, <1>5, <1>6, <1>8 DEF Results, Ending
<1>9. Lined(a, q, w2, box, left2)
  BY <1>0, <1>2, <1>4, <1>6, <1>7, <1>8 DEF Lined, Ending
<1> QED  BY <1>3, <1>5, <1>9

LEMMA LinedIs ==
  ASSUME NEW p, NEW a, NEW w, NEW box, NEW left, Lined(a, p, w, box, left),
         NEW b, b = Back(p), NEW l, l = Len(a)
  PROVE  /\ a \in Seq(box) /\ l \in Nat /\ DOMAIN a = 1 .. l
         /\ \A j \in 1 .. b : a[l - b + j] = Nth(p, j)
         /\ \A i, j \in 1 .. l : a[i] = a[j] => i = j
         /\ \A i \in 1 .. l : a[i] \in box /\ (w[a[i]] = "open" <=> i > l - b)
<1>1. a \in Seq(box) /\ l \in Nat /\ DOMAIN a = 1 .. l
  BY DEF Lined
<1>2. \A i \in 1 .. l : a[i] \in box
  BY <1>1
<1>3. \A j \in 1 .. b : a[l - b + j] = Nth(p, j)
  BY DEF Lined
<1>4. \A i, j \in 1 .. l : a[i] = a[j] => i = j
  BY <1>1 DEF Lined
<1>5. \A i \in 1 .. l : w[a[i]] = "open" <=> i > l - b
  BY <1>1 DEF Lined
<1> QED  BY <1>1, <1>2, <1>3, <1>4, <1>5

(* What the four things that may happen to a line are to the service.       *)
LEMMA LineStays ==
  ASSUME NEW p \in Records, NEW q \in Records, NEW a, NEW h, NEW w, NEW w2, NEW box, NEW left,
         NEW left2 \in SUBSET left, Lined(a, p, w, box, left), Stays(p, q),
         Results(p, q, w, w2, {}, box) \/ \A m \in box : w2[m] = w[m]
  PROVE  Lined(a, q, w2, box, left2) /\ Serves(a, h, w, a, h, w2, box)
<1>1. PICK b, l : b = Back(p) /\ l = Len(a)
  OBVIOUS
<1>2. /\ DOMAIN a = 1 .. l
      /\ \A m \in box : m \in InHand(p) <=> w[m] = "open"
  BY <1>1, HandIsOpen
<1>3. InHand(q) = InHand(p)
  BY DEF InHand, Stays, Idle
<1>4. \A m \in box : w2[m] = w[m]
  BY <1>2, <1>3 DEF Results
<1>5. Back(q) = b /\ \A j \in 1 .. b : Nth(q, j) = Nth(p, j)
  BY <1>1 DEF Back, Nth, Stays, Idle
<1>6. \A i \in DOMAIN a : a[i] \in box
  BY <1>1, <1>2, LinedIs
<1>7. Idle(q) => q.queue = <<>>
  BY DEF Lined, Stays, Idle
<1>8. Lined(a, q, w2, box, left2)
  BY <1>1, <1>4, <1>5, <1>6, <1>7 DEF Lined
<1> QED  BY <1>4, <1>8 DEF Serves

LEMMA BackOfAdvanced ==
  ASSUME NEW p \in Records, NEW q \in Records, Advances(p, q),
         NEW b, b = Back(p), NEW k, k = Back(q)
  PROVE  /\ k \in Nat /\ b = k + 1 /\ (Idle(q) => q.queue = <<>>)
         /\ \A j \in 1 .. k : Nth(q, j) = Nth(p, j + 1)
<1>1. PICK c, n : c = p.queue /\ n = Len(c)
  OBVIOUS
<1>2. c \in Seq(Entries) /\ n \in Nat /\ b = 1 + n
  BY <1>1 DEF Records, Advances, Back
<1>3. CASE c = <<>>
  <2>1. n = 0 /\ k = 0 /\ q.queue = <<>>
    BY <1>1, <1>3 DEF Advances, Back
  <2> QED  BY <1>2, <2>1
<1>4. CASE c # <<>>
  <2>1. /\ ~Idle(q) /\ q.pending.msg = Head(c).msg /\ q.queue = Tail(c)
    BY <1>1, <1>4 DEF Advances
  <2>2. Len(Tail(c)) = n - 1 /\ n >= 1 /\ Head(c) = c[1]
        /\ \A i \in 1 .. (n - 1) : Tail(c)[i] = c[i + 1]
    BY <1>1, <1>2, <1>4, HeadTailProperties
  <2>3. k = n
    BY <1>2, <2>1, <2>2 DEF Back
  <2>4. ASSUME NEW j \in 1 .. n  PROVE Nth(q, j) = Nth(p, j + 1)
    <3>0. Nth(p, j + 1) = c[j].msg
      <4>1. j + 1 # 1 /\ (j + 1) - 1 = j
        BY <1>2
      <4> QED  BY <1>1, <4>1 DEF Nth
    <3>1. CASE j = 1
      BY <2>1, <2>2, <3>0, <3>1 DEF Nth
    <3>2. CASE j # 1
      <4>1. j - 1 \in 1 .. (n - 1) /\ (j - 1) + 1 = j
        BY <1>2, <3>2
      <4>2. Tail(c)[j - 1] = c[j]
        BY <2>2, <4>1
      <4> QED  BY <2>1, <3>0, <3>2, <4>2 DEF Nth
    <3> QED  BY <3>1, <3>2
  <2> QED  BY <1>2, <2>1, <2>3, <2>4
<1> QED  BY <1>3, <1>4

LEMMA LineAdvances ==
  ASSUME NEW p \in Records, NEW q \in Records, NEW a, NEW h, NEW w, NEW w2, NEW box, NEW left,
         NEW left2 \in SUBSET left, Lined(a, p, w, box, left), Advances(p, q),
         NEW done, done = {} \/ (done = {p.pending.msg} /\ p.pending.msg \in h),
         Results(p, q, w, w2, done, box)
  PROVE  Lined(a, q, w2, box, left2) /\ Serves(a, h, w, a, h, w2, box)
<1>1. PICK b, k, l : b = Back(p) /\ k = Back(q) /\ l = Len(a)
  OBVIOUS
<1>2. /\ k \in Nat /\ b = k + 1 /\ (Idle(q) => q.queue = <<>>)
      /\ \A j \in 1 .. k : Nth(q, j) = Nth(p, j + 1)
  BY <1>1, BackOfAdvanced
<1>3. /\ b \in Nat /\ l \in Nat /\ b <= l /\ DOMAIN a = 1 .. l
      /\ \A m : m \in InHand(p) <=> \E i \in 1 .. l : i > l - b /\ a[i] = m
      /\ \A m \in box : m \in InHand(p) <=> w[m] = "open"
  BY <1>1, HandIsOpen
<1>35. k \in Nat /\ l \in Nat /\ b = k + 1 /\ b <= l
  BY <1>2, <1>3
<1>4. PICK i0 \in 1 .. l : i0 = l - k
  BY <1>2, <1>3
<1>5. i0 = l - b + 1 /\ i0 > l - b
  BY <1>2, <1>3, <1>4
<1>6. /\ \A j \in 1 .. b : a[l - b + j] = Nth(p, j)
      /\ \A i, j \in 1 .. l : a[i] = a[j] => i = j
      /\ \A i \in 1 .. l : a[i] \in box /\ (w[a[i]] = "open" <=> i > l - b)
  BY <1>1, LinedIs
<1>7. a[i0] = p.pending.msg
  <2>1. 1 \in 1 .. b /\ Nth(p, 1) = p.pending.msg
    BY <1>2 DEF Nth
  <2> QED  BY <1>5, <1>6, <2>1
<1>8. \A j \in 1 .. k : a[l - k + j] = Nth(q, j)
  <2>1. ASSUME NEW j \in 1 .. k  PROVE a[l - k + j] = Nth(q, j)
    <3>1. j + 1 \in 1 .. b /\ l - b + (j + 1) = l - k + j
      BY <1>35
    <3> QED  BY <1>2, <1>6, <3>1
  <2> QED  BY <2>1
<1>9. \A m \in done : \E i \in 1 .. l : i <= l - k /\ a[i] = m
  BY <1>2, <1>3, <1>4, <1>7
<1>10. /\ Lined(a, q, w2, box, left2)
       /\ \A m : m \in InHand(q) <=> \E i \in 1 .. l : i > l - k /\ a[i] = m
  <2>0. k \in Nat /\ l \in Nat
    BY <1>2, <1>3
  <2>1. k <= Back(p) /\ k = Back(q) /\ l = Len(a)
    BY <1>1, <1>2
  <2>2. /\ Lined(a, q, w2, box, left2)
        /\ \A m : m \in InHand(q) <=> \E i \in 1 .. l : i > l - k /\ a[i] = m
    <3>1. Ending(a, q, done, k, l)
      BY <1>8, <1>9 DEF Ending
    <3>2. Idle(q) => q.queue = <<>>
      BY <1>2
    <3>3. Shortens(p, q, a, w, w2, done, box, left, left2, k, l)
      BY <2>0, <2>1, <3>1, <3>2 DEF Shortens
    <3> QED  BY <3>3, StillLined
  <2> QED  BY <2>2
<1>11. PICK how : how = IF done = {} THEN "dropped" ELSE "acked"
  OBVIOUS
<1>12. ASSUME NEW x \in box  PROVE w2[x] = IF x = a[i0] THEN how ELSE w[x]
  <2>1. CASE x = a[i0]
    <3>1. x \notin InHand(q)
      <4>1. ASSUME NEW i \in 1 .. l, i > l - k  PROVE a[i] # x
        <5>1. i # i0
          BY <1>4, <4>1
        <5> QED  BY <1>6, <2>1, <5>1
      <4> QED  BY <1>10, <4>1
    <3>2. x \in InHand(p)
      BY <1>3, <1>5, <2>1
    <3> QED  BY <1>7, <1>11, <2>1, <3>1, <3>2 DEF Results
  <2>2. CASE x # a[i0]
    <3>1. x \notin done
      BY <1>7, <2>2
    <3>2. x \in InHand(q) <=> x \in InHand(p)
      <4>1. ASSUME NEW i \in 1 .. l, i # i0  PROVE i > l - k <=> i > l - b
        BY <1>2, <1>3, <1>4, <4>1
      <4> QED  BY <1>3, <1>10, <2>2, <4>1
    <3> QED  BY <1>3, <2>2, <3>1, <3>2 DEF Results
  <2> QED  BY <2>1, <2>2
<1>13. Elder(a, w, i0)
  <2>1. \A j \in 1 .. (i0 - 1) : j \in 1 .. l /\ ~(j > l - b)
    BY <1>3, <1>5
  <2> QED  BY <1>6, <2>1 DEF Elder
<1>14. w[a[i0]] = "open" /\ (how = "acked" => a[i0] \in h) /\ how \in {"acked", "dropped"}
  BY <1>5, <1>6, <1>7, <1>11
<1> QED  BY <1>3, <1>10, <1>12, <1>13, <1>14 DEF Serves

LEMMA LineClears ==
  ASSUME NEW p \in Records, NEW q \in Records, NEW a, NEW h, NEW w, NEW w2, NEW box, NEW left,
         NEW left2 \in SUBSET left, Lined(a, p, w, box, left), Clears(q),
         Results(p, q, w, w2, {}, box)
  PROVE  Lined(a, q, w2, box, left2) /\ Serves(a, h, w, a, h, w2, box)
<1>1. PICK b, k, l : b = Back(p) /\ k = Back(q) /\ l = Len(a)
  OBVIOUS
<1>2. k = 0 /\ InHand(q) = {}
  BY <1>1 DEF Clears, Back, InHand
<1>3. /\ b \in Nat /\ l \in Nat /\ \A m \in box : m \in InHand(p) <=> w[m] = "open"
  BY <1>1, HandIsOpen
<1>4. Lined(a, q, w2, box, left2)
  <2>0. PICK done : done = {}
    OBVIOUS
  <2>1. k <= Back(p) /\ Ending(a, q, done, k, l)
    BY <1>1, <1>2, <1>3, <2>0 DEF Ending
  <2>2. k \in Nat /\ l \in Nat /\ k = Back(q) /\ l = Len(a)
    BY <1>1, <1>2, <1>3
  <2>25. Results(p, q, w, w2, done, box)
    BY <2>0
  <2>3. Idle(q) => q.queue = <<>>
    BY DEF Clears
  <2>4. /\ Lined(a, q, w2, box, left2)
        /\ \A m : m \in InHand(q) <=> \E i \in 1 .. l : i > l - k /\ a[i] = m
    <3>1. Shortens(p, q, a, w, w2, done, box, left, left2, k, l)
      BY <2>1, <2>2, <2>25, <2>3 DEF Shortens
    <3> QED  BY <3>1, StillLined
  <2> QED  BY <2>4
<1>5. \A x \in box : w2[x] = IF w[x] = "open" THEN "dropped" ELSE w[x]
  BY <1>2, <1>3 DEF Results
<1> QED  BY <1>4, <1>5 DEF Serves

LEMMA BackOfJoined ==
  ASSUME NEW p \in Records, NEW q \in Records, NEW m, Joins(p, q, m),
         Idle(p) => p.queue = <<>>, NEW b, b = Back(p), NEW k, k = Back(q)
  PROVE  /\ b \in Nat /\ k = b + 1 /\ ~Idle(q) /\ Nth(q, k) = m
         /\ \A j \in 1 .. b : Nth(q, j) = Nth(p, j)
<1>1. PICK c, n : c = p.queue /\ n = Len(c)
  OBVIOUS
<1>2. c \in Seq(Entries) /\ n \in Nat
  BY <1>1 DEF Records
<1>3. CASE Idle(p)
  <2>1. b = 0 /\ n = 0 /\ ~Idle(q) /\ q.pending.msg = m /\ Len(q.queue) = 0
    BY <1>1, <1>3 DEF Joins, Back
  <2>2. k = 1
    BY <2>1 DEF Back
  <2> QED  BY <2>1, <2>2 DEF Nth
<1>4. CASE ~Idle(p)
  <2>1. PICK d : /\ d = q.queue /\ ~Idle(q) /\ q.pending.msg = p.pending.msg
                 /\ \E s \in Seqs : d = Append(c, [seq |-> s, msg |-> m])
    BY <1>1, <1>4 DEF Joins, Idle
  <2>2. PICK e : d = Append(c, e) /\ e.msg = m
    <3>1. PICK s \in Seqs : d = Append(c, [seq |-> s, msg |-> m])
      BY <2>1
    <3> QED  BY <3>1
  <2>3. d \in Seq(Entries)
    BY <2>1 DEF Records
  <2>4. Len(d) = n + 1 /\ d[n + 1] = e /\ \A i \in 1 .. n : d[i] = c[i]
    BY <1>1, <1>2, <2>2
  <2>5. b = 1 + n /\ k = n + 2
    BY <1>1, <1>2, <1>4, <2>1, <2>4 DEF Back
  <2>6. Nth(q, k) = m
    <3>1. k # 1 /\ k - 1 = n + 1
      BY <1>2, <2>5
    <3> QED  BY <2>1, <2>2, <2>4, <3>1 DEF Nth
  <2>7. ASSUME NEW j \in 1 .. b  PROVE Nth(q, j) = Nth(p, j)
    <3>1. CASE j = 1
      BY <2>1, <3>1 DEF Nth
    <3>2. CASE j # 1
      <4>1. j - 1 \in 1 .. n
        BY <1>2, <2>5, <3>2
      <4> QED  BY <1>1, <2>1, <2>4, <3>2, <4>1 DEF Nth
    <3> QED  BY <3>1, <3>2
  <2> QED  BY <1>2, <2>1, <2>5, <2>6, <2>7
<1> QED  BY <1>3, <1>4

LEMMA LineJoins ==
  ASSUME NEW p \in Records, NEW q \in Records, NEW a, NEW h, NEW w, NEW w2, NEW box, NEW left,
         NEW left2 \in SUBSET left, Lined(a, p, w, box, left),
         NEW m \in left, m \in box, m \notin left2, Joins(p, q, m),
         Results(p, q, w, w2, {}, box)
  PROVE  Lined(Append(a, m), q, w2, box, left2) /\ Serves(a, h, w, Append(a, m), h, w2, box)
<1>1. PICK b, k, l : b = Back(p) /\ k = Back(q) /\ l = Len(a)
  OBVIOUS
<1>2. /\ a \in Seq(box) /\ l \in Nat /\ DOMAIN a = 1 .. l
      /\ \A j \in 1 .. b : a[l - b + j] = Nth(p, j)
      /\ \A i, j \in 1 .. l : a[i] = a[j] => i = j
      /\ \A i \in 1 .. l : a[i] \in box /\ (w[a[i]] = "open" <=> i > l - b)
  BY <1>1, LinedIs
<1>3. /\ b <= l /\ \A x : x \in InHand(p) <=> \E i \in 1 .. l : i > l - b /\ a[i] = x
      /\ \A x \in box : x \in InHand(p) <=> w[x] = "open"
  BY <1>1, HandIsOpen
<1>4. Idle(p) => p.queue = <<>>
  BY DEF Lined
<1>5. /\ b \in Nat /\ k = b + 1 /\ ~Idle(q) /\ Nth(q, k) = m
      /\ \A j \in 1 .. b : Nth(q, j) = Nth(p, j)
  BY <1>1, <1>4, BackOfJoined
<1>6. /\ \A i \in 1 .. l : a[i] \notin left
      /\ \A x \in box : w[x] # "none" => \E i \in 1 .. l : a[i] = x
  BY <1>2 DEF Lined
<1>7. w[m] = "none" /\ \A i \in 1 .. l : a[i] # m
  BY <1>6
<1>8. PICK c : c = Append(a, m)
  OBVIOUS
<1>9. PICK n \in Nat : n = l + 1
  BY <1>2
<1>10. /\ c \in Seq(box) /\ Len(c) = n /\ DOMAIN c = 1 .. n
       /\ c[n] = m /\ \A i \in 1 .. l : c[i] = a[i]
  BY <1>1, <1>2, <1>8, <1>9, AppendProperties
<1>11. n - k = l - b /\ k <= n
  BY <1>2, <1>3, <1>5, <1>9
<1>12. \A j \in 1 .. k : c[n - k + j] = Nth(q, j)
  <2>1. ASSUME NEW j \in 1 .. k  PROVE c[n - k + j] = Nth(q, j)
    <3>1. CASE j = k
      <4>1. n - k + j = n
        BY <1>5, <1>9, <3>1
      <4> QED  BY <1>5, <1>10, <3>1, <4>1
    <3>2. CASE j # k
      <4>1. j \in 1 .. b /\ l - b + j \in 1 .. l
        BY <1>2, <1>3, <1>5, <3>2
      <4> QED  BY <1>2, <1>5, <1>10, <1>11, <4>1
    <3> QED  BY <3>1, <3>2
  <2> QED  BY <2>1
<1>13. \A x : x \in InHand(q) <=> \E i \in 1 .. n : i > n - k /\ c[i] = x
  <2>1. Ending(c, q, {}, k, n)
    BY <1>12 DEF Ending
  <2>2. k = Back(q) /\ k <= n /\ (Idle(q) => q.queue = <<>>)
    BY <1>1, <1>5, <1>11
  <2>3. k \in Nat /\ \A x : x \in InHand(q) <=> \E i \in 1 .. n : i > n - k /\ c[i] = x
    BY <2>1, <2>2, HandIsTheEnd
  <2> QED  BY <2>3
<1>14. \A x : x \in InHand(q) <=> x = m \/ x \in InHand(p)
  <2>1. \A i : i \in 1 .. n <=> i \in 1 .. l \/ i = n
    BY <1>2, <1>9
  <2>2. n > n - k
    BY <1>5, <1>9
  <2> QED  BY <1>3, <1>10, <1>11, <1>13, <2>1, <2>2
<1>15. \A x \in box : w2[x] = IF x = m THEN "open" ELSE w[x]
  BY <1>3, <1>14 DEF Results
<1>16. \A i, j \in 1 .. n : c[i] = c[j] => i = j
  <2>1. \A i \in 1 .. n : i \in 1 .. l \/ i = n
    BY <1>2, <1>9
  <2> QED  BY <1>2, <1>7, <1>10, <2>1
<1>17. \A i \in 1 .. n : c[i] \notin left2
  <2>1. \A i \in 1 .. n : i \in 1 .. l \/ i = n
    BY <1>2, <1>9
  <2> QED  BY <1>6, <1>10, <2>1
<1>18. \A i \in 1 .. n : w2[c[i]] = "open" <=> i > n - k
  <2>1. ASSUME NEW i \in 1 .. n  PROVE w2[c[i]] = "open" <=> i > n - k
    <3>1. CASE i = n
      BY <1>5, <1>9, <1>10, <1>15, <3>1
    <3>2. CASE i # n
      <4>1. i \in 1 .. l
        BY <1>2, <1>9, <3>2
      <4>2. w2[c[i]] = w[a[i]]
        BY <1>2, <1>7, <1>10, <1>15, <4>1
      <4> QED  BY <1>2, <1>11, <4>1, <4>2
    <3> QED  BY <3>1, <3>2
  <2> QED  BY <2>1
<1>19. \A x \in box : w2[x] # "none" => \E i \in 1 .. n : c[i] = x
  <2>1. \A i \in 1 .. l : i \in 1 .. n
    BY <1>2, <1>9
  <2>2. n \in 1 .. n
    BY <1>9, <1>2
  <2> QED  BY <1>6, <1>10, <1>15, <2>1, <2>2
<1>20. Lined(c, q, w2, box, left2)
  BY <1>1, <1>5, <1>10, <1>11, <1>12, <1>16, <1>17, <1>18, <1>19 DEF Lined
<1> QED  BY <1>7, <1>8, <1>15, <1>20 DEF Serves

-----------------------------------------------------------------------------
(* A turn of a session is a step of its service.                            *)
LEMMA TurnServes ==
  ASSUME NEW e \in Ends, NEW p \in Records, NEW q \in Records, p = peer[e],
         Lined(accepted[e], p, outcome, Outbox[e], todo[e]), todo'[e] \subseteq todo[e],
         Turns(e, p, q), NEW h,
         \A m \in Outbox[e] : outcome'[m] = "acked" /\ m \in Unicasts(e)' => m \in h
  PROVE  /\ Lined(accepted'[e], q, outcome', Outbox[e], todo'[e])
         /\ Serves(accepted[e], h, outcome, accepted'[e], h, outcome', Outbox[e])
<1>1. PICK a, a2, w, w2, left, box :
         /\ a = accepted[e] /\ a2 = accepted'[e] /\ w = outcome /\ w2 = outcome'
         /\ left = todo[e] /\ box = Outbox[e]
  OBVIOUS
<1>2. PICK left2 \in SUBSET left : left2 = todo'[e]
  BY <1>1
<1>3. Lined(a, p, w, box, left) /\ box \subseteq Msgs
  BY <1>1, EndsAssumption
<1>4. \A done : Settles(p, q, done) => Results(p, q, w, w2, done, box)
  BY <1>1, <1>3 DEF Settles, Results
<1>5. SUFFICES Lined(a2, q, w2, box, left2) /\ Serves(a, h, w, a2, h, w2, box)
  BY <1>1, <1>2
<1>6. CASE /\ Stays(p, q) /\ a2 = a
           /\ Settles(p, q, {}) \/ \A m \in Msgs : w2[m] = w[m]
  <2>1. Results(p, q, w, w2, {}, box) \/ \A m \in box : w2[m] = w[m]
    BY <1>3, <1>4, <1>6
  <2> QED  BY <1>3, <1>6, <2>1, LineStays
<1>7. CASE Advances(p, q) /\ a2 = a /\ \E done \in {{}, {p.pending.msg}} : Settles(p, q, done)
  <2>1. PICK done : Settles(p, q, done) /\ (done = {} \/ done = {p.pending.msg})
    BY <1>7
  <2>2. Results(p, q, w, w2, done, box)
    BY <1>4, <2>1
  <2>3. done = {} \/ (done = {p.pending.msg} /\ p.pending.msg \in h)
    <3>1. SUFFICES ASSUME done = {p.pending.msg}  PROVE p.pending.msg \in h
      BY <2>1
    <3>2. PICK b, l, k : b = Back(p) /\ l = Len(a) /\ k = Back(q)
      OBVIOUS
    <3>3. /\ l \in Nat /\ DOMAIN a = 1 .. l
          /\ \A j \in 1 .. b : a[l - b + j] = Nth(p, j)
          /\ \A i \in 1 .. l : a[i] \in box
      BY <1>3, <3>2, LinedIs
    <3>4. b <= l /\ b \in Nat
      BY <1>3, <3>2, HandIsOpen
    <3>5. b = k + 1 /\ k \in Nat
      BY <1>7, <3>2, BackOfAdvanced
    <3>6. PICK i \in 1 .. l : i = l - b + 1
      BY <3>3, <3>4, <3>5
    <3>7. 1 \in 1 .. b
      BY <3>4, <3>5
    <3>8. a[i] = p.pending.msg
      BY <3>3, <3>6, <3>7 DEF Nth
    <3>9. p.pending.msg \in box /\ p.pending.msg \in Unicasts(e)'
      BY <1>1, <1>7, <3>3, <3>8 DEF Unicasts
    <3>10. w2[p.pending.msg] = "acked"
      BY <2>2, <3>1, <3>9 DEF Results
    <3> QED  BY <1>1, <3>9, <3>10
  <2> QED  BY <1>3, <1>7, <2>2, <2>3, LineAdvances
<1>8. CASE Clears(q) /\ a2 = a /\ Settles(p, q, {})
  BY <1>3, <1>4, <1>8, LineClears
<1>9. CASE \E m \in left \cap box :
             Joins(p, q, m) /\ a2 = Append(a, m) /\ Settles(p, q, {}) /\ m \notin left2
  <2>1. PICK m \in left : /\ m \in box /\ Joins(p, q, m) /\ a2 = Append(a, m)
                          /\ Settles(p, q, {}) /\ m \notin left2
    BY <1>9
  <2>2. Results(p, q, w, w2, {}, box)
    BY <1>4, <2>1
  <2>3. Lined(Append(a, m), q, w2, box, left2) /\ Serves(a, h, w, Append(a, m), h, w2, box)
    BY <1>3, <2>1, <2>2, LineJoins
  <2> QED  BY <2>1, <2>3
<1> QED  BY <1>1, <1>2, <1>6, <1>7, <1>8, <1>9 DEF Turns

(* Data that waits to be keyed, or may be heard, is of a unicast that is no *)
(* longer behind another.                                                   *)
Reached(a, p, F, box) ==
  \A f \in F : f.kind = "DATA" /\ f.msg \in box =>
    \E i \in 1 .. (Len(a) - Len(p.queue)) : a[i] = f.msg

LEMMA TurnReaches ==
  ASSUME NEW p \in Records, NEW q \in Records, NEW a, NEW box, NEW w, NEW left,
         Lined(a, p, w, box, left), NEW a2,
         \/ a2 = a /\ (Stays(p, q) \/ Advances(p, q) \/ Clears(q))
         \/ \E m \in box : Joins(p, q, m) /\ a2 = Append(a, m)
  PROVE  \A i \in 1 .. (Len(a) - Len(p.queue)) :
           i \in 1 .. (Len(a2) - Len(q.queue)) /\ a2[i] = a[i]
<1>1. PICK c, d : c = p.queue /\ d = q.queue
  OBVIOUS
<1>2. PICK n, o, l : n = Len(c) /\ o = Len(d) /\ l = Len(a)
  OBVIOUS
<1>3. c \in Seq(Entries) /\ d \in Seq(Entries) /\ n \in Nat /\ o \in Nat
  BY <1>1, <1>2 DEF Records
<1>4. l \in Nat /\ a \in Seq(box)
  BY <1>2 DEF Lined
<1>5. CASE a2 = a /\ (Stays(p, q) \/ Advances(p, q) \/ Clears(q))
  <2>1. o <= n
    <3>1. CASE Stays(p, q)
      BY <1>1, <1>2, <1>3, <3>1 DEF Stays
    <3>2. CASE Clears(q)
      BY <1>1, <1>2, <1>3, <3>2 DEF Clears
    <3>3. CASE Advances(p, q)
      <4>1. d = <<>> \/ (c # <<>> /\ d = Tail(c))
        BY <1>1, <3>3 DEF Advances
      <4>2. c # <<>> => Len(Tail(c)) = n - 1
        BY <1>2, <1>3, HeadTailProperties
      <4> QED  BY <1>2, <1>3, <4>1, <4>2
    <3> QED  BY <1>5, <3>1, <3>2, <3>3
  <2>2. \A i \in 1 .. (l - n) : i \in 1 .. (l - o)
    BY <1>3, <1>4, <2>1
  <2> QED  BY <1>1, <1>2, <1>5, <2>2
<1>6. CASE \E m \in box : Joins(p, q, m) /\ a2 = Append(a, m)
  <2>1. PICK m \in box : Joins(p, q, m) /\ a2 = Append(a, m)
    BY <1>6
  <2>2. Len(a2) = l + 1 /\ \A i \in 1 .. l : a2[i] = a[i]
    BY <1>2, <1>4, <2>1, AppendProperties
  <2>3. o = n \/ o = n + 1
    <3>1. d = c \/ \E s \in Seqs : d = Append(c, [seq |-> s, msg |-> m])
      BY <1>1, <2>1 DEF Joins
    <3>2. CASE d = c
      BY <1>2, <3>2
    <3>3. CASE d # c
      <4>1. PICK e : d = Append(c, e)
        BY <3>1, <3>3
      <4> QED  BY <1>2, <1>3, <4>1, AppendProperties
    <3> QED  BY <3>2, <3>3
  <2>4. \A i \in 1 .. (l - n) : i \in 1 .. (l + 1 - o) /\ i \in 1 .. l
    BY <1>3, <1>4, <2>3
  <2> QED  BY <1>1, <1>2, <2>2, <2>4
<1> QED  BY <1>5, <1>6

(* The one in flight is the first that is not behind another.               *)
LEMMA FlightReaches ==
  ASSUME NEW p \in Records, ~Idle(p), NEW a, NEW w, NEW box, NEW left, Lined(a, p, w, box, left)
  PROVE  \E i \in 1 .. (Len(a) - Len(p.queue)) : a[i] = p.pending.msg
<1>1. PICK b, l, n : b = Back(p) /\ l = Len(a) /\ n = Len(p.queue)
  OBVIOUS
<1>2. l \in Nat /\ \A j \in 1 .. b : a[l - b + j] = Nth(p, j)
  BY <1>1, LinedIs
<1>3. b <= l /\ n \in Nat /\ b = 1 + n
  BY <1>1 DEF Lined, Back, Records
<1>4. PICK i \in 1 .. (l - n) : i = l - b + 1
  BY <1>2, <1>3
<1>5. 1 \in 1 .. b
  BY <1>3
<1>6. a[i] = p.pending.msg
  BY <1>2, <1>4, <1>5 DEF Nth
<1> QED  BY <1>1, <1>4, <1>6

-----------------------------------------------------------------------------
(* What the service is for an end: nothing but what its users ask for is    *)
(* said reliably by it.                                                     *)
OnlyAsked(e) ==
  /\ Outbox[e] \cap Broadcasts[e] = {}
  /\ IF e = Gateway THEN Answerable = {} ELSE BootHello[0] = NoMsg

InOrder(e) ==
  /\ Lined(accepted[e], peer[e], outcome, Outbox[e], todo[e])
  /\ Reached(accepted[e], peer[e], txq[e] \cup air[Other(e)], Outbox[e])

LEMMA MovesTurn ==
  ASSUME Sane, Asked, NEW e \in Ends, OnlyAsked(e), MaxRestarts[e] = 0, Moves(e)
  PROVE  /\ Turns(e, peer[e], peer'[e]) /\ Speech(e)
         /\ air'[Other(e)] \subseteq air[Other(e)] \cup txq[e]
<1>1. CASE \E m \in todo[e] : Submit(e, m)
  BY <1>1, TurnOfSubmit
<1>2. CASE \/ \E m \in todo[e] : Broadcast(e, m)
           \/ \E f \in txq[e], arrives \in BOOLEAN : Key(e, f, arrives) \/ Discard(e, f)
  BY <1>2, TurnOfOthers
<1>3. CASE \E f \in air[e], reply \in Msgs \cup {NoMsg} :
             /\ reply # NoMsg => e = Gateway
             /\ reply \in Answers(e, HandleRf(e, f).deliver) /\ ReceiveAs(e, f, reply)
  <2>1. PICK f \in air[e], reply \in Msgs \cup {NoMsg} :
          /\ reply # NoMsg => e = Gateway
          /\ reply \in Answers(e, HandleRf(e, f).deliver) /\ ReceiveAs(e, f, reply)
    BY <1>3
  <2>2. reply = NoMsg
    <3>1. SUFFICES ASSUME reply # NoMsg  PROVE FALSE
      OBVIOUS
    <3>2. PICK m : m = HandleRf(e, f).deliver
      OBVIOUS
    <3>3. e = Gateway /\ m \in Hellos /\ reply \in Replies[m]
      BY <2>1, <3>1, <3>2 DEF Answers
    <3> QED  BY <3>3 DEF OnlyAsked, Answerable
  <2> QED  BY <2>1, <2>2, TurnOfReceive
<1>4. CASE \E n \in 0 .. Len(peer[e].reasm), what \in {"quiet", "timeout", "idle"} :
             TickAs(e, n, what)
  BY <1>4, TurnOfTick
<1>5. CASE Restart(e)
  BY <1>5, EndsAssumption DEF Restart, Sane, Shape, Spent
<1> QED  BY <1>1, <1>2, <1>3, <1>4, <1>5 DEF Moves

LEMMA OwnStep ==
  ASSUME Sane, Sane', Asked, NEW e \in Ends, OnlyAsked(e), MaxRestarts[e] = 0, Moves(e),
         InOrder(e), NEW h,
         \A m \in Outbox[e] : outcome'[m] = "acked" /\ m \in Unicasts(e)' => m \in h
  PROVE  InOrder(e)' /\ Serves(accepted[e], h, outcome, accepted'[e], h, outcome', Outbox[e])
<1>1. /\ Turns(e, peer[e], peer'[e]) /\ Speech(e)
      /\ air'[Other(e)] \subseteq air[Other(e)] \cup txq[e]
  BY MovesTurn
<1>2. todo'[e] \subseteq todo[e]
  BY GoneKept
<1>3. PICK p, q, a, a2, box : /\ p = peer[e] /\ q = peer'[e] /\ a = accepted[e]
                              /\ a2 = accepted'[e] /\ box = Outbox[e]
  OBVIOUS
<1>4. p \in Records /\ q \in Records
  BY <1>3 DEF Sane, Shape
<1>5. Lined(a, p, outcome, box, todo[e]) /\ Reached(a, p, txq[e] \cup air[Other(e)], box)
  BY <1>3 DEF InOrder
<1>6. /\ Lined(a2, q, outcome', box, todo'[e])
      /\ Serves(a, h, outcome, a2, h, outcome', box)
  BY <1>1, <1>2, <1>3, <1>4, <1>5, TurnServes
<1>7. \/ a2 = a /\ (Stays(p, q) \/ Advances(p, q) \/ Clears(q))
      \/ \E m \in box : Joins(p, q, m) /\ a2 = Append(a, m)
  BY <1>1, <1>3 DEF Turns
<1>8. \A i \in 1 .. (Len(a) - Len(p.queue)) :
        i \in 1 .. (Len(a2) - Len(q.queue)) /\ a2[i] = a[i]
  BY <1>4, <1>5, <1>7, TurnReaches
<1>9. PICK F, F2 : F = txq[e] \cup air[Other(e)] /\ F2 = txq'[e] \cup air'[Other(e)]
  OBVIOUS
<1>10. PICK k, k2 : k = Len(a) - Len(p.queue) /\ k2 = Len(a2) - Len(q.queue)
  OBVIOUS
<1>11. ASSUME NEW f \in F2, f.kind = "DATA", f.msg \in box
       PROVE  \E i \in 1 .. k2 : a2[i] = f.msg
  <2>1. CASE f \in F
    <3>1. PICK i \in 1 .. k : a[i] = f.msg
      BY <1>5, <1>9, <1>10, <1>11, <2>1 DEF Reached
    <3> QED  BY <1>8, <1>10, <3>1
  <2>2. CASE f \notin F
    <3>1. f.msg = q.pending.msg /\ ~Idle(q)
      BY <1>1, <1>3, <1>9, <1>11, <2>2 DEF Speech, OnlyAsked, Idle
    <3> QED  BY <1>4, <1>6, <1>10, <3>1, FlightReaches
  <2> QED  BY <2>1, <2>2
<1>12. Reached(a2, q, F2, box)
  BY <1>10, <1>11 DEF Reached
<1> QED  BY <1>3, <1>6, <1>9, <1>12 DEF InOrder

-----------------------------------------------------------------------------
(* What the other end does is for this end's service nothing, or a message  *)
(* heard.                                                                   *)
LEMMA HandIsMine ==
  ASSUME NEW p, NEW M, Good(p, M \X Seqs, Pairs)
  PROVE  InHand(p) \subseteq M
<1>1. ~Idle(p) => p.pending.msg \in M
  BY DEF Good, Sends, Entitled, Idle
<1>2. \A i \in DOMAIN p.queue : p.queue[i].msg \in M
  BY DEF Good, Sends, Entitled
<1> QED  BY <1>1, <1>2 DEF InHand

LEMMA MovesConclude ==
  ASSUME Sane, NEW x \in Ends, Moves(x)
  PROVE  \/ outcome' = outcome
         \/ \E done : /\ Conclude(x, peer'[x], done)
                      /\ done = {} \/ \E f \in air[x] : done = HandleRf(x, f).done
<1>0. Shape
  BY DEF Sane
<1>1. \A q : peer' = [peer EXCEPT ![x] = q] => peer'[x] = q
  BY <1>0 DEF Shape
<1>2. CASE \E m \in todo[x] : Submit(x, m)
  <2>1. \E q : Conclude(x, q, {}) /\ peer' = [peer EXCEPT ![x] = q]
    BY <1>2 DEF Submit
  <2> QED  BY <1>1, <2>1
<1>3. CASE \/ \E m \in todo[x] : Broadcast(x, m)
           \/ \E f \in txq[x], arrives \in BOOLEAN : Key(x, f, arrives) \/ Discard(x, f)
  BY <1>3 DEF Broadcast, Key, Discard, history
<1>4. CASE \E f \in air[x], reply \in Msgs \cup {NoMsg} :
             /\ reply # NoMsg => x = Gateway
             /\ reply \in Answers(x, HandleRf(x, f).deliver) /\ ReceiveAs(x, f, reply)
  <2>1. PICK f \in air[x], reply \in Msgs \cup {NoMsg} : ReceiveAs(x, f, reply)
    BY <1>4
  <2>2. \E q : Conclude(x, q, HandleRf(x, f).done) /\ peer' = [peer EXCEPT ![x] = q]
    BY <2>1 DEF ReceiveAs
  <2> QED  BY <1>1, <2>2
<1>5. CASE \E n \in 0 .. Len(peer[x].reasm), what \in {"quiet", "timeout", "idle"} :
             TickAs(x, n, what)
  <2>1. PICK n \in 0 .. Len(peer[x].reasm), what \in {"quiet", "timeout", "idle"} :
          TickAs(x, n, what)
    BY <1>5
  <2>2. \E q : Conclude(x, q, {}) /\ peer' = [peer EXCEPT ![x] = q]
    BY <2>1 DEF TickAs
  <2> QED  BY <1>1, <2>2
<1>6. CASE Restart(x)
  <2>1. \E q : Conclude(x, q, {}) /\ peer' = [peer EXCEPT ![x] = q]
    BY <1>6 DEF Restart
  <2> QED  BY <1>1, <2>1
<1> QED  BY <1>2, <1>3, <1>4, <1>5, <1>6 DEF Moves

LEMMA OutcomeApart ==
  ASSUME MessagesApart, Sane, NEW x \in Ends, Moves(x), Belongs(x), Belongs(Other(x)),
         NEW m \in Mine(Other(x))
  PROVE  outcome'[m] = outcome[m]
<1>1. PICK M : M = Mine(x)
  OBVIOUS
<1>2. m \notin M /\ m \in Msgs /\ M \in SUBSET Msgs
  BY <1>1, MineAre, EndsAre, EndsAssumption DEF MessagesApart, Ends, Other
<1>3. Good(peer[x], M \X Seqs, Pairs) /\ Good(peer'[x], M \X Seqs, Pairs)
  <2>1. Belongs(x)'
    BY BelongsMove
  <2> QED  BY <1>1, <2>1 DEF Belongs, Fine
<1>4. InHand(peer[x]) \subseteq M /\ InHand(peer'[x]) \subseteq M
  <2>1. PICK p, q : p = peer[x] /\ q = peer'[x]
    OBVIOUS
  <2>2. InHand(p) \subseteq M /\ InHand(q) \subseteq M
    BY <1>3, <2>1, HandIsMine
  <2> QED  BY <2>1, <2>2
<1>5. ASSUME NEW done, Conclude(x, peer'[x], done),
             done = {} \/ \E f \in air[x] : done = HandleRf(x, f).done
      PROVE  outcome'[m] = outcome[m]
  <2>1. m \notin done
    <3>1. SUFFICES ASSUME NEW f \in air[x], done = HandleRf(x, f).done  PROVE m \notin done
      BY <1>5
    <3>2. Carried(f, Pairs)
      <4>1. Carries(air[Other(Other(x))], Pairs)
        BY EndsAre DEF Sane, Fine
      <4> QED  BY <4>1, EndsAre DEF Carries
    <3>3. OnReceive(peer[x], f).done \subseteq M
      BY <1>2, <1>3, <3>2, DoneIsSent
    <3> QED  BY <1>2, <3>1, <3>3 DEF HandleRf
  <2>2. m \notin InHand(peer[x]) /\ m \notin InHand(peer'[x])
    BY <1>2, <1>4
  <2> QED  BY <1>2, <1>5, <2>1, <2>2 DEF Conclude
<1> QED  BY <1>5, MovesConclude

LEMMA DeliveredIsCarried ==
  ASSUME NEW p, NEW A, Good(p, A, Pairs), NEW f, Carried(f, Pairs),
         NEW d \in Msgs, d = OnReceive(p, f).deliver
  PROVE  f.kind = "DATA" /\ d = f.msg
<1>1. f.kind \in {"ACK", "DATA"}
  BY DEF Carried, Frames
<1>2. d # NoMsg /\ d # Garbled
  BY MsgsAssumption
<1>3. /\ f.kind = "ACK" => d = NoMsg
      /\ f.kind = "DATA" => \E c, after : Brings(c, f, after, d)
  BY SeenOfReceive
<1>4. f.kind = "DATA"
  BY <1>1, <1>2, <1>3
<1>5. PICK c, after : Brings(c, f, after, d)
  BY <1>3, <1>4
<1> QED  BY <1>2, <1>4, <1>5 DEF Brings

(* What the other end is given is the oldest that is not concluded.         *)
LEMMA ElderThanReached ==
  ASSUME NEW p \in Records, NEW a, NEW w, NEW box, NEW left, Lined(a, p, w, box, left),
         NEW i \in 1 .. (Len(a) - Len(p.queue))
  PROVE  i \in DOMAIN a /\ Elder(a, w, i)
<1>1. PICK b, l, n : b = Back(p) /\ l = Len(a) /\ n = Len(p.queue)
  OBVIOUS
<1>2. /\ l \in Nat /\ DOMAIN a = 1 .. l
      /\ \A j \in 1 .. l : w[a[j]] = "open" <=> j > l - b
  BY <1>1, LinedIs
<1>3. n \in Nat /\ (b = 0 \/ b = 1 + n)
  BY <1>1 DEF Back, Records
<1>4. i \in 1 .. (l - n)
  BY <1>1
<1>5. i \in 1 .. l /\ \A j \in 1 .. (i - 1) : j \in 1 .. l /\ ~(j > l - b)
  BY <1>2, <1>3, <1>4
<1> QED  BY <1>2, <1>5 DEF Elder

LEMMA OthersAccepted ==
  ASSUME Asked, NEW x \in Ends, Moves(x)
  PROVE  accepted'[Other(x)] = accepted[Other(x)]
<1>1. accepted' = accepted \/ \E c : accepted' = [accepted EXCEPT ![x] = c]
  BY DEF Moves, Submit, Broadcast, Key, Discard, ReceiveAs, TickAs, Restart, history
<1> QED  BY <1>1, EndsAre DEF Asked

LEMMA HeardIs ==
  ASSUME Sane, NEW x \in Ends, Moves(x)
  PROVE  \/ Heard(x)' = Heard(x)
         \/ \E f \in air[x] : \E d : /\ d = OnReceive(peer[x], f).deliver /\ d # NoMsg
                                     /\ Heard(x)' = Heard(x) \cup {d}
<1>1. CASE Speaks(x)
  BY <1>1, MovesLeave DEF Heard
<1>2. CASE ~Speaks(x)
  <2>1. PICK f \in air[x], reply \in Msgs \cup {NoMsg} : ReceiveAs(x, f, reply)
    BY <1>2 DEF Moves, Speaks
  <2>2. PICK d : d = HandleRf(x, f).deliver
    OBVIOUS
  <2>3. /\ Heard(x) \subseteq Heard(x)' /\ (d = NoMsg \/ d \in Heard(x)')
        /\ Heard(x)' \subseteq Heard(x) \cup ({d} \ {NoMsg})
    BY <2>1, <2>2, HeardMore
  <2>4. d = OnReceive(peer[x], f).deliver
    BY <2>2 DEF HandleRf
  <2>5. CASE d = NoMsg
    BY <2>3, <2>5
  <2>6. CASE d # NoMsg
    <3>1. Heard(x)' = Heard(x) \cup {d}
      BY <2>3, <2>6
    <3> QED  BY <2>4, <2>6, <3>1
  <2> QED  BY <2>5, <2>6
<1> QED  BY <1>1, <1>2

LEMMA OtherStep ==
  ASSUME MessagesApart, Sane, Sane', Asked, NEW e \in Ends, NEW x, x = Other(e), Moves(x),
         Belongs(x), Belongs(e), InOrder(e),
         NEW h, h = Heard(x) \cap Outbox[e], NEW h2, h2 = Heard(x)' \cap Outbox[e]
  PROVE  /\ InOrder(e)'
         /\ Serves(accepted[e], h, outcome, accepted'[e], h2, outcome', Outbox[e])
<1>0. x \in Ends /\ x # e /\ Other(x) = e
  BY EndsAre
<1>1. /\ peer'[e] = peer[e] /\ txq'[e] = txq[e] /\ air'[x] \subseteq air[x]
      /\ accepted'[e] = accepted[e] /\ todo'[e] \subseteq todo[e]
  BY <1>0, MovesLeave, OthersAccepted, GoneKept
<1>2. PICK a, p, w, w2, box, left :
         /\ a = accepted[e] /\ p = peer[e] /\ w = outcome /\ w2 = outcome'
         /\ box = Outbox[e] /\ left = todo[e]
  OBVIOUS
<1>3. PICK left2 \in SUBSET left : left2 = todo'[e]
  BY <1>1, <1>2
<1>4. p \in Records /\ box \subseteq Msgs
  BY <1>2, EndsAssumption DEF Sane, Shape
<1>5. \A m \in box : w2[m] = w[m]
  <2>1. \A m \in Mine(Other(x)) : outcome'[m] = outcome[m]
    BY <1>0, OutcomeApart
  <2>2. box \subseteq Mine(e)
    BY <1>2, MineAre
  <2> QED  BY <1>0, <1>2, <2>1, <2>2
<1>6. PICK F, F2 : F = txq[e] \cup air[x] /\ F2 = txq'[e] \cup air'[x]
  OBVIOUS
<1>7. Lined(a, p, w, box, left) /\ Reached(a, p, F, box)
  BY <1>2, <1>6 DEF InOrder
<1>8. Lined(a, p, w2, box, left2) /\ Serves(a, h, w, a, h, w2, box)
  <2>1. Stays(p, p)
    BY DEF Stays
  <2> QED  BY <1>4, <1>5, <1>7, <2>1, LineStays
<1>9. Reached(a, p, F2, box)
  BY <1>1, <1>6, <1>7 DEF Reached
<1>10. InOrder(e)'
  BY <1>1, <1>2, <1>3, <1>6, <1>8, <1>9 DEF InOrder
<1>11. CASE Heard(x)' = Heard(x)
  BY <1>1, <1>2, <1>8, <1>10, <1>11
<1>12. CASE Heard(x)' # Heard(x)
  <2>0. PICK f \in air[x] : \E d : /\ d = OnReceive(peer[x], f).deliver /\ d # NoMsg
                                   /\ Heard(x)' = Heard(x) \cup {d}
    BY <1>0, <1>12, HeardIs
  <2>1. PICK d : /\ d = OnReceive(peer[x], f).deliver /\ d # NoMsg
                 /\ Heard(x)' = Heard(x) \cup {d}
    BY <2>0
  <2>2. CASE h2 = h
    BY <1>1, <1>2, <1>8, <1>10, <2>2
  <2>3. CASE h2 # h
    <3>1. d \in box /\ d \notin h /\ h2 = h \cup {d} /\ d \in Msgs
      BY <1>2, <1>4, <2>1, <2>3
    <3>2. Good(peer[x], Pairs, Pairs) /\ Carried(f, Pairs)
      BY <1>0 DEF Sane, Fine, Carries
    <3>3. f.kind = "DATA" /\ d = f.msg
      BY <2>1, <3>1, <3>2, DeliveredIsCarried
    <3>4. PICK i \in 1 .. (Len(a) - Len(p.queue)) : a[i] = d
      BY <1>6, <1>7, <2>1, <3>1, <3>3 DEF Reached
    <3>5. i \in DOMAIN a /\ Elder(a, w, i)
      BY <1>4, <1>7, ElderThanReached
    <3>6. Serves(a, h, w, a, h2, w2, box)
      BY <1>5, <3>1, <3>4, <3>5 DEF Serves
    <3> QED  BY <1>1, <1>2, <1>10, <3>6
  <2> QED  BY <2>2, <2>3
<1> QED  BY <1>11, <1>12

-----------------------------------------------------------------------------
(* A sender that concludes "acknowledged" is right.                         *)
Acknowledged(e) == \A m \in Unicasts(e) : outcome[m] = "acked" => m \in Heard(Other(e))

Ordered(e) == Sane /\ Asked /\ (\A x \in Ends : Belongs(x)) /\ InOrder(e)

LEMMA KeptInit ==
  ASSUME MessagesApart, NEW e \in Ends, OnlyAsked(e), Init, Sane
  PROVE  /\ Ordered(e) /\ accepted[e] = <<>> /\ Heard(Other(e)) = {}
         /\ \A m \in Outbox[e] : outcome[m] = "none"
<1>1. Booted(e, 0) = Nothing(NewPeer)
  <2>1. e = Station => BootHello[0] = NoMsg
    BY EndsAssumption DEF OnlyAsked
  <2> QED  BY <2>1 DEF Booted
<1>2. Nothing(NewPeer).peer = NewPeer /\ Nothing(NewPeer).out = {}
  BY DEF Nothing
<1>3. peer[e] = NewPeer /\ txq[e] = {} /\ air[Other(e)] = {} /\ accepted[e] = <<>>
  BY <1>1, <1>2, EndsAre DEF Init, BootSaid
<1>4. Heard(Other(e)) = {}
  <2>1. delivered[Other(e)] = <<>>
    BY EndsAre DEF Init
  <2>2. \A c : c = <<>> => {c[i].msg : i \in DOMAIN c} = {}
    OBVIOUS
  <2> QED  BY <2>1, <2>2 DEF Heard
<1>5. ASSUME NEW m \in Outbox[e]  PROVE outcome[m] = "none"
  <2>1. m \in Msgs /\ m # NoMsg /\ m \in Mine(e)
    BY MineAre, EndsAssumption, MsgsAssumption
  <2>2. m # BootHello[0]
    <3>1. CASE e = Station
      BY <2>1, <3>1, EndsAssumption DEF OnlyAsked
    <3>2. CASE e = Gateway
      <4>1. Station \in Ends /\ Station # Gateway /\ 0 \in 0 .. MaxRestarts[Station]
        BY EndsAssumption DEF Ends
      <4>2. BootHello[0] # NoMsg => BootHello[0] \in Mine(Station)
        BY <4>1, MineAre
      <4> QED  BY <2>1, <3>2, <4>2 DEF MessagesApart
    <3> QED  BY <3>1, <3>2 DEF Ends
  <2> QED  BY <2>1, <2>2 DEF Init
<1>6. Lined(accepted[e], peer[e], outcome, Outbox[e], todo[e])
  <2>1. Idle(NewPeer) /\ NewPeer.queue = <<>>
    BY DEF Idle, NewPeer, NoPending
  <2>2. Back(NewPeer) = 0
    BY <2>1 DEF Back
  <2>3. PICK a, box : a = accepted[e] /\ box = Outbox[e]
    OBVIOUS
  <2>4. a \in Seq(box) /\ Len(a) = 0 /\ DOMAIN a = {}
    BY <1>3, <2>3
  <2> QED  BY <1>3, <1>5, <2>1, <2>2, <2>3, <2>4 DEF Lined
<1>7. Reached(accepted[e], peer[e], txq[e] \cup air[Other(e)], Outbox[e])
  BY <1>3 DEF Reached
<1>8. Asked /\ \A x \in Ends : Belongs(x)
  BY BelongsInit
<1> QED  BY <1>3, <1>4, <1>5, <1>6, <1>7, <1>8 DEF Ordered, InOrder

LEMMA KeptStep ==
  ASSUME MessagesApart, NEW e \in Ends, OnlyAsked(e), MaxRestarts[e] = 0, Ordered(e), Sane',
         Acknowledged(e)', Next
  PROVE  /\ Ordered(e)'
         /\ Serves(accepted[e], Heard(Other(e)) \cap Outbox[e], outcome,
                   accepted'[e], Heard(Other(e))' \cap Outbox[e], outcome', Outbox[e])
<1>1. PICK x \in Ends : Moves(x)
  BY NextMoves
<1>2. Asked' /\ (\A y \in Ends : Belongs(y))'
  <2>1. Belongs(x)' /\ Belongs(Other(x))'
    BY <1>1, EndsAre, BelongsMove DEF Ordered
  <2>2. Asked'
    BY <1>1, AskedMove DEF Ordered
  <2>3. ASSUME NEW y \in Ends  PROVE Belongs(y)'
    <3>1. y = x \/ y = Other(x)
      BY EndsAre
    <3> QED  BY <2>1, <3>1
  <2> QED  BY <2>2, <2>3
<1>3. PICK h, h2 : h = Heard(Other(e)) \cap Outbox[e] /\ h2 = Heard(Other(e))' \cap Outbox[e]
  OBVIOUS
<1>4. InOrder(e)' /\ Serves(accepted[e], h, outcome, accepted'[e], h2, outcome', Outbox[e])
  <2>1. CASE x = e
    <3>1. h2 = h
      BY <1>1, <1>3, <2>1, MovesLeave DEF Ordered
    <3>2. \A m \in Outbox[e] : outcome'[m] = "acked" /\ m \in Unicasts(e)' => m \in h
      BY <1>3, <3>1 DEF Acknowledged
    <3>3. Sane /\ Asked /\ Moves(e) /\ InOrder(e)
      BY <1>1, <2>1 DEF Ordered
    <3>4. InOrder(e)' /\ Serves(accepted[e], h, outcome, accepted'[e], h, outcome', Outbox[e])
      BY <3>2, <3>3, OwnStep
    <3> QED  BY <3>1, <3>4
  <2>2. CASE x # e
    <3>1. x = Other(e)
      BY <2>2, EndsAre
    <3>2. Sane /\ Asked /\ Belongs(x) /\ Belongs(e) /\ InOrder(e)
      BY DEF Ordered
    <3>3. h = Heard(x) \cap Outbox[e] /\ h2 = Heard(x)' \cap Outbox[e]
      BY <1>3, <3>1
    <3> QED  BY <1>1, <3>1, <3>2, <3>3, OtherStep
  <2> QED  BY <2>1, <2>2
<1> QED  BY <1>2, <1>3, <1>4 DEF Ordered

(* The step of the service, with the conclusions as the function it has.    *)
Does(a, h, c, a2, h2, c2, box) ==
  \/ a2 = a /\ h2 = h /\ c2 = c
  \/ /\ h2 = h
     /\ \E m \in box : /\ c[m] = "none" /\ a2 = Append(a, m)
                       /\ c2 = [c EXCEPT ![m] = "open"]
  \/ /\ a2 = a /\ h2 = h
     /\ c2 = [m \in box |-> IF c[m] = "open" THEN "dropped" ELSE c[m]]
  \/ /\ a2 = a /\ c2 = c
     /\ \E i \in DOMAIN a : /\ \A j \in 1 .. (i - 1) : c[a[j]] # "open"
                            /\ a[i] \notin h /\ h2 = h \cup {a[i]}
  \/ /\ a2 = a /\ h2 = h
     /\ \E i \in DOMAIN a, how \in {"acked", "dropped"} :
          /\ \A j \in 1 .. (i - 1) : c[a[j]] # "open"
          /\ c[a[i]] = "open" /\ (how = "acked" => a[i] \in h)
          /\ c2 = [c EXCEPT ![a[i]] = how]

LEMMA AsService ==
  ASSUME NEW box, NEW a \in Seq(box), NEW a2, NEW h, NEW h2, NEW w, NEW w2, NEW c, NEW c2,
         c = [m \in box |-> w[m]], c2 = [m \in box |-> w2[m]],
         Serves(a, h, w, a2, h2, w2, box)
  PROVE  Does(a, h, c, a2, h2, c2, box)
<1>1. PICK l \in Nat : l = Len(a) /\ DOMAIN a = 1 .. l
  OBVIOUS
<1>2. \A i \in 1 .. l : a[i] \in box
  BY <1>1
<1>3. ASSUME NEW i \in 1 .. l, Elder(a, w, i)
      PROVE  \A j \in 1 .. (i - 1) : c[a[j]] # "open"
  <2>1. \A j \in 1 .. (i - 1) : j \in 1 .. l
    OBVIOUS
  <2> QED  BY <1>2, <1>3, <2>1 DEF Elder
<1>4. CASE \A x \in box : w2[x] = w[x]
  BY <1>1, <1>2, <1>3, <1>4 DEF Serves, Does
<1>5. CASE /\ h2 = h
           /\ \E m \in box : /\ w[m] = "none" /\ a2 = Append(a, m)
                             /\ \A x \in box : w2[x] = IF x = m THEN "open" ELSE w[x]
  <2>1. PICK m \in box : /\ w[m] = "none" /\ a2 = Append(a, m)
                         /\ \A x \in box : w2[x] = IF x = m THEN "open" ELSE w[x]
    BY <1>5
  <2>2. c2 = [c EXCEPT ![m] = "open"]
    BY <2>1
  <2>3. c[m] = "none"
    BY <2>1
  <2> QED  BY <1>5, <2>1, <2>2, <2>3 DEF Does
<1>6. CASE /\ a2 = a /\ h2 = h
           /\ \A x \in box : w2[x] = IF w[x] = "open" THEN "dropped" ELSE w[x]
  BY <1>6 DEF Does
<1>7. CASE /\ a2 = a /\ \A x \in box : w2[x] = w[x]
           /\ \E i \in DOMAIN a : Elder(a, w, i) /\ a[i] \notin h /\ h2 = h \cup {a[i]}
  BY <1>1, <1>3, <1>7 DEF Does
<1>8. CASE /\ a2 = a /\ h2 = h
           /\ \E i \in DOMAIN a, how \in {"acked", "dropped"} :
                /\ Elder(a, w, i) /\ w[a[i]] = "open" /\ (how = "acked" => a[i] \in h)
                /\ \A x \in box : w2[x] = IF x = a[i] THEN how ELSE w[x]
  <2>1. PICK i \in 1 .. l, how \in {"acked", "dropped"} :
          /\ Elder(a, w, i) /\ w[a[i]] = "open" /\ (how = "acked" => a[i] \in h)
          /\ \A x \in box : w2[x] = IF x = a[i] THEN how ELSE w[x]
    BY <1>1, <1>8
  <2>2. a[i] \in box
    BY <1>2
  <2>3. c2 = [c EXCEPT ![a[i]] = how]
    BY <2>1, <2>2
  <2>4. c[a[i]] = "open" /\ \A j \in 1 .. (i - 1) : c[a[j]] # "open"
    BY <1>3, <2>1, <2>2
  <2> QED  BY <1>1, <1>8, <2>1, <2>3, <2>4 DEF Does
<1> QED  BY <1>4, <1>5, <1>6, <1>7, <1>8 DEF Serves

LEMMA OrderedNext ==
  ASSUME MessagesApart, NEW e \in Ends, OnlyAsked(e), MaxRestarts[e] = 0, Ordered(e), Sane',
         Acknowledged(e)', [Next]_vars
  PROVE  Ordered(e)'
<1>1. CASE Next
  BY <1>1, KeptStep
<1>2. CASE UNCHANGED vars
  <2>1. peer' = peer /\ txq' = txq /\ air' = air /\ accepted' = accepted
        /\ outcome' = outcome /\ todo' = todo
    BY <1>2 DEF vars, history
  <2>2. Asked'
    BY <2>1 DEF Ordered, Asked
  <2>3. \A x \in Ends : Belongs(x)'
    BY <2>1 DEF Ordered, Belongs, Fine
  <2>4. InOrder(e)'
    BY <2>1 DEF Ordered, InOrder
  <2> QED  BY <2>2, <2>3, <2>4 DEF Ordered
<1> QED  BY <1>1, <1>2

LEMMA DownStep ==
  ASSUME MessagesApart, OnlyAsked(Gateway), MaxRestarts[Gateway] = 0, Ordered(Gateway), Sane',
         Acknowledged(Gateway)', [Next]_vars
  PROVE  [Down!Next]_(Down!vars)
<1>1. CASE Next
  <2>1. PICK e \in Ends : e = Gateway /\ Other(e) = Station
    BY DEF Ends, Other
  <2>2. PICK box, a, a2, h, h2, w, w2 :
          /\ box = Outbox[e] /\ a = accepted[e] /\ a2 = accepted'[e]
          /\ h = Heard(Station) \cap Outbox[e] /\ h2 = Heard(Station)' \cap Outbox[e]
          /\ w = outcome /\ w2 = outcome'
    OBVIOUS
  <2>3. Serves(a, h, w, a2, h2, w2, box)
    BY <1>1, <2>1, <2>2, KeptStep
  <2>4. a \in Seq(box)
    BY <2>1, <2>2 DEF Ordered, InOrder, Lined
  <2>5. PICK c, c2 : c = [m \in box |-> w[m]] /\ c2 = [m \in box |-> w2[m]]
    OBVIOUS
  <2>6. /\ Concluded(Gateway) = c /\ Concluded(Gateway)' = c2
        /\ accepted[Gateway] = a /\ accepted[Gateway]' = a2
        /\ Heard(Station) \cap Outbox[Gateway] = h
        /\ (Heard(Station) \cap Outbox[Gateway])' = h2 /\ Outbox[Gateway] = box
    BY <2>1, <2>2, <2>5 DEF Concluded
  <2>7. Does(a, h, c, a2, h2, c2, box)
    BY <2>3, <2>4, <2>5, AsService
  <2> QED  BY <2>6, <2>7 DEF Does, Down!Next, Down!vars, Down!Accept, Down!Hear, Down!Conclude,
                             Down!Abandon, Down!Oldest, Down!Open
<1>2. CASE UNCHANGED vars
  <2>1. accepted' = accepted /\ delivered' = delivered /\ outcome' = outcome
    BY <1>2 DEF vars, history
  <2> QED  BY <2>1 DEF Down!vars, Heard, Concluded
<1> QED  BY <1>1, <1>2

LEMMA UpStep ==
  ASSUME MessagesApart, OnlyAsked(Station), MaxRestarts[Station] = 0, Ordered(Station), Sane',
         Acknowledged(Station)', [Next]_vars
  PROVE  [Up!Next]_(Up!vars)
<1>1. CASE Next
  <2>1. PICK e \in Ends : e = Station /\ Other(e) = Gateway
    BY EndsAssumption DEF Ends, Other
  <2>2. PICK box, a, a2, h, h2, w, w2 :
          /\ box = Outbox[e] /\ a = accepted[e] /\ a2 = accepted'[e]
          /\ h = Heard(Gateway) \cap Outbox[e] /\ h2 = Heard(Gateway)' \cap Outbox[e]
          /\ w = outcome /\ w2 = outcome'
    OBVIOUS
  <2>3. Serves(a, h, w, a2, h2, w2, box)
    BY <1>1, <2>1, <2>2, KeptStep
  <2>4. a \in Seq(box)
    BY <2>1, <2>2 DEF Ordered, InOrder, Lined
  <2>5. PICK c, c2 : c = [m \in box |-> w[m]] /\ c2 = [m \in box |-> w2[m]]
    OBVIOUS
  <2>6. /\ Concluded(Station) = c /\ Concluded(Station)' = c2
        /\ accepted[Station] = a /\ accepted[Station]' = a2
        /\ Heard(Gateway) \cap Outbox[Station] = h
        /\ (Heard(Gateway) \cap Outbox[Station])' = h2 /\ Outbox[Station] = box
    BY <2>1, <2>2, <2>5 DEF Concluded
  <2>7. Does(a, h, c, a2, h2, c2, box)
    BY <2>3, <2>4, <2>5, AsService
  <2> QED  BY <2>6, <2>7 DEF Does, Up!Next, Up!vars, Up!Accept, Up!Hear, Up!Conclude,
                             Up!Abandon, Up!Oldest, Up!Open
<1>2. CASE UNCHANGED vars
  <2>1. accepted' = accepted /\ delivered' = delivered /\ outcome' = outcome
    BY <1>2 DEF vars, history
  <2> QED  BY <2>1 DEF Up!vars, Heard, Concluded
<1> QED  BY <1>1, <1>2

(* The downlink (Radio::unicast in server/mod.rs, over enqueue, promote and *)
(* apply_ack) is the service ReliableUnicast promises: what is accepted is  *)
(* heard in the order it was accepted, nothing before what is older is      *)
(* concluded, and what is concluded as acked was heard -- whatever is lost, *)
(* echoed or forgotten and though the station restarts, as long as it gives *)
(* up no reassembly and the gateway answers no HELLO.                       *)
THEOREM DownlinkIsKept ==
  ASSUME NewEpochs, MessagesApart, OnlyAsked(Gateway), MaxRestarts[Gateway] = 0
  PROVE  Spec /\ []NotRound /\ [][NoneAbandoned(Station)]_vars => Downlink
<1>1. Gateway \in Ends /\ Other(Gateway) = Station
  BY DEF Ends, Other
<1>2. PICK D \in SUBSET Ends : D = {Gateway}
  BY <1>1
<1>3. Spec => []Sane
  BY AlwaysSane
<1>4. Init /\ NotRound => Believed(D)
  BY BelievedInit
<1>5. Believed(D) /\ NotRound /\ [Next]_vars /\ [NoneAbandoned(Station)]_vars => Believed(D)'
  <2>1. Patient(D) <=> NoneAbandoned(Station)
    BY <1>1, <1>2 DEF Patient
  <2>2. \A x \in D : MaxRestarts[x] = 0
    BY <1>2
  <2> QED  BY <2>1, <2>2, BelievedNext
<1>6. Believed(D) => Acknowledged(Gateway)
  BY <1>1, <1>2, BelievedTrue DEF Acknowledged
<1>7. Init /\ Sane => Ordered(Gateway) /\ Down!Init
  <2>1. SUFFICES ASSUME Init, Sane  PROVE Ordered(Gateway) /\ Down!Init
    OBVIOUS
  <2>2. /\ Ordered(Gateway) /\ accepted[Gateway] = <<>> /\ Heard(Station) = {}
        /\ \A m \in Outbox[Gateway] : outcome[m] = "none"
    BY <1>1, <2>1, KeptInit
  <2> QED  BY <2>2 DEF Down!Init, Concluded
<1>8. Ordered(Gateway) /\ Sane' /\ Acknowledged(Gateway)' /\ [Next]_vars => Ordered(Gateway)'
  BY <1>1, OrderedNext
<1>9. Ordered(Gateway) /\ Sane' /\ Acknowledged(Gateway)' /\ [Next]_vars => [Down!Next]_(Down!vars)
  BY DownStep
<1> QED  BY <1>3, <1>4, <1>5, <1>6, <1>7, <1>8, <1>9, PTL DEF Spec, Downlink, Down!Spec

(* The uplink (Station::send_to in station.rs, over the same session layer) *)
(* is that service too, whatever the gateway sends meanwhile and though it  *)
(* restarts, as long as it gives up no reassembly and the station's HELLO   *)
(* is over.                                                                 *)
THEOREM UplinkIsKept ==
  ASSUME MessagesApart, OnlyAsked(Station), MaxRestarts[Station] = 0
  PROVE  Spec /\ []NotRound /\ [][NoneAbandoned(Gateway)]_vars => Uplink
<1>1. Station \in Ends /\ Other(Station) = Gateway
  BY EndsAssumption DEF Ends, Other
<1>15. NewEpochs
  BY EndsAssumption DEF NewEpochs
<1>2. PICK D \in SUBSET Ends : D = {Station}
  BY <1>1
<1>3. Spec => []Sane
  BY AlwaysSane
<1>4. Init /\ NotRound => Believed(D)
  BY BelievedInit
<1>5. Believed(D) /\ NotRound /\ [Next]_vars /\ [NoneAbandoned(Gateway)]_vars => Believed(D)'
  <2>1. Patient(D) <=> NoneAbandoned(Gateway)
    BY <1>1, <1>2 DEF Patient
  <2>2. \A x \in D : MaxRestarts[x] = 0
    BY <1>2
  <2> QED  BY <1>15, <2>1, <2>2, BelievedNext
<1>6. Believed(D) => Acknowledged(Station)
  BY <1>1, <1>2, BelievedTrue DEF Acknowledged
<1>7. Init /\ Sane => Ordered(Station) /\ Up!Init
  <2>1. SUFFICES ASSUME Init, Sane  PROVE Ordered(Station) /\ Up!Init
    OBVIOUS
  <2>2. /\ Ordered(Station) /\ accepted[Station] = <<>> /\ Heard(Gateway) = {}
        /\ \A m \in Outbox[Station] : outcome[m] = "none"
    BY <1>1, <2>1, KeptInit
  <2> QED  BY <2>2 DEF Up!Init, Concluded
<1>8. Ordered(Station) /\ Sane' /\ Acknowledged(Station)' /\ [Next]_vars => Ordered(Station)'
  BY <1>1, OrderedNext
<1>9. Ordered(Station) /\ Sane' /\ Acknowledged(Station)' /\ [Next]_vars => [Up!Next]_(Up!vars)
  BY UpStep
<1> QED  BY <1>3, <1>4, <1>5, <1>6, <1>7, <1>8, <1>9, PTL DEF Spec, Uplink, Up!Spec
=============================================================================
