------------------------------- MODULE TxPath -------------------------------
(***************************************************************************)
(* From a frame handed over by the server to a frame on the air: the       *)
(* server's side of a transmission (src/src/server/radio.rs), the TNC pump *)
(* (src/src/ax25/tnc.rs) and, through the operators of Scheduler and       *)
(* Airtime, which frame goes and when.                                     *)
(*                                                                         *)
(* The server, the control operator, the interlock poller and the pump are *)
(* different threads.  What they share is the scheduler, behind a lock,    *)
(* and a few atomics, so the pump's passes between two of its reads of     *)
(* them are actions of their own:                                          *)
(*                                                                         *)
(*    "top"    about to purge, expire and poll                             *)
(*    "polled" has decided how long to sleep, is not yet waiting           *)
(*    "asleep" waits for a frame heard, a wake-up, or its alarm            *)
(*    "holds"  has taken a frame from the scheduler                        *)
(*    "clear"  has the governor's consent                                  *)
(*    "down"   has no link to the TNC                                      *)
(*                                                                         *)
(* A write to the TNC takes no time, and none passes while a frame is in   *)
(* hand.                                                                   *)
(***************************************************************************)
EXTENDS Scheduler

CONSTANTS
  NoFrame,
  MaxTime,   \* bounds of the model: the clock stops here,
  MaxOffs,   \* the operator turns the transmitter off this often,
  MaxTrips,  \* the interlock fails this often,
  MaxDowns,  \* the link is lost this often,
  MaxHeard   \* and this many frames are heard

ASSUME TxAssumption ==
  /\ NoFrame \notin Frames
  /\ {MaxTime, MaxOffs, MaxTrips, MaxDowns, MaxHeard} \subseteq Nat

VARIABLES
  now,        \* the clock
  sched,      \* the Scheduler
  gov,        \* the Governor
  pump,       \* where the pump is, the item in hand, its alarm
  off,        \* AirtimeShared.inhibit, and not RadioState.enabled
  safe,       \* AirtimeShared.interlock_ok
  shown,      \* AirtimeShared.queued_ms
  owesId,     \* RadioState.transmitted_since_id
  fate,       \* history: what became of each frame
  keyed,      \* history: every transmission
  heard,      \* history: when each frame heard was read from the TNC
  unbroken,   \* history: key-down time since the last rest
  used        \* how much of each bound is used, and when last turned off

vars == <<now, sched, gov, pump, off, safe, shown, owesId,
          fate, keyed, heard, unbroken, used>>
history == <<heard, used>>

Idle == 3600  \* the sleep of a pump that has nothing to send

NoItem == [frame |-> NoFrame, at |-> 0]
(* Of each transmission also how many frames had been heard before it.     *)
Transmissions == [frame : Frames, start : Nat, end : Nat, after : Nat]

TypeOK ==
  /\ now \in Nat
  /\ IsScheduler(sched)
  /\ \A c \in Classes : Len(sched.queues[c]) <= Depth[c] + 1
  /\ gov \in Governors
  /\ pump \in [at : {"top", "polled", "asleep", "holds", "clear", "down"},
               item : Items \cup {NoItem}, alarm : Nat, woken : BOOLEAN]
  /\ (pump.item = NoItem) <=> (pump.at \notin {"holds", "clear"})
  /\ {off, safe, owesId} \subseteq BOOLEAN
  /\ shown \in Nat
  /\ fate \in [Frames -> {"unsent", "queued", "refused", "dropped", "keyed"}]
  /\ keyed \subseteq Transmissions
  /\ heard \in Seq(Nat) /\ unbroken \in Nat
  /\ used \in [offs : 0 .. MaxOffs, offAt : Nat, trips : 0 .. MaxTrips, downs : 0 .. MaxDowns]

Init ==
  /\ now = 0
  /\ sched = NewScheduler /\ gov = NewGovernor
  /\ pump = [at |-> "top", item |-> NoItem, alarm |-> 0, woken |-> FALSE]
  /\ off = FALSE /\ safe = TRUE
  /\ shown = 0 /\ owesId = FALSE
  /\ fate = [f \in Frames |-> "unsent"]
  /\ keyed = {} /\ heard = <<>> /\ unbroken = 0
  /\ used = [offs |-> 0, offAt |-> 0, trips |-> 0, downs |-> 0]

(* The wake-up reaches a pump that waits for one, and is otherwise lost. *)
Woken == [pump EXCEPT !.woken = @ \/ pump.at = "asleep"]

-----------------------------------------------------------------------------
(* The server. *)

(* TncHandle::enqueue: queued and shown, or refused. *)
Enqueue(f) ==
  IF HasRoom(sched, f)
  THEN /\ sched' = Push(sched, [frame |-> f, at |-> now])
       /\ shown' = Backlog(sched')
       /\ fate' = [fate EXCEPT ![f] = "queued"]
  ELSE /\ fate' = [fate EXCEPT ![f] = "refused"]
       /\ UNCHANGED <<sched, shown>>

(* Traffic: nothing is offered while the transmitter is off or unsafe. *)
Send(f) ==
  /\ fate[f] = "unsent" /\ ClassOf[f] # Id
  /\ ~off /\ safe
  /\ Enqueue(f)
  /\ owesId' = (owesId \/ fate'[f] = "queued")
  /\ pump' = IF fate'[f] = "queued" THEN Woken ELSE pump
  /\ UNCHANGED <<now, gov, off, safe, keyed, unbroken, history>>

(* Identification: by itself when it is owed because something was queued   *)
(* since the last one, and on the operator's word in any case.  It is owed  *)
(* no longer when it is queued.                                             *)
Identify(f) ==
  /\ fate[f] = "unsent" /\ ClassOf[f] = Id
  /\ Enqueue(f)
  /\ owesId' = (owesId /\ fate'[f] # "queued")
  /\ pump' = IF fate'[f] = "queued" THEN Woken ELSE pump
  /\ UNCHANGED <<now, gov, off, safe, keyed, unbroken, history>>

(* RADIO OFF: sign off if owed, then inhibit.  Frames still queued here are *)
(* the pump's to discard.                                                   *)
SignOff(f) ==
  IF owesId
  THEN /\ fate[f] = "unsent" /\ ClassOf[f] = Id
       /\ Enqueue(f)
       /\ owesId' = (owesId /\ fate'[f] # "queued")
  ELSE UNCHANGED <<sched, shown, fate, owesId>>

RadioOff ==
  /\ ~off /\ used.offs < MaxOffs
  /\ \E f \in Frames : SignOff(f)
  /\ off' = TRUE
  /\ pump' = Woken
  /\ used' = [used EXCEPT !.offs = @ + 1, !.offAt = now]
  /\ UNCHANGED <<now, gov, safe, keyed, heard, unbroken>>

RadioOn ==
  /\ off
  /\ off' = FALSE
  /\ pump' = Woken
  /\ UNCHANGED <<now, sched, gov, safe, shown, owesId, fate, keyed, unbroken, history>>

(* The interlock poller: a check fails, because the command says no, cannot *)
(* be started or does not answer in time, or passes again.                 *)
Trip ==
  /\ safe /\ used.trips < MaxTrips
  /\ safe' = FALSE
  /\ pump' = Woken
  /\ used' = [used EXCEPT !.trips = @ + 1]
  /\ UNCHANGED <<now, sched, gov, off, shown, owesId, fate, keyed, heard, unbroken>>

Restore ==
  /\ ~safe
  /\ safe' = TRUE
  /\ pump' = Woken
  /\ UNCHANGED <<now, sched, gov, off, shown, owesId, fate, keyed, unbroken, history>>

-----------------------------------------------------------------------------
(* The pump. *)

Top == [at |-> "top", item |-> NoItem, alarm |-> 0, woken |-> FALSE]
Down == [Top EXCEPT !.at = "down"]

server == <<off, safe, owesId>>

Lost(s) == Queued(sched) \ Queued(s)

(* The head of the loop: purge, expire, and work out how long to sleep. *)
Poll ==
  /\ pump.at = "top"
  /\ sched' = Expire(IF off THEN DrainExceptId(sched) ELSE sched, now)
  /\ shown' = IF Lost(sched') = {} THEN shown ELSE Backlog(sched')
  /\ fate' = [f \in Frames |-> IF f \in Lost(sched') THEN "dropped" ELSE fate[f]]
  /\ pump' = [pump EXCEPT !.at = "polled", !.alarm =
       IF IsEmpty(sched') THEN now + Idle
       ELSE IF BlockedUntil(sched') > now THEN BlockedUntil(sched')
       ELSE IF safe THEN now ELSE now + 1]
  /\ UNCHANGED <<now, gov, server, keyed, unbroken, history>>

Sleep ==
  /\ pump.at = "polled"
  /\ pump' = [pump EXCEPT !.at = "asleep"]
  /\ UNCHANGED <<now, sched, gov, shown, server, fate, keyed, unbroken, history>>

Wake ==
  /\ pump.at = "asleep" /\ pump.woken
  /\ pump' = Top
  /\ UNCHANGED <<now, sched, gov, shown, server, fate, keyed, unbroken, history>>

(* A frame heard is read from the TNC, which may hold it for any time: also *)
(* one that was there before the last transmission is read after it, while  *)
(* that is still on the air or later.                                       *)
Hear ==
  /\ pump.at = "asleep"
  /\ Len(heard) < MaxHeard
  /\ sched' = OnHeard(sched, now)
  /\ heard' = Append(heard, now)
  /\ pump' = Top
  /\ UNCHANGED <<now, gov, shown, server, fate, keyed, unbroken, used>>

(* The alarm: with the interlock satisfied and the channel ours, the next   *)
(* frame is taken.                                                          *)
Alarm ==
  /\ pump.at = "asleep" /\ now >= pump.alarm
  /\ IF safe /\ Ready(sched, now)
     THEN /\ pump' = [pump EXCEPT !.at = "holds", !.item = Taken(sched, now)]
          /\ sched' = Pop(sched, now)
     ELSE pump' = Top /\ UNCHANGED sched
  /\ UNCHANGED <<now, gov, shown, server, fate, keyed, unbroken, history>>

InHand == pump.item.frame
Asked == Settle(gov, now)
Wait == Delay(Asked, DutyLimit(0), CostOf[InHand], now)

(* Mutant: the backlog shown keeps a frame that was given up. *)
Mutant_DropInHand ==
  /\ fate' = [fate EXCEPT ![InHand] = "dropped"]
  /\ pump' = Top
  /\ UNCHANGED shown
(* A frame in hand is given up, and leaves the backlog shown. *)
DropInHand ==
  /\ fate' = [fate EXCEPT ![InHand] = "dropped"]
  /\ shown' = Backlog(sched)
  /\ pump' = Top

(* Mutant: what is in hand is past the purge. *)
Mutant_Forbidden == FALSE
Forbidden == off /\ ClassOf[InHand] # Id

(* The operator said off while it was being taken. *)
Discard ==
  /\ pump.at = "holds" /\ Forbidden
  /\ DropInHand
  /\ UNCHANGED <<now, sched, gov, server, keyed, unbroken, history>>

TooLate ==
  ClassOf[InHand] \notin {Ack, Id} /\ now - pump.item.at + Wait > MaxHold

(* The governor refuses: the frame is put back, or dropped if by then it    *)
(* would be stale.                                                          *)
Defer ==
  /\ pump.at = "holds" /\ ~Forbidden
  /\ Wait > 0
  /\ gov' = Asked
  /\ IF TooLate THEN DropInHand /\ UNCHANGED sched
     ELSE /\ sched' = Requeue(sched, pump.item, now, Wait)
          /\ pump' = Top
          /\ UNCHANGED <<shown, fate>>
  /\ UNCHANGED <<now, server, keyed, unbroken, history>>

Approve ==
  /\ pump.at = "holds" /\ ~Forbidden
  /\ Wait = 0
  /\ pump' = [pump EXCEPT !.at = "clear"]
  /\ UNCHANGED <<now, sched, gov, shown, server, fate, keyed, unbroken, history>>

(* The interlock is read again just before keying. *)
Withhold ==
  /\ pump.at = "clear" /\ ~safe
  /\ gov' = Asked
  /\ sched' = Requeue(sched, pump.item, now, 1)
  /\ pump' = Top
  /\ UNCHANGED <<now, shown, server, fate, keyed, unbroken, history>>

Rest == Smaller(RunGap, Cooldown)

Key ==
  /\ pump.at = "clear" /\ safe
  /\ LET f == InHand
         end == now + CostOf[f]
     IN /\ gov' = Record(Asked, CostOf[f], now)
        /\ sched' = OnKeyed(sched, f, CostOf[f], now)
        /\ shown' = Backlog(sched')
        /\ fate' = [fate EXCEPT ![f] = "keyed"]
        /\ keyed' = keyed \cup {[frame |-> f, start |-> now, end |-> end, after |-> Len(heard)]}
        /\ unbroken' = (IF gov.last # Never /\ now - gov.last < Rest THEN unbroken ELSE 0)
                         + CostOf[f]
  /\ pump' = Top
  /\ UNCHANGED <<now, server, history>>

(* Mutant: the frame being written is lost with the link. *)
Mutant_Kept(s) == s
(* The frame being written when the link fails keeps its place. *)
Kept(s) == Requeue(s, pump.item, now, 0)

(* The link fails under a write, or while the pump sleeps. *)
BreakWriting ==
  /\ pump.at = "clear" /\ safe
  /\ used.downs < MaxDowns
  /\ gov' = Asked
  /\ sched' = Kept(sched)
  /\ pump' = Down
  /\ used' = [used EXCEPT !.downs = @ + 1]
  /\ UNCHANGED <<now, shown, server, fate, keyed, heard, unbroken>>

BreakAsleep ==
  /\ pump.at = "asleep"
  /\ used.downs < MaxDowns
  /\ pump' = Down
  /\ used' = [used EXCEPT !.downs = @ + 1]
  /\ UNCHANGED <<now, sched, gov, shown, server, fate, keyed, heard, unbroken>>

Reconnect ==
  /\ pump.at = "down"
  /\ pump' = Top
  /\ UNCHANGED <<now, sched, gov, shown, server, fate, keyed, unbroken, history>>

(* Time passes while the pump waits, or is slow to come round. *)
Tick ==
  /\ now < MaxTime
  /\ pump.at \notin {"holds", "clear"}
  /\ now' = now + 1
  /\ UNCHANGED <<sched, gov, pump, shown, server, fate, keyed, unbroken, history>>

Next ==
  \/ \E f \in Frames : Send(f)
  \/ \E f \in Frames : Identify(f)
  \/ RadioOff
  \/ RadioOn
  \/ Trip
  \/ Restore
  \/ Poll
  \/ Sleep
  \/ Wake
  \/ Hear
  \/ Alarm
  \/ Discard
  \/ Defer
  \/ Approve
  \/ Withhold
  \/ Key
  \/ BreakWriting
  \/ BreakAsleep
  \/ Reconnect
  \/ Tick

Spec == Init /\ [][Next]_vars

-----------------------------------------------------------------------------
(* The pump drives the governor as Governor says it is driven, so what is   *)
(* proved there holds of the whole path: above all, a frame is never asked  *)
(* about, let alone keyed, while an earlier one is still on the air.        *)
Limits == INSTANCE Governor WITH
  override <- 0,
  keyed <- {[start |-> t.start, end |-> t.end] : t \in keyed}
DrivesTheGovernor == Limits!Spec

(* Half duplex: after a transmission that asks for an answer nothing is     *)
(* keyed until a frame has been heard since it was keyed or the window is   *)
(* over, after any other not before the gap, and after hearing anything not *)
(* before the guard -- whatever is queued, deferred, put back or lost with  *)
(* the link meanwhile.  Any frame ends the wait, the answer or not, and so  *)
(* does one that came in before the question and was read after it.         *)
ListensFirst ==
  \A t \in keyed :
    /\ \A i \in 1 .. t.after : t.start >= heard[i] + RxGuard
    /\ \A u \in keyed : u.start > t.start =>
         /\ u.start >= t.end + MinGap
         /\ \/ ~WantsReply[t.frame]
            \/ u.start >= t.end + ReplyWindow
            \/ u.after > t.after

(* Every frame the scheduler accepted is in exactly one place: waiting, in  *)
(* the pump's hand, or keyed once, or dropped; none is lost with a link or  *)
(* keyed twice.                                                             *)
Accounted ==
  /\ {f \in Frames : fate[f] = "queued"} = Queued(sched) \cup ({InHand} \ {NoFrame})
  /\ InHand \notin Queued(sched)
  /\ \A c \in Classes : Cardinality(Waiting(sched, c)) = Len(sched.queues[c])
  /\ \A t, u \in keyed : t.frame = u.frame => t = u

(* An identification accepted is never given up, and an acknowledgement     *)
(* only when the operator turns the transmitter off.                        *)
OwedIsKept ==
  \A f \in Frames : fate[f] = "dropped" =>
    ClassOf[f] # Id /\ (ClassOf[f] = Ack => used.offs > 0)

(* Once the operator has said off, nothing but identification is keyed:     *)
(* at most what the pump had consent for at that very moment.               *)
SilentWhileOff ==
  off => \A t \in keyed : t.start > used.offAt => ClassOf[t.frame] = Id

(* AirtimeShared.queued_ms, from which admission control tells how long a   *)
(* new message would wait, is published by the server and by the pump and   *)
(* not at every change.  It still never counts what has left for good, and  *)
(* misses at most one frame: the one put back since.                        *)
ShownWithinAFrame ==
  LET longest == Max({CostOf[f] : f \in Frames})
      inHand == IF InHand = NoFrame THEN 0 ELSE CostOf[InHand]
  IN /\ shown <= Backlog(sched) + inHand
     /\ Backlog(sched) <= shown + longest

=============================================================================
