----------------------------- MODULE Scheduler -----------------------------
(***************************************************************************)
(* The transmit scheduler (src/src/ax25/scheduler.rs) as operators on its  *)
(* state, a record                                                         *)
(*                                                                         *)
(*    [queues  |-> one sequence of waiting frames per class,               *)
(*     buckets |-> the airtime accounts in use: tokens and when counted,   *)
(*     pace, reply, guard |-> instants the transmitter is held down to]    *)
(*                                                                         *)
(* The time 0 stands for a hold that is not set.  Tokens are counted so    *)
(* that an account earns one per unit of time; key-down time costs Price   *)
(* of them.  Scores are multiplied by Aging to stay whole numbers.         *)
(***************************************************************************)
EXTENDS Airtime, Sequences, SequencesExt

CONSTANTS
  Frames,       \* frames, each offered at most once, and of each:
  ClassOf,      \*   its class
  AccountOf,    \*   whose airtime it is
  CostOf,       \*   its key-down time
  WantsReply,   \*   whether the far end is expected to answer
  Depth,        \* frames each class may hold
  MaxHold,      \* longest a frame is held
  MinGap,       \* silence after any transmission
  ReplyWindow,  \* silence after one that asks for an answer
  RxGuard,      \* silence after hearing anything
  Aging,        \* waiting this long is worth one class
  Penalty,      \* what an overspent account loses, in units of Aging
  Price,        \* tokens per unit of key-down time
  Burst,        \* most tokens an account may save up
  MaxDebt,      \* most it may owe
  MaxAccounts   \* accounts tracked at once

(* Classes, by priority. *)
Chat == 0
Direct == 1
Control == 2
Ack == 3
Id == 4
Classes == Chat .. Id

ASSUME SchedulerAssumption ==
  /\ ClassOf \in [Frames -> Classes]
  /\ CostOf \in [Frames -> Costs]
  /\ WantsReply \in [Frames -> BOOLEAN]
  /\ DOMAIN AccountOf = Frames
  /\ Depth \in [Classes -> Nat]
  /\ {MaxHold, MinGap, ReplyWindow, RxGuard, Penalty, Price, Burst, MaxDebt} \subseteq Nat
  /\ Aging \in Nat \ {0} /\ MaxAccounts \in Nat \ {0}

Accounts == {AccountOf[f] : f \in Frames}
Items == [frame : Frames, at : Nat]
IsScheduler(s) ==
  /\ DOMAIN s = {"queues", "buckets", "pace", "reply", "guard"}
  /\ s.queues \in [Classes -> Seq(Items)]
  /\ DOMAIN s.buckets \subseteq Accounts /\ Cardinality(DOMAIN s.buckets) <= MaxAccounts
  /\ s.buckets \in [DOMAIN s.buckets -> [tokens : -MaxDebt .. Burst, last : Nat]]
  /\ {s.pace, s.reply, s.guard} \subseteq Nat

NewScheduler ==
  [queues |-> [c \in Classes |-> <<>>], buckets |-> <<>>,
   pace |-> 0, reply |-> 0, guard |-> 0]

Waiting(s, c) == {s.queues[c][i].frame : i \in DOMAIN s.queues[c]}
Queued(s) == UNION {Waiting(s, c) : c \in Classes}
Backlog(s) == MapThenSumSet(LAMBDA f : CostOf[f], Queued(s))

-----------------------------------------------------------------------------
HasRoom(s, f) == Len(s.queues[ClassOf[f]]) < Depth[ClassOf[f]]
Push(s, item) == [s EXCEPT !.queues[ClassOf[item.frame]] = Append(@, item)]

(* Mutant: every class goes stale. *)
Mutant_Perishable == Classes
(* An acknowledgement or an identification never goes stale. *)
Perishable == {Chat, Direct, Control}

Stale(item, now) == Since(item.at, now) > MaxHold
(* What is kept of a queue when its stale frames are taken out, in order.   *)
Fresh(queue, now) ==
  LET keep[n \in 0 .. Len(queue)] ==
        IF n = 0 THEN <<>>
        ELSE IF Stale(queue[n], now) THEN keep[n - 1]
        ELSE Append(keep[n - 1], queue[n])
  IN keep[Len(queue)]

Expire(s, now) ==
  [s EXCEPT !.queues = [c \in Classes |->
     IF c \in Perishable THEN Fresh(@[c], now) ELSE @[c]]]

(* RADIO OFF keeps the identification it owes and nothing else. *)
DrainExceptId(s) ==
  [s EXCEPT !.queues = [c \in Classes |-> IF c = Id THEN @[c] ELSE <<>>]]

(* Mutant: the reply window survives the answer's arrival ... and the guard *)
(* is not armed.                                                            *)
Mutant_OnHeard(s, now) == [s EXCEPT !.reply = 0]
(* Anything heard ends the wait for an answer and arms the receive guard. *)
OnHeard(s, now) == [s EXCEPT !.guard = now + RxGuard, !.reply = 0]

(* A refused frame goes back to the head of its class. *)
Requeue(s, item, now, delay) ==
  [s EXCEPT !.pace = Larger(@, now + delay),
            !.queues[ClassOf[item.frame]] = <<item>> \o @]

BlockedUntil(s) == Larger(s.pace, Larger(s.reply, s.guard))
IsEmpty(s) == Queued(s) = {}
Ready(s, now) == ~IsEmpty(s) /\ BlockedUntil(s) <= now

-----------------------------------------------------------------------------
(* Accounts. *)
Tokens(s, a, now) ==
  IF a \notin DOMAIN s.buckets THEN Burst
  ELSE Smaller(s.buckets[a].tokens + Since(s.buckets[a].last, now), Burst)

Funded(s, f, now) == Tokens(s, AccountOf[f], now) >= Price * CostOf[f]

(* Mutant: the debt has no bottom. *)
Mutant_Debit(s, a, keyed, now) ==
  LET left == [tokens |-> Tokens(s, a, now) - Price * keyed, last |-> now]
  IN [s EXCEPT !.buckets =
        [x \in {y \in DOMAIN @ : Cardinality(DOMAIN @) < MaxAccounts} \cup {a} |->
           IF x = a THEN left ELSE @[x]]]

(* Spending, down to the largest debt; a new account may take the place of  *)
(* the quietest.                                                            *)
Debit(s, a, keyed, now) ==
  LET tracked == DOMAIN s.buckets
      quietest == CHOOSE x \in tracked :
                    \A y \in tracked : s.buckets[x].last <= s.buckets[y].last
      kept == IF a \notin tracked /\ Cardinality(tracked) >= MaxAccounts
              THEN tracked \ {quietest} ELSE tracked
      left == [tokens |-> Larger(Tokens(s, a, now) - Price * keyed, -MaxDebt), last |-> now]
  IN [s EXCEPT !.buckets = [x \in kept \cup {a} |-> IF x = a THEN left ELSE @[x]]]

(* Mutant: the gap is counted from the start of the transmission. *)
Mutant_OnKeyed(s, f, keyed, now) ==
  [Debit(s, AccountOf[f], keyed, now) EXCEPT
     !.pace = now + MinGap,
     !.reply = IF WantsReply[f] THEN now + keyed + ReplyWindow ELSE 0]
(* A transmission has just been made. *)
OnKeyed(s, f, keyed, now) ==
  [Debit(s, AccountOf[f], keyed, now) EXCEPT
     !.pace = now + keyed + MinGap,
     !.reply = IF WantsReply[f] THEN now + keyed + ReplyWindow ELSE 0]

-----------------------------------------------------------------------------
(* Which frame goes next.  Each class puts forward its first funded frame,  *)
(* or its head; class, age and debt decide between them.                    *)
Candidate(s, c, now) ==
  Larger(1, SelectInSeq(s.queues[c], LAMBDA i : Funded(s, i.frame, now)))

Score(s, c, now) ==
  LET item == s.queues[c][Candidate(s, c, now)]
  IN c * Aging + Since(item.at, now) - (IF Funded(s, item.frame, now) THEN 0 ELSE Penalty)

Best(s, now) ==
  LET busy == {c \in Classes : s.queues[c] # <<>>}
  IN CHOOSE c \in busy : \A d \in busy :
       \/ Score(s, c, now) > Score(s, d, now)
       \/ Score(s, c, now) = Score(s, d, now) /\ c >= d

Taken(s, now) == s.queues[Best(s, now)][Candidate(s, Best(s, now), now)]
Pop(s, now) ==
  LET c == Best(s, now)
  IN [s EXCEPT !.queues[c] = RemoveAt(@, Candidate(s, c, now))]

=============================================================================
