------------------------------ MODULE Airtime ------------------------------
(***************************************************************************)
(* The airtime governor (src/src/ax25/airtime.rs) as operators on its      *)
(* state, a record                                                         *)
(*                                                                         *)
(*    [bursts  |-> transmissions remembered: end and length (the queue's   *)
(*                 order is that of the ends, which differ),               *)
(*     last    |-> end of the latest one, or Never,                        *)
(*     run     |-> key-down time of the current unbroken run,              *)
(*     cooling |-> when the cooldown in force ends, or Never]              *)
(*                                                                         *)
(* Like the code it is driven with an explicit `now`. A frame is its cost, *)
(* the key-down time airtime_for gives it. The governor is taken to be on: *)
(* a configuration may turn it off only in front of a loopback.            *)
(***************************************************************************)
EXTENDS Integers, FiniteSetsExt

CONSTANTS
  Costs,          \* key-down times a frame may have
  RunGap,         \* RUN_GAP: a shorter silence does not end a run
  MaxContinuous,  \* longest unbroken run
  Cooldown,       \* how long the transmitter is off after one
  Window,         \* length of the sliding duty window
  Hour,           \* length of the budget window
  HourBudget,     \* airtime allowed in it, 0 for no budget
  Configured,     \* max_duty, in percent
  Overrides,      \* duty overrides a control operator may set, 0 for none
  MinDelay,       \* shortest deferral for duty or budget (100 ms)
  MaxBackoff      \* deferral of a frame nothing can make room for (30 s)

(* What Config::check demands of them. *)
ASSUME AirtimeAssumption ==
  /\ Costs \subseteq Nat \ {0}
  /\ RunGap \in Nat \ {0} /\ MaxContinuous \in Nat \ {0} /\ Cooldown \in Nat
  /\ Window \in Nat \ {0} /\ Hour \in Nat \ {0} /\ HourBudget \in Nat
  /\ Configured \in Nat /\ Overrides \subseteq Nat
  /\ MinDelay \in Nat \ {0} /\ MaxBackoff \in Nat \ {0}
  /\ \A c \in Costs : c <= MaxContinuous

(* HARD_MAX_DUTY, in percent. *)
HardMaxDuty == 50

Never == -1
NewGovernor == [bursts |-> {}, last |-> Never, run |-> 0, cooling |-> Never]

Bursts == [end : Nat, len : Nat]
Governors ==
  [bursts : SUBSET Bursts, last : Nat \cup {Never}, run : 0 .. MaxContinuous,
   cooling : Nat \cup {Never}]

Larger(a, b) == IF a > b THEN a ELSE b
Smaller(a, b) == IF a < b THEN a ELSE b

(* saturating_duration_since *)
Since(t, now) == Larger(now - t, 0)

-----------------------------------------------------------------------------
(* Mutant: the ceiling is applied to the override only, not to max_duty. *)
Mutant_DutyLimit(override) ==
  IF override = 0 THEN Configured ELSE Smaller(override, HardMaxDuty)
(* The duty in force: AirtimeShared::duty_limit. *)
DutyLimit(override) ==
  Smaller(IF override = 0 THEN Configured ELSE override, HardMaxDuty)

Allowance(duty) == (Window * duty) \div 100

HourWindow == IF HourBudget = 0 THEN 0 ELSE Hour

(* Mutant: bursts are kept for the duty window only. *)
Mutant_Retention == Window
Retention == Larger(Window, HourWindow)

(* Bursts older than both windows are forgotten. *)
Trim(g, now) ==
  [g EXCEPT !.bursts = {b \in @ : Since(b.end, now) <= Retention}]

(* Airtime of bursts, and of those that ended inside the last `span`. *)
Airtime(bursts) == MapThenSumSet(LAMBDA b : b.len, bursts)
Live(g, now, span) == {b \in g.bursts : Since(b.end, now) <= span}

Exceeds(g, now, span, allowed, cost) == Airtime(Live(g, now, span)) + cost > allowed

(* Mutant: only the oldest burst is waited for. *)
Mutant_RetryDelay(g, now, span, allowed, cost) ==
  LET ends == {b.end : b \in Live(g, now, span)}
  IN IF ends = {} THEN Larger(Smaller(span, MaxBackoff), MinDelay)
     ELSE Larger(Since(now, Min(ends) + span), MinDelay)

(* How long until enough old airtime leaves the window, oldest first, to    *)
(* make room; a fixed wait if it never does.                                *)
RetryDelay(g, now, span, allowed, cost) ==
  LET live == Live(g, now, span)
      after(t) == {b \in live : b.end > t}
      room == {t \in {b.end : b \in live} : Airtime(after(t)) + cost <= allowed}
  IN IF room = {} THEN Larger(Smaller(span, MaxBackoff), MinDelay)
     ELSE Larger(Since(now, Min(room) + span), MinDelay)

-----------------------------------------------------------------------------
Cooling(g, now) == g.cooling # Never /\ now < g.cooling
Rested(g, now) == g.last # Never /\ Since(g.last, now) >= RunGap

(* Mutant: any silence at all ends the run. *)
Mutant_Settle(g, now) ==
  LET t == Trim(g, now)
  IN IF Cooling(t, now) THEN t
     ELSE [t EXCEPT !.cooling = Never,
                    !.run = IF t.last # Never /\ now > t.last THEN 0 ELSE @]

(* What asking does to the governor, whatever the answer: a cooldown that   *)
(* is over releases the run, and so does a long enough silence.             *)
Settle(g, now) ==
  LET t == Trim(g, now)
  IN IF Cooling(t, now) THEN t
     ELSE [t EXCEPT !.cooling = Never,
                    !.run = IF t.cooling # Never \/ Rested(t, now) THEN 0 ELSE @]

(* Mutant: the frame itself is not counted. *)
Mutant_RunFull(run, cost) == run > 0 /\ run >= MaxContinuous
(* The run has no room left for the frame: it waits for the gap. *)
RunFull(run, cost) == run > 0 /\ run + cost > MaxContinuous
GapLeft(g, now) == Larger(g.last + RunGap - now, 0)

DutySpent(g, duty, cost, now) == Exceeds(g, now, Window, Allowance(duty), cost)
HourSpent(g, cost, now) ==
  HourBudget # 0 /\ Exceeds(g, now, HourWindow, HourBudget, cost)

(* The answer for a settled governor: 0 to send, else how long to wait. *)
Delay(g, duty, cost, now) ==
  CASE Cooling(g, now) -> g.cooling - now
    [] ~Cooling(g, now) /\ RunFull(g.run, cost) -> Larger(GapLeft(g, now), 1)
    [] ~Cooling(g, now) /\ ~RunFull(g.run, cost) /\ DutySpent(g, duty, cost, now) ->
         RetryDelay(g, now, Window, Allowance(duty), cost)
    [] ~Cooling(g, now) /\ ~RunFull(g.run, cost) /\ ~DutySpent(g, duty, cost, now)
         /\ HourSpent(g, cost, now) ->
         RetryDelay(g, now, HourWindow, HourBudget, cost)
    [] OTHER -> 0

(* check(): settle, then decide. *)
Clear(g, duty, cost, now) == Delay(Settle(g, now), duty, cost, now) = 0

(* A transmission has just been made. *)
Record(g, cost, now) ==
  LET run == (IF Rested(g, now) THEN 0 ELSE g.run) + cost
      end == now + cost
  IN Trim([bursts |-> g.bursts \cup {[end |-> end, len |-> cost]},
           last |-> end, run |-> run,
           cooling |-> IF run >= MaxContinuous THEN end + Cooldown ELSE g.cooling], now)

(* Mutant: the budget window is forgotten. *)
Mutant_TimeUntilClear(g, duty, cost, now) ==
  LET run == IF g.last = Never \/ Rested(g, now) THEN 0 ELSE g.run
      cooldown == IF Cooling(g, now) THEN g.cooling - now ELSE 0
      gap == IF RunFull(run, cost) THEN GapLeft(g, now) ELSE 0
      window == IF DutySpent(g, duty, cost, now)
                THEN RetryDelay(g, now, Window, Allowance(duty), cost) ELSE 0
  IN Larger(Larger(cooldown, gap), window)

(* The same question asked without changing anything, for admission. *)
TimeUntilClear(g, duty, cost, now) ==
  LET run == IF g.last = Never \/ Rested(g, now) THEN 0 ELSE g.run
      cooldown == IF Cooling(g, now) THEN g.cooling - now ELSE 0
      gap == IF RunFull(run, cost) THEN GapLeft(g, now) ELSE 0
      window == IF DutySpent(g, duty, cost, now)
                THEN RetryDelay(g, now, Window, Allowance(duty), cost) ELSE 0
      hour == IF HourSpent(g, cost, now)
              THEN RetryDelay(g, now, HourWindow, HourBudget, cost) ELSE 0
  IN Larger(Larger(cooldown, gap), Larger(window, hour))

=============================================================================
