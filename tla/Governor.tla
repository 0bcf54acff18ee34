------------------------------ MODULE Governor ------------------------------
(***************************************************************************)
(* The governor driven as the TNC pump drives it: a frame is asked about,  *)
(* and keyed at once when the answer is "send".  The sender here never     *)
(* stops trying, in any mixture of frame lengths, while the clock runs and *)
(* a control operator changes the duty cycle.                              *)
(*                                                                         *)
(* The one thing taken from the pump is that a frame is not asked about    *)
(* while the previous one is still being keyed (Scheduler::pace_until).    *)
(***************************************************************************)
EXTENDS Airtime

CONSTANT MaxTime  \* bound of the model: the clock stops there

ASSUME TimeAssumption == MaxTime \in Nat

VARIABLES
  now,       \* the clock
  override,  \* AirtimeShared.duty_pct_override
  gov,       \* the Governor
  keyed,     \* history: every transmission made
  unbroken   \* history: key-down time since the last rest

vars == <<now, override, gov, keyed, unbroken>>

Transmissions == [start : Nat, end : Nat]

TypeOK ==
  /\ now \in Nat
  /\ override \in Overrides \cup {0}
  /\ gov \in Governors
  /\ keyed \in SUBSET Transmissions
  /\ unbroken \in Nat

Init ==
  /\ now = 0 /\ override = 0
  /\ gov = NewGovernor
  /\ keyed = {} /\ unbroken = 0

Duty == DutyLimit(override)
OffAir == gov.last = Never \/ now >= gov.last

(* A silence this long lets the finals recover: the run gap, or a cooldown  *)
(* when that is shorter.                                                    *)
Rest == Smaller(RunGap, Cooldown)

Key(c) ==
  /\ OffAir
  /\ Clear(gov, Duty, c, now)
  /\ gov' = Record(Settle(gov, now), c, now)
  /\ keyed' = keyed \cup {[start |-> now, end |-> now + c]}
  /\ unbroken' = IF gov.last # Never /\ now - gov.last < Rest THEN unbroken + c ELSE c
  /\ UNCHANGED <<now, override>>

(* A frame is asked about and not keyed: it is refused, or it is cleared    *)
(* and then held by the interlock or lost with the link.                    *)
Ask ==
  /\ OffAir
  /\ gov' = Settle(gov, now)
  /\ UNCHANGED <<now, override, keyed, unbroken>>

SetDuty(o) ==
  /\ override' = o
  /\ UNCHANGED <<now, gov, keyed, unbroken>>

Tick ==
  /\ now < MaxTime
  /\ now' = now + 1
  /\ UNCHANGED <<override, gov, keyed, unbroken>>

Next ==
  \/ \E c \in Costs : Key(c)
  \/ Ask
  \/ \E o \in Overrides \cup {0} : SetDuty(o)
  \/ Tick

Spec == Init /\ [][Next]_vars

-----------------------------------------------------------------------------
(* Key-down time of transmissions between two instants. *)
KeyDown(K, from, to) ==
  MapThenSumSet(LAMBDA t : Larger(Smaller(t.end, to) - Larger(t.start, from), 0), K)

LatestEnd == IF gov.last = Never THEN 0 ELSE gov.last

(* The window that ends with the latest transmission is the fullest a       *)
(* window has been since; every earlier one was checked in its own state.   *)
Within(span) == KeyDown(keyed, LatestEnd - span, LatestEnd)

(* However the traffic falls and whatever the operator does to the duty     *)
(* cycle, the PA is keyed for at most half of any duty window.              *)
DutyCeiling == 2 * Within(Window) <= Window

(* ... and for at most the budget of any hour, though bursts are forgotten. *)
HourCeiling == HourBudget # 0 => Within(Hour) <= HourBudget

(* The finals are never keyed for longer than MaxContinuous without a rest. *)
UnbrokenRun == unbroken <= MaxContinuous

(* The strengthening that makes it inductive: the governor's run covers the *)
(* unbroken one until the transmitter has rested, and a cooldown is counted *)
(* from the latest transmission.                                            *)
RunIsTracked ==
  /\ gov.last = Never => gov.run = 0 /\ gov.cooling = Never /\ unbroken = 0
  /\ gov.cooling # Never => gov.cooling = gov.last + Cooldown
  /\ gov.last # Never => unbroken <= gov.run \/ now - gov.last >= Rest

(* What admission control is told without touching the governor agrees with *)
(* what the pump will be told: clear exactly when check() sends, and never  *)
(* a shorter wait than check() imposes.                                     *)
EstimateIsHonest ==
  OffAir => \A c \in Costs :
    LET wait == TimeUntilClear(gov, Duty, c, now)
        delay == Delay(Settle(gov, now), Duty, c, now)
    IN (wait = 0 <=> delay = 0) /\ wait >= delay

Fits(c) == c <= Allowance(Duty) /\ (HourBudget # 0 => c <= HourBudget)

(* What check() answers when the frame is asked about at a later instant,   *)
(* nothing having been keyed meanwhile.                                     *)
Told(c, at) == Delay(Settle(gov, at), Duty, c, at)

(* A deferral ends. The pump waits what check() told it, for the first      *)
(* limit hit, and asks again, when it may be told to wait for another one.  *)
(* But no wait it is told, at whatever instant it asks, reaches further     *)
(* than the estimate over all the limits and the shortest deferral more (a  *)
(* burst still counts at the instant it leaves its window), and whoever     *)
(* asks after the estimate is cleared, if the frame fits the limits at all. *)
DeferralEnds ==
  \A c \in Costs : Fits(c) =>
    LET by == now + TimeUntilClear(gov, Duty, c, now)
    IN /\ \A at \in now .. by : at + Told(c, at) <= by + MinDelay
       /\ \A at \in by + 1 .. by + Window : Told(c, at) = 0

=============================================================================
