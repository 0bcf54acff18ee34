--------------------------- MODULE GovernorProofs ---------------------------
(***************************************************************************)
(* What TLAPS proves of the governor, for every set of frame lengths,      *)
(* every limit a configuration may set and an unbounded clock.             *)
(***************************************************************************)
EXTENDS Governor, AirtimeProofs, TLAPS

-----------------------------------------------------------------------------
(* The inductive invariant: the types, the bound and what ties the history  *)
(* of the finals to the governor's own account of it.                       *)
IInv == TypeOK /\ UnbrokenRun /\ RunIsTracked

LEMMA InitIInv == Init => IInv
<1> SUFFICES ASSUME Init  PROVE IInv
  OBVIOUS
<1>1. gov \in Governors
  BY AirtimeAssumption DEF Init, NewGovernor, Governors, Never
<1> QED  BY <1>1, AirtimeAssumption
         DEF Init, IInv, TypeOK, UnbrokenRun, RunIsTracked, NewGovernor

(* Keying: the run the governor had room in covers the unbroken one.        *)
LEMMA KeyIInv ==
  ASSUME IInv, NEW c \in Costs, Key(c)
  PROVE  IInv'
<1> DEFINE s == Settle(gov, now)
<1>1. /\ now \in Nat /\ gov \in Governors /\ unbroken \in Nat
      /\ c \in Nat /\ c > 0 /\ c <= MaxContinuous
      /\ RunGap \in Nat /\ Cooldown \in Nat /\ MaxContinuous \in Nat
  BY AirtimeAssumption DEF IInv, TypeOK
<1>2. /\ s \in Governors /\ s.last = gov.last
      /\ s.cooling = IF Cooling(gov, now) THEN gov.cooling ELSE Never
      /\ s.run = IF ~Cooling(gov, now) /\ (gov.cooling # Never \/ Rested(gov, now))
                 THEN 0 ELSE gov.run
  BY <1>1, SettleKeeps
<1>3. ~Cooling(s, now) /\ ~RunFull(s.run, c)
  <2>1. Delay(s, Duty, c, now) = 0
    BY DEF Key, Clear
  <2> HIDE DEF s
  <2> QED  BY <1>1, <1>2, <2>1, SendHasRoom
<1>4. ~Cooling(gov, now) /\ s.cooling = Never
  BY <1>2, <1>3 DEF Cooling
<1> DEFINE run == (IF Rested(s, now) THEN 0 ELSE s.run) + c
<1>5. /\ gov' \in Governors /\ gov'.last = now + c /\ gov'.run = run
      /\ gov'.cooling = IF run >= MaxContinuous THEN now + c + Cooldown ELSE Never
  <2>1. gov' = Record(s, c, now)
    BY DEF Key
  <2> HIDE DEF s
  <2> QED  BY <1>1, <1>2, <1>3, <1>4, <2>1, RecordKeeps
<1>6. now' = now /\ override' = override
      /\ keyed' = keyed \cup {[start |-> now, end |-> now + c]}
      /\ unbroken' = IF gov.last # Never /\ now - gov.last < Rest THEN unbroken + c ELSE c
  BY DEF Key
<1>7. TypeOK'
  <2>1. keyed' \in SUBSET Transmissions
    BY <1>1, <1>6 DEF IInv, TypeOK, Transmissions
  <2> QED  BY <1>1, <1>5, <1>6, <2>1 DEF IInv, TypeOK
<1>8. unbroken' <= run /\ run <= MaxContinuous
  <2>1. run <= MaxContinuous
    BY <1>1, <1>2, <1>3 DEF RunFull, Governors
  <2>2. CASE gov.last # Never /\ now - gov.last < Rest
    <3>1. gov.last \in Nat /\ ~Rested(gov, now)
      BY <1>1, <2>2, AirtimeAssumption
      DEF Rested, Rest, Smaller, Since, Larger, Governors
    <3>2. gov.cooling = Never
      BY <1>1, <1>4, <2>2, <3>1
      DEF IInv, RunIsTracked, Cooling, Rest, Smaller, Governors
    <3>3. s.run = gov.run
      BY <1>2, <3>1, <3>2
    <3>4. ~Rested(s, now)
      BY <1>2, <3>1 DEF Rested
    <3>5. unbroken <= gov.run
      BY <1>1, <2>2, <3>1 DEF IInv, RunIsTracked, Rest, Smaller, Governors
    <3> QED  BY <1>1, <1>6, <2>1, <2>2, <3>3, <3>4, <3>5 DEF Governors
  <2>3. CASE ~(gov.last # Never /\ now - gov.last < Rest)
    BY <1>1, <1>2, <1>6, <2>1, <2>3 DEF Governors
  <2> QED  BY <2>1, <2>2, <2>3
<1>9. UnbrokenRun'
  BY <1>1, <1>2, <1>6, <1>8 DEF UnbrokenRun, Governors
<1>10. RunIsTracked'
  BY <1>1, <1>5, <1>8 DEF RunIsTracked, Never
<1> QED  BY <1>7, <1>9, <1>10 DEF IInv

(* Asking without keying: the run is let go only after a rest.              *)
LEMMA AskIInv ==
  ASSUME IInv, Ask
  PROVE  IInv'
<1> DEFINE s == Settle(gov, now)
<1>1. /\ now \in Nat /\ gov \in Governors
      /\ RunGap \in Nat /\ Cooldown \in Nat
  BY AirtimeAssumption DEF IInv, TypeOK
<1>2. /\ s \in Governors /\ s.last = gov.last
      /\ s.cooling = IF Cooling(gov, now) THEN gov.cooling ELSE Never
      /\ s.run = IF ~Cooling(gov, now) /\ (gov.cooling # Never \/ Rested(gov, now))
                 THEN 0 ELSE gov.run
  BY <1>1, SettleKeeps
<1>3. gov' = s /\ UNCHANGED <<now, override, keyed, unbroken>>
  BY DEF Ask
<1> HIDE DEF s
<1>4. TypeOK'
  BY <1>2, <1>3 DEF IInv, TypeOK
<1>5. UnbrokenRun'
  BY <1>3 DEF IInv, UnbrokenRun
<1>6. RunIsTracked'
  <2>1. CASE gov.last = Never
    BY <1>1, <1>2, <1>3, <2>1 DEF IInv, RunIsTracked, Cooling
  <2>2. CASE gov.last # Never /\ s.run = gov.run
    BY <1>2, <1>3, <2>2 DEF IInv, RunIsTracked
  <2>3. CASE gov.last # Never /\ s.run # gov.run
    <3>1. ~Cooling(gov, now) /\ (gov.cooling # Never \/ Rested(gov, now))
      BY <1>2, <2>3
    <3>2. gov.last \in Nat
      BY <1>1, <2>3 DEF Governors
    <3>3. now - gov.last >= Rest
      <4>1. CASE gov.cooling # Never
        BY <1>1, <2>3, <3>1, <3>2, <4>1 DEF IInv, RunIsTracked, Cooling, Rest, Smaller
      <4>2. CASE Rested(gov, now)
        BY <1>1, <3>2, <4>2, AirtimeAssumption DEF Rested, Since, Larger, Rest, Smaller
      <4> QED  BY <3>1, <4>1, <4>2
    <3>4. s.cooling = Never
      BY <1>2, <3>1
    <3> QED  BY <1>2, <1>3, <2>3, <3>3, <3>4 DEF RunIsTracked, Rest
  <2> QED  BY <2>1, <2>2, <2>3
<1> QED  BY <1>4, <1>5, <1>6 DEF IInv

LEMMA NextIInv == IInv /\ [Next]_vars => IInv'
<1> SUFFICES ASSUME IInv, [Next]_vars  PROVE IInv'
  OBVIOUS
<1>1. ASSUME NEW c \in Costs, Key(c)  PROVE IInv'
  BY <1>1, KeyIInv
<1>2. CASE Ask
  BY <1>2, AskIInv
<1>3. ASSUME NEW o \in Overrides \cup {0}, SetDuty(o)  PROVE IInv'
  BY <1>3 DEF SetDuty, IInv, TypeOK, UnbrokenRun, RunIsTracked, Rest
<1>4. CASE Tick
  <2>1. now \in Nat /\ gov \in Governors /\ now' = now + 1
        /\ UNCHANGED <<override, gov, keyed, unbroken>>
    BY <1>4 DEF Tick, IInv, TypeOK
  <2>2. RunIsTracked'
    <3>1. CASE gov.last = Never
      BY <2>1, <3>1 DEF IInv, RunIsTracked
    <3>2. CASE gov.last # Never
      <4>1. unbroken <= gov.run \/ now - gov.last >= Rest
        BY <3>2 DEF IInv, RunIsTracked
      <4>2. now - gov.last >= Rest => now + 1 - gov.last >= Rest
        BY <2>1, <3>2, AirtimeAssumption DEF Governors, Rest, Smaller
      <4>3. unbroken' <= gov'.run \/ now' - gov'.last >= Rest'
        <5>1. unbroken' = unbroken /\ gov' = gov /\ now' = now + 1 /\ Rest' = Rest
          BY <2>1 DEF Rest
        <5>2. Rest \in Nat /\ gov.last \in Nat /\ gov.run \in Nat /\ unbroken \in Nat
          BY <2>1, <3>2, AirtimeAssumption
          DEF Rest, Smaller, Governors, IInv, TypeOK
        <5> QED  BY <2>1, <4>1, <4>2, <5>1, <5>2
      <4>4. gov'.cooling # Never => gov'.cooling = gov'.last + Cooldown
        BY <2>1 DEF IInv, RunIsTracked
      <4> QED  BY <2>1, <3>2, <4>3, <4>4 DEF RunIsTracked
    <3> QED  BY <3>1, <3>2
  <2> QED  BY <2>1, <2>2 DEF IInv, TypeOK, UnbrokenRun
<1>5. CASE UNCHANGED vars
  BY <1>5 DEF vars, IInv, TypeOK, UnbrokenRun, RunIsTracked, Rest
<1> QED  BY <1>1, <1>2, <1>3, <1>4, <1>5 DEF Next

(* The governor and the histories keep their types; in particular the run   *)
(* it accounts for never exceeds the longest one allowed.                   *)
THEOREM TypeCorrect == Spec => []TypeOK
<1>1. IInv => TypeOK
  BY DEF IInv
<1> QED  BY <1>1, InitIInv, NextIInv, PTL DEF Spec

(* Whatever is asked of it and whenever, whatever the duty cycle is set to, *)
(* the finals are never keyed for longer than max_continuous without a rest *)
(* as long as the run gap or the cooldown.                                  *)
THEOREM RunIsBounded == Spec => []UnbrokenRun
<1>1. IInv => UnbrokenRun
  BY DEF IInv
<1> QED  BY <1>1, InitIInv, NextIInv, PTL DEF Spec

-----------------------------------------------------------------------------
(* Admission control is told the truth.  What asking changes in the governor *)
(* is not what the answer depends on: bursts that are trimmed are in no      *)
(* window any more.                                                          *)
LEMMA DutyIsNat ==
  ASSUME TypeOK
  PROVE  Duty \in Nat /\ Duty <= 50 /\ Allowance(Duty) \in Nat
<1>1. Duty \in Nat /\ Duty <= 50
  BY AirtimeAssumption DEF TypeOK, Duty, DutyLimit, Smaller, HardMaxDuty
<1>2. Window * Duty \in Nat
  BY <1>1, AirtimeAssumption
<1> QED  BY <1>1, <1>2 DEF Allowance

(* The estimate, taken apart.                                               *)
EstimatedRun == IF gov.last = Never \/ Rested(gov, now) THEN 0 ELSE gov.run
CooldownLeft == IF Cooling(gov, now) THEN gov.cooling - now ELSE 0
GapWait(c) == IF RunFull(EstimatedRun, c) THEN GapLeft(gov, now) ELSE 0
DutyWait(c) == IF DutySpent(gov, Duty, c, now)
               THEN RetryDelay(gov, now, Window, Allowance(Duty), c) ELSE 0
HourWait(c) == IF HourSpent(gov, c, now)
               THEN RetryDelay(gov, now, HourWindow, HourBudget, c) ELSE 0

LEMMA EstimateInParts ==
  ASSUME TypeOK, RunIsTracked, NEW c \in Costs
  PROVE  /\ TimeUntilClear(gov, Duty, c, now)
              = Larger(Larger(CooldownLeft, GapWait(c)), Larger(DutyWait(c), HourWait(c)))
         /\ CooldownLeft \in Nat /\ (Cooling(gov, now) => CooldownLeft > 0)
         /\ GapWait(c) \in Nat
         /\ DutyWait(c) \in Nat /\ (DutySpent(gov, Duty, c, now) <=> DutyWait(c) > 0)
         /\ HourWait(c) \in Nat /\ (HourSpent(gov, c, now) <=> HourWait(c) > 0)
<1>0. now \in Nat /\ gov \in Governors
  BY DEF TypeOK
<1>1. TimeUntilClear(gov, Duty, c, now)
        = Larger(Larger(CooldownLeft, GapWait(c)), Larger(DutyWait(c), HourWait(c)))
  BY DEF TimeUntilClear, EstimatedRun, CooldownLeft, GapWait, DutyWait, HourWait
<1>2. CooldownLeft \in Nat /\ (Cooling(gov, now) => CooldownLeft > 0)
  BY <1>0 DEF CooldownLeft, Cooling, Governors
<1>3. GapWait(c) \in Nat
  BY <1>0, AirtimeAssumption DEF GapWait, GapLeft, Larger, Governors, Never
<1>4. DutyWait(c) \in Nat /\ (DutySpent(gov, Duty, c, now) <=> DutyWait(c) > 0)
  <2>1. RetryDelay(gov, now, Window, Allowance(Duty), c) \in Nat \ {0}
    BY <1>0, RetryTakesTime, SpansAreRetained
  <2> QED  BY <2>1 DEF DutyWait
<1>5. HourWait(c) \in Nat /\ (HourSpent(gov, c, now) <=> HourWait(c) > 0)
  <2>1. RetryDelay(gov, now, HourWindow, HourBudget, c) \in Nat \ {0}
    BY <1>0, RetryTakesTime, SpansAreRetained
  <2> QED  BY <2>1 DEF HourWait
<1> QED  BY <1>1, <1>2, <1>3, <1>4, <1>5

(* Never a shorter wait than check() imposes, nor "clear" when it refuses;  *)
(* and when a cooldown lasts as long as the gap, "clear" whenever it sends. *)
LEMMA EstimateAgrees ==
  ASSUME IInv, OffAir, NEW c \in Costs
  PROVE  LET wait == TimeUntilClear(gov, Duty, c, now)
             delay == Delay(Settle(gov, now), Duty, c, now)
         IN /\ wait >= delay
            /\ wait = 0 => delay = 0
            /\ RunGap <= Cooldown /\ delay = 0 => wait = 0
<1> DEFINE s == Settle(gov, now)
           wait == TimeUntilClear(gov, Duty, c, now)
           delay == Delay(s, Duty, c, now)
           Agree == /\ wait >= delay
                    /\ wait = 0 => delay = 0
                    /\ RunGap <= Cooldown /\ delay = 0 => wait = 0
<1> SUFFICES Agree
  OBVIOUS
<1>1. now \in Nat /\ gov \in Governors /\ TypeOK /\ RunIsTracked
  BY DEF IInv, TypeOK
<1>2. /\ s \in Governors /\ s.last = gov.last
      /\ s.cooling = IF Cooling(gov, now) THEN gov.cooling ELSE Never
      /\ s.run = IF ~Cooling(gov, now) /\ (gov.cooling # Never \/ Rested(gov, now))
                 THEN 0 ELSE gov.run
  BY <1>1, SettleKeeps
<1>3. /\ DutySpent(s, Duty, c, now) <=> DutySpent(gov, Duty, c, now)
      /\ HourSpent(s, c, now) <=> HourSpent(gov, c, now)
      /\ RetryDelay(s, now, Window, Allowance(Duty), c)
           = RetryDelay(gov, now, Window, Allowance(Duty), c)
      /\ RetryDelay(s, now, HourWindow, HourBudget, c)
           = RetryDelay(gov, now, HourWindow, HourBudget, c)
  <2>1. /\ Live(s, now, Window) = Live(gov, now, Window)
        /\ Live(s, now, HourWindow) = Live(gov, now, HourWindow)
    BY <1>1, SpansAreRetained, SettleSeesTheSame
  <2> HIDE DEF s
  <2> QED  BY <2>1 DEF DutySpent, HourSpent, Exceeds, RetryDelay
<1>4. Cooling(s, now) <=> Cooling(gov, now)
  BY <1>2 DEF Cooling
<1>5. GapLeft(s, now) = GapLeft(gov, now)
  BY <1>2 DEF GapLeft
<1> HIDE DEF s
<1>6. /\ wait = Larger(Larger(CooldownLeft, GapWait(c)), Larger(DutyWait(c), HourWait(c)))
      /\ CooldownLeft \in Nat /\ (Cooling(gov, now) => CooldownLeft > 0)
      /\ GapWait(c) \in Nat
      /\ DutyWait(c) \in Nat /\ (DutySpent(gov, Duty, c, now) <=> DutyWait(c) > 0)
      /\ HourWait(c) \in Nat /\ (HourSpent(gov, c, now) <=> HourWait(c) > 0)
  BY <1>1, EstimateInParts
<1>7. /\ wait \in Nat /\ wait >= CooldownLeft /\ wait >= GapWait(c)
      /\ wait >= DutyWait(c) /\ wait >= HourWait(c)
      /\ (CooldownLeft = 0 /\ GapWait(c) = 0 /\ DutyWait(c) = 0 /\ HourWait(c) = 0) => wait = 0
  BY <1>6 DEF Larger
<1> HIDE DEF wait
<1>8. CASE Cooling(gov, now)
  <2>1. delay = gov.cooling - now /\ CooldownLeft = gov.cooling - now
    BY <1>2, <1>4, <1>8, DelayInOrder DEF CooldownLeft
  <2> QED  BY <1>6, <1>7, <1>8, <2>1
<1>9. CASE ~Cooling(gov, now)
  <2>1. CooldownLeft = 0
    BY <1>9 DEF CooldownLeft
  <2>2. /\ gov.run \in Nat /\ gov.last \in Nat \cup {Never}
        /\ gov.cooling \in Nat \cup {Never} /\ c \in Nat /\ c > 0
        /\ RunGap \in Nat /\ Cooldown \in Nat /\ MaxContinuous \in Nat
    BY <1>1, AirtimeAssumption DEF Governors
  <2>3. CASE RunFull(s.run, c)
    <3>1. delay = Larger(GapLeft(gov, now), 1)
      BY <1>4, <1>5, <1>9, <2>3, DelayInOrder
    <3>2. s.run = gov.run /\ gov.run > 0 /\ gov.cooling = Never /\ ~Rested(gov, now)
      BY <1>2, <1>9, <2>2, <2>3 DEF RunFull
    <3>3. gov.last # Never
      BY <1>1, <3>2 DEF RunIsTracked
    <3>4. EstimatedRun = s.run
      BY <3>2, <3>3 DEF EstimatedRun
    <3>5. GapWait(c) = GapLeft(gov, now)
      BY <2>3, <3>4 DEF GapWait
    <3>6. GapLeft(gov, now) > 0
      BY <1>1, <2>2, <3>2, <3>3 DEF GapLeft, Rested, Since, Larger, Never, OffAir
    <3> QED  BY <1>6, <1>7, <3>1, <3>5, <3>6 DEF Larger
  <2>4. CASE ~RunFull(s.run, c)
    <3>1. IF DutySpent(gov, Duty, c, now) THEN delay = DutyWait(c)
          ELSE IF HourSpent(gov, c, now) THEN delay = HourWait(c)
          ELSE delay = 0
      BY <1>3, <1>4, <1>9, <2>4, DelayInOrder DEF DutyWait, HourWait
    <3>2. RunGap <= Cooldown => GapWait(c) = 0
      <4>1. SUFFICES ASSUME RunGap <= Cooldown, RunFull(EstimatedRun, c)  PROVE FALSE
        BY DEF GapWait
      <4>2. EstimatedRun = gov.run /\ gov.last # Never /\ ~Rested(gov, now)
        BY <4>1 DEF EstimatedRun, RunFull
      <4>3. gov.cooling # Never
        BY <1>2, <1>9, <2>4, <4>1, <4>2
      <4>4. gov.cooling = gov.last + Cooldown /\ now >= gov.cooling
        BY <1>1, <1>9, <2>2, <4>3 DEF RunIsTracked, Cooling
      <4> QED  BY <1>1, <2>2, <4>1, <4>2, <4>4 DEF Rested, Since, Larger, Never
    <3> QED  BY <1>6, <1>7, <2>1, <3>1, <3>2
  <2> QED  BY <2>3, <2>4
<1> QED  BY <1>8, <1>9

(* While nothing is on the air, admission control is never told a shorter   *)
(* wait than the pump will be given, nor "clear" when it would be refused.  *)
(* It is told "clear" whenever the pump may send if the cooldown is not     *)
(* shorter than RUN_GAP: the estimate waits out the gap, check() does not   *)
(* once a cooldown is over.                                                 *)
THEOREM EstimatesAreHonest ==
  ASSUME RunGap <= Cooldown
  PROVE  Spec => []EstimateIsHonest
<1>1. IInv => EstimateIsHonest
  <2> SUFFICES ASSUME IInv, OffAir, NEW c \in Costs
               PROVE  LET wait == TimeUntilClear(gov, Duty, c, now)
                          delay == Delay(Settle(gov, now), Duty, c, now)
                      IN (wait = 0 <=> delay = 0) /\ wait >= delay
    BY DEF EstimateIsHonest
  <2> QED  BY EstimateAgrees
<1> QED  BY <1>1, InitIInv, NextIInv, PTL DEF Spec

-----------------------------------------------------------------------------
(* The ceilings.  The airtime of a window and the key-down time in it are   *)
(* sums, and the one bounds the other: every transmission that reaches into *)
(* the window is a burst that is still remembered.                          *)
Lengths(B) == [b \in B |-> b.len]

LEMMA AirtimeIsSum ==
  ASSUME NEW B \in SUBSET Bursts, IsFiniteSet(B)
  PROVE  Airtime(B) = SumOver(Lengths(B), B)
<1> DEFINE Folds(g) == g = [s \in SUBSET B |->
                  IF s = {} THEN 0
                  ELSE LET x == CHOOSE x \in s : TRUE IN x.len + g[s \ {x}]]
           G == CHOOSE g : Folds(g)
<1>1. Airtime(B) = G[B]
  BY DEF Airtime, MapThenSumSet, MapThenFoldSet
<1>2. \A g : Folds(g) <=> IsSum(g, Lengths(B), B)
  <2>1. \A s \in SUBSET B : s # {} => Lengths(B)[Some(s)] = Some(s).len
    BY SomeIsIn DEF Lengths
  <2> QED  BY <2>1 DEF IsSum, Some
<1> HIDE DEF Folds
<1>3. \E g : Folds(g)
  BY <1>2, SumExists
<1>4. IsSum(G, Lengths(B), B)
  BY <1>2, <1>3
<1>5. B \in SUBSET B /\ \A b \in B : Lengths(B)[b] \in Int
  BY DEF Lengths, Bursts
<1> HIDE DEF G
<1> QED  BY <1>1, <1>4, <1>5, SumOfPart

Overlap(t, from, to) == Larger(Smaller(t.end, to) - Larger(t.start, from), 0)
Overlaps(K, from, to) == [t \in K |-> Overlap(t, from, to)]

LEMMA KeyDownIsSum ==
  ASSUME NEW K \in SUBSET Transmissions, IsFiniteSet(K),
         NEW from \in Int, NEW to \in Int
  PROVE  KeyDown(K, from, to) = SumOver(Overlaps(K, from, to), K)
<1> DEFINE Folds(g) == g = [s \in SUBSET K |->
                  IF s = {} THEN 0
                  ELSE LET x == CHOOSE x \in s : TRUE
                       IN Larger(Smaller(x.end, to) - Larger(x.start, from), 0) + g[s \ {x}]]
           G == CHOOSE g : Folds(g)
           w == Overlaps(K, from, to)
<1>1. KeyDown(K, from, to) = G[K]
  BY DEF KeyDown, MapThenSumSet, MapThenFoldSet
<1>2. \A g : Folds(g) <=> IsSum(g, w, K)
  <2>1. \A s \in SUBSET K : s # {} =>
          w[Some(s)] = Larger(Smaller(Some(s).end, to) - Larger(Some(s).start, from), 0)
    BY SomeIsIn DEF Overlaps, Overlap
  <2> HIDE DEF w
  <2> QED  BY <2>1 DEF IsSum, Some
<1> HIDE DEF Folds
<1>3. \E g : Folds(g)
  BY <1>2, SumExists
<1>4. IsSum(G, w, K)
  BY <1>2, <1>3
<1>5. K \in SUBSET K /\ \A t \in K : w[t] \in Int
  BY DEF Overlaps, Overlap, Transmissions, Larger, Smaller
<1> HIDE DEF G, w
<1>6. SumOver(w, K) = G[K]
  BY <1>4, <1>5, SumOfPart
<1> QED  BY <1>1, <1>6 DEF w

BurstOf(t) == [end |-> t.end, len |-> t.end - t.start]

(* What is remembered of the transmissions made: they do not overlap, and   *)
(* the recent ones are all there.                                           *)
Remembered ==
  /\ IsFiniteSet(keyed) /\ IsFiniteSet(gov.bursts)
  /\ \A t \in keyed : t.start < t.end /\ gov.last # Never /\ t.end <= gov.last
  /\ \A t, u \in keyed : t = u \/ t.end <= u.start \/ u.end <= t.start
  /\ \A t \in keyed : Since(t.end, now) <= Retention => BurstOf(t) \in gov.bursts

(* Whatever has room in a window still has when it has been sent.           *)
LEMMA RoomIsEnough ==
  ASSUME IInv, Remembered, OffAir, NEW c \in Costs,
         NEW span \in Nat, span <= Retention, NEW allowed \in Nat,
         ~Exceeds(Settle(gov, now), now, span, allowed, c)
  PROVE  LET K == keyed \cup {[start |-> now, end |-> now + c]}
         IN KeyDown(K, now + c - span, now + c) <= allowed
<1> DEFINE new == [start |-> now, end |-> now + c]
           K == keyed \cup {new}
           from == now + c - span
           to == now + c
           w == Overlaps(K, from, to)
           live == Live(gov, now, span)
           v == Lengths(live)
           m == [t \in keyed |-> BurstOf(t)]
<1>1. /\ now \in Nat /\ gov \in Governors /\ c \in Nat /\ c > 0
      /\ keyed \in SUBSET Transmissions /\ IsFiniteSet(keyed)
      /\ from \in Int /\ to \in Int
  BY AirtimeAssumption DEF IInv, TypeOK, Remembered
<1>2. live \in SUBSET Bursts /\ IsFiniteSet(live)
  BY <1>1, FS_Subset DEF Live, Governors, Remembered
<1>3. Airtime(live) + c <= allowed /\ SumOver(v, live) = Airtime(live)
  <2>1. Live(Settle(gov, now), now, span) = live
    BY <1>1, SettleSeesTheSame
  <2>2. SumOver(v, live) = Airtime(live)
    BY <1>2, AirtimeIsSum
  <2>3. Airtime(live) \in Int
    <3>1. \A b \in live : v[b] \in Int
      BY <1>2 DEF Lengths, Bursts
    <3> HIDE DEF v, live
    <3> QED  BY <1>2, <2>2, <3>1, SumIsInt
  <2> QED  BY <1>1, <2>1, <2>2, <2>3 DEF Exceeds
<1>4. K \in SUBSET Transmissions /\ IsFiniteSet(K) /\ new \notin keyed
  <2>1. new \in Transmissions
    BY <1>1 DEF Transmissions
  <2>2. new \notin keyed
    BY <1>1 DEF Remembered, OffAir, Governors, Never
  <2> QED  BY <1>1, <2>1, <2>2, FS_AddElement
<1>5. KeyDown(K, from, to) = SumOver(w, K)
  BY <1>1, <1>4, KeyDownIsSum
<1>6. \A t \in K : w[t] \in Int
  BY <1>1, <1>4 DEF Overlaps, Overlap, Transmissions, Larger, Smaller
<1>7. w[new] <= c
  BY <1>1, <1>4 DEF Overlaps, Overlap, Larger, Smaller
<1>8. SumOver(w, keyed) <= SumOver(v, live)
  <2>1. ASSUME NEW t \in keyed, w[t] > 0
        PROVE  m[t] \in live /\ w[t] <= v[m[t]]
    <3>1. t.end \in Nat /\ t.start \in Nat /\ t.start < t.end
      BY <1>1 DEF Transmissions, Remembered
    <3>2. w[t] = Overlap(t, from, to)
      BY DEF Overlaps
    <3>3. t.end > from /\ w[t] <= t.end - t.start
      BY <1>1, <2>1, <3>1, <3>2 DEF Overlap, Larger, Smaller
    <3>4. t.end <= now
      BY <1>1, <3>1 DEF Remembered, OffAir, Governors, Never
    <3>5. Since(t.end, now) <= span
      BY <1>1, <3>1, <3>3, <3>4 DEF Since, Larger
    <3>6. BurstOf(t) \in gov.bursts
      BY <1>1, <3>1, <3>5, SpansAreRetained DEF Remembered, Since, Larger
    <3>7. BurstOf(t) \in live
      BY <3>5, <3>6 DEF Live, BurstOf
    <3> QED  BY <3>3, <3>7 DEF Lengths, BurstOf
  <2>2. ASSUME NEW t \in keyed, NEW u \in keyed, m[t] = m[u]  PROVE t = u
    <3>1. t.end = u.end
      BY <2>2 DEF BurstOf
    <3>2. /\ t.end \in Nat /\ t.start \in Nat /\ t.start < t.end
          /\ u.end \in Nat /\ u.start \in Nat /\ u.start < u.end
      BY <1>1 DEF Transmissions, Remembered
    <3> QED  BY <3>1, <3>2 DEF Remembered
  <2>3. \A b \in live : v[b] \in Nat
    BY <1>2 DEF Lengths, Bursts
  <2>4. /\ \A t \in keyed : w[t] \in Int
        /\ \A t \in keyed : w[t] > 0 =>
             /\ m[t] \in live
             /\ w[t] <= v[m[t]]
             /\ \A u \in keyed : w[u] > 0 /\ m[t] = m[u] => t = u
    BY <1>6, <2>1, <2>2
  <2> HIDE DEF w, v, m, live
  <2> QED  BY <1>1, <1>2, <2>3, <2>4, SumInjected
<1>9. SumOver(w, K) = SumOver(w, keyed) + w[new]
  <2> HIDE DEF w, new
  <2> QED  BY <1>1, <1>4, <1>6, SumAdd
<1>10. SumOver(w, keyed) \in Int /\ w[new] \in Int /\ SumOver(v, live) \in Int
  <2>1. (\A t \in keyed : w[t] \in Int) /\ w[new] \in Int
    BY <1>6
  <2>2. \A b \in live : v[b] \in Int
    BY <1>2 DEF Lengths, Bursts
  <2> HIDE DEF w, v, live, new
  <2> QED  BY <1>1, <1>2, <2>1, <2>2, SumIsInt
<1> HIDE DEF w, v, live, new
<1> QED  BY <1>1, <1>3, <1>5, <1>7, <1>8, <1>9, <1>10 DEF new

CeilingInv == IInv /\ Remembered /\ DutyCeiling /\ HourCeiling

LEMMA InitCeiling == Init => CeilingInv
<1> SUFFICES ASSUME Init  PROVE CeilingInv
  OBVIOUS
<1>1. IInv
  BY InitIInv
<1>2. keyed = {} /\ gov = NewGovernor /\ now = 0
  BY DEF Init
<1>3. Remembered
  BY <1>2, FS_EmptySet DEF Remembered, NewGovernor
<1>4. \A from, to \in Int : KeyDown(keyed, from, to) = 0
  <2> TAKE from, to \in Int
  <2>1. KeyDown(keyed, from, to) = SumOver(Overlaps(keyed, from, to), keyed)
    BY <1>2, FS_EmptySet, KeyDownIsSum
  <2> QED  BY <1>2, <2>1, SumEmpty
<1>5. Within(Window) = 0 /\ Within(Hour) = 0
  BY <1>2, <1>4, AirtimeAssumption DEF Within, LatestEnd, NewGovernor
<1>6. DutyCeiling /\ HourCeiling
  BY <1>5, AirtimeAssumption DEF DutyCeiling, HourCeiling
<1> QED  BY <1>1, <1>3, <1>6 DEF CeilingInv

(* A step that makes no transmission leaves the windows as they are.        *)
LEMMA SilentStepKeepsCeilings ==
  ASSUME DutyCeiling, HourCeiling, keyed' = keyed, gov'.last = gov.last
  PROVE  DutyCeiling' /\ HourCeiling'
<1>1. LatestEnd' = LatestEnd
  BY DEF LatestEnd
<1>2. /\ Within(Window) = KeyDown(keyed, LatestEnd - Window, LatestEnd)
      /\ Within(Hour) = KeyDown(keyed, LatestEnd - Hour, LatestEnd)
      /\ Within(Window)' = KeyDown(keyed', LatestEnd' - Window, LatestEnd')
      /\ Within(Hour)' = KeyDown(keyed', LatestEnd' - Hour, LatestEnd')
  BY DEF Within
<1>3. Within(Window)' = Within(Window) /\ Within(Hour)' = Within(Hour)
  BY <1>1, <1>2
<1> QED  BY <1>3 DEF DutyCeiling, HourCeiling

LEMMA KeyCeiling ==
  ASSUME CeilingInv, NEW c \in Costs, Key(c)
  PROVE  Remembered' /\ DutyCeiling' /\ HourCeiling'
<1> DEFINE s == Settle(gov, now)
           new == [start |-> now, end |-> now + c]
<1>1. /\ now \in Nat /\ gov \in Governors /\ c \in Nat /\ c > 0 /\ TypeOK
      /\ keyed \in SUBSET Transmissions /\ IInv /\ Remembered /\ OffAir
      /\ now' = now /\ keyed' = keyed \cup {new}
  BY AirtimeAssumption DEF CeilingInv, IInv, TypeOK, Key
<1>2. s \in Governors /\ s.last = gov.last
  BY <1>1, SettleKeeps
<1>3. Delay(s, Duty, c, now) = 0 /\ gov' = Record(s, c, now)
  BY DEF Key, Clear
<1>4. ~RunFull(s.run, c) /\ ~DutySpent(s, Duty, c, now) /\ ~HourSpent(s, c, now)
  <2> HIDE DEF s
  <2> QED  BY <1>1, <1>2, <1>3, SendHasRoom, SendIsWithinLimits
<1>5. gov'.last = now + c /\ gov' \in Governors
  <2> HIDE DEF s
  <2> QED  BY <1>1, <1>2, <1>3, <1>4, RecordKeeps
<1>6. /\ Within(Window)' = KeyDown(keyed', now + c - Window, now + c)
      /\ Within(Hour)' = KeyDown(keyed', now + c - Hour, now + c)
  <2>1. LatestEnd' = now + c
    BY <1>1, <1>5 DEF LatestEnd, Never
  <2>2. /\ Within(Window)' = KeyDown(keyed', LatestEnd' - Window, LatestEnd')
        /\ Within(Hour)' = KeyDown(keyed', LatestEnd' - Hour, LatestEnd')
    BY DEF Within
  <2>3. /\ LatestEnd' - Window = now + c - Window
        /\ LatestEnd' - Hour = now + c - Hour
    BY <1>1, <2>1, AirtimeAssumption
  <2>4. Within(Window)' = KeyDown(keyed', now + c - Window, now + c)
    BY <2>1, <2>2, <2>3, Zenon
  <2>5. Within(Hour)' = KeyDown(keyed', now + c - Hour, now + c)
    BY <2>1, <2>2, <2>3, Zenon
  <2> QED  BY <2>4, <2>5
<1>7. keyed' \in SUBSET Transmissions /\ IsFiniteSet(keyed') /\ Remembered'
  <2>1. new \in Transmissions
    BY <1>1 DEF Transmissions
  <2>2. IsFiniteSet(keyed')
    BY <1>1, FS_AddElement DEF Remembered
  <2>3. gov'.bursts = {b \in s.bursts \cup {BurstOf(new)} : Since(b.end, now) <= Retention}
    <3>1. BurstOf(new) = [end |-> now + c, len |-> c]
      BY <1>1 DEF BurstOf
    <3> HIDE DEF s, new
    <3> QED  BY <1>3, <3>1 DEF Record, Trim
  <2>4. /\ s.bursts \subseteq gov.bursts
        /\ \A b \in gov.bursts : Since(b.end, now) <= Retention => b \in s.bursts
    <3>1. s.bursts = {b \in gov.bursts : Since(b.end, now) <= Retention}
      BY <1>1, SettleForgets
    <3> QED  BY <3>1
  <2> HIDE DEF s
  <2>5. IsFiniteSet(gov'.bursts)
    <3>1. IsFiniteSet(s.bursts)
      BY <1>1, <2>4, FS_Subset DEF Remembered
    <3>2. IsFiniteSet(s.bursts \cup {BurstOf(new)})
      BY <3>1, FS_AddElement
    <3> QED  BY <2>3, <3>2, FS_Subset
  <2>6. \A t \in keyed' : t.start < t.end /\ gov'.last # Never /\ t.end <= gov'.last
    <3>1. \A t \in keyed : t.start < t.end /\ t.end <= now /\ t.end \in Nat
      BY <1>1 DEF Remembered, OffAir, Transmissions, Governors, Never
    <3> QED  BY <1>1, <1>5, <3>1 DEF Never
  <2>7. \A t, u \in keyed' : t = u \/ t.end <= u.start \/ u.end <= t.start
    <3>1. \A t \in keyed : t.end <= new.start
      BY <1>1 DEF Remembered, OffAir, Transmissions, Governors, Never
    <3> HIDE DEF new
    <3> QED  BY <1>1, <3>1 DEF Remembered
  <2>8. \A t \in keyed' : Since(t.end, now) <= Retention => BurstOf(t) \in gov'.bursts
    <3>1. ASSUME NEW t \in keyed, Since(t.end, now) <= Retention
          PROVE  BurstOf(t) \in gov'.bursts
      <4>1. BurstOf(t) \in s.bursts
        BY <1>1, <2>4, <3>1 DEF Remembered, BurstOf
      <4> QED  BY <2>3, <3>1, <4>1 DEF BurstOf
    <3>2. Since(new.end, now) <= Retention => BurstOf(new) \in gov'.bursts
      BY <2>3 DEF BurstOf
    <3> HIDE DEF new
    <3> QED  BY <1>1, <3>1, <3>2
  <2>9. Remembered'
    BY <1>1, <2>2, <2>5, <2>6, <2>7, <2>8 DEF Remembered
  <2> QED  BY <1>1, <2>1, <2>2, <2>9
<1>8. \A from, to \in Int : KeyDown(keyed', from, to) \in Int
  <2> TAKE from, to \in Int
  <2> DEFINE w == Overlaps(keyed', from, to)
  <2>1. KeyDown(keyed', from, to) = SumOver(w, keyed')
    BY <1>7, KeyDownIsSum
  <2>2. \A t \in keyed' : w[t] \in Int
    BY <1>7 DEF Overlaps, Overlap, Transmissions, Larger, Smaller
  <2> HIDE DEF w
  <2> QED  BY <1>7, <2>1, <2>2, SumIsInt
<1>9. DutyCeiling'
  <2>1. Allowance(Duty) \in Nat /\ Duty \in Nat /\ Duty <= 50
    BY <1>1, DutyIsNat
  <2>2. KeyDown(keyed', now + c - Window, now + c) <= Allowance(Duty)
    BY <1>1, <1>4, <2>1, SpansAreRetained, RoomIsEnough DEF DutySpent
  <2>3. KeyDown(keyed', now + c - Window, now + c) \in Int
    <3>1. now + c - Window \in Int /\ now + c \in Int
      BY <1>1, AirtimeAssumption
    <3> HIDE DEF new
    <3> QED  BY <1>8, <3>1
  <2>4. 2 * Allowance(Duty) <= Window
    <3>1. Window \in Nat /\ Window * Duty <= Window * 50
      BY <2>1, AirtimeAssumption
    <3> DEFINE x == Window * Duty
    <3>2. x \in Nat /\ x <= 50 * Window
      BY <2>1, <3>1
    <3> HIDE DEF x
    <3>3. 2 * (x \div 100) <= Window
      BY <3>1, <3>2
    <3> QED  BY <3>3 DEF x, Allowance
  <2> QED  BY <1>6, <2>1, <2>2, <2>3, <2>4, AirtimeAssumption DEF DutyCeiling
<1>10. HourCeiling'
  <2>1. SUFFICES ASSUME HourBudget # 0  PROVE KeyDown(keyed', now + c - Hour, now + c) <= HourBudget
    BY <1>6 DEF HourCeiling
  <2>2. HourWindow = Hour /\ Hour \in Nat /\ HourBudget \in Nat
    BY <2>1, AirtimeAssumption DEF HourWindow
  <2>3. ~Exceeds(s, now, Hour, HourBudget, c)
    BY <1>4, <2>1, <2>2 DEF HourSpent
  <2> QED  BY <1>1, <2>2, <2>3, SpansAreRetained, RoomIsEnough
<1> QED  BY <1>7, <1>9, <1>10

LEMMA AskCeiling ==
  ASSUME CeilingInv, Ask
  PROVE  Remembered' /\ DutyCeiling' /\ HourCeiling'
<1>1. /\ now \in Nat /\ gov \in Governors /\ Remembered
      /\ gov' = Settle(gov, now) /\ UNCHANGED <<now, override, keyed, unbroken>>
  BY DEF CeilingInv, IInv, TypeOK, Ask
<1>2. /\ gov'.last = gov.last
      /\ gov'.bursts = {b \in gov.bursts : Since(b.end, now) <= Retention}
  BY <1>1, SettleKeeps, SettleForgets
<1>3. IsFiniteSet(gov'.bursts)
  BY <1>1, <1>2, FS_Subset DEF Remembered
<1>4. \A t \in keyed : Since(t.end, now) <= Retention => BurstOf(t) \in gov'.bursts
  BY <1>1, <1>2 DEF Remembered, BurstOf
<1>5. Remembered'
  BY <1>1, <1>2, <1>3, <1>4 DEF Remembered
<1> QED  BY <1>1, <1>2, <1>5, SilentStepKeepsCeilings DEF CeilingInv

LEMMA NextCeiling == CeilingInv /\ [Next]_vars => CeilingInv'
<1> SUFFICES ASSUME CeilingInv, [Next]_vars  PROVE CeilingInv'
  OBVIOUS
<1>0. IInv'
  BY NextIInv DEF CeilingInv
<1>1. ASSUME NEW c \in Costs, Key(c)  PROVE Remembered' /\ DutyCeiling' /\ HourCeiling'
  BY <1>1, KeyCeiling
<1>2. CASE Ask
  BY <1>2, AskCeiling, <1>0 DEF CeilingInv
<1>3. ASSUME NEW o \in Overrides \cup {0}, SetDuty(o)
      PROVE  Remembered' /\ DutyCeiling' /\ HourCeiling'
  <2>1. UNCHANGED <<now, gov, keyed>>
    BY <1>3 DEF SetDuty
  <2> QED  BY <2>1, SilentStepKeepsCeilings DEF CeilingInv, Remembered
<1>4. CASE Tick
  <2>1. now' = now + 1 /\ UNCHANGED <<gov, keyed>> /\ now \in Nat /\ keyed \in SUBSET Transmissions
    BY <1>4 DEF Tick, CeilingInv, IInv, TypeOK
  <2>2. \A t \in keyed : Since(t.end, now) <= Since(t.end, now + 1)
    BY <2>1 DEF Since, Larger, Transmissions
  <2>3. \A t \in keyed : Since(t.end, now) \in Nat /\ Since(t.end, now + 1) \in Nat
    BY <2>1 DEF Since, Larger, Transmissions
  <2>4. \A t \in keyed : Since(t.end, now + 1) <= Retention => BurstOf(t) \in gov.bursts
    BY <2>2, <2>3, SpansAreRetained DEF CeilingInv, Remembered
  <2>5. Remembered'
    BY <2>1, <2>4 DEF CeilingInv, Remembered
  <2> QED  BY <1>0, <2>1, <2>5, SilentStepKeepsCeilings DEF CeilingInv
<1>5. CASE UNCHANGED vars
  <2>1. UNCHANGED <<now, gov, keyed>>
    BY <1>5 DEF vars
  <2> QED  BY <1>0, <2>1, SilentStepKeepsCeilings DEF CeilingInv, Remembered
<1> QED  BY <1>0, <1>1, <1>2, <1>3, <1>4, <1>5 DEF Next, CeilingInv

(* However the traffic falls and whatever the operator does to the duty     *)
(* cycle, the transmitter is keyed for at most half of the duty window that *)
(* ends with the latest transmission: HARD_MAX_DUTY, for every window,      *)
(* max_duty and override.                                                   *)
THEOREM DutyIsBounded == Spec => []DutyCeiling
<1>1. CeilingInv => DutyCeiling
  BY DEF CeilingInv
<1> QED  BY <1>1, InitCeiling, NextCeiling, PTL DEF Spec

(* ... and for at most the hourly budget in the hour that ends with it,     *)
(* though bursts are forgotten and the duty window may be the longer one.   *)
THEOREM HourIsBounded == Spec => []HourCeiling
<1>1. CeilingInv => HourCeiling
  BY DEF CeilingInv
<1> QED  BY <1>1, InitCeiling, NextCeiling, PTL DEF Spec

-----------------------------------------------------------------------------
(* A deferral ends.  Airtime only leaves a window as time passes, and the   *)
(* wait for a window is for as much of it to leave as the frame needs.      *)
LEMMA AirtimeOfPart ==
  ASSUME NEW B \in SUBSET Bursts, IsFiniteSet(B), NEW A \in SUBSET B
  PROVE  /\ Airtime(A) \in Nat /\ Airtime(B) \in Nat
         /\ Airtime(A) <= Airtime(B)
<1>1. IsFiniteSet(A) /\ A \in SUBSET Bursts
  BY FS_Subset
<1>2. Airtime(A) = SumOver(Lengths(A), A) /\ Airtime(B) = SumOver(Lengths(B), B)
  BY <1>1, AirtimeIsSum
<1>3. /\ \A b \in B : Lengths(B)[b] \in Nat
      /\ \A b \in A : /\ Lengths(A)[b] \in Nat /\ Lengths(A)[b] \in Int
                      /\ Lengths(B)[b] = Lengths(A)[b]
  BY <1>1 DEF Lengths, Bursts
<1> DEFINE v == Lengths(B)
           w == Lengths(A)
<1> HIDE DEF v, w
<1>4. SumOver(v, A) = SumOver(w, A)
  BY <1>1, <1>3, SumSame DEF v, w
<1>5. SumOver(v, A) <= SumOver(v, B)
  BY <1>3, SumPart DEF v
<1>6. SumOver(v, B) \in Nat /\ SumOver(w, A) \in Nat
  BY <1>1, <1>3, SumIsNat DEF v, w
<1> QED  BY <1>2, <1>4, <1>5, <1>6 DEF v, w

LEMMA EndsAreFinite ==
  ASSUME NEW B, IsFiniteSet(B)
  PROVE  IsFiniteSet({b.end : b \in B})
<1> DEFINE T == {A \in SUBSET B : IsFiniteSet({b.end : b \in A})}
<1>1. {} \in T
  <2>1. {b.end : b \in {}} = {}
    OBVIOUS
  <2> QED  BY <2>1, FS_EmptySet
<1>2. ASSUME NEW A \in T, NEW x \in B \ A  PROVE A \cup {x} \in T
  <2>1. {b.end : b \in A \cup {x}} = {b.end : b \in A} \cup {x.end}
    OBVIOUS
  <2>2. IsFiniteSet({b.end : b \in A} \cup {x.end})
    BY FS_AddElement
  <2> QED  BY <2>1, <2>2
<1>3. T \in SUBSET (SUBSET B)
  OBVIOUS
<1>4. B \in T
  <2> HIDE DEF T
  <2> QED  BY <1>1, <1>2, <1>3, FiniteByInduction
<1> QED  BY <1>4

(* The wait for a window is until a burst leaves it, after which there is   *)
(* room for the frame.                                                      *)
LEMMA WaitIsForRoom ==
  ASSUME CeilingInv, NEW c \in Costs,
         NEW span \in Nat, span <= Retention, NEW allowed \in Nat, c <= allowed,
         Exceeds(gov, now, span, allowed, c)
  PROVE  \E d \in Live(gov, now, span) :
           /\ RetryDelay(gov, now, span, allowed, c)
                = Larger(Since(now, d.end + span), MinDelay)
           /\ Airtime({b \in Live(gov, now, span) : b.end > d.end}) + c <= allowed
<1> DEFINE live == Live(gov, now, span)
           after(x) == {b \in live : b.end > x}
           room == {x \in {b.end : b \in live} : Airtime(after(x)) + c <= allowed}
<1>1. /\ c \in Nat /\ live \in SUBSET Bursts /\ IsFiniteSet(live)
  <2>1. gov.bursts \in SUBSET Bursts /\ IsFiniteSet(gov.bursts) /\ live \in SUBSET gov.bursts
    BY DEF CeilingInv, IInv, TypeOK, Remembered, Governors, Live
  <2> QED  BY <2>1, FS_Subset, AirtimeAssumption
<1>2. Airtime({}) = 0
  BY FS_EmptySet, AirtimeIsSum, SumEmpty
<1>3. live # {}
  BY <1>1, <1>2 DEF Exceeds
<1>4. room # {}
  <2> DEFINE ends == {b.end : b \in live}
  <2>1. ends \in SUBSET Nat /\ ends # {}
    BY <1>1, <1>3 DEF Bursts
  <2>2. IsFiniteSet(ends)
    BY <1>1, EndsAreFinite
  <2>3. PICK x \in ends : \A y \in ends : y <= x
    <3> HIDE DEF ends
    <3> QED  BY <2>1, <2>2, FiniteGreatest
  <2>4. after(x) = {}
    BY <1>1, <2>3 DEF Bursts
  <2>5. Airtime(after(x)) = 0
    BY <1>2, <2>4, Zenon
  <2>6. Airtime(after(x)) + c <= allowed
    BY <1>1, <2>5
  <2>7. x \in room
    BY <2>3, <2>6
  <2> QED  BY <2>7
<1>5. Min(room) \in room
  <2>1. room \in SUBSET Nat
    BY <1>1 DEF Bursts
  <2> HIDE DEF room
  <2>2. PICK x \in room : \A y \in room : x <= y
    BY <1>4, <2>1, NatLeast
  <2> QED  BY <2>1, <2>2 DEF Min
<1>6. RetryDelay(gov, now, span, allowed, c) = Larger(Since(now, Min(room) + span), MinDelay)
  BY <1>4 DEF RetryDelay
<1>7. PICK d \in live : d.end = Min(room) /\ Airtime(after(d.end)) + c <= allowed
  <2> DEFINE m == Min(room)
  <2>1. m \in room
    BY <1>5
  <2> HIDE DEF m, live
  <2> QED  BY <2>1 DEF m
<1> QED  BY <1>6, <1>7

(* What is in a window later is what was in it and has not left.            *)
LEMMA WindowEmpties ==
  ASSUME CeilingInv, NEW span \in Nat, span <= Retention, NEW t \in Nat, t >= now
  PROVE  /\ Live(gov, now, span) \in SUBSET Bursts /\ IsFiniteSet(Live(gov, now, span))
         /\ Live(Settle(gov, t), t, span)
              = {b \in Live(gov, now, span) : b.end + span >= t}
<1>1. /\ now \in Nat /\ gov \in Governors
      /\ gov.bursts \in SUBSET Bursts /\ IsFiniteSet(gov.bursts)
  BY DEF CeilingInv, IInv, TypeOK, Remembered, Governors
<1>2. Live(gov, now, span) \in SUBSET gov.bursts
  BY DEF Live
<1>3. Live(Settle(gov, t), t, span) = Live(gov, t, span)
  BY <1>1, SettleSeesTheSame
<1>4. \A b \in gov.bursts : /\ Since(b.end, t) <= span <=> b.end + span >= t
                            /\ Since(b.end, t) <= span => Since(b.end, now) <= span
  BY <1>1 DEF Since, Larger, Bursts
<1>5. Live(gov, t, span) = {b \in Live(gov, now, span) : b.end + span >= t}
  BY <1>4 DEF Live
<1> QED  BY <1>1, <1>2, <1>3, <1>5, FS_Subset

(* So a frame that is refused for a window later was refused for it now,    *)
(* and is told to wait no longer than it was told now, or the shortest time.*)
LEMMA WaitReaches ==
  ASSUME CeilingInv, NEW c \in Costs,
         NEW span \in Nat, span <= Retention, NEW allowed \in Nat, c <= allowed,
         NEW t \in Nat, t >= now, Exceeds(Settle(gov, t), t, span, allowed, c)
  PROVE  /\ Exceeds(gov, now, span, allowed, c)
         /\ t + RetryDelay(Settle(gov, t), t, span, allowed, c)
              <= Larger(now + RetryDelay(gov, now, span, allowed, c), t + MinDelay)
         /\ t <= now + RetryDelay(gov, now, span, allowed, c)
<1> DEFINE live == Live(gov, now, span)
           s == Settle(gov, t)
           later == Live(s, t, span)
<1>1. /\ now \in Nat /\ c \in Nat /\ MinDelay \in Nat
  BY AirtimeAssumption DEF CeilingInv, IInv, TypeOK
<1>2. /\ live \in SUBSET Bursts /\ IsFiniteSet(live)
      /\ later = {b \in live : b.end + span >= t}
  BY WindowEmpties
<1> HIDE DEF live, s
<1>3. later \in SUBSET live /\ Airtime(later) + c > allowed
  BY <1>2 DEF Exceeds, s
<1>4. /\ Airtime(later) <= Airtime(live)
      /\ Airtime(later) \in Nat /\ Airtime(live) \in Nat
  <2> HIDE DEF later
  <2> QED  BY <1>2, <1>3, AirtimeOfPart
<1>5. Exceeds(gov, now, span, allowed, c)
  <2>1. Airtime(live) + c > allowed
    <3> HIDE DEF later
    <3> QED  BY <1>1, <1>3, <1>4
  <2> QED  BY <2>1 DEF Exceeds, live
<1>6. PICK d \in live :
        /\ RetryDelay(gov, now, span, allowed, c)
             = Larger(Since(now, d.end + span), MinDelay)
        /\ Airtime({b \in live : b.end > d.end}) + c <= allowed
  BY <1>5, WaitIsForRoom DEF live
<1> DEFINE after(x) == {b \in later : b.end > x}
           room == {x \in {b.end : b \in later} : Airtime(after(x)) + c <= allowed}
<1>7. d \in later
  <2>1. SUFFICES ASSUME d.end + span < t  PROVE FALSE
    BY <1>1, <1>2 DEF Bursts
  <2>2. later \in SUBSET {b \in live : b.end > d.end}
    BY <1>1, <1>2, <2>1 DEF Bursts
  <2>3. /\ Airtime(later) <= Airtime({b \in live : b.end > d.end})
        /\ Airtime({b \in live : b.end > d.end}) \in Nat
    <3> DEFINE more == {b \in live : b.end > d.end}
    <3>1. more \in SUBSET Bursts /\ IsFiniteSet(more) /\ later \in SUBSET more
      BY <1>2, <2>2, FS_Subset
    <3> HIDE DEF more, later
    <3>2. Airtime(later) <= Airtime(more) /\ Airtime(more) \in Nat
      BY <3>1, AirtimeOfPart
    <3> QED  BY <3>2 DEF more
  <2> HIDE DEF later
  <2> QED  BY <1>1, <1>3, <1>4, <1>6, <2>3
<1>8. after(d.end) = {b \in live : b.end > d.end}
  BY <1>1, <1>2, <1>7 DEF Bursts
<1>9. d.end \in room /\ room \in SUBSET Nat
  BY <1>2, <1>6, <1>7, <1>8 DEF Bursts
<1>10. Min(room) \in Nat /\ Min(room) <= d.end
  <2> HIDE DEF room
  <2>1. PICK x \in room : \A y \in room : x <= y
    BY <1>9, NatLeast
  <2> QED  BY <1>9, <2>1 DEF Min
<1>11. RetryDelay(s, t, span, allowed, c) = Larger(Since(t, Min(room) + span), MinDelay)
  BY <1>9 DEF RetryDelay
<1>12. d.end \in Nat /\ d.end + span >= t
  BY <1>2, <1>7 DEF Bursts
<1> HIDE DEF room, later
<1>13. /\ t + RetryDelay(s, t, span, allowed, c)
            <= Larger(now + RetryDelay(gov, now, span, allowed, c), t + MinDelay)
       /\ t <= now + RetryDelay(gov, now, span, allowed, c)
  BY <1>1, <1>6, <1>10, <1>11, <1>12 DEF Larger, Since
<1> QED  BY <1>5, <1>13 DEF s

(* What the frame is told at a later instant: it waits for one limit, and   *)
(* not past the estimate, unless for the shortest time.                     *)
LEMMA ToldReaches ==
  ASSUME CeilingInv, NEW c \in Costs, Fits(c), NEW t \in Nat, t >= now
  PROVE  LET by == now + TimeUntilClear(gov, Duty, c, now)
         IN /\ t + Told(c, t) <= Larger(by, t + MinDelay)
            /\ t > by => Told(c, t) = 0
<1> DEFINE wait == TimeUntilClear(gov, Duty, c, now)
           by == now + wait
           s == Settle(gov, t)
<1>1. /\ now \in Nat /\ gov \in Governors /\ TypeOK /\ RunIsTracked
      /\ gov.run \in Nat /\ gov.last \in Nat \cup {Never} /\ gov.cooling \in Nat \cup {Never}
      /\ c \in Nat /\ c > 0 /\ RunGap \in Nat /\ RunGap > 0 /\ MinDelay \in Nat
  BY AirtimeAssumption DEF CeilingInv, IInv, TypeOK, Governors
<1>2. /\ wait = Larger(Larger(CooldownLeft, GapWait(c)), Larger(DutyWait(c), HourWait(c)))
      /\ CooldownLeft \in Nat /\ GapWait(c) \in Nat
      /\ DutyWait(c) \in Nat /\ HourWait(c) \in Nat
  BY <1>1, EstimateInParts
<1>3. /\ wait \in Nat /\ wait >= CooldownLeft /\ wait >= GapWait(c)
      /\ wait >= DutyWait(c) /\ wait >= HourWait(c)
  BY <1>2 DEF Larger
<1>4. /\ s \in Governors /\ s.last = gov.last
      /\ s.cooling = IF Cooling(gov, t) THEN gov.cooling ELSE Never
      /\ s.run = IF ~Cooling(gov, t) /\ (gov.cooling # Never \/ Rested(gov, t))
                 THEN 0 ELSE gov.run
  BY <1>1, SettleKeeps
<1> HIDE DEF wait, s
<1>5. CASE Cooling(s, t)
  <2>1. Cooling(gov, t) /\ s.cooling = gov.cooling
    BY <1>4, <1>5 DEF Cooling
  <2>2. Delay(s, Duty, c, t) = gov.cooling - t
    BY <1>5, <2>1, DelayInOrder
  <2>3. gov.cooling \in Nat /\ t < gov.cooling /\ CooldownLeft = gov.cooling - now
    BY <1>1, <2>1 DEF CooldownLeft, Cooling
  <2>4. t + Told(c, t) = gov.cooling /\ gov.cooling <= by
    BY <1>1, <1>3, <2>2, <2>3 DEF Told, s
  <2> QED  BY <1>1, <1>3, <2>3, <2>4 DEF Larger, wait
<1>6. CASE ~Cooling(s, t) /\ RunFull(s.run, c)
  <2>1. Delay(s, Duty, c, t) = Larger(GapLeft(s, t), 1)
    BY <1>6, DelayInOrder
  <2>2. gov.run > 0 /\ s.run = gov.run /\ RunFull(gov.run, c)
    BY <1>1, <1>4, <1>6 DEF RunFull
  <2>3. gov.last \in Nat
    BY <1>1, <2>2 DEF RunIsTracked
  <2>4. ~Rested(gov, t)
    <3>1. ~Cooling(gov, t)
      BY <1>4, <1>6 DEF Cooling
    <3> QED  BY <1>4, <2>2, <3>1
  <2>5. gov.last + RunGap > t
    BY <1>1, <2>3, <2>4 DEF Rested, Since, Larger, Never
  <2>6. ~Rested(gov, now)
    BY <1>1, <2>3, <2>5 DEF Rested, Since, Larger, Never
  <2>7. GapWait(c) = GapLeft(gov, now)
    BY <2>2, <2>3, <2>6 DEF GapWait, EstimatedRun, Never
  <2>8. GapLeft(s, t) = gov.last + RunGap - t /\ GapLeft(gov, now) = gov.last + RunGap - now
    BY <1>1, <1>4, <2>3, <2>5 DEF GapLeft, Larger
  <2> QED  BY <1>1, <1>3, <2>1, <2>3, <2>5, <2>7, <2>8 DEF Told, Larger, s, wait
<1>7. CASE ~Cooling(s, t) /\ ~RunFull(s.run, c) /\ DutySpent(s, Duty, c, t)
  <2>1. Delay(s, Duty, c, t) = RetryDelay(s, t, Window, Allowance(Duty), c)
    BY <1>7, DelayInOrder
  <2>2. Allowance(Duty) \in Nat /\ c <= Allowance(Duty)
    BY <1>1, DutyIsNat DEF Fits
  <2>3. /\ Exceeds(gov, now, Window, Allowance(Duty), c)
        /\ t + RetryDelay(s, t, Window, Allowance(Duty), c)
             <= Larger(now + RetryDelay(gov, now, Window, Allowance(Duty), c), t + MinDelay)
        /\ t <= now + RetryDelay(gov, now, Window, Allowance(Duty), c)
    BY <1>7, <2>2, WaitReaches, SpansAreRetained DEF DutySpent, s
  <2>4. DutyWait(c) = RetryDelay(gov, now, Window, Allowance(Duty), c)
    BY <2>3 DEF DutyWait, DutySpent
  <2>5. RetryDelay(s, t, Window, Allowance(Duty), c) \in Nat
    BY <1>4, RetryTakesTime, SpansAreRetained
  <2> QED  BY <1>1, <1>2, <1>3, <2>1, <2>3, <2>4, <2>5 DEF Told, Larger, s, wait
<1>8. CASE /\ ~Cooling(s, t) /\ ~RunFull(s.run, c)
           /\ ~DutySpent(s, Duty, c, t) /\ HourSpent(s, c, t)
  <2>1. Delay(s, Duty, c, t) = RetryDelay(s, t, HourWindow, HourBudget, c)
    BY <1>8, DelayInOrder
  <2>2. HourBudget # 0 /\ HourBudget \in Nat /\ c <= HourBudget
    BY <1>8, AirtimeAssumption DEF Fits, HourSpent
  <2>3. /\ Exceeds(gov, now, HourWindow, HourBudget, c)
        /\ t + RetryDelay(s, t, HourWindow, HourBudget, c)
             <= Larger(now + RetryDelay(gov, now, HourWindow, HourBudget, c), t + MinDelay)
        /\ t <= now + RetryDelay(gov, now, HourWindow, HourBudget, c)
    BY <1>8, <2>2, WaitReaches, SpansAreRetained DEF HourSpent, s
  <2>4. HourWait(c) = RetryDelay(gov, now, HourWindow, HourBudget, c)
    BY <2>2, <2>3 DEF HourWait, HourSpent
  <2>5. RetryDelay(s, t, HourWindow, HourBudget, c) \in Nat
    BY <1>4, RetryTakesTime, SpansAreRetained
  <2> QED  BY <1>1, <1>2, <1>3, <2>1, <2>3, <2>4, <2>5 DEF Told, Larger, s, wait
<1>9. CASE /\ ~Cooling(s, t) /\ ~RunFull(s.run, c)
           /\ ~DutySpent(s, Duty, c, t) /\ ~HourSpent(s, c, t)
  <2>1. Delay(s, Duty, c, t) = 0
    BY <1>9, DelayInOrder
  <2> QED  BY <1>1, <1>3, <2>1 DEF Told, Larger, s, wait
<1> QED  BY <1>5, <1>6, <1>7, <1>8, <1>9

(* Whatever has been keyed, a frame that fits the limits at all is not put  *)
(* off for ever: the waits check() tells it, one limit after another, do    *)
(* not reach past the estimate over all of them by more than the shortest   *)
(* deferral, and once the estimate is over it is cleared.                   *)
THEOREM DeferralsEnd == Spec => []DeferralEnds
<1>1. ASSUME CeilingInv, NEW c \in Costs, Fits(c)
      PROVE  LET by == now + TimeUntilClear(gov, Duty, c, now)
             IN /\ \A at \in now .. by : at + Told(c, at) <= by + MinDelay
                /\ \A at \in by + 1 .. by + Window : Told(c, at) = 0
  <2> DEFINE by == now + TimeUntilClear(gov, Duty, c, now)
  <2>1. /\ now \in Nat /\ by \in Nat /\ by >= now
        /\ MinDelay \in Nat /\ Window \in Nat
    <3>1. TypeOK /\ RunIsTracked /\ now \in Nat
      BY <1>1 DEF CeilingInv, IInv, TypeOK
    <3>2. TimeUntilClear(gov, Duty, c, now) \in Nat
      BY <3>1, EstimateInParts DEF Larger
    <3> QED  BY <3>1, <3>2, AirtimeAssumption
  <2>2. \A at \in Nat : at >= now => /\ at + Told(c, at) <= Larger(by, at + MinDelay)
                                     /\ at > by => Told(c, at) = 0
    BY <1>1, ToldReaches
  <2> HIDE DEF by
  <2>3. ASSUME NEW at \in now .. by  PROVE at + Told(c, at) <= by + MinDelay
    <3>1. at \in Nat /\ at >= now /\ at <= by
      BY <2>1, <2>3
    <3>2. Larger(by, at + MinDelay) <= by + MinDelay /\ Larger(by, at + MinDelay) \in Nat
      BY <2>1, <3>1 DEF Larger
    <3>3. Told(c, at) \in Int
      <4>1. gov \in Governors
        BY <1>1 DEF CeilingInv, IInv, TypeOK
      <4>2. Settle(gov, at) \in Governors
        BY <3>1, <4>1, SettleKeeps
      <4> QED  BY <3>1, <4>2, DelayIsNat DEF Told
    <3> QED  BY <2>1, <2>2, <3>1, <3>2, <3>3
  <2>4. ASSUME NEW at \in by + 1 .. by + Window  PROVE Told(c, at) = 0
    <3>1. at \in Nat /\ at >= now /\ at > by
      BY <2>1, <2>4
    <3> QED  BY <2>2, <3>1
  <2> QED  BY <2>3, <2>4 DEF by
<1>2. CeilingInv => DeferralEnds
  BY <1>1 DEF DeferralEnds
<1> QED  BY <1>2, InitCeiling, NextCeiling, PTL DEF Spec
=============================================================================
