-------------------------- MODULE ReliableUnicast --------------------------
(***************************************************************************)
(* What the session layer promises for reliable unicasts in one direction, *)
(* with nothing of how: a message is accepted, is heard by the other end,  *)
(* and is concluded by the sender as acked or dropped.  Stop-and-wait      *)
(* shows through in one way: only the oldest unconcluded message can be    *)
(* acked, and none is heard before those accepted earlier are concluded.   *)
(***************************************************************************)
EXTENDS Naturals, Sequences

CONSTANT Msgs

VARIABLES
  accepted,  \* in the order the sender accepted them
  heard,     \* messages the receiver has been given
  outcome    \* [Msgs -> "none", "open", "acked" or "dropped"]

vars == <<accepted, heard, outcome>>

Open(i) == outcome[accepted[i]] = "open"
Oldest(i) == \A j \in 1 .. (i - 1) : ~Open(j)

Init ==
  /\ accepted = <<>>
  /\ heard = {}
  /\ outcome = [m \in Msgs |-> "none"]

Accept(m) ==
  /\ outcome[m] = "none"
  /\ accepted' = Append(accepted, m)
  /\ outcome' = [outcome EXCEPT ![m] = "open"]
  /\ UNCHANGED heard

Hear(i) ==
  /\ Oldest(i)
  /\ accepted[i] \notin heard
  /\ heard' = heard \cup {accepted[i]}
  /\ UNCHANGED <<accepted, outcome>>

Conclude(i, how) ==
  /\ Oldest(i) /\ Open(i)
  /\ how = "acked" => accepted[i] \in heard
  /\ outcome' = [outcome EXCEPT ![accepted[i]] = how]
  /\ UNCHANGED <<accepted, heard>>

(* The sender forgets the receiver, and all it still had for it. *)
Abandon ==
  /\ outcome' = [m \in Msgs |-> IF outcome[m] = "open" THEN "dropped" ELSE outcome[m]]
  /\ UNCHANGED <<accepted, heard>>

Next ==
  \/ \E m \in Msgs : Accept(m)
  \/ Abandon
  \/ \E i \in DOMAIN accepted :
       Hear(i) \/ \E how \in {"acked", "dropped"} : Conclude(i, how)

Spec == Init /\ [][Next]_vars

=============================================================================
