----------------------------- MODULE MCArqLink -----------------------------
(***************************************************************************)
(* Instances of ArqLink for TLC.  Each configuration picks who sends what. *)
(***************************************************************************)
EXTENDS ArqLink, TLC

CONSTANTS long, longAll, short, other, up, helloA, helloB, welcome

MCMsgs == {long, longAll, short, other, up, helloA, helloB, welcome}
MCSize == [m \in MCMsgs |-> IF m \in {long, longAll} THEN 2 ELSE 1]
MCHellos == {helloA, helloB}
MCEpochOf == helloA :> 1 @@ helloB :> 2
NoReplies == [m \in MCHellos |-> {}]
Welcomes == [m \in MCHellos |-> {welcome}]

Nobody == [e \in Ends |-> {}]
NoRestarts == [e \in Ends |-> 0]
StationRestarts == [e \in Ends |-> IF e = Station THEN 1 ELSE 0]

Established == [n \in 0 .. MaxRestarts[Station] |-> NoMsg]
SaysHello == [n \in 0 .. MaxRestarts[Station] |-> IF n = 0 THEN helloA ELSE helloB]

LongDown == [e \in Ends |-> IF e = Gateway THEN {long} ELSE {}]
LongAllDown == [e \in Ends |-> IF e = Gateway THEN {longAll} ELSE {}]
ShortsDown == [e \in Ends |-> IF e = Gateway THEN {short, other} ELSE {}]
LongBothWays == [e \in Ends |-> IF e = Gateway THEN {long} ELSE {up}]
ShortUp == [e \in Ends |-> IF e = Station THEN {up} ELSE {}]
=============================================================================
