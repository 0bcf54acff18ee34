------------------------------ MODULE MCTxPath ------------------------------
(* TxPath with small traffic for TLC. *)
EXTENDS TxPath

CONSTANTS
  chat, chatBig,  \* lines to the channel, short and long
  mail, mailBig,  \* two frames to one station
  ack,            \* an acknowledgement to it
  id              \* an identification

MCClassOf == [f \in Frames |->
  CASE f \in {chat, chatBig} -> Chat
    [] f \in {mail, mailBig} -> Direct
    [] f = ack -> Ack
    [] f = id -> Id]
MCAccountOf == [f \in Frames |->
  CASE f \in {chat, chatBig} -> "channel"
    [] f \in {mail, mailBig, ack} -> "station"
    [] f = id -> "id"]
MCCostOf == [f \in Frames |-> IF f \in {chatBig, mailBig} THEN 2 ELSE 1]
MCWantsReply == [f \in Frames |-> f \in {mail, mailBig}]
OneOrTwo == {1, 2}
None == {}
DepthTwo == [c \in Classes |-> 2]

Answered == {mail, chatBig, ack}
Signed == {chat, ack, id}
SignedLong == {chatBig, ack, id}
LongAndShort == {chatBig, chat, ack}
=============================================================================
