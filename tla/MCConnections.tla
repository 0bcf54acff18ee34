--------------------------- MODULE MCConnections ---------------------------
(* Connections with a few sockets for TLC. *)
EXTENDS Connections

CONSTANTS
  op,       \* a control operator,
  a, b,     \* two more sockets
  near, far \* and the hosts they come from

MCHostOf == [c \in Conns |-> IF c = op THEN far ELSE near]
MCSays == [c \in Conns |->
  CASE c = op -> [cmd : {"REGISTER", "SAY", "QUIT"}] \cup [cmd : {"KLINE"}, host : Hosts]
                   \cup {[cmd |-> "UNKLINE", host |-> near], [cmd |-> "KILL", whom |-> a]}
    [] c = a -> [cmd : {"REGISTER", "BADPASS"}]
    [] c = b -> {}]
MCMaxLines == [c \in Conns |-> CASE c = op -> 2 [] c = a -> 1 [] c = b -> 0]
=============================================================================
