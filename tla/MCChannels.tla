----------------------------- MODULE MCChannels -----------------------------
(* Channels for TLC: an operator, a nick the configuration names, two      *)
(* stations with room for one, a bridged channel and one of the users' own.*)
EXTENDS Channels

CONSTANTS ann, bob, s1, s2, bridge, side

MCOperators == [c \in Chans |-> IF c = bridge THEN {bob} ELSE {}]
Ask(letter, on) == [letter |-> letter, on |-> on, who |-> bob]
Interchangeable == Permutations(Stations)
MCRequests == {
  <<Ask("r", TRUE)>>, <<Ask("r", FALSE)>>, <<Ask("o", TRUE)>>, <<Ask("r", TRUE), Ask("o", TRUE)>>,
  <<Ask("o", FALSE), Ask("m", FALSE), Ask("v", FALSE)>>, <<Ask("k", TRUE), Ask("l", TRUE), Ask("t", FALSE)>>}
=============================================================================
