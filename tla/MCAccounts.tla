----------------------------- MODULE MCAccounts -----------------------------
(* Accounts with two clients for TLC. *)
EXTENDS Accounts

CONSTANTS
  ann, bob,           \* ann knows an operator's password
  nick, guestA, guestB,
  p, oh1x

MCGuest == [c \in Clients |-> IF c = ann THEN guestA ELSE guestB]
=============================================================================
