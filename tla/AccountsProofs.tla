--------------------------- MODULE AccountsProofs ---------------------------
(***************************************************************************)
(* What TLAPS proves of accounts, for any number of clients, nicks,        *)
(* passwords, callsigns, checks, threads and changes: first of the file    *)
(* alone (FileGoesForward), then of the users and the accounts with it.    *)
(*                                                                         *)
(* The second part rests on Sound, what users and accounts have to do with *)
(* each other after an event.  An event gives one user another value, and  *)
(* may change the account of his nick (Fits, Own, PutSound); it ends with  *)
(* refresh_rf_tx (RefreshSettles).                                         *)
(***************************************************************************)
EXTENDS Accounts, FiniteSetTheorems, TLAPS

(* The file is never ahead of memory, and the writer that has the lock is  *)
(* not behind the file: what connects NeverBack to the counter of changes. *)
FileInv ==
  /\ gen \in Nat /\ disk.gen \in Nat /\ disk.gen <= gen
  /\ writing # NoText => writing.gen \in Nat /\ disk.gen <= writing.gen /\ writing.gen <= gen

(* A change, or two in one event, moves the counter on and at most starts  *)
(* a writer with the first of them.                                        *)
LEMMA CommitKeeps ==
  ASSUME NEW store, FileInv, Commit(store)
  PROVE  FileInv' /\ UNCHANGED disk
BY DEF Commit, FileInv

LEMMA CommitTwiceKeeps ==
  ASSUME NEW first, NEW second, FileInv, CommitTwice(first, second)
  PROVE  FileInv' /\ UNCHANGED disk
<1> DEFINE one == [gen |-> gen + 1, store |-> first]
           two == [gen |-> gen + 2, store |-> second]
<1>1. gen' = gen + 2 /\ UNCHANGED disk /\ (UNCHANGED writing \/ writing' = one)
  BY DEF CommitTwice
<1>2. one.gen = gen + 1
  OBVIOUS
<1> HIDE DEF one
<1> QED  BY <1>1, <1>2 DEF FileInv

LEMMA NoCommitKeeps ==
  ASSUME FileInv, NoCommit
  PROVE  FileInv' /\ UNCHANGED disk
BY DEF NoCommit, file, FileInv

(* What is done with the answer to a password check reaches the file by    *)
(* changes alone.                                                          *)
LEMMA FinishKeeps ==
  ASSUME NEW j, FileInv, Finish(j)
  PROVE  FileInv' /\ UNCHANGED disk
<1>1. ASSUME NEW c, FinishIdentify(c)
      PROVE  NoCommit \/ \E store : Commit(store)
  BY <1>1 DEF FinishIdentify
<1>2. ASSUME NEW c, NEW password, FinishRegister(c, password)
      PROVE  \/ NoCommit
             \/ \E store : Commit(store)
             \/ \E first, second : CommitTwice(first, second)
  BY <1>2 DEF FinishRegister
<1>3. ASSUME NEW c, FinishUnregister(c)
      PROVE  NoCommit \/ \E store : Commit(store)
  BY <1>3 DEF FinishUnregister
<1>4. \/ NoCommit
      \/ \E store : Commit(store)
      \/ \E first, second : CommitTwice(first, second)
  BY <1>1, <1>2, <1>3 DEF Finish, FinishOper
<1> QED  BY <1>4, CommitKeeps, CommitTwiceKeeps, NoCommitKeeps

(* What the actions of clients and operators have in common.               *)
Stutters == UNCHANGED file
Changes == \/ NoCommit \/ \E store : Commit(store)

LEMMA EventKeeps ==
  ASSUME FileInv, Stutters \/ Changes
  PROVE  FileInv' /\ UNCHANGED disk
<1>1. CASE UNCHANGED file
  BY <1>1 DEF file, FileInv
<1>2. CASE Changes
  BY <1>2, CommitKeeps, NoCommitKeeps DEF Changes
<1> QED  BY <1>1, <1>2 DEF Stutters

LEMMA WriteKeeps ==
  ASSUME FileInv, (\E t \in threads : StartWrite(t)) \/ EndWrite \/ Restart
  PROVE  FileInv' /\ disk'.gen >= disk.gen
<1>1. CASE \E t \in threads : StartWrite(t)
  <2>1. PICK t \in threads : StartWrite(t)
    BY <1>1
  <2>2. /\ UNCHANGED <<gen, disk>>
        /\ writing' = IF t.gen = gen THEN t ELSE NoText
    BY <2>1 DEF StartWrite
  <2> QED  BY <2>2 DEF FileInv
<1>2. CASE EndWrite
  BY <1>2 DEF EndWrite, FileInv
<1>3. CASE Restart
  BY <1>3 DEF Restart, FileInv
<1> QED  BY <1>1, <1>2, <1>3

(* Every step keeps the invariant, and the file does not go back.          *)
LEMMA StepKeeps ==
  ASSUME FileInv, [Next]_vars
  PROVE  FileInv' /\ disk'.gen >= disk.gen
<1>1. CASE UNCHANGED vars
  BY <1>1 DEF vars, FileInv
<1>2. ASSUME NEW c \in Clients, Connect(c) \/ Quit(c) \/ ExpireUnidentified(c)
      PROVE  Stutters
  BY <1>2 DEF Connect, Quit, ExpireUnidentified, Stutters
<1>3. ASSUME NEW c \in Clients, NEW n \in Wanted, Nick(c, n)
      PROVE  Stutters
  BY <1>3 DEF Nick, Stutters
<1>4. ASSUME NEW c \in Clients, NEW call \in Calls, Callsign(c, call)
      PROVE  Changes
  BY <1>4 DEF Callsign, Changes
<1>5. ASSUME NEW c \in Clients, NEW password \in Passwords,
             (\E kind \in Kinds \ {"oper"} : Start(c, kind, password)) \/ StartOper(c, password)
      PROVE  Stutters
  <2>1. PICK kind, ok : Begin(c, kind, password, ok)
    BY <1>5 DEF Start, StartOper, Kinds
  <2> QED  BY <2>1 DEF Begin, Stutters
<1>6. ASSUME NEW j \in jobs, Finish(j)
      PROVE  FileInv' /\ UNCHANGED disk
  BY <1>6, FinishKeeps DEF Finish
<1>7. ASSUME \/ \E n \in Nicks : (\E g \in BOOLEAN : Grant(n, g)) \/ DropNick(n)
             \/ \E call \in Calls : Unclaim(call)
      PROVE  Changes
  BY <1>7 DEF Grant, DropNick, Unclaim, Changes
<1>8. disk'.gen >= disk.gen \/ ~UNCHANGED disk
  BY DEF FileInv
<1> QED  BY <1>1, <1>2, <1>3, <1>4, <1>5, <1>6, <1>7, <1>8, EventKeeps, WriteKeeps DEF Next

(* Whatever the threads do, the file never goes back to an earlier change  *)
(* (Accounts::commit, persist_gen and persist_lock), crashes included.     *)
THEOREM FileGoesForward == Spec => NeverBack
<1>1. Init => FileInv
  BY DEF Init, FileInv, Blank
<1>2. FileInv /\ [Next]_vars => FileInv'
  BY StepKeeps
<1>3. FileInv /\ [Next]_vars => [disk'.gen >= disk.gen]_disk
  BY StepKeeps
<1> QED  BY <1>1, <1>2, <1>3, PTL DEF Spec, NeverBack
-----------------------------------------------------------------------------
(* The changes to the accounts leave accounts.                             *)
LEMMA ChangesTyped ==
  ASSUME NEW store \in Stores, NEW n \in Nicks
  PROVE  /\ \A password \in Passwords : InsertHashed(store, n, password) \in Stores
         /\ Drop(store, n) \in Stores
         /\ store[n] # NoAccount =>
              /\ \A password \in Passwords : SetPassword(store, n, password) \in Stores
              /\ \A granted \in BOOLEAN : SetRfTx(store, n, granted) \in Stores
              /\ \A call \in Calls : SetCallsign(store, n, call) \in Stores
              /\ ClearCallsign(store, n) \in Stores
<1>1. store[n] # NoAccount => store[n] \in NickAccounts
  BY DEF Stores
<1>2. \A password \in Passwords : InsertHashed(store, n, password) \in Stores
  BY DEF Stores, NickAccounts, InsertHashed
<1>3. Drop(store, n) \in Stores
  BY DEF Stores, Drop
<1>4. ASSUME store[n] # NoAccount
      PROVE  /\ \A password \in Passwords : SetPassword(store, n, password) \in Stores
             /\ \A granted \in BOOLEAN : SetRfTx(store, n, granted) \in Stores
             /\ \A call \in Calls : SetCallsign(store, n, call) \in Stores
             /\ ClearCallsign(store, n) \in Stores
  BY <1>1, <1>4 DEF Stores, NickAccounts, SetPassword, SetRfTx, SetCallsign, ClearCallsign
<1> QED  BY <1>2, <1>3, <1>4

LEMMA PrivilegesTyped ==
  ASSUME NEW store \in Stores, NEW u \in Users
  PROVE  /\ MayTransmit(store, u) \in BOOLEAN
         /\ StoredCall(store, u) \in Calls \cup {NoCall}
BY DEF MayTransmit, GrantsRfTx, StoredCall, IsRegistered, Stores, NickAccounts, Users

(* What strip_callsign_claims leaves of each user.                         *)
Stripped(r, users, store, call, keep) ==
  /\ r \in [Clients -> Users]
  /\ \A d \in Clients :
       \/ (d \in keep \/ users[d].call # call) /\ r[d] = users[d]
       \/ /\ d \notin keep /\ users[d].call = call
          /\ r[d] = [users[d] EXCEPT !.call = NoCall, !.rfTx = MayTransmit(store, users[d])]

LEMMA StripGives ==
  ASSUME NEW users \in [Clients -> Users], NEW store \in Stores, NEW call, NEW keep
  PROVE  Stripped(Strip(users, store, call, keep), users, store, call, keep)
<1> DEFINE r == Strip(users, store, call, keep)
<1>1. r = [d \in Clients |-> r[d]]
  BY DEF Strip
<1>2. ASSUME NEW d \in Clients
      PROVE  /\ r[d] \in Users
             /\ \/ (d \in keep \/ users[d].call # call) /\ r[d] = users[d]
                \/ /\ d \notin keep /\ users[d].call = call
                   /\ r[d] = [users[d] EXCEPT !.call = NoCall,
                                             !.rfTx = MayTransmit(store, users[d])]
  <2>1. users[d] \in Users /\ MayTransmit(store, users[d]) \in BOOLEAN
    BY PrivilegesTyped
  <2>2. CASE d \in keep \/ users[d].call # call
    BY <2>1, <2>2 DEF Strip
  <2>3. CASE ~(d \in keep \/ users[d].call # call)
    <3> DEFINE u == [users[d] EXCEPT !.call = NoCall]
    <3>1. r[d] = [u EXCEPT !.rfTx = MayTransmit(store, u)]
      BY <2>3 DEF Strip
    <3>2. MayTransmit(store, u) = MayTransmit(store, users[d])
      BY <2>1 DEF MayTransmit, Users
    <3> QED  BY <2>1, <2>3, <3>1, <3>2 DEF Users
  <2> QED  BY <2>2, <2>3
<1> QED  BY <1>1, <1>2 DEF Stripped

(* What refresh_rf_tx leaves of the user it is for, and of the others.     *)
SameNick(v, u) ==
  /\ v.online = u.online /\ v.nick = u.nick /\ v.identified = u.identified
  /\ v.deadline = u.deadline /\ v.oper = u.oper

ComesBack(store, u) == u.call = NoCall /\ StoredCall(store, u) # NoCall

Refreshed(r, users, store, c) ==
  LET stored == StoredCall(store, users[c])
      back == ComesBack(store, users[c])
  IN
  /\ r \in [Clients -> Users]
  /\ \A d \in Clients : SameNick(r[d], users[d])
  /\ r[c].rfTx = MayTransmit(store, users[c])
  /\ r[c].call = IF back THEN stored ELSE users[c].call
  /\ \A d \in Clients \ {c} :
       \/ /\ r[d].call = users[d].call /\ r[d].rfTx = users[d].rfTx
          /\ back => users[d].call # stored
       \/ /\ back /\ users[d].call = stored
          /\ r[d].call = NoCall /\ r[d].rfTx = MayTransmit(store, users[d])

LEMMA RefreshGives ==
  ASSUME NEW users \in [Clients -> Users], NEW store \in Stores, NEW c \in Clients
  PROVE  Refreshed(Refresh(users, store, c), users, store, c)
<1> DEFINE r == Refresh(users, store, c)
           stored == StoredCall(store, users[c])
           new == [users[c] EXCEPT !.rfTx = MayTransmit(store, users[c]),
                                   !.call = IF ComesBack(store, users[c]) THEN stored ELSE @]
           settled == [users EXCEPT ![c] = new]
<1>1. r = IF ComesBack(store, users[c]) THEN Strip(settled, store, stored, {c}) ELSE settled
  BY DEF Refresh, ComesBack
<1>2. MayTransmit(store, users[c]) \in BOOLEAN /\ stored \in Calls \cup {NoCall}
  BY PrivilegesTyped
<1> HIDE DEF stored
<1>3. /\ new \in Users /\ SameNick(new, users[c])
      /\ new.rfTx = MayTransmit(store, users[c])
      /\ new.call = IF ComesBack(store, users[c]) THEN stored ELSE users[c].call
  BY <1>2 DEF Users, SameNick
<1>4. settled \in [Clients -> Users] /\ settled[c] = new
      /\ \A d \in Clients \ {c} : settled[d] = users[d]
  BY <1>3
<1> HIDE DEF new, settled, r
<1>5. \A u \in Users : SameNick(u, u)
  BY DEF SameNick
<1>6. CASE ComesBack(store, users[c])
  <2>1. Stripped(r, settled, store, stored, {c})
    BY <1>1, <1>4, <1>6, StripGives
  <2>2. r \in [Clients -> Users] /\ r[c] = new
    BY <1>4, <2>1 DEF Stripped
  <2>3. ASSUME NEW d \in Clients \ {c}
        PROVE  /\ SameNick(r[d], users[d])
               /\ \/ /\ r[d].call = users[d].call /\ r[d].rfTx = users[d].rfTx
                     /\ users[d].call # stored
                  \/ /\ users[d].call = stored
                     /\ r[d].call = NoCall /\ r[d].rfTx = MayTransmit(store, users[d])
    <3>1. CASE r[d] = users[d] /\ users[d].call # stored
      BY <1>5, <3>1
    <3>2. CASE ~(r[d] = users[d] /\ users[d].call # stored)
      <4>1. /\ users[d].call = stored
            /\ r[d] = [users[d] EXCEPT !.call = NoCall, !.rfTx = MayTransmit(store, users[d])]
        BY <1>4, <2>1, <3>2 DEF Stripped
      <4>2. users[d] \in Users /\ MayTransmit(store, users[d]) \in BOOLEAN
        BY PrivilegesTyped
      <4> QED  BY <4>1, <4>2 DEF SameNick, Users
    <3> QED  BY <3>1, <3>2
  <2> QED  BY <1>3, <1>6, <2>2, <2>3 DEF Refreshed, stored, r
<1>7. CASE ~ComesBack(store, users[c])
  BY <1>1, <1>3, <1>4, <1>5, <1>7 DEF Refreshed, stored, r
<1> QED  BY <1>6, <1>7 DEF r

(* Whom the accounts are refreshed for, if anyone.                         *)
LEMMA RefreshHolderGives ==
  ASSUME NEW users, NEW store, NEW n
  PROVE  \/ /\ \A c \in Clients : ~(users[c].online /\ users[c].nick = n)
            /\ RefreshHolder(users, store, n) = users
         \/ \E c \in Clients :
              /\ users[c].online /\ users[c].nick = n
              /\ RefreshHolder(users, store, n) = Refresh(users, store, c)
<1> DEFINE holder == {c \in Clients : users[c].online /\ users[c].nick = n}
<1>1. RefreshHolder(users, store, n) =
        IF holder = {} THEN users ELSE Refresh(users, store, CHOOSE c \in holder : TRUE)
  BY DEF RefreshHolder
<1>2. holder # {} => (CHOOSE c \in holder : TRUE) \in holder
  OBVIOUS
<1> QED  BY <1>1, <1>2

-----------------------------------------------------------------------------
(* What users and accounts have to do with each other after every event,   *)
(* as a predicate on both, so that it can be said of what an event has     *)
(* made of them so far.  The rights of those in but are yet to be looked   *)
(* up again.                                                               *)
BoundOnce(store) ==
  \A m, n \in Nicks :
    /\ store[m] # NoAccount /\ store[n] # NoAccount
    /\ store[m].call = store[n].call /\ store[m].call # NoCall
    => m = n

OneCall(users, store, c) ==
  users[c].call # NoCall =>
    /\ \A d \in Clients \ {c} : users[d].call # users[c].call
    /\ Owners(store, users[c].call) \subseteq {users[c].nick}
    /\ users[c].identified => store[users[c].nick].call = users[c].call

Timed(users, store, c) ==
  /\ users[c].online /\ IsRegistered(store, users[c].nick) /\ ~users[c].identified
  /\ users[c].nick # Guest[c]
  => users[c].deadline

(* One who is not here has no nick, no callsign and no rights.             *)
Absent(u) == u.nick = NoNick /\ u.call = NoCall /\ ~u.identified /\ ~u.oper

Sound(users, store, but) ==
  /\ users \in [Clients -> Users] /\ store \in Stores
  /\ BoundOnce(store)
  /\ \A c, d \in Clients : users[c].nick = users[d].nick /\ users[c].nick # NoNick => c = d
  /\ \A c \in Clients :
       /\ ~users[c].online => Absent(users[c])
       /\ users[c].identified => IsRegistered(store, users[c].nick)
       /\ c \notin but => (users[c].rfTx <=> MayTransmit(store, users[c]))
       /\ OneCall(users, store, c)
       /\ Timed(users, store, c)

(* refresh_rf_tx makes good what an event has done to one user.            *)
LEMMA RefreshSettles ==
  ASSUME NEW users, NEW store, NEW c \in Clients, Sound(users, store, {c})
  PROVE  Sound(Refresh(users, store, c), store, {})
<1> DEFINE r == Refresh(users, store, c)
           stored == StoredCall(store, users[c])
<1>1. users \in [Clients -> Users] /\ store \in Stores /\ BoundOnce(store)
  BY DEF Sound
<1>2. Refreshed(r, users, store, c)
  BY <1>1, RefreshGives
<1> HIDE DEF r
<1>3. r \in [Clients -> Users]
  BY <1>2 DEF Refreshed
<1>4. ASSUME NEW d \in Clients
      PROVE  /\ r[d].online = users[d].online /\ r[d].nick = users[d].nick
             /\ r[d].identified = users[d].identified /\ r[d].deadline = users[d].deadline
             /\ r[d].oper = users[d].oper
             /\ MayTransmit(store, r[d]) = MayTransmit(store, users[d])
  BY <1>2 DEF Refreshed, SameNick, MayTransmit
<1>5. ASSUME NEW d \in Clients
      PROVE  r[d].rfTx <=> MayTransmit(store, r[d])
  BY <1>2, <1>4 DEF Refreshed, Sound
<1>6. ASSUME NEW d \in Clients, ~r[d].online
      PROVE  Absent(r[d])
  <2>1. Absent(users[d])
    BY <1>4, <1>6 DEF Sound
  <2>2. d = c => ~ComesBack(store, users[c])
    BY <2>1 DEF Absent, ComesBack, StoredCall
  <2> QED  BY <1>2, <1>4, <2>1, <2>2 DEF Refreshed, Absent
<1>7. ASSUME NEW d \in Clients
      PROVE  OneCall(r, store, d)
  <2>1. OneCall(users, store, d) /\ OneCall(users, store, c)
    BY DEF Sound
  <2>2. CASE d = c /\ ComesBack(store, users[c])
    <3>1. /\ r[c].call = stored /\ stored # NoCall
          /\ \A e \in Clients \ {c} : r[e].call # stored
      BY <1>2, <2>2 DEF Refreshed, ComesBack
    <3>2. /\ users[c].identified /\ IsRegistered(store, users[c].nick)
          /\ store[users[c].nick].call = stored
      BY <3>1 DEF StoredCall
    <3>3. users[c].nick \in Nicks
      BY <1>1, <3>2 DEF IsRegistered, Users
    <3>4. Owners(store, stored) \subseteq {users[c].nick}
      BY <1>1, <3>1, <3>2, <3>3 DEF BoundOnce, Owners, IsRegistered
    <3> HIDE DEF stored
    <3> QED  BY <1>4, <2>2, <3>1, <3>2, <3>4 DEF OneCall
  <2>3. CASE d = c /\ ~ComesBack(store, users[c])
    <3>1. r[c].call = users[c].call /\ \A e \in Clients \ {c} : r[e].call = users[e].call
      BY <1>2, <2>3 DEF Refreshed
    <3> QED  BY <1>4, <2>1, <2>3, <3>1 DEF OneCall
  <2>4. CASE d # c
    <3> SUFFICES ASSUME r[d].call # NoCall  PROVE OneCall(r, store, d)
      BY DEF OneCall
    <3>1. /\ r[d].call = users[d].call
          /\ ComesBack(store, users[c]) => users[d].call # stored
      BY <1>2, <2>4 DEF Refreshed
    <3>2. r[c].call # users[d].call
      BY <1>2, <2>1, <2>4, <3>1 DEF Refreshed, OneCall
    <3>3. \A e \in Clients \ {c} : r[e].call = users[e].call \/ r[e].call = NoCall
      BY <1>2 DEF Refreshed
    <3> QED  BY <1>4, <2>1, <3>1, <3>2, <3>3 DEF OneCall
  <2> QED  BY <2>2, <2>3, <2>4
<1>8. ASSUME NEW d \in Clients
      PROVE  Timed(r, store, d) /\ (r[d].identified => IsRegistered(store, r[d].nick))
  BY <1>4 DEF Timed, Sound
<1>9. \A d, e \in Clients : r[d].nick = r[e].nick /\ r[d].nick # NoNick => d = e
  BY <1>4 DEF Sound
<1> QED  BY <1>1, <1>3, <1>5, <1>6, <1>7, <1>8, <1>9 DEF Sound, r

-----------------------------------------------------------------------------
(* The file holds what were accounts once, and so do the threads; the      *)
(* checks under way are few.                                               *)
FileTyped ==
  /\ gen \in Nat /\ failed \in BOOLEAN
  /\ threads \subseteq Texts /\ writing \in Texts \cup {NoText} /\ disk \in Texts
  /\ \A t \in threads : t.gen <= gen /\ BoundOnce(t.store)
  /\ writing # NoText => writing.gen <= gen /\ BoundOnce(writing.store)
  /\ BoundOnce(disk.store)

JobsTyped == jobs \subseteq Jobs /\ IsFiniteSet(jobs) /\ Cardinality(jobs) <= MaxJobs


(* What a change to the account of one nick leaves of the others, and of   *)
(* the callsigns bound.                                                    *)
Changed(after, before, n) ==
  /\ after \in Stores /\ BoundOnce(after)
  /\ \A m \in Nicks \ {n} : after[m] = before[m]

LEMMA ChangesKeep ==
  ASSUME NEW store \in Stores, BoundOnce(store), NEW n \in Nicks, NEW after \in Stores,
         \/ \E password \in Passwords : after = InsertHashed(store, n, password)
         \/ after = Drop(store, n)
         \/ /\ IsRegistered(store, n)
            /\ \/ \E password \in Passwords : after = SetPassword(store, n, password)
               \/ \E granted \in BOOLEAN : after = SetRfTx(store, n, granted)
               \/ after = ClearCallsign(store, n)
  PROVE  /\ Changed(after, store, n)
         /\ \A call \in Calls : Owners(after, call) \subseteq Owners(store, call)
<1>1. \A m \in Nicks \ {n} : after[m] = store[m]
  BY DEF InsertHashed, Drop, SetPassword, SetRfTx, ClearCallsign, Stores
<1>2. \/ after[n] = NoAccount
      \/ after[n] # NoAccount /\ after[n].call = NoCall
      \/ after[n] # NoAccount /\ store[n] # NoAccount /\ after[n].call = store[n].call
  <2>1. CASE \E password \in Passwords : after = InsertHashed(store, n, password)
    BY <2>1, AccountsAssumption DEF InsertHashed, Stores, NickAccounts
  <2>2. CASE after = Drop(store, n)
    BY <2>2 DEF Drop, Stores
  <2>3. CASE /\ IsRegistered(store, n)
             /\ \/ \E password \in Passwords : after = SetPassword(store, n, password)
                \/ \E granted \in BOOLEAN : after = SetRfTx(store, n, granted)
                \/ after = ClearCallsign(store, n)
    <3>1. store[n] # NoAccount /\ store[n] \in NickAccounts
      BY <2>3 DEF IsRegistered, Stores
    <3>2. after[n].call \in {NoCall, store[n].call}
      BY <2>3, <3>1 DEF SetPassword, SetRfTx, ClearCallsign, Stores, NickAccounts
    <3> QED  BY <3>1, <3>2
  <2> QED  BY <2>1, <2>2, <2>3
<1>3. BoundOnce(after)
  BY <1>1, <1>2 DEF BoundOnce
<1>4. ASSUME NEW call \in Calls
      PROVE  Owners(after, call) \subseteq Owners(store, call)
  BY <1>1, <1>2, AccountsAssumption DEF Owners, IsRegistered
<1> QED  BY <1>1, <1>3, <1>4 DEF Changed

(* A callsign that no other nick has is bound.                             *)
LEMMA SetCallsignKeeps ==
  ASSUME NEW store \in Stores, BoundOnce(store), NEW n \in Nicks, IsRegistered(store, n),
         NEW call \in Calls, Owners(store, call) \subseteq {n}
  PROVE  LET after == SetCallsign(store, n, call) IN
         /\ Changed(after, store, n)
         /\ after[n] # NoAccount /\ after[n].call = call
         /\ Owners(after, call) \subseteq {n}
         /\ \A other \in Calls \ {call} : Owners(after, other) \subseteq Owners(store, other)
<1> DEFINE after == SetCallsign(store, n, call)
<1>1. after \in Stores
  BY ChangesTyped DEF IsRegistered
<1>2. store[n] \in NickAccounts
  BY DEF IsRegistered, Stores
<1>3. /\ \A m \in Nicks \ {n} : after[m] = store[m]
      /\ after[n] \in NickAccounts /\ after[n].call = call
  BY <1>2 DEF SetCallsign, Stores, NickAccounts
<1> HIDE DEF after
<1>4. after[n] # NoAccount
  BY <1>3, AccountsAssumption
<1>5. \A m \in Nicks \ {n} : store[m] # NoAccount => store[m].call # call
  <2>1. \A m \in Nicks \ {n} : m # NoNick
    BY AccountsAssumption
  <2> QED  BY <2>1 DEF Owners, IsRegistered
<1>6. BoundOnce(after)
  BY <1>3, <1>4, <1>5 DEF BoundOnce
<1>7. Owners(after, call) \subseteq {n}
  BY <1>3, <1>5 DEF Owners, IsRegistered
<1>8. \A other \in Calls \ {call} : Owners(after, other) \subseteq Owners(store, other)
  BY <1>3 DEF Owners, IsRegistered
<1> QED  BY <1>1, <1>3, <1>4, <1>6, <1>7, <1>8 DEF Changed, after

(* An event that is about the users of but, and about accounts that nobody *)
(* else has.                                                               *)
Touches(users, store, but) ==
  /\ users \in [Clients -> Users] /\ store \in Stores /\ BoundOnce(store)
  /\ \A d \in Clients \ but :
       /\ users[d] = user[d]
       /\ user[d].nick # NoNick => store[user[d].nick] = acct[user[d].nick]
       /\ user[d].call # NoCall =>
            Owners(store, user[d].call) \subseteq Owners(acct, user[d].call)
  /\ \A c \in but :
       /\ \A d \in Clients \ {c} : users[c].nick = NoNick \/ users[d].nick # users[c].nick
       /\ ~users[c].online => Absent(users[c])
       /\ users[c].identified => IsRegistered(store, users[c].nick)
       /\ OneCall(users, store, c)
       /\ Timed(users, store, c)

LEMMA TouchesSound ==
  ASSUME Sound(user, acct, {}), NEW users, NEW store, NEW but \in SUBSET Clients,
         Touches(users, store, but)
  PROVE  Sound(users, store, but)
<1>1. /\ users \in [Clients -> Users] /\ store \in Stores /\ BoundOnce(store)
      /\ user \in [Clients -> Users]
  BY DEF Touches, Sound
<1>2. ASSUME NEW d \in Clients \ but
      PROVE  /\ users[d] = user[d]
             /\ IsRegistered(store, user[d].nick) = IsRegistered(acct, user[d].nick)
             /\ MayTransmit(store, user[d]) = MayTransmit(acct, user[d])
             /\ user[d].nick # NoNick => store[user[d].nick] = acct[user[d].nick]
  <2>1. users[d] = user[d] /\ (user[d].nick # NoNick => store[user[d].nick] = acct[user[d].nick])
    BY DEF Touches
  <2> QED  BY <2>1 DEF IsRegistered, MayTransmit, GrantsRfTx
<1>3. \A c, d \in Clients : users[c].nick = users[d].nick /\ users[c].nick # NoNick => c = d
  <2> SUFFICES ASSUME NEW c \in Clients, NEW d \in Clients, c # d, users[c].nick # NoNick
               PROVE  users[c].nick # users[d].nick
    OBVIOUS
  <2>1. CASE c \in but \/ d \in but
    BY <2>1 DEF Touches
  <2>2. CASE c \notin but /\ d \notin but
    BY <1>2, <2>2 DEF Sound
  <2> QED  BY <2>1, <2>2
<1>4. ASSUME NEW c \in Clients
      PROVE  /\ ~users[c].online => Absent(users[c])
             /\ users[c].identified => IsRegistered(store, users[c].nick)
             /\ c \notin but => (users[c].rfTx <=> MayTransmit(store, users[c]))
             /\ Timed(users, store, c)
  <2>1. CASE c \in but
    BY <2>1 DEF Touches
  <2>2. CASE c \notin but
    BY <1>2, <2>2 DEF Sound, Timed
  <2> QED  BY <2>1, <2>2
<1>5. ASSUME NEW c \in Clients
      PROVE  OneCall(users, store, c)
  <2>1. CASE c \in but
    BY <2>1 DEF Touches
  <2>2. CASE c \notin but
    <3> SUFFICES ASSUME user[c].call # NoCall
                 PROVE  /\ \A d \in Clients \ {c} : users[d].call # user[c].call
                        /\ Owners(store, user[c].call) \subseteq {user[c].nick}
                        /\ user[c].identified => store[user[c].nick].call = user[c].call
      BY <1>2, <2>2 DEF OneCall
    <3>1. /\ \A d \in Clients \ {c} : user[d].call # user[c].call
          /\ Owners(acct, user[c].call) \subseteq {user[c].nick}
          /\ user[c].identified => acct[user[c].nick].call = user[c].call
          /\ user[c].identified => IsRegistered(acct, user[c].nick)
      BY DEF Sound, OneCall
    <3>2. ASSUME NEW d \in Clients \ {c}
          PROVE  users[d].call # user[c].call
      <4>1. CASE d \in but
        BY <1>2, <2>2, <4>1 DEF Touches, OneCall
      <4>2. CASE d \notin but
        BY <1>2, <3>1, <4>2
      <4> QED  BY <4>1, <4>2
    <3>3. Owners(store, user[c].call) \subseteq Owners(acct, user[c].call)
      BY <2>2 DEF Touches
    <3>4. user[c].identified => store[user[c].nick].call = user[c].call
      BY <1>2, <2>2, <3>1 DEF IsRegistered
    <3> QED  BY <3>1, <3>2, <3>3, <3>4
  <2> QED  BY <2>1, <2>2
<1> QED  BY <1>1, <1>3, <1>4, <1>5 DEF Sound

(* One user is given another value, which goes with the accounts and with  *)
(* the other users.                                                        *)
Fits(v, c, store) ==
  /\ v \in Users
  /\ v.nick = NoNick \/ \A d \in Clients \ {c} : user[d].nick # v.nick
  /\ ~v.online => Absent(v)
  /\ v.identified => IsRegistered(store, v.nick)
  /\ v.call # NoCall =>
       /\ \A d \in Clients \ {c} : user[d].call # v.call
       /\ Owners(store, v.call) \subseteq {v.nick}
       /\ v.identified => store[v.nick].call = v.call
  /\ v.online /\ IsRegistered(store, v.nick) /\ ~v.identified /\ v.nick # Guest[c]
     => v.deadline

(* The accounts are the same, or one has changed that this user has the    *)
(* nick of.                                                                *)
Own(store, c, call) ==
  \/ store = acct
  \/ /\ user[c].nick \in Nicks /\ Changed(store, acct, user[c].nick)
     /\ \A other \in Calls \ {call} : Owners(store, other) \subseteq Owners(acct, other)

LEMMA PutSound ==
  ASSUME Sound(user, acct, {}), NEW c \in Clients, NEW v, NEW store,
         Fits(v, c, store), Own(store, c, v.call)
  PROVE  Sound([user EXCEPT ![c] = v], store, {c})
<1> DEFINE users == [user EXCEPT ![c] = v]
<1>1. user \in [Clients -> Users] /\ acct \in Stores /\ BoundOnce(acct)
  BY DEF Sound
<1>2. /\ users \in [Clients -> Users] /\ users[c] = v
      /\ \A d \in Clients \ {c} : users[d] = user[d]
  BY <1>1 DEF Fits
<1> HIDE DEF users
<1>3. store \in Stores /\ BoundOnce(store)
  BY <1>1 DEF Own, Changed
<1>4. ASSUME NEW d \in Clients \ {c}
      PROVE  /\ user[d].nick # NoNick => store[user[d].nick] = acct[user[d].nick]
             /\ user[d].call # NoCall =>
                  Owners(store, user[d].call) \subseteq Owners(acct, user[d].call)
  <2>1. CASE store = acct
    BY <2>1
  <2>2. CASE store # acct
    <3>1. /\ user[c].nick \in Nicks /\ Changed(store, acct, user[c].nick)
          /\ \A other \in Calls \ {v.call} : Owners(store, other) \subseteq Owners(acct, other)
      BY <2>2 DEF Own
    <3>2. user[d].nick # NoNick => user[d].nick \in Nicks \ {user[c].nick}
      BY <1>1 DEF Sound, Users
    <3>3. user[d].call # NoCall => user[d].call \in Calls \ {v.call}
      BY <1>1 DEF Users, Fits
    <3> QED  BY <3>1, <3>2, <3>3 DEF Changed
  <2> QED  BY <2>1, <2>2
<1>5. OneCall(users, store, c) /\ Timed(users, store, c)
  BY <1>2 DEF Fits, OneCall, Timed
<1>6. Touches(users, store, {c})
  BY <1>2, <1>3, <1>4, <1>5 DEF Fits, Touches
<1> QED  BY <1>6, TouchesSound DEF users

LEMMA PutSettles ==
  ASSUME Sound(user, acct, {}), NEW c \in Clients, NEW v, NEW store,
         Fits(v, c, store), Own(store, c, v.call)
  PROVE  Sound(Refresh([user EXCEPT ![c] = v], store, c), store, {})
BY PutSound, RefreshSettles

(* Nobody else goes on with the callsign, so that nobody is stripped.      *)
LEMMA StripNobody ==
  ASSUME user \in [Clients -> Users], NEW c \in Clients, NEW v \in Users, NEW store \in Stores,
         NEW call, \A d \in Clients \ {c} : user[d].call # call
  PROVE  Strip([user EXCEPT ![c] = v], store, call, {c}) = [user EXCEPT ![c] = v]
<1> DEFINE users == [user EXCEPT ![c] = v]
           r == Strip(users, store, call, {c})
<1>1. users \in [Clients -> Users] /\ \A d \in Clients \ {c} : users[d] = user[d]
  OBVIOUS
<1> HIDE DEF users
<1>2. Stripped(r, users, store, call, {c})
  BY <1>1, StripGives
<1>3. r \in [Clients -> Users] /\ \A d \in Clients : r[d] = users[d]
  BY <1>1, <1>2 DEF Stripped
<1> HIDE DEF r
<1>4. r = users
  BY <1>1, <1>3
<1> QED  BY <1>4 DEF r, users

-----------------------------------------------------------------------------
(* Every event leaves users and accounts sound.  Those of one user first.  *)
LEMMA ComeAndGoSound ==
  ASSUME Sound(user, acct, {}), NEW c \in Clients,
         \/ user' = [user EXCEPT ![c] = [Stranger EXCEPT !.online = TRUE]]
         \/ user' = Gone(user, c),
         UNCHANGED acct
  PROVE  Sound(user', acct', {})
<1> DEFINE Idle(v) == /\ v \in Users /\ v.nick = NoNick /\ v.call = NoCall
                      /\ ~v.identified /\ ~v.oper /\ ~v.rfTx
<1>a. Idle(Stranger)
  BY DEF Stranger, Users
<1>b. Idle([Stranger EXCEPT !.online = TRUE])
  BY DEF Stranger, Users
<1> PICK v : user' = [user EXCEPT ![c] = v] /\ Idle(v)
  BY <1>a, <1>b DEF Gone
<1>1. Fits(v, c, acct) /\ Own(acct, c, v.call) /\ ~v.rfTx /\ ~MayTransmit(acct, v)
  BY DEF Fits, Own, Absent, IsRegistered, MayTransmit
<1>2. Sound(user', acct, {c})
  BY <1>1, PutSound
<1>3. user'[c] = v
  BY DEF Sound
<1> QED  BY <1>1, <1>2, <1>3 DEF Sound

LEMMA NickSound ==
  ASSUME Sound(user, acct, {}), NEW c \in Clients, NEW n \in Wanted, Nick(c, n)
  PROVE  Sound(user', acct', {})
<1> DEFINE v == Renamed(user[c], n, IsRegistered(acct, n))
<1>1. n \in Nicks /\ n # NoNick /\ user[c] \in Users /\ user[c].online
  BY AccountsAssumption DEF Nick, Sound
<1>2. IsRegistered(acct, n) \in BOOLEAN
  BY DEF IsRegistered
<1>3. /\ v \in Users /\ v.online /\ v.nick = n /\ ~v.identified /\ v.call = NoCall
      /\ v.deadline = IsRegistered(acct, n)
  BY <1>1, <1>2 DEF Renamed, Users
<1>4. \A d \in Clients : user[d].nick # n
  BY <1>1 DEF Nick, Taken, HolderOf, Sound, Absent
<1>5. Fits(v, c, acct) /\ Own(acct, c, v.call)
  BY <1>3, <1>4 DEF Fits, Own
<1>6. user' = Refresh([user EXCEPT ![c] = v], acct, c) /\ acct' = acct
  BY DEF Nick
<1> HIDE DEF v
<1> QED  BY <1>5, <1>6, PutSettles

LEMMA ExpireSound ==
  ASSUME Sound(user, acct, {}), NEW c \in Clients, ExpireUnidentified(c)
  PROVE  Sound(user', acct', {})
<1>1. CASE Taken(Guest[c])
  BY <1>1, ComeAndGoSound DEF ExpireUnidentified
<1>2. CASE ~Taken(Guest[c])
  <2> DEFINE v == [user[c] EXCEPT !.deadline = FALSE, !.call = NoCall, !.nick = Guest[c]]
  <2>1. Guest[c] \in Nicks /\ Guest[c] # NoNick /\ user[c] \in Users
        /\ user[c].online /\ ~user[c].identified
    BY AccountsAssumption DEF ExpireUnidentified, Sound
  <2>2. v \in Users /\ v.online /\ v.nick = Guest[c] /\ ~v.identified /\ v.call = NoCall
    BY <2>1 DEF Users
  <2>3. \A d \in Clients : user[d].nick # Guest[c]
    BY <1>2, <2>1 DEF Taken, HolderOf, Sound, Absent
  <2>4. Fits(v, c, acct) /\ Own(acct, c, v.call)
    BY <2>2, <2>3 DEF Fits, Own
  <2>5. user' = Refresh([user EXCEPT ![c] = v], acct, c) /\ acct' = acct
    BY <1>2 DEF ExpireUnidentified
  <2> HIDE DEF v
  <2> QED  BY <2>4, <2>5, PutSettles
<1> QED  BY <1>1, <1>2

LEMMA CallsignSound ==
  ASSUME Sound(user, acct, {}), NEW c \in Clients, NEW call \in Calls, Callsign(c, call)
  PROVE  Sound(user', acct', {})
<1> DEFINE v == [user[c] EXCEPT !.call = call]
           n == user[c].nick
<1>1. /\ user \in [Clients -> Users] /\ user[c] \in Users /\ acct \in Stores /\ BoundOnce(acct)
      /\ user[c].online /\ n \in Nicks /\ n # NoNick /\ call # NoCall
  BY AccountsAssumption DEF Callsign, Speaks, Sound, Users
<1>2. /\ v \in Users /\ v.call = call /\ SameNick(v, user[c])
  BY <1>1 DEF Users, SameNick
<1>3. user' = Refresh(Strip([user EXCEPT ![c] = v], acct', call, {c}), acct', c)
  BY DEF Callsign
<1>4. Owners(acct, call) \subseteq {n} /\ \A d \in Clients \ {c} : user[d].call # call
  BY DEF Callsign
<1>5. /\ \A d \in Clients \ {c} : user[d].nick # n
      /\ user[c].identified => IsRegistered(acct, n)
      /\ Timed(user, acct, c)
  BY <1>1 DEF Sound
<1> HIDE DEF v
<1>6. CASE user[c].identified
  <2>1. acct' = SetCallsign(acct, n, call) /\ IsRegistered(acct, n)
    BY <1>5, <1>6 DEF Callsign, Commit
  <2>2. /\ Changed(acct', acct, n) /\ acct'[n] # NoAccount /\ acct'[n].call = call
        /\ Owners(acct', call) \subseteq {n}
        /\ \A other \in Calls \ {call} : Owners(acct', other) \subseteq Owners(acct, other)
    BY <1>1, <1>4, <2>1, SetCallsignKeeps
  <2>3. Own(acct', c, v.call)
    BY <1>1, <1>2, <2>2 DEF Own
  <2>4. Fits(v, c, acct')
    BY <1>1, <1>2, <1>4, <1>5, <1>6, <2>2 DEF Fits, SameNick, IsRegistered
  <2>5. acct' \in Stores
    BY <2>2 DEF Changed
  <2> QED  BY <1>1, <1>2, <1>3, <1>4, <2>3, <2>4, <2>5, StripNobody, PutSettles
<1>7. CASE ~user[c].identified
  <2>1. acct' = acct
    BY <1>7 DEF Callsign, NoCommit
  <2>2. Fits(v, c, acct)
    BY <1>1, <1>2, <1>4, <1>5, <1>7 DEF Fits, SameNick, Timed
  <2>3. Own(acct, c, v.call)
    BY DEF Own
  <2> QED  BY <1>1, <1>2, <1>3, <1>4, <2>1, <2>2, <2>3, StripNobody, PutSettles
<1> QED  BY <1>6, <1>7

(* The answer to a check finds the user with the nick of the moment.       *)
Present(c) ==
  /\ user \in [Clients -> Users] /\ user[c] \in Users /\ acct \in Stores /\ BoundOnce(acct)
  /\ user[c].online /\ user[c].nick \in Nicks /\ user[c].nick # NoNick
  /\ \A d \in Clients \ {c} : user[d].nick # user[c].nick
  /\ user[c].identified => IsRegistered(acct, user[c].nick)
  /\ OneCall(user, acct, c) /\ Timed(user, acct, c)

LEMMA NickIsPresent ==
  ASSUME Sound(user, acct, {}), NEW c \in Clients, user[c].nick \in Nicks
  PROVE  Present(c)
BY AccountsAssumption DEF Sound, Present, Absent

(* One who has proved to own a nick that is registered, with the callsign  *)
(* he goes on with, if any.                                                *)
LEMMA ProvedFits ==
  ASSUME NEW c \in Clients, Present(c), NEW store, NEW v \in Users,
         v.online, v.nick = user[c].nick, v.identified, v.call \in {NoCall, user[c].call},
         IsRegistered(store, user[c].nick),
         v.call # NoCall => /\ store[user[c].nick].call = v.call
                            /\ Owners(store, v.call) \subseteq {user[c].nick}
  PROVE  Fits(v, c, store)
BY DEF Present, OneCall, Fits

(* bind_session_callsign.                                                  *)
LEMMA BindSettles ==
  ASSUME Sound(user, acct, {}), NEW c \in Clients, Present(c), user[c].call # NoCall,
         NEW store, store = acct \/ Changed(store, acct, user[c].nick),
         \A other \in Calls : Owners(store, other) \subseteq Owners(acct, other),
         IsRegistered(store, user[c].nick), Owners(store, user[c].call) \subseteq {user[c].nick},
         acct' = Bound(store, c),
         user' = Refresh(Strip(Proved(user, c), acct', user[c].call, {c}), acct', c)
  PROVE  Sound(user', acct', {})
<1> DEFINE v == [user[c] EXCEPT !.identified = TRUE, !.deadline = FALSE]
           n == user[c].nick
           call == user[c].call
<1>1. /\ v \in Users /\ v.call = call /\ v.nick = n /\ v.online /\ v.identified
  BY DEF Present, Users
<1>2. user' = Refresh(Strip([user EXCEPT ![c] = v], acct', call, {c}), acct', c)
  BY DEF Proved
<1>3. store \in Stores /\ BoundOnce(store) /\ call \in Calls /\ n \in Nicks
  BY DEF Present, Changed, Users
<1> HIDE DEF v
<1>4. /\ Changed(acct', store, n) /\ acct'[n] # NoAccount /\ acct'[n].call = call
      /\ Owners(acct', call) \subseteq {n}
      /\ \A other \in Calls \ {call} : Owners(acct', other) \subseteq Owners(store, other)
  BY <1>3, SetCallsignKeeps DEF Bound
<1>5. Changed(acct', acct, n)
  BY <1>4 DEF Changed
<1>6. \A other \in Calls \ {call} : Owners(acct', other) \subseteq Owners(acct, other)
  BY <1>4
<1>7. Own(acct', c, v.call)
  BY <1>1, <1>3, <1>5, <1>6 DEF Own
<1>8. IsRegistered(acct', n)
  BY <1>4 DEF IsRegistered, Present
<1>9. Fits(v, c, acct')
  BY <1>1, <1>4, <1>8, ProvedFits
<1>10. acct' \in Stores /\ user \in [Clients -> Users]
       /\ \A d \in Clients \ {c} : user[d].call # call
  BY <1>4 DEF Changed, Present, OneCall
<1> HIDE DEF call
<1>11. Strip([user EXCEPT ![c] = v], acct', call, {c}) = [user EXCEPT ![c] = v]
  BY <1>1, <1>10, StripNobody
<1>12. Sound(Refresh([user EXCEPT ![c] = v], acct', c), acct', {})
  BY <1>7, <1>9, PutSettles
<1> QED  BY <1>2, <1>11, <1>12 DEF call

LEMMA FinishIdentifySound ==
  ASSUME Sound(user, acct, {}), NEW c \in Clients, user[c].nick \in Nicks, FinishIdentify(c)
  PROVE  Sound(user', acct', {})
<1> DEFINE v == [user[c] EXCEPT !.identified = TRUE, !.deadline = FALSE]
           w == [v EXCEPT !.call = NoCall]
           call == user[c].call
<1>1. Present(c)
  BY NickIsPresent
<1>2. /\ v \in Users /\ v.call = call /\ v.nick = user[c].nick /\ v.online /\ v.identified
      /\ w \in Users /\ w.call = NoCall /\ w.nick = user[c].nick /\ w.online /\ w.identified
  BY <1>1 DEF Present, Users
<1>3. /\ Proved(user, c) = [user EXCEPT ![c] = v]
      /\ [Proved(user, c) EXCEPT ![c].call = NoCall] = [user EXCEPT ![c] = w]
  BY <1>1 DEF Proved, Present
<1> HIDE DEF v, w
<1>4. CASE ~IsRegistered(acct, user[c].nick)
  BY <1>4 DEF FinishIdentify, NoCommit
<1>5. CASE IsRegistered(acct, user[c].nick) /\ call = NoCall
  <2>1. acct' = acct /\ user' = Refresh([user EXCEPT ![c] = v], acct, c)
    BY <1>3, <1>5 DEF FinishIdentify, NoCommit
  <2>2. Fits(v, c, acct) /\ Own(acct, c, v.call)
    BY <1>1, <1>2, <1>5, ProvedFits DEF Own
  <2> QED  BY <2>1, <2>2, PutSettles
<1>6. CASE /\ IsRegistered(acct, user[c].nick) /\ call # NoCall
           /\ Owners(acct, call) \subseteq {user[c].nick}
  <2>1. /\ acct' = Bound(acct, c)
        /\ user' = Refresh(Strip(Proved(user, c), acct', call, {c}), acct', c)
    BY <1>6 DEF FinishIdentify, Commit
  <2> QED  BY <1>1, <1>6, <2>1, BindSettles
<1>7. CASE /\ IsRegistered(acct, user[c].nick) /\ call # NoCall
           /\ ~(Owners(acct, call) \subseteq {user[c].nick})
  <2>1. acct' = acct /\ user' = Refresh([user EXCEPT ![c] = w], acct, c)
    BY <1>3, <1>7 DEF FinishIdentify, NoCommit
  <2>2. Fits(w, c, acct) /\ Own(acct, c, w.call)
    BY <1>1, <1>2, <1>7, ProvedFits DEF Own
  <2> QED  BY <2>1, <2>2, PutSettles
<1> QED  BY <1>4, <1>5, <1>6, <1>7

LEMMA FinishRegisterSound ==
  ASSUME Sound(user, acct, {}), NEW c \in Clients, user[c].nick \in Nicks,
         NEW password \in Passwords, FinishRegister(c, password)
  PROVE  Sound(user', acct', {})
<1> DEFINE n == user[c].nick
           call == user[c].call
           made == InsertHashed(acct, n, password)
           v == [user[c] EXCEPT !.identified = TRUE, !.deadline = FALSE]
           w == [v EXCEPT !.call = NoCall]
<1>1. Present(c) /\ acct \in Stores /\ BoundOnce(acct) /\ n \in Nicks
  BY NickIsPresent DEF Present
<1>2. /\ v \in Users /\ v.call = call /\ v.nick = n /\ v.online /\ v.identified
      /\ w \in Users /\ w.call = NoCall /\ w.nick = n /\ w.online /\ w.identified
  BY <1>1 DEF Present, Users
<1>3. /\ Proved(user, c) = [user EXCEPT ![c] = v]
      /\ [Proved(user, c) EXCEPT ![c].call = NoCall] = [user EXCEPT ![c] = w]
  BY <1>1 DEF Proved, Present
<1>4. made \in Stores
  BY <1>1, ChangesTyped
<1>5. /\ Changed(made, acct, n)
      /\ \A other \in Calls : Owners(made, other) \subseteq Owners(acct, other)
  BY <1>1, <1>4, ChangesKeep
<1>6. IsRegistered(made, n)
  <2>1. n # NoNick /\ made[n] \in NickAccounts
    BY <1>1, AccountsAssumption DEF InsertHashed, Stores, NickAccounts
  <2> QED  BY <2>1, AccountsAssumption DEF IsRegistered
<1>7. call # NoCall => call \in Calls
  BY <1>1 DEF Present, Users
<1> HIDE DEF v, w
<1>8. CASE user[c].identified /\ IsRegistered(acct, n)
  <2>1. acct' = SetPassword(acct, n, password) /\ user' = user
    BY <1>8 DEF FinishRegister, Commit
  <2>2. acct[n] # NoAccount
    BY <1>8 DEF IsRegistered
  <2>3. acct' \in Stores
    BY <1>1, <2>1, <2>2, ChangesTyped
  <2>4. /\ Changed(acct', acct, n)
        /\ \A other \in Calls : Owners(acct', other) \subseteq Owners(acct, other)
    BY <1>1, <1>8, <2>1, <2>3, ChangesKeep
  <2>5. /\ acct'[n] = [acct[n] EXCEPT !.password = password]
        /\ acct[n] \in NickAccounts
    BY <1>1, <2>1, <2>2 DEF SetPassword, Stores
  <2>6. acct'[n] \in NickAccounts /\ acct'[n].call = acct[n].call /\ acct'[n].rfTx = acct[n].rfTx
    BY <2>5 DEF NickAccounts
  <2>7. IsRegistered(acct', n)
    BY <1>8, <2>6, AccountsAssumption DEF IsRegistered
  <2>8. Fits(user[c], c, acct')
    <3>1. call # NoCall => /\ acct'[n].call = call /\ Owners(acct', call) \subseteq {n}
      BY <1>1, <1>7, <1>8, <2>4, <2>6 DEF Present, OneCall
    <3> QED  BY <1>1, <1>8, <2>7, <3>1, ProvedFits DEF Present
  <2>9. Own(acct', c, user[c].call)
    BY <1>1, <2>4 DEF Own
  <2>10. Sound([user EXCEPT ![c] = user[c]], acct', {c})
    BY <2>8, <2>9, PutSound
  <2>11. [user EXCEPT ![c] = user[c]] = user
    BY <1>1 DEF Present
  <2>12. MayTransmit(acct', user[c]) = MayTransmit(acct, user[c])
    BY <1>8, <2>6, <2>7 DEF MayTransmit, GrantsRfTx
  <2> QED  BY <2>1, <2>10, <2>11, <2>12 DEF Sound
<1>9. CASE ~user[c].identified /\ IsRegistered(acct, n)
  BY <1>9 DEF FinishRegister, NoCommit
<1>10. CASE ~IsRegistered(acct, n) /\ call = NoCall
  <2>1. acct' = made /\ user' = Refresh([user EXCEPT ![c] = v], made, c)
    BY <1>3, <1>10 DEF FinishRegister, Commit
  <2> HIDE DEF made
  <2>2. Fits(v, c, made) /\ Own(made, c, v.call)
    BY <1>1, <1>2, <1>5, <1>6, <1>10, ProvedFits DEF Own
  <2> QED  BY <2>1, <2>2, PutSettles
<1>11. CASE ~IsRegistered(acct, n) /\ call # NoCall /\ Owners(acct, call) = {}
  <2>1. /\ acct' = Bound(made, c)
        /\ user' = Refresh(Strip(Proved(user, c), acct', call, {c}), acct', c)
    BY <1>11 DEF FinishRegister, CommitTwice
  <2> HIDE DEF made
  <2>2. Owners(made, call) \subseteq {n}
    BY <1>5, <1>7, <1>11
  <2> QED  BY <1>1, <1>5, <1>6, <1>11, <2>1, <2>2, BindSettles
<1>12. CASE ~IsRegistered(acct, n) /\ call # NoCall /\ Owners(acct, call) # {}
  <2>1. acct' = made /\ user' = Refresh([user EXCEPT ![c] = w], made, c)
    BY <1>3, <1>12 DEF FinishRegister, Commit
  <2> HIDE DEF made
  <2>2. Fits(w, c, made) /\ Own(made, c, w.call)
    BY <1>1, <1>2, <1>5, <1>6, <1>12, ProvedFits DEF Own
  <2> QED  BY <2>1, <2>2, PutSettles
<1> QED  BY <1>8, <1>9, <1>10, <1>11, <1>12

LEMMA FinishUnregisterSound ==
  ASSUME Sound(user, acct, {}), NEW c \in Clients, user[c].nick \in Nicks, FinishUnregister(c)
  PROVE  Sound(user', acct', {})
<1> DEFINE n == user[c].nick
           v == [user[c] EXCEPT !.identified = FALSE]
           store == Drop(acct, n)
<1>1. Present(c) /\ acct \in Stores /\ BoundOnce(acct) /\ n \in Nicks
  BY NickIsPresent DEF Present
<1>2. v \in Users /\ v.call = user[c].call /\ v.nick = n /\ v.online /\ ~v.identified
  BY <1>1 DEF Present, Users
<1>3. store \in Stores
  BY <1>1, ChangesTyped
<1>4. /\ Changed(store, acct, n)
      /\ \A other \in Calls : Owners(store, other) \subseteq Owners(acct, other)
  BY <1>1, <1>3, ChangesKeep
<1>5. ~IsRegistered(store, n)
  BY <1>1 DEF Drop, IsRegistered, Stores
<1>6. user[c].call # NoCall => user[c].call \in Calls
  BY <1>1 DEF Present, Users
<1>7. ~IsRegistered(acct, n) \/ (acct' = store /\ user' = Refresh([user EXCEPT ![c] = v], store, c))
  BY DEF FinishUnregister, Commit
<1> HIDE DEF v, store
<1>8. Fits(v, c, store) /\ Own(store, c, v.call)
  BY <1>1, <1>2, <1>4, <1>5, <1>6 DEF Present, OneCall, Fits, Own
<1>9. ~IsRegistered(acct, n) => UNCHANGED <<user, acct>>
  BY DEF FinishUnregister, NoCommit
<1> QED  BY <1>7, <1>8, <1>9, PutSettles

LEMMA FinishOperSound ==
  ASSUME Sound(user, acct, {}), NEW c \in Clients, user[c].nick \in Nicks, FinishOper(c)
  PROVE  Sound(user', acct', {})
<1> DEFINE v == [user[c] EXCEPT !.oper = TRUE]
<1>1. Present(c)
  BY NickIsPresent
<1>2. /\ v \in Users /\ v.call = user[c].call /\ v.nick = user[c].nick /\ v.online
      /\ v.identified = user[c].identified /\ v.deadline = user[c].deadline
  BY <1>1 DEF Present, Users
<1>3. acct' = acct /\ user' = Refresh([user EXCEPT ![c] = v], acct, c)
  BY <1>1 DEF FinishOper, NoCommit, Present
<1> HIDE DEF v
<1>4. Fits(v, c, acct) /\ Own(acct, c, v.call)
  BY <1>1, <1>2 DEF Present, OneCall, Timed, Fits, Own
<1> QED  BY <1>3, <1>4, PutSettles

LEMMA FinishSound ==
  ASSUME Sound(user, acct, {}), jobs \subseteq Jobs, NEW j \in jobs, Finish(j)
  PROVE  Sound(user', acct', {})
<1>1. j.who \in Clients /\ j.nick \in Nicks /\ j.password \in Passwords
  BY DEF Jobs
<1>2. CASE user[j.who].nick # j.nick \/ ~j.ok
  BY <1>2 DEF Finish, NoCommit
<1>3. CASE user[j.who].nick = j.nick /\ j.ok
  <2>1. \/ FinishIdentify(j.who) \/ FinishRegister(j.who, j.password)
        \/ FinishUnregister(j.who) \/ FinishOper(j.who)
    BY <1>3 DEF Finish
  <2> QED  BY <1>1, <1>3, <2>1, FinishIdentifySound, FinishRegisterSound,
              FinishUnregisterSound, FinishOperSound
<1> QED  BY <1>2, <1>3

(* Those of operators, on a nick that may be nobody's.                     *)
LEMMA NobodysNick ==
  ASSUME Sound(user, acct, {}), NEW n \in Nicks, \A d \in Clients : user[d].nick # n,
         NEW store, Changed(store, acct, n),
         \A call \in Calls : Owners(store, call) \subseteq Owners(acct, call)
  PROVE  Sound(user, store, {})
<1>1. \A d \in Clients : /\ user[d].nick # NoNick => user[d].nick \in Nicks \ {n}
                         /\ user[d].call # NoCall => user[d].call \in Calls
  BY DEF Sound, Users
<1>2. Touches(user, store, {})
  BY <1>1 DEF Sound, Changed, Touches
<1> QED  BY <1>2, TouchesSound

LEMMA GrantSound ==
  ASSUME Sound(user, acct, {}), NEW n \in Nicks, NEW granted \in BOOLEAN, Grant(n, granted)
  PROVE  Sound(user', acct', {})
<1> DEFINE store == SetRfTx(acct, n, granted)
<1>1. /\ acct \in Stores /\ BoundOnce(acct) /\ acct[n] # NoAccount /\ IsRegistered(acct, n)
      /\ acct' = store /\ user' = RefreshHolder(user, store, n) /\ n # NoNick
  BY DEF Sound, Grant, Commit, IsRegistered
<1>2. store \in Stores
  BY <1>1, ChangesTyped
<1>3. /\ Changed(store, acct, n)
      /\ \A call \in Calls : Owners(store, call) \subseteq Owners(acct, call)
  BY <1>1, <1>2, ChangesKeep
<1>4. store[n] \in NickAccounts /\ store[n].call = acct[n].call
  <2>1. acct[n] \in NickAccounts /\ store[n] = [acct[n] EXCEPT !.rfTx = granted]
    BY <1>1 DEF Stores, SetRfTx
  <2> QED  BY <2>1 DEF NickAccounts
<1>5. IsRegistered(store, n)
  BY <1>1, <1>4, AccountsAssumption DEF IsRegistered
<1> HIDE DEF store
<1>6. CASE \E c \in Clients : /\ user[c].online /\ user[c].nick = n
                              /\ RefreshHolder(user, store, n) = Refresh(user, store, c)
  <2> PICK c \in Clients : /\ user[c].online /\ user[c].nick = n
                           /\ RefreshHolder(user, store, n) = Refresh(user, store, c)
    BY <1>6
  <2>1. Present(c)
    BY NickIsPresent
  <2>2. user[c].call # NoCall => user[c].call \in Calls
    BY <2>1 DEF Present, Users
  <2>3. Fits(user[c], c, store)
    BY <1>1, <1>3, <1>4, <1>5, <2>1, <2>2 DEF Present, OneCall, Timed, Fits
  <2>4. Own(store, c, user[c].call)
    BY <1>3 DEF Own
  <2>5. [user EXCEPT ![c] = user[c]] = user
    BY <2>1 DEF Present
  <2>6. Sound(Refresh([user EXCEPT ![c] = user[c]], store, c), store, {})
    BY <2>3, <2>4, PutSettles
  <2> QED  BY <1>1, <2>5, <2>6
<1>7. CASE /\ \A c \in Clients : ~(user[c].online /\ user[c].nick = n)
           /\ RefreshHolder(user, store, n) = user
  <2>1. \A c \in Clients : user[c].nick # n
    BY <1>1, <1>7 DEF Sound, Absent
  <2> QED  BY <1>1, <1>3, <1>7, <2>1, NobodysNick
<1> QED  BY <1>6, <1>7, RefreshHolderGives

LEMMA DropNickSound ==
  ASSUME Sound(user, acct, {}), NEW n \in Nicks, DropNick(n)
  PROVE  Sound(user', acct', {})
<1> DEFINE store == Drop(acct, n)
           users == [c \in Clients |-> IF c \in HolderOf(n)
             THEN [user[c] EXCEPT !.identified = FALSE, !.call = NoCall, !.rfTx = @ /\ user[c].oper]
             ELSE user[c]]
<1>1. /\ acct \in Stores /\ BoundOnce(acct) /\ n # NoNick /\ user \in [Clients -> Users]
      /\ acct' = store /\ user' = RefreshHolder(users, store, n)
  BY DEF Sound, DropNick, Commit, IsRegistered
<1>2. store \in Stores
  BY <1>1, ChangesTyped
<1>3. /\ Changed(store, acct, n)
      /\ \A call \in Calls : Owners(store, call) \subseteq Owners(acct, call)
  BY <1>1, <1>2, ChangesKeep
<1>4. ~IsRegistered(store, n)
  BY <1>1 DEF Drop, IsRegistered, Stores
<1>5. \A c \in Clients : c \in HolderOf(n) <=> user[c].nick = n
  BY <1>1 DEF HolderOf, Sound, Absent
<1>6. CASE \A c \in Clients : user[c].nick # n
  <2>1. users = user
    BY <1>1, <1>5, <1>6
  <2> HIDE DEF users, store
  <2>2. RefreshHolder(users, store, n) = user
    BY <1>6, <2>1, RefreshHolderGives
  <2> QED  BY <1>1, <1>3, <1>6, <2>2, NobodysNick
<1>7. CASE \E c \in Clients : user[c].nick = n
  <2> PICK c \in Clients : user[c].nick = n
    BY <1>7
  <2> DEFINE v == [user[c] EXCEPT !.identified = FALSE, !.call = NoCall,
                                  !.rfTx = @ /\ user[c].oper]
  <2>1. Present(c)
    BY NickIsPresent
  <2>2. v \in Users /\ v.nick = n /\ v.online /\ ~v.identified /\ v.call = NoCall
    BY <2>1 DEF Present, Users
  <2>3. users = [user EXCEPT ![c] = v]
    BY <1>1, <1>5, <2>1 DEF Present
  <2>4. \A d \in Clients : users[d].online /\ users[d].nick = n <=> d = c
    BY <1>1, <2>1, <2>2, <2>3 DEF Present
  <2> HIDE DEF users, store, v
  <2>5. RefreshHolder(users, store, n) = Refresh(users, store, c)
    BY <2>4, RefreshHolderGives
  <2>6. Fits(v, c, store)
    BY <1>4, <2>1, <2>2 DEF Present, Fits
  <2>7. Own(store, c, v.call)
    BY <1>3 DEF Own
  <2> QED  BY <1>1, <2>3, <2>5, <2>6, <2>7, PutSettles
<1> QED  BY <1>6, <1>7

LEMMA UnclaimSound ==
  ASSUME Sound(user, acct, {}), NEW call \in Calls, Unclaim(call)
  PROVE  Sound(user', acct', {})
<1> PICK n \in Owners(acct, call) : Commit(ClearCallsign(acct, n))
  BY DEF Unclaim
<1> DEFINE store == ClearCallsign(acct, n)
<1>1. /\ acct \in Stores /\ BoundOnce(acct) /\ user \in [Clients -> Users]
      /\ n \in Nicks /\ n # NoNick /\ acct[n] # NoAccount /\ acct[n].call = call
      /\ acct[n] \in NickAccounts /\ IsRegistered(acct, n) /\ call # NoCall
      /\ acct' = store
  BY AccountsAssumption DEF Sound, Commit, IsRegistered, Owners, Stores
<1>2. store \in Stores
  BY <1>1, ChangesTyped
<1>3. /\ Changed(store, acct, n)
      /\ \A other \in Calls : Owners(store, other) \subseteq Owners(acct, other)
  BY <1>1, <1>2, ChangesKeep
<1>4. store[n] \in NickAccounts /\ store[n].call = NoCall /\ store[n].rfTx = acct[n].rfTx
  <2>1. store[n] = [acct[n] EXCEPT !.call = NoCall]
    BY <1>1 DEF ClearCallsign, Stores
  <2> QED  BY <1>1, <2>1 DEF NickAccounts
<1>5. Stripped(user', user, store, call, {})
  BY <1>1, <1>2, StripGives DEF Unclaim
<1> HIDE DEF store
<1>6. store[n] # NoAccount
  BY <1>4, AccountsAssumption
<1>7. ASSUME NEW u \in Users
      PROVE  /\ IsRegistered(store, u.nick) = IsRegistered(acct, u.nick)
             /\ MayTransmit(store, u) = MayTransmit(acct, u)
  <2>1. u.nick # NoNick => u.nick \in Nicks
    BY DEF Users
  <2> QED  BY <1>1, <1>3, <1>4, <1>6, <2>1 DEF Changed, IsRegistered, MayTransmit, GrantsRfTx
<1>8. ASSUME NEW d \in Clients
      PROVE  /\ SameNick(user'[d], user[d])
             /\ user'[d].call # NoCall => user'[d].call = user[d].call /\ user[d].call # call
             /\ user'[d].rfTx <=> MayTransmit(store, user[d])
             /\ MayTransmit(store, user'[d]) = MayTransmit(store, user[d])
  <2>1. user[d] \in Users /\ MayTransmit(store, user[d]) \in BOOLEAN
    BY <1>1, <1>2, PrivilegesTyped
  <2>2. CASE user[d].call # call /\ user'[d] = user[d]
    BY <1>7, <2>1, <2>2 DEF SameNick, Sound
  <2>3. CASE /\ user'[d] = [user[d] EXCEPT !.call = NoCall, !.rfTx = MayTransmit(store, user[d])]
    <3>1. /\ SameNick(user'[d], user[d]) /\ user'[d].call = NoCall
          /\ user'[d].rfTx = MayTransmit(store, user[d])
      BY <2>1, <2>3 DEF SameNick, Users
    <3> QED  BY <3>1 DEF SameNick, MayTransmit
  <2> QED  BY <1>5, <2>2, <2>3 DEF Stripped
<1>9. ASSUME NEW d \in Clients
      PROVE  OneCall(user', store, d)
  <2> SUFFICES ASSUME user'[d].call # NoCall  PROVE OneCall(user', store, d)
    BY DEF OneCall
  <2>1. /\ user'[d].call = user[d].call /\ user[d].call # call /\ user[d].call # NoCall
        /\ SameNick(user'[d], user[d]) /\ user[d].call \in Calls
    BY <1>1, <1>8 DEF Users
  <2>2. /\ \A e \in Clients \ {d} : user[e].call # user[d].call
        /\ Owners(acct, user[d].call) \subseteq {user[d].nick}
        /\ user[d].identified => /\ acct[user[d].nick].call = user[d].call
                                 /\ IsRegistered(acct, user[d].nick)
    BY <2>1 DEF Sound, OneCall
  <2>3. user[d].identified => user[d].nick \in Nicks \ {n}
    BY <1>1, <2>1, <2>2 DEF IsRegistered, Users
  <2>4. user[d].identified => store[user[d].nick].call = user[d].call
    BY <1>3, <2>2, <2>3 DEF Changed
  <2>5. \A e \in Clients \ {d} : user'[e].call # user[d].call
    BY <1>8, <2>1, <2>2
  <2> QED  BY <1>3, <2>1, <2>2, <2>4, <2>5 DEF OneCall, SameNick
<1>10. ASSUME NEW d \in Clients
       PROVE  /\ ~user'[d].online => Absent(user'[d])
              /\ user'[d].identified => IsRegistered(store, user'[d].nick)
              /\ user'[d].rfTx <=> MayTransmit(store, user'[d])
              /\ Timed(user', store, d)
  <2>1. user[d] \in Users
    BY <1>1
  <2> QED  BY <1>7, <1>8, <2>1 DEF SameNick, Sound, Absent, Timed
<1>11. \A c, d \in Clients : user'[c].nick = user'[d].nick /\ user'[c].nick # NoNick => c = d
  BY <1>8 DEF SameNick, Sound
<1>12. user' \in [Clients -> Users] /\ store \in Stores /\ BoundOnce(store)
  BY <1>3, <1>5 DEF Stripped, Changed
<1> QED  BY <1>1, <1>9, <1>10, <1>11, <1>12 DEF Sound

(* A process that starts has no users, and the accounts of the file.       *)
LEMMA NobodySound ==
  ASSUME NEW store \in Stores, BoundOnce(store)
  PROVE  Sound([c \in Clients |-> Stranger], store, {})
<1> DEFINE users == [c \in Clients |-> Stranger]
<1>1. /\ Stranger \in Users /\ Stranger.nick = NoNick /\ Stranger.call = NoCall
      /\ ~Stranger.identified /\ ~Stranger.oper /\ ~Stranger.rfTx /\ ~Stranger.online
  BY DEF Stranger, Users
<1>2. users \in [Clients -> Users] /\ \A c \in Clients : users[c] = Stranger
  BY <1>1
<1> HIDE DEF users
<1> QED  BY <1>1, <1>2 DEF Sound, Absent, OneCall, Timed, IsRegistered, MayTransmit, users

-----------------------------------------------------------------------------
(* How the file follows memory: the last change is with a thread that has  *)
(* yet to have the lock, or with the one that has it, or in the file, or   *)
(* its write failed.  A thread with an earlier change that has the lock is *)
(* not the last one.                                                       *)
FileFollows ==
  /\ \A t \in threads : t.gen = gen => t.store = acct
  /\ writing # NoText /\ writing.gen = gen => writing.store = acct
  /\ writing # NoText /\ writing.gen < gen => \E t \in threads : t.gen = gen
  /\ \/ failed \/ disk.store = acct
     \/ writing # NoText /\ writing.gen = gen
     \/ \E t \in threads : t.gen = gen

(* What an event does to the accounts, with one change, two or none.       *)
Settled(store) == store \in Stores /\ BoundOnce(store)

Commits ==
  \/ NoCommit
  \/ \E store : Commit(store)
  \/ \E first, second : Settled(first) /\ CommitTwice(first, second)

LEMMA CommitFollows ==
  ASSUME FileTyped, FileFollows, NEW store, Settled(store), Commit(store)
  PROVE  FileTyped' /\ FileFollows'
<1> DEFINE t == [gen |-> gen + 1, store |-> store]
<1>1. /\ acct' = store /\ gen' = gen + 1 /\ threads' = threads \cup {t}
      /\ UNCHANGED <<writing, disk, failed>>
  BY DEF Commit
<1>2. t \in Texts /\ t.gen = gen + 1 /\ t.store = store
  BY DEF FileTyped, Settled, Texts
<1> HIDE DEF t
<1>3. \A x \in Texts : x.gen \in Nat
  BY DEF Texts
<1>4. FileTyped'
  BY <1>1, <1>2, <1>3 DEF FileTyped, Settled
<1>5. FileFollows'
  BY <1>1, <1>2, <1>3 DEF FileTyped, FileFollows
<1> QED  BY <1>4, <1>5

LEMMA CommitTwiceFollows ==
  ASSUME FileTyped, FileFollows, NEW first, NEW second, Settled(first), Settled(second),
         CommitTwice(first, second)
  PROVE  FileTyped' /\ FileFollows'
<1> DEFINE one == [gen |-> gen + 1, store |-> first]
           two == [gen |-> gen + 2, store |-> second]
<1>1. /\ acct' = second /\ gen' = gen + 2 /\ UNCHANGED <<disk, failed>>
      /\ \/ threads' = threads \cup {one, two} /\ UNCHANGED writing
         \/ writing' = one /\ threads' = threads \cup {two}
  BY DEF CommitTwice
<1>2. /\ one \in Texts /\ one.gen = gen + 1 /\ one.store = first
      /\ two \in Texts /\ two.gen = gen + 2 /\ two.store = second
  BY DEF FileTyped, Settled, Texts
<1> HIDE DEF one, two
<1>3. (\A x \in Texts : x.gen \in Nat) /\ NoText \notin Texts
  BY AccountsAssumption DEF Texts
<1>4. FileTyped'
  BY <1>1, <1>2, <1>3 DEF FileTyped, Settled
<1>5. FileFollows'
  BY <1>1, <1>2, <1>3 DEF FileTyped, FileFollows
<1> QED  BY <1>4, <1>5

LEMMA EventFollows ==
  ASSUME FileTyped, FileFollows, Settled(acct'), Commits
  PROVE  FileTyped' /\ FileFollows'
<1>1. CASE NoCommit
  BY <1>1 DEF NoCommit, file, FileTyped, FileFollows
<1>2. CASE \E store : Commit(store)
  BY <1>2, CommitFollows DEF Commit
<1>3. CASE \E first, second : Settled(first) /\ CommitTwice(first, second)
  BY <1>3, CommitTwiceFollows DEF CommitTwice
<1> QED  BY <1>1, <1>2, <1>3 DEF Commits

(* The writers, and a crash.                                               *)
LEMMA WriteFollows ==
  ASSUME FileTyped, FileFollows,
         (\E t \in threads : StartWrite(t)) \/ EndWrite \/ Restart
  PROVE  FileTyped' /\ FileFollows'
<1>1. (\A x \in Texts : x.gen \in Nat) /\ NoText \notin Texts
  BY AccountsAssumption DEF Texts
<1>2. CASE \E t \in threads : StartWrite(t)
  <2> PICK t \in threads : StartWrite(t)
    BY <1>2
  <2>1. /\ writing = NoText /\ threads' = threads \ {t}
        /\ writing' = IF t.gen = gen THEN t ELSE NoText
        /\ UNCHANGED <<gen, disk, failed, acct>>
    BY DEF StartWrite, auth
  <2>2. FileTyped'
    BY <1>1, <2>1 DEF FileTyped
  <2>3. FileFollows'
    BY <1>1, <2>1 DEF FileTyped, FileFollows
  <2> QED  BY <2>2, <2>3
<1>3. CASE EndWrite
  <2>1. /\ writing # NoText /\ writing' = NoText /\ UNCHANGED <<gen, threads, acct>>
        /\ \/ disk' = writing /\ failed' = FALSE
           \/ failed' = TRUE /\ UNCHANGED disk
    BY <1>3 DEF EndWrite, auth
  <2>2. FileTyped'
    BY <1>1, <2>1 DEF FileTyped
  <2>3. FileFollows'
    BY <1>1, <2>1 DEF FileTyped, FileFollows
  <2> QED  BY <2>2, <2>3
<1>4. CASE Restart
  <2>1. /\ acct' = disk.store /\ threads' = {} /\ writing' = NoText /\ failed' = FALSE
        /\ UNCHANGED <<gen, disk>>
    BY <1>4 DEF Restart
  <2>2. FileTyped'
    BY <1>1, <2>1 DEF FileTyped
  <2>3. FileFollows'
    BY <1>1, <2>1 DEF FileFollows
  <2> QED  BY <2>2, <2>3
<1> QED  BY <1>2, <1>3, <1>4

-----------------------------------------------------------------------------
(* The inductive invariant: the users go with the accounts, the accounts   *)
(* that wait to be read again are no worse, and the file follows memory.   *)
AccountsInv ==
  /\ FileTyped /\ FileFollows
  /\ JobsTyped
  /\ Sound(user, acct, {})

(* A check more, or fewer.                                                 *)
LEMMA JobAdded ==
  ASSUME JobsTyped, Cardinality(jobs) < MaxJobs, NEW j \in Jobs, jobs' = jobs \cup {j}
  PROVE  JobsTyped'
<1>1. IsFiniteSet(jobs) /\ Cardinality(jobs) \in Nat /\ MaxJobs \in Nat
  BY FS_CardinalityType, AccountsAssumption DEF JobsTyped
<1>2. /\ IsFiniteSet(jobs \cup {j})
      /\ Cardinality(jobs \cup {j}) \in {Cardinality(jobs), Cardinality(jobs) + 1}
  BY <1>1, FS_AddElement
<1> QED  BY <1>1, <1>2 DEF JobsTyped

LEMMA JobsFewer ==
  ASSUME JobsTyped, jobs' \subseteq jobs
  PROVE  JobsTyped'
<1>1. IsFiniteSet(jobs) /\ Cardinality(jobs) \in Nat /\ MaxJobs \in Nat
  BY FS_CardinalityType, AccountsAssumption DEF JobsTyped
<1>2. /\ IsFiniteSet(jobs') /\ Cardinality(jobs') \in Nat
      /\ Cardinality(jobs') <= Cardinality(jobs)
  BY <1>1, FS_Subset, FS_CardinalityType
<1> QED  BY <1>1, <1>2 DEF JobsTyped

LEMMA StartAdds ==
  ASSUME AccountsInv, NEW c \in Clients, NEW password \in Passwords,
         (\E kind \in Kinds \ {"oper"} : Start(c, kind, password)) \/ StartOper(c, password)
  PROVE  JobsTyped' /\ NoCommit /\ user' = user
<1>1. PICK kind \in Kinds, ok \in BOOLEAN :
        Cardinality(jobs) < MaxJobs /\ Speaks(c) /\ Begin(c, kind, password, ok)
  <2> DEFINE verified == Verifies(acct, user[c].nick, password)
             known == c \in Opers
  <2>1. verified \in BOOLEAN /\ known \in BOOLEAN
    BY DEF Verifies
  <2>2. \/ \E kind \in Kinds : Start(c, kind, password)
        \/ StartOper(c, password)
    OBVIOUS
  <2>3. /\ Cardinality(jobs) < MaxJobs /\ Speaks(c)
        /\ \E kind \in Kinds : \/ Begin(c, kind, password, TRUE)
                              \/ Begin(c, kind, password, verified)
                              \/ Begin(c, kind, password, known)
    BY <2>2 DEF Start, StartOper, Kinds
  <2> HIDE DEF verified, known
  <2> QED  BY <2>1, <2>3
<1> DEFINE j == [who |-> c, kind |-> kind, nick |-> user[c].nick,
                 password |-> password, ok |-> ok]
<1>2. user[c].nick \in Nicks
  BY <1>1 DEF AccountsInv, Sound, Users, Speaks
<1>3. j \in Jobs
  BY <1>2 DEF Jobs
<1>4. jobs' = jobs \cup {j} /\ UNCHANGED <<user, acct, file>>
  BY <1>1 DEF Begin
<1> QED  BY <1>1, <1>3, <1>4, JobAdded DEF AccountsInv, NoCommit

(* What is done with an answer is committed, at most twice.                *)
LEMMA FinishCommits ==
  ASSUME Sound(user, acct, {}), jobs \subseteq Jobs, NEW j \in jobs, Finish(j)
  PROVE  Commits
<1>1. j.who \in Clients /\ j.nick \in Nicks /\ j.password \in Passwords
  BY DEF Jobs
<1>2. ASSUME user[j.who].nick = j.nick, FinishRegister(j.who, j.password)
      PROVE  Commits
  <2> DEFINE made == InsertHashed(acct, j.nick, j.password)
  <2>1. acct \in Stores /\ BoundOnce(acct)
    BY DEF Sound
  <2>2. made \in Stores
    BY <1>1, <2>1, ChangesTyped
  <2>3. Settled(made)
    BY <1>1, <2>1, <2>2, ChangesKeep DEF Changed, Settled
  <2> QED  BY <1>2, <2>3 DEF FinishRegister, Commits
<1>3. ASSUME FinishIdentify(j.who) \/ FinishUnregister(j.who) \/ FinishOper(j.who)
      PROVE  Commits
  BY <1>3 DEF FinishIdentify, FinishUnregister, FinishOper, Commits
<1> QED  BY <1>2, <1>3 DEF Finish, Commits

(* Every step keeps the invariant.                                         *)
LEMMA AccountsStep ==
  ASSUME AccountsInv, [Next]_vars
  PROVE  AccountsInv'
<1> USE DEF AccountsInv
<1>1. CASE UNCHANGED vars
  BY <1>1 DEF vars, FileTyped, FileFollows, JobsTyped
<1>2. ASSUME Commits, JobsTyped', Sound(user', acct', {})
      PROVE  AccountsInv'
  <2>1. Settled(acct')
    BY <1>2 DEF Sound, Settled
  <2> QED  BY <1>2, <2>1, EventFollows
<1>3. ASSUME NEW c \in Clients, Connect(c) \/ Quit(c) \/ ExpireUnidentified(c)
      PROVE  AccountsInv'
  <2>1. Commits /\ jobs' \subseteq jobs /\ UNCHANGED acct
    BY <1>3 DEF Connect, Quit, ExpireUnidentified, Commits, NoCommit
  <2>2. Sound(user', acct', {})
    BY <1>3, <2>1, ComeAndGoSound, ExpireSound DEF Connect, Quit
  <2> QED  BY <1>2, <2>1, <2>2, JobsFewer
<1>4. ASSUME NEW c \in Clients, NEW n \in Wanted, Nick(c, n)
      PROVE  AccountsInv'
  <2>1. Commits /\ jobs' \subseteq jobs
    BY <1>4 DEF Nick, Commits, NoCommit
  <2> QED  BY <1>2, <1>4, <2>1, NickSound, JobsFewer
<1>5. ASSUME NEW c \in Clients, NEW call \in Calls, Callsign(c, call)
      PROVE  AccountsInv'
  <2>1. Commits /\ jobs' \subseteq jobs
    BY <1>5 DEF Callsign, Commits
  <2> QED  BY <1>2, <1>5, <2>1, CallsignSound, JobsFewer
<1>6. ASSUME NEW c \in Clients, NEW password \in Passwords,
             (\E kind \in Kinds \ {"oper"} : Start(c, kind, password)) \/ StartOper(c, password)
      PROVE  AccountsInv'
  <2>1. JobsTyped' /\ NoCommit /\ user' = user
    BY <1>6, StartAdds
  <2> QED  BY <1>2, <2>1 DEF Commits, NoCommit
<1>7. ASSUME NEW j \in jobs, Finish(j)
      PROVE  AccountsInv'
  <2>1. Commits /\ Sound(user', acct', {})
    BY <1>7, FinishCommits, FinishSound DEF JobsTyped
  <2>2. jobs' \subseteq jobs
    BY <1>7 DEF Finish
  <2> QED  BY <1>2, <2>1, <2>2, JobsFewer
<1>8. ASSUME \/ \E n \in Nicks : (\E g \in BOOLEAN : Grant(n, g)) \/ DropNick(n)
             \/ \E call \in Calls : Unclaim(call)
      PROVE  AccountsInv'
  <2>1. Commits /\ jobs' \subseteq jobs
    BY <1>8 DEF Grant, DropNick, Unclaim, Commits
  <2>2. Sound(user', acct', {})
    BY <1>8, GrantSound, DropNickSound, UnclaimSound
  <2> QED  BY <1>2, <2>1, <2>2, JobsFewer
<1>9. ASSUME (\E t \in threads : StartWrite(t)) \/ EndWrite
      PROVE  AccountsInv'
  <2>1. UNCHANGED <<user, acct, jobs>>
    BY <1>9 DEF StartWrite, EndWrite, auth
  <2> QED  BY <1>9, <2>1, WriteFollows DEF JobsTyped
<1>10. ASSUME Restart
       PROVE  AccountsInv'
  <2>1. /\ user' = [c \in Clients |-> Stranger] /\ acct' = disk.store /\ jobs' = {}
    BY <1>10 DEF Restart
  <2>2. disk.store \in Stores /\ BoundOnce(disk.store)
    BY DEF FileTyped, Texts
  <2> QED  BY <1>10, <2>1, <2>2, WriteFollows, NobodySound, JobsFewer
<1> QED  BY <1>1, <1>3, <1>4, <1>5, <1>6, <1>7, <1>8, <1>9, <1>10 DEF Next

LEMMA AccountsInvInit == Init => AccountsInv
<1> SUFFICES ASSUME Init  PROVE AccountsInv
  OBVIOUS
<1>1. Blank.store \in Stores /\ BoundOnce(Blank.store)
  BY DEF Blank, Stores, BoundOnce
<1>2. Blank \in Texts
  BY <1>1 DEF Blank, Texts
<1>3. FileTyped /\ FileFollows
  BY <1>1, <1>2 DEF Init, FileTyped, FileFollows
<1>4. JobsTyped
  BY FS_EmptySet, AccountsAssumption DEF Init, JobsTyped
<1>5. Sound(user, acct, {})
  BY <1>1, NobodySound DEF Init
<1> QED  BY <1>3, <1>4, <1>5 DEF AccountsInv

LEMMA AccountsInvAlways == Spec => []AccountsInv
<1>1. AccountsInv /\ [Next]_vars => AccountsInv'
  BY AccountsStep
<1> QED  BY <1>1, AccountsInvInit, PTL DEF Spec

(* The state is what the type invariant says, the number of checks and the *)
(* numbers of the changes included.                                        *)
THEOREM AccountsTyped == Spec => []TypeOK
<1>1. AccountsInv => TypeOK
  BY DEF AccountsInv, FileTyped, JobsTyped, Sound, TypeOK
<1> QED  BY <1>1, AccountsInvAlways, PTL

(* refresh_rf_tx is called wherever what it depends on changes: after      *)
(* every event the right of each user to be put on the air is the one he   *)
(* has now, whatever was granted, dropped or registered under him.         *)
THEOREM GrantsAreCurrent == Spec => []GrantIsCurrent
<1>1. AccountsInv => GrantIsCurrent
  BY DEF AccountsInv, Sound, GrantIsCurrent
<1> QED  BY <1>1, AccountsInvAlways, PTL

(* strip_callsign_claims and the tests of cmd_callsign and                 *)
(* bind_session_callsign leave no callsign with two users, and none with a *)
(* user whose nick it is not bound to.                                     *)
THEOREM CallsAreUnique == Spec => []OneCallOneUser
<1>1. AccountsInv => OneCallOneUser
  BY DEF AccountsInv, Sound, OneCall, OneCallOneUser
<1> QED  BY <1>1, AccountsInvAlways, PTL

(* Whoever took a registered nick and has not proved to own it has a clock *)
(* that runs (cmd_nick, finish_auth, expire_unidentified).                 *)
THEOREM TakersHaveDeadlines == Spec => []TakerHasDeadline
<1>1. AccountsInv => TakerHasDeadline
  BY DEF AccountsInv, Sound, Timed, TakerHasDeadline, Squats
<1> QED  BY <1>1, AccountsInvAlways, PTL

(* The threads of Accounts::commit may overtake each other, and a crash    *)
(* may end them: when none is left, the file is the accounts, unless the   *)
(* last write failed.                                                      *)
THEOREM FileIsCurrent == Spec => []DiskIsCurrent
<1>1. AccountsInv => DiskIsCurrent
  BY DEF AccountsInv, FileFollows, DiskIsCurrent
<1> QED  BY <1>1, AccountsInvAlways, PTL
=============================================================================
