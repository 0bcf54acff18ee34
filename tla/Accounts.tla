------------------------------ MODULE Accounts ------------------------------
(***************************************************************************)
(* Registered nicks: who has proved to own one, the callsign bound to it,  *)
(* the right to be put on the air that an operator grants it (src/src/     *)
(* server/commands/accounts.rs, operator.rs, registration.rs), and the     *)
(* file that keeps them (src/src/accounts.rs).                             *)
(*                                                                         *)
(* Three things run beside the server task: password checks, which carry   *)
(* what they were started with and come back as events in any order; the   *)
(* threads that write the file, one for each change, one at a time behind  *)
(* a lock; and the clock of those who hold a nick they have not proved to  *)
(* own.  A crash may come at any point.                                    *)
(*                                                                         *)
(* A hash is the password it is made of.  Nicks are compared as lower()    *)
(* leaves them.  A user here has given NICK and USER; the rest of a        *)
(* connection is the business of Connections.                              *)
(***************************************************************************)
EXTENDS Integers, FiniteSets, TLC

CONSTANTS
  Clients,
  Nicks, Guest,           \* nicks, and the one each client is renamed to
  Wanted,                 \* the nicks that are asked for
  Passwords, Calls,
  Opers,                  \* the clients who know an operator's password
  NoNick, NoCall, NoAccount, NoText,
  MaxJobs,                \* bounds of the model: checks at a time,
  MaxCommits              \* and changes to the accounts

Users == [online : BOOLEAN, nick : Nicks \cup {NoNick}, identified : BOOLEAN,
          deadline : BOOLEAN, call : Calls \cup {NoCall}, oper : BOOLEAN, rfTx : BOOLEAN]
NickAccounts == [password : Passwords, rfTx : BOOLEAN, call : Calls \cup {NoCall}]
Stores == [Nicks -> NickAccounts \cup {NoAccount}]
Kinds == {"identify", "register", "unregister", "oper"}
Jobs == [who : Clients, kind : Kinds,
         nick : Nicks, password : Passwords, ok : BOOLEAN]
Texts == [gen : Nat, store : Stores]

ASSUME AccountsAssumption ==
  /\ Guest \in [Clients -> Nicks] /\ Wanted \subseteq Nicks /\ Opers \subseteq Clients
  /\ \A c, d \in Clients : Guest[c] = Guest[d] => c = d
  /\ NoNick \notin Nicks /\ NoCall \notin Calls
  /\ NoAccount \notin NickAccounts /\ NoText \notin Texts
  /\ {MaxJobs, MaxCommits} \subseteq Nat

VARIABLES
  user,            \* State.users, those from the net
  acct,            \* Accounts.store
  jobs,            \* password checks under way
  gen, threads,    \* persist_gen, and the writers that have not had the lock
  writing,         \* the writer that has it
  disk,            \* the file
  failed           \* the last change to try the file failed

auth == <<user, acct, jobs>>
file == <<gen, threads, writing, disk, failed>>
vars == <<user, acct, jobs, gen, threads, writing, disk, failed>>

TypeOK ==
  /\ user \in [Clients -> Users]
  /\ acct \in Stores
  /\ jobs \subseteq Jobs /\ Cardinality(jobs) <= MaxJobs
  /\ gen \in Nat
  /\ threads \subseteq Texts /\ writing \in Texts \cup {NoText} /\ disk \in Texts
  /\ \A t \in threads \cup ({writing} \ {NoText}) : t.gen <= gen
  /\ failed \in BOOLEAN

Stranger == [online |-> FALSE, nick |-> NoNick, identified |-> FALSE, deadline |-> FALSE,
             call |-> NoCall, oper |-> FALSE, rfTx |-> FALSE]
Blank == [gen |-> 0, store |-> [n \in Nicks |-> NoAccount]]

Init ==
  /\ user = [c \in Clients |-> Stranger]
  /\ acct = Blank.store
  /\ jobs = {}
  /\ gen = 0 /\ threads = {} /\ writing = NoText /\ disk = Blank /\ failed = FALSE

-----------------------------------------------------------------------------
(* The file. *)

(* Accounts::commit: memory changes at once, and a thread takes the text.  *)
Mutant_Commit(store) ==
  /\ gen < MaxCommits
  /\ acct' = store
  /\ gen' = gen + 1
  /\ threads' = threads \cup {[gen |-> gen' + 1, store |-> store]}
  /\ UNCHANGED <<writing, disk, failed>>
Commit(store) ==
  /\ gen < MaxCommits
  /\ acct' = store
  /\ gen' = gen + 1
  /\ threads' = threads \cup {[gen |-> gen + 1, store |-> store]}
  /\ UNCHANGED <<writing, disk, failed>>

(* Two changes in one event: the first one's thread may have the lock      *)
(* before the second is made.                                              *)
Mutant_CommitTwice(first, second) ==
  /\ gen < MaxCommits
  /\ acct' = second
  /\ gen' = gen + 1
  /\ threads' = threads \cup {[gen |-> gen', store |-> first]}
  /\ UNCHANGED <<writing, disk, failed>>
CommitTwice(first, second) ==
  LET one == [gen |-> gen + 1, store |-> first]
      two == [gen |-> gen + 2, store |-> second] IN
  /\ gen + 1 < MaxCommits
  /\ acct' = second
  /\ gen' = gen + 2
  /\ \/ threads' = threads \cup {one, two} /\ UNCHANGED writing
     \/ writing = NoText /\ writing' = one /\ threads' = threads \cup {two}
  /\ UNCHANGED <<disk, failed>>

NoCommit == UNCHANGED <<acct, file>>

Mutant_StartWrite(t) ==
  /\ writing = NoText /\ t \in threads
  /\ threads' = threads \ {t}
  /\ writing' = t
  /\ UNCHANGED <<auth, gen, disk, failed>>
(* A thread has the lock: it leaves it alone if a later change was made. *)
StartWrite(t) ==
  /\ writing = NoText /\ t \in threads
  /\ threads' = threads \ {t}
  /\ writing' = IF t.gen = gen THEN t ELSE NoText
  /\ UNCHANGED <<auth, gen, disk, failed>>

(* write_atomic: the new file or the old one. *)
EndWrite ==
  /\ writing # NoText
  /\ \/ disk' = writing /\ failed' = FALSE
     \/ failed' = TRUE /\ UNCHANGED disk
  /\ writing' = NoText
  /\ UNCHANGED <<auth, gen, threads>>

(* The process ends, and starts from the file (Accounts::load).  The       *)
(* numbers of changes go on, where persist_gen starts again.               *)
Restart ==
  /\ gen > 0
  /\ user' = [c \in Clients |-> Stranger]
  /\ acct' = disk.store
  /\ jobs' = {} /\ threads' = {} /\ writing' = NoText /\ failed' = FALSE
  /\ UNCHANGED <<gen, disk>>

-----------------------------------------------------------------------------
(* Privileges.  Each operator takes the users and the accounts, and gives  *)
(* the users.                                                              *)

IsRegistered(store, n) == n # NoNick /\ store[n] # NoAccount

(* The changes to the accounts, each of which is committed. *)
InsertHashed(store, n, password) ==
  [store EXCEPT ![n] = [password |-> password, rfTx |-> FALSE, call |-> NoCall]]
SetPassword(store, n, password) == [store EXCEPT ![n].password = password]
SetRfTx(store, n, granted) == [store EXCEPT ![n].rfTx = granted]
SetCallsign(store, n, call) == [store EXCEPT ![n].call = call]
ClearCallsign(store, n) == [store EXCEPT ![n].call = NoCall]
Drop(store, n) == [store EXCEPT ![n] = NoAccount]

Owners(store, call) == {n \in Nicks : IsRegistered(store, n) /\ store[n].call = call}
HolderOf(n) == {c \in Clients : user[c].online /\ user[c].nick = n}
Taken(n) == HolderOf(n) # {}

GrantsRfTx(store, n) == IsRegistered(store, n) /\ store[n].rfTx
MayTransmit(store, u) == u.oper \/ (u.identified /\ GrantsRfTx(store, u.nick))

StoredCall(store, u) ==
  IF u.identified /\ IsRegistered(store, u.nick) THEN store[u.nick].call ELSE NoCall

Mutant_Strip(users, store, call, keep) == users
(* strip_callsign_claims: nobody but keep goes on with this callsign.  One *)
(* who loses it never has another stored: an identified user's callsign is *)
(* the stored one.                                                         *)
Strip(users, store, call, keep) ==
  [d \in Clients |->
     IF d \in keep \/ users[d].call # call THEN users[d]
     ELSE LET u == [users[d] EXCEPT !.call = NoCall]
          IN [u EXCEPT !.rfTx = MayTransmit(store, u)]]

Mutant_Refresh(users, store, c) ==
  [users EXCEPT ![c].rfTx = @ \/ MayTransmit(store, users[c])]
(* refresh_rf_tx: the grant is looked up again, and the stored callsign    *)
(* comes back.                                                             *)
Refresh(users, store, c) ==
  LET u == users[c]
      back == u.call = NoCall /\ StoredCall(store, u) # NoCall
      settled == [users EXCEPT ![c].rfTx = MayTransmit(store, u),
                               ![c].call = IF back THEN StoredCall(store, u) ELSE @]
  IN IF back THEN Strip(settled, store, StoredCall(store, u), {c}) ELSE settled

RefreshHolder(users, store, n) ==
  LET holder == {c \in Clients : users[c].online /\ users[c].nick = n}
  IN IF holder = {} THEN users ELSE Refresh(users, store, CHOOSE c \in holder : TRUE)

-----------------------------------------------------------------------------
(* Coming, going, and changing nick. *)

Speaks(c) == user[c].online /\ user[c].nick # NoNick

Connect(c) ==
  /\ ~user[c].online
  /\ user' = [user EXCEPT ![c] = [Stranger EXCEPT !.online = TRUE]]
  /\ UNCHANGED <<acct, jobs, file>>

Gone(users, c) == [users EXCEPT ![c] = Stranger]

(* The answer to a check finds its user gone, and is dropped. *)
Quit(c) ==
  /\ user[c].online
  /\ user' = Gone(user, c)
  /\ jobs' = {j \in jobs : j.who # c}
  /\ UNCHANGED <<acct, file>>

Mutant_Renamed(u, n, claimed) ==
  [u EXCEPT !.nick = n, !.identified = FALSE, !.call = NoCall]
Renamed(u, n, claimed) ==
  [u EXCEPT !.nick = n, !.identified = FALSE, !.call = NoCall, !.deadline = claimed]

(* cmd_nick.  One's own nick, and one in use, change nothing. *)
Nick(c, n) ==
  /\ user[c].online /\ ~Taken(n)
  /\ user' = Refresh([user EXCEPT ![c] = Renamed(@, n, IsRegistered(acct, n))], acct, c)
  /\ UNCHANGED <<acct, jobs, file>>

(* expire_unidentified, for one whose time has come: a guest, or gone if   *)
(* the guest's nick is in use.                                             *)
ExpireUnidentified(c) ==
  /\ user[c].online /\ user[c].deadline /\ ~user[c].identified
  /\ IF Taken(Guest[c])
     THEN user' = Gone(user, c) /\ jobs' = {j \in jobs : j.who # c}
     ELSE /\ user' = Refresh([user EXCEPT ![c] =
               [@ EXCEPT !.deadline = FALSE, !.call = NoCall, !.nick = Guest[c]]], acct, c)
          /\ UNCHANGED jobs
  /\ UNCHANGED <<acct, file>>

(* cmd_callsign: not one bound to another nick, nor one in use. *)
Callsign(c, call) ==
  /\ Speaks(c)
  /\ Owners(acct, call) \subseteq {user[c].nick}
  /\ \A d \in Clients \ {c} : user[d].call # call
  /\ IF user[c].identified /\ IsRegistered(acct, user[c].nick)
     THEN Commit(SetCallsign(acct, user[c].nick, call))
     ELSE ~user[c].identified /\ NoCommit
  /\ user' = Refresh(Strip([user EXCEPT ![c].call = call], acct', call, {c}), acct', c)
  /\ UNCHANGED jobs

-----------------------------------------------------------------------------
(* Passwords.  A check is started with the nick and the hash of the moment,*)
(* and with work that is done elsewhere.                                   *)

Verifies(store, n, password) == store[n].password = password

Begin(c, kind, password, ok) ==
  LET j == [who |-> c, kind |-> kind, nick |-> user[c].nick, password |-> password, ok |-> ok] IN
  /\ j \notin jobs
  /\ jobs' = jobs \cup {j}
  /\ UNCHANGED <<user, acct, file>>

(* REGISTER, IDENTIFY and UNREGISTER. *)
Start(c, kind, password) ==
  LET n == user[c].nick IN
  /\ Cardinality(jobs) < MaxJobs /\ Speaks(c)
  /\ IF kind = "register"
     THEN (user[c].identified \/ ~IsRegistered(acct, n)) /\ Begin(c, kind, password, TRUE)
     ELSE IsRegistered(acct, n) /\ Begin(c, kind, password, Verifies(acct, n, password))

(* OPER: any of the operators of the configuration, by password. *)
StartOper(c, password) ==
  /\ Cardinality(jobs) < MaxJobs /\ Speaks(c)
  /\ Begin(c, "oper", password, c \in Opers)

(* finish_auth, with bind_session_callsign: the callsign claimed before is *)
(* bound to the nick, unless it is another's.                              *)
Proved(users, c) == [users EXCEPT ![c].identified = TRUE, ![c].deadline = FALSE]

Bound(store, c) == SetCallsign(store, user[c].nick, user[c].call)

FinishIdentify(c) ==
  LET call == user[c].call IN
  IF ~IsRegistered(acct, user[c].nick) THEN UNCHANGED user /\ NoCommit
  ELSE IF call = NoCall THEN user' = Refresh(Proved(user, c), acct, c) /\ NoCommit
  ELSE IF Owners(acct, call) \subseteq {user[c].nick}
  THEN /\ Commit(Bound(acct, c))
       /\ user' = Refresh(Strip(Proved(user, c), acct', call, {c}), acct', c)
  ELSE /\ user' = Refresh([Proved(user, c) EXCEPT ![c].call = NoCall], acct, c)
       /\ NoCommit

FinishRegister(c, password) ==
  LET n == user[c].nick
      call == user[c].call
      made == InsertHashed(acct, n, password)
  IN
  IF user[c].identified /\ IsRegistered(acct, n)
  THEN Commit(SetPassword(acct, n, password)) /\ UNCHANGED user
  ELSE IF IsRegistered(acct, n) THEN UNCHANGED user /\ NoCommit
  ELSE IF call = NoCall
  THEN Commit(made) /\ user' = Refresh(Proved(user, c), acct', c)
  ELSE IF Owners(acct, call) = {}
  THEN /\ CommitTwice(made, Bound(made, c))
       /\ user' = Refresh(Strip(Proved(user, c), acct', call, {c}), acct', c)
  ELSE /\ Commit(made)
       /\ user' = Refresh([Proved(user, c) EXCEPT ![c].call = NoCall], acct', c)

FinishUnregister(c) ==
  IF ~IsRegistered(acct, user[c].nick) THEN UNCHANGED user /\ NoCommit
  ELSE /\ Commit(Drop(acct, user[c].nick))
       /\ user' = Refresh([user EXCEPT ![c].identified = FALSE], acct', c)

FinishOper(c) == user' = Refresh([user EXCEPT ![c].oper = TRUE], acct, c) /\ NoCommit

(* The answer counts if the nick is what it was when the check began. *)
Finish(j) ==
  /\ j \in jobs /\ jobs' = jobs \ {j}
  /\ IF user[j.who].nick # j.nick \/ ~j.ok THEN UNCHANGED user /\ NoCommit
     ELSE \/ j.kind = "identify" /\ FinishIdentify(j.who)
          \/ j.kind = "register" /\ FinishRegister(j.who, j.password)
          \/ j.kind = "unregister" /\ FinishUnregister(j.who)
          \/ j.kind = "oper" /\ FinishOper(j.who)

-----------------------------------------------------------------------------
(* Operators. *)

AnOperator == \E c \in Clients : user[c].online /\ user[c].oper

(* RADIO GRANT and REVOKE. *)
Grant(n, granted) ==
  /\ IsRegistered(acct, n)
  /\ Commit(SetRfTx(acct, n, granted))
  /\ user' = RefreshHolder(user, acct', n)
  /\ UNCHANGED jobs

DropNick(n) ==
  /\ IsRegistered(acct, n)
  /\ Commit(Drop(acct, n))
  /\ user' = RefreshHolder(
       [c \in Clients |-> IF c \in HolderOf(n)
          THEN [user[c] EXCEPT !.identified = FALSE, !.call = NoCall, !.rfTx = @ /\ user[c].oper]
          ELSE user[c]], acct', n)
  /\ UNCHANGED jobs

Unclaim(call) ==
  /\ \E n \in Owners(acct, call) : Commit(ClearCallsign(acct, n))
  /\ user' = Strip(user, acct', call, {})
  /\ UNCHANGED jobs

-----------------------------------------------------------------------------
Next ==
  \/ \E c \in Clients : Connect(c) \/ Quit(c) \/ ExpireUnidentified(c)
  \/ \E c \in Clients, n \in Wanted : Nick(c, n)
  \/ \E c \in Clients, call \in Calls : Callsign(c, call)
  \/ \E c \in Clients, password \in Passwords :
       \/ \E kind \in Kinds \ {"oper"} : Start(c, kind, password)
       \/ StartOper(c, password)
  \/ \E j \in jobs : Finish(j)
  \/ /\ AnOperator
     /\ \/ \E n \in Nicks : (\E g \in BOOLEAN : Grant(n, g)) \/ DropNick(n)
        \/ \E call \in Calls : Unclaim(call)
  \/ \E t \in threads : StartWrite(t)
  \/ EndWrite \/ Restart

Spec == Init /\ [][Next]_vars

-----------------------------------------------------------------------------
(* Who may be put on the air is never decided by what was once granted:    *)
(* after every event the right of each user is that of an operator, or of  *)
(* one who has proved to own a nick that exists and has the grant now      *)
(* (refresh_rf_tx, at every place that changes what it depends on).        *)
GrantIsCurrent ==
  \A c \in Clients :
    /\ user[c].identified => IsRegistered(acct, user[c].nick)
    /\ user[c].rfTx <=> MayTransmit(acct, user[c])

(* A callsign identifies one user at a time, and one that is bound to a    *)
(* nick is used under no other nick; the callsign of one who has           *)
(* identified is the one bound (cmd_callsign, bind_session_callsign,       *)
(* strip_callsign_claims, refresh_rf_tx).                                  *)
OneCallOneUser ==
  \A c \in Clients : LET u == user[c] IN u.call # NoCall =>
    /\ \A d \in Clients \ {c} : user[d].call # u.call
    /\ Owners(acct, u.call) \subseteq {u.nick}
    /\ u.identified => acct[u.nick].call = u.call

(* Whoever holds a registered nick he asked for has proved to own it, or   *)
(* has a clock running that will take it away, whatever was registered,    *)
(* dropped and registered again under him (expire_unidentified: "A         *)
(* registered nick that was never IDENTIFY'd is released").  The guest's   *)
(* nick is left out: the server does not look whether it is registered.    *)
Squats(c) == user[c].online /\ IsRegistered(acct, user[c].nick) /\ ~user[c].identified
TakerHasDeadline ==
  \A c \in Clients : Squats(c) /\ user[c].nick # Guest[c] => user[c].deadline

(* Changes are written by threads that overtake each other; the file never *)
(* goes back to an earlier one (commit, persist_gen, persist_lock).        *)
NeverBack == [][disk'.gen >= disk.gen]_disk

(* When no thread is left the file holds the accounts, unless the last     *)
(* write failed, and then the operators are told.                          *)
DiskIsCurrent ==
  threads = {} /\ writing = NoText /\ ~failed => disk.store = acct
=============================================================================
