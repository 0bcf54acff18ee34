SPECIFICATION Spec
CONSTANTS
  ann = ann  bob = bob  nick = nick  guestA = guestA  guestB = guestB
  p = p  oh1x = oh1x
  Clients = {ann, bob}
  Nicks = {nick, guestA, guestB}
  Guest <- MCGuest
  Wanted = {nick, guestA}
  Passwords = {p}
  Calls = {oh1x}
  Opers = {ann}
  NoNick = NoNick  NoCall = NoCall  NoAccount = NoAccount  NoText = NoText
  MaxJobs = 1
  MaxCommits = 3
INVARIANTS TypeOK GrantIsCurrent OneCallOneUser TakerHasDeadline DiskIsCurrent
PROPERTY NeverBack
CHECK_DEADLOCK FALSE
