SPECIFICATION FairSpec
CONSTANTS
  adm = adm cli = cli log = log sub = sub
  e1 = e1 e2 = e2 e3 = e3 e4 = e4 e5 = e5
  x1 = x1 x2 = x2 x3 = x3
  Requests = {1, 2, 3}
  People = {adm, cli, log, sub}
  Emails = {e1, e2, e3, e4, e5}
  FirstEmail <- MCEmail
  Placeholder <- MCPlaceholder
  Externals = {x1, x2, x3}
  RowOf <- MCRow
  UsersOf <- MCUsers
  MappedTo <- MCMapped
  Ops <- AllOps
  MaxActive = 2
  Movers = {log}
  MaxMoves = 1
  NoRequest = NoRequest NoAccount = NoAccount NoOp = NoOp NoPerson = NoPerson NoEmail = NoEmail
INVARIANTS TypeOK RacesEndWell AccountsAreReal EnteredInRole OneDocumentUnlessOverlapped
PROPERTIES SignerIsWhoWasMeant EveryLaunchEnds
CHECK_DEADLOCK FALSE
