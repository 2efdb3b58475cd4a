SPECIFICATION RememberSpec
CONSTANTS
  admin = admin ann = ann bob = bob
  r1 = r1 r2 = r2 r3 = r3
  n1 = n1
  q1 = q1 q2 = q2 q3 = q3 q4 = q4
  Requests = {q1, q2, q3}
  Users <- MCUsers
  Owner = admin
  Regions <- MCRegions
  Assignee <- MCAssignee
  InitialRegions = {r1, r2, r3}
  Notes <- MCNotes
  Ops <- ContendingOps
  MaxActive = 3
  NoRequest = NoRequest NoRegion = NoRegion NoImage = NoImage NoNote = NoNote
  NoPdf = NoPdf NoStatus = NoStatus NoOp = NoOp NoSaved = NoSaved NoMethod = NoMethod
  Given <- MCGiven
INVARIANTS RememberedAsGiven WaitsStayWithOneSigner
PROPERTY EveryRequestAnswered
