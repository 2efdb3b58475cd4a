SPECIFICATION Spec
CONSTANTS
  admin = admin ann = ann bob = bob
  r1 = r1 r2 = r2 r3 = r3
  n1 = n1
  q1 = q1 q2 = q2 q3 = q3 q4 = q4
  Requests = {q1, q2, q3, q4}
  Users <- MCUsers
  Owner = admin
  Regions <- MCRegions
  Assignee <- MCAssignee
  InitialRegions = {r1, r3}
  Notes <- MCNotes
  Ops <- AllOps
  MaxActive = 2
  NoRequest = NoRequest NoRegion = NoRegion NoImage = NoImage NoNote = NoNote
  NoPdf = NoPdf NoStatus = NoStatus NoOp = NoOp
SYMMETRY Symmetry
INVARIANTS TypeOK Authentic NoPhantomSignature StatusIsBacked
PROPERTIES OnlyAssigneeChangesRow SigningShowsOnFile WithdrawalShowsOnFile
