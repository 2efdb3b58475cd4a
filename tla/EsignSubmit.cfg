SPECIFICATION Spec
CONSTANTS
  ann = ann bob = bob cat = cat
  p1 = p1 p2 = p2
  Submissions = {p1, p2}
  Signers = {ann, bob, cat}
  FirstAssigned = {ann, bob}
  FirstInvited = {ann}
  Invitable = {ann, bob}
  MaxFaults = 1
  NoSubmission = NoSubmission NoSigner = NoSigner NoDocument = NoDocument
SYMMETRY Symmetry
INVARIANTS SubmissionsAreSound NobodyLeftWaiting SignedRowsWereEarned
PROPERTIES  CallbackPrecedesCompletion 
CHECK_DEADLOCK FALSE
