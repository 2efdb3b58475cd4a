SPECIFICATION Spec
CONSTANTS
  ann = ann bob = bob cat = cat
  p1 = p1 p2 = p2
  Submissions = {p1, p2}
  Signers = {ann, bob}
  FirstAssigned = {ann, bob}
  FirstInvited = {ann, bob}
  Invitable = {ann, bob}
  MaxFaults = 0
  NoSubmission = NoSubmission NoSigner = NoSigner NoDocument = NoDocument
SYMMETRY Symmetry
INVARIANT ReceivedWhileOpen
CHECK_DEADLOCK FALSE
