SPECIFICATION Spec
CONSTANTS
  ann = ann
  bob = bob
  r1 = r1
  r2 = r2
  Nobody = Nobody
  User <- TwoUsers
  Handler <- TwoRequests
  MaxRows = 2
SYMMETRY Symmetry
PROPERTIES AskIsListed CloseSticks ClaimSticks SoleOwnerReplies
