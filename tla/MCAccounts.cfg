SPECIFICATION Spec
CONSTANTS
  root = root
  bob = bob
  eve = eve
  pw1 = pw1
  p1 = p1
  p2 = p2
  None = None
  User = {root, bob, eve}
  Port = {p1, p2}
  Value = {v}
  MaxSaves = 3
  LdapDefault = "user"
  RadiusDefault = "viewer"
  TacacsDefault = "user"
  SearchesGroups = TRUE
  AdminLevel = 15
  ViewerLevel = 1
  ConfigUsers <- MCConfigUsers
  Password = {pw1}
  Answers <- MCAnswers
  Call = {k1}
  Life = 1
  MaxTime = 2
  MaxTokens = 1
SYMMETRY MCSymmetry
CHECK_DEADLOCK FALSE
INVARIANTS
  NamesAreUnique
  AccessFollowsTheAccount
PROPERTIES
  UndoesOnlyWhatItMissed
  LockChangesHands
