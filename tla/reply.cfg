CONSTANTS
  u1 = u1
  n1 = n1
  n2 = n2
  n3 = n3
  Users = {u1}
  NoUser = NoUser
  Mistyped = Mistyped
  Charts = {c1}
  OwnerOf <- Owned
  Names = {n1, n2, n3}
  NoName = NoName
  Garbled = Garbled
  NoLink = NoLink
  MaxTries = 2
  FirstOwners <- NamesKnown
  FirstSlots <- SlotsSold
SPECIFICATION FairSpec
CHECK_DEADLOCK FALSE
INVARIANTS
  TypeOK
  ListIsAccount
  NameVerified
PROPERTIES
  AssignedHere
  LoginKept
  RefreshEnds
