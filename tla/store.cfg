CONSTANTS
  k1 = k1
  k2 = k2
  n1 = n1
  n2 = n2
  n3 = n3
  n4 = n4
  p1 = p1
  f1 = f1
  f2 = f2
  Keys = {k1, k2}
  MaxEdition = 3
  Parents = {p1, p2}
  NoParent = NoParent
  Names = {n1, n2, n3, n4}
  NoName = NoName
  Files = {f1, f2}
  NoFile = NoFile
  FilesOf <- Contents
  NameOf <- Naming
  Prefixes <- NoneBegins
SPECIFICATION Spec
CHECK_DEADLOCK FALSE
CONSTRAINT Bounds
INVARIANTS
  TypeOK
  CurrentIsThere
  InstalledIsScanned
PROPERTY
  LastCopyKept
