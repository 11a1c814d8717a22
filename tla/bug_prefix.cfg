CONSTANTS
  k1 = k1
  k2 = k2
  n1 = n1
  n2 = n2
  n3 = n3
  n4 = n4
  p1 = p1
  f1 = f1
  f2 = f2
  Keys = {k1}
  MaxEdition = 3
  Parents = {p1}
  NoParent = NoParent
  Names = {n1, n2}
  NoName = NoName
  Files = {f1, f2}
  NoFile = NoFile
  FilesOf <- Contents
  NameOf <- ThirdRenamed
  Prefixes <- FirstBeginsSecond
SPECIFICATION Spec
CHECK_DEADLOCK FALSE
INVARIANT InstalledIsScanned
