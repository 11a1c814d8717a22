---------------------------- MODULE MCShopStore ----------------------------
(***************************************************************************)
(* Instances of ShopStore for TLC.  Of the first key, archives of the first *)
(* two editions are named alike and that of the third is not; those of the  *)
(* second key are named by edition.                                         *)
(***************************************************************************)
EXTENDS ShopStore

CONSTANTS k1, k2, n1, n2, n3, n4, p1, f1, f2

Naming == [z \in Zips |-> CASE z[1] = k1 -> IF z[2] = 3 THEN n2 ELSE n1
                            [] z[1] = k2 -> IF z[2] = 1 THEN n3 ELSE n4]

\* One key, with names n1 and n2.
ThirdRenamed == [z \in Zips |-> IF z[2] = 3 THEN n2 ELSE n1]

\* The second edition of the first key has lost a file, which the third has again;
\* the second key has one.
Contents == [z \in Zips |-> CASE z = <<k1, 2>> -> {f1}
                              [] z[1] = k2 -> {f2}
                              [] OTHER -> {f1, f2}]

NoneBegins == {}

\* "chart-2017-1" begins "chart-2017-10".
FirstBeginsSecond == {<<n1, n2>>}

\* The bound of run store: one key, with three editions in one place or two in two,
\* or two keys with two editions in one place and room on the disk.
Only(k)     == \A j \in Keys \ {k} : shop[j] = 1 /\ ready[j] = NoEdition
TwoEditions == \A k \in Keys : shop[k] <= 2
OnePlace    == /\ core \cup coreFile \subseteq {p1} \cup ({p1} \X Names)
               /\ \A d \in Dirs : d[1] # p1 => Present(d) = {}
               /\ job.loc \in {p1, NoParent}

Bounds == \/ (\E k \in Keys : Only(k)) /\ (TwoEditions \/ OnePlace)
          \/ TwoEditions /\ OnePlace /\ room
=============================================================================
