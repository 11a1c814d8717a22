---------------------------- MODULE MCSencServer ----------------------------
(***************************************************************************)
(* Instances of SencServer for TLC: a chart whose directory names its key,  *)
(* one of another key whose directory names none, and one that is not       *)
(* encrypted in a directory that names a key all the same.                  *)
(***************************************************************************)
EXTENDS SencServer

CONSTANTS named, bare, plain, k1, k2

Encryption == [c \in Charts |-> CASE c = named -> k1 [] c = bare -> k2 [] c = plain -> NoKey]

Hints == [c \in Charts |-> CASE c = named -> k1 [] c = bare -> NoKey [] c = plain -> k2]

\* A header record and a feature; the last file has a record of no known kind.
Files == [c \in Charts |-> IF c = plain THEN <<"header", "feature", "alien">>
                                        ELSE <<"header", "feature">>]
=============================================================================
