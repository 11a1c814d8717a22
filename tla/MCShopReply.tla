---------------------------- MODULE MCShopReply ----------------------------
(***************************************************************************)
(* An instance of ShopReply for TLC: one user's chart set, its first slot   *)
(* taken by another machine, and a name of each kind.                       *)
(***************************************************************************)
EXTENDS ShopReply

CONSTANTS u1, n1, n2, n3

Owned == [c \in Charts |-> u1]

\* Another machine's name, a free one, a disabled one.
NamesKnown == [n \in Names |-> CASE n = n1 -> "else" [] n = n2 -> "none" [] n = n3 -> "off"]

SlotsSold == [c \in Charts |-> [s \in Slots |-> IF s = 0 THEN [sys |-> n1, state |-> "download"]
                                                         ELSE [sys |-> NoName, state |-> "unassigned"]]]
=============================================================================
