---------------------------- MODULE MCShopPanel ----------------------------
(***************************************************************************)
(* Instances of ShopPanel for TLC.  The timeouts are scaled down, 10 ticks  *)
(* between queries to 2 and 60 before the question to 4, which keeps what   *)
(* matters: the timeout is a multiple of the polling period, and the first  *)
(* query comes before a full period.                                        *)
(***************************************************************************)
EXTENDS ShopPanel, TLC

\* Serial numbers of seven hex digits and less, as the panel reads them back.
SmallSerials == [d \in Dongles |-> 1]

\* The bound of run panel_two: two chart sets, no dongle and no other system, or
\* one chart set, the other being left as it was bought, and one transfer.
NoDongle == /\ plugged = None /\ ui.dongle = None
            /\ \A c \in Charts, s \in SlotIds : srv[c][s].sys \in {None, Me}
OneSet   == \E c \in Charts :
                /\ srv[c] = [s \in SlotIds |-> NewSlot] /\ ui.sel # c
                /\ Cardinality(Running) + Len(pending) <= 1
                /\ \A t \in Running : threads[t].reply = "zip"

Bounds == NoDongle \/ OneSet

\* The bound of run panel: an environment that is not calm, of which fewer properties
\* are asked, has two things under way at once, transfers, their events and handlers.
CalmOrFew == calm \/ Cardinality(Running) + Len(pending) + Len(frames) <= 2

\* Chart sets are interchangeable.
ChartSymmetry == Permutations(Charts)
=============================================================================
