----------------------------- MODULE ShopOrder -----------------------------
(***************************************************************************)
(* What the shop promises of the slots of an account, whatever dialogs,     *)
(* timers, transfers and cancellations it takes: a slot is assigned once    *)
(* and for good, prepared only for a name that is this user's here, and     *)
(* charts come only from the archive of their own slot, which is fetched    *)
(* once the slot is this user's and has been made ready.                    *)
(***************************************************************************)
CONSTANTS
    Charts,    \* chart sets
    Slots,     \* slots of each
    Names,     \* systems and dongles slots may be assigned to
    Here,      \* those in use on this machine
    None,      \* no name
    Nothing    \* no archive

VARIABLES
    account,   \* name and state of each slot, at the server
    archive,   \* the archive on record for each slot
    charts     \* the archive the charts of each slot were installed from

order == <<account, archive, charts>>

Init ==
    /\ account = [c \in Charts |-> [s \in Slots |-> [sys |-> None, stat |-> "unassigned"]]]
    /\ archive = [c \in Charts |-> [s \in Slots |-> Nothing]]
    /\ charts  = [c \in Charts |-> [s \in Slots |-> Nothing]]

Becomes(c, s, n, stat) ==
    /\ account' = [account EXCEPT ![c][s] = [sys |-> n, stat |-> stat]]
    /\ UNCHANGED <<archive, charts>>

\* Any system of the account takes an empty slot, and no second one of a chart set.
Assign(c, s, n) ==
    /\ account[c][s].sys = None
    /\ \A o \in Slots : account[c][o].sys # n
    /\ Becomes(c, s, n, "requestable")

\* Preparation is asked for from here.
Request(c, s) ==
    /\ account[c][s].sys \in Here /\ account[c][s].stat = "requestable"
    /\ Becomes(c, s, account[c][s].sys, "processing")

Ready(c, s) ==
    /\ account[c][s].stat = "processing"
    /\ Becomes(c, s, account[c][s].sys, "download")

\* The right to updates ends, for all slots of a chart set at once.
Expire(c) ==
    /\ account' = [account EXCEPT ![c] = [s \in Slots |-> IF @[s].sys = None THEN @[s]
                                                          ELSE [@[s] EXCEPT !.stat = "expired"]]]
    /\ UNCHANGED <<archive, charts>>

\* What has been ready stays so, but that it may expire.
Entitled(c, s) ==
    account[c][s].sys \in Here /\ account[c][s].stat \in {"download", "expired"}

Fetch(c, s) ==
    /\ Entitled(c, s)
    /\ archive' = [archive EXCEPT ![c][s] = <<c, s>>]
    /\ UNCHANGED <<account, charts>>

Install(c, s) ==
    /\ Entitled(c, s) /\ archive[c][s] = <<c, s>>
    /\ charts' = [charts EXCEPT ![c][s] = archive[c][s]]
    /\ UNCHANGED <<account, archive>>

Next ==
    \/ \E c \in Charts, s \in Slots :
          \/ \E n \in Names : Assign(c, s, n)
          \/ Request(c, s) \/ Ready(c, s) \/ Fetch(c, s) \/ Install(c, s)
    \/ \E c \in Charts : Expire(c)

Spec == Init /\ [][Next]_order
=============================================================================
