----------------------------- MODULE ShopSlots -----------------------------
(***************************************************************************)
(* The decisions the o-charts shop takes about one chart set: whether it is *)
(* listed, which status is displayed for it, and which of its two slots a   *)
(* press of the Install button works on and how (ochartShop.cpp, class      *)
(* itemChart and shopPanel::GetActiveSlotAction).                           *)
(*                                                                          *)
(* A chart set is sold with two slots.  A slot is empty, or permanently     *)
(* assigned to a system name or to a USB key dongle.  The operators here    *)
(* are pure: they read one chart record `ch`, the system name `me` of this  *)
(* machine and the name `dg` of the dongle last detected (None if neither   *)
(* is known, which the code writes as the empty string).                    *)
(***************************************************************************)
EXTENDS Integers

CONSTANTS SystemNames,    \* names users give to their machines
          Dongles,        \* names of dongles, "sgl" and the serial number in hex
          None,           \* the empty string where a name is expected
          SerialOf,       \* serial number of each dongle
          SerialModulus   \* Mid(4) of "sglXXXXXXXX" leaves 7 hex digits: 16^7

ASSUME NamesAssumption ==
    /\ SystemNames \cap Dongles = {}
    /\ None \notin SystemNames \cup Dongles

ASSUME SerialAssumption ==
    /\ SerialOf \in [Dongles -> Nat]
    /\ SerialModulus \in Nat \ {0}

Names   == SystemNames \cup Dongles
SlotIds == {0, 1}

\* The value of <state> the server reports; "" before the first refresh.
States == {"", "unassigned", "requestable", "processing", "download", "expired"}

\* What is installed from a slot, and whether it is the shop's current edition.
Installs == {"nothing", "current", "stale"}

Slot  == [sys : Names \cup {None}, stat : States, inst : Installs]
Chart == [SlotIds -> Slot]

Statuses == {"UNKNOWN", "NEED_REFRESH", "PURCHASED", "CURRENT", "STALE", "EXPIRED",
             "PREPARING", "READY_DOWNLOAD", "REQUESTABLE"}

-----------------------------------------------------------------------------
\* Who a chart set is assigned to

AssignedTo(ch, name) == \E s \in SlotIds : ch[s].sys = name

FullyAssigned(ch) == \A s \in SlotIds : ch[s].stat \notin {"", "unassigned"}

Expired(ch) == \E s \in SlotIds : ch[s].stat = "expired"

HasEmptySlot(ch) == \E s \in SlotIds : ch[s].sys = None

SlotOfAnyDongle(slot) == slot.sys \in Dongles

\* The serial is read back from the slot's name without its leading hex digit.
SlotOfMyDongle(slot, dg) ==
    /\ slot.sys \in Dongles
    /\ dg \in Dongles
    /\ SerialOf[slot.sys] % SerialModulus = SerialOf[dg]

OfAnyDongle(ch, dg) == dg # None /\ \E s \in SlotIds : SlotOfAnyDongle(ch[s])

\* Charts of other systems with no slot left are not listed in the panel.
Shown(ch, me, dg) ==
    \/ ~FullyAssigned(ch)
    \/ AssignedTo(ch, me)
    \/ AssignedTo(ch, dg)

-----------------------------------------------------------------------------
\* itemChart::getChartStatus

\* The set can be bought a place on this system or on the dongle plugged in.
Purchasable(ch, me, dg) ==
    \/ ~AssignedTo(ch, me) /\ dg = None
    \/ ~AssignedTo(ch, me) /\ dg # None /\ ~AssignedTo(ch, dg) /\ HasEmptySlot(ch)
    \/ AssignedTo(ch, me) /\ dg # None /\ ~FullyAssigned(ch)

\* The slot whose state is displayed.
StatusSlot(ch, me, dg) ==
    IF OfAnyDongle(ch, dg)
    THEN IF SlotOfMyDongle(ch[1], dg) THEN 1 ELSE 0
    ELSE IF ch[1].sys = me THEN 1 ELSE 0

\* `old` is m_status, which a slot in no known state leaves as it was.
SlotStatus(slot, old) ==
    CASE slot.stat = "requestable" -> "REQUESTABLE"
      [] slot.stat = "processing"  -> "PREPARING"
      [] slot.stat = "download"    -> CASE slot.inst = "nothing" -> "READY_DOWNLOAD"
                                        [] slot.inst = "current" -> "CURRENT"
                                        [] OTHER                 -> "STALE"
      [] OTHER -> old

ChartStatus(ch, me, dg, listOK, old) ==
    CASE ~listOK                 -> "NEED_REFRESH"
      [] listOK /\ Expired(ch)   -> "EXPIRED"
      [] listOK /\ ~Expired(ch) /\ Purchasable(ch, me, dg) -> "PURCHASED"
      [] OTHER -> SlotStatus(ch[StatusSlot(ch, me, dg)], old)

\* Statuses for which UpdateActionControls shows the Install button.
Offered == {"PURCHASED", "CURRENT", "STALE", "READY_DOWNLOAD", "REQUESTABLE"}

-----------------------------------------------------------------------------
\* shopPanel::GetActiveSlotAction

Actions == {"DOWNLOAD_DONGLE", "ASSIGN_DONGLE", "REQUEST_DONGLE",
            "DOWNLOAD_SYSTEM", "ASSIGN_SYSTEM", "REQUEST_SYSTEM"}

NoAction == [action |-> "UNKNOWN", slot |-> -1]

MutChoices(ch, me, dg) ==
    << [action |-> "DOWNLOAD_SYSTEM",
        slots  |-> {s \in SlotIds : ch[s].sys = me /\ ch[s].stat = "download"}],
       [action |-> "ASSIGN_SYSTEM", slots |-> {s \in SlotIds : ch[s].sys = None}] >>

\* The choices in the code's order of preference, each with the slots it fits.
Choices(ch, me, dg) ==
    LET In(stat)    == {s \in SlotIds : ch[s].stat = stat}
        Of(name)    == {s \in SlotIds : ch[s].sys = name}
        MyDongle    == {s \in SlotIds : SlotOfMyDongle(ch[s], dg)}
        IfDongle(S) == IF dg # None THEN S ELSE {}
    IN << [action |-> "DOWNLOAD_DONGLE", slots |-> IfDongle(MyDongle \cap In("download"))],
          [action |-> "REQUEST_DONGLE",  slots |-> IfDongle(Of(dg) \cap In("requestable"))],
          [action |-> "ASSIGN_DONGLE",   slots |-> IfDongle(Of(None))],
          [action |-> "DOWNLOAD_SYSTEM", slots |-> Of(me) \cap In("download")],
          [action |-> "REQUEST_SYSTEM",  slots |-> Of(me) \cap In("requestable")],
          [action |-> "ASSIGN_SYSTEM",   slots |-> Of(None)] >>

\* The first choice with a slot, on its lowest slot.
ActiveSlotAction(ch, me, dg) ==
    LET choices == Choices(ch, me, dg)
        fits    == {i \in DOMAIN choices : choices[i].slots # {}}
        best    == CHOOSE i \in fits : \A j \in fits : i <= j
    IN IF fits = {} THEN NoAction
       ELSE [action |-> choices[best].action,
             slot   |-> IF 0 \in choices[best].slots THEN 0 ELSE 1]
=============================================================================
