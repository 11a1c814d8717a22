------------------------ MODULE ShopPanelCalmProofs ------------------------
(***************************************************************************)
(* Theorems about the shop panel in a calm environment, for every value of  *)
(* the constants.                                                           *)
(*                                                                          *)
(* The panel keeps no record of what it is doing: a selection, an active    *)
(* slot, a timer, a thread, two flags and a status text have to agree, and  *)
(* are read again after every yield and every dialog.  The invariant says   *)
(* how they do.  Its parts are                                              *)
(*   Account   what the panel was told of a slot is what the server once    *)
(*             said: an assignment is for good, a set that was ready still  *)
(*             is, or has expired;                                          *)
(*   Controls  Install is shown for a selection, of a list received;        *)
(*   Work      while anything is under way the slot worked on is this       *)
(*             system's or the dongle's, which no list of the server takes  *)
(*             back: hence the selection outlives every refresh;            *)
(*   Flight    there is one transfer, or its events, and the flags say      *)
(*             how it goes on;                                              *)
(*   Handlers  which handlers may be suspended inside which others, and     *)
(*             what each relies on when it continues;                       *)
(*   Residue   every control that was changed is owed to something that     *)
(*             changes it back.                                             *)
(* The question whether to assign a slot has an invariant of its own, at    *)
(* the end: it is asked when the button is no stale one.  And the timer has *)
(* a variant: it runs for so many ticks, whatever else is handled.          *)
(***************************************************************************)
EXTENDS ShopPanelProofs

\* No two dongles are taken for each other, as two are whose serial numbers differ
\* in the leading hex digit only.
DistinctSerials ==
    \A d, e \in Dongles : SerialOf[d] % SerialModulus = SerialOf[e] => d = e

-----------------------------------------------------------------------------
\* Suspended handlers

\* A stack of handlers as a set: the order follows from Rank below.
Suspended(fs) == {fs[i] : i \in 1 .. Len(fs)}

\* Handlers of the buttons, of the timer, and of the end of a transfer.  Each kind
\* may be suspended inside a handler of a kind before it.
Installing(f) == \/ f.pc \in {"assignConfirm", "prepare", "uploadFailed", "assignFailed",
                              "prepareFailed"}
                 \/ f.pc = "download" /\ ~f.flag
Polling(f)    == \/ f.pc \in {"pollError", "pollYield", "continueWaiting"}
                 \/ f.pc = "download" /\ f.flag
Chaining(f)   == f.pc \in {"endBox", "proceed", "chooseDir", "unzip", "unzipDone"}

Rank(f) == IF Chaining(f) THEN 3 ELSE IF Polling(f) THEN 2 ELSE 1

Nested(fs) == \A i, j \in 1 .. Len(fs) : i < j => Rank(fs[i]) > Rank(fs[j])

-----------------------------------------------------------------------------
\* The invariant

\* Nothing of a download is under way.
Free == Running = {} /\ pending = <<>> /\ handle = NoThread

\* The slot worked on is assigned to a name in use here, which the server knows.
Mine == /\ ui.sel # NoChart /\ ui.dongle = plugged
        /\ ui.view[ui.sel][ui.slot].sys \in {Me, plugged} \ {None}

Requested == Mine /\ srv[ui.sel][ui.slot].stat \in {"processing", "download", "expired"}

Account ==
    \A c \in Charts, s \in SlotIds :
        /\ srv[c][s].sys = None => srv[c][s].stat = "unassigned"
        /\ ui.view[c][s].sys # None => srv[c][s].sys = ui.view[c][s].sys
        /\ ui.view[c][s].stat = "download" => srv[c][s].stat \in {"download", "expired"}

Controls == /\ ui.installShown => ui.sel # NoChart
            /\ ui.panels # {} => ui.listOK

Work == /\ ui.timer \/ Running # {} \/ pending # <<>> => Requested
        /\ ui.timer => Free

\* The file of the transfer, until it has been discarded.
Flight ==
    /\ \A t \in Running : /\ handle = t /\ stream = t
                          /\ threads[t].file = <<ui.sel, ui.slot>>
    /\ Running # {} => /\ pending = <<>>
                       /\ ui.override = "Downloading..." /\ ~ui.updateOn
    /\ Len(pending) <= 1
    /\ handle # NoThread => \/ handle \in Running
                            \/ pending # <<>> /\ pending[1].type = "end"
    /\ ui.chain <=> Running # {} \/ pending # <<>>
    /\ ui.aborting => pending # <<>>
    /\ Running # {} \/ pending # <<>> =>
          IF ui.aborting /\ pending[1].type = "chain"
          THEN dlFile[ui.sel] = NoFile /\ disk[<<ui.sel, ui.slot>>] = "absent"
          ELSE dlFile[ui.sel] = <<ui.sel, ui.slot>>

Downloading == \E f \in Suspended(frames) : f.pc = "download"

\* What a suspended handler relies on.
Relies(f) ==
    /\ f.pc # "crash"
    /\ Installing(f) => /\ Suspended(frames) = {f} /\ ~ui.timer /\ Free
                        /\ ui.sel # NoChart /\ ui.dongle = plugged
    /\ f.pc = "assignConfirm" => /\ f.chart = ui.sel /\ f.slot = ui.slot
                                 /\ f.name \in {Me, plugged} \ {None}
    /\ f.pc = "prepare" => Mine
    /\ Polling(f) \/ f.pc = "download" => Requested
    /\ f.pc \in {"pollError", "pollYield", "download"} => Free
    /\ f.pc = "pollYield" /\ f.flag => IsDownloadable(ui)
    /\ f.pc = "download" => /\ ~ui.timer /\ IsDownloadable(ui)
                            /\ ui.override = "Downloading..." /\ ~ui.updateOn
    /\ f.pc = "continueWaiting" => ~ui.timer
    /\ Chaining(f) => Requested /\ Free /\ ~ui.timer /\ ~Downloading
    /\ f.pc = "proceed" => /\ dlPath[ui.sel][ui.slot] = <<ui.sel, ui.slot>>
                           /\ target.file = <<ui.sel, ui.slot>>
                           /\ disk[<<ui.sel, ui.slot>>] \in OfLength(target.reply)

Handlers == Nested(frames) /\ \A f \in Suspended(frames) : Relies(f)

Residue ==
    /\ ui.override = "Downloading..." => \/ Downloading \/ Running # {}
                                         \/ pending # <<>> /\ ~ui.aborting
    /\ ui.override = "Installing charts" =>
          \E f \in Suspended(frames) : f.pc \in {"chooseDir", "unzip", "unzipDone"}
    /\ ~ui.updateOn => \/ Downloading \/ Running # {}
                       \/ pending # <<>> /\ pending[1].type = "end"

Zips == \A c \in Charts, s \in SlotIds :
            /\ dlPath[c][s] \in {NoFile, <<c, s>>}
            /\ installed[c][s] \in {NoFile, <<c, s>>}

CInv == /\ Account /\ Controls /\ Work /\ Flight /\ Handlers /\ Residue /\ Zips

CalmInv == calm => CInv

-----------------------------------------------------------------------------
\* Stacks

LEMMA NoneSuspended == Suspended(<<>>) = {} /\ Nested(<<>>)
BY DEF Suspended, Nested

\* Suspending a handler of a later kind.
LEMMA PushSuspended ==
    ASSUME NEW fs \in Seq(Frame), NEW f \in Frame, Nested(fs),
           \A g \in Suspended(fs) : Rank(g) < Rank(f)
    PROVE  /\ Nested(<<f>> \o fs)
           /\ Suspended(<<f>> \o fs) = {f} \cup Suspended(fs)
<1> DEFINE new == <<f>> \o fs  n == Len(fs)
<1>1. n \in Nat /\ <<f>> \in Seq(Frame) /\ Len(<<f>>) = 1
  BY LenProperties
<1>2. /\ Len(new) = n + 1 /\ new[1] = f
      /\ \A i \in 2 .. n + 1 : new[i] = fs[i - 1]
  BY <1>1, ConcatProperties
<1> HIDE DEF new
<1>3. Suspended(new) = {f} \cup Suspended(fs)
  <2>1. ASSUME NEW g \in Suspended(new) PROVE g \in {f} \cup Suspended(fs)
    <3>1. PICK i \in 1 .. n + 1 : g = new[i]
      BY <1>2 DEF Suspended
    <3>2. CASE i = 1
      BY <3>1, <3>2, <1>2
    <3>3. CASE i # 1
      <4>1. i \in 2 .. n + 1 /\ i - 1 \in 1 .. n
        BY <3>3, <1>1
      <4> QED
        BY <4>1, <3>1, <1>2 DEF Suspended
    <3> QED
      BY <3>2, <3>3
  <2>2. f \in Suspended(new)
    <3>1. 1 \in 1 .. Len(new)
      BY <1>1, <1>2
    <3> QED
      BY <3>1, <1>2 DEF Suspended
  <2>3. ASSUME NEW g \in Suspended(fs) PROVE g \in Suspended(new)
    <3>1. PICK i \in 1 .. n : g = fs[i]
      BY DEF Suspended
    <3>2. i + 1 \in 2 .. n + 1 /\ (i + 1) - 1 = i /\ i + 1 \in 1 .. Len(new)
      BY <1>1, <1>2
    <3>3. new[i + 1] = g
      BY <3>1, <3>2, <1>2
    <3> QED
      BY <3>2, <3>3 DEF Suspended
  <2> QED
    BY <2>1, <2>2, <2>3
<1>4. Nested(new)
  <2> SUFFICES ASSUME NEW i \in 1 .. n + 1, NEW j \in 1 .. n + 1, i < j
               PROVE  Rank(new[i]) > Rank(new[j])
    BY <1>2 DEF Nested
  <2>1. j \in 2 .. n + 1 /\ j - 1 \in 1 .. n /\ new[j] = fs[j - 1]
    BY <1>1, <1>2
  <2>2. CASE i = 1
    <3>1. fs[j - 1] \in Suspended(fs)
      BY <2>1 DEF Suspended
    <3> QED
      BY <2>1, <2>2, <3>1, <1>2 DEF Rank
  <2>3. CASE i # 1
    <3>1. i \in 2 .. n + 1 /\ i - 1 \in 1 .. n /\ new[i] = fs[i - 1] /\ i - 1 < j - 1
      BY <2>3, <1>1, <1>2
    <3> QED
      BY <2>1, <3>1 DEF Nested
  <2> QED
    BY <2>2, <2>3
<1> QED
  BY <1>3, <1>4 DEF new

\* The handler that runs, and those it is suspended inside, which are of earlier kinds.
LEMMA TopSuspended ==
    ASSUME frames \in Seq(Frame), frames # <<>>, Nested(frames)
    PROVE  /\ frames[1] \in Frame /\ frames[1] \in Suspended(frames)
           /\ Tail(frames) \in Seq(Frame) /\ Nested(Tail(frames))
           /\ Suspended(frames) = {frames[1]} \cup Suspended(Tail(frames))
           /\ \A g \in Suspended(Tail(frames)) : g \in Frame /\ Rank(g) < Rank(frames[1])
<1> DEFINE rest == Tail(frames)  n == Len(frames)
<1>1. n \in Nat \ {0} /\ 1 \in 1 .. n
  BY EmptySeq, LenProperties
<1>2. /\ rest \in Seq(Frame) /\ Len(rest) = n - 1
      /\ \A i \in 1 .. n - 1 : rest[i] = frames[i + 1]
  BY HeadTailProperties, <1>1
<1>3. \A i \in 1 .. n : frames[i] \in Frame
  BY ElementOfSeq
<1> HIDE DEF rest
<1>4. frames[1] \in Frame /\ frames[1] \in Suspended(frames)
  BY <1>1, <1>3 DEF Suspended
<1>5. \A g \in Suspended(rest) : \E i \in 2 .. n : g = frames[i]
  <2> SUFFICES ASSUME NEW g \in Suspended(rest) PROVE \E i \in 2 .. n : g = frames[i]
    OBVIOUS
  <2>1. PICK i \in 1 .. n - 1 : g = rest[i]
    BY <1>2 DEF Suspended
  <2>2. i + 1 \in 2 .. n
    BY <1>1
  <2> QED
    BY <2>1, <2>2, <1>2
<1>6. \A g \in Suspended(rest) : g \in Frame /\ Rank(g) < Rank(frames[1])
  <2> SUFFICES ASSUME NEW g \in Suspended(rest)
               PROVE  g \in Frame /\ Rank(g) < Rank(frames[1])
    OBVIOUS
  <2>1. PICK i \in 2 .. n : g = frames[i]
    BY <1>5
  <2>2. i \in 1 .. n /\ 1 < i
    BY <1>1
  <2>3. Rank(frames[1]) > Rank(frames[i])
    BY <2>2, <1>1 DEF Nested
  <2> QED
    BY <2>1, <2>2, <2>3, <1>3 DEF Rank
<1>7. Suspended(frames) = {frames[1]} \cup Suspended(rest)
  <2>1. ASSUME NEW g \in Suspended(frames) PROVE g \in {frames[1]} \cup Suspended(rest)
    <3>1. PICK i \in 1 .. n : g = frames[i]
      BY DEF Suspended
    <3>2. CASE i = 1
      BY <3>1, <3>2
    <3>3. CASE i # 1
      <4>1. i - 1 \in 1 .. n - 1 /\ (i - 1) + 1 = i
        BY <3>3, <1>1
      <4>2. rest[i - 1] = g
        BY <4>1, <3>1, <1>2
      <4> QED
        BY <4>1, <4>2, <1>2 DEF Suspended
    <3> QED
      BY <3>2, <3>3
  <2>2. ASSUME NEW g \in Suspended(rest) PROVE g \in Suspended(frames)
    <3>1. PICK i \in 2 .. n : g = frames[i]
      BY <1>5
    <3>2. i \in 1 .. n
      BY <1>1
    <3> QED
      BY <3>1, <3>2 DEF Suspended
  <2> QED
    BY <2>1, <2>2, <1>4
<1>8. Nested(rest)
  <2> SUFFICES ASSUME NEW i \in 1 .. n - 1, NEW j \in 1 .. n - 1, i < j
               PROVE  Rank(rest[i]) > Rank(rest[j])
    BY <1>2 DEF Nested
  <2>1. i + 1 \in 1 .. n /\ j + 1 \in 1 .. n /\ i + 1 < j + 1
    BY <1>1
  <2> QED
    BY <2>1, <1>2 DEF Nested
<1> QED
  BY <1>2, <1>4, <1>6, <1>7, <1>8 DEF rest

-----------------------------------------------------------------------------
\* The panel's functions

\* What the proofs below need of the types.
LEMMA Typed ==
    ASSUME IInv
    PROVE  /\ ui \in UI /\ ui.sel \in Charts \cup {NoChart} /\ ui.slot \in SlotIds
           /\ ui.sel # NoChart => ui.sel \in ui.panels /\ ui.sel \in Charts
           /\ ui.view \in [Charts -> [SlotIds -> ServerSlot]]
           /\ srv \in [Charts -> [SlotIds -> ServerSlot]]
           /\ frames \in Seq(Frame) /\ pending \in Seq(Event)
           /\ plugged \in Dongles \cup {None} /\ Me # None /\ NoChart \notin Charts
           /\ threads \in [Tids -> Transfer] /\ NoThread \notin Tids
           /\ handle \in Tids \cup {NoThread} /\ stream \in Tids \cup {NoThread}
           /\ dlFile \in [Charts -> Files \cup {NoFile}] /\ disk \in [Files -> Contents]
           /\ dlPath \in [Charts -> [SlotIds -> Files \cup {NoFile}]]
           /\ installed \in [Charts -> [SlotIds -> Files \cup {NoFile}]]
           /\ \A c \in Charts, s \in SlotIds : <<c, s>> \in Files /\ <<c, s>> # NoFile
<1>1. NoThread \notin Tids
  BY PanelAssumption DEF NoThread, Tids
<1>2. Me # None /\ NoChart \notin Charts
  BY PanelAssumption, NamesAssumption
<1>3. \A c \in Charts, s \in SlotIds : <<c, s>> \in Files /\ <<c, s>> # NoFile
  BY <1>2 DEF Files, NoFile
<1>4. ui \in UI /\ (ui.sel # NoChart => ui.sel \in ui.panels)
  BY DEF IInv, GoodUI
<1>5. /\ ui.sel \in Charts \cup {NoChart} /\ ui.slot \in SlotIds
      /\ ui.view \in [Charts -> [SlotIds -> ServerSlot]]
  BY <1>4 DEF UI
<1> QED
  BY <1>1, <1>2, <1>3, <1>4, <1>5
     DEF IInv, ServerType, HandlersType, TransfersType, FilesType

\* Everything but the selection, the panels and the two Install members.
SameTask(u, v) ==
    /\ v.view = u.view /\ v.listOK = u.listOK /\ v.dongle = u.dongle /\ v.slot = u.slot
    /\ v.updateOn = u.updateOn /\ v.override = u.override /\ v.timer = u.timer
    /\ v.chain = u.chain /\ v.aborting = u.aborting

\* Install is shown for a selection only, whichever function set it.
LEMMA ActionControlsTask ==
    ASSUME NEW u \in UI
    PROVE  LET v == UpdateActionControls(u)
           IN /\ SameTask(u, v) /\ v.sel = u.sel /\ v.panels = u.panels
              /\ v.installShown => v.sel # NoChart
<1> DEFINE shown == u.sel # NoChart /\ StatusOf(u, u.sel) \in Offered
           on    == u.installOn \/ u.sel = NoChart \/ u.override = ""
<1>1. UpdateActionControls(u) = [u EXCEPT !.installShown = shown, !.installOn = on]
  BY DEF UpdateActionControls
<1>2. shown => u.sel # NoChart
  OBVIOUS
<1> HIDE DEF shown, on
<1> QED
  BY <1>1, <1>2 DEF UI, SameTask

\* A chart set of which a slot is this system's or the dongle's stays listed, and
\* stays selected.
LEMMA ChartListTask ==
    ASSUME NEW u \in UI
    PROVE  LET v == UpdateChartList(u)
           IN /\ SameTask(u, v)
              /\ v.installShown => v.sel # NoChart
              /\ v.panels # {} => v.listOK
              /\ \A s \in SlotIds :
                    /\ u.sel # NoChart /\ u.listOK
                    /\ u.view[u.sel][s].sys \in {Me, u.dongle}
                    => v.sel = u.sel
<1> DEFINE last   == IF u.sel = NoChart THEN u.last ELSE u.sel
           panels == {c \in Charts : u.listOK /\ Shown(ChartOf(u, c), Me, u.dongle)}
           sel    == IF last \in panels THEN last ELSE NoChart
           w      == [u EXCEPT !.last = last, !.panels = panels, !.sel = sel]
<1>1. UpdateChartList(u) = UpdateActionControls(w)
  BY DEF UpdateChartList
<1>2. panels # {} => u.listOK
  OBVIOUS
<1>3. ASSUME NEW s \in SlotIds, u.sel # NoChart, u.listOK,
             u.view[u.sel][s].sys \in {Me, u.dongle}
      PROVE  sel = u.sel
  <2>1. u.sel \in Charts
    BY <1>3 DEF UI
  <2>2. ChartOf(u, u.sel)[s].sys = u.view[u.sel][s].sys
    BY DEF ChartOf
  <2>3. Shown(ChartOf(u, u.sel), Me, u.dongle)
    BY <2>2, <1>3 DEF Shown, AssignedTo
  <2> QED
    BY <2>1, <2>3, <1>3
<1>4. last \in Charts \cup {NoChart} /\ panels \subseteq Charts /\ sel \in Charts \cup {NoChart}
  BY DEF UI
<1> HIDE DEF last, panels, sel
<1>5. /\ w \in UI /\ SameTask(u, w) /\ w.sel = sel /\ w.panels = panels
  BY <1>4 DEF UI, SameTask
<1> HIDE DEF w
<1> DEFINE v == UpdateActionControls(w)
<1>6. /\ SameTask(w, v) /\ v.sel = w.sel /\ v.panels = w.panels
      /\ v.installShown => v.sel # NoChart
  BY <1>5, ActionControlsTask
<1> HIDE DEF v
<1>7. SameTask(u, v)
  BY <1>5, <1>6 DEF SameTask
<1>8. v.panels # {} => v.listOK
  BY <1>2, <1>5, <1>6 DEF SameTask
<1>9. \A s \in SlotIds : /\ u.sel # NoChart /\ u.listOK
                         /\ u.view[u.sel][s].sys \in {Me, u.dongle}
                         => v.sel = u.sel
  BY <1>3, <1>5, <1>6
<1> QED
  BY <1>1, <1>6, <1>7, <1>8, <1>9 DEF v

-----------------------------------------------------------------------------
\* The invariant, initially

LEMMA CalmInit == Init => CInv
<1> SUFFICES ASSUME Init PROVE CInv
  OBVIOUS
<1>1. Account
  BY DEF Init, Account, NewSlot
<1>2. Running = {} /\ pending = <<>> /\ handle = NoThread /\ Suspended(frames) = {}
  BY NoneSuspended DEF Init, Running
<1>3. Controls /\ Work
  BY <1>2 DEF Init, Controls, Work
<1>4. Flight
  <2>1. Len(pending) = 0 /\ ui.chain = FALSE /\ ui.aborting = FALSE
    BY <1>2 DEF Init
  <2> QED
    BY <1>2, <2>1 DEF Flight
<1>5. Handlers /\ Residue
  BY <1>2, NoneSuspended DEF Init, Handlers, Residue
<1>6. Zips
  BY DEF Init, Zips
<1> QED
  BY <1>1, <1>3, <1>4, <1>5, <1>6 DEF CInv

-----------------------------------------------------------------------------
\* The server, other systems, the USB port and the transfers

\* What the server does to a slot takes nothing back from whoever has it.
Kept(old, new) ==
    /\ new.sys = None => new.stat = "unassigned"
    /\ old.sys # None => new.sys = old.sys
    /\ old.stat \in {"download", "expired"} => new.stat \in {"download", "expired"}
    /\ old.stat \in {"processing", "download", "expired"}
       => new.stat \in {"processing", "download", "expired"}

LEMMA SetSlotValue ==
    ASSUME IInv, NEW c \in Charts, NEW s \in SlotIds, NEW n, NEW stat
    PROVE  \A d \in Charts, o \in SlotIds :
               SetSlot(c, s, n, stat)[d][o] = IF d = c /\ o = s THEN [sys |-> n, stat |-> stat]
                                              ELSE srv[d][o]
<1>1. srv \in [Charts -> [SlotIds -> ServerSlot]]
  BY Typed
<1> QED
  BY <1>1 DEF SetSlot

LEMMA ServerKeeps ==
    ASSUME IInv, Account,
           \/ \E c \in Charts, s \in SlotIds : ServerPrepares(c, s)
           \/ \E c \in Charts : ServerExpires(c)
           \/ \E c \in Charts, s \in SlotIds, n \in Names : OtherAssigns(c, s, n)
    PROVE  \A d \in Charts, o \in SlotIds : Kept(srv[d][o], srv'[d][o])
<1>1. srv \in [Charts -> [SlotIds -> ServerSlot]] /\ None \notin Names
  BY Typed, NamesAssumption DEF Names
<1>2. \A d \in Charts, o \in SlotIds : srv[d][o].sys = None => srv[d][o].stat = "unassigned"
  BY DEF Account
<1>3. ASSUME NEW c \in Charts, NEW s \in SlotIds, ServerPrepares(c, s),
             NEW d \in Charts, NEW o \in SlotIds
      PROVE  Kept(srv[d][o], srv'[d][o])
  <2>1. srv'[d][o] = IF d = c /\ o = s THEN [sys |-> srv[c][s].sys, stat |-> "download"]
                     ELSE srv[d][o]
    BY <1>3, SetSlotValue DEF ServerPrepares
  <2> QED
    BY <1>2, <1>3, <2>1 DEF ServerPrepares, Kept
<1>4. ASSUME NEW c \in Charts, ServerExpires(c), NEW d \in Charts, NEW o \in SlotIds
      PROVE  Kept(srv[d][o], srv'[d][o])
  <2>1. srv[d][o] \in ServerSlot
    BY <1>1
  <2>2. \/ srv'[d][o] = srv[d][o]
        \/ /\ srv[d][o].sys # None
           /\ srv'[d][o].sys = srv[d][o].sys /\ srv'[d][o].stat = "expired"
    <3>1. CASE d = c /\ srv[d][o].sys # None
      <4>1. srv'[d][o] = [srv[d][o] EXCEPT !.stat = "expired"]
        BY <3>1, <1>4, <1>1 DEF ServerExpires
      <4> QED
        BY <4>1, <3>1, <2>1 DEF ServerSlot
    <3>2. CASE d = c /\ srv[d][o].sys = None
      BY <3>2, <1>4, <1>1 DEF ServerExpires
    <3>3. CASE d # c
      BY <3>3, <1>4, <1>1 DEF ServerExpires
    <3> QED
      BY <3>1, <3>2, <3>3
  <2> QED
    BY <2>2, <1>2 DEF Kept
<1>5. ASSUME NEW c \in Charts, NEW s \in SlotIds, NEW n \in Names, OtherAssigns(c, s, n),
             NEW d \in Charts, NEW o \in SlotIds
      PROVE  Kept(srv[d][o], srv'[d][o])
  <2>1. srv'[d][o] = IF d = c /\ o = s THEN [sys |-> n, stat |-> "requestable"] ELSE srv[d][o]
    BY <1>5, SetSlotValue DEF OtherAssigns
  <2> QED
    BY <1>1, <1>2, <1>5, <2>1 DEF OtherAssigns, CanAssign, Kept
<1> QED
  BY <1>3, <1>4, <1>5

\* The account changes and nothing else does.
LEMMA AccountChanges ==
    ASSUME IInv, CInv,
           \A d \in Charts, o \in SlotIds : Kept(srv[d][o], srv'[d][o]),
           UNCHANGED <<plugged, calm, ui, frames, pending, transfers, files>>
    PROVE  CInv'
<1>1. Account'
  BY Typed DEF CInv, Account, Kept
<1>2. Requested => Requested'
  <2>1. Mine => /\ ui.sel \in Charts /\ ui.slot \in SlotIds
    BY Typed DEF Mine
  <2> QED
    BY <2>1 DEF Requested, Mine, Kept
<1>3. (Free => Free') /\ (Mine => Mine')
  BY DEF Free, Mine, Running, transfers
<1>4. Work'
  BY <1>2, <1>3 DEF CInv, Work, Running, transfers
<1>5. \A f \in Suspended(frames) : Relies(f)'
  BY <1>2, <1>3 DEF CInv, Handlers, Relies, IsDownloadable, transfers, files, Downloading
<1> QED
  BY <1>1, <1>4, <1>5 DEF CInv, Controls, Flight, Running, transfers, files, Handlers,
                          Residue, Downloading, Zips

LEMMA ServerSteps ==
    ASSUME IInv, CInv,
           \/ \E c \in Charts, s \in SlotIds : ServerPrepares(c, s)
           \/ \E c \in Charts : ServerExpires(c)
           \/ \E c \in Charts, s \in SlotIds, n \in Names : OtherAssigns(c, s, n)
    PROVE  CInv'
<1>1. UNCHANGED <<plugged, calm, ui, frames, pending, transfers, files>>
  BY DEF ServerPrepares, ServerExpires, OtherAssigns, Unused
<1> QED
  BY <1>1, ServerKeeps, AccountChanges DEF CInv

\* When the dongle may change nothing is under way and no handler is suspended.
LEMMA IdleIsFree ==
    ASSUME IInv, CInv, ~Busy
    PROVE  Free /\ ~ui.timer /\ ui.override = ""
<1>1. ~ui.timer /\ ui.override = "" /\ handle = NoThread /\ pending = <<>>
  BY DEF Busy
<1>2. Running = {}
  <2>1. \A t \in Running : handle = t /\ t \in Tids
    BY DEF CInv, Flight, Running
  <2> QED
    BY <2>1, <1>1, Typed
<1> QED
  BY <1>1, <1>2 DEF Free

LEMMA PlugStep ==
    ASSUME IInv, CInv, calm, NEW d \in Dongles, Plug(d)
    PROVE  CInv'
<1>1. /\ frames = <<>> /\ ~Busy
      /\ UNCHANGED <<srv, calm, ui, frames, pending, transfers, files>>
  BY DEF Plug, Unused
<1>2. Free /\ ~ui.timer
  BY <1>1, IdleIsFree
<1>3. Suspended(frames) = {}
  BY <1>1, NoneSuspended
<1>4. Account' /\ Controls' /\ Zips'
  BY <1>1 DEF CInv, Account, Controls, Zips, files
<1>5. Work' /\ Flight'
  BY <1>1, <1>2 DEF CInv, Work, Flight, Free, Running, transfers, files
<1>6. Handlers' /\ Residue'
  BY <1>1, <1>3 DEF CInv, Handlers, Residue, Downloading, Running, transfers
<1> QED
  BY <1>4, <1>5, <1>6 DEF CInv

LEMMA CalmProgressStep ==
    ASSUME IInv, CInv, NEW t \in Tids, Progress(t)
    PROVE  CInv'
<1>1. UNCHANGED <<srv, plugged, ui, frames, pending, threads, handle, stream, files>>
  BY DEF Progress, server
<1>2. Account' /\ Controls' /\ Zips'
  BY <1>1 DEF CInv, Account, Controls, Zips, files
<1>3. Running' = Running /\ Free' = Free /\ Mine' = Mine /\ Requested' = Requested
  BY <1>1 DEF Running, Free, Mine, Requested
<1>4. Work' /\ Flight' /\ Residue'
  BY <1>1, <1>3 DEF CInv, Work, Flight, Residue, Downloading, files
<1>5. \A f \in Suspended(frames) : f.pc # "proceed"
  BY DEF Progress, Running, CInv, Handlers, Relies, Chaining, Free
<1>6. \A f \in Suspended(frames) : Relies(f)'
  BY <1>1, <1>3, <1>5 DEF CInv, Handlers, Relies, IsDownloadable, files, Downloading
<1> QED
  BY <1>1, <1>2, <1>4, <1>6 DEF CInv, Handlers

\* The one transfer ends, and its event is the only one posted.
LEMMA CalmTransferEndsStep ==
    ASSUME IInv, CInv, NEW t \in Tids, TransferEnds(t)
    PROVE  CInv'
<1> DEFINE e == [type |-> "end", size |-> Size(threads[t])]
<1>1. /\ t \in Running /\ handle = t /\ threads[t].file = <<ui.sel, ui.slot>>
      /\ pending = <<>> /\ ui.override = "Downloading..." /\ ~ui.updateOn
  BY DEF TransferEnds, Running, CInv, Flight
<1>2. Running = {t}
  BY <1>1 DEF CInv, Flight
<1>3. /\ UNCHANGED <<server, ui, frames, handle, stream, target, dlFile, dlPath, installed>>
      /\ threads' = [threads EXCEPT ![t] = Idle]
      /\ pending' = Append(pending, e)
  BY <1>1 DEF TransferEnds
<1>4. Running' = {}
  <2>1. \A o \in Tids : threads'[o] # Idle => o \in Running /\ o # t
    BY <1>3, Typed DEF Running
  <2> QED
    BY <2>1, <1>2 DEF Running
<1>5. pending' # <<>> /\ Len(pending') = 1 /\ pending'[1].type = "end"
  <2>1. pending' = <<e>>
    BY <1>1, <1>3
  <2> QED
    BY <2>1
<1> HIDE DEF e
<1>6. ~Free /\ Requested /\ Requested' /\ ~ui.timer /\ ui.chain /\ ~ui.aborting
  BY <1>1, <1>3 DEF Free, CInv, Work, Requested, Mine, server, Flight
<1>7. ui.sel \in Charts /\ dlFile[ui.sel] = <<ui.sel, ui.slot>>
  BY <1>1, <1>6, Typed DEF CInv, Flight, Requested, Mine
<1>8. Account' /\ Controls' /\ Zips'
  BY <1>3 DEF CInv, Account, Controls, Zips, server
<1>9. Work' /\ Flight'
  BY <1>1, <1>3, <1>4, <1>5, <1>6, <1>7 DEF Work, Flight
<1>10. Handlers'
  <2>1. \A f \in Suspended(frames) : Relies(f)'
    BY <1>3, <1>6 DEF CInv, Handlers, Relies, Chaining, Installing
  <2> QED
    BY <2>1, <1>3 DEF CInv, Handlers
<1>11. Residue'
  BY <1>1, <1>3, <1>5, <1>6 DEF Residue
<1> QED
  BY <1>8, <1>9, <1>10, <1>11 DEF CInv

-----------------------------------------------------------------------------
\* A handler is suspended

\* The frame that a push adds, whatever its kind.
Pushed(new, f, fs) ==
    (\A g \in Suspended(fs) : Rank(g) < Rank(f))
        => Nested(new) /\ Suspended(new) = {f} \cup Suspended(fs)

Is(f, pc, c, s, n, flag) ==
    f.pc = pc /\ f.chart = c /\ f.slot = s /\ f.name = n /\ f.flag = flag

LEMMA PushFrame ==
    ASSUME NEW kind \in {"yield", "modal", "call"}, NEW pc \in Pcs,
           NEW c \in Charts \cup {NoChart}, NEW s \in SlotIds,
           NEW n \in Names \cup {None}, NEW flag \in BOOLEAN,
           NEW fs \in Seq(Frame), Nested(fs)
    PROVE  \E f \in Frame : /\ Is(f, pc, c, s, n, flag)
                            /\ Pushed(Push(kind, pc, c, s, n, flag, fs), f, fs)
<1> DEFINE f == [kind |-> kind, pc |-> pc, chart |-> c, slot |-> s, name |-> n, flag |-> flag]
<1>1. f \in Frame /\ Is(f, pc, c, s, n, flag)
  BY DEF Frame, Is
<1>2. Push(kind, pc, c, s, n, flag, fs) = <<f>> \o fs
  BY DEF Push
<1> HIDE DEF f
<1>3. Pushed(<<f>> \o fs, f, fs)
  BY <1>1, PushSuspended DEF Pushed
<1> QED
  BY <1>1, <1>2, <1>3

LEMMA ModalFrame ==
    ASSUME NEW pc \in Pcs, NEW c \in Charts \cup {NoChart}, NEW s \in SlotIds,
           NEW n \in Names \cup {None}, NEW fs \in Seq(Frame), Nested(fs)
    PROVE  \E f \in Frame : /\ Is(f, pc, c, s, n, FALSE)
                            /\ Pushed(Modal(pc, c, s, n, fs), f, fs)
BY PushFrame DEF Modal

LEMMA YieldFrame ==
    ASSUME NEW pc \in Pcs, NEW c \in Charts \cup {NoChart}, NEW s \in SlotIds,
           NEW flag \in BOOLEAN, NEW fs \in Seq(Frame), Nested(fs)
    PROVE  \E f \in Frame : /\ Is(f, pc, c, s, None, flag)
                            /\ Pushed(Yield(pc, c, s, flag, fs), f, fs)
<1> DEFINE kind == IF fs # <<>> /\ fs[1].kind = "yield" THEN "call" ELSE "yield"
<1>1. kind \in {"yield", "modal", "call"} /\ None \in Names \cup {None}
  OBVIOUS
<1>2. Yield(pc, c, s, flag, fs) = Push(kind, pc, c, s, None, flag, fs)
  BY DEF Yield
<1> HIDE DEF kind
<1> QED
  BY <1>1, <1>2, PushFrame

-----------------------------------------------------------------------------
\* The user's clicks

\* Selecting a chart changes nothing of what is under way.
LEMMA CalmClickChartStep ==
    ASSUME IInv, CInv, calm, NEW c \in Charts, ClickChart(c)
    PROVE  CInv'
<1> DEFINE d == IF ui.sel = c THEN NoChart ELSE c
           v == [ui EXCEPT !.sel = d]
<1>1. /\ frames = <<>> /\ ~Busy /\ ui' = SelectChart(ui, d) /\ c \in ui.panels
      /\ UNCHANGED <<server, frames, pending, transfers, files>>
  BY DEF ClickChart, UserActs
<1>2. Free /\ ~ui.timer /\ ui.override = "" /\ Suspended(frames) = {}
  BY <1>1, IdleIsFree, NoneSuspended
<1>3. ui \in UI /\ d \in Charts \cup {NoChart} /\ d # ui.sel
  BY Typed
<1>4. ui' = UpdateActionControls(v)
  BY <1>1, <1>3 DEF SelectChart
<1> HIDE DEF d
<1>5. v \in UI /\ SameTask(ui, v) /\ v.panels = ui.panels
  BY <1>3 DEF UI, SameTask
<1> HIDE DEF v
<1>6. /\ SameTask(v, ui') /\ ui'.panels = v.panels /\ (ui'.installShown => ui'.sel # NoChart)
  BY <1>4, <1>5, ActionControlsTask
<1>7. SameTask(ui, ui') /\ ui'.panels = ui.panels
  BY <1>5, <1>6 DEF SameTask
<1>8. Account' /\ Controls' /\ Zips'
  BY <1>1, <1>6, <1>7 DEF CInv, Account, Controls, Zips, SameTask, server, files
<1>9. Free' /\ ~ui'.timer /\ Running' = {}
  BY <1>1, <1>2, <1>7 DEF Free, Running, transfers, SameTask
<1>10. Work' /\ Flight'
  BY <1>1, <1>2, <1>7, <1>9 DEF CInv, Work, Flight, Free, SameTask, transfers
<1>11. Handlers' /\ Residue'
  BY <1>1, <1>2, <1>7, <1>9, NoneSuspended
     DEF CInv, Handlers, Residue, Downloading, Free, SameTask
<1> QED
  BY <1>8, <1>10, <1>11 DEF CInv

\* The dongle plugged is the dongle in use, while anything is under way.
LEMMA CalmClickUpdateStep ==
    ASSUME IInv, CInv, calm, ClickUpdate
    PROVE  CInv'
<1>1. /\ frames = <<>> /\ ui.updateOn /\ ui' = [ui EXCEPT !.dongle = plugged]
      /\ frames' = Yield("refresh", NoChart, 0, FALSE, frames)
      /\ UNCHANGED <<server, pending, transfers, files>>
  BY DEF ClickUpdate, UserActs
<1>2. Suspended(frames) = {} /\ Nested(frames) /\ frames \in Seq(Frame)
  BY <1>1, NoneSuspended, Typed
<1>3. "refresh" \in Pcs /\ NoChart \in Charts \cup {NoChart} /\ 0 \in SlotIds
  BY DEF Pcs, SlotIds
<1>4. PICK f \in Frame : Is(f, "refresh", NoChart, 0, None, FALSE) /\ Pushed(frames', f, frames)
  BY <1>1, <1>2, <1>3, YieldFrame
<1>5. Nested(frames') /\ Suspended(frames') = {f} /\ f.pc = "refresh"
  BY <1>2, <1>4 DEF Pushed, Is
<1>6. /\ ui'.view = ui.view /\ ui'.listOK = ui.listOK /\ ui'.sel = ui.sel /\ ui'.slot = ui.slot
      /\ ui'.panels = ui.panels /\ ui'.installShown = ui.installShown
      /\ ui'.updateOn = ui.updateOn /\ ui'.override = ui.override /\ ui'.timer = ui.timer
      /\ ui'.chain = ui.chain /\ ui'.aborting = ui.aborting /\ ui'.dongle = plugged
  BY <1>1, Typed DEF UI
<1>7. Account' /\ Controls' /\ Zips'
  BY <1>1, <1>6 DEF CInv, Account, Controls, Zips, server, files
<1>8. Running' = Running /\ (Free => Free') /\ (Requested => Requested')
  BY <1>1, <1>6 DEF Running, Free, Requested, Mine, transfers, server
<1>9. Work' /\ Flight'
  BY <1>1, <1>6, <1>8 DEF CInv, Work, Flight, transfers, files
<1>10. Handlers'
  BY <1>5 DEF Handlers, Relies, Installing, Polling, Chaining
<1>11. Residue'
  BY <1>1, <1>2, <1>5, <1>6, <1>8 DEF CInv, Residue, Downloading, transfers
<1> QED
  BY <1>7, <1>9, <1>10, <1>11 DEF CInv

\* Cancel stops the one transfer, or waits for its events, and the selection stays.
LEMMA CalmClickCancelStep ==
    ASSUME IInv, CInv, calm, ClickCancel
    PROVE  CInv'
<1> DEFINE t == IF handle = NoThread THEN Idle ELSE threads[handle]
           cancelled == handle # NoThread
           e == [type |-> "end", size |-> Size(t)]
           u == [ui EXCEPT !.timer = FALSE, !.cancelShown = FALSE, !.override = "",
                           !.installOn = TRUE,
                           !.aborting = @ \/ handle # NoThread,
                           !.chain = @ \/ handle # NoThread]
<1>1. /\ frames = <<>> /\ ui' = UpdateChartList(u)
      /\ UNCHANGED <<server, frames, handle, stream, target, dlFile, dlPath, installed>>
      /\ t = Idle => UNCHANGED disk
      /\ IF t # Idle
         THEN threads' = [threads EXCEPT ![handle] = Idle] /\ pending' = Append(pending, e)
         ELSE UNCHANGED <<threads, pending>>
  BY DEF ClickCancel, UserActs
<1>2. UNCHANGED <<server, frames, handle, dlPath, installed>>
  BY <1>1
<1>3. /\ u \in UI /\ u.view = ui.view /\ u.listOK = ui.listOK /\ u.sel = ui.sel
      /\ u.slot = ui.slot /\ u.dongle = ui.dongle /\ u.updateOn = ui.updateOn
      /\ ~u.timer /\ u.override = ""
      /\ u.aborting = (ui.aborting \/ cancelled) /\ u.chain = (ui.chain \/ cancelled)
  <2> DEFINE aborts == ui.aborting \/ cancelled
             chains == ui.chain \/ cancelled
  <2>1. ui \in UI /\ aborts \in BOOLEAN /\ chains \in BOOLEAN
    BY Typed DEF UI
  <2>2. u = [ui EXCEPT !.timer = FALSE, !.cancelShown = FALSE, !.override = "",
                       !.installOn = TRUE, !.aborting = aborts, !.chain = chains]
    OBVIOUS
  <2> HIDE DEF u, aborts, chains
  <2>3. /\ u \in UI /\ u.view = ui.view /\ u.listOK = ui.listOK /\ u.sel = ui.sel
        /\ u.slot = ui.slot /\ u.dongle = ui.dongle /\ u.updateOn = ui.updateOn
        /\ ~u.timer /\ u.override = "" /\ u.aborting = aborts /\ u.chain = chains
    BY <2>1, <2>2 DEF UI
  <2> QED
    BY <2>3 DEF aborts, chains
<1> HIDE DEF u
<1>4. /\ SameTask(u, ui')
      /\ ui'.installShown => ui'.sel # NoChart
      /\ ui'.panels # {} => ui'.listOK
      /\ \A s \in SlotIds : /\ u.sel # NoChart /\ u.listOK
                            /\ u.view[u.sel][s].sys \in {Me, u.dongle}
                            => ui'.sel = u.sel
  BY <1>1, <1>3, ChartListTask
<1>5. /\ ui'.view = ui.view /\ ui'.listOK = ui.listOK /\ ui'.slot = ui.slot
      /\ ui'.dongle = ui.dongle /\ ui'.updateOn = ui.updateOn
      /\ ~ui'.timer /\ ui'.override = ""
      /\ ui'.aborting = (ui.aborting \/ cancelled) /\ ui'.chain = (ui.chain \/ cancelled)
  BY <1>3, <1>4 DEF SameTask
<1>6. Requested => ui'.sel = ui.sel /\ Requested'
  <2> SUFFICES ASSUME Requested PROVE ui'.sel = ui.sel /\ Requested'
    OBVIOUS
  <2>1. /\ ui.sel # NoChart /\ ui.dongle = plugged
        /\ ui.view[ui.sel][ui.slot].sys \in {Me, ui.dongle}
    BY DEF Requested, Mine
  <2>2. ui.listOK
    BY <2>1, Typed DEF CInv, Controls
  <2>3. ui'.sel = ui.sel
    BY <2>1, <2>2, <1>3, <1>4, Typed
  <2> QED
    BY <2>3, <1>1, <1>5 DEF Requested, Mine, server
<1>7. (t # Idle) <=> Running # {}
  <2>1. ASSUME t # Idle PROVE Running # {}
    BY <2>1, Typed DEF Running
  <2>2. ASSUME Running # {} PROVE t # Idle
    <3>1. PICK o \in Running : handle = o
      BY <2>2 DEF CInv, Flight
    <3> QED
      BY <3>1, Typed DEF Running
  <2> QED
    BY <2>1, <2>2
<1>8. Running # {} => Running = {handle} /\ cancelled /\ pending = <<>> /\ handle \in Tids
  BY Typed DEF CInv, Flight, Running
<1>9. Running' = {}
  <2>1. CASE Running = {}
    BY <2>1, <1>1, <1>7 DEF Running
  <2>2. CASE Running # {}
    <3>1. threads' = [threads EXCEPT ![handle] = Idle]
      BY <2>2, <1>1, <1>7
    <3>2. \A o \in Tids : threads'[o] # Idle => o \in Running /\ o # handle
      BY <3>1, Typed DEF Running
    <3> QED
      BY <3>2, <2>2, <1>8 DEF Running
  <2> QED
    BY <2>1, <2>2
<1> HIDE DEF e
<1>10. /\ Running # {} => pending' # <<>> /\ Len(pending') = 1 /\ pending'[1].type = "end"
       /\ Running = {} => pending' = pending
  <2>1. CASE Running # {}
    <3>1. pending' = Append(pending, e) /\ pending = <<>>
      BY <2>1, <1>1, <1>7, <1>8
    <3>2. pending' = <<e>> /\ Len(<<e>>) = 1 /\ <<e>>[1] = e /\ e.type = "end"
      BY <3>1 DEF e
    <3> QED
      BY <2>1, <3>2
  <2>2. CASE Running = {}
    BY <2>2, <1>1, <1>7
  <2> QED
    BY <2>1, <2>2
<1> HIDE DEF t
<1>11. cancelled => Running # {} \/ (pending # <<>> /\ pending[1].type = "end")
  BY DEF CInv, Flight
<1>12. Account' /\ Controls' /\ Zips'
  <2>1. Account' /\ Zips'
    BY <1>2, <1>5 DEF CInv, Account, Zips, server, files
  <2>2. Controls'
    BY <1>4 DEF Controls
  <2> QED
    BY <2>1, <2>2
<1>13. Work'
  BY <1>5, <1>6, <1>9, <1>10 DEF CInv, Work
<1>14. Flight'
  <2>1. handle' # NoThread => pending' # <<>> /\ pending'[1].type = "end"
    BY <1>1, <1>10, <1>11
  <2>2. Len(pending') <= 1
    <3>1. Len(pending) <= 1
      BY DEF CInv, Flight
    <3> QED
      BY <3>1, <1>10
  <2>3. (ui'.chain <=> pending' # <<>>) /\ (ui'.aborting => pending' # <<>>)
    BY <1>5, <1>8, <1>10, <1>11 DEF CInv, Flight
  <2>4. pending' # <<>> =>
          IF ui'.aborting /\ pending'[1].type = "chain"
          THEN dlFile'[ui'.sel] = NoFile /\ disk'[<<ui'.sel, ui'.slot>>] = "absent"
          ELSE dlFile'[ui'.sel] = <<ui'.sel, ui'.slot>>
    <3>1. /\ Running # {} \/ pending # <<>> => Requested
          /\ Running # {} => ~ui.aborting
      BY DEF CInv, Work, Flight
    <3>2. dlFile' = dlFile /\ (Running = {} => disk' = disk)
      BY <1>1, <1>7
    <3> QED
      BY <3>1, <3>2, <1>5, <1>6, <1>8, <1>10, <1>11 DEF CInv, Flight
  <2> QED
    BY <2>1, <2>2, <2>3, <2>4, <1>9 DEF Flight
<1>15. Handlers'
  BY <1>1, NoneSuspended DEF Handlers
<1>16. Residue'
  <2>1. ~Downloading
    BY <1>1, NoneSuspended DEF Downloading
  <2> QED
    BY <2>1, <1>5, <1>9, <1>10 DEF CInv, Residue
<1> QED
  BY <1>12, <1>13, <1>14, <1>15, <1>16 DEF CInv

LEMMA LeastChoice ==
    ASSUME NEW S, S \subseteq 1 .. 6, S # {}
    PROVE  \E i \in S : \A j \in S : i <= j
<1>1. CASE 1 \in S
  BY <1>1
<1>2. CASE 1 \notin S /\ 2 \in S
  BY <1>2
<1>3. CASE 1 \notin S /\ 2 \notin S /\ 3 \in S
  BY <1>3
<1>4. CASE 1 \notin S /\ 2 \notin S /\ 3 \notin S /\ 4 \in S
  BY <1>4
<1>5. CASE 1 \notin S /\ 2 \notin S /\ 3 \notin S /\ 4 \notin S
  <2>1. \A j \in S : j = 5 \/ j = 6
    BY <1>5
  <2>2. CASE 5 \in S
    BY <2>1, <2>2
  <2>3. CASE 5 \notin S
    <3>1. \A j \in S : j = 6
      BY <2>1, <2>3
    <3>2. 6 \in S
      BY <3>1
    <3> QED
      BY <3>1, <3>2
  <2> QED
    BY <2>2, <2>3
<1> QED
  BY <1>1, <1>2, <1>3, <1>4, <1>5

\* The slot a press of Install works on: this system's or the dongle's, unless it is
\* to be assigned, and ready if it is to be downloaded.
LEMMA ActionSlot ==
    ASSUME DistinctSerials, NEW ch, NEW me, NEW dg \in Dongles \cup {None}, me # None
    PROVE  LET act == ActiveSlotAction(ch, me, dg)
           IN /\ act.action \in {"DOWNLOAD_DONGLE", "DOWNLOAD_SYSTEM"}
                 => ch[act.slot].stat = "download" /\ ch[act.slot].sys \in {me, dg} \ {None}
              /\ act.action \in {"REQUEST_DONGLE", "REQUEST_SYSTEM"}
                 => ch[act.slot].sys \in {me, dg} \ {None}
              /\ act.action = "ASSIGN_DONGLE" => dg # None
<1> DEFINE choices == Choices(ch, me, dg)
           fits    == {i \in DOMAIN choices : choices[i].slots # {}}
           best    == CHOOSE i \in fits : \A j \in fits : i <= j
           lowest  == IF 0 \in choices[best].slots THEN 0 ELSE 1
           act     == ActiveSlotAction(ch, me, dg)
<1>1. act = IF fits = {} THEN NoAction ELSE [action |-> choices[best].action, slot |-> lowest]
  BY DEF ActiveSlotAction
<1>2. /\ DOMAIN choices = 1 .. 6
      /\ \A i \in 1 .. 6 : choices[i].slots \subseteq {0, 1}
      /\ \A i \in 1 .. 6 : \A s \in choices[i].slots :
            /\ choices[i].action \in {"DOWNLOAD_DONGLE", "DOWNLOAD_SYSTEM"}
               => /\ ch[s].stat = "download"
                  /\ ch[s].sys = me \/ (SlotOfMyDongle(ch[s], dg) /\ dg # None)
            /\ choices[i].action \in {"REQUEST_DONGLE", "REQUEST_SYSTEM"}
               => ch[s].sys = me \/ (ch[s].sys = dg /\ dg # None)
            /\ choices[i].action = "ASSIGN_DONGLE" => dg # None
  BY DEF Choices, SlotIds
<1> HIDE DEF choices
<1>3. ASSUME fits # {} PROVE best \in fits
  <2>1. fits \subseteq 1 .. 6
    BY <1>2
  <2> HIDE DEF fits
  <2>2. \E i \in fits : \A j \in fits : i <= j
    BY <2>1, <1>3, LeastChoice
  <2> QED
    BY <2>2
<1> HIDE DEF best
<1>4. ASSUME fits # {} PROVE lowest \in choices[best].slots /\ best \in 1 .. 6
  <2>1. best \in 1 .. 6 /\ choices[best].slots # {}
    BY <1>2, <1>3, <1>4
  <2>2. choices[best].slots \subseteq {0, 1}
    BY <1>2, <2>1
  <2> QED
    BY <2>1, <2>2
<1>5. ASSUME NEW s, SlotOfMyDongle(ch[s], dg) PROVE ch[s].sys = dg
  BY <1>5 DEF SlotOfMyDongle, DistinctSerials
<1>6. NoAction.action = "UNKNOWN"
  BY DEF NoAction
<1> HIDE DEF fits, lowest, act
<1>7. CASE fits = {}
  BY <1>7, <1>1, <1>6 DEF act
<1>8. CASE fits # {}
  <2>1. act.action = choices[best].action /\ act.slot = lowest
    BY <1>8, <1>1
  <2>2. act.slot \in choices[best].slots /\ best \in 1 .. 6
    BY <2>1, <1>8, <1>4
  <2> QED
    BY <2>1, <2>2, <1>2, <1>5 DEF act
<1> QED
  BY <1>7, <1>8

\* The panel as a download finds it after its yield.
LEMMA DownloadGuiTask ==
    ASSUME NEW u \in UI, NEW fs, NEW byTimer, DownloadGui(u, fs, byTimer),
           u.sel # NoChart, u.listOK, u.view[u.sel][u.slot].sys \in {Me, u.dongle}
    PROVE  /\ ui'.view = u.view /\ ui'.dongle = u.dongle /\ ui'.slot = u.slot
           /\ ui'.timer = u.timer /\ ui'.chain = u.chain /\ ui'.aborting = u.aborting
           /\ ui'.sel = u.sel /\ ui'.override = "Downloading..." /\ ~ui'.updateOn
           /\ ui'.listOK
           /\ frames' = Yield("download", NoChart, 0, byTimer, fs)
<1> DEFINE v == [u EXCEPT !.cancelShown = TRUE, !.updateOn = FALSE,
                          !.override = "Downloading..."]
<1>1. ui' = UpdateChartList(v) /\ frames' = Yield("download", NoChart, 0, byTimer, fs)
  BY DEF DownloadGui
<1>2. /\ v \in UI /\ v.view = u.view /\ v.dongle = u.dongle /\ v.slot = u.slot
      /\ v.timer = u.timer /\ v.chain = u.chain /\ v.aborting = u.aborting
      /\ v.sel = u.sel /\ v.override = "Downloading..." /\ ~v.updateOn /\ v.listOK = u.listOK
      /\ u.slot \in SlotIds
  BY DEF UI
<1> HIDE DEF v
<1>3. SameTask(v, ui') /\ ui'.sel = v.sel
  BY <1>1, <1>2, ChartListTask
<1> QED
  BY <1>1, <1>2, <1>3 DEF SameTask

\* Any function that rebuilds the panels leaves the controls in order.
LEMMA ChartListControls ==
    ASSUME NEW u \in UI, ui' = UpdateChartList(u)
    PROVE  Controls'
BY ChartListTask DEF Controls

\* What is known of the server is as true after a step that changes neither.
LEMMA AccountSame ==
    ASSUME Account, ui'.view = ui.view, srv' = srv
    PROVE  Account'
BY DEF Account

\* A step that moves nothing of a transfer, when there is none.
LEMMA FreeSame ==
    ASSUME CInv, Free, UNCHANGED <<pending, transfers, files>>,
           ui'.chain = ui.chain, ui'.aborting = ui.aborting
    PROVE  Free' /\ Running' = {} /\ Flight' /\ Zips' /\ ~ui.chain /\ ~ui.aborting
<1>1. Free' /\ Running' = {}
  BY DEF Free, Running, transfers
<1>2. Flight'
  BY <1>1 DEF CInv, Flight, Free
<1>3. Zips'
  BY DEF CInv, Zips, files
<1> QED
  BY <1>1, <1>2, <1>3 DEF CInv, Flight, Free

LEMMA CalmClickInstallStep ==
    ASSUME IInv, CInv, calm, DistinctSerials, ClickInstall
    PROVE  CInv'
<1> DEFINE u   == [ui EXCEPT !.dongle = plugged]
           c   == ui.sel
           act == ActiveSlotAction(ChartOf(u, c), Me, plugged)
           v   == [u EXCEPT !.slot = act.slot, !.installOn = FALSE, !.cancelShown = TRUE]
           n   == IF act.action = "ASSIGN_DONGLE" THEN plugged ELSE Me
<1>1. /\ frames = <<>> /\ ~Busy /\ ui.installShown
      /\ UNCHANGED <<server, pending, transfers, files>>
  BY DEF ClickInstall, UserActs
<1>2. Free /\ ~ui.timer /\ ui.override = "" /\ Suspended(frames) = {} /\ Nested(frames)
  BY <1>1, IdleIsFree, NoneSuspended
<1>3. /\ frames \in Seq(Frame) /\ ui \in UI /\ plugged \in Dongles \cup {None}
      /\ Me # None /\ Me \in Names /\ plugged \in Names \cup {None}
      /\ NoChart \in Charts \cup {NoChart} /\ 0 \in SlotIds
  BY Typed, PanelAssumption DEF Names, SlotIds
<1>4. c # NoChart /\ c \in Charts /\ ui.listOK
  BY <1>1, Typed DEF CInv, Controls
<1>5. /\ u \in UI /\ u.view = ui.view /\ u.listOK = ui.listOK /\ u.slot = ui.slot
      /\ u.updateOn = ui.updateOn /\ u.override = ui.override /\ u.timer = ui.timer
      /\ u.chain = ui.chain /\ u.aborting = ui.aborting /\ u.dongle = plugged
      /\ u.sel = ui.sel /\ u.panels = ui.panels /\ u.installShown = ui.installShown
  BY <1>3 DEF UI
<1>6. \A s \in SlotIds : /\ ChartOf(u, c)[s].sys = ui.view[c][s].sys
                         /\ ChartOf(u, c)[s].stat = ui.view[c][s].stat
  BY <1>5 DEF ChartOf
<1>7. act.action # "UNKNOWN" => act.slot \in SlotIds
  BY ActiveSlotType
<1>8. LET ch == ChartOf(u, c)
      IN /\ act.action \in {"DOWNLOAD_DONGLE", "DOWNLOAD_SYSTEM"}
            => ch[act.slot].stat = "download" /\ ch[act.slot].sys \in {Me, plugged} \ {None}
         /\ act.action \in {"REQUEST_DONGLE", "REQUEST_SYSTEM"}
            => ch[act.slot].sys \in {Me, plugged} \ {None}
         /\ act.action = "ASSIGN_DONGLE" => plugged # None
  BY <1>3, ActionSlot
<1> HIDE DEF act
<1>9. act.action # "UNKNOWN" =>
      /\ v \in UI /\ v.view = ui.view /\ v.listOK = ui.listOK /\ v.slot = act.slot
      /\ v.updateOn = ui.updateOn /\ v.override = ui.override /\ v.timer = ui.timer
      /\ v.chain = ui.chain /\ v.aborting = ui.aborting /\ v.dongle = plugged
      /\ v.sel = ui.sel /\ v.panels = ui.panels /\ v.installShown = ui.installShown
  BY <1>5, <1>7 DEF UI
<1>10. \/ /\ ui' = u /\ frames' = Modal("box", NoChart, 0, None, frames)
       \/ /\ act.action \in {"DOWNLOAD_DONGLE", "DOWNLOAD_SYSTEM"}
          /\ DownloadGui(v, frames, FALSE)
       \/ /\ act.action \in {"REQUEST_DONGLE", "REQUEST_SYSTEM"}
          /\ ui' = [v EXCEPT !.last = c]
          /\ frames' = Push("call", "prepare", c, act.slot, None, FALSE, frames)
       \/ /\ act.action \in {"ASSIGN_DONGLE", "ASSIGN_SYSTEM"}
          /\ ui' = v
          /\ \/ frames' = Modal("assignConfirm", c, act.slot, n, frames)
             \/ frames' = Modal("uploadFailed", c, act.slot, n, frames)
  BY <1>4 DEF ClickInstall, act
<1> HIDE DEF u, v
\* Whichever it is, it leaves the transfers alone, and the chart selected.
<1>11. ASSUME ui'.view = ui.view, ui'.chain = ui.chain, ui'.aborting = ui.aborting,
              ~ui'.timer, Controls', Handlers', Residue'
       PROVE  CInv'
  <2>1. Account'
    BY <1>1, <1>11, AccountSame DEF CInv, server
  <2>2. Free' /\ Running' = {} /\ Flight' /\ Zips'
    BY <1>1, <1>2, <1>11, FreeSame
  <2>3. Work'
    BY <1>11, <2>2 DEF Work, Free
  <2> QED
    BY <1>11, <2>1, <2>2, <2>3 DEF CInv
<1>12. UNCHANGED <<plugged, srv>> /\ Free'
  BY <1>1, <1>2 DEF server, Free, Running, transfers
<1>13. CASE ui' = u /\ frames' = Modal("box", NoChart, 0, None, frames)
  <2>1. PICK f \in Frame : Is(f, "box", NoChart, 0, None, FALSE) /\ Pushed(frames', f, frames)
    BY <1>2, <1>3, <1>13, ModalFrame DEF Pcs
  <2>2. Nested(frames') /\ Suspended(frames') = {f} /\ f.pc = "box"
    BY <1>2, <2>1 DEF Pushed, Is
  <2>3. Controls'
    BY <1>5, <1>13 DEF CInv, Controls
  <2>4. Handlers'
    BY <2>2 DEF Handlers, Relies, Installing, Polling, Chaining
  <2>5. Residue'
    BY <1>2, <1>5, <1>13 DEF CInv, Residue, Downloading, Free
  <2> QED
    BY <1>2, <1>5, <1>11, <1>13, <2>3, <2>4, <2>5
<1>14. CASE /\ act.action \in {"DOWNLOAD_DONGLE", "DOWNLOAD_SYSTEM"}
            /\ DownloadGui(v, frames, FALSE)
  <2>1. /\ ui.view[c][act.slot].sys \in {Me, plugged} \ {None}
        /\ ui.view[c][act.slot].stat = "download" /\ act.slot \in SlotIds
    BY <1>6, <1>7, <1>8, <1>14
  <2>2. srv[c][act.slot].stat \in {"download", "expired"}
    BY <1>4, <2>1 DEF CInv, Account
  <2>3. /\ ui'.view = ui.view /\ ui'.dongle = plugged /\ ui'.slot = act.slot
        /\ ui'.timer = ui.timer /\ ui'.chain = ui.chain /\ ui'.aborting = ui.aborting
        /\ ui'.sel = c /\ ui'.override = "Downloading..." /\ ~ui'.updateOn
        /\ frames' = Yield("download", NoChart, 0, FALSE, frames)
    <3>1. /\ v \in UI /\ v.sel # NoChart /\ v.listOK /\ v.sel = c /\ v.slot = act.slot
          /\ v.view = ui.view /\ v.dongle = plugged /\ v.timer = ui.timer
          /\ v.chain = ui.chain /\ v.aborting = ui.aborting
          /\ v.view[v.sel][v.slot].sys \in {Me, v.dongle}
      BY <1>4, <1>9, <1>14, <2>1
    <3> HIDE DEF c
    <3> QED
      BY <3>1, <1>14, DownloadGuiTask
  <2>4. PICK f \in Frame : /\ Is(f, "download", NoChart, 0, None, FALSE)
                           /\ Pushed(frames', f, frames)
    BY <1>2, <1>3, <2>3, YieldFrame DEF Pcs
  <2>5. /\ Nested(frames') /\ Suspended(frames') = {f}
        /\ f.pc = "download" /\ ~f.flag
    BY <1>2, <2>4 DEF Pushed, Is
  <2>6. Controls'
    <3>1. \E w \in UI : ui' = UpdateChartList(w)
      <4>1. [v EXCEPT !.cancelShown = TRUE, !.updateOn = FALSE,
                      !.override = "Downloading..."] \in UI
        BY <1>9, <1>14 DEF UI
      <4> QED
        BY <4>1, <1>14 DEF DownloadGui
    <3> QED
      BY <3>1, ChartListControls
  <2>7. Requested' /\ IsDownloadable(ui)'
    BY <1>4, <1>12, <2>1, <2>2, <2>3 DEF Requested, Mine, IsDownloadable
  <2>8. Handlers'
    BY <1>2, <1>4, <1>12, <2>3, <2>5, <2>7 DEF Handlers, Relies, Installing, Polling, Chaining
  <2>9. Residue'
    BY <2>3, <2>5 DEF Residue, Downloading
  <2> QED
    BY <1>2, <1>11, <2>3, <2>6, <2>8, <2>9
<1>15. CASE /\ act.action \in {"REQUEST_DONGLE", "REQUEST_SYSTEM"}
            /\ ui' = [v EXCEPT !.last = c]
            /\ frames' = Push("call", "prepare", c, act.slot, None, FALSE, frames)
  <2>1. ui.view[c][act.slot].sys \in {Me, plugged} \ {None} /\ act.slot \in SlotIds
    BY <1>6, <1>7, <1>8, <1>15
  <2>2. /\ ui'.view = ui.view /\ ui'.dongle = plugged /\ ui'.slot = act.slot
        /\ ui'.timer = ui.timer /\ ui'.chain = ui.chain /\ ui'.aborting = ui.aborting
        /\ ui'.sel = c /\ ui'.override = ui.override /\ ui'.updateOn = ui.updateOn
        /\ ui'.panels = ui.panels /\ ui'.installShown = ui.installShown
        /\ ui'.listOK = ui.listOK
    BY <1>9, <1>15 DEF UI
  <2>3. PICK f \in Frame : /\ Is(f, "prepare", c, act.slot, None, FALSE)
                           /\ Pushed(frames', f, frames)
    BY <1>2, <1>3, <1>4, <1>15, <2>1, PushFrame DEF Pcs
  <2>4. Nested(frames') /\ Suspended(frames') = {f} /\ f.pc = "prepare"
    BY <1>2, <2>3 DEF Pushed, Is
  <2>5. Controls'
    BY <2>2 DEF CInv, Controls
  <2>6. Mine'
    BY <1>4, <1>12, <2>1, <2>2 DEF Mine
  <2>7. Handlers'
    BY <1>2, <1>4, <1>12, <2>2, <2>4, <2>6 DEF Handlers, Relies, Installing, Polling, Chaining
  <2>8. Residue'
    BY <1>2, <2>2 DEF CInv, Residue, Downloading, Free
  <2> QED
    BY <1>2, <1>11, <2>2, <2>5, <2>7, <2>8
<1>16. CASE /\ act.action \in {"ASSIGN_DONGLE", "ASSIGN_SYSTEM"}
            /\ ui' = v
            /\ \/ frames' = Modal("assignConfirm", c, act.slot, n, frames)
               \/ frames' = Modal("uploadFailed", c, act.slot, n, frames)
  <2>1. n \in {Me, plugged} \ {None} /\ n \in Names \cup {None} /\ act.slot \in SlotIds
    BY <1>3, <1>7, <1>8, <1>16
  <2> HIDE DEF n
  <2>2. PICK pc \in {"assignConfirm", "uploadFailed"} :
            frames' = Modal(pc, c, act.slot, n, frames)
    BY <1>16
  <2>3. PICK f \in Frame : Is(f, pc, c, act.slot, n, FALSE) /\ Pushed(frames', f, frames)
    <3>1. pc \in Pcs
      BY <2>2 DEF Pcs
    <3> QED
      BY <3>1, <1>2, <1>3, <1>4, <2>1, <2>2, ModalFrame
  <2>4. /\ Nested(frames') /\ Suspended(frames') = {f} /\ f.pc = pc
        /\ f.chart = c /\ f.slot = act.slot /\ f.name = n
    BY <1>2, <2>3 DEF Pushed, Is
  <2>5. /\ ui'.view = ui.view /\ ui'.dongle = plugged /\ ui'.slot = act.slot
        /\ ui'.timer = ui.timer /\ ui'.chain = ui.chain /\ ui'.aborting = ui.aborting
        /\ ui'.sel = c /\ ui'.override = ui.override /\ ui'.updateOn = ui.updateOn
        /\ ui'.panels = ui.panels /\ ui'.installShown = ui.installShown
        /\ ui'.listOK = ui.listOK
    BY <1>9, <1>16
  <2>6. Controls'
    BY <2>5 DEF CInv, Controls
  <2>7. Handlers'
    BY <1>2, <1>4, <1>12, <2>1, <2>2, <2>4, <2>5
       DEF Handlers, Relies, Installing, Polling, Chaining
  <2>8. Residue'
    BY <1>2, <2>5 DEF CInv, Residue, Downloading, Free
  <2> QED
    BY <1>2, <1>11, <2>5, <2>6, <2>7, <2>8
<1> QED
  BY <1>10, <1>13, <1>14, <1>15, <1>16

-----------------------------------------------------------------------------
\* A suspended handler continues

\* What the handlers below the one that continues are.
LEMMA Below ==
    ASSUME IInv, CInv, frames # <<>>
    PROVE  LET S == Suspended(Tail(frames))
           IN /\ frames[1] \in Frame /\ Relies(frames[1])
              /\ Tail(frames) \in Seq(Frame) /\ Nested(Tail(frames))
              /\ Suspended(frames) = {frames[1]} \cup S
              /\ \A g \in S : /\ g \in Frame /\ Relies(g) /\ ~Installing(g)
                              /\ Rank(g) < Rank(frames[1])
              /\ Installing(frames[1]) \/ Rank(frames[1]) = 1 => S = {}
              /\ Rank(frames[1]) <= 2 => \A g \in S : g.pc \in {"refresh", "box"}
<1> DEFINE S == Suspended(Tail(frames))  top == frames[1]
<1>1. /\ top \in Frame /\ top \in Suspended(frames)
      /\ Tail(frames) \in Seq(Frame) /\ Nested(Tail(frames))
      /\ Suspended(frames) = {top} \cup S
      /\ \A g \in S : g \in Frame /\ Rank(g) < Rank(top)
  BY Typed, TopSuspended DEF CInv, Handlers
<1> HIDE DEF S, top
<1>2. Relies(top) /\ \A g \in S : Relies(g)
  BY <1>1 DEF CInv, Handlers
<1>3. \A g \in S : ~Installing(g) /\ ~Installing(top) /\ Rank(top) # 1
  <2> SUFFICES ASSUME NEW g \in S
               PROVE  ~Installing(g) /\ ~Installing(top) /\ Rank(top) # 1
    OBVIOUS
  <2>1. g # top /\ g \in Suspended(frames) /\ Rank(top) # 1
    BY <1>1 DEF Rank
  <2>2. ~Installing(g) /\ ~Installing(top)
    BY <1>1, <1>2, <2>1 DEF Relies
  <2> QED
    BY <2>1, <2>2
<1>4. ASSUME Rank(top) <= 2, NEW g \in S PROVE g.pc \in {"refresh", "box"}
  <2>1. Rank(g) = 1 /\ ~Installing(g) /\ g.pc # "crash" /\ g \in Frame
    BY <1>1, <1>2, <1>3, <1>4 DEF Rank, Relies
  <2> QED
    BY <2>1 DEF Rank, Installing, Polling, Chaining, Frame, Pcs
<1> QED
  BY <1>1, <1>2, <1>3, <1>4 DEF S, top

\* No handler of the panel is suspended: the parts about handlers are void.
LEMMA NoHandler ==
    ASSUME Suspended(frames)' = {}, Nested(frames)',
           ui'.override = "Downloading..." => \/ (Running # {})' \/ (pending # <<>> /\ ~ui.aborting)',
           ui'.override # "Installing charts",
           ~ui'.updateOn => \/ (Running # {})' \/ (pending # <<>> /\ pending[1].type = "end")'
    PROVE  Handlers' /\ Residue'
BY DEF Handlers, Residue, Downloading

\* The dialogs that end an attempt to install.
LEMMA CalmCloseStep ==
    ASSUME IInv, CInv,
           \/ CloseUploadFailed \/ RefuseAssign \/ CloseAssignFailed \/ ClosePrepareFailed
    PROVE  CInv'
<1>1. /\ frames # <<>> /\ Installing(frames[1]) /\ frames[1].pc # "download"
      /\ frames' = Tail(frames)
      /\ UNCHANGED <<server, pending, transfers, files>>
  BY DEF CloseUploadFailed, RefuseAssign, CloseAssignFailed, ClosePrepareFailed,
         InHandler, Installing
<1>2. /\ Relies(frames[1]) /\ Nested(frames') /\ Suspended(frames') = {}
      /\ Suspended(frames) = {frames[1]}
  BY <1>1, Below
<1>3. Free /\ ~ui.timer
  BY <1>1, <1>2 DEF Relies
<1>4. /\ ui'.view = ui.view /\ ui'.listOK = ui.listOK /\ ui'.sel = ui.sel
      /\ ui'.panels = ui.panels /\ ui'.installShown = ui.installShown
      /\ ui'.updateOn = ui.updateOn /\ ui'.override \in {"", ui.override}
      /\ ui'.chain = ui.chain /\ ui'.aborting = ui.aborting /\ ~ui'.timer
  BY <1>3, Typed DEF CloseUploadFailed, RefuseAssign, CloseAssignFailed, ClosePrepareFailed,
                     StopPreparing, UI
<1>5. Account' /\ Controls'
  <2>1. Account'
    BY <1>1, <1>4, AccountSame DEF CInv, server
  <2>2. Controls'
    BY <1>4 DEF CInv, Controls
  <2> QED
    BY <2>1, <2>2
<1>6. Free' /\ Running' = {} /\ Flight' /\ Zips'
  BY <1>1, <1>3, <1>4, FreeSame
<1>7. Work'
  BY <1>4, <1>6 DEF Work, Free
<1>8. ui.override = "" /\ ui.updateOn
  <2>1. ~Downloading
    BY <1>1, <1>2 DEF Downloading
  <2>2. ui.override \in {"", "Downloading...", "Installing charts"}
    BY Typed DEF UI
  <2>3. ~(\E f \in Suspended(frames) : f.pc \in {"chooseDir", "unzip", "unzipDone"})
    BY <1>1, <1>2 DEF Installing
  <2> QED
    BY <2>1, <2>2, <2>3, <1>3 DEF CInv, Residue, Free
<1>9. Handlers' /\ Residue'
  BY <1>2, <1>4, <1>8, NoHandler
<1> QED
  BY <1>5, <1>6, <1>7, <1>9 DEF CInv

LEMMA CalmCloseBoxStep ==
    ASSUME IInv, CInv, CloseBox
    PROVE  CInv'
<1>1. /\ frames # <<>> /\ frames[1].pc = "box" /\ frames' = Tail(frames)
      /\ UNCHANGED <<server, ui, pending, transfers, files>>
  BY DEF CloseBox, InHandler
<1>2. Nested(frames') /\ Suspended(frames') = {} /\ Suspended(frames) = {frames[1]}
  BY <1>1, Below DEF Rank, Chaining, Polling
<1>3. Account' /\ Controls' /\ Work' /\ Flight' /\ Zips'
  BY <1>1 DEF CInv, Account, Controls, Work, Requested, Mine, Free, Flight, Running, Zips,
              server, transfers, files
<1>4. Handlers' /\ Residue'
  BY <1>1, <1>2 DEF CInv, Handlers, Residue, Downloading, Running, transfers
<1> QED
  BY <1>3, <1>4 DEF CInv

\* The list of the server takes no slot from whoever has it, so the chart set that is
\* worked on stays listed and selected.
LEMMA CalmResumeUpdateStep ==
    ASSUME IInv, CInv, ResumeUpdate
    PROVE  CInv'
<1> DEFINE u == [Listed(ui, srv) EXCEPT !.listOK = TRUE]
<1>1. /\ frames # <<>> /\ frames[1].pc = "refresh"
      /\ UNCHANGED <<server, pending, transfers, files>>
      /\ \/ ui' = UpdateChartList(u) /\ frames' = Tail(frames)
         \/ ui' = ui /\ frames' = Modal("box", NoChart, 0, None, Tail(frames))
  BY DEF ResumeUpdate, Resumes, InHandler
<1>2. /\ Tail(frames) \in Seq(Frame) /\ Nested(Tail(frames)) /\ Suspended(Tail(frames)) = {}
      /\ Suspended(frames) = {frames[1]}
  BY <1>1, Below DEF Rank, Chaining, Polling
<1>3. Running' = Running /\ (Free => Free')
  BY <1>1 DEF Running, Free, transfers
<1>4. CASE ui' = UpdateChartList(u) /\ frames' = Tail(frames)
  <2>1. /\ u \in UI /\ u.view = srv /\ u.listOK /\ u.sel = ui.sel /\ u.dongle = ui.dongle
        /\ u.slot = ui.slot /\ u.updateOn = ui.updateOn /\ u.override = ui.override
        /\ u.timer = ui.timer /\ u.chain = ui.chain /\ u.aborting = ui.aborting
    BY Typed DEF UI, Listed
  <2> HIDE DEF u
  <2>2. /\ SameTask(u, ui')
        /\ \A s \in SlotIds : /\ u.sel # NoChart /\ u.listOK
                              /\ u.view[u.sel][s].sys \in {Me, u.dongle}
                              => ui'.sel = u.sel
    BY <2>1, <1>4, ChartListTask
  <2>3. Controls'
    BY <2>1, <1>4, ChartListControls
  <2>4. Account'
    BY <2>1, <2>2, <1>1, Typed DEF CInv, Account, SameTask, server
  <2>5. ASSUME Requested PROVE ui'.sel = ui.sel /\ Requested'
    <3>1. /\ ui.sel # NoChart /\ ui.sel \in Charts /\ ui.slot \in SlotIds
          /\ ui.view[ui.sel][ui.slot].sys \in {Me, plugged} \ {None}
          /\ ui.dongle = plugged
      BY <2>5, Typed DEF Requested, Mine
    <3>2. srv[ui.sel][ui.slot].sys = ui.view[ui.sel][ui.slot].sys
      BY <3>1 DEF CInv, Account
    <3>3. ui'.sel = ui.sel
      BY <3>1, <3>2, <2>1, <2>2
    <3> QED
      BY <3>1, <3>2, <3>3, <2>1, <2>2, <2>5, <1>1 DEF Requested, Mine, SameTask, server
  <2>6. Work'
    BY <2>1, <2>2, <2>5, <1>1, <1>3 DEF CInv, Work, SameTask
  <2>7. Flight'
    BY <2>1, <2>2, <2>5, <1>1, <1>3 DEF CInv, Work, Flight, SameTask, transfers, files
  <2>8. Handlers' /\ Residue'
    BY <1>1, <1>2, <1>3, <1>4, <2>1, <2>2
       DEF CInv, Handlers, Residue, Downloading, SameTask
  <2> QED
    BY <2>3, <2>4, <2>6, <2>7, <2>8, <1>1 DEF CInv, Zips, files
<1>5. CASE ui' = ui /\ frames' = Modal("box", NoChart, 0, None, Tail(frames))
  <2>1. PICK f \in Frame : /\ Is(f, "box", NoChart, 0, None, FALSE)
                           /\ Pushed(frames', f, Tail(frames))
    BY <1>2, <1>5, ModalFrame DEF Pcs, SlotIds
  <2>2. Nested(frames') /\ Suspended(frames') = {f} /\ f.pc = "box"
    BY <1>2, <2>1 DEF Pushed, Is
  <2>3. Account' /\ Controls' /\ Work' /\ Flight' /\ Zips'
    BY <1>1, <1>3, <1>5 DEF CInv, Account, Controls, Work, Requested, Mine, Free, Flight, Zips,
                server, transfers, files
  <2>4. Handlers'
    BY <2>2 DEF Handlers, Relies, Installing, Polling, Chaining
  <2>5. Residue'
    BY <1>1, <1>2, <1>3, <1>5, <2>2 DEF CInv, Residue, Downloading
  <2> QED
    BY <2>3, <2>4, <2>5 DEF CInv
<1> QED
  BY <1>1, <1>4, <1>5

\* What is known may lag behind a server that keeps what it has said.
LEMMA AccountKept ==
    ASSUME IInv, Account, \A d \in Charts, o \in SlotIds : Kept(srv[d][o], srv'[d][o]),
           ui'.view = ui.view \/ ui'.view = srv'
    PROVE  Account'
BY DEF Account, Kept

\* The slot to be assigned is free at the server, or the assignment fails.
LEMMA CalmConfirmAssignStep ==
    ASSUME IInv, CInv, calm, ConfirmAssign
    PROVE  CInv'
<1> DEFINE c == ui.sel  s == ui.slot  n == frames[1].name
<1>1. /\ frames # <<>> /\ frames[1].pc = "assignConfirm"
      /\ UNCHANGED <<plugged, calm, pending, transfers, files>>
  BY DEF ConfirmAssign, InHandler
<1>2. Installing(frames[1])
  BY <1>1 DEF Installing
<1>3. /\ Relies(frames[1]) /\ frames[1] \in Frame
      /\ Tail(frames) \in Seq(Frame) /\ Nested(Tail(frames)) /\ Suspended(Tail(frames)) = {}
      /\ Suspended(frames) = {frames[1]}
  BY <1>1, <1>2, Below
<1>4. /\ frames[1].chart = c /\ frames[1].slot = s /\ n \in {Me, plugged} \ {None}
      /\ Free /\ ~ui.timer /\ c # NoChart /\ ui.dongle = plugged
  BY <1>1, <1>2, <1>3 DEF Relies
<1>5. c \in Charts /\ s \in SlotIds /\ n \in Names
  BY <1>4, Typed, PanelAssumption DEF Names
<1>6. /\ \/ srv' = srv
         \/ srv[c][s].sys = None /\ srv' = SetSlot(c, s, n, "requestable")
      /\ \/ /\ frames' = Push("call", "prepare", c, s, None, FALSE, Tail(frames))
            /\ srv' = SetSlot(c, s, n, "requestable")
            /\ ui' = [Listed(ui, srv') EXCEPT !.last = c]
         \/ frames' = Modal("assignFailed", c, s, n, Tail(frames)) /\ ui' = ui
  BY <1>4 DEF ConfirmAssign, CanAssign
<1> HIDE DEF n
<1>7. \A d \in Charts, o \in SlotIds : Kept(srv[d][o], srv'[d][o])
  <2>1. \A d \in Charts, o \in SlotIds :
            srv[d][o].sys = None => srv[d][o].stat = "unassigned"
    BY DEF CInv, Account
  <2>2. CASE srv' = srv
    BY <2>1, <2>2 DEF Kept
  <2>3. CASE srv[c][s].sys = None /\ srv' = SetSlot(c, s, n, "requestable")
    <3>1. \A d \in Charts, o \in SlotIds :
              srv'[d][o] = IF d = c /\ o = s THEN [sys |-> n, stat |-> "requestable"]
                           ELSE srv[d][o]
      BY <2>3, <1>5, SetSlotValue
    <3>2. srv[c][s].stat = "unassigned" /\ n # None
      BY <2>1, <2>3, <1>4, <1>5
    <3> QED
      BY <3>1, <3>2, <2>1, <2>3 DEF Kept
  <2> QED
    BY <2>2, <2>3, <1>6
<1>8. /\ ui'.view = ui.view \/ ui'.view = srv'
      /\ ui'.listOK = ui.listOK /\ ui'.dongle = ui.dongle /\ ui'.sel = c /\ ui'.slot = s
      /\ ui'.panels = ui.panels /\ ui'.installShown = ui.installShown
      /\ ui'.updateOn = ui.updateOn /\ ui'.override = ui.override
      /\ ui'.timer = ui.timer /\ ui'.chain = ui.chain /\ ui'.aborting = ui.aborting
  BY <1>6, Typed DEF UI, Listed
<1>9. Account'
  BY <1>7, <1>8, AccountKept DEF CInv
<1>10. Controls'
  BY <1>8 DEF CInv, Controls
<1>11. Free' /\ Running' = {} /\ Flight' /\ Zips'
  BY <1>1, <1>4, <1>8, FreeSame
<1>12. Work'
  BY <1>4, <1>8, <1>11 DEF Work, Free
<1>13. \E f \in Frame : /\ Nested(frames') /\ Suspended(frames') = {f}
                        /\ \/ f.pc = "prepare" /\ Mine'
                           \/ f.pc = "assignFailed"
  <2>1. CASE /\ frames' = Push("call", "prepare", c, s, None, FALSE, Tail(frames))
             /\ srv' = SetSlot(c, s, n, "requestable")
             /\ ui' = [Listed(ui, srv') EXCEPT !.last = c]
    <3>1. PICK f \in Frame : /\ Is(f, "prepare", c, s, None, FALSE)
                             /\ Pushed(frames', f, Tail(frames))
      BY <2>1, <1>3, <1>5, PushFrame DEF Pcs
    <3>2. Nested(frames') /\ Suspended(frames') = {f} /\ f.pc = "prepare"
      BY <3>1, <1>3 DEF Pushed, Is
    <3>3. srv'[c][s].sys = n
      <4>1. SetSlot(c, s, n, "requestable")[c][s] = [sys |-> n, stat |-> "requestable"]
        BY <1>5, SetSlotValue
      <4> QED
        BY <4>1, <2>1
    <3>4. ui'.view = srv'
      BY <2>1, Typed DEF UI, Listed
    <3>5. Mine'
      BY <3>3, <3>4, <1>1, <1>4, <1>8 DEF Mine
    <3> QED
      BY <3>2, <3>5
  <2>2. CASE frames' = Modal("assignFailed", c, s, n, Tail(frames))
    <3>1. PICK f \in Frame : /\ Is(f, "assignFailed", c, s, n, FALSE)
                             /\ Pushed(frames', f, Tail(frames))
      BY <2>2, <1>3, <1>5, ModalFrame DEF Pcs
    <3> QED
      BY <3>1, <1>3 DEF Pushed, Is
  <2> QED
    BY <2>1, <2>2, <1>6
<1>14. PICK f \in Frame : /\ Nested(frames') /\ Suspended(frames') = {f}
                          /\ \/ f.pc = "prepare" /\ Mine'
                             \/ f.pc = "assignFailed"
  BY <1>13
<1>15. Handlers'
  BY <1>1, <1>4, <1>8, <1>11, <1>14 DEF Handlers, Relies, Installing, Polling, Chaining
<1>16. Residue'
  BY <1>1, <1>3, <1>4, <1>8, <1>11, <1>14 DEF CInv, Residue, Downloading, Free
<1> QED
  BY <1>9, <1>10, <1>11, <1>12, <1>15, <1>16 DEF CInv

\* The timer is started for a slot that the server prepares, or has prepared.
LEMMA CalmPrepareStep ==
    ASSUME IInv, CInv, calm, Prepare
    PROVE  CInv'
<1> DEFINE u == [ui EXCEPT !.cancelShown = TRUE, !.count = FirstCount]
           c == ui.sel  s == ui.slot  n == ui.view[c][s].sys
<1>1. /\ frames # <<>> /\ frames[1].pc = "prepare"
      /\ UNCHANGED <<plugged, calm, pending, transfers, files>>
  BY DEF Prepare, InHandler
<1>2. Installing(frames[1])
  BY <1>1 DEF Installing
<1>3. /\ Relies(frames[1])
      /\ Tail(frames) \in Seq(Frame) /\ Nested(Tail(frames)) /\ Suspended(Tail(frames)) = {}
      /\ Suspended(frames) = {frames[1]}
  BY <1>1, <1>2, Below
<1>4. Mine /\ Free /\ ~ui.timer
  BY <1>1, <1>2, <1>3 DEF Relies
<1>5. c # NoChart /\ c \in Charts /\ s \in SlotIds /\ n \in {Me, plugged} \ {None}
  BY <1>4, Typed DEF Mine
<1>6. srv[c][s].sys = n
  BY <1>5 DEF CInv, Account
<1>7. u.view = ui.view /\ u.sel = c /\ u.slot = s
  BY Typed DEF UI
<1>8. \/ /\ ui.view[c][s].stat = "download" /\ srv' = srv
         /\ ui' = [u EXCEPT !.timer = TRUE] /\ frames' = Tail(frames)
      \/ /\ srv[c][s].stat = "requestable" /\ srv' = SetSlot(c, s, n, "processing")
         /\ ui' = [Listed(u, srv') EXCEPT !.timer = TRUE] /\ frames' = Tail(frames)
      \/ /\ \/ srv' = srv
            \/ srv[c][s].stat = "requestable" /\ srv' = SetSlot(c, s, n, "processing")
         /\ ui' = u /\ frames' = Modal("prepareFailed", c, s, None, Tail(frames))
  BY <1>5, <1>7 DEF Prepare, IsDownloadable, CanPrepare
<1>9. \A d \in Charts, o \in SlotIds : Kept(srv[d][o], srv'[d][o])
  <2>1. \A d \in Charts, o \in SlotIds :
            srv[d][o].sys = None => srv[d][o].stat = "unassigned"
    BY DEF CInv, Account
  <2>2. CASE srv' = srv
    BY <2>1, <2>2 DEF Kept
  <2>3. CASE srv[c][s].stat = "requestable" /\ srv' = SetSlot(c, s, n, "processing")
    <3>1. \A d \in Charts, o \in SlotIds :
              srv'[d][o] = IF d = c /\ o = s THEN [sys |-> n, stat |-> "processing"]
                           ELSE srv[d][o]
      BY <2>3, <1>5, SetSlotValue
    <3> HIDE DEF n
    <3>2. ASSUME NEW d \in Charts, NEW o \in SlotIds PROVE Kept(srv[d][o], srv'[d][o])
      <4>1. CASE d = c /\ o = s
        <5>1. srv'[d][o].sys = n /\ srv'[d][o].stat = "processing"
          BY <3>1, <4>1
        <5> QED
          BY <5>1, <4>1, <2>3, <1>5, <1>6 DEF Kept
      <4>2. CASE ~(d = c /\ o = s)
        BY <4>2, <3>1, <2>1 DEF Kept
      <4> QED
        BY <4>1, <4>2
    <3> QED
      BY <3>2
  <2> QED
    BY <2>2, <2>3, <1>8
<1>10. /\ ui'.view = ui.view \/ ui'.view = srv'
       /\ ui'.listOK = ui.listOK /\ ui'.dongle = ui.dongle /\ ui'.sel = c /\ ui'.slot = s
       /\ ui'.panels = ui.panels /\ ui'.installShown = ui.installShown
       /\ ui'.updateOn = ui.updateOn /\ ui'.override = ui.override
       /\ ui'.chain = ui.chain /\ ui'.aborting = ui.aborting
  BY <1>8, Typed DEF UI, Listed
<1>11. Account'
  BY <1>9, <1>10, AccountKept DEF CInv
<1>12. Controls'
  BY <1>10 DEF CInv, Controls
<1>13. Free' /\ Running' = {} /\ Flight' /\ Zips'
  BY <1>1, <1>4, <1>10, FreeSame
<1>14. srv'[c][s].sys = n /\ ui'.view[c][s].sys = n
  <2>1. srv'[c][s].sys = n
    BY <1>5, <1>6, <1>9 DEF Kept
  <2> QED
    BY <2>1, <1>10
<1>15. Mine'
  BY <1>1, <1>4, <1>5, <1>10, <1>14 DEF Mine
<1> HIDE DEF u, n
<1>16. CASE frames' = Tail(frames)
  <2>1. srv'[c][s].stat \in {"processing", "download", "expired"}
    <3>1. CASE ui.view[c][s].stat = "download" /\ srv' = srv
      BY <3>1, <1>5 DEF CInv, Account
    <3>2. CASE srv' = SetSlot(c, s, n, "processing")
      <4>1. SetSlot(c, s, n, "processing")[c][s] = [sys |-> n, stat |-> "processing"]
        BY <1>5, SetSlotValue
      <4> QED
        BY <4>1, <3>2
    <3>3. CASE frames' = Modal("prepareFailed", c, s, None, Tail(frames))
      <4>1. PICK f \in Frame : Pushed(frames', f, Tail(frames))
        BY <3>3, <1>3, <1>5, ModalFrame DEF Pcs
      <4> QED
        BY <4>1, <1>3, <1>16 DEF Pushed
    <3> QED
      BY <3>1, <3>2, <3>3, <1>8
  <2>2. Requested'
    BY <2>1, <1>10, <1>15 DEF Requested
  <2>3. Work'
    BY <2>2, <1>13 DEF Work
  <2>4. Handlers' /\ Residue'
    <3>1. ui.override # "Downloading..." /\ ui.override # "Installing charts" /\ ui.updateOn
      BY <1>1, <1>3, <1>4 DEF CInv, Residue, Downloading, Free
    <3> QED
      BY <3>1, <1>3, <1>10, <1>16, NoHandler
  <2> QED
    BY <2>3, <2>4, <1>11, <1>12, <1>13 DEF CInv
<1>17. CASE ui' = u /\ frames' = Modal("prepareFailed", c, s, None, Tail(frames))
  <2>1. PICK f \in Frame : /\ Is(f, "prepareFailed", c, s, None, FALSE)
                           /\ Pushed(frames', f, Tail(frames))
    BY <1>3, <1>5, <1>17, ModalFrame DEF Pcs
  <2>2. Nested(frames') /\ Suspended(frames') = {f} /\ f.pc = "prepareFailed"
    BY <2>1, <1>3 DEF Pushed, Is
  <2>3. ~ui'.timer
    BY <1>4, <1>17, Typed DEF u, UI
  <2>4. Work'
    BY <2>3, <1>13 DEF Work, Free
  <2>5. Handlers'
    BY <2>2, <2>3, <1>5, <1>13, <1>15 DEF Handlers, Relies, Installing, Polling, Chaining, Mine
  <2>6. Residue'
    BY <1>1, <1>3, <1>4, <1>10 DEF CInv, Residue, Downloading, Free
  <2> QED
    BY <2>4, <2>5, <2>6, <1>11, <1>12, <1>13 DEF CInv
<1> QED
  BY <1>8, <1>16, <1>17

-----------------------------------------------------------------------------
\* The preparation timer

\* The handlers the timer's own may be suspended inside: those of Refresh.
Refreshing(fs) == /\ fs \in Seq(Frame) /\ Nested(fs)
                  /\ \A g \in Suspended(fs) : g.pc \in {"refresh", "box"}

LEMMA RefreshingRank ==
    ASSUME NEW fs, Refreshing(fs), NEW f, Polling(f) \/ Chaining(f)
    PROVE  \A g \in Suspended(fs) : Rank(g) < Rank(f)
BY DEF Refreshing, Rank, Polling, Chaining

\* The end of OnPrepareTimer.
LEMMA TimeoutCheckTask ==
    ASSUME NEW u \in UI, NEW fs, Refreshing(fs), TimeoutCheck(u, fs)
    PROVE  /\ ui'.view = u.view /\ ui'.listOK = u.listOK /\ ui'.dongle = u.dongle
           /\ ui'.slot = u.slot /\ ui'.sel = u.sel /\ ui'.panels = u.panels
           /\ ui'.installShown = u.installShown
           /\ ui'.updateOn = u.updateOn /\ ui'.override = u.override
           /\ ui'.chain = u.chain /\ ui'.aborting = u.aborting
           /\ Nested(frames')
           /\ \/ Suspended(frames') = Suspended(fs) /\ ui'.timer = u.timer
              \/ /\ ~ui'.timer
                 /\ \E f \in Frame : /\ f.pc = "continueWaiting"
                                     /\ Suspended(frames') = {f} \cup Suspended(fs)
<1>1. \/ ui' = u /\ frames' = fs
      \/ ui' = [u EXCEPT !.timer = FALSE] /\ frames' = Modal("continueWaiting", NoChart, 0, None, fs)
  BY DEF TimeoutCheck
<1>2. CASE ui' = u /\ frames' = fs
  BY <1>2 DEF Refreshing
<1>3. CASE /\ ui' = [u EXCEPT !.timer = FALSE]
           /\ frames' = Modal("continueWaiting", NoChart, 0, None, fs)
  <2>1. PICK f \in Frame : /\ Is(f, "continueWaiting", NoChart, 0, None, FALSE)
                           /\ Pushed(frames', f, fs)
    BY <1>3, ModalFrame DEF Refreshing, Pcs, SlotIds
  <2>2. Polling(f) /\ f.pc = "continueWaiting"
    BY <2>1 DEF Is, Polling
  <2>3. Nested(frames') /\ Suspended(frames') = {f} \cup Suspended(fs)
    BY <2>1, <2>2, RefreshingRank DEF Pushed
  <2> QED
    BY <1>3, <2>2, <2>3 DEF UI
<1> QED
  BY <1>1, <1>2, <1>3

\* A status query: the list may be a new one, and the slot polled is still there.
LEMMA CalmPollListed ==
    ASSUME IInv, CInv, Requested, Free, ui.override = "", ui.updateOn,
           UNCHANGED <<server, pending, transfers, files>>,
           NEW u \in UI, u.view = ui.view \/ u.view = srv, u.listOK = ui.listOK,
           u.dongle = ui.dongle, u.slot = ui.slot, u.sel = ui.sel,
           u.updateOn = ui.updateOn, u.override = ui.override,
           u.chain = ui.chain, u.aborting = ui.aborting,
           NEW fs, Refreshing(fs), PollListed(u, fs)
    PROVE  CInv'
<1>1. /\ ui.sel # NoChart /\ ui.sel \in Charts /\ ui.slot \in SlotIds
      /\ ui.view[ui.sel][ui.slot].sys \in {Me, plugged} \ {None}
      /\ ui.dongle = plugged /\ ui.listOK
  BY Typed DEF Requested, Mine, CInv, Controls
<1>2. srv[ui.sel][ui.slot].sys = ui.view[ui.sel][ui.slot].sys
  BY <1>1 DEF CInv, Account
<1>3. /\ ui' = UpdateChartList(u)
      /\ frames' = Yield("pollYield", NoChart, 0, IsDownloadable(u), fs)
  BY <1>1 DEF PollListed
<1>4. u.sel # NoChart /\ u.listOK /\ u.view[u.sel][ui.slot].sys \in {Me, u.dongle}
  BY <1>1, <1>2
<1>5. SameTask(u, ui') /\ ui'.sel = ui.sel
  BY <1>1, <1>3, <1>4, ChartListTask
<1>6. Controls'
  BY <1>3, ChartListControls
<1>7. Account'
  <2>1. srv' = srv /\ Account
    BY DEF server, CInv
  <2>2. CASE ui'.view = ui.view
    BY <2>1, <2>2, AccountSame
  <2>3. CASE ui'.view = srv
    BY <2>1, <2>3 DEF Account
  <2> QED
    BY <2>2, <2>3, <1>5 DEF SameTask
<1>8. Free' /\ Running' = {} /\ Flight' /\ Zips'
  BY <1>5, FreeSame DEF SameTask
<1>9. Requested'
  BY <1>1, <1>2, <1>5 DEF Requested, Mine, SameTask, server
<1>10. Work'
  BY <1>8, <1>9 DEF Work
<1>11. PICK f \in Frame : /\ Is(f, "pollYield", NoChart, 0, None, IsDownloadable(u))
                          /\ Pushed(frames', f, fs)
  <2>1. "pollYield" \in Pcs /\ 0 \in SlotIds /\ IsDownloadable(u) \in BOOLEAN
    BY DEF Pcs, SlotIds, IsDownloadable
  <2> QED
    BY <2>1, <1>3, YieldFrame DEF Refreshing
<1>12. /\ f.pc = "pollYield" /\ f.flag = IsDownloadable(u)
       /\ Nested(frames') /\ Suspended(frames') = {f} \cup Suspended(fs)
  <2>1. f.pc = "pollYield" /\ f.flag = IsDownloadable(u)
    BY <1>11 DEF Is
  <2>2. Polling(f)
    BY <2>1 DEF Polling
  <2> QED
    BY <2>1, <2>2, <1>11, RefreshingRank DEF Pushed
<1>13. IsDownloadable(ui)' = IsDownloadable(u)
  BY <1>5 DEF IsDownloadable, SameTask
<1>14. Handlers'
  <2>1. \A g \in Suspended(fs) : g.pc \in {"refresh", "box"}
    BY DEF Refreshing
  <2> QED
    BY <2>1, <1>8, <1>9, <1>12, <1>13 DEF Handlers, Relies, Installing, Polling, Chaining
<1>15. Residue'
  BY <1>5 DEF Residue, SameTask
<1> QED
  BY <1>6, <1>7, <1>8, <1>10, <1>14, <1>15 DEF CInv

LEMMA CalmTimerTickStep ==
    ASSUME IInv, CInv, calm, TimerTick
    PROVE  CInv'
<1> DEFINE u == [ui EXCEPT !.count = @ + 1]
<1>1. /\ ui.timer /\ ~InTimerHandler
      /\ UNCHANGED <<server, pending, transfers, files>>
      /\ \/ PollListed(Listed(u, srv), frames)
         \/ PollListed(u, frames)
         \/ ui' = u /\ frames' = Modal("pollError", NoChart, 0, None, frames)
         \/ TimeoutCheck(u, frames)
  BY DEF TimerTick
<1>2. Requested /\ Free
  BY <1>1 DEF CInv, Work
<1>3. Refreshing(frames)
  <2> SUFFICES ASSUME NEW g \in Suspended(frames) PROVE g.pc \in {"refresh", "box"}
    BY Typed DEF Refreshing, CInv, Handlers
  <2>1. Relies(g)
    BY DEF CInv, Handlers
  <2>2. ~Installing(g) /\ ~Chaining(g) /\ g.pc # "crash"
    BY <2>1, <1>1 DEF Relies
  <2>3. PICK i \in 1 .. Len(frames) : g = frames[i]
    BY DEF Suspended
  <2>4. frames[i] \in Frame /\ i \in DOMAIN frames
    BY <2>3, Typed, ElementOfSeq, LenProperties
  <2>5. ~Polling(g)
    BY <2>3, <2>4, <1>1 DEF InTimerHandler, Polling
  <2> QED
    BY <2>2, <2>3, <2>4, <2>5 DEF Installing, Chaining, Polling, Frame, Pcs
<1>4. ui.override = "" /\ ui.updateOn
  <2>1. \A g \in Suspended(frames) : g.pc \in {"refresh", "box"}
    BY <1>3 DEF Refreshing
  <2>2. ui.override \in {"", "Downloading...", "Installing charts"}
    BY Typed DEF UI
  <2> QED
    BY <2>1, <2>2, <1>2 DEF CInv, Residue, Downloading, Free
<1>5. /\ u \in UI /\ u.view = ui.view /\ u.listOK = ui.listOK /\ u.dongle = ui.dongle
      /\ u.slot = ui.slot /\ u.sel = ui.sel /\ u.updateOn = ui.updateOn
      /\ u.override = ui.override /\ u.chain = ui.chain /\ u.aborting = ui.aborting
      /\ u.panels = ui.panels /\ u.installShown = ui.installShown /\ u.timer = ui.timer
  <2>1. ui.count + 1 \in 0 .. Timeout + 1
    <3>1. ui.count \in 0 .. Timeout + 1 /\ ui.count <= Timeout
      BY <1>1 DEF IInv, GoodUI, UI
    <3> QED
      BY <3>1, PanelAssumption
  <2> QED
    BY <2>1, Typed DEF UI
<1> DEFINE w == Listed(u, srv)
<1>6. /\ w \in UI /\ w.view = srv /\ w.listOK = ui.listOK /\ w.dongle = ui.dongle
      /\ w.slot = ui.slot /\ w.sel = ui.sel /\ w.updateOn = ui.updateOn
      /\ w.override = ui.override /\ w.chain = ui.chain /\ w.aborting = ui.aborting
  <2> HIDE DEF u
  <2> QED
    BY <1>5, Typed DEF UI, Listed
<1> HIDE DEF u, w
<1>7. CASE PollListed(w, frames)
  BY <1>1, <1>2, <1>3, <1>4, <1>6, <1>7, CalmPollListed
<1>8. CASE PollListed(u, frames)
  BY <1>1, <1>2, <1>3, <1>4, <1>5, <1>8, CalmPollListed
\* The two ways to end without a list leave the panel alone.
<1>9. ASSUME ui'.view = ui.view, ui'.dongle = ui.dongle, ui'.slot = ui.slot,
             ui'.sel = ui.sel, ui'.updateOn = ui.updateOn, ui'.override = ui.override,
             ui'.chain = ui.chain, ui'.aborting = ui.aborting,
             ui'.listOK = ui.listOK, ui'.panels = ui.panels,
             ui'.installShown = ui.installShown
      PROVE  /\ Account' /\ Controls' /\ Work' /\ Flight' /\ Zips' /\ Residue'
             /\ Requested' /\ Free'
  <2>1. Account'
    BY <1>1, <1>9, AccountSame DEF CInv, server
  <2>2. Controls'
    BY <1>9 DEF CInv, Controls
  <2>3. Free' /\ Flight' /\ Zips'
    BY <1>1, <1>2, <1>9, FreeSame
  <2>4. Requested'
    BY <1>1, <1>2, <1>9 DEF Requested, Mine, server
  <2>5. Residue'
    BY <1>4, <1>9 DEF Residue
  <2> QED
    BY <2>1, <2>2, <2>3, <2>4, <2>5 DEF Work
<1>10. CASE ui' = u /\ frames' = Modal("pollError", NoChart, 0, None, frames)
  <2>1. PICK f \in Frame : /\ Is(f, "pollError", NoChart, 0, None, FALSE)
                           /\ Pushed(frames', f, frames)
    BY <1>3, <1>10, ModalFrame DEF Refreshing, Pcs, SlotIds
  <2>2. f.pc = "pollError" /\ Polling(f)
    BY <2>1 DEF Is, Polling
  <2>3. Nested(frames') /\ Suspended(frames') = {f} \cup Suspended(frames)
    BY <2>1, <2>2, <1>3, RefreshingRank DEF Pushed
  <2>4. /\ Account' /\ Controls' /\ Work' /\ Flight' /\ Zips' /\ Residue'
        /\ Requested' /\ Free'
    BY <1>5, <1>9, <1>10
  <2>5. Handlers'
    BY <2>2, <2>3, <2>4, <1>3 DEF Refreshing, Handlers, Relies, Installing, Polling, Chaining
  <2> QED
    BY <2>4, <2>5 DEF CInv
<1>11. CASE TimeoutCheck(u, frames)
  <2>1. /\ ui'.view = ui.view /\ ui'.listOK = ui.listOK /\ ui'.dongle = ui.dongle
        /\ ui'.slot = ui.slot /\ ui'.sel = ui.sel /\ ui'.panels = ui.panels
        /\ ui'.installShown = ui.installShown
        /\ ui'.updateOn = ui.updateOn /\ ui'.override = ui.override
        /\ ui'.chain = ui.chain /\ ui'.aborting = ui.aborting
        /\ Nested(frames')
        /\ \/ Suspended(frames') = Suspended(frames)
           \/ /\ ~ui'.timer
              /\ \E f \in Frame : /\ f.pc = "continueWaiting"
                                  /\ Suspended(frames') = {f} \cup Suspended(frames)
    BY <1>3, <1>5, <1>11, TimeoutCheckTask
  <2>2. /\ Account' /\ Controls' /\ Work' /\ Flight' /\ Zips' /\ Residue'
        /\ Requested' /\ Free'
    BY <2>1, <1>9
  <2>3. Handlers'
    BY <2>1, <2>2, <1>3 DEF Refreshing, Handlers, Relies, Installing, Polling, Chaining
  <2> QED
    BY <2>2, <2>3 DEF CInv
<1> QED
  BY <1>1, <1>7, <1>8, <1>10, <1>11 DEF w

\* The timer's handler continues only inside those of Refresh.
LEMMA PollingBelow ==
    ASSUME IInv, CInv, frames # <<>>, Polling(frames[1])
    PROVE  /\ Relies(frames[1]) /\ Requested /\ Refreshing(Tail(frames))
           /\ Suspended(frames) = {frames[1]} \cup Suspended(Tail(frames))
<1>1. Rank(frames[1]) <= 2
  BY DEF Rank, Polling, Chaining
<1> QED
  BY <1>1, Below DEF Refreshing, Relies

LEMMA CalmClosePollErrorStep ==
    ASSUME IInv, CInv, calm, ClosePollError
    PROVE  CInv'
<1>1. /\ frames # <<>> /\ frames[1].pc = "pollError" /\ PollListed(ui, Tail(frames))
      /\ UNCHANGED <<server, pending, transfers, files>>
  BY DEF ClosePollError, InHandler
<1>2. /\ Relies(frames[1]) /\ Requested /\ Refreshing(Tail(frames))
      /\ Suspended(frames) = {frames[1]} \cup Suspended(Tail(frames))
  BY <1>1, PollingBelow DEF Polling
<1>3. Free
  BY <1>1, <1>2 DEF Relies
<1>4. ui.override = "" /\ ui.updateOn
  <2>1. \A g \in Suspended(frames) : g.pc \in {"refresh", "box", "pollError"}
    BY <1>1, <1>2 DEF Refreshing
  <2>2. ui.override \in {"", "Downloading...", "Installing charts"}
    BY Typed DEF UI
  <2> QED
    BY <2>1, <2>2, <1>3 DEF CInv, Residue, Downloading, Free
<1> QED
  BY <1>1, <1>2, <1>3, <1>4, Typed, CalmPollListed

\* What was ready before the yield still is, since nothing was listed meanwhile.
LEMMA CalmResumePollStep ==
    ASSUME IInv, CInv, calm, ResumePoll
    PROVE  CInv'
<1> DEFINE v == StopPreparing(ui)
<1>1. /\ frames # <<>> /\ frames[1].pc = "pollYield"
      /\ UNCHANGED <<server, pending, transfers, files>>
      /\ IF frames[1].flag THEN DownloadGui(v, Tail(frames), TRUE)
                           ELSE TimeoutCheck(ui, Tail(frames))
  BY DEF ResumePoll, Resumes, InHandler
<1>2. /\ Relies(frames[1]) /\ Requested /\ Refreshing(Tail(frames))
      /\ Suspended(frames) = {frames[1]} \cup Suspended(Tail(frames))
  BY <1>1, PollingBelow DEF Polling
<1>3. Free /\ (frames[1].flag => IsDownloadable(ui))
  BY <1>1, <1>2 DEF Relies
<1>4. ui.override = "" /\ ui.updateOn
  <2>1. \A g \in Suspended(frames) : g.pc \in {"refresh", "box", "pollYield"}
    BY <1>1, <1>2 DEF Refreshing
  <2>2. ui.override \in {"", "Downloading...", "Installing charts"}
    BY Typed DEF UI
  <2> QED
    BY <2>1, <2>2, <1>3 DEF CInv, Residue, Downloading, Free
<1>5. /\ ui.sel # NoChart /\ ui.sel \in Charts /\ ui.slot \in SlotIds /\ ui.listOK
      /\ ui.view[ui.sel][ui.slot].sys \in {Me, plugged} \ {None}
      /\ ui.dongle = plugged
  BY <1>2, Typed DEF Requested, Mine, CInv, Controls
<1>6. /\ v \in UI /\ v.view = ui.view /\ v.listOK = ui.listOK /\ v.dongle = ui.dongle
      /\ v.slot = ui.slot /\ v.sel = ui.sel /\ v.chain = ui.chain
      /\ v.aborting = ui.aborting /\ ~v.timer
  BY Typed DEF UI, StopPreparing
<1> HIDE DEF v
<1>7. CASE DownloadGui(v, Tail(frames), TRUE) /\ frames[1].flag
  <2>1. v.sel # NoChart /\ v.listOK /\ v.view[v.sel][v.slot].sys \in {Me, v.dongle}
    BY <1>5, <1>6
  <2>2. /\ ui'.view = ui.view /\ ui'.dongle = ui.dongle /\ ui'.slot = ui.slot
        /\ ~ui'.timer /\ ui'.chain = ui.chain /\ ui'.aborting = ui.aborting
        /\ ui'.sel = ui.sel /\ ui'.override = "Downloading..." /\ ~ui'.updateOn
        /\ frames' = Yield("download", NoChart, 0, TRUE, Tail(frames))
    BY <2>1, <1>6, <1>7, DownloadGuiTask
  <2>3. PICK f \in Frame : /\ Is(f, "download", NoChart, 0, None, TRUE)
                           /\ Pushed(frames', f, Tail(frames))
    BY <2>2, <1>2, YieldFrame DEF Refreshing, Pcs, SlotIds
  <2>4. f.pc = "download" /\ f.flag /\ Polling(f)
    BY <2>3 DEF Is, Polling
  <2>5. Nested(frames') /\ Suspended(frames') = {f} \cup Suspended(Tail(frames))
    BY <2>3, <2>4, <1>2, RefreshingRank DEF Pushed
  <2>6. Controls'
    <3>1. \E w \in UI : ui' = UpdateChartList(w)
      <4>1. [v EXCEPT !.cancelShown = TRUE, !.updateOn = FALSE,
                      !.override = "Downloading..."] \in UI
        BY <1>6 DEF UI
      <4> QED
        BY <4>1, <1>7 DEF DownloadGui
    <3> QED
      BY <3>1, ChartListControls
  <2>7. Account'
    BY <2>2, <1>1, AccountSame DEF CInv, server
  <2>8. Free' /\ Running' = {} /\ Flight' /\ Zips'
    BY <2>2, <1>1, <1>3, FreeSame
  <2>9. Requested' /\ IsDownloadable(ui)'
    BY <2>2, <1>1, <1>2, <1>3, <1>7 DEF Requested, Mine, IsDownloadable, server
  <2>10. Work'
    BY <2>8, <2>9 DEF Work
  <2>11. Handlers'
    BY <2>2, <2>4, <2>5, <2>8, <2>9, <1>2
       DEF Refreshing, Handlers, Relies, Installing, Polling, Chaining
  <2>12. Residue'
    BY <2>2, <2>4, <2>5 DEF Residue, Downloading
  <2> QED
    BY <2>6, <2>7, <2>8, <2>10, <2>11, <2>12 DEF CInv
<1>8. CASE TimeoutCheck(ui, Tail(frames))
  <2>1. /\ ui'.view = ui.view /\ ui'.listOK = ui.listOK /\ ui'.dongle = ui.dongle
        /\ ui'.slot = ui.slot /\ ui'.sel = ui.sel /\ ui'.panels = ui.panels
        /\ ui'.installShown = ui.installShown
        /\ ui'.updateOn = ui.updateOn /\ ui'.override = ui.override
        /\ ui'.chain = ui.chain /\ ui'.aborting = ui.aborting
        /\ Nested(frames')
        /\ \/ Suspended(frames') = Suspended(Tail(frames))
           \/ /\ ~ui'.timer
              /\ \E f \in Frame : /\ f.pc = "continueWaiting"
                                  /\ Suspended(frames') = {f} \cup Suspended(Tail(frames))
    BY <1>2, <1>8, Typed, TimeoutCheckTask
  <2>2. Account'
    BY <2>1, <1>1, AccountSame DEF CInv, server
  <2>3. Controls'
    BY <2>1 DEF CInv, Controls
  <2>4. Free' /\ Flight' /\ Zips'
    BY <2>1, <1>1, <1>3, FreeSame
  <2>5. Requested'
    BY <2>1, <1>1, <1>2 DEF Requested, Mine, server
  <2>6. Residue'
    BY <2>1, <1>4 DEF Residue
  <2>7. Work'
    BY <2>4, <2>5 DEF Work
  <2>8. Handlers'
    BY <2>1, <2>5, <1>2 DEF Refreshing, Handlers, Relies, Installing, Polling, Chaining
  <2> QED
    BY <2>2, <2>3, <2>4, <2>6, <2>7, <2>8 DEF CInv
<1> QED
  BY <1>1, <1>7, <1>8

\* The timer runs on only if no transfer was started or has an event left.
LEMMA CalmAnswerContinueWaitingStep ==
    ASSUME IInv, CInv, calm, NEW yes \in BOOLEAN, AnswerContinueWaiting(yes)
    PROVE  CInv'
<1>1. /\ frames # <<>> /\ frames[1].pc = "continueWaiting" /\ frames' = Tail(frames)
      /\ UNCHANGED <<server, pending, transfers, files>>
      /\ yes => handle = NoThread /\ pending = <<>>
      /\ ui' = IF yes THEN [ui EXCEPT !.count = 0, !.timer = TRUE] ELSE StopPreparing(ui)
  BY DEF AnswerContinueWaiting, InHandler
<1>2. /\ Relies(frames[1]) /\ Requested /\ Refreshing(Tail(frames))
      /\ Suspended(frames) = {frames[1]} \cup Suspended(Tail(frames))
  BY <1>1, PollingBelow DEF Polling
<1>3. /\ ui'.view = ui.view /\ ui'.listOK = ui.listOK /\ ui'.dongle = ui.dongle
      /\ ui'.slot = ui.slot /\ ui'.sel = ui.sel /\ ui'.panels = ui.panels
      /\ ui'.installShown = ui.installShown
      /\ ui'.updateOn = ui.updateOn /\ ui'.override = ui.override
      /\ ui'.chain = ui.chain /\ ui'.aborting = ui.aborting
      /\ ui'.timer => yes
  BY <1>1, Typed DEF UI, StopPreparing
<1>4. yes => Free
  <2> SUFFICES ASSUME yes PROVE Running = {}
    BY <1>1 DEF Free
  <2>1. \A t \in Running : handle = t /\ t \in Tids
    BY DEF CInv, Flight, Running
  <2> QED
    BY <2>1, <1>1, Typed
<1>5. Account'
  BY <1>1, <1>3, AccountSame DEF CInv, server
<1>6. Controls'
  BY <1>3 DEF CInv, Controls
<1>7. Running' = Running /\ (Free => Free') /\ Requested'
  BY <1>1, <1>2, <1>3 DEF Running, Free, Requested, Mine, transfers, server
<1>8. Work'
  BY <1>3, <1>4, <1>7 DEF Work
<1>9. Flight' /\ Zips'
  BY <1>1, <1>3, <1>7 DEF CInv, Flight, Zips, transfers, files
<1>10. Handlers'
  BY <1>1, <1>2 DEF Refreshing, Handlers, Relies, Installing, Polling, Chaining
<1>11. Residue'
  BY <1>1, <1>2, <1>3, <1>7 DEF CInv, Residue, Downloading
<1> QED
  BY <1>5, <1>6, <1>8, <1>9, <1>10, <1>11 DEF CInv

-----------------------------------------------------------------------------
\* Downloads

\* The transfer is of the slot worked on, as nothing was listed during the yield.
LEMMA CalmStartDownloadStep ==
    ASSUME IInv, CInv, calm, StartDownload
    PROVE  CInv'
<1> DEFINE u == [ui EXCEPT !.chain = TRUE, !.aborting = FALSE]
           file == <<ui.sel, ui.slot>>
           top == frames[1]
<1>1. frames # <<>> /\ top.pc = "download"
  BY DEF StartDownload, Resumes, InHandler
<1>2. /\ top \in Frame /\ Relies(top) /\ Refreshing(Tail(frames))
      /\ Suspended(frames) = {top} \cup Suspended(Tail(frames))
  <2>1. Rank(top) <= 2
    BY <1>1 DEF Rank, Chaining
  <2> QED
    BY <1>1, <2>1, Below DEF Refreshing
<1>3. /\ Requested /\ Free /\ ~ui.timer /\ IsDownloadable(ui)
      /\ ui.override = "Downloading..." /\ ~ui.updateOn
  BY <1>1, <1>2 DEF Relies
<1>4. ui.sel # NoChart /\ ui.sel \in Charts /\ ui.slot \in SlotIds
  BY <1>3, Typed DEF Requested, Mine
<1>5. /\ u \in UI /\ u.view = ui.view /\ u.listOK = ui.listOK /\ u.dongle = ui.dongle
      /\ u.slot = ui.slot /\ u.sel = ui.sel /\ u.updateOn = ui.updateOn
      /\ u.override = ui.override /\ u.panels = ui.panels
      /\ u.installShown = ui.installShown /\ ~u.timer /\ u.chain /\ ~u.aborting
  BY <1>3, Typed DEF UI
<1>6. IsDownloadable(u) /\ LinksOf(u) = {file}
  BY <1>3, <1>5 DEF IsDownloadable, LinksOf, LinkOf
<1>7. /\ IF top.flag THEN TimeoutCheck(u, Tail(frames)) ELSE ui' = u /\ frames' = Tail(frames)
      /\ \E t \in Tids, r \in Replies :
            /\ threads' = [threads EXCEPT ![t] = [file |-> file, reply |-> r, open |-> TRUE]]
            /\ handle' = t /\ stream' = t
            /\ dlFile' = [dlFile EXCEPT ![ui.sel] = file]
      /\ UNCHANGED <<server, pending, target, dlPath, installed>>
  <2>1. \E t \in Tids \ Running, r \in Replies : \E f \in LinksOf(u) :
            /\ threads' = [threads EXCEPT ![t] = [file |-> f, reply |-> r, open |-> TRUE]]
            /\ handle' = t /\ stream' = t
            /\ dlFile' = [dlFile EXCEPT ![ui.sel] = f]
    BY <1>4, <1>6 DEF StartDownload
  <2>2. IF top.flag THEN TimeoutCheck(u, Tail(frames)) ELSE ui' = u /\ frames' = Tail(frames)
    BY <1>4, <1>6 DEF StartDownload
  <2>3. UNCHANGED <<server, pending, target, dlPath, installed>>
    BY DEF StartDownload
  <2> HIDE DEF u, file, top
  <2> QED
    BY <2>1, <2>2, <2>3, <1>6
<1> HIDE DEF u
<1>8. /\ ui'.view = ui.view /\ ui'.listOK = ui.listOK /\ ui'.dongle = ui.dongle
      /\ ui'.slot = ui.slot /\ ui'.sel = ui.sel /\ ui'.panels = ui.panels
      /\ ui'.installShown = ui.installShown /\ ui'.updateOn = ui.updateOn
      /\ ui'.override = ui.override /\ ui'.chain /\ ~ui'.aborting /\ ~ui'.timer
      /\ Nested(frames')
      /\ \/ Suspended(frames') = Suspended(Tail(frames))
         \/ \E f \in Frame : /\ f.pc = "continueWaiting"
                             /\ Suspended(frames') = {f} \cup Suspended(Tail(frames))
  <2>1. CASE ui' = u /\ frames' = Tail(frames)
    BY <2>1, <1>2, <1>5 DEF Refreshing
  <2>2. CASE TimeoutCheck(u, Tail(frames))
    BY <2>2, <1>2, <1>5, TimeoutCheckTask
  <2> QED
    BY <2>1, <2>2, <1>7
<1>9. PICK t \in Tids : /\ Running' = {t} /\ handle' = t /\ stream' = t
                        /\ threads'[t].file = file /\ dlFile'[ui.sel] = file
  <2>1. PICK t \in Tids, r \in Replies :
            /\ threads' = [threads EXCEPT ![t] = [file |-> file, reply |-> r, open |-> TRUE]]
            /\ handle' = t /\ stream' = t
            /\ dlFile' = [dlFile EXCEPT ![ui.sel] = file]
    BY <1>7
  <2>2. dlFile'[ui.sel] = file
    BY <2>1, <1>4, Typed
  <2>3. threads'[t] = [file |-> file, reply |-> r, open |-> TRUE] /\ t \in Tids
    BY <2>1, Typed
  <2>4. file # NoFile
    BY <1>4, Typed
  <2> HIDE DEF file
  <2>5. threads'[t].file = file /\ threads'[t] # Idle
    BY <2>3, <2>4 DEF Idle
  <2>6. \A o \in Tids \ {t} : threads'[o] = threads[o] /\ threads[o] = Idle
    BY <2>1, <1>3, Typed DEF Free, Running
  <2>7. Running' = {t}
    BY <2>3, <2>5, <2>6 DEF Running
  <2> QED
    BY <2>1, <2>2, <2>5, <2>7
<1>10. pending' = <<>> /\ srv' = srv /\ plugged' = plugged
  BY <1>3, <1>7 DEF Free, server
<1>11. Account' /\ Controls'
  <2>1. Account'
    BY <1>8, <1>10, AccountSame DEF CInv
  <2>2. Controls'
    BY <1>8 DEF CInv, Controls
  <2> QED
    BY <2>1, <2>2
<1>12. Requested'
  BY <1>3, <1>8, <1>10 DEF Requested, Mine
<1>13. Work'
  BY <1>8, <1>12 DEF Work
<1>14. Flight'
  <2>1. Len(pending') = 0
    BY <1>10
  <2> QED
    BY <2>1, <1>3, <1>8, <1>9, <1>10 DEF Flight
<1>15. Handlers'
  BY <1>2, <1>8, <1>12 DEF Refreshing, Handlers, Relies, Installing, Polling, Chaining
<1>16. Residue'
  BY <1>3, <1>8, <1>9 DEF Residue
<1>17. Zips'
  BY <1>7 DEF CInv, Zips
<1> QED
  BY <1>11, <1>13, <1>14, <1>15, <1>16, <1>17 DEF CInv

\* A queue with one event.
LEMMA OneEvent ==
    ASSUME NEW q \in Seq(Event), q # <<>>, Len(q) <= 1
    PROVE  Len(q) = 1 /\ Head(q) = q[1] /\ Tail(q) = <<>>
<1>1. Len(q) \in Nat \ {0}
  BY EmptySeq, LenProperties
<1>2. Len(q) = 1
  BY <1>1
<1>3. Head(q) = q[1] /\ Tail(q) \in Seq(Event) /\ Len(Tail(q)) = 0
  BY <1>2, HeadTailProperties
<1>4. Tail(q) = <<>>
  BY <1>3, EmptySeq
<1> QED
  BY <1>2, <1>3, <1>4

LEMMA PostedAlone ==
    ASSUME NEW e
    PROVE  Append(<<>>, e) = <<e>> /\ Len(<<e>>) = 1 /\ <<e>>[1] = e
OBVIOUS

\* While an event waits to be handled, few handlers are suspended.
LEMMA EventWaits ==
    ASSUME IInv, CInv, pending # <<>>
    PROVE  /\ Running = {} /\ Requested /\ ~ui.timer /\ ui.sel \in Charts
           /\ pending \in Seq(Event) /\ Len(pending) = 1 /\ Head(pending) = pending[1]
           /\ Tail(pending) = <<>>
           /\ \A g \in Suspended(frames) : g.pc \in {"refresh", "box", "continueWaiting"}
           /\ ui.chain
<1>1. Running = {} /\ Requested /\ ~ui.timer /\ ~Free
  BY DEF CInv, Flight, Work, Free
<1>2. Len(pending) = 1 /\ Head(pending) = pending[1] /\ Tail(pending) = <<>>
  BY Typed, OneEvent DEF CInv, Flight
<1>3. ASSUME NEW g \in Suspended(frames)
      PROVE  g.pc \in {"refresh", "box", "continueWaiting"}
  <2>1. Relies(g) /\ g \in Frame
    <3>1. PICK i \in 1 .. Len(frames) : g = frames[i]
      BY DEF Suspended
    <3> QED
      BY <3>1, Typed, ElementOfSeq DEF CInv, Handlers
  <2>2. g.pc # "crash" /\ ~Installing(g) /\ ~Chaining(g)
        /\ g.pc \notin {"pollError", "pollYield", "download"}
    BY <2>1, <1>1 DEF Relies
  <2> QED
    BY <2>1, <2>2 DEF Installing, Chaining, Frame, Pcs
<1>4. ui.sel \in Charts /\ ui.chain
  BY <1>1, Typed DEF Requested, Mine, CInv, Flight
<1> QED
  BY <1>1, <1>2, <1>3, <1>4, Typed

\* The end of a transfer: a cancelled file goes, and Refresh comes back.
LEMMA CalmHandleEndStep ==
    ASSUME IInv, CInv, calm, HandleEnd
    PROVE  CInv'
<1> DEFINE e == [type |-> "chain", size |-> Size(Idle)]  file == <<ui.sel, ui.slot>>
<1>1. /\ pending # <<>> /\ Head(pending).type = "end" /\ ui' = TransferEnded(ui)
      /\ handle' = NoThread /\ stream' = NoThread
      /\ threads' = IF stream # NoThread /\ threads[stream] # Idle
                    THEN [threads EXCEPT ![stream].open = FALSE] ELSE threads
      /\ pending' = Append(Tail(pending), e)
      /\ UNCHANGED <<server, frames, dlPath, installed>>
  BY DEF HandleEnd, NextEvent
<1>2. /\ Running = {} /\ Requested /\ ~ui.timer /\ ui.sel \in Charts /\ ui.chain
      /\ Tail(pending) = <<>> /\ pending[1].type = "end"
      /\ \A g \in Suspended(frames) : g.pc \in {"refresh", "box", "continueWaiting"}
  BY <1>1, EventWaits
<1>3. /\ IF ui.aborting THEN /\ disk' = Discard(dlFile[ui.sel])
                             /\ dlFile' = [dlFile EXCEPT ![ui.sel] = NoFile]
                        ELSE UNCHANGED <<disk, dlFile>>
      /\ dlFile[ui.sel] = file /\ file \in Files /\ file # NoFile
  <2>1. ui.sel # NoChart /\ file \in Files /\ file # NoFile
    BY <1>2, Typed
  <2>2. dlFile[ui.sel] = file
    BY <1>1, <1>2 DEF CInv, Flight
  <2> HIDE DEF file
  <2> QED
    BY <2>1, <2>2 DEF HandleEnd
<1>4. Running' = {} /\ threads' = threads
  <2>1. \A o \in Tids : threads[o] = Idle
    BY <1>2 DEF Running
  <2>2. threads' = threads
    BY <2>1, <1>1, Typed
  <2> QED
    BY <2>2, <1>2 DEF Running
<1>5. pending' # <<>> /\ Len(pending') = 1 /\ pending'[1].type = "chain"
  <2>1. e.type = "chain"
    BY DEF e
  <2> HIDE DEF e
  <2>2. pending' = Append(<<>>, e)
    BY <1>1, <1>2
  <2>3. pending' = <<e>>
    BY <2>2, PostedAlone
  <2> QED
    BY <2>1, <2>3, PostedAlone
<1> HIDE DEF e
<1>6. /\ ui'.view = ui.view /\ ui'.listOK = ui.listOK /\ ui'.dongle = ui.dongle
      /\ ui'.slot = ui.slot /\ ui'.sel = ui.sel /\ ui'.panels = ui.panels
      /\ ui'.installShown = ui.installShown /\ ui'.updateOn
      /\ ui'.override = ui.override /\ ui'.chain = ui.chain
      /\ ui'.aborting = ui.aborting /\ ~ui'.timer
  BY <1>1, <1>2, Typed DEF UI, TransferEnded
<1>7. srv' = srv /\ plugged' = plugged
  BY <1>1 DEF server
<1>8. Account' /\ Controls'
  <2>1. Account'
    BY <1>6, <1>7, AccountSame DEF CInv
  <2>2. Controls'
    BY <1>6 DEF CInv, Controls
  <2> QED
    BY <2>1, <2>2
<1>9. Requested'
  BY <1>2, <1>6, <1>7 DEF Requested, Mine
<1>10. Work'
  BY <1>6, <1>9 DEF Work
<1>11. IF ui.aborting THEN dlFile'[ui.sel] = NoFile /\ disk'[file] = "absent"
                      ELSE dlFile'[ui.sel] = file
  <2> HIDE DEF file
  <2>1. CASE ui.aborting
    <3>1. disk' = [disk EXCEPT ![file] = "absent"] /\ dlFile' = [dlFile EXCEPT ![ui.sel] = NoFile]
      BY <2>1, <1>3 DEF Discard
    <3> QED
      BY <2>1, <3>1, <1>2, <1>3, Typed
  <2>2. CASE ~ui.aborting
    BY <2>2, <1>3
  <2> QED
    BY <2>1, <2>2
<1>12. Flight'
  <2>1. IF ui'.aborting /\ pending'[1].type = "chain"
        THEN dlFile'[ui'.sel] = NoFile /\ disk'[<<ui'.sel, ui'.slot>>] = "absent"
        ELSE dlFile'[ui'.sel] = <<ui'.sel, ui'.slot>>
    BY <1>5, <1>6, <1>11
  <2> HIDE DEF file
  <2>2. Len(pending') <= 1
    BY <1>5
  <2>3. handle' = NoThread /\ ui'.chain
    BY <1>1, <1>2, <1>6, Zenon
  <2> QED
    BY <2>1, <2>2, <2>3, <1>4, <1>5 DEF Flight
<1>13. Handlers'
  BY <1>1, <1>2, <1>6, <1>9 DEF CInv, Handlers, Relies, Installing, Polling, Chaining
<1>14. Residue'
  BY <1>1, <1>2, <1>4, <1>5, <1>6 DEF CInv, Residue, Downloading
<1>15. Zips'
  BY <1>1 DEF CInv, Zips
<1> QED
  BY <1>8, <1>10, <1>12, <1>13, <1>14, <1>15 DEF CInv

-----------------------------------------------------------------------------
\* Installation

\* What a handler of the end of a transfer is suspended in.
ChainingTask ==
    /\ Requested /\ Free /\ ~ui.timer /\ ui.updateOn /\ ui.override # "Downloading..."
    /\ ui.sel \in Charts /\ ui.listOK
    /\ \A g \in Suspended(Tail(frames)) :
          g \in Frame /\ Relies(g) /\ ~Installing(g) /\ ~Chaining(g) /\ g.pc # "download"

LEMMA ChainingBelow ==
    ASSUME IInv, CInv, frames # <<>>, Chaining(frames[1])
    PROVE  /\ ChainingTask
           /\ frames[1] \in Frame /\ Relies(frames[1])
           /\ Tail(frames) \in Seq(Frame) /\ Nested(Tail(frames))
           /\ \A g \in Suspended(Tail(frames)) : Rank(g) < 3
           /\ frames[1].pc \in {"endBox", "proceed"} => ui.override # "Installing charts"
<1> DEFINE S == Suspended(Tail(frames))  top == frames[1]
<1>1. /\ top \in Frame /\ Relies(top) /\ Tail(frames) \in Seq(Frame) /\ Nested(Tail(frames))
      /\ Suspended(frames) = {top} \cup S /\ Rank(top) = 3
      /\ \A g \in S : g \in Frame /\ Relies(g) /\ ~Installing(g) /\ Rank(g) < 3
  BY Below DEF Rank
<1> HIDE DEF S, top
<1>2. Requested /\ Free /\ ~ui.timer /\ ~Downloading
  BY <1>1 DEF Relies, top
<1>3. ui.updateOn /\ ui.override # "Downloading..."
  BY <1>2 DEF CInv, Residue, Free
<1>4. ui.sel \in Charts /\ ui.listOK
  BY <1>2, Typed DEF Requested, Mine, CInv, Controls
<1>5. \A g \in S : ~Chaining(g) /\ g.pc # "download"
  BY <1>1, <1>2 DEF Rank, Downloading
<1>6. ASSUME top.pc \in {"endBox", "proceed"} PROVE ui.override # "Installing charts"
  <2>1. \A g \in Suspended(frames) : g.pc \notin {"chooseDir", "unzip", "unzipDone"}
    BY <1>1, <1>5, <1>6 DEF Chaining
  <2> QED
    BY <2>1 DEF CInv, Residue
<1> QED
  BY <1>1, <1>2, <1>3, <1>4, <1>5, <1>6 DEF S, top, ChainingTask

\* A step of such a handler, whichever dialog it leads to.
LEMMA ChainingStep ==
    ASSUME IInv, CInv, ChainingTask,
           UNCHANGED <<server, pending, transfers, dlFile, dlPath>>, Zips', Controls',
           ui'.view = ui.view, ui'.sel = ui.sel, ui'.slot = ui.slot, ui'.dongle = ui.dongle,
           ui'.updateOn, ~ui'.timer, ui'.chain = ui.chain, ui'.aborting = ui.aborting,
           Nested(frames'),
           \/ Suspended(frames') = Suspended(Tail(frames)) /\ ui'.override = ""
           \/ /\ ui'.override \in {"", "Installing charts"}
              /\ \E f \in Frame : /\ f.pc \in {"chooseDir", "unzip", "unzipDone"}
                                  /\ Suspended(frames') = {f} \cup Suspended(Tail(frames))
    PROVE  CInv'
<1> DEFINE S == Suspended(Tail(frames))
<1>1. /\ Requested /\ Free
      /\ \A g \in S : /\ g \in Frame /\ Relies(g) /\ ~Installing(g) /\ ~Chaining(g)
                      /\ g.pc # "download"
  BY DEF ChainingTask
<1>2. srv' = srv /\ plugged' = plugged
  BY DEF server
<1>3. Account'
  BY AccountSame, <1>2 DEF CInv
<1>4. Requested'
  BY <1>1, <1>2 DEF Requested, Mine
<1>5. Free' /\ Running' = {} /\ pending' = <<>> /\ handle' = NoThread
  BY <1>1 DEF Free, Running, transfers
<1>6. Work'
  BY <1>5 DEF Work
<1>7. Flight'
  <2>1. Len(pending') <= 1
    BY <1>1 DEF CInv, Flight
  <2>2. ~ui'.chain /\ ~ui'.aborting
    BY <1>1 DEF CInv, Flight, Free
  <2> QED
    BY <2>1, <2>2, <1>5 DEF Flight
<1>8. ~Downloading'
  BY <1>1 DEF Downloading
<1>9. \A g \in S : Relies(g)'
  BY <1>1, <1>4, <1>5 DEF Relies, IsDownloadable, Installing, Polling, Chaining
<1>10. \A f \in Frame : f.pc \in {"chooseDir", "unzip", "unzipDone"} => Relies(f)'
  BY <1>4, <1>5, <1>8 DEF Relies, Chaining, Polling, Installing
<1> HIDE DEF S
<1>11. Handlers'
  <2>1. \A f \in Suspended(frames') :
            f \in S \/ (f \in Frame /\ f.pc \in {"chooseDir", "unzip", "unzipDone"})
    BY DEF S
  <2> QED
    BY <2>1, <1>9, <1>10 DEF Handlers
<1>12. Residue'
  BY <1>8 DEF Residue
<1> QED
  BY <1>3, <1>6, <1>7, <1>11, <1>12 DEF CInv

\* A dialog, or the yield of the extraction, on top of what the handler is suspended in.
LEMMA ChainingPush ==
    ASSUME NEW pc \in {"endBox", "proceed", "chooseDir", "unzip", "unzipDone"},
           NEW c \in Charts \cup {NoChart}, NEW s \in SlotIds,
           NEW fs \in Seq(Frame), Nested(fs), \A g \in Suspended(fs) : Rank(g) < 3,
           \/ frames' = Modal(pc, c, s, None, fs)
           \/ frames' = Yield(pc, c, s, FALSE, fs)
    PROVE  /\ Nested(frames')
           /\ \E f \in Frame : f.pc = pc /\ Suspended(frames') = {f} \cup Suspended(fs)
<1>1. pc \in Pcs /\ None \in Names \cup {None} /\ FALSE \in BOOLEAN
  BY DEF Pcs
<1>2. PICK f \in Frame : Is(f, pc, c, s, None, FALSE) /\ Pushed(frames', f, fs)
  BY <1>1, ModalFrame, YieldFrame
<1>3. f.pc = pc /\ Rank(f) = 3
  BY <1>2 DEF Is, Rank, Chaining
<1> QED
  BY <1>2, <1>3 DEF Pushed

\* "Download cancelled" or "missing file".
LEMMA CalmCloseEndBoxStep ==
    ASSUME IInv, CInv, CloseEndBox
    PROVE  CInv'
<1>1. /\ frames # <<>> /\ frames[1].pc = "endBox" /\ frames' = Tail(frames)
      /\ ui' = [ui EXCEPT !.installOn = TRUE]
      /\ UNCHANGED <<server, pending, transfers, files>>
  BY DEF CloseEndBox, InHandler
<1>2. /\ ChainingTask /\ Nested(Tail(frames)) /\ ui.override # "Installing charts"
      /\ ui.override # "Downloading..."
  BY <1>1, ChainingBelow DEF Chaining, ChainingTask
<1>3. /\ ui'.view = ui.view /\ ui'.sel = ui.sel /\ ui'.slot = ui.slot
      /\ ui'.dongle = ui.dongle /\ ui'.panels = ui.panels /\ ui'.listOK = ui.listOK
      /\ ui'.installShown = ui.installShown
      /\ ui'.updateOn /\ ~ui'.timer /\ ui'.chain = ui.chain /\ ui'.aborting = ui.aborting
      /\ ui'.override = ""
  BY <1>1, <1>2, Typed DEF UI, ChainingTask
<1>4. Controls' /\ Zips'
  BY <1>1, <1>3 DEF CInv, Controls, Zips, files
<1> QED
  BY <1>1, <1>2, <1>3, <1>4, ChainingStep DEF files

LEMMA CalmAnswerProceedStep ==
    ASSUME IInv, CInv, NEW yes \in BOOLEAN, AnswerProceed(yes)
    PROVE  CInv'
<1>1. /\ frames # <<>> /\ frames[1].pc = "proceed"
      /\ UNCHANGED <<server, pending, transfers, files>>
      /\ \/ /\ ui' = [ui EXCEPT !.override = "Installing charts"]
            /\ frames' = Modal("chooseDir", frames[1].chart, ui.slot, None, Tail(frames))
         \/ ui' = [ui EXCEPT !.installOn = TRUE] /\ frames' = Tail(frames)
  BY DEF AnswerProceed, InHandler
<1>2. /\ ChainingTask /\ ui.override # "Installing charts" /\ frames[1] \in Frame
      /\ Tail(frames) \in Seq(Frame) /\ Nested(Tail(frames))
      /\ \A g \in Suspended(Tail(frames)) : Rank(g) < 3
  BY <1>1, ChainingBelow DEF Chaining
<1>3. ui.override = ""
  BY <1>2, Typed DEF UI, ChainingTask
<1>4. /\ ui'.view = ui.view /\ ui'.sel = ui.sel /\ ui'.slot = ui.slot
      /\ ui'.dongle = ui.dongle /\ ui'.panels = ui.panels /\ ui'.listOK = ui.listOK
      /\ ui'.installShown = ui.installShown
      /\ ui'.updateOn /\ ~ui'.timer /\ ui'.chain = ui.chain /\ ui'.aborting = ui.aborting
  BY <1>1, <1>2, Typed DEF UI, ChainingTask
<1>5. Controls' /\ Zips'
  BY <1>1, <1>4 DEF CInv, Controls, Zips, files
<1>6. CASE ui' = [ui EXCEPT !.installOn = TRUE] /\ frames' = Tail(frames)
  <2>1. ui'.override = ""
    BY <1>3, <1>6, Typed DEF UI
  <2> QED
    BY <2>1, <1>1, <1>2, <1>4, <1>5, <1>6, ChainingStep DEF files
<1>7. CASE /\ ui' = [ui EXCEPT !.override = "Installing charts"]
           /\ frames' = Modal("chooseDir", frames[1].chart, ui.slot, None, Tail(frames))
  <2>1. ui'.override = "Installing charts"
    BY <1>7, Typed DEF UI
  <2>2. frames[1].chart \in Charts \cup {NoChart} /\ ui.slot \in SlotIds
    BY <1>2, Typed DEF Frame
  <2>3. /\ Nested(frames')
        /\ \E f \in Frame : /\ f.pc = "chooseDir"
                            /\ Suspended(frames') = {f} \cup Suspended(Tail(frames))
    BY <1>2, <1>7, <2>2, ChainingPush
  <2> QED
    BY <2>1, <2>3, <1>1, <1>2, <1>4, <1>5, ChainingStep DEF files
<1> QED
  BY <1>1, <1>6, <1>7

\* What follows the installation: the chart set stays listed and selected.
LEMMA AfterUnzipTask ==
    ASSUME IInv, CInv, ChainingTask, UNCHANGED server, NEW fs, AfterUnzip(fs)
    PROVE  /\ Controls' /\ frames' = fs
           /\ ui'.view = ui.view /\ ui'.sel = ui.sel /\ ui'.slot = ui.slot
           /\ ui'.dongle = ui.dongle /\ ui'.updateOn /\ ~ui'.timer
           /\ ui'.chain = ui.chain /\ ui'.aborting = ui.aborting /\ ui'.override = ""
<1> DEFINE u == [ui EXCEPT !.override = ""]
           v == UpdateChartList(u)
<1>1. ui' = [v EXCEPT !.installOn = TRUE] /\ frames' = fs
  BY DEF AfterUnzip
<1>2. /\ u \in UI /\ u.view = ui.view /\ u.listOK = ui.listOK /\ u.sel = ui.sel
      /\ u.slot = ui.slot /\ u.dongle = ui.dongle /\ u.updateOn = ui.updateOn
      /\ u.timer = ui.timer /\ u.override = "" /\ u.chain = ui.chain
      /\ u.aborting = ui.aborting /\ (u.timer => u.count <= Timeout)
  BY Typed DEF UI, ChainingTask
<1> HIDE DEF u
<1>3. GoodUI(v)
  BY <1>2, ChartListGood
<1>4. /\ SameTask(u, v) /\ (v.installShown => v.sel # NoChart) /\ (v.panels # {} => v.listOK)
      /\ \A s \in SlotIds : /\ u.sel # NoChart /\ u.listOK
                            /\ u.view[u.sel][s].sys \in {Me, u.dongle}
                            => v.sel = u.sel
  BY <1>2, ChartListTask
<1> HIDE DEF v
<1>5. v.sel = u.sel
  <2>1. /\ ui.sel # NoChart /\ ui.listOK /\ ui.slot \in SlotIds
        /\ ui.view[ui.sel][ui.slot].sys \in {Me, ui.dongle}
    BY Typed DEF ChainingTask, Requested, Mine
  <2> QED
    BY <2>1, <1>2, <1>4
<1>6. /\ ui'.view = v.view /\ ui'.sel = v.sel /\ ui'.slot = v.slot /\ ui'.dongle = v.dongle
      /\ ui'.updateOn = v.updateOn /\ ui'.timer = v.timer /\ ui'.override = v.override
      /\ ui'.chain = v.chain /\ ui'.aborting = v.aborting /\ ui'.listOK = v.listOK
      /\ ui'.panels = v.panels /\ ui'.installShown = v.installShown
  BY <1>1, <1>3 DEF GoodUI, UI
<1>7. Controls'
  BY <1>4, <1>6 DEF Controls
<1> QED
  BY <1>1, <1>2, <1>4, <1>5, <1>6, <1>7 DEF SameTask, ChainingTask

LEMMA CalmChooseDirStep ==
    ASSUME IInv, CInv, NEW chosen \in BOOLEAN, ChooseDir(chosen)
    PROVE  CInv'
<1>1. /\ frames # <<>> /\ frames[1].pc = "chooseDir"
      /\ UNCHANGED <<server, pending, transfers, files>>
      /\ \/ /\ ui' = ui
            /\ frames' = Yield("unzip", frames[1].chart, frames[1].slot, FALSE, Tail(frames))
         \/ AfterUnzip(Tail(frames))
  BY DEF ChooseDir, InHandler
<1>2. /\ ChainingTask /\ frames[1] \in Frame
      /\ Tail(frames) \in Seq(Frame) /\ Nested(Tail(frames))
      /\ \A g \in Suspended(Tail(frames)) : Rank(g) < 3
  BY <1>1, ChainingBelow DEF Chaining
<1>3. Zips'
  BY <1>1 DEF CInv, Zips, files
<1>4. CASE AfterUnzip(Tail(frames))
  BY <1>1, <1>2, <1>3, <1>4, AfterUnzipTask, ChainingStep DEF files
<1>5. CASE /\ ui' = ui
           /\ frames' = Yield("unzip", frames[1].chart, frames[1].slot, FALSE, Tail(frames))
  <2>1. frames[1].chart \in Charts \cup {NoChart} /\ frames[1].slot \in SlotIds
    BY <1>2 DEF Frame
  <2>2. /\ Nested(frames')
        /\ \E f \in Frame : /\ f.pc = "unzip"
                            /\ Suspended(frames') = {f} \cup Suspended(Tail(frames))
    BY <1>2, <1>5, <2>1, ChainingPush
  <2>3. Controls' /\ ui'.override \in {"", "Installing charts"} /\ ui'.updateOn /\ ~ui'.timer
    BY <1>2, <1>5, Typed DEF CInv, Controls, ChainingTask, UI
  <2> QED
    BY <2>2, <2>3, <1>1, <1>2, <1>3, <1>5, ChainingStep DEF files
<1> QED
  BY <1>1, <1>4, <1>5

\* The archive on record for a slot is that slot's own, and so are the charts it leaves.
LEMMA CalmUnzipStep ==
    ASSUME IInv, CInv, Unzip
    PROVE  CInv'
<1> DEFINE c == frames[1].chart  s == frames[1].slot  zip == dlPath[c][s]
<1>1. /\ frames # <<>> /\ frames[1].pc = "unzip"
      /\ frames' = Modal("unzipDone", NoChart, 0, None, Tail(frames))
      /\ UNCHANGED <<server, pending, transfers, dlFile, dlPath>>
      /\ \/ ui' = ui
         \/ ui' = [ui EXCEPT !.override = ""]
      /\ \/ UNCHANGED installed
         \/ zip # NoFile /\ installed' = [installed EXCEPT ![c][s] = zip]
  BY DEF Unzip, Resumes, InHandler
<1>2. /\ ChainingTask /\ frames[1] \in Frame
      /\ Tail(frames) \in Seq(Frame) /\ Nested(Tail(frames))
      /\ \A g \in Suspended(Tail(frames)) : Rank(g) < 3
  BY <1>1, ChainingBelow DEF Chaining
<1>3. /\ Nested(frames')
      /\ \E f \in Frame : /\ f.pc = "unzipDone"
                          /\ Suspended(frames') = {f} \cup Suspended(Tail(frames))
  BY <1>1, <1>2, ChainingPush DEF SlotIds
<1>4. /\ ui'.view = ui.view /\ ui'.sel = ui.sel /\ ui'.slot = ui.slot
      /\ ui'.dongle = ui.dongle /\ ui'.panels = ui.panels /\ ui'.listOK = ui.listOK
      /\ ui'.installShown = ui.installShown
      /\ ui'.updateOn /\ ~ui'.timer /\ ui'.chain = ui.chain /\ ui'.aborting = ui.aborting
      /\ ui'.override \in {"", ui.override}
  BY <1>1, <1>2, Typed DEF UI, ChainingTask
<1>5. ui'.override \in {"", "Installing charts"}
  BY <1>2, <1>4, Typed DEF UI, ChainingTask
<1>6. Controls'
  BY <1>4 DEF CInv, Controls
<1>7. Zips'
  <2>1. c \in Charts \cup {NoChart} /\ s \in SlotIds
    BY <1>2 DEF Frame
  <2>2. c \in Charts => zip \in {NoFile, <<c, s>>}
    BY <2>1 DEF CInv, Zips
  <2> HIDE DEF c, s, zip
  <2>3. \A d \in Charts, o \in SlotIds :
            installed'[d][o] = installed[d][o] \/ (d = c /\ o = s /\ installed'[d][o] = zip)
    <3>1. installed \in [Charts -> [SlotIds -> Files \cup {NoFile}]]
      BY Typed
    <3>2. CASE installed' = [installed EXCEPT ![c][s] = zip]
      BY <3>1, <3>2
    <3> QED
      BY <1>1, <3>2
  <2> QED
    BY <1>1, <2>2, <2>3 DEF CInv, Zips
<1> QED
  BY <1>1, <1>2, <1>3, <1>4, <1>5, <1>6, <1>7, ChainingStep

LEMMA CalmCloseUnzipDoneStep ==
    ASSUME IInv, CInv, CloseUnzipDone
    PROVE  CInv'
<1>1. /\ frames # <<>> /\ frames[1].pc = "unzipDone" /\ AfterUnzip(Tail(frames))
      /\ UNCHANGED <<server, pending, transfers, files>>
  BY DEF CloseUnzipDone, InHandler
<1>2. ChainingTask /\ Nested(Tail(frames))
  BY <1>1, ChainingBelow DEF Chaining
<1>3. Zips'
  BY <1>1 DEF CInv, Zips, files
<1> QED
  BY <1>1, <1>2, <1>3, AfterUnzipTask, ChainingStep DEF files

\* The chain event of a transfer: its file is offered, or the handler says why not.
LEMMA CalmHandleChainStep ==
    ASSUME IInv, CInv, calm, HandleChain
    PROVE  CInv'
<1> DEFINE c == ui.sel  s == ui.slot
           Base == \A g \in Suspended(frames) : g.pc \in {"refresh", "box", "continueWaiting"}
<1>1. pending # <<>> /\ Head(pending).type = "chain" /\ pending' = Tail(pending)
      /\ UNCHANGED <<server, transfers, disk, dlFile, installed>>
  BY DEF HandleChain, NextEvent
<1>2. /\ Running = {} /\ Requested /\ ~ui.timer /\ c \in Charts /\ s \in SlotIds /\ c # NoChart
      /\ pending[1].type = "chain" /\ Tail(pending) = <<>> /\ Base /\ ui.chain
  BY <1>1, EventWaits, Typed
<1>3. handle = NoThread /\ ui.updateOn
      /\ ui.override # "Installing charts"
      /\ (ui.aborting => ui.override # "Downloading...")
      /\ (~ui.aborting => dlFile[c] = <<c, s>>)
  <2>1. \A g \in Suspended(frames) : g.pc \notin {"download", "chooseDir", "unzip", "unzipDone"}
    BY <1>2
  <2>2. pending # <<>> /\ pending[1].type # "end"
    BY <1>1, <1>2
  <2>3. handle = NoThread /\ (~ui.aborting => dlFile[c] = <<c, s>>)
    BY <1>2, <2>2 DEF CInv, Flight
  <2> QED
    BY <1>2, <2>1, <2>2, <2>3 DEF CInv, Residue, Downloading
<1>4. \/ /\ ui' = [ui EXCEPT !.chain = FALSE, !.aborting = FALSE] /\ ui.aborting
         /\ frames' = Modal("endBox", c, 0, None, frames) /\ dlPath' = dlPath
      \/ /\ ui' = [ui EXCEPT !.chain = FALSE, !.override = ""] /\ ~ui.aborting
         /\ \/ /\ Downloaded(c) /\ dlPath' = [dlPath EXCEPT ![c][s] = dlFile[c]]
               /\ frames' = Modal("proceed", c, 0, None, frames)
            \/ /\ frames' = Modal("endBox", c, 0, None, frames) /\ dlPath' = dlPath
  BY <1>2 DEF HandleChain
<1>5. /\ ui'.view = ui.view /\ ui'.listOK = ui.listOK /\ ui'.dongle = ui.dongle
      /\ ui'.slot = s /\ ui'.sel = c /\ ui'.panels = ui.panels
      /\ ui'.installShown = ui.installShown /\ ui'.updateOn
      /\ ui'.override = "" /\ ~ui'.chain /\ ~ui'.aborting /\ ~ui'.timer
  <2>1. ui \in UI
    BY Typed
  <2>2. CASE ui' = [ui EXCEPT !.chain = FALSE, !.aborting = FALSE] /\ ui.aborting
    BY <2>1, <2>2, <1>2, <1>3 DEF UI
  <2>3. CASE ui' = [ui EXCEPT !.chain = FALSE, !.override = ""] /\ ~ui.aborting
    BY <2>1, <2>3, <1>2, <1>3 DEF UI
  <2> QED
    BY <2>2, <2>3, <1>4
<1>6. /\ frames \in Seq(Frame) /\ Nested(frames)
      /\ \A g \in Suspended(frames) : Rank(g) < 3
  <2>1. \A g \in Suspended(frames) : ~Chaining(g)
    BY <1>2 DEF Chaining
  <2>2. \A g \in Suspended(frames) : Rank(g) < 3
    BY <2>1 DEF Rank
  <2> QED
    BY <2>2, Typed DEF CInv, Handlers
<1>7. PICK f \in Frame : /\ Nested(frames') /\ Suspended(frames') = {f} \cup Suspended(frames)
                         /\ f.pc \in {"endBox", "proceed"}
                         /\ f.pc = "proceed" =>
                              /\ Downloaded(c) /\ ~ui.aborting
                              /\ dlPath' = [dlPath EXCEPT ![c][s] = dlFile[c]]
  <2>1. c \in Charts \cup {NoChart} /\ 0 \in SlotIds
    BY <1>2 DEF SlotIds
  <2> HIDE DEF c, s, Base
  <2>2. CASE frames' = Modal("endBox", c, 0, None, frames)
    BY <2>1, <2>2, <1>6, ChainingPush
  <2>3. CASE /\ frames' = Modal("proceed", c, 0, None, frames) /\ Downloaded(c) /\ ~ui.aborting
             /\ dlPath' = [dlPath EXCEPT ![c][s] = dlFile[c]]
    BY <2>1, <2>3, <1>6, ChainingPush
  <2> QED
    BY <2>2, <2>3, <1>4
<1>8. srv' = srv /\ plugged' = plugged
  BY <1>1 DEF server
<1>9. Account' /\ Controls'
  <2>1. Account'
    BY <1>5, <1>8, AccountSame DEF CInv
  <2>2. Controls'
    BY <1>5 DEF CInv, Controls
  <2> QED
    BY <2>1, <2>2
<1>10. Requested' /\ Free' /\ Running' = {} /\ pending' = <<>> /\ handle' = NoThread
  BY <1>1, <1>2, <1>3, <1>5, <1>8 DEF Requested, Mine, Free, Running, transfers
<1>11. Work'
  BY <1>5, <1>10 DEF Work
<1>12. Flight'
  <2>1. Len(pending') <= 1
    BY <1>10
  <2> QED
    BY <2>1, <1>5, <1>10 DEF Flight
<1>13. ~Downloading'
  BY <1>2, <1>7 DEF Downloading
<1>14. f.pc = "proceed" => /\ dlPath'[c][s] = <<c, s>> /\ target'.file = <<c, s>>
                           /\ disk'[<<c, s>>] \in OfLength(target'.reply)
  <2> SUFFICES ASSUME f.pc = "proceed"
               PROVE  /\ dlPath'[c][s] = <<c, s>> /\ target'.file = <<c, s>>
                      /\ disk'[<<c, s>>] \in OfLength(target'.reply)
    OBVIOUS
  <2>1. dlFile[c] = <<c, s>> /\ Downloaded(c)
    BY <1>3, <1>7
  <2>2. dlPath'[c][s] = <<c, s>>
    BY <2>1, <1>2, <1>7, Typed
  <2>3. target.file = <<c, s>> /\ disk[<<c, s>>] \in OfLength(target.reply)
    BY <2>1 DEF Downloaded
  <2>4. disk' = disk /\ target' = target
    BY <1>1 DEF transfers
  <2> QED
    BY <2>2, <2>3, <2>4
<1>15. Handlers'
  <2>1. \A g \in Suspended(frames) : Relies(g)'
    BY <1>2, <1>5, <1>10 DEF Relies, Installing, Polling, Chaining
  <2>2. Relies(f)'
    BY <1>5, <1>7, <1>10, <1>13, <1>14 DEF Relies, Installing, Polling, Chaining
  <2> QED
    BY <2>1, <2>2, <1>7 DEF Handlers
<1>16. Residue'
  BY <1>5 DEF Residue
<1>17. Zips'
  <2>1. dlPath' = dlPath \/ (dlPath' = [dlPath EXCEPT ![c][s] = dlFile[c]] /\ ~ui.aborting)
    BY <1>4
  <2>2. \A d \in Charts, o \in SlotIds :
            dlPath'[d][o] = dlPath[d][o] \/ (d = c /\ o = s /\ dlPath'[d][o] = <<c, s>>)
    <3>1. dlPath \in [Charts -> [SlotIds -> Files \cup {NoFile}]]
      BY Typed
    <3>2. ~ui.aborting => dlFile[c] = <<c, s>>
      BY <1>3
    <3> HIDE DEF c, s
    <3>3. CASE dlPath' = [dlPath EXCEPT ![c][s] = dlFile[c]] /\ ~ui.aborting
      BY <3>1, <3>2, <3>3
    <3> QED
      BY <2>1, <3>3
  <2> QED
    BY <2>2, <1>1 DEF CInv, Zips
<1> QED
  BY <1>9, <1>11, <1>12, <1>15, <1>16, <1>17 DEF CInv

-----------------------------------------------------------------------------
\* The theorems

LEMMA CalmHandlerStep ==
    ASSUME IInv, CInv, calm, Handler
    PROVE  CInv'
BY CalmResumeUpdateStep, CalmCloseStep, CalmConfirmAssignStep, CalmPrepareStep,
   CalmClosePollErrorStep, CalmResumePollStep, CalmAnswerContinueWaitingStep,
   CalmStartDownloadStep, CalmHandleEndStep, CalmHandleChainStep, CalmCloseEndBoxStep,
   CalmAnswerProceedStep, CalmChooseDirStep, CalmUnzipStep, CalmCloseUnzipDoneStep,
   CalmCloseBoxStep
   DEF Handler

\* No step changes the kind of environment.
LEMMA CalmForGood == [Next]_vars => calm' = calm
<1> SUFFICES ASSUME [Next]_vars PROVE calm' = calm
  OBVIOUS
<1>1. CASE User
  BY <1>1 DEF User, ClickChart, ClickUpdate, ClickInstall, ClickCancel, server
<1>2. CASE Handler
  BY <1>2 DEF Handler, ResumeUpdate, CloseUploadFailed, RefuseAssign, ConfirmAssign,
              CloseAssignFailed, Prepare, ClosePrepareFailed, ClosePollError, ResumePoll,
              AnswerContinueWaiting, StartDownload, HandleEnd, HandleChain, CloseEndBox,
              AnswerProceed, ChooseDir, Unzip, CloseUnzipDone, CloseBox, server
<1>3. CASE TimerTick
  BY <1>3 DEF TimerTick, server
<1>4. CASE Environment
  BY <1>4 DEF Environment, Progress, TransferEnds, ServerPrepares, ServerExpires,
              OtherAssigns, Plug, server
<1>5. CASE UNCHANGED vars
  BY <1>5 DEF vars, server
<1> QED
  BY <1>1, <1>2, <1>3, <1>4, <1>5 DEF Next

LEMMA CalmStep ==
    ASSUME DistinctSerials, IInv, CalmInv, [Next]_vars
    PROVE  CalmInv'
<1> SUFFICES ASSUME calm PROVE CInv'
  BY CalmForGood DEF CalmInv
<1>1. CInv
  BY DEF CalmInv
<1>2. CASE User
  BY <1>1, <1>2, CalmClickChartStep, CalmClickUpdateStep, CalmClickInstallStep,
     CalmClickCancelStep DEF User
<1>3. CASE Handler
  BY <1>1, <1>3, CalmHandlerStep
<1>4. CASE TimerTick
  BY <1>1, <1>4, CalmTimerTickStep
<1>5. CASE Environment
  BY <1>1, <1>5, CalmProgressStep, CalmTransferEndsStep, ServerSteps, PlugStep DEF Environment
<1>6. CASE UNCHANGED vars
  <2>1. UNCHANGED <<server, ui, frames, pending, transfers, files>>
    BY <1>6 DEF vars
  <2>2. UNCHANGED <<srv, plugged, threads, handle, stream, disk, dlFile, dlPath, installed>>
    BY <2>1 DEF server, transfers, files
  <2>3. Running' = Running /\ Mine' = Mine /\ Downloading' = Downloading
    BY <2>1, <2>2 DEF Running, Mine, Downloading
  <2>4. Free' = Free /\ Requested' = Requested
    BY <2>1, <2>2, <2>3 DEF Free, Requested
  <2>5. Account' /\ Controls' /\ Work' /\ Flight' /\ Residue' /\ Zips'
    BY <1>1, <2>1, <2>2, <2>3, <2>4 DEF CInv, Account, Controls, Work, Flight, Residue, Zips
  <2>6. Handlers'
    BY <1>1, <2>1, <2>2, <2>3, <2>4 DEF CInv, Handlers, Relies, IsDownloadable, transfers
  <2> QED
    BY <2>5, <2>6 DEF CInv
<1> QED
  BY <1>2, <1>3, <1>4, <1>5, <1>6 DEF Next

LEMMA CalmInductive ==
    ASSUME DistinctSerials
    PROVE  Spec => []CalmInv
<1>1. Init => CalmInv
  BY CalmInit DEF CalmInv
<1>2. IInv /\ CalmInv /\ [Next]_vars => CalmInv'
  BY CalmStep
<1> QED
  BY <1>1, <1>2, Inductive, PTL DEF Spec

\* A handler that is suspended, as the properties and as the invariant say it.
LEMMA SuspendedSome ==
    ASSUME IInv, NEW pc
    PROVE  InSome(pc) <=> \E f \in Suspended(frames) : f.pc = pc
<1>1. DOMAIN frames = 1 .. Len(frames)
  BY Typed, LenProperties
<1> QED
  BY <1>1 DEF InSome, Suspended

\* No handler finds the selection gone where it needs one, although each reads
\* m_ChartSelected again after every yield (OnButtonInstall, doDownloadGui,
\* OnButtonInstallChain): a list of the server never takes back the slot worked on.
THEOREM NeverCrashes ==
    ASSUME DistinctSerials
    PROVE  Spec => []NoCrash
<1>1. IInv /\ CalmInv => NoCrash
  BY SuspendedSome DEF CalmInv, CInv, Handlers, Relies, NoCrash
<1> QED
  BY <1>1, Inductive, CalmInductive, PTL

\* The one transfer is that of the slot worked on, and the one that Cancel stops
\* (doDownloadGui, OnButtonCancelOp).
THEOREM OneTransferInHand ==
    ASSUME DistinctSerials
    PROVE  Spec => []TransferInHand
<1>1. CalmInv => TransferInHand
  BY DEF CalmInv, CInv, Flight, TransferInHand
<1> QED
  BY <1>1, CalmInductive, PTL

\* A transfer is shown as such, with neither the timer nor Refresh beside it
\* (doDownloadGui, onEndEvent).
THEOREM TransferIsShown ==
    ASSUME DistinctSerials
    PROVE  Spec => []BusyIsShown
<1>1. CalmInv => BusyIsShown
  BY DEF CalmInv, CInv, Flight, Work, Free, BusyIsShown
<1> QED
  BY <1>1, CalmInductive, PTL

\* However a preparation, a download or an installation ends, everything it changed
\* has been changed back when nothing is under way.
THEOREM NothingLeftBehind ==
    ASSUME DistinctSerials
    PROVE  Spec => []QuietIsReady
<1>1. IInv /\ CalmInv => QuietIsReady
  <2> SUFFICES ASSUME IInv, CInv, calm, Quiet
               PROVE  /\ ui.updateOn /\ ui.override = "" /\ handle = NoThread
                      /\ ~ui.chain /\ ~ui.aborting
    BY DEF CalmInv, QuietIsReady
  <2>1. Suspended(frames) = {} /\ Running = {} /\ pending = <<>>
    BY NoneSuspended DEF Quiet
  <2>2. ui.override \in {"", "Downloading...", "Installing charts"}
    BY Typed DEF UI
  <2>3. ui.updateOn /\ ui.override = ""
    BY <2>1, <2>2 DEF CInv, Residue, Downloading
  <2>4. handle = NoThread /\ ~ui.chain /\ ~ui.aborting
    BY <2>1 DEF CInv, Flight
  <2> QED
    BY <2>3, <2>4
<1> QED
  BY <1>1, Inductive, CalmInductive, PTL

\* The timer asks after the slot whose preparation was requested, whatever was
\* listed, refreshed or plugged since (doPrepareGUI, OnPrepareTimer).
THEOREM OwnRequestPolled ==
    ASSUME DistinctSerials
    PROVE  Spec => []PollsOwnRequest
<1>1. IInv /\ CalmInv => PollsOwnRequest
  <2> SUFFICES ASSUME IInv, CInv, calm, ui.timer
               PROVE  /\ ui.sel # NoChart
                      /\ srv[ui.sel][ui.slot].sys \in {Me, ui.dongle} \ {None}
                      /\ srv[ui.sel][ui.slot].stat \in {"processing", "download", "expired"}
    BY DEF CalmInv, PollsOwnRequest
  <2>1. Requested /\ ui.sel \in Charts /\ ui.slot \in SlotIds
    BY Typed DEF CInv, Work, Requested, Mine
  <2>2. srv[ui.sel][ui.slot].sys = ui.view[ui.sel][ui.slot].sys
    BY <2>1 DEF CInv, Account, Requested, Mine
  <2> QED
    BY <2>1, <2>2 DEF Requested, Mine
<1> QED
  BY <1>1, Inductive, CalmInductive, PTL

\* A file that is offered for installation is the one fetched for the slot worked on,
\* and has the length the server gave for it, to a thousandth (OnButtonInstallChain).
THEOREM OfferedIsFetched ==
    ASSUME DistinctSerials
    PROVE  Spec => []FetchedFileOffered
<1>1. IInv /\ CalmInv => FetchedFileOffered
  BY SuspendedSome DEF CalmInv, CInv, Handlers, Relies, FetchedFileOffered
<1> QED
  BY <1>1, Inductive, CalmInductive, PTL

\* What is recorded for, and installed from, a slot was downloaded for it.
THEOREM ZipIsOfItsSlot ==
    ASSUME DistinctSerials
    PROVE  Spec => []ZipOfItsSlot
<1>1. CalmInv => ZipOfItsSlot
  BY DEF CalmInv, CInv, Zips, ZipOfItsSlot
<1> QED
  BY <1>1, CalmInductive, PTL

\* Once a download has been cancelled only the chain event ends the cancelling.
LEMMA CancellingEnds ==
    ASSUME IInv, CInv, calm, ui.aborting, ~ui'.aborting, [Next]_vars
    PROVE  HandleChain
<1>1. /\ pending # <<>> /\ Running = {} /\ ~ui.timer /\ Busy
      /\ \A g \in Suspended(frames) : g.pc \in {"refresh", "box", "continueWaiting"}
  BY EventWaits DEF CInv, Flight, Busy
<1>2. frames # <<>> => frames[1].pc \in {"refresh", "box", "continueWaiting"}
  BY <1>1, Typed, TopSuspended DEF CInv, Handlers
<1>3. ui \in UI
  BY Typed
<1>4. ~UNCHANGED ui
  OBVIOUS
<1>5. CASE User
  <2>1. ~ClickInstall /\ \A c \in Charts : ~ClickChart(c)
    BY <1>1 DEF ClickInstall, ClickChart
  <2>2. ~ClickUpdate
    BY <1>3 DEF ClickUpdate, UI
  <2>3. ~ClickCancel
    <3> DEFINE cancelled == handle # NoThread
               aborts == ui.aborting \/ cancelled
               chains == ui.chain \/ cancelled
               u == [ui EXCEPT !.timer = FALSE, !.cancelShown = FALSE, !.override = "",
                               !.installOn = TRUE, !.aborting = aborts, !.chain = chains]
    <3> SUFFICES ASSUME ClickCancel PROVE FALSE
      OBVIOUS
    <3>1. ui' = UpdateChartList(u)
      BY DEF ClickCancel
    <3>2. aborts = TRUE /\ chains \in BOOLEAN
      BY <1>3 DEF UI
    <3> HIDE DEF aborts, chains
    <3>3. u \in UI /\ u.aborting
      BY <3>2, <1>3 DEF UI
    <3> HIDE DEF u
    <3> QED
      BY <3>1, <3>3, ChartListTask DEF SameTask
  <2> QED
    BY <1>5, <2>1, <2>2, <2>3 DEF User
<1>6. CASE Handler
  <2>1. ~ResumeUpdate
    <3> DEFINE u == [Listed(ui, srv) EXCEPT !.listOK = TRUE]
    <3> SUFFICES ASSUME ResumeUpdate PROVE FALSE
      OBVIOUS
    <3>1. ui' = UpdateChartList(u)
      BY <1>4 DEF ResumeUpdate
    <3>2. u \in UI /\ u.aborting = ui.aborting
      BY <1>3, Typed DEF UI, Listed
    <3> HIDE DEF u
    <3> QED
      BY <3>1, <3>2, ChartListTask DEF SameTask
  <2>2. \A yes \in BOOLEAN : ~AnswerContinueWaiting(yes)
    BY <1>3 DEF AnswerContinueWaiting, StopPreparing, UI
  <2>3. ~HandleEnd
    BY <1>3 DEF HandleEnd, TransferEnded, UI
  <2>4. ~CloseBox
    BY <1>4 DEF CloseBox
  <2>5. /\ ~CloseUploadFailed /\ ~RefuseAssign /\ ~ConfirmAssign /\ ~CloseAssignFailed
        /\ ~Prepare /\ ~ClosePrepareFailed /\ ~ClosePollError /\ ~ResumePoll
        /\ ~StartDownload /\ ~CloseEndBox /\ ~Unzip /\ ~CloseUnzipDone
        /\ \A yes \in BOOLEAN : ~AnswerProceed(yes) /\ ~ChooseDir(yes)
    BY <1>2 DEF CloseUploadFailed, RefuseAssign, ConfirmAssign, CloseAssignFailed, Prepare,
                ClosePrepareFailed, ClosePollError, ResumePoll, StartDownload, CloseEndBox,
                Unzip, CloseUnzipDone, AnswerProceed, ChooseDir, Resumes, InHandler
  <2> QED
    BY <1>6, <2>1, <2>2, <2>3, <2>4, <2>5 DEF Handler
<1>7. CASE TimerTick
  BY <1>1, <1>7 DEF TimerTick
<1>8. CASE Environment
  BY <1>4, <1>8 DEF Environment, Progress, TransferEnds, ServerPrepares, ServerExpires,
                    OtherAssigns, Plug, Unused
<1>9. CASE UNCHANGED vars
  BY <1>4, <1>9 DEF vars
<1> QED
  BY <1>5, <1>6, <1>7, <1>8, <1>9 DEF Next

\* When a cancelled download has been dealt with its file is gone, whichever of the
\* transfer's events came first (OnButtonCancelOp, onEndEvent, OnButtonInstallChain).
THEOREM CancelledFileIsGone ==
    ASSUME DistinctSerials
    PROVE  Spec => CancelledIsGone
<1>1. ASSUME IInv, CInv, calm, ui.aborting, ~ui'.aborting, [Next]_vars
      PROVE  disk'[<<ui.sel, ui.slot>>] = "absent" /\ dlFile'[ui.sel] = NoFile
  <2>1. HandleChain
    BY <1>1, CancellingEnds
  <2>2. /\ pending # <<>> /\ Head(pending).type = "chain"
        /\ disk' = disk /\ dlFile' = dlFile
    BY <2>1 DEF HandleChain, NextEvent
  <2>3. pending[1].type = "chain"
    BY <1>1, <2>2, EventWaits
  <2> QED
    BY <1>1, <2>2, <2>3 DEF CInv, Flight
<1>2. IInv /\ CalmInv /\ [Next]_vars =>
          [calm /\ ui.aborting /\ ~ui'.aborting =>
              /\ disk'[<<ui.sel, ui.slot>>] = "absent"
              /\ dlFile'[ui.sel] = NoFile]_vars
  BY <1>1 DEF CalmInv
<1> QED
  BY <1>2, Inductive, CalmInductive, PTL DEF Spec, CancelledIsGone

-----------------------------------------------------------------------------
\* The question that assigns a slot for good

\* No dongle is used.
NoDongles == Dongles = {}

\* Install is shown for a chart set of which this system has a slot only if that slot
\* can be downloaded, or its preparation requested.
Offers(u) ==
    u.installShown /\ u.sel # NoChart /\ AssignedTo(u.view[u.sel], Me) =>
        \E s \in SlotIds : /\ u.view[u.sel][s].sys = Me
                           /\ u.view[u.sel][s].stat \in {"requestable", "download"}

\* A slot that was just requested makes the button a stale one, until the first
\* status query builds the panels anew.  The user cannot press it meanwhile.
Offering == \/ Offers(ui)
            \/ ui.timer /\ ui.count < PollEvery
            \/ InHandler("pollError")

\* The question is asked of no name that has a slot of the chart set.
Unasked ==
    InHandler("assignConfirm") => ~AssignedTo(ui.view[frames[1].chart], frames[1].name)

AskInv == calm => Offering /\ Unasked

\* The first status query comes before the timeout.
LEMMA PollsInTime == PollEvery <= Timeout
<1> DEFINE p == PollEvery  q == Timeout \div PollEvery
<1>1. p \in Nat /\ p >= 2 /\ Timeout \in Nat /\ Timeout > 0 /\ q \in Int
  BY PanelAssumption
<1>2. Timeout = p * q + (Timeout % p) /\ Timeout % p = 0
  BY <1>1, PanelAssumption
<1> HIDE DEF p, q
<1>3. Timeout = p * q
  BY <1>1, <1>2
<1>4. q >= 1
  BY <1>1, <1>3
<1>5. p * (q - 1) >= 0 /\ p * (q - 1) = p * q - p
  BY <1>1, <1>4
<1>6. p <= Timeout
  BY <1>1, <1>3, <1>5
<1> QED
  BY <1>6 DEF p

\* The button is shown for a status that has something to offer.
LEMMA ControlsOffer ==
    ASSUME NoDongles, NEW u \in UI
    PROVE  Offers(UpdateActionControls(u))
<1> DEFINE shown == u.sel # NoChart /\ StatusOf(u, u.sel) \in Offered
           on    == u.installOn \/ u.sel = NoChart \/ u.override = ""
           ch    == ChartOf(u, u.sel)
           v     == UpdateActionControls(u)
<1>1. v = [u EXCEPT !.installShown = shown, !.installOn = on]
  BY DEF UpdateActionControls
<1>2. u.dongle = None
  BY DEF UI, NoDongles
<1> SUFFICES ASSUME u.sel # NoChart, StatusOf(u, u.sel) \in Offered,
                    AssignedTo(u.view[u.sel], Me)
             PROVE  \E s \in SlotIds : /\ u.view[u.sel][s].sys = Me
                                       /\ u.view[u.sel][s].stat \in {"requestable", "download"}
  <2>1. v.installShown = shown /\ v.sel = u.sel /\ v.view = u.view
    <3> HIDE DEF shown, on
    <3> QED
      BY <1>1 DEF UI
  <2> QED
    BY <2>1 DEF Offers, AssignedTo
<1>3. \A s \in SlotIds : /\ ch[s].sys = u.view[u.sel][s].sys
                         /\ ch[s].stat = u.view[u.sel][s].stat
  BY DEF ChartOf
<1> HIDE DEF ch
<1>4. AssignedTo(ch, Me)
  BY <1>3 DEF AssignedTo
<1>5. ~Purchasable(ch, Me, None) /\ ~OfAnyDongle(ch, None)
  BY <1>4 DEF Purchasable, OfAnyDongle
<1> DEFINE s == StatusSlot(ch, Me, None)
<1>6. s \in SlotIds /\ ch[s].sys = Me
  BY <1>4, <1>5 DEF StatusSlot, AssignedTo, SlotIds
<1> HIDE DEF s
<1>7. ch[s].stat \in {"requestable", "download"}
  <2>1. ChartStatus(ch, Me, None, u.listOK, "UNKNOWN") \in Offered
    BY <1>2 DEF StatusOf, ch
  <2>2. SlotStatus(ch[s], "UNKNOWN") \in Offered
    BY <2>1, <1>5 DEF ChartStatus, Offered, s
  <2> QED
    BY <2>2 DEF SlotStatus, Offered
<1> QED
  BY <1>3, <1>6, <1>7

LEMMA ChartListOffers ==
    ASSUME NoDongles, NEW u \in UI
    PROVE  Offers(UpdateChartList(u))
<1> DEFINE last   == IF u.sel = NoChart THEN u.last ELSE u.sel
           panels == {c \in Charts : u.listOK /\ Shown(ChartOf(u, c), Me, u.dongle)}
           sel    == IF last \in panels THEN last ELSE NoChart
           w      == [u EXCEPT !.last = last, !.panels = panels, !.sel = sel]
<1>1. UpdateChartList(u) = UpdateActionControls(w)
  BY DEF UpdateChartList
<1>2. last \in Charts \cup {NoChart} /\ panels \subseteq Charts /\ sel \in Charts \cup {NoChart}
  BY DEF UI
<1> HIDE DEF last, panels, sel
<1>3. w \in UI
  BY <1>2 DEF UI
<1> HIDE DEF w
<1> QED
  BY <1>1, <1>3, ControlsOffer

LEMMA ChartListType ==
    ASSUME NEW u \in UI
    PROVE  UpdateChartList(u) \in UI
<1> DEFINE last   == IF u.sel = NoChart THEN u.last ELSE u.sel
           panels == {c \in Charts : u.listOK /\ Shown(ChartOf(u, c), Me, u.dongle)}
           sel    == IF last \in panels THEN last ELSE NoChart
           w      == [u EXCEPT !.last = last, !.panels = panels, !.sel = sel]
           shown  == w.sel # NoChart /\ StatusOf(w, w.sel) \in Offered
           on     == w.installOn \/ w.sel = NoChart \/ w.override = ""
<1>1. UpdateChartList(u) = [w EXCEPT !.installShown = shown, !.installOn = on]
  BY DEF UpdateChartList, UpdateActionControls
<1>2. last \in Charts \cup {NoChart} /\ panels \subseteq Charts /\ sel \in Charts \cup {NoChart}
  BY DEF UI
<1> HIDE DEF last, panels, sel
<1>3. w \in UI
  BY <1>2 DEF UI
<1> HIDE DEF w
<1>4. shown \in BOOLEAN /\ on \in BOOLEAN
  BY <1>3 DEF UI
<1> HIDE DEF shown, on
<1> QED
  BY <1>1, <1>3, <1>4 DEF UI

LEMMA DownloadGuiOffers ==
    ASSUME NoDongles, NEW u \in UI, NEW fs, NEW byTimer, DownloadGui(u, fs, byTimer)
    PROVE  Offers(ui') /\ frames' = Yield("download", NoChart, 0, byTimer, fs)
<1>1. [u EXCEPT !.cancelShown = TRUE, !.updateOn = FALSE, !.override = "Downloading..."] \in UI
  BY DEF UI
<1> QED
  BY <1>1, ChartListOffers DEF DownloadGui

\* Functions that leave alone what is offered.
SameOffer(u, v) == v.view = u.view /\ v.sel = u.sel /\ v.installShown = u.installShown

LEMMA OffersSame ==
    ASSUME NEW u, NEW v, Offers(u), SameOffer(u, v)
    PROVE  Offers(v)
BY DEF Offers, SameOffer, AssignedTo

LEMMA OfferingSame ==
    ASSUME Offering, ~InHandler("pollError"), SameOffer(ui, ui'),
           ui'.timer = ui.timer, ui'.count = ui.count
    PROVE  Offering'
<1>1. Offers(ui) => Offers(ui')
  BY OffersSame
<1> QED
  BY <1>1 DEF Offering

\* With the timer off, and no error of a status query shown, the button is no stale one.
LEMMA OffersNow ==
    ASSUME Offering, ~ui.timer, ~InHandler("pollError")
    PROVE  Offers(ui)
BY DEF Offering

\* The handlers that a step suspends or resumes are not the question.
LEMMA PushTop ==
    ASSUME NEW kind, NEW pc, NEW c, NEW s, NEW n, NEW flag, NEW fs \in Seq(Frame)
    PROVE  /\ Push(kind, pc, c, s, n, flag, fs)[1].pc = pc
           /\ Push(kind, pc, c, s, n, flag, fs)[1].chart = c
           /\ Push(kind, pc, c, s, n, flag, fs)[1].name = n
<1> DEFINE f == [kind |-> kind, pc |-> pc, chart |-> c, slot |-> s, name |-> n, flag |-> flag]
           T == Frame \cup {f}
<1>1. Push(kind, pc, c, s, n, flag, fs) = <<f>> \o fs
  BY DEF Push
<1>2. f.pc = pc /\ f.chart = c /\ f.name = n
  OBVIOUS
<1> HIDE DEF f
<1>3. <<f>> \in Seq(T) /\ Len(<<f>>) = 1 /\ <<f>>[1] = f
  OBVIOUS
<1>4. fs \in Seq(T)
  <2>1. \A i \in 1 .. Len(fs) : fs[i] \in T
    BY ElementOfSeq
  <2> QED
    BY <2>1
<1> HIDE DEF T
<1>5. (<<f>> \o fs)[1] = f
  BY <1>3, <1>4, ConcatProperties
<1> QED
  BY <1>1, <1>2, <1>5

LEMMA ModalUnasked ==
    ASSUME NEW pc, pc # "assignConfirm", NEW c, NEW s, NEW n, NEW fs \in Seq(Frame),
           frames' = Modal(pc, c, s, n, fs)
    PROVE  Unasked'
<1> DEFINE flag == FALSE
<1>1. frames' = Push("modal", pc, c, s, n, flag, fs)
  BY DEF Modal
<1> HIDE DEF flag
<1>2. frames'[1].pc = pc
  BY <1>1, PushTop
<1> QED
  BY <1>2 DEF Unasked, InHandler

LEMMA YieldUnasked ==
    ASSUME NEW pc, pc # "assignConfirm", NEW c, NEW s, NEW flag, NEW fs \in Seq(Frame),
           frames' = Yield(pc, c, s, flag, fs)
    PROVE  Unasked'
<1> DEFINE kind == IF fs # <<>> /\ fs[1].kind = "yield" THEN "call" ELSE "yield"
<1>1. frames' = Push(kind, pc, c, s, None, flag, fs)
  BY DEF Yield
<1> HIDE DEF kind
<1>2. frames'[1].pc = pc
  BY <1>1, PushTop
<1> QED
  BY <1>2 DEF Unasked, InHandler

LEMMA ModalLonger ==
    ASSUME NEW pc \in Pcs, NEW c \in Charts \cup {NoChart}, NEW fs \in Seq(Frame)
    PROVE  /\ Modal(pc, c, 0, None, fs) \in Seq(Frame)
           /\ Len(Modal(pc, c, 0, None, fs)) > 0
<1> DEFINE f == [kind |-> "modal", pc |-> pc, chart |-> c, slot |-> 0, name |-> None,
                 flag |-> FALSE]
<1>1. f \in Frame
  BY DEF Frame, SlotIds
<1>2. Modal(pc, c, 0, None, fs) = <<f>> \o fs
  BY DEF Modal, Push
<1> HIDE DEF f
<1>3. <<f>> \in Seq(Frame) /\ Len(<<f>>) = 1
  BY <1>1
<1>4. <<f>> \o fs \in Seq(Frame) /\ Len(<<f>> \o fs) = 1 + Len(fs)
  BY <1>3, ConcatProperties
<1>5. Len(fs) \in Nat
  BY LenProperties
<1> QED
  BY <1>2, <1>4, <1>5

\* Nothing is suspended inside the question, or the question in anything.
LEMMA TailUnasked ==
    ASSUME IInv, CInv, frames # <<>>, frames' = Tail(frames)
    PROVE  Unasked'
<1>1. /\ \A g \in Suspended(Tail(frames)) : ~Installing(g)
      /\ Tail(frames) \in Seq(Frame)
  BY Below
<1>2. SUFFICES ASSUME Tail(frames) # <<>> PROVE Tail(frames)[1].pc # "assignConfirm"
  BY DEF Unasked, InHandler
<1>3. 1 \in 1 .. Len(Tail(frames))
  BY <1>1, <1>2, EmptySeq, LenProperties
<1>4. Tail(frames)[1] \in Suspended(Tail(frames))
  BY <1>3 DEF Suspended
<1> QED
  BY <1>1, <1>4 DEF Installing

-----------------------------------------------------------------------------
\* Each step asks it rightly

\* What the steps below start from.
Asking == IInv /\ CInv /\ calm /\ Offering /\ Unasked

LEMMA AskClickChart ==
    ASSUME NoDongles, Asking, NEW c \in Charts, ClickChart(c)
    PROVE  Offering' /\ Unasked'
<1> DEFINE d == IF ui.sel = c THEN NoChart ELSE c
           v == [ui EXCEPT !.sel = d]
<1>1. frames = <<>> /\ frames' = frames /\ ui' = SelectChart(ui, d)
  BY DEF Asking, ClickChart, UserActs
<1>2. ui \in UI /\ d \in Charts \cup {NoChart} /\ d # ui.sel
  BY Typed DEF Asking
<1>3. ui' = UpdateActionControls(v)
  BY <1>1, <1>2 DEF SelectChart
<1> HIDE DEF d
<1>4. v \in UI
  BY <1>2 DEF UI
<1> HIDE DEF v
<1>5. Offers(ui')
  BY <1>3, <1>4, ControlsOffer
<1> QED
  BY <1>1, <1>5 DEF Offering, Unasked, InHandler

LEMMA AskClickUpdate ==
    ASSUME Asking, ClickUpdate
    PROVE  Offering' /\ Unasked'
<1>1. /\ frames = <<>> /\ ui' = [ui EXCEPT !.dongle = plugged]
      /\ frames' = Yield("refresh", NoChart, 0, FALSE, frames)
  BY DEF Asking, ClickUpdate, UserActs
<1>2. SameOffer(ui, ui') /\ ui'.timer = ui.timer /\ ui'.count = ui.count
  BY <1>1, Typed DEF Asking, SameOffer, UI
<1>3. Offering'
  BY <1>1, <1>2, OfferingSame DEF Asking, InHandler
<1>4. frames \in Seq(Frame)
  BY Typed DEF Asking
<1>5. Unasked'
  <2> DEFINE flag == FALSE
  <2>1. frames' = Yield("refresh", NoChart, 0, flag, frames)
    BY <1>1
  <2> HIDE DEF flag
  <2> QED
    BY <2>1, <1>4, YieldUnasked
<1> QED
  BY <1>3, <1>5

LEMMA AskClickCancel ==
    ASSUME NoDongles, Asking, ClickCancel
    PROVE  Offering' /\ Unasked'
<1> DEFINE aborting == ui.aborting \/ handle # NoThread
           chain    == ui.chain \/ handle # NoThread
           u == [ui EXCEPT !.timer = FALSE, !.cancelShown = FALSE, !.override = "",
                           !.installOn = TRUE, !.aborting = aborting, !.chain = chain]
<1>1. frames = <<>> /\ frames' = frames /\ ui' = UpdateChartList(u)
  BY DEF Asking, ClickCancel, UserActs
<1>2. ui \in UI
  BY Typed DEF Asking
<1>3. aborting \in BOOLEAN /\ chain \in BOOLEAN
  BY <1>2 DEF UI
<1> HIDE DEF aborting, chain
<1>4. u \in UI
  BY <1>2, <1>3 DEF UI
<1> HIDE DEF u
<1>5. Offers(ui')
  BY <1>1, <1>4, ChartListOffers
<1> QED
  BY <1>1, <1>5 DEF Offering, Unasked, InHandler

\* A slot is to be assigned only if this system has none that is ready, or whose
\* preparation can be requested.
LEMMA AssignMeans ==
    ASSUME NEW ch, NEW me,
           ActiveSlotAction(ch, me, None).action \in {"ASSIGN_DONGLE", "ASSIGN_SYSTEM"}
    PROVE  /\ ActiveSlotAction(ch, me, None).action = "ASSIGN_SYSTEM"
           /\ \A s \in SlotIds : ch[s].sys = me => ch[s].stat \notin {"requestable", "download"}
<1> DEFINE choices == Choices(ch, me, None)
           fits    == {i \in DOMAIN choices : choices[i].slots # {}}
           best    == CHOOSE i \in fits : \A j \in fits : i <= j
           lowest  == IF 0 \in choices[best].slots THEN 0 ELSE 1
           act     == choices[best].action
<1>1. ActiveSlotAction(ch, me, None) =
          IF fits = {} THEN NoAction ELSE [action |-> act, slot |-> lowest]
  BY DEF ActiveSlotAction
<1>2. /\ DOMAIN choices = 1 .. 6
      /\ choices[1].slots = {} /\ choices[2].slots = {} /\ choices[3].slots = {}
      /\ choices[4].slots = {s \in SlotIds : ch[s].sys = me}
                            \cap {s \in SlotIds : ch[s].stat = "download"}
      /\ choices[5].slots = {s \in SlotIds : ch[s].sys = me}
                            \cap {s \in SlotIds : ch[s].stat = "requestable"}
      /\ choices[4].action = "DOWNLOAD_SYSTEM" /\ choices[5].action = "REQUEST_SYSTEM"
      /\ choices[6].action = "ASSIGN_SYSTEM"
  BY DEF Choices
<1> HIDE DEF choices
<1>3. fits \subseteq {4, 5, 6}
  BY <1>2
<1>4. fits # {} /\ act \in {"ASSIGN_DONGLE", "ASSIGN_SYSTEM"}
  <2> HIDE DEF fits, act, lowest
  <2> QED
    BY <1>1 DEF NoAction
<1>5. best \in fits /\ \A j \in fits : best <= j
  <2>1. fits \subseteq 1 .. 6
    BY <1>3
  <2> HIDE DEF fits
  <2>2. \E i \in fits : \A j \in fits : i <= j
    BY <2>1, <1>4, LeastChoice
  <2> QED
    BY <2>2
<1> HIDE DEF best
<1>6. best = 6
  BY <1>2, <1>3, <1>4, <1>5
<1>7. choices[4].slots = {} /\ choices[5].slots = {}
  <2>1. 4 \notin fits /\ 5 \notin fits
    BY <1>5, <1>6
  <2> QED
    BY <2>1, <1>2
<1>8. act = "ASSIGN_SYSTEM"
  BY <1>2, <1>6
<1>9. \A s \in SlotIds : ch[s].sys = me => ch[s].stat \notin {"requestable", "download"}
  BY <1>2, <1>7
<1> HIDE DEF act, lowest, fits
<1> QED
  BY <1>1, <1>4, <1>8, <1>9

LEMMA AskClickInstall ==
    ASSUME NoDongles, Asking, ClickInstall
    PROVE  Offering' /\ Unasked'
<1> DEFINE u   == [ui EXCEPT !.dongle = plugged]
           c   == ui.sel
           act == ActiveSlotAction(ChartOf(u, c), Me, plugged)
           v   == [u EXCEPT !.slot = act.slot, !.installOn = FALSE, !.cancelShown = TRUE]
           n   == IF act.action = "ASSIGN_DONGLE" THEN plugged ELSE Me
           flag == FALSE
<1>1. /\ frames = <<>> /\ ~Busy /\ ui.installShown
      /\ UNCHANGED <<server, pending, transfers, files>>
  BY DEF Asking, ClickInstall, UserActs
<1>2. ui \in UI /\ plugged = None /\ frames \in Seq(Frame)
  BY Typed DEF Asking, NoDongles
<1>3. Offers(ui)
  BY <1>1, OffersNow DEF Asking, Busy, InHandler
<1>4. c # NoChart
  BY <1>1 DEF Asking, CInv, Controls
<1>5. u \in UI /\ u.view = ui.view /\ u.sel = ui.sel /\ u.installShown = ui.installShown
  BY <1>2 DEF UI
<1>6. \A s \in SlotIds : /\ ChartOf(u, c)[s].sys = ui.view[c][s].sys
                         /\ ChartOf(u, c)[s].stat = ui.view[c][s].stat
  BY <1>5 DEF ChartOf
<1>7. act.action # "UNKNOWN" => act.slot \in SlotIds
  BY ActiveSlotType
<1>8. act.action \in {"ASSIGN_DONGLE", "ASSIGN_SYSTEM"}
      => /\ act.action = "ASSIGN_SYSTEM"
         /\ \A s \in SlotIds : ui.view[c][s].sys = Me
                                 => ui.view[c][s].stat \notin {"requestable", "download"}
  BY <1>2, <1>6, AssignMeans
<1> HIDE DEF act
<1>9. act.action # "UNKNOWN" =>
      v \in UI /\ v.view = ui.view /\ v.sel = ui.sel /\ v.installShown = ui.installShown
  BY <1>5, <1>7 DEF UI
<1>10. \/ /\ ui' = u /\ frames' = Modal("box", NoChart, 0, None, frames)
       \/ /\ act.action \in {"DOWNLOAD_DONGLE", "DOWNLOAD_SYSTEM"}
          /\ DownloadGui(v, frames, flag)
       \/ /\ act.action \in {"REQUEST_DONGLE", "REQUEST_SYSTEM"}
          /\ ui' = [v EXCEPT !.last = c]
          /\ frames' = Push("call", "prepare", c, act.slot, None, flag, frames)
       \/ /\ act.action \in {"ASSIGN_DONGLE", "ASSIGN_SYSTEM"}
          /\ ui' = v
          /\ \/ frames' = Modal("assignConfirm", c, act.slot, n, frames)
             \/ frames' = Modal("uploadFailed", c, act.slot, n, frames)
  BY <1>4 DEF ClickInstall, act
<1> HIDE DEF u, v, flag
<1>11. ASSUME SameOffer(ui, ui') PROVE Offering'
  BY <1>3, <1>11, OffersSame DEF Offering
<1>12. CASE ui' = u /\ frames' = Modal("box", NoChart, 0, None, frames)
  <2>1. SameOffer(ui, ui')
    BY <1>5, <1>12 DEF SameOffer
  <2> QED
    BY <2>1, <1>2, <1>11, <1>12, ModalUnasked
<1>13. CASE /\ act.action \in {"DOWNLOAD_DONGLE", "DOWNLOAD_SYSTEM"}
            /\ DownloadGui(v, frames, flag)
  <2>1. Offers(ui') /\ frames' = Yield("download", NoChart, 0, flag, frames)
    BY <1>9, <1>13, DownloadGuiOffers
  <2> QED
    BY <2>1, <1>2, YieldUnasked DEF Offering
<1>14. CASE /\ act.action \in {"REQUEST_DONGLE", "REQUEST_SYSTEM"}
            /\ ui' = [v EXCEPT !.last = c]
            /\ frames' = Push("call", "prepare", c, act.slot, None, flag, frames)
  <2>1. SameOffer(ui, ui')
    BY <1>9, <1>14 DEF SameOffer, UI
  <2>2. frames'[1].pc = "prepare"
    BY <1>2, <1>14, PushTop
  <2> QED
    BY <2>1, <2>2, <1>11 DEF Unasked, InHandler
<1>15. CASE /\ act.action \in {"ASSIGN_DONGLE", "ASSIGN_SYSTEM"}
            /\ ui' = v
            /\ \/ frames' = Modal("assignConfirm", c, act.slot, n, frames)
               \/ frames' = Modal("uploadFailed", c, act.slot, n, frames)
  <2>1. SameOffer(ui, ui')
    BY <1>9, <1>15 DEF SameOffer
  <2>2. n = Me
    BY <1>8, <1>15
  <2> HIDE DEF n
  <2>3. ~AssignedTo(ui.view[c], Me)
    BY <1>1, <1>3, <1>4, <1>8, <1>15 DEF Offers
  <2>4. CASE frames' = Modal("assignConfirm", c, act.slot, n, frames)
    <3> DEFINE off == FALSE
    <3>1. frames' = Push("modal", "assignConfirm", c, act.slot, n, off, frames)
      BY <2>4 DEF Modal
    <3> HIDE DEF off
    <3>2. frames'[1].chart = c /\ frames'[1].name = n
      BY <3>1, <1>2, PushTop
    <3>3. ui'.view = ui.view
      BY <2>1 DEF SameOffer
    <3> QED
      BY <3>2, <3>3, <2>1, <2>2, <2>3, <1>11 DEF Unasked
  <2>5. CASE frames' = Modal("uploadFailed", c, act.slot, n, frames)
    BY <2>1, <2>5, <1>2, <1>11, ModalUnasked
  <2> QED
    BY <2>4, <2>5, <1>15
<1> QED
  BY <1>10, <1>12, <1>13, <1>14, <1>15

\* The handler that continues, unless it is the box of a query's error.
LEMMA AskResumeUpdate ==
    ASSUME NoDongles, Asking, ResumeUpdate
    PROVE  Offering' /\ Unasked'
<1>1. /\ frames # <<>> /\ frames[1].pc = "refresh"
      /\ \/ /\ ui' = UpdateChartList([Listed(ui, srv) EXCEPT !.listOK = TRUE])
            /\ frames' = Tail(frames)
         \/ frames' = Modal("box", NoChart, 0, None, Tail(frames)) /\ ui' = ui
  BY DEF ResumeUpdate, Resumes, InHandler
<1>2. /\ ui \in UI /\ srv \in [Charts -> [SlotIds -> ServerSlot]]
      /\ Tail(frames) \in Seq(Frame)
  BY <1>1, Typed, Below DEF Asking
<1>3. CASE /\ ui' = UpdateChartList([Listed(ui, srv) EXCEPT !.listOK = TRUE])
           /\ frames' = Tail(frames)
  <2>1. [Listed(ui, srv) EXCEPT !.listOK = TRUE] \in UI
    BY <1>2 DEF Listed, UI
  <2>2. Offers(ui')
    BY <2>1, <1>3, ChartListOffers
  <2> QED
    BY <2>2, <1>1, <1>3, TailUnasked DEF Asking, Offering
<1>4. CASE frames' = Modal("box", NoChart, 0, None, Tail(frames)) /\ ui' = ui
  <2>1. Offering'
    BY <1>1, <1>4, OfferingSame DEF Asking, SameOffer, InHandler
  <2> QED
    BY <2>1, <1>2, <1>4, ModalUnasked
<1> QED
  BY <1>1, <1>3, <1>4

\* The dialogs that end an attempt to install.
LEMMA AskClose ==
    ASSUME Asking,
           \/ CloseUploadFailed \/ RefuseAssign \/ CloseAssignFailed \/ ClosePrepareFailed
    PROVE  Offering' /\ Unasked'
<1>1. /\ frames # <<>> /\ Installing(frames[1]) /\ frames[1].pc # "pollError"
      /\ frames' = Tail(frames)
  BY DEF CloseUploadFailed, RefuseAssign, CloseAssignFailed, ClosePrepareFailed,
         InHandler, Installing
<1>2. ~ui.timer
  BY <1>1, Below DEF Asking, Relies
<1>3. Offers(ui)
  BY <1>1, <1>2, OffersNow DEF Asking, InHandler
<1>4. SameOffer(ui, ui')
  BY Typed DEF Asking, CloseUploadFailed, RefuseAssign, CloseAssignFailed,
               ClosePrepareFailed, StopPreparing, SameOffer, UI
<1>5. Offers(ui')
  BY <1>3, <1>4, OffersSame
<1> QED
  BY <1>1, <1>5, TailUnasked DEF Asking, Offering

\* The slot assigned is one whose preparation can be requested.
LEMMA AskConfirmAssign ==
    ASSUME NoDongles, Asking, ConfirmAssign
    PROVE  Offering' /\ Unasked'
<1> DEFINE c == frames[1].chart  s == frames[1].slot  n == frames[1].name
           flag == FALSE
<1>1. /\ frames # <<>> /\ frames[1].pc = "assignConfirm"
      /\ \/ /\ srv' = SetSlot(c, s, n, "requestable")
            /\ ui'  = [Listed(ui, srv') EXCEPT !.last = c]
            /\ frames' = Push("call", "prepare", c, s, None, flag, Tail(frames))
         \/ frames' = Modal("assignFailed", c, s, n, Tail(frames)) /\ ui' = ui
  BY DEF ConfirmAssign, InHandler
<1>2. /\ Relies(frames[1]) /\ Installing(frames[1])
      /\ frames[1] \in Frame /\ Tail(frames) \in Seq(Frame)
  BY <1>1, Below DEF Asking, Installing
<1>3. /\ ~ui.timer /\ ui.sel # NoChart /\ c = ui.sel /\ n = Me /\ s \in SlotIds
  BY <1>1, <1>2, Typed DEF Asking, NoDongles, Relies, Frame
<1>4. /\ ui \in UI /\ c \in Charts /\ srv \in [Charts -> [SlotIds -> ServerSlot]]
      /\ Me \in Names \cup {None}
  BY <1>3, Typed, PanelAssumption DEF Asking, Names
<1> HIDE DEF c, s, n, flag
<1>5. CASE /\ srv' = SetSlot(c, s, n, "requestable")
           /\ ui'  = [Listed(ui, srv') EXCEPT !.last = c]
           /\ frames' = Push("call", "prepare", c, s, None, flag, Tail(frames))
  <2>1. srv'[c][s].sys = Me /\ srv'[c][s].stat = "requestable"
    BY <1>3, <1>4, <1>5 DEF SetSlot
  <2>2. ui'.view = srv' /\ ui'.sel = c
    BY <1>3, <1>4, <1>5 DEF Listed, UI
  <2>3. Offers(ui')
    BY <1>3, <2>1, <2>2 DEF Offers
  <2>4. frames'[1].pc = "prepare"
    <3>1. frames' = Push("call", "prepare", c, s, None, flag, Tail(frames))
      BY <1>5
    <3> DEFINE fs == Tail(frames)
    <3>2. fs \in Seq(Frame) /\ frames' = Push("call", "prepare", c, s, None, flag, fs)
      BY <1>2, <3>1
    <3> HIDE DEF fs
    <3> QED
      BY <3>2, PushTop
  <2> QED
    BY <2>3, <2>4 DEF Offering, Unasked, InHandler
<1>6. CASE frames' = Modal("assignFailed", c, s, n, Tail(frames)) /\ ui' = ui
  <2>1. Offers(ui')
    BY <1>1, <1>3, <1>6, OffersNow DEF Asking, InHandler
  <2> QED
    BY <2>1, <1>2, <1>6, ModalUnasked DEF Offering
<1> QED
  BY <1>1, <1>5, <1>6

LEMMA AskPrepare ==
    ASSUME Asking, Prepare
    PROVE  Offering' /\ Unasked'
<1> DEFINE u == [ui EXCEPT !.cancelShown = TRUE, !.count = FirstCount]
           c == ui.sel  s == ui.slot
           flag == FALSE
<1>1. frames # <<>> /\ frames[1].pc = "prepare" /\ ui \in UI
  BY Typed DEF Asking, Prepare, InHandler
<1>2. Relies(frames[1]) /\ Installing(frames[1]) /\ Tail(frames) \in Seq(Frame)
  BY <1>1, Below DEF Asking, Installing
<1>3. ~ui.timer /\ c # NoChart
  BY <1>2 DEF Relies
<1>4. Offers(ui)
  BY <1>1, <1>3, OffersNow DEF Asking, InHandler
<1>5. \/ /\ \/ ui' = [u EXCEPT !.timer = TRUE]
            \/ ui' = [Listed(u, srv') EXCEPT !.timer = TRUE]
         /\ frames' = Tail(frames)
      \/ ui' = u /\ frames' = Modal("prepareFailed", c, s, None, Tail(frames))
  BY <1>3 DEF Prepare
<1>6. CASE /\ \/ ui' = [u EXCEPT !.timer = TRUE]
              \/ ui' = [Listed(u, srv') EXCEPT !.timer = TRUE]
           /\ frames' = Tail(frames)
  <2>1. ui'.timer /\ ui'.count = FirstCount
    BY <1>1, <1>6 DEF Listed, UI
  <2>2. FirstCount < PollEvery
    BY PanelAssumption
  <2> QED
    BY <2>1, <2>2, <1>1, <1>6, TailUnasked DEF Asking, Offering
<1>7. CASE ui' = u /\ frames' = Modal("prepareFailed", c, s, None, Tail(frames))
  <2>1. SameOffer(ui, ui')
    BY <1>1, <1>7 DEF SameOffer, UI
  <2>2. Offers(ui')
    BY <2>1, <1>4, OffersSame
  <2> QED
    BY <2>2, <1>2, <1>7, ModalUnasked DEF Offering
<1> QED
  BY <1>5, <1>6, <1>7

-----------------------------------------------------------------------------
\* The timer's steps

\* The end of OnPrepareTimer, before the first query or when the button is no stale one.
LEMMA TimeoutCheckOffers ==
    ASSUME NEW u \in UI, NEW fs \in Seq(Frame), TimeoutCheck(u, fs),
           Offers(u) \/ (u.timer /\ u.count < PollEvery),
           frames' = fs => Unasked'
    PROVE  Offering' /\ Unasked'
<1> DEFINE v == [u EXCEPT !.timer = FALSE]
<1>1. CASE u.count >= Timeout
  <2>1. ui' = v /\ frames' = Modal("continueWaiting", NoChart, 0, None, fs)
    BY <1>1 DEF TimeoutCheck
  <2>2. u.count \in Nat /\ PollEvery \in Nat /\ Timeout \in Nat
    <3>1. u.count \in 0 .. Timeout + 1
      BY DEF UI
    <3>2. PollEvery \in Nat /\ Timeout \in Nat
      BY PanelAssumption
    <3> QED
      BY <3>1, <3>2
  <2>3. Offers(u)
    BY <1>1, <2>2, PollsInTime
  <2>4. SameOffer(u, v)
    BY DEF SameOffer, UI
  <2> HIDE DEF v
  <2>5. Offers(ui')
    BY <2>1, <2>3, <2>4, OffersSame
  <2> QED
    BY <2>1, <2>5, ModalUnasked DEF Offering
<1>2. CASE ~(u.count >= Timeout)
  BY <1>2 DEF TimeoutCheck, Offering
<1> QED
  BY <1>1, <1>2

\* A query answered, or given up, builds the panels anew.
LEMMA PollListedOffers ==
    ASSUME NoDongles, NEW u \in UI, NEW fs \in Seq(Frame), PollListed(u, fs),
           frames' = fs => Unasked'
    PROVE  Offering' /\ Unasked'
<1>1. CASE u.sel = NoChart
  <2>1. ui' = StopPreparing(u) /\ frames' = fs
    BY <1>1 DEF PollListed
  <2>2. ui'.sel = NoChart
    BY <1>1, <2>1 DEF StopPreparing, UI
  <2> QED
    BY <2>1, <2>2 DEF Offering, Offers
<1>2. CASE u.sel # NoChart
  <2> DEFINE flag == IsDownloadable(u)
  <2>1. ui' = UpdateChartList(u) /\ frames' = Yield("pollYield", NoChart, 0, flag, fs)
    BY <1>2 DEF PollListed
  <2> HIDE DEF flag
  <2> QED
    BY <2>1, ChartListOffers, YieldUnasked DEF Offering
<1> QED
  BY <1>1, <1>2

LEMMA AskTimerTick ==
    ASSUME NoDongles, Asking, TimerTick
    PROVE  Offering' /\ Unasked'
<1> DEFINE u == [ui EXCEPT !.count = @ + 1]
<1>1. /\ ui.timer /\ ~InTimerHandler
      /\ IF u.count % PollEvery = 0
         THEN \/ PollListed(Listed(u, srv), frames)
              \/ PollListed(u, frames)
              \/ ui' = u /\ frames' = Modal("pollError", NoChart, 0, None, frames)
         ELSE TimeoutCheck(u, frames)
  BY DEF Asking, TimerTick
<1>2. /\ frames \in Seq(Frame) /\ ui \in UI /\ ui.count <= Timeout /\ ui.count \in Nat
      /\ srv \in [Charts -> [SlotIds -> ServerSlot]] /\ Timeout \in Nat
  <2>1. /\ frames \in Seq(Frame) /\ ui \in UI /\ ui.count <= Timeout
        /\ srv \in [Charts -> [SlotIds -> ServerSlot]]
    BY <1>1, Typed DEF Asking, IInv, GoodUI
  <2>2. ui.count \in 0 .. Timeout + 1
    BY <2>1 DEF UI
  <2>3. Timeout \in Nat
    BY PanelAssumption
  <2> QED
    BY <2>1, <2>2, <2>3
<1>3. /\ u \in UI /\ u.count = ui.count + 1 /\ u.timer /\ SameOffer(ui, u)
      /\ Listed(u, srv) \in UI
  <2>1. ui.count + 1 \in 0 .. Timeout + 1
    BY <1>2
  <2> QED
    BY <1>1, <1>2, <2>1 DEF UI, SameOffer, Listed
<1> HIDE DEF u
<1>4. ~InHandler("pollError") /\ ~InHandler("assignConfirm")
  <2>1. frames # <<>> => 1 \in DOMAIN frames
    BY <1>2, EmptySeq, LenProperties
  <2>2. ~InHandler("pollError")
    BY <1>1, <2>1 DEF InTimerHandler, InHandler
  <2>3. ~InHandler("assignConfirm")
    BY <1>1, Below DEF Asking, InHandler, Relies, Installing
  <2> QED
    BY <2>2, <2>3
<1>5. frames' = frames => Unasked'
  BY <1>4 DEF Unasked, InHandler
<1>6. CASE u.count % PollEvery = 0
  <2>1. CASE PollListed(Listed(u, srv), frames) \/ PollListed(u, frames)
    BY <1>2, <1>3, <1>5, <2>1, PollListedOffers
  <2>2. CASE ui' = u /\ frames' = Modal("pollError", NoChart, 0, None, frames)
    <3> DEFINE flag == FALSE
    <3>1. frames' = Push("modal", "pollError", NoChart, 0, None, flag, frames)
      BY <2>2 DEF Modal
    <3> HIDE DEF flag
    <3>2. frames'[1].pc = "pollError"
      BY <1>2, <3>1, PushTop
    <3>3. frames' # <<>>
      <4>1. frames' \in Seq(Frame) /\ Len(frames') > 0
        BY <1>2, <2>2, ModalLonger DEF Pcs
      <4> QED
        BY <4>1
    <3> QED
      BY <3>2, <3>3 DEF Offering, Unasked, InHandler
  <2> QED
    BY <1>1, <1>6, <2>1, <2>2
<1>7. CASE u.count % PollEvery # 0
  <2>1. Offers(ui) \/ ui.count < PollEvery
    BY <1>4 DEF Asking, Offering
  <2>2. Offers(u) \/ u.count < PollEvery
    <3>1. ASSUME ui.count < PollEvery PROVE u.count < PollEvery
      <4>1. PollEvery \in Nat /\ PollEvery > 0
        BY PanelAssumption
      <4>2. PollEvery % PollEvery = 0
        BY <4>1
      <4>3. u.count # PollEvery
        BY <1>7, <4>2
      <4> QED
        BY <1>2, <1>3, <3>1, <4>1, <4>3
    <3> QED
      BY <2>1, <3>1, <1>3, OffersSame
  <2> QED
    BY <1>1, <1>2, <1>3, <1>5, <1>7, <2>2, TimeoutCheckOffers
<1> QED
  BY <1>6, <1>7

LEMMA AskClosePollError ==
    ASSUME NoDongles, Asking, ClosePollError
    PROVE  Offering' /\ Unasked'
<1>1. frames # <<>> /\ ui \in UI /\ Tail(frames) \in Seq(Frame) /\ PollListed(ui, Tail(frames))
  BY Typed, Below DEF Asking, ClosePollError, InHandler
<1>2. frames' = Tail(frames) => Unasked'
  BY <1>1, TailUnasked DEF Asking
<1> QED
  BY <1>1, <1>2, PollListedOffers

LEMMA AskResumePoll ==
    ASSUME NoDongles, Asking, ResumePoll
    PROVE  Offering' /\ Unasked'
<1>1. /\ frames # <<>> /\ frames[1].pc = "pollYield" /\ ui \in UI
      /\ Tail(frames) \in Seq(Frame)
      /\ IF frames[1].flag
         THEN DownloadGui(StopPreparing(ui), Tail(frames), TRUE)
         ELSE TimeoutCheck(ui, Tail(frames))
  BY Typed, Below DEF Asking, ResumePoll, Resumes, InHandler
<1>2. frames' = Tail(frames) => Unasked'
  BY <1>1, TailUnasked DEF Asking
<1>3. CASE frames[1].flag
  <2> DEFINE byTimer == TRUE
  <2>1. DownloadGui(StopPreparing(ui), Tail(frames), byTimer)
    BY <1>1, <1>3
  <2> HIDE DEF byTimer
  <2>2. StopPreparing(ui) \in UI
    BY <1>1 DEF StopPreparing, UI
  <2>3. Offers(ui') /\ frames' = Yield("download", NoChart, 0, byTimer, Tail(frames))
    BY <2>1, <2>2, DownloadGuiOffers
  <2> DEFINE fs == Tail(frames)
  <2>4. fs \in Seq(Frame) /\ frames' = Yield("download", NoChart, 0, byTimer, fs)
    BY <1>1, <2>3
  <2> HIDE DEF fs
  <2> QED
    BY <2>3, <2>4, YieldUnasked DEF Offering
<1>4. CASE ~frames[1].flag
  <2>1. Offers(ui) \/ (ui.timer /\ ui.count < PollEvery)
    BY <1>1 DEF Asking, Offering, InHandler
  <2> QED
    BY <1>1, <1>2, <1>4, <2>1, TimeoutCheckOffers
<1> QED
  BY <1>3, <1>4

LEMMA AskContinueWaiting ==
    ASSUME Asking, NEW yes \in BOOLEAN, AnswerContinueWaiting(yes)
    PROVE  Offering' /\ Unasked'
<1>1. /\ frames # <<>> /\ frames[1].pc = "continueWaiting" /\ ui \in UI
      /\ frames' = Tail(frames)
      /\ \/ ui' = [ui EXCEPT !.count = 0, !.timer = TRUE]
         \/ ui' = StopPreparing(ui)
  BY Typed DEF Asking, AnswerContinueWaiting, InHandler
<1>2. ~ui.timer
  BY <1>1, Below DEF Asking, Relies
<1>3. Offers(ui)
  BY <1>1, <1>2, OffersNow DEF Asking, InHandler
<1>4. SameOffer(ui, ui')
  BY <1>1 DEF StopPreparing, SameOffer, UI
<1>5. Offers(ui')
  BY <1>3, <1>4, OffersSame
<1> QED
  BY <1>1, <1>5, TailUnasked DEF Asking, Offering

LEMMA AskStartDownload ==
    ASSUME Asking, StartDownload
    PROVE  Offering' /\ Unasked'
<1> DEFINE u == [ui EXCEPT !.chain = TRUE, !.aborting = FALSE]
<1>1. /\ frames # <<>> /\ frames[1].pc = "download" /\ ui \in UI
      /\ Tail(frames) \in Seq(Frame) /\ Relies(frames[1])
  BY Typed, Below DEF Asking, StartDownload, Resumes, InHandler
<1>2. ~ui.timer /\ ui.sel # NoChart
  BY <1>1 DEF Relies, Requested, Mine
<1>3. Offers(ui)
  BY <1>1, <1>2, OffersNow DEF Asking, InHandler
<1>4. TimeoutCheck(u, Tail(frames)) \/ (ui' = u /\ frames' = Tail(frames))
  BY <1>2 DEF StartDownload
<1>5. u \in UI /\ SameOffer(ui, u)
  BY <1>1 DEF SameOffer, UI
<1> HIDE DEF u
<1>6. Offers(u)
  BY <1>3, <1>5, OffersSame
<1>7. frames' = Tail(frames) => Unasked'
  BY <1>1, TailUnasked DEF Asking
<1>8. CASE TimeoutCheck(u, Tail(frames))
  BY <1>1, <1>5, <1>6, <1>7, <1>8, TimeoutCheckOffers
<1>9. CASE ui' = u /\ frames' = Tail(frames)
  BY <1>6, <1>7, <1>9 DEF Offering
<1> QED
  BY <1>4, <1>8, <1>9

-----------------------------------------------------------------------------
\* The end of a transfer, the installation, and everything outside the panel

\* No event is posted while the box of a query's error is up.
LEMMA AskHandleEnd ==
    ASSUME Asking, HandleEnd
    PROVE  Offering' /\ Unasked'
<1>1. pending # <<>> /\ ui' = TransferEnded(ui) /\ frames' = frames /\ ui \in UI
  BY Typed DEF Asking, HandleEnd, NextEvent
<1>2. ~InHandler("pollError")
  BY <1>1, Below DEF Asking, InHandler, Relies, Free
<1>3. SameOffer(ui, ui') /\ ui'.timer = ui.timer /\ ui'.count = ui.count
  BY <1>1 DEF TransferEnded, SameOffer, UI
<1>4. Offering'
  BY <1>2, <1>3, OfferingSame DEF Asking
<1> QED
  BY <1>1, <1>3, <1>4 DEF Asking, Unasked, InHandler, SameOffer, AssignedTo

LEMMA AskHandleChain ==
    ASSUME Asking, HandleChain
    PROVE  Offering' /\ Unasked'
<1> DEFINE c == ui.sel
<1>1. /\ pending # <<>> /\ ui \in UI /\ frames \in Seq(Frame)
      /\ \/ ui' = ui
         \/ ui' = [ui EXCEPT !.chain = FALSE, !.aborting = FALSE]
         \/ ui' = [ui EXCEPT !.chain = FALSE, !.override = ""]
  BY Typed DEF Asking, HandleChain, NextEvent
<1>2. ~InHandler("pollError")
  BY <1>1, Below DEF Asking, InHandler, Relies, Free
<1>3. SameOffer(ui, ui') /\ ui'.timer = ui.timer /\ ui'.count = ui.count
  BY <1>1 DEF SameOffer, UI
<1>4. Offering'
  BY <1>2, <1>3, OfferingSame DEF Asking
<1>5. c # NoChart
  BY <1>1 DEF Asking, CInv, Work, Requested, Mine
<1>6. \/ frames' = frames
      \/ frames' = Modal("endBox", c, 0, None, frames)
      \/ frames' = Modal("proceed", c, 0, None, frames)
  BY <1>5 DEF HandleChain
<1> HIDE DEF c
<1>7. CASE frames' = frames
  <2>1. ui'.view = ui.view
    BY <1>3 DEF SameOffer
  <2> QED
    BY <1>4, <1>7, <2>1 DEF Asking, Unasked, InHandler, AssignedTo
<1>8. CASE frames' = Modal("endBox", c, 0, None, frames)
  BY <1>1, <1>4, <1>8, ModalUnasked
<1>9. CASE frames' = Modal("proceed", c, 0, None, frames)
  BY <1>1, <1>4, <1>9, ModalUnasked
<1> QED
  BY <1>6, <1>7, <1>8, <1>9

LEMMA AfterUnzipOffers ==
    ASSUME NoDongles, ui \in UI, NEW fs, AfterUnzip(fs)
    PROVE  Offering' /\ frames' = fs
<1> DEFINE w == [ui EXCEPT !.override = ""]  v == UpdateChartList(w)
<1>1. ui' = [v EXCEPT !.installOn = TRUE] /\ frames' = fs
  BY DEF AfterUnzip
<1>2. w \in UI
  BY DEF UI
<1> HIDE DEF w
<1>3. Offers(v) /\ v \in UI
  BY <1>2, ChartListOffers, ChartListType
<1> HIDE DEF v
<1>4. SameOffer(v, ui')
  BY <1>1, <1>3 DEF SameOffer, UI
<1> QED
  BY <1>1, <1>3, <1>4, OffersSame DEF Offering

\* The dialogs of the installation.
LEMMA AskInstallation ==
    ASSUME NoDongles, Asking, NEW yes \in BOOLEAN,
           \/ CloseEndBox \/ AnswerProceed(yes) \/ ChooseDir(yes) \/ Unzip
           \/ CloseUnzipDone \/ CloseBox
    PROVE  Offering' /\ Unasked'
<1> DEFINE fs == Tail(frames)  c == frames[1].chart  s == frames[1].slot  a == ui.slot
           flag == FALSE
<1>1. frames # <<>> /\ ui \in UI /\ fs \in Seq(Frame)
  BY Typed, Below DEF Asking, CloseEndBox, AnswerProceed, ChooseDir, Unzip, CloseUnzipDone,
                      CloseBox, Resumes, InHandler
<1>2. ~InHandler("pollError")
  BY DEF CloseEndBox, AnswerProceed, ChooseDir, Unzip, CloseUnzipDone, CloseBox, Resumes,
         InHandler
<1>3. \/ /\ \/ ui' = ui
            \/ ui' = [ui EXCEPT !.installOn = TRUE]
            \/ ui' = [ui EXCEPT !.override = "Installing charts"]
            \/ ui' = [ui EXCEPT !.override = ""]
         /\ \/ frames' = fs
            \/ frames' = Modal("chooseDir", c, a, None, fs)
            \/ frames' = Yield("unzip", c, s, flag, fs)
            \/ frames' = Modal("unzipDone", NoChart, 0, None, fs)
      \/ AfterUnzip(fs)
  BY DEF CloseEndBox, AnswerProceed, ChooseDir, Unzip, CloseUnzipDone, CloseBox
<1>4. frames' = fs => Unasked'
  BY <1>1, TailUnasked DEF Asking
<1> HIDE DEF fs, c, s, a, flag
<1>5. CASE AfterUnzip(fs)
  BY <1>1, <1>4, <1>5, AfterUnzipOffers
<1>6. CASE ~AfterUnzip(fs)
  <2>1. SameOffer(ui, ui') /\ ui'.timer = ui.timer /\ ui'.count = ui.count
    BY <1>1, <1>3, <1>6 DEF SameOffer, UI
  <2>2. Offering'
    BY <1>2, <2>1, OfferingSame DEF Asking
  <2>3. Unasked'
    BY <1>1, <1>3, <1>4, <1>6, ModalUnasked, YieldUnasked
  <2> QED
    BY <2>2, <2>3
<1> QED
  BY <1>5, <1>6

\* Whatever leaves the panel alone.
LEMMA AskElsewhere ==
    ASSUME Asking, UNCHANGED <<ui, frames>>
    PROVE  Offering' /\ Unasked'
BY DEF Asking, Offering, Offers, Unasked, InHandler, AssignedTo

LEMMA AskEnvironment ==
    ASSUME Environment
    PROVE  UNCHANGED <<ui, frames>>
BY DEF Environment, Progress, TransferEnds, ServerPrepares, ServerExpires, OtherAssigns,
       Plug, Unused

LEMMA AskStep ==
    ASSUME NoDongles, Asking, [Next]_vars
    PROVE  Offering' /\ Unasked'
<1>1. CASE User
  BY <1>1, AskClickChart, AskClickUpdate, AskClickInstall, AskClickCancel DEF User
<1>2. CASE Handler
  <2>1. TRUE \in BOOLEAN
    OBVIOUS
  <2>2. CASE ResumeUpdate \/ ConfirmAssign \/ Prepare \/ ClosePollError \/ ResumePoll
    BY <2>2, AskResumeUpdate, AskConfirmAssign, AskPrepare, AskClosePollError, AskResumePoll
  <2>3. CASE CloseUploadFailed \/ RefuseAssign \/ CloseAssignFailed \/ ClosePrepareFailed
    BY <2>3, AskClose
  <2>4. CASE \/ \E yes \in BOOLEAN : AnswerContinueWaiting(yes)
             \/ StartDownload \/ HandleEnd \/ HandleChain
    BY <2>4, AskContinueWaiting, AskStartDownload, AskHandleEnd, AskHandleChain
  <2>5. CASE \/ \E yes \in BOOLEAN : AnswerProceed(yes) \/ ChooseDir(yes)
             \/ CloseEndBox \/ Unzip \/ CloseUnzipDone \/ CloseBox
    BY <2>1, <2>5, AskInstallation
  <2> QED
    BY <1>2, <2>2, <2>3, <2>4, <2>5 DEF Handler
<1>3. CASE TimerTick
  BY <1>3, AskTimerTick
<1>4. CASE Environment
  BY <1>4, AskEnvironment, AskElsewhere
<1>5. CASE UNCHANGED vars
  BY <1>5, AskElsewhere DEF vars
<1> QED
  BY <1>1, <1>2, <1>3, <1>4, <1>5 DEF Next

\* The question whether to assign a slot for good is asked only if this system has no
\* slot of the chart set, and for as long as it is up none is listed: "If a slot is
\* already assigned to system, choose that slot" (GetActiveSlotAction), without a
\* dongle in use.  The button that leads to the question may be a stale one until the
\* first status query, but is not pressed while a preparation is under way.
THEOREM AssignedSlotIsChosen ==
    ASSUME NoDongles
    PROVE  Spec => [](calm => AssignedSlotChosen)
<1>1. DistinctSerials
  BY DEF NoDongles, DistinctSerials
<1>2. Init => AskInv
  <2>1. ASSUME Init PROVE ui.sel = NoChart /\ frames = <<>>
    BY <2>1 DEF Init
  <2> QED
    BY <2>1 DEF AskInv, Offering, Offers, Unasked, InHandler
<1>3. IInv /\ CalmInv /\ AskInv /\ [Next]_vars => AskInv'
  BY AskStep, CalmForGood DEF AskInv, CalmInv, Asking
<1>4. IInv /\ CalmInv /\ AskInv => (calm => AssignedSlotChosen)
  <2> SUFFICES ASSUME IInv, CInv, Unasked, NEW i \in DOMAIN frames,
                      frames[i].pc = "assignConfirm"
               PROVE  ~AssignedTo(ui.view[frames[i].chart], frames[i].name)
    BY DEF AskInv, CalmInv, AssignedSlotChosen
  <2>1. /\ frames \in Seq(Frame) /\ DOMAIN frames = 1 .. Len(frames)
        /\ frames # <<>> /\ 1 \in 1 .. Len(frames)
    BY Typed, EmptySeq, LenProperties
  <2>2. /\ frames[i] \in Suspended(frames) /\ frames[1] \in Suspended(frames)
        /\ Installing(frames[i])
    BY <2>1 DEF Suspended, Installing
  <2>3. frames[1] = frames[i]
    BY <2>2 DEF CInv, Handlers, Relies
  <2> QED
    BY <2>1, <2>3 DEF Unasked, InHandler
<1> QED
  BY <1>1, <1>2, <1>3, <1>4, Inductive, CalmInductive, PTL DEF Spec

-----------------------------------------------------------------------------
\* The preparation timer: what a handler does to its clock, one function of the panel
\* after another

Clocked(u) == "timer" \in DOMAIN u /\ "count" \in DOMAIN u
\* v has the clock of u, unless its timer was stopped.
OnTime(u, v) == Clocked(v) /\ v.count = u.count /\ (v.timer => u.timer)

LEMMA UIClocked == \A u \in UI : Clocked(u)
BY DEF UI, Clocked

LEMMA ControlsOnTime == ASSUME NEW u, Clocked(u) PROVE OnTime(u, UpdateActionControls(u))
BY DEF Clocked, OnTime, UpdateActionControls

LEMMA SelectOnTime == ASSUME NEW u, Clocked(u), NEW c PROVE OnTime(u, SelectChart(u, c))
<1> DEFINE v == [u EXCEPT !.sel = c]
<1>1. OnTime(u, v) /\ OnTime(u, u)
  BY DEF Clocked, OnTime
<1>2. SelectChart(u, c) \in {u, UpdateActionControls(v)}
  BY DEF SelectChart
<1> HIDE DEF v
<1> QED
  BY <1>1, <1>2, ControlsOnTime DEF OnTime

LEMMA ListOnTime == ASSUME NEW u, Clocked(u) PROVE OnTime(u, UpdateChartList(u))
<1> DEFINE last == IF u.sel = NoChart THEN u.last ELSE u.sel
           panels == {c \in Charts : u.listOK /\ Shown(ChartOf(u, c), Me, u.dongle)}
           v == [u EXCEPT !.last = last, !.panels = panels, !.sel  = IF last \in panels THEN last ELSE NoChart]
<1>1. UpdateChartList(u) = UpdateActionControls(v)
  BY DEF UpdateChartList
<1> HIDE DEF last, panels
<1>2. OnTime(u, v)
  BY DEF Clocked, OnTime
<1> HIDE DEF v
<1> QED
  BY <1>1, <1>2, ControlsOnTime DEF OnTime

LEMMA ListedOnTime == ASSUME NEW u, Clocked(u), NEW a PROVE OnTime(u, Listed(u, a))
BY DEF Clocked, OnTime, Listed

LEMMA StopOnTime == ASSUME NEW u, Clocked(u) PROVE OnTime(u, StopPreparing(u))
BY DEF Clocked, OnTime, StopPreparing

LEMMA OnTimeTwice ==
    ASSUME NEW u, NEW v, NEW w, OnTime(u, v), OnTime(v, w)
    PROVE  OnTime(u, w)
BY DEF OnTime

LEMMA DownloadOnTime ==
    ASSUME NEW u, Clocked(u), NEW fs, NEW b, DownloadGui(u, fs, b)
    PROVE  OnTime(u, ui')
<1> DEFINE v == [u EXCEPT !.cancelShown = TRUE, !.updateOn = FALSE,
                          !.override = "Downloading..."]
<1>1. ui' = UpdateChartList(v)
  BY DEF DownloadGui
<1>2. OnTime(u, v) /\ Clocked(v)
  BY DEF Clocked, OnTime
<1> HIDE DEF v
<1> QED
  BY <1>1, <1>2, ListOnTime, OnTimeTwice

LEMMA TimeoutOnTime ==
    ASSUME NEW u, Clocked(u), NEW fs, TimeoutCheck(u, fs)
    PROVE  OnTime(u, ui')
BY DEF Clocked, OnTime, TimeoutCheck

LEMMA PollOnTime ==
    ASSUME NEW u, Clocked(u), NEW fs, PollListed(u, fs)
    PROVE  OnTime(u, ui')
BY ListOnTime, StopOnTime DEF PollListed

LEMMA UserOnTime == ASSUME ui \in UI, User PROVE OnTime(ui, ui')
<1>1. Clocked(ui) /\ OnTime(ui, ui)
  BY UIClocked DEF OnTime
<1>2. ASSUME NEW c \in Charts, ClickChart(c) PROVE OnTime(ui, ui')
  <2> DEFINE d == IF ui.sel = c THEN NoChart ELSE c
  <2>1. ui' = SelectChart(ui, d)
    BY <1>2 DEF ClickChart
  <2> HIDE DEF d
  <2> QED
    BY <1>1, <2>1, SelectOnTime
<1>3. CASE ClickUpdate
  BY <1>1, <1>3 DEF ClickUpdate, OnTime, Clocked
<1>4. CASE ClickInstall
  <2> DEFINE u   == [ui EXCEPT !.dongle = plugged]
             act == ActiveSlotAction(ChartOf(u, ui.sel), Me, plugged)
             slot == act.slot
             v   == [u EXCEPT !.slot = slot, !.installOn = FALSE, !.cancelShown = TRUE]
             w   == [v EXCEPT !.last = ui.sel]
             byTimer == FALSE
  <2>1. ui' \in {u, v, w} \/ DownloadGui(v, frames, byTimer)
    BY <1>4 DEF ClickInstall
  <2>2. OnTime(ui, u) /\ OnTime(ui, v) /\ OnTime(ui, w) /\ Clocked(v)
    <3> HIDE DEF slot
    <3> QED
      BY <1>1 DEF OnTime, Clocked
  <2> HIDE DEF u, v, w, byTimer
  <2> QED
    BY <2>1, <2>2, DownloadOnTime, OnTimeTwice
<1>5. CASE ClickCancel
  <2> DEFINE abort == ui.aborting \/ handle # NoThread
             chain == ui.chain \/ handle # NoThread
             v == [ui EXCEPT !.timer = FALSE, !.cancelShown = FALSE, !.override = "",
                             !.installOn = TRUE, !.aborting = abort, !.chain = chain]
  <2>1. ui' = UpdateChartList(v)
    BY <1>5 DEF ClickCancel
  <2> HIDE DEF abort, chain
  <2>2. OnTime(ui, v) /\ Clocked(v)
    BY <1>1 DEF OnTime, Clocked
  <2> HIDE DEF v
  <2> QED
    BY <2>1, <2>2, ListOnTime, OnTimeTwice
<1> QED
  BY <1>2, <1>3, <1>4, <1>5 DEF User

\* A preparation starts, or goes on, when the timer does not run.
LEMMA StartsOnTime ==
    ASSUME IInv, CInv, \/ Prepare
                       \/ \E yes \in BOOLEAN : AnswerContinueWaiting(yes)
    PROVE  ~ui.timer
BY Below DEF Prepare, AnswerContinueWaiting, InHandler, Relies, Installing

LEMMA HandlersOnTime ==
    ASSUME ui \in UI, Handler,
           ~ \/ Prepare
             \/ \E yes \in BOOLEAN : AnswerContinueWaiting(yes)
    PROVE  OnTime(ui, ui')
<1>1. Clocked(ui) /\ OnTime(ui, ui)
  BY UIClocked DEF OnTime
<1>2. CASE ResumeUpdate
  <2> DEFINE v == Listed(ui, srv)  w == [v EXCEPT !.listOK = TRUE]
  <2>1. ui' = UpdateChartList(w) \/ ui' = ui
    BY <1>2 DEF ResumeUpdate
  <2>2. OnTime(ui, v)
    BY <1>1, ListedOnTime
  <2> HIDE DEF v
  <2>3. OnTime(ui, w) /\ Clocked(w)
    BY <2>2 DEF OnTime, Clocked
  <2> HIDE DEF w
  <2> QED
    BY <1>1, <2>1, <2>3, ListOnTime, OnTimeTwice
<1>3. CASE ConfirmAssign
  <2> DEFINE v == Listed(ui, srv')  c == frames[1].chart  w == [v EXCEPT !.last = c]
  <2>1. ui' = w \/ ui' = ui
    BY <1>3 DEF ConfirmAssign
  <2>2. OnTime(ui, v)
    BY <1>1, ListedOnTime
  <2> HIDE DEF v, c
  <2>3. OnTime(ui, w)
    BY <2>2 DEF OnTime, Clocked
  <2> QED
    BY <1>1, <2>1, <2>3
<1>4. CASE CloseUploadFailed \/ RefuseAssign \/ CloseAssignFailed \/ CloseEndBox \/ CloseBox
  BY <1>1, <1>4 DEF CloseUploadFailed, RefuseAssign, CloseAssignFailed, CloseEndBox, CloseBox,
                    OnTime, Clocked
<1>5. CASE ClosePrepareFailed
  BY <1>1, <1>5, StopOnTime DEF ClosePrepareFailed
<1>6. CASE ClosePollError
  BY <1>1, <1>6, PollOnTime DEF ClosePollError
<1>7. CASE ResumePoll
  <2> DEFINE v == StopPreparing(ui)
  <2>1. OnTime(ui, v) /\ Clocked(v)
    BY <1>1, StopOnTime DEF OnTime
  <2> DEFINE byTimer == TRUE
  <2>2. DownloadGui(v, Tail(frames), byTimer) \/ TimeoutCheck(ui, Tail(frames))
    BY <1>7 DEF ResumePoll
  <2> HIDE DEF v, byTimer
  <2> QED
    BY <1>1, <2>1, <2>2, DownloadOnTime, TimeoutOnTime, OnTimeTwice
<1>8. CASE StartDownload
  <2> DEFINE v == [ui EXCEPT !.chain = TRUE, !.aborting = FALSE]
  <2>1. OnTime(ui, v) /\ Clocked(v)
    BY <1>1 DEF OnTime, Clocked
  <2>2. ui' = v \/ TimeoutCheck(v, Tail(frames))
    BY <1>8 DEF StartDownload
  <2> HIDE DEF v
  <2> QED
    BY <2>1, <2>2, TimeoutOnTime, OnTimeTwice
<1>9. CASE HandleEnd
  BY <1>1, <1>9 DEF HandleEnd, TransferEnded, OnTime, Clocked
<1>10. CASE HandleChain
  BY <1>1, <1>10 DEF HandleChain, OnTime, Clocked
<1>11. ASSUME NEW yes \in BOOLEAN, AnswerProceed(yes) PROVE OnTime(ui, ui')
  BY <1>1, <1>11 DEF AnswerProceed, OnTime, Clocked
<1>12. ASSUME NEW fs, AfterUnzip(fs) PROVE OnTime(ui, ui')
  <2> DEFINE v == [ui EXCEPT !.override = ""]  w == UpdateChartList(v)
  <2>1. ui' = [w EXCEPT !.installOn = TRUE]
    BY <1>12 DEF AfterUnzip
  <2>2. OnTime(ui, v) /\ Clocked(v)
    BY <1>1 DEF OnTime, Clocked
  <2> HIDE DEF v
  <2>3. OnTime(ui, w)
    BY <2>2, ListOnTime, OnTimeTwice
  <2> HIDE DEF w
  <2> QED
    BY <2>1, <2>3 DEF OnTime, Clocked
<1>13. ASSUME NEW yes \in BOOLEAN, ChooseDir(yes) PROVE OnTime(ui, ui')
  <2>1. AfterUnzip(Tail(frames)) \/ ui' = ui
    BY <1>13 DEF ChooseDir
  <2> QED
    BY <1>1, <1>12, <2>1
<1>14. CASE Unzip
  <2>1. ui' = [ui EXCEPT !.override = ""] \/ ui' = ui
    BY <1>14 DEF Unzip
  <2> QED
    BY <1>1, <2>1 DEF OnTime, Clocked
<1>15. CASE CloseUnzipDone
  BY <1>12, <1>15 DEF CloseUnzipDone
<1> QED
  BY <1>2, <1>3, <1>4, <1>5, <1>6, <1>7, <1>8, <1>9, <1>10, <1>11, <1>13, <1>14, <1>15
     DEF Handler

\* A tick counts, whatever its handler does besides.
LEMMA TickOnTime ==
    ASSUME ui \in UI, TimerTick
    PROVE  /\ ui.timer /\ ui'.count = ui.count + 1
<1> DEFINE u == [ui EXCEPT !.count = @ + 1]
<1>1. Clocked(u) /\ u.count = ui.count + 1 /\ OnTime(u, u)
  BY UIClocked DEF Clocked, OnTime
<1>2. /\ ui.timer
      /\ \/ PollListed(Listed(u, srv), frames)
         \/ PollListed(u, frames)
         \/ ui' = u
         \/ TimeoutCheck(u, frames)
  BY DEF TimerTick
<1> HIDE DEF u
<1> DEFINE v == Listed(u, srv)
<1>3. OnTime(u, v) /\ Clocked(v)
  BY <1>1, ListedOnTime DEF OnTime
<1>4. OnTime(u, ui')
  <2> HIDE DEF v
  <2>1. CASE PollListed(v, frames)
    BY <1>3, <2>1, PollOnTime, OnTimeTwice
  <2> QED
    BY <1>1, <1>2, <2>1, PollOnTime, TimeoutOnTime DEF v
<1> QED
  BY <1>1, <1>2, <1>4 DEF OnTime

\* A step while the timer runs, and goes on running.
Counted == ui.timer => /\ ui.count <= Timeout
                       /\ ui'.timer => ui'.count = IF TimerTick THEN ui.count + 1 ELSE ui.count

\* "This is only a status loop that will time out eventually", as far as that is a
\* matter of single steps: once started, the timer runs for at most Timeout ticks, for
\* each of them counts, and no handler that runs in between, of an error, of a refresh,
\* of a dialog or of a transfer, starts the count anew (OnPrepareTimer, doPrepareGUI).
THEOREM TicksAreCounted ==
    ASSUME DistinctSerials
    PROVE  Spec => [][calm => Counted]_vars
<1>1. IInv /\ CalmInv /\ [Next]_vars => [calm => Counted]_vars
  <2> SUFFICES ASSUME IInv, CInv, calm, ui.timer, Next
               PROVE  Counted
    BY DEF CalmInv, Counted
  <2>1. ui \in UI /\ ui.count <= Timeout
    BY DEF IInv, GoodUI
  <2>2. CASE TimerTick
    BY <2>1, <2>2, TickOnTime DEF Counted
  <2>3. CASE ~TimerTick
    <3>1. CASE User
      BY <2>1, <2>3, <3>1, UserOnTime DEF Counted, OnTime
    <3>2. CASE Handler
      BY <2>1, <2>3, <3>2, HandlersOnTime, StartsOnTime DEF Counted, OnTime
    <3>3. CASE Environment
      BY <2>1, <2>3, <3>3, AskEnvironment DEF Counted
    <3> QED
      BY <2>3, <3>1, <3>2, <3>3 DEF Next
  <2> QED
    BY <2>2, <2>3
<1> QED
  BY <1>1, Inductive, CalmInductive, PTL DEF Spec
=============================================================================
