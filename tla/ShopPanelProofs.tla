-------------------------- MODULE ShopPanelProofs --------------------------
(***************************************************************************)
(* Theorems about the shop panel that hold in every environment, for every  *)
(* value of the constants: it is type correct, the preparation timer never  *)
(* runs on past its timeout, and the chart selected is one of those listed. *)
(*                                                                          *)
(* None of the three is inductive alone.  The type of the tick counter is   *)
(* bounded only because the timer stops in time, which in turn needs the    *)
(* status queries to fall short of the timeout's successor; and the         *)
(* selection is listed only if every function that rebuilds the panels      *)
(* selects from the new ones.  GoodUI gathers what the functions from ui to *)
(* ui preserve, and each function has a lemma of its own.                   *)
(***************************************************************************)
EXTENDS ShopPanel, SequenceTheorems, TLAPS

\* What the panel's functions preserve of the panel.
GoodUI(u) ==
    /\ u \in UI
    /\ u.timer => u.count <= Timeout
    /\ u.sel # NoChart => u.sel \in u.panels

\* The types of everything else.
ServerType ==
    /\ srv \in [Charts -> [SlotIds -> ServerSlot]]
    /\ plugged \in Dongles \cup {None}
    /\ calm \in BOOLEAN

HandlersType == frames \in Seq(Frame) /\ pending \in Seq(Event)

TransfersType ==
    /\ threads \in [Tids -> Transfer]
    /\ handle \in Tids \cup {NoThread}
    /\ stream \in Tids \cup {NoThread}
    /\ target \in [file : Files \cup {NoFile}, reply : Replies]

FilesType ==
    /\ disk \in [Files -> Contents]
    /\ dlFile \in [Charts -> Files \cup {NoFile}]
    /\ dlPath \in [Charts -> [SlotIds -> Files \cup {NoFile}]]
    /\ installed \in [Charts -> [SlotIds -> Files \cup {NoFile}]]

\* The inductive invariant.
IInv == GoodUI(ui) /\ ServerType /\ HandlersType /\ TransfersType /\ FilesType

-----------------------------------------------------------------------------
\* Sequences of frames

\* The innermost handler is a frame, and the others are a stack of frames.
LEMMA TopFrame ==
    ASSUME frames \in Seq(Frame), frames # <<>>
    PROVE  frames[1] \in Frame /\ Tail(frames) \in Seq(Frame)
<1>1. Len(frames) \in Nat \ {0}
  BY EmptySeq
<1>2. 1 \in 1 .. Len(frames)
  BY <1>1
<1>3. frames[1] \in Frame
  BY <1>2, ElementOfSeq
<1>4. Tail(frames) \in Seq(Frame)
  BY HeadTailProperties
<1> QED
  BY <1>3, <1>4

\* Suspending a handler leaves a stack of frames.
LEMMA PushType ==
    ASSUME NEW kind \in {"yield", "modal", "call"}, NEW pc \in Pcs,
           NEW c \in Charts \cup {NoChart}, NEW s \in SlotIds,
           NEW n \in Names \cup {None}, NEW flag \in BOOLEAN,
           NEW fs \in Seq(Frame)
    PROVE  Push(kind, pc, c, s, n, flag, fs) \in Seq(Frame)
<1> DEFINE f == [kind |-> kind, pc |-> pc, chart |-> c, slot |-> s, name |-> n, flag |-> flag]
<1>1. f \in Frame
  BY DEF Frame
<1>2. <<f>> \in Seq(Frame)
  BY <1>1
<1> HIDE DEF f
<1>3. <<f>> \o fs \in Seq(Frame)
  BY <1>2, ConcatProperties
<1> QED
  BY <1>3 DEF Push, f

LEMMA ModalType ==
    ASSUME NEW pc \in Pcs, NEW c \in Charts \cup {NoChart}, NEW s \in SlotIds,
           NEW n \in Names \cup {None}, NEW fs \in Seq(Frame)
    PROVE  Modal(pc, c, s, n, fs) \in Seq(Frame)
BY PushType DEF Modal

LEMMA YieldType ==
    ASSUME NEW pc \in Pcs, NEW c \in Charts \cup {NoChart}, NEW s \in SlotIds,
           NEW flag \in BOOLEAN, NEW fs \in Seq(Frame)
    PROVE  Yield(pc, c, s, flag, fs) \in Seq(Frame)
<1>1. (IF fs # <<>> /\ fs[1].kind = "yield" THEN "call" ELSE "yield") \in {"yield", "modal", "call"}
  OBVIOUS
<1> QED
  BY <1>1, PushType DEF Yield

LEMMA CrashType ==
    ASSUME NEW fs \in Seq(Frame)
    PROVE  Crash(fs) \in Seq(Frame)
<1>1. "call" \in {"yield", "modal", "call"} /\ "crash" \in Pcs /\ 0 \in SlotIds
  BY DEF Pcs, SlotIds
<1> QED
  BY <1>1, PushType DEF Crash

-----------------------------------------------------------------------------
\* The panel's functions

\* The buttons do not touch what GoodUI relates.
LEMMA ActionControlsGood ==
    ASSUME NEW u, GoodUI(u)
    PROVE  /\ GoodUI(UpdateActionControls(u))
           /\ UpdateActionControls(u).timer = u.timer
           /\ UpdateActionControls(u).count = u.count
<1> DEFINE shown == u.sel # NoChart /\ StatusOf(u, u.sel) \in Offered
           on    == u.installOn \/ u.sel = NoChart \/ u.override = ""
<1>1. UpdateActionControls(u) = [u EXCEPT !.installShown = shown, !.installOn = on]
  BY DEF UpdateActionControls
<1>2. shown \in BOOLEAN /\ on \in BOOLEAN
  BY DEF GoodUI, UI
<1> HIDE DEF shown, on
<1> QED
  BY <1>1, <1>2 DEF GoodUI, UI

LEMMA SelectChartGood ==
    ASSUME NEW u, GoodUI(u), NEW c \in Charts \cup {NoChart},
           c # NoChart => c \in u.panels
    PROVE  GoodUI(SelectChart(u, c))
<1>1. GoodUI([u EXCEPT !.sel = c])
  BY DEF GoodUI, UI
<1> QED
  BY <1>1, ActionControlsGood DEF SelectChart

\* The panels are rebuilt for any type-correct state whose timer respects the
\* timeout; whatever was selected before, a listed chart is selected after.
LEMMA ChartListGood ==
    ASSUME NEW u \in UI, u.timer => u.count <= Timeout
    PROVE  /\ GoodUI(UpdateChartList(u))
           /\ UpdateChartList(u).timer = u.timer
           /\ UpdateChartList(u).count = u.count
<1> DEFINE last   == IF u.sel = NoChart THEN u.last ELSE u.sel
           panels == {c \in Charts : u.listOK /\ Shown(ChartOf(u, c), Me, u.dongle)}
           sel    == IF last \in panels THEN last ELSE NoChart
           v      == [u EXCEPT !.last = last, !.panels = panels, !.sel = sel]
<1>1. UpdateChartList(u) = UpdateActionControls(v)
  BY DEF UpdateChartList
<1>2. last \in Charts \cup {NoChart}
  BY DEF UI
<1>3. panels \subseteq Charts
  OBVIOUS
<1>4. sel \in Charts \cup {NoChart} /\ (sel # NoChart => sel \in panels)
  OBVIOUS
<1> HIDE DEF last, panels, sel
<1>5. GoodUI(v) /\ v.timer = u.timer /\ v.count = u.count
  BY <1>2, <1>3, <1>4 DEF GoodUI, UI
<1> HIDE DEF v
<1> QED
  BY <1>1, <1>5, ActionControlsGood

\* Stopping the timer establishes what a timer that runs would have to satisfy.
LEMMA StopPreparingGood ==
    ASSUME NEW u \in UI, u.sel # NoChart => u.sel \in u.panels
    PROVE  GoodUI(StopPreparing(u))
BY DEF GoodUI, UI, StopPreparing

\* A reply of the server replaces what is known of the account and nothing else.
LEMMA ListedGood ==
    ASSUME NEW u, NEW account \in [Charts -> [SlotIds -> ServerSlot]]
    PROVE  /\ u \in UI => Listed(u, account) \in UI
           /\ u \in UI => /\ Listed(u, account).timer = u.timer
                          /\ Listed(u, account).count = u.count
                          /\ Listed(u, account).sel = u.sel
                          /\ Listed(u, account).panels = u.panels
           /\ GoodUI(u) => GoodUI(Listed(u, account))
BY DEF GoodUI, UI, Listed

LEMMA DownloadGuiGood ==
    ASSUME NEW u \in UI, u.timer => u.count <= Timeout,
           NEW fs \in Seq(Frame), NEW byTimer \in BOOLEAN,
           DownloadGui(u, fs, byTimer)
    PROVE  GoodUI(ui') /\ frames' \in Seq(Frame)
<1> DEFINE v == [u EXCEPT !.cancelShown = TRUE, !.updateOn = FALSE,
                          !.override = "Downloading..."]
<1>1. v \in UI /\ (v.timer => v.count <= Timeout)
  BY DEF UI
<1>2. ui' = UpdateChartList(v) /\ frames' = Yield("download", NoChart, 0, byTimer, fs)
  BY DEF DownloadGui
<1>3. "download" \in Pcs /\ 0 \in SlotIds
  BY DEF Pcs, SlotIds
<1> HIDE DEF v
<1> QED
  BY <1>1, <1>2, <1>3, ChartListGood, YieldType

\* The end of OnPrepareTimer restores the bound that its increment may have passed.
LEMMA TimeoutCheckGood ==
    ASSUME NEW u \in UI, u.sel # NoChart => u.sel \in u.panels,
           NEW fs \in Seq(Frame),
           TimeoutCheck(u, fs)
    PROVE  GoodUI(ui') /\ frames' \in Seq(Frame)
<1>1. "continueWaiting" \in Pcs /\ 0 \in SlotIds
  BY DEF Pcs, SlotIds
<1>2. CASE u.count >= Timeout
  <2>1. ui' = [u EXCEPT !.timer = FALSE]
    BY <1>2 DEF TimeoutCheck
  <2>2. GoodUI(ui')
    BY <2>1 DEF GoodUI, UI
  <2>3. frames' = Modal("continueWaiting", NoChart, 0, None, fs)
    BY <1>2 DEF TimeoutCheck
  <2> QED
    BY <2>2, <2>3, <1>1, ModalType
<1>3. CASE ~(u.count >= Timeout)
  <2>1. ui' = u /\ frames' = fs
    BY <1>3 DEF TimeoutCheck
  <2>2. u.count \in 0 .. Timeout + 1
    BY DEF UI
  <2>3. u.count <= Timeout
    BY <1>3, <2>2, PanelAssumption
  <2> QED
    BY <2>1, <2>3 DEF GoodUI
<1> QED
  BY <1>2, <1>3

\* A status query that leaves the bound alone.
LEMMA PollListedGood ==
    ASSUME NEW u \in UI, u.timer => u.count <= Timeout, NEW fs \in Seq(Frame),
           PollListed(u, fs)
    PROVE  GoodUI(ui') /\ frames' \in Seq(Frame)
<1>1. CASE u.sel = NoChart
  BY <1>1, StopPreparingGood DEF PollListed
<1>2. CASE u.sel # NoChart
  <2>1. /\ ui' = UpdateChartList(u)
        /\ frames' = Yield("pollYield", NoChart, 0, IsDownloadable(u), fs)
    BY <1>2 DEF PollListed
  <2>2. "pollYield" \in Pcs /\ 0 \in SlotIds /\ IsDownloadable(u) \in BOOLEAN
    BY DEF Pcs, SlotIds, IsDownloadable
  <2> QED
    BY <2>1, <2>2, ChartListGood, YieldType
<1> QED
  BY <1>1, <1>2

\* The timeout is a multiple of the polling period, so the tick after it is not.
LEMMA NoPollAfterTimeout == (Timeout + 1) % PollEvery # 0
<1> DEFINE p == PollEvery  q == Timeout \div PollEvery  r == (Timeout + 1) \div PollEvery
<1>1. p \in Nat /\ p >= 2 /\ Timeout \in Nat /\ q \in Int /\ r \in Int
  BY PanelAssumption
<1>2. Timeout = p * q + (Timeout % p)
  BY <1>1
<1>3. Timeout + 1 = p * r + ((Timeout + 1) % p)
  BY <1>1
<1>4. Timeout % p = 0
  BY PanelAssumption
<1>5. SUFFICES ASSUME (Timeout + 1) % p = 0 PROVE FALSE
  OBVIOUS
<1> HIDE DEF p, q, r
<1>6. p * (r - q) = 1
  BY <1>1, <1>2, <1>3, <1>4, <1>5
<1>7. CASE r - q <= 0
  BY <1>1, <1>6, <1>7
<1>8. CASE r - q >= 1
  BY <1>1, <1>6, <1>8
<1> QED
  BY <1>1, <1>7, <1>8

\* A slot of the account changes to a system and a state.
LEMMA SetSlotType ==
    ASSUME srv \in [Charts -> [SlotIds -> ServerSlot]],
           NEW c, NEW s \in SlotIds,
           NEW n \in Names \cup {None}, NEW stat \in States
    PROVE  SetSlot(c, s, n, stat) \in [Charts -> [SlotIds -> ServerSlot]]
BY DEF SetSlot, ServerSlot

\* A press of Install works on one of the two slots, whenever it works on any.
LEMMA ActiveSlotType ==
    ASSUME NEW ch, NEW me, NEW dg, ActiveSlotAction(ch, me, dg).action # "UNKNOWN"
    PROVE  ActiveSlotAction(ch, me, dg).slot \in SlotIds
<1> DEFINE choices == Choices(ch, me, dg)
           fits    == {i \in DOMAIN choices : choices[i].slots # {}}
           best    == CHOOSE i \in fits : \A j \in fits : i <= j
           lowest  == IF 0 \in choices[best].slots THEN 0 ELSE 1
           act     == choices[best].action
<1>1. ActiveSlotAction(ch, me, dg) =
          IF fits = {} THEN NoAction ELSE [action |-> act, slot |-> lowest]
  BY DEF ActiveSlotAction
<1>2. lowest \in SlotIds
  BY DEF SlotIds
<1> HIDE DEF fits, act, lowest
<1> QED
  BY <1>1, <1>2 DEF NoAction

-----------------------------------------------------------------------------
\* The invariant, initially

\* What is shown and known at start is empty.
LEMMA InitGood == Init => IInv
<1> SUFFICES ASSUME Init PROVE IInv
  OBVIOUS
<1>1. 0 \in 0 .. Timeout + 1
  BY PanelAssumption
<1>2. GoodUI(ui)
  BY <1>1 DEF Init, GoodUI, UI, ServerSlot, States, SlotIds
<1>3. ServerType
  BY PanelAssumption DEF Init, ServerType, ServerSlot, NewSlot, States
<1>4. HandlersType
  BY EmptySeq DEF Init, HandlersType
<1>5. TransfersType
  BY PanelAssumption DEF Init, TransfersType, Transfer, Idle, Size
<1>6. FilesType
  BY DEF Init, FilesType, Contents
<1> QED
  BY <1>2, <1>3, <1>4, <1>5, <1>6 DEF IInv

-----------------------------------------------------------------------------
\* The invariant, step by step: the user's clicks

LEMMA ClickChartStep ==
    ASSUME IInv, NEW c \in Charts, ClickChart(c)
    PROVE  IInv'
<1> DEFINE d == IF ui.sel = c THEN NoChart ELSE c
<1>1. d \in Charts \cup {NoChart} /\ (d # NoChart => d \in ui.panels)
  BY DEF ClickChart
<1>2. GoodUI(ui) /\ ui' = SelectChart(ui, d)
  BY DEF IInv, ClickChart
<1> HIDE DEF d
<1>3. GoodUI(ui)'
  BY <1>1, <1>2, SelectChartGood DEF GoodUI
<1> QED
  BY <1>3 DEF IInv, ClickChart, server, transfers, files,
              ServerType, HandlersType, TransfersType, FilesType

LEMMA ClickUpdateStep ==
    ASSUME IInv, ClickUpdate
    PROVE  IInv'
<1>1. GoodUI(ui)'
  BY DEF IInv, ClickUpdate, GoodUI, UI, ServerType
<1>2. frames' \in Seq(Frame)
  BY YieldType DEF IInv, ClickUpdate, HandlersType, Pcs, SlotIds
<1> QED
  BY <1>1, <1>2 DEF IInv, ClickUpdate, server, transfers, files,
                    ServerType, HandlersType, TransfersType, FilesType

\* The panel as Install leaves it for a request satisfies the bounds again.
LEMMA ClickInstallStep ==
    ASSUME IInv, ClickInstall
    PROVE  IInv'
<1> DEFINE u   == [ui EXCEPT !.dongle = plugged]
           c   == ui.sel
           act == ActiveSlotAction(ChartOf(u, c), Me, plugged)
           v   == [u EXCEPT !.slot = act.slot, !.installOn = FALSE, !.cancelShown = TRUE]
<1>1. frames \in Seq(Frame) /\ c \in Charts \cup {NoChart} /\ plugged \in Names \cup {None}
  BY DEF IInv, GoodUI, UI, HandlersType, ServerType, Names
<1>2. GoodUI(u)
  BY DEF IInv, GoodUI, UI, ServerType
<1>3. act.action # "UNKNOWN" => act.slot \in SlotIds
  BY ActiveSlotType
<1> HIDE DEF act
<1>4. act.action # "UNKNOWN" => GoodUI(v)
  BY <1>2, <1>3 DEF GoodUI, UI
<1>5. NoAction.action = "UNKNOWN"
  BY DEF NoAction
<1>6. Me \in Names \cup {None} /\ 0 \in SlotIds
  BY PanelAssumption DEF Names, SlotIds
<1>7. GoodUI(ui)' /\ frames' \in Seq(Frame)
  <2>1. CASE c = NoChart /\ ui' = u /\ frames' = Crash(frames)
    BY <2>1, <1>1, <1>2, CrashType
  <2>2. CASE ui' = u /\ frames' = Modal("box", NoChart, 0, None, frames)
    BY <2>2, <1>1, <1>2, <1>6, ModalType DEF Pcs
  <2>3. CASE /\ c # NoChart /\ act.action \in {"DOWNLOAD_DONGLE", "DOWNLOAD_SYSTEM"}
             /\ DownloadGui(v, frames, FALSE)
    <3>1. GoodUI(v)
      BY <2>3, <1>4
    <3> HIDE DEF v
    <3> QED
      BY <2>3, <3>1, <1>1, DownloadGuiGood DEF GoodUI
  <2>4. CASE /\ c # NoChart /\ act.action \in {"REQUEST_DONGLE", "REQUEST_SYSTEM"}
             /\ ui' = [v EXCEPT !.last = c]
             /\ frames' = Push("call", "prepare", c, act.slot, None, FALSE, frames)
    <3>1. GoodUI(v) /\ act.slot \in SlotIds
      BY <2>4, <1>3, <1>4
    <3> HIDE DEF v
    <3>2. GoodUI([v EXCEPT !.last = c])
      BY <3>1, <1>1 DEF GoodUI, UI
    <3>3. frames' \in Seq(Frame)
      BY <2>4, <3>1, <1>1, PushType DEF Pcs
    <3> QED
      BY <2>4, <3>2, <3>3
  <2>5. CASE /\ c # NoChart /\ act.action \in {"ASSIGN_DONGLE", "ASSIGN_SYSTEM"}
             /\ ui' = v
             /\ LET n == IF act.action = "ASSIGN_DONGLE" THEN plugged ELSE Me
                IN \/ frames' = Modal("assignConfirm", c, act.slot, n, frames)
                   \/ frames' = Modal("uploadFailed", c, act.slot, n, frames)
    <3> DEFINE n == IF act.action = "ASSIGN_DONGLE" THEN plugged ELSE Me
    <3>1. GoodUI(v) /\ act.slot \in SlotIds /\ n \in Names \cup {None}
      BY <2>5, <1>1, <1>3, <1>4, <1>6
    <3>2. \/ frames' = Modal("assignConfirm", c, act.slot, n, frames)
          \/ frames' = Modal("uploadFailed", c, act.slot, n, frames)
      BY <2>5
    <3> HIDE DEF n
    <3>3. "assignConfirm" \in Pcs /\ "uploadFailed" \in Pcs
      BY DEF Pcs
    <3>4. frames' \in Seq(Frame)
      BY <3>1, <3>2, <3>3, <1>1, ModalType
    <3> QED
      BY <2>5, <3>1, <3>4
  <2> QED
    BY <2>1, <2>2, <2>3, <2>4, <2>5 DEF ClickInstall, act
<1> QED
  BY <1>7 DEF IInv, ClickInstall, server, transfers, files,
              ServerType, HandlersType, TransfersType, FilesType

\* What is left of a transfer that is broken off is one of the contents.
LEMMA BrokenOffGood ==
    ASSUME IInv, NEW t \in Tids, NEW d \in BrokenOff(t)
    PROVE  /\ d \in [Files -> Contents]
           /\ d = disk \/ d = [disk EXCEPT ![threads[t].file] = "most"]
<1>1. d = disk \/ d = [disk EXCEPT ![threads[t].file] = "most"]
  BY DEF BrokenOff
<1> QED
  BY <1>1 DEF IInv, FilesType, Contents

LEMMA ClickCancelStep ==
    ASSUME IInv, ClickCancel
    PROVE  IInv'
<1> DEFINE t == IF handle = NoThread THEN Idle ELSE threads[handle]
           u == [ui EXCEPT !.timer = FALSE, !.cancelShown = FALSE, !.override = "",
                           !.installOn = TRUE,
                           !.aborting = @ \/ handle # NoThread,
                           !.chain = @ \/ handle # NoThread]
           e == [type |-> "end", size |-> Size(t)]
<1>1. u \in UI /\ (u.timer => u.count <= Timeout)
  <2> DEFINE running == handle # NoThread
             aborts  == ui.aborting \/ running
             chains  == ui.chain \/ running
  <2>1. ui \in UI /\ aborts \in BOOLEAN /\ chains \in BOOLEAN
    BY DEF IInv, GoodUI, UI
  <2>2. u = [ui EXCEPT !.timer = FALSE, !.cancelShown = FALSE, !.override = "",
                       !.installOn = TRUE, !.aborting = aborts, !.chain = chains]
    OBVIOUS
  <2> DEFINE w == [ui EXCEPT !.timer = FALSE, !.cancelShown = FALSE, !.override = "",
                             !.installOn = TRUE]
  <2>3. w \in UI /\ ~w.timer
    BY <2>1 DEF UI
  <2>4. u = [w EXCEPT !.aborting = aborts, !.chain = chains]
    BY <2>2
  <2> HIDE DEF u, w, aborts, chains
  <2> QED
    BY <2>1, <2>3, <2>4 DEF UI
<1>2. ui' = UpdateChartList(u)
  BY DEF ClickCancel
<1> HIDE DEF u
<1>3. GoodUI(ui)'
  BY <1>1, <1>2, ChartListGood DEF GoodUI
<1>4. Idle \in Transfer
  BY PanelAssumption DEF Idle, Transfer
<1>5. t \in Transfer
  BY <1>4 DEF IInv, TransfersType
<1>6. e \in Event
  BY <1>5 DEF Event, Size, Transfer
<1>7. \/ /\ threads' = [threads EXCEPT ![handle] = Idle]
         /\ pending' = Append(pending, e)
      \/ UNCHANGED <<threads, pending>>
  BY DEF ClickCancel
<1> HIDE DEF e
<1>8. pending' \in Seq(Event)
  BY <1>6, <1>7, AppendProperties DEF IInv, HandlersType
<1>9. threads' \in [Tids -> Transfer]
  BY <1>4, <1>7 DEF IInv, TransfersType
<1>10. disk' \in [Files -> Contents]
  <2>1. disk' = disk \/ (handle \in Tids /\ disk' \in BrokenOff(handle))
    <3>1. (t # Idle => disk' \in BrokenOff(handle)) /\ (t = Idle => disk' = disk)
      BY DEF ClickCancel
    <3>2. handle \in Tids \/ t = Idle
      BY DEF IInv, TransfersType
    <3> HIDE DEF t
    <3> QED
      BY <3>1, <3>2
  <2>2. CASE disk' = disk
    BY <2>2 DEF IInv, FilesType
  <2>3. CASE handle \in Tids /\ disk' \in BrokenOff(handle)
    BY <2>3, BrokenOffGood
  <2> QED
    BY <2>1, <2>2, <2>3
<1> QED
  BY <1>3, <1>8, <1>9, <1>10 DEF IInv, ClickCancel, server,
                                 ServerType, HandlersType, TransfersType, FilesType

-----------------------------------------------------------------------------
\* The handlers of Refresh and Install

LEMMA ResumeUpdateStep ==
    ASSUME IInv, ResumeUpdate
    PROVE  IInv'
<1> DEFINE u == [Listed(ui, srv) EXCEPT !.listOK = TRUE]
<1>1. Tail(frames) \in Seq(Frame)
  BY TopFrame DEF IInv, HandlersType, ResumeUpdate, Resumes, InHandler
<1>2. u \in UI /\ (u.timer => u.count <= Timeout)
  <2>1. GoodUI(Listed(ui, srv))
    BY ListedGood DEF IInv, ServerType
  <2> QED
    BY <2>1 DEF GoodUI, UI
<1>3. \/ ui' = UpdateChartList(u) /\ frames' = Tail(frames)
      \/ ui' = ui /\ frames' = Modal("box", NoChart, 0, None, Tail(frames))
  BY DEF ResumeUpdate
<1> HIDE DEF u
<1>4. GoodUI(ui)'
  BY <1>2, <1>3, ChartListGood DEF IInv, GoodUI
<1>5. frames' \in Seq(Frame)
  BY <1>1, <1>3, ModalType DEF Pcs, SlotIds
<1> QED
  BY <1>4, <1>5 DEF IInv, ResumeUpdate, server, transfers, files,
                    ServerType, HandlersType, TransfersType, FilesType

\* Handlers that end by setting controls: their dialogs close over them.
\* What a handler does to the status override and the Install button.
LEMMA FlagsGood ==
    ASSUME NEW u, GoodUI(u), NEW b \in BOOLEAN,
           NEW o \in {"", "Downloading...", "Installing charts"}
    PROVE  /\ GoodUI([u EXCEPT !.override = o])
           /\ GoodUI([u EXCEPT !.installOn = b])
           /\ GoodUI([u EXCEPT !.chain = b])
           /\ GoodUI([u EXCEPT !.aborting = b])
<1>1. GoodUI([u EXCEPT !.override = o])
  BY DEF GoodUI, UI
<1>2. GoodUI([u EXCEPT !.installOn = b])
  BY DEF GoodUI, UI
<1>3. GoodUI([u EXCEPT !.chain = b])
  BY DEF GoodUI, UI
<1>4. GoodUI([u EXCEPT !.aborting = b])
  BY DEF GoodUI, UI
<1> QED
  BY <1>1, <1>2, <1>3, <1>4

LEMMA CloseSteps ==
    ASSUME IInv,
           \/ CloseUploadFailed \/ RefuseAssign \/ CloseAssignFailed
           \/ ClosePrepareFailed \/ CloseEndBox \/ CloseBox
    PROVE  IInv'
<1>1. Tail(frames) \in Seq(Frame)
  BY TopFrame DEF IInv, HandlersType, InHandler, CloseUploadFailed, RefuseAssign,
                  CloseAssignFailed, ClosePrepareFailed, CloseEndBox, CloseBox
<1>2. frames' \in Seq(Frame)
  BY <1>1 DEF CloseUploadFailed, RefuseAssign,
              CloseAssignFailed, ClosePrepareFailed, CloseEndBox, CloseBox
<1>3. GoodUI(ui)'
  <2>1. CASE ClosePrepareFailed
    BY <2>1, StopPreparingGood DEF IInv, GoodUI, ClosePrepareFailed
  <2>2. CASE ~ClosePrepareFailed
    <3> DEFINE u == [ui EXCEPT !.override = ""]
    <3>1. ui' \in {ui, u, [u EXCEPT !.installOn = TRUE], [ui EXCEPT !.installOn = TRUE]}
      BY <2>2 DEF CloseUploadFailed, RefuseAssign, CloseAssignFailed, CloseEndBox, CloseBox
    <3>2. GoodUI(ui) /\ GoodUI(u)
      BY FlagsGood DEF IInv
    <3> HIDE DEF u
    <3> QED
      BY <3>1, <3>2, FlagsGood
  <2> QED
    BY <2>1, <2>2
<1>4. UNCHANGED <<server, pending, transfers, files>>
  BY DEF CloseUploadFailed, RefuseAssign,
         CloseAssignFailed, ClosePrepareFailed, CloseEndBox, CloseBox
<1> QED
  BY <1>2, <1>3, <1>4 DEF IInv, server, transfers, files,
                          ServerType, HandlersType, TransfersType, FilesType

LEMMA ConfirmAssignStep ==
    ASSUME IInv, ConfirmAssign
    PROVE  IInv'
<1> DEFINE c == frames[1].chart  s == frames[1].slot  n == frames[1].name
<1>1. frames[1] \in Frame /\ Tail(frames) \in Seq(Frame)
  BY TopFrame DEF IInv, HandlersType, ConfirmAssign, InHandler
<1>2. c \in Charts \cup {NoChart} /\ s \in SlotIds /\ n \in Names \cup {None}
  BY <1>1 DEF Frame
<1>3. /\ \/ ui' = [Listed(ui, srv') EXCEPT !.last = c]
         \/ ui' = ui
      /\ \/ srv' = SetSlot(c, s, n, "requestable")
         \/ srv' = srv
      /\ \/ frames' = Push("call", "prepare", c, s, None, FALSE, Tail(frames))
         \/ frames' = Modal("assignFailed", c, s, n, Tail(frames))
      /\ UNCHANGED <<plugged, calm, pending, transfers, files>>
  BY DEF ConfirmAssign
<1> HIDE DEF c, s, n
<1>4. srv' \in [Charts -> [SlotIds -> ServerSlot]]
  <2>1. srv \in [Charts -> [SlotIds -> ServerSlot]] /\ "requestable" \in States
    BY DEF IInv, ServerType, States
  <2>2. SetSlot(c, s, n, "requestable") \in [Charts -> [SlotIds -> ServerSlot]]
    BY <2>1, <1>2, SetSlotType
  <2> QED
    BY <2>1, <2>2, <1>3
<1>5. GoodUI(ui)'
  <2>1. GoodUI(Listed(ui, srv'))
    BY <1>4, ListedGood DEF IInv
  <2> QED
    BY <2>1, <1>2, <1>3 DEF IInv, GoodUI, UI
<1>6. "prepare" \in Pcs /\ "assignFailed" \in Pcs
  BY DEF Pcs
<1>7. frames' \in Seq(Frame)
  <2>1. Push("call", "prepare", c, s, None, FALSE, Tail(frames)) \in Seq(Frame)
    BY <1>1, <1>2, <1>6, PushType
  <2>2. Modal("assignFailed", c, s, n, Tail(frames)) \in Seq(Frame)
    BY <1>1, <1>2, <1>6, ModalType
  <2> QED
    BY <1>3, <2>1, <2>2
<1> QED
  BY <1>3, <1>4, <1>5, <1>7 DEF IInv, transfers, files,
                    ServerType, HandlersType, TransfersType, FilesType

\* The timer is started with its count at the first value, within the timeout.
LEMMA PrepareStep ==
    ASSUME IInv, Prepare
    PROVE  IInv'
<1> DEFINE u == [ui EXCEPT !.cancelShown = TRUE, !.count = FirstCount]
           c == ui.sel  s == ui.slot  n == ui.view[c][s].sys
<1>1. Tail(frames) \in Seq(Frame)
  BY TopFrame DEF IInv, HandlersType, Prepare, InHandler
<1>2. c \in Charts \cup {NoChart} /\ s \in SlotIds
  BY DEF IInv, GoodUI, UI
<1>3. c # NoChart => n \in Names \cup {None}
  <2>1. ui.view \in [Charts -> [SlotIds -> ServerSlot]]
    BY DEF IInv, GoodUI, UI
  <2> QED
    BY <1>2, <2>1 DEF ServerSlot
<1>4. FirstCount \in 0 .. Timeout + 1 /\ FirstCount <= Timeout
  BY PanelAssumption
<1>5. GoodUI(u) /\ u.count <= Timeout
  <2>1. ui \in UI /\ (ui.sel # NoChart => ui.sel \in ui.panels)
    BY DEF IInv, GoodUI
  <2>2. u \in UI
    BY <1>4, <2>1 DEF UI
  <2>3. u.sel = ui.sel /\ u.panels = ui.panels /\ u.count = FirstCount
    BY <2>1 DEF UI
  <2> QED
    BY <1>4, <2>1, <2>2, <2>3 DEF GoodUI
<1>6. /\ \/ ui' = u \/ ui' = [u EXCEPT !.timer = TRUE]
         \/ ui' = [Listed(u, srv') EXCEPT !.timer = TRUE]
      /\ \/ srv' = srv
         \/ c # NoChart /\ srv' = SetSlot(c, s, n, "processing")
      /\ \/ frames' = Tail(frames)
         \/ frames' = Crash(Tail(frames))
         \/ frames' = Modal("prepareFailed", c, s, None, Tail(frames))
      /\ UNCHANGED <<plugged, calm, pending, transfers, files>>
  BY DEF Prepare
<1> HIDE DEF u, c, s, n
<1>7. srv' \in [Charts -> [SlotIds -> ServerSlot]]
  <2>1. srv \in [Charts -> [SlotIds -> ServerSlot]] /\ "processing" \in States
    BY DEF IInv, ServerType, States
  <2>2. ASSUME c # NoChart
        PROVE  SetSlot(c, s, n, "processing") \in [Charts -> [SlotIds -> ServerSlot]]
    BY <2>1, <2>2, <1>2, <1>3, SetSlotType
  <2> QED
    BY <2>1, <2>2, <1>6
<1>8. GoodUI(ui)'
  <2>1. GoodUI(Listed(u, srv')) /\ Listed(u, srv').count = u.count
    BY <1>5, <1>7, ListedGood DEF GoodUI
  <2> QED
    BY <2>1, <1>5, <1>6 DEF GoodUI, UI
<1>9. frames' \in Seq(Frame)
  <2>1. "prepareFailed" \in Pcs
    BY DEF Pcs
  <2>2. Modal("prepareFailed", c, s, None, Tail(frames)) \in Seq(Frame)
    BY <2>1, <1>1, <1>2, ModalType
  <2>3. Crash(Tail(frames)) \in Seq(Frame)
    BY <1>1, CrashType
  <2> QED
    BY <1>1, <1>6, <2>2, <2>3
<1> QED
  BY <1>6, <1>7, <1>8, <1>9 DEF IInv, transfers, files,
                    ServerType, HandlersType, TransfersType, FilesType

-----------------------------------------------------------------------------
\* The preparation timer

\* The increment may pass the timeout by one, and then the same call stops the
\* timer: it is not a call that queries the server.
LEMMA TimerTickStep ==
    ASSUME IInv, TimerTick
    PROVE  IInv'
<1> DEFINE u == [ui EXCEPT !.count = @ + 1]
<1>1. ui.count \in 0 .. Timeout
  <2>1. ui.count \in 0 .. Timeout + 1 /\ ui.count <= Timeout
    BY DEF IInv, GoodUI, UI, TimerTick
  <2> QED
    BY <2>1, PanelAssumption
<1>2. ui.count + 1 \in 0 .. Timeout + 1
  BY <1>1, PanelAssumption
<1>3. u \in UI /\ u.count = ui.count + 1 /\ (u.sel # NoChart => u.sel \in u.panels)
  BY <1>2 DEF IInv, GoodUI, UI
<1>4. IF u.count % PollEvery = 0
      THEN \/ PollListed(Listed(u, srv), frames)
           \/ PollListed(u, frames)
           \/ ui' = u /\ frames' = Modal("pollError", NoChart, 0, None, frames)
      ELSE TimeoutCheck(u, frames)
  BY DEF TimerTick
<1> HIDE DEF u
<1>5. frames \in Seq(Frame) /\ srv \in [Charts -> [SlotIds -> ServerSlot]]
  BY DEF IInv, HandlersType, ServerType
<1>6. GoodUI(ui)' /\ frames' \in Seq(Frame)
  <2>1. CASE u.count % PollEvery = 0
    <3>1. u.count <= Timeout
      BY <2>1, <1>1, <1>3, NoPollAfterTimeout, PanelAssumption
    <3>2. GoodUI(u)
      BY <3>1, <1>3 DEF GoodUI
    <3>3. CASE PollListed(Listed(u, srv), frames)
      <4>1. GoodUI(Listed(u, srv))
        BY <3>2, <1>5, ListedGood
      <4> QED
        BY <4>1, <3>3, <1>5, PollListedGood DEF GoodUI
    <3>4. CASE PollListed(u, frames)
      BY <3>2, <3>4, <1>5, PollListedGood DEF GoodUI
    <3>5. CASE ui' = u /\ frames' = Modal("pollError", NoChart, 0, None, frames)
      <4>1. "pollError" \in Pcs /\ 0 \in SlotIds
        BY DEF Pcs, SlotIds
      <4>2. frames' \in Seq(Frame)
        BY <4>1, <3>5, <1>5, ModalType
      <4> QED
        BY <3>2, <3>5, <4>2 DEF GoodUI
    <3> QED
      BY <2>1, <3>3, <3>4, <3>5, <1>4
  <2>2. CASE ~(u.count % PollEvery = 0)
    BY <2>2, <1>3, <1>4, <1>5, TimeoutCheckGood DEF GoodUI
  <2> QED
    BY <2>1, <2>2
<1> QED
  BY <1>6 DEF IInv, TimerTick, server, transfers, files,
              ServerType, HandlersType, TransfersType, FilesType

LEMMA ClosePollErrorStep ==
    ASSUME IInv, ClosePollError
    PROVE  IInv'
<1>1. Tail(frames) \in Seq(Frame)
  BY TopFrame DEF IInv, HandlersType, ClosePollError, InHandler
<1>2. GoodUI(ui)' /\ frames' \in Seq(Frame)
  BY <1>1, PollListedGood DEF IInv, GoodUI, ClosePollError
<1> QED
  BY <1>2 DEF IInv, ClosePollError, server, transfers, files,
              ServerType, HandlersType, TransfersType, FilesType

LEMMA ResumePollStep ==
    ASSUME IInv, ResumePoll
    PROVE  IInv'
<1>1. Tail(frames) \in Seq(Frame)
  BY TopFrame DEF IInv, HandlersType, ResumePoll, Resumes, InHandler
<1>2. GoodUI(ui) /\ GoodUI(StopPreparing(ui))
  BY StopPreparingGood DEF IInv, GoodUI
<1>3. \/ DownloadGui(StopPreparing(ui), Tail(frames), TRUE)
      \/ TimeoutCheck(ui, Tail(frames))
  BY DEF ResumePoll
<1>4. GoodUI(ui)' /\ frames' \in Seq(Frame)
  <2>1. CASE DownloadGui(StopPreparing(ui), Tail(frames), TRUE)
    BY <2>1, <1>1, <1>2, DownloadGuiGood DEF GoodUI
  <2>2. CASE TimeoutCheck(ui, Tail(frames))
    BY <2>2, <1>1, <1>2, TimeoutCheckGood DEF GoodUI
  <2> QED
    BY <2>1, <2>2, <1>3
<1> QED
  BY <1>4 DEF IInv, ResumePoll, server, transfers, files,
              ServerType, HandlersType, TransfersType, FilesType

\* A timer started again counts from zero.
LEMMA AnswerContinueWaitingStep ==
    ASSUME IInv, NEW yes \in BOOLEAN, AnswerContinueWaiting(yes)
    PROVE  IInv'
<1>1. Tail(frames) \in Seq(Frame)
  BY TopFrame DEF IInv, HandlersType, AnswerContinueWaiting, InHandler
<1>2. GoodUI(ui)'
  <2>1. 0 \in 0 .. Timeout + 1 /\ 0 <= Timeout
    BY PanelAssumption
  <2>2. \/ ui' = [ui EXCEPT !.count = 0, !.timer = TRUE]
        \/ ui' = StopPreparing(ui)
    BY DEF AnswerContinueWaiting
  <2>3. GoodUI([ui EXCEPT !.count = 0, !.timer = TRUE])
    BY <2>1 DEF IInv, GoodUI, UI
  <2>4. GoodUI(StopPreparing(ui))
    BY StopPreparingGood DEF IInv, GoodUI
  <2> QED
    BY <2>2, <2>3, <2>4 DEF GoodUI
<1> QED
  BY <1>1, <1>2 DEF IInv, AnswerContinueWaiting, server, transfers, files,
                    ServerType, HandlersType, TransfersType, FilesType

-----------------------------------------------------------------------------
\* Downloads

\* The file of a slot of a chart set is one of the files.
LEMMA StartDownloadStep ==
    ASSUME IInv, StartDownload
    PROVE  IInv'
<1> DEFINE u == [ui EXCEPT !.chain = TRUE, !.aborting = FALSE]
<1>1. frames[1] \in Frame /\ Tail(frames) \in Seq(Frame)
  BY TopFrame DEF IInv, HandlersType, StartDownload, Resumes, InHandler
<1>2. GoodUI(u)
  BY DEF IInv, GoodUI, UI
<1>3. \/ ui' = u /\ frames' = Crash(Tail(frames))
      \/ TimeoutCheck(u, Tail(frames))
      \/ ui' = u /\ frames' = Tail(frames)
  BY DEF StartDownload
<1>4. ui.sel # NoChart => LinksOf(u) \subseteq Files
  <2> SUFFICES ASSUME ui.sel # NoChart PROVE LinksOf(u) \subseteq Files
    OBVIOUS
  <2>1. u.sel \in Charts /\ u.slot \in SlotIds
    BY <1>2 DEF IInv, GoodUI, UI
  <2>2. CASE IsDownloadable(u)
    BY <2>1, <2>2 DEF LinksOf, LinkOf, Files
  <2>3. CASE ~IsDownloadable(u)
    BY <2>3 DEF LinksOf, LinkOf, Files
  <2> QED
    BY <2>2, <2>3
<1> HIDE DEF u
<1>5. GoodUI(ui)' /\ frames' \in Seq(Frame)
  <2>1. CASE ui' = u /\ frames' = Crash(Tail(frames))
    BY <2>1, <1>1, <1>2, CrashType DEF GoodUI
  <2>2. CASE TimeoutCheck(u, Tail(frames))
    BY <2>2, <1>1, <1>2, TimeoutCheckGood DEF GoodUI
  <2>3. CASE ui' = u /\ frames' = Tail(frames)
    BY <2>3, <1>1, <1>2 DEF GoodUI
  <2> QED
    BY <2>1, <2>2, <2>3, <1>3
<1>6. TransfersType'
  <2>1. CASE UNCHANGED <<threads, handle, stream, target>>
    BY <2>1 DEF IInv, TransfersType
  <2>2. CASE \E t \in Tids \ Running, r \in Replies : \E f \in LinksOf(u) :
                /\ ui.sel # NoChart
                /\ threads' = [threads EXCEPT ![t] = [file |-> f, reply |-> r, open |-> TRUE]]
                /\ handle' = t /\ stream' = t /\ target' = target
    <3>1. PICK t \in Tids, r \in Replies, f \in LinksOf(u) :
                /\ ui.sel # NoChart
                /\ threads' = [threads EXCEPT ![t] = [file |-> f, reply |-> r, open |-> TRUE]]
                /\ handle' = t /\ stream' = t /\ target' = target
      BY <2>2
    <3>2. [file |-> f, reply |-> r, open |-> TRUE] \in Transfer
      BY <3>1, <1>4 DEF Transfer
    <3> QED
      BY <3>1, <3>2 DEF IInv, TransfersType
  <2> QED
    BY <2>1, <2>2 DEF StartDownload, u
<1>7. FilesType'
  <2>1. CASE /\ disk' = disk
             /\ dlFile' = dlFile \/ dlFile' = [dlFile EXCEPT ![ui.sel] = NoFile]
             /\ UNCHANGED <<dlPath, installed>>
    BY <2>1 DEF IInv, FilesType
  <2>2. CASE \E f \in LinksOf(u) :
                /\ ui.sel # NoChart
                /\ disk' = [disk EXCEPT ![f] = "part"]
                /\ dlFile' = [dlFile EXCEPT ![ui.sel] = f]
                /\ UNCHANGED <<dlPath, installed>>
    BY <2>2, <1>4 DEF IInv, FilesType, Contents
  <2> QED
    BY <2>1, <2>2 DEF StartDownload, u
<1> QED
  BY <1>5, <1>6, <1>7 DEF IInv, StartDownload, server, ServerType, HandlersType

LEMMA ProgressStep ==
    ASSUME IInv, NEW t \in Tids, Progress(t)
    PROVE  IInv'
<1>1. Size(threads[t]) \in [file : Files \cup {NoFile}, reply : Replies]
  BY DEF IInv, TransfersType, Transfer, Size
<1> QED
  BY <1>1 DEF IInv, Progress, server, files, GoodUI,
              ServerType, HandlersType, TransfersType, FilesType

LEMMA TransferEndsStep ==
    ASSUME IInv, NEW t \in Tids, TransferEnds(t)
    PROVE  IInv'
<1> DEFINE e == [type |-> "end", size |-> Size(threads[t])]
<1>1. Idle \in Transfer /\ threads[t] \in Transfer
  BY PanelAssumption DEF IInv, TransfersType, Idle, Transfer
<1>2. e \in Event
  BY <1>1 DEF Event, Size, Transfer
<1>3. pending' = Append(pending, e)
  BY DEF TransferEnds
<1> HIDE DEF e
<1>4. pending' \in Seq(Event)
  BY <1>2, <1>3, AppendProperties DEF IInv, HandlersType
<1>5. threads' \in [Tids -> Transfer]
  BY <1>1 DEF IInv, TransferEnds, TransfersType
<1>6. disk' \in [Files -> Contents]
  <2>1. threads[t].reply \in Contents
    BY <1>1 DEF Transfer, Contents
  <2>2. disk' \in BrokenOff(t) \/ disk' = [disk EXCEPT ![threads[t].file] = threads[t].reply]
    BY DEF TransferEnds
  <2> QED
    BY <2>1, <2>2, BrokenOffGood DEF IInv, FilesType
<1> QED
  BY <1>4, <1>5, <1>6 DEF IInv, TransferEnds, server, GoodUI,
                          ServerType, HandlersType, TransfersType, FilesType

\* A posted event is an event, and what is left are events.
LEMMA HeadEvent ==
    ASSUME pending \in Seq(Event), pending # <<>>
    PROVE  Head(pending) \in Event /\ Tail(pending) \in Seq(Event)
BY HeadTailProperties

LEMMA HandleEndStep ==
    ASSUME IInv, HandleEnd
    PROVE  IInv'
<1> DEFINE e == [type |-> "chain", size |-> Size(Idle)]
<1>1. Head(pending) \in Event /\ Tail(pending) \in Seq(Event)
  BY HeadEvent DEF IInv, HandlersType, HandleEnd, NextEvent
<1>2. e \in Event
  BY PanelAssumption DEF Event, Size, Idle
<1>3. pending' = Append(Tail(pending), e)
  BY DEF HandleEnd
<1> HIDE DEF e
<1>4. HandlersType'
  BY <1>1, <1>2, <1>3, AppendProperties DEF IInv, HandlersType, HandleEnd
<1>5. GoodUI(ui)'
  BY DEF IInv, GoodUI, UI, HandleEnd, TransferEnded
<1>6. TransfersType'
  <2>1. target' \in [file : Files \cup {NoFile}, reply : Replies]
    BY <1>1 DEF HandleEnd, Event
  <2>2. \/ threads' = threads
        \/ stream \in Tids /\ threads' = [threads EXCEPT ![stream].open = FALSE]
    BY DEF IInv, HandleEnd, TransfersType
  <2>3. threads' \in [Tids -> Transfer]
    BY <2>2 DEF IInv, TransfersType, Transfer
  <2> QED
    BY <2>1, <2>3 DEF TransfersType, HandleEnd
<1>7. FilesType'
  <2>1. /\ disk' = disk \/ disk' = [disk EXCEPT ![dlFile[ui.sel]] = "absent"]
        /\ dlFile' = dlFile \/ dlFile' = [dlFile EXCEPT ![ui.sel] = NoFile]
        /\ UNCHANGED <<dlPath, installed>>
    BY DEF HandleEnd, Discard
  <2> QED
    BY <2>1 DEF IInv, FilesType, Contents
<1> QED
  BY <1>4, <1>5, <1>6, <1>7 DEF IInv, HandleEnd, server, ServerType

-----------------------------------------------------------------------------
\* Installation

LEMMA HandleChainStep ==
    ASSUME IInv, HandleChain
    PROVE  IInv'
<1>1. pending' \in Seq(Event)
  BY HeadEvent DEF IInv, HandlersType, HandleChain, NextEvent
<1>2. GoodUI(ui)'
  <2> DEFINE u == [ui EXCEPT !.chain = FALSE]
  <2>1. ui' \in {ui, [u EXCEPT !.aborting = FALSE], [u EXCEPT !.override = ""]}
    BY DEF HandleChain
  <2>2. GoodUI(ui) /\ GoodUI(u)
    BY FlagsGood DEF IInv
  <2> HIDE DEF u
  <2> QED
    BY <2>1, <2>2, FlagsGood
<1>3. ui.sel \in Charts \cup {NoChart} /\ frames \in Seq(Frame)
  BY DEF IInv, GoodUI, UI, HandlersType
<1>4. frames' \in Seq(Frame)
  <2>1. \/ frames' = frames
        \/ frames' = Crash(frames)
        \/ frames' = Modal("endBox", ui.sel, 0, None, frames)
        \/ frames' = Modal("proceed", ui.sel, 0, None, frames)
    BY DEF HandleChain
  <2>2. {"endBox", "proceed"} \subseteq Pcs /\ 0 \in SlotIds
    BY DEF Pcs, SlotIds
  <2>3. Crash(frames) \in Seq(Frame)
    BY <1>3, CrashType
  <2>4. \A pc \in {"endBox", "proceed"} : Modal(pc, ui.sel, 0, None, frames) \in Seq(Frame)
    BY <1>3, <2>2, ModalType
  <2> QED
    BY <1>3, <2>1, <2>3, <2>4
<1>5. FilesType'
  <2>1. \/ dlPath' = dlPath
        \/ ui.sel \in Charts /\ dlPath' = [dlPath EXCEPT ![ui.sel][ui.slot] = dlFile[ui.sel]]
    BY <1>3 DEF HandleChain
  <2>2. /\ dlPath \in [Charts -> [SlotIds -> Files \cup {NoFile}]]
        /\ ui.sel \in Charts => dlFile[ui.sel] \in Files \cup {NoFile}
    BY DEF IInv, FilesType
  <2>3. dlPath' \in [Charts -> [SlotIds -> Files \cup {NoFile}]]
    BY <2>1, <2>2
  <2> QED
    BY <2>3 DEF IInv, FilesType, HandleChain
<1> QED
  BY <1>1, <1>2, <1>4, <1>5 DEF IInv, HandleChain, server, transfers,
                                ServerType, HandlersType, TransfersType

LEMMA AnswerProceedStep ==
    ASSUME IInv, NEW yes \in BOOLEAN, AnswerProceed(yes)
    PROVE  IInv'
<1>1. frames[1] \in Frame /\ Tail(frames) \in Seq(Frame)
  BY TopFrame DEF IInv, HandlersType, AnswerProceed, InHandler
<1>2. GoodUI(ui)' /\ ui.slot \in SlotIds
  <2>1. \/ ui' = [ui EXCEPT !.override = "Installing charts"]
        \/ ui' = [ui EXCEPT !.installOn = TRUE]
    BY DEF AnswerProceed
  <2>2. GoodUI(ui) /\ ui.slot \in SlotIds
    BY DEF IInv, GoodUI, UI
  <2> QED
    BY <2>1, <2>2, FlagsGood
<1>3. frames' \in Seq(Frame)
  <2>1. \/ frames' = Tail(frames)
        \/ frames' = Modal("chooseDir", frames[1].chart, ui.slot, None, Tail(frames))
    BY DEF AnswerProceed
  <2>2. "chooseDir" \in Pcs /\ frames[1].chart \in Charts \cup {NoChart}
    BY <1>1 DEF Pcs, Frame
  <2> QED
    BY <1>1, <1>2, <2>1, <2>2, ModalType
<1> QED
  BY <1>2, <1>3 DEF IInv, AnswerProceed, server, transfers, files,
                    ServerType, HandlersType, TransfersType, FilesType

\* The end of OnButtonInstallChain.
LEMMA AfterUnzipGood ==
    ASSUME GoodUI(ui), NEW fs \in Seq(Frame), AfterUnzip(fs)
    PROVE  GoodUI(ui)' /\ frames' \in Seq(Frame)
<1> DEFINE u == [ui EXCEPT !.override = ""]
<1>1. u \in UI /\ (u.timer => u.count <= Timeout)
  BY DEF GoodUI, UI
<1>2. ui' = [UpdateChartList(u) EXCEPT !.installOn = TRUE] /\ frames' = fs
  BY DEF AfterUnzip
<1> HIDE DEF u
<1>3. GoodUI(UpdateChartList(u))
  BY <1>1, ChartListGood
<1> QED
  BY <1>2, <1>3 DEF GoodUI, UI

LEMMA ChooseDirStep ==
    ASSUME IInv, NEW chosen \in BOOLEAN, ChooseDir(chosen)
    PROVE  IInv'
<1>1. frames[1] \in Frame /\ Tail(frames) \in Seq(Frame)
  BY TopFrame DEF IInv, HandlersType, ChooseDir, InHandler
<1>2. CASE chosen
  <2>1. /\ ui' = ui
        /\ frames' = Yield("unzip", frames[1].chart, frames[1].slot, FALSE, Tail(frames))
    BY <1>2 DEF ChooseDir
  <2>2. /\ "unzip" \in Pcs
        /\ frames[1].chart \in Charts \cup {NoChart} /\ frames[1].slot \in SlotIds
    BY <1>1 DEF Pcs, Frame
  <2>3. frames' \in Seq(Frame)
    BY <1>1, <2>1, <2>2, YieldType
  <2> QED
    BY <2>1, <2>3 DEF IInv, ChooseDir, server, transfers, files, GoodUI,
                      ServerType, HandlersType, TransfersType, FilesType
<1>3. CASE ~chosen
  <2>1. GoodUI(ui)' /\ frames' \in Seq(Frame)
    BY <1>1, <1>3, AfterUnzipGood DEF IInv, ChooseDir
  <2> QED
    BY <2>1 DEF IInv, ChooseDir, server, transfers, files,
                ServerType, HandlersType, TransfersType, FilesType
<1> QED
  BY <1>2, <1>3

LEMMA UnzipStep ==
    ASSUME IInv, Unzip
    PROVE  IInv'
<1> DEFINE c == frames[1].chart  s == frames[1].slot  zip == dlPath[c][s]
<1>1. Tail(frames) \in Seq(Frame) /\ frames[1] \in Frame
  BY TopFrame DEF IInv, HandlersType, Unzip, Resumes, InHandler
<1>2. frames' \in Seq(Frame)
  BY <1>1, ModalType DEF Unzip, Pcs, SlotIds
<1>3. GoodUI(ui)'
  <2>1. ui' = ui \/ ui' = [ui EXCEPT !.override = ""]
    BY DEF Unzip
  <2>2. GoodUI(ui)
    BY DEF IInv
  <2> QED
    BY <2>1, <2>2, FlagsGood
<1>4. FilesType'
  <2>1. CASE UNCHANGED <<installed, disk>>
    BY <2>1 DEF IInv, FilesType, Unzip
  <2>2. CASE /\ installed' = [installed EXCEPT ![c][s] = zip]
             /\ disk' = [disk EXCEPT ![zip] = "absent"]
    <3>1. c \in Charts \cup {NoChart} /\ s \in SlotIds
      BY <1>1 DEF Frame
    <3>2. c \in Charts => zip \in Files \cup {NoFile}
      BY <3>1 DEF IInv, FilesType
    <3> HIDE DEF c, s, zip
    <3>3. installed' \in [Charts -> [SlotIds -> Files \cup {NoFile}]]
      BY <2>2, <3>1, <3>2 DEF IInv, FilesType
    <3>4. disk' \in [Files -> Contents]
      BY <2>2 DEF IInv, FilesType, Contents
    <3> QED
      BY <3>3, <3>4 DEF IInv, FilesType, Unzip
  <2> QED
    BY <2>1, <2>2 DEF Unzip
<1> QED
  BY <1>2, <1>3, <1>4 DEF IInv, Unzip, server, transfers,
                          ServerType, HandlersType, TransfersType

LEMMA CloseUnzipDoneStep ==
    ASSUME IInv, CloseUnzipDone
    PROVE  IInv'
<1>1. Tail(frames) \in Seq(Frame)
  BY TopFrame DEF IInv, HandlersType, CloseUnzipDone, InHandler
<1>2. GoodUI(ui)' /\ frames' \in Seq(Frame)
  BY <1>1, AfterUnzipGood DEF IInv, CloseUnzipDone
<1> QED
  BY <1>2 DEF IInv, CloseUnzipDone, server, transfers, files,
              ServerType, HandlersType, TransfersType, FilesType

-----------------------------------------------------------------------------
\* The server and the USB port

LEMMA AccountSteps ==
    ASSUME IInv,
           \/ \E c \in Charts, s \in SlotIds : ServerPrepares(c, s)
           \/ \E c \in Charts : ServerExpires(c)
           \/ \E c \in Charts, s \in SlotIds, n \in Names : OtherAssigns(c, s, n)
           \/ \E d \in Dongles : Plug(d)
    PROVE  IInv'
<1>1. Unused /\ calm' = calm
  BY DEF ServerPrepares, ServerExpires, OtherAssigns, Plug
<1>2. srv \in [Charts -> [SlotIds -> ServerSlot]]
  BY DEF IInv, ServerType
<1>3. ServerType'
  <2>1. ASSUME NEW c \in Charts, NEW s \in SlotIds, ServerPrepares(c, s)
        PROVE  ServerType'
    <3>1. srv[c][s].sys \in Names \cup {None} /\ "download" \in States
      BY <1>2 DEF ServerSlot, States
    <3>2. SetSlot(c, s, srv[c][s].sys, "download") \in [Charts -> [SlotIds -> ServerSlot]]
      BY <1>2, <3>1, SetSlotType
    <3> QED
      BY <2>1, <3>2 DEF IInv, ServerType, ServerPrepares
  <2>2. ASSUME NEW c \in Charts, ServerExpires(c)
        PROVE  ServerType'
    <3> DEFINE slots == [s \in SlotIds |-> IF srv[c][s].sys = None THEN srv[c][s]
                                           ELSE [srv[c][s] EXCEPT !.stat = "expired"]]
    <3>1. \A s \in SlotIds : srv[c][s] \in ServerSlot
      BY <1>2
    <3>2. slots \in [SlotIds -> ServerSlot]
      BY <3>1 DEF ServerSlot, States
    <3>3. srv' = [srv EXCEPT ![c] = slots]
      BY <2>2, <1>2 DEF ServerExpires
    <3> HIDE DEF slots
    <3> QED
      BY <2>2, <3>2, <3>3 DEF IInv, ServerType, ServerExpires
  <2>3. ASSUME NEW c \in Charts, NEW s \in SlotIds, NEW n \in Names, OtherAssigns(c, s, n)
        PROVE  ServerType'
    <3>1. SetSlot(c, s, n, "requestable") \in [Charts -> [SlotIds -> ServerSlot]]
      <4>1. "requestable" \in States
        BY DEF States
      <4> QED
        BY <4>1, <1>2, SetSlotType
    <3> QED
      BY <2>3, <3>1 DEF IInv, ServerType, OtherAssigns
  <2>4. ASSUME NEW d \in Dongles, Plug(d)
        PROVE  ServerType'
    BY <2>4 DEF IInv, ServerType, Plug
  <2> QED
    BY <2>1, <2>2, <2>3, <2>4
<1> QED
  BY <1>1, <1>3 DEF IInv, Unused, transfers, files, GoodUI,
                    HandlersType, TransfersType, FilesType

-----------------------------------------------------------------------------
\* The theorems

LEMMA HandlerStep ==
    ASSUME IInv, Handler
    PROVE  IInv'
BY CloseSteps, ResumeUpdateStep, ConfirmAssignStep, PrepareStep, ClosePollErrorStep,
   ResumePollStep, AnswerContinueWaitingStep, StartDownloadStep, HandleEndStep,
   HandleChainStep, AnswerProceedStep, ChooseDirStep, UnzipStep, CloseUnzipDoneStep
   DEF Handler

\* Every step of the program and of its environment preserves the invariant.
LEMMA StepGood == IInv /\ [Next]_vars => IInv'
<1> SUFFICES ASSUME IInv, [Next]_vars PROVE IInv'
  OBVIOUS
<1>1. CASE User
  BY <1>1, ClickChartStep, ClickUpdateStep, ClickInstallStep, ClickCancelStep DEF User
<1>2. CASE Handler
  BY <1>2, HandlerStep
<1>3. CASE TimerTick
  BY <1>3, TimerTickStep
<1>4. CASE Environment
  BY <1>4, ProgressStep, TransferEndsStep, AccountSteps DEF Environment
<1>5. CASE UNCHANGED vars
  BY <1>5 DEF IInv, vars, server, transfers, files, GoodUI,
              ServerType, HandlersType, TransfersType, FilesType
<1> QED
  BY <1>1, <1>2, <1>3, <1>4, <1>5 DEF Next

LEMMA Inductive == Spec => []IInv
<1> QED
  BY InitGood, StepGood, PTL DEF Spec

\* The members of the panel, the handlers and events, the transfers and the files
\* have their types in every state; for the timer's counter that is the bound its
\* increments never leave (shopPanel, OnPrepareTimer).
THEOREM TypeCorrect == Spec => []TypeOK
<1>1. IInv => TypeOK
  BY DEF IInv, GoodUI, ServerType, HandlersType, TransfersType, FilesType, TypeOK
<1> QED
  BY <1>1, Inductive, PTL

\* A preparation timer that runs has not passed its timeout, however many handlers
\* are suspended in dialogs or inside each other, in every event loop
\* (OnPrepareTimer: its count is tested on every path that does not end it).
THEOREM TimeoutRespected == Spec => []CountBounded
<1>1. IInv => CountBounded
  BY DEF IInv, GoodUI, CountBounded
<1> QED
  BY <1>1, Inductive, PTL

\* The chart selected is one of those listed, in every environment: no path through
\* the handlers rebuilds the panels and keeps a selection that is not among them
\* (UpdateChartList, SelectChart).
THEOREM SelectionIsListed == Spec => []SelectionListed
<1>1. IInv => SelectionListed
  BY DEF IInv, GoodUI, SelectionListed
<1> QED
  BY <1>1, Inductive, PTL
=============================================================================
