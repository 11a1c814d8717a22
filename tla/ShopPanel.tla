------------------------------ MODULE ShopPanel ------------------------------
(***************************************************************************)
(* The chart shop panel of the plugin (ochartShop.cpp, class shopPanel) as  *)
(* its desktop build runs: one GUI thread that executes event handlers, a   *)
(* download thread per transfer, the o-charts server, and a user.           *)
(*                                                                          *)
(* A handler does not run to completion.  It is suspended inside wxYield()  *)
(* and inside every message box, and other handlers run meanwhile.  `frames`*)
(* is the stack of suspended handlers, innermost first:                     *)
(*   "yield"  the events that are ready run, the user's included; wxYield   *)
(*            returns when no posted event is left;                         *)
(*   "modal"  a dialog is up: the panel takes no clicks, but the timer and  *)
(*            the posted events still run;                                  *)
(*   "call"   nothing else runs on the GUI thread (a blocking request, or a *)
(*            wxYield called inside another one, which returns at once).    *)
(* The members and globals a handler reads and writes are the record `ui`;  *)
(* each function of the code is an operator from ui to ui.                  *)
(*                                                                          *)
(* Two environments are modelled.  Any event loop and user: a timer may be  *)
(* handled inside its own handler (the event loop of Windows does that) and *)
(* the user clicks on whatever is shown.  And a calm one: the event loop of *)
(* GTK or macOS, which does not, and a user who, while a handler, a         *)
(* preparation or a transfer is under way, presses nothing but Cancel and   *)
(* Refresh, leaves the dongle alone, and does not ask to continue waiting   *)
(* for a transfer that is running.                                          *)
(*                                                                          *)
(* Operators named Mut... are mutants: nothing uses them, each is a mistake *)
(* the definition after it might have been written with.                    *)
(***************************************************************************)
EXTENDS ShopSlots, Sequences, FiniteSets

CONSTANTS Charts,         \* chart sets of the account
          NoChart,
          Me,             \* g_systemName, chosen before
          PollEvery,      \* ticks between two status queries    (10 in the code)
          Timeout,        \* ticks before the user is asked      (60)
          FirstCount,     \* value the tick counter starts from  (8)
          Calms,          \* environments to consider, see `calm`
          Replies,        \* what a transfer may bring, see Contents
          MaxTransfers,   \* bound: transfers running or with an event to handle
          MaxNesting      \* bound: suspended handlers

ASSUME PanelAssumption ==
    /\ NoChart \notin Charts
    /\ Me \in SystemNames
    /\ Calms \subseteq BOOLEAN
    /\ "zip" \in Replies /\ Replies \subseteq {"zip", "page"}
    /\ PollEvery \in Nat \ {0, 1} /\ Timeout \in Nat \ {0} /\ FirstCount \in 0 .. Timeout
    /\ Timeout % PollEvery = 0 /\ FirstCount < PollEvery
    /\ MaxTransfers \in Nat \ {0} /\ MaxNesting \in Nat \ {0}

\* The zip file of a slot, and the contents such a file can have: not there, cut
\* short, the chart set cut short by less than a thousandth of its length, the whole
\* chart set, or the page of an HTTP error (the transfer stores it too).
Files    == Charts \X SlotIds
NoFile   == <<NoChart, 0>>
Contents == {"absent", "part", "most"} \cup Replies

\* A transfer: the file it writes, what the server answers, and whether the
\* stream it writes to is still open.
Transfer == [file : Files \cup {NoFile}, reply : Replies, open : BOOLEAN]
Idle     == [file |-> NoFile, reply |-> "zip", open |-> FALSE]
Tids     == 1 .. MaxTransfers
NoThread == 0

\* A size as the progress events report it: that of the reply to a transfer.
Size(t) == [file |-> t.file, reply |-> t.reply]

VARIABLES
    srv,         \* the account at the server: system and state of every slot
    plugged,     \* the dongle in the USB port
    calm,        \* the environment is calm (below); never changes
    ui,          \* the panel and the shop's globals, see UI
    frames,      \* suspended handlers
    pending,     \* posted events not handled yet
    threads,     \* running transfers
    handle,      \* g_curlDownloadThread
    stream,      \* downloadOutStream: the thread whose file it is
    target,      \* g_targetDownloadSize: the transfer last reported on
    disk,        \* contents of the download directory
    dlFile,      \* itemChart::downloadingFile
    dlPath,      \* itemChart::fileDownloadPath0/1
    installed    \* zip the charts of a slot were installed from

server    == <<srv, plugged, calm>>
transfers == <<threads, handle, stream, target>>
files     == <<disk, dlFile, dlPath, installed>>
vars      == <<server, ui, frames, pending, transfers, files>>

ServerSlot == [sys : Names \cup {None}, stat : States]

UI == [view         : [Charts -> [SlotIds -> ServerSlot]],  \* g_ChartArray
       listOK       : BOOLEAN,                 \* g_chartListUpdatedOK
       dongle       : Dongles \cup {None},     \* g_dongleName
       sel          : Charts \cup {NoChart},   \* m_ChartSelected
       last         : Charts \cup {NoChart},   \* m_ChartSelectedID, Order, Qty
       panels       : SUBSET Charts,           \* m_panelArray
       slot         : SlotIds,                 \* m_activeSlot
       installShown : BOOLEAN,                 \* m_buttonInstall
       installOn    : BOOLEAN,
       cancelShown  : BOOLEAN,                 \* m_buttonCancelOp
       updateOn     : BOOLEAN,                 \* m_buttonUpdate
       override     : {"", "Downloading...", "Installing charts"},
       timer        : BOOLEAN,                 \* m_prepareTimer.IsRunning()
       count        : 0 .. Timeout + 1,            \* m_prepareTimerCount
       chain        : BOOLEAN,                 \* m_binstallChain
       aborting     : BOOLEAN]                 \* m_bAbortingDownload

Pcs == {"refresh", "box", "assignConfirm", "prepare", "uploadFailed", "assignFailed",
        "prepareFailed", "pollError", "pollYield", "download", "continueWaiting",
        "endBox", "proceed", "chooseDir", "unzip", "unzipDone", "crash"}

\* `flag` is a local of the suspended handler: bDownloadReady of a poll, or whether
\* the download was started by the timer's handler.
Frame == [kind : {"yield", "modal", "call"}, pc : Pcs,
          chart : Charts \cup {NoChart}, slot : SlotIds,
          name : Names \cup {None}, flag : BOOLEAN]

\* Posted events: the end of a transfer, with the last size it reported, and the
\* event that chains from it to the installation.
Event == [type : {"end", "chain"}, size : [file : Files \cup {NoFile}, reply : Replies]]

TypeOK ==
    /\ srv \in [Charts -> [SlotIds -> ServerSlot]]
    /\ plugged \in Dongles \cup {None}
    /\ calm \in BOOLEAN
    /\ ui \in UI
    /\ frames \in Seq(Frame)
    /\ pending \in Seq(Event)
    /\ threads \in [Tids -> Transfer]
    /\ handle \in Tids \cup {NoThread}
    /\ stream \in Tids \cup {NoThread}
    /\ target \in [file : Files \cup {NoFile}, reply : Replies]
    /\ disk \in [Files -> Contents]
    /\ dlFile \in [Charts -> Files \cup {NoFile}]
    /\ dlPath \in [Charts -> [SlotIds -> Files \cup {NoFile}]]
    /\ installed \in [Charts -> [SlotIds -> Files \cup {NoFile}]]

-----------------------------------------------------------------------------
\* Suspended handlers

TopKind == IF frames = <<>> THEN "idle" ELSE frames[1].kind

\* Timer and posted events run in every event loop, clicks not under a dialog.
EventsRun == TopKind # "call"
ClicksRun == TopKind \in {"idle", "yield"} /\ Len(frames) < MaxNesting

InHandler(pc) == frames # <<>> /\ frames[1].pc = pc

Push(kind, pc, c, s, n, flag, fs) ==
    <<[kind |-> kind, pc |-> pc, chart |-> c, slot |-> s, name |-> n, flag |-> flag]>> \o fs

Modal(pc, c, s, n, fs) == Push("modal", pc, c, s, n, FALSE, fs)

\* wxYield() inside an event loop that is already yielding returns at once.
Yield(pc, c, s, flag, fs) ==
    Push(IF fs # <<>> /\ fs[1].kind = "yield" THEN "call" ELSE "yield", pc, c, s, None, flag, fs)

Crash(fs) == Push("call", "crash", NoChart, 0, None, FALSE, fs)

\* wxYield() returns when the posted events have been handled.
Resumes(pc) == InHandler(pc) /\ (frames[1].kind = "yield" => pending = <<>>)

-----------------------------------------------------------------------------
\* The panel's functions

\* The chart record the decisions of ShopSlots read.
ChartOf(u, c) ==
    [s \in SlotIds |-> [sys |-> u.view[c][s].sys, stat |-> u.view[c][s].stat,
                        inst |-> IF installed[c][s] = NoFile THEN "nothing" ELSE "current"]]

StatusOf(u, c) == ChartStatus(ChartOf(u, c), Me, u.dongle, u.listOK, "UNKNOWN")

UpdateActionControls(u) ==
    [u EXCEPT !.installShown = u.sel # NoChart /\ StatusOf(u, u.sel) \in Offered,
              !.installOn    = @ \/ u.sel = NoChart \/ u.override = ""]

SelectChart(u, c) == IF u.sel = c THEN u ELSE UpdateActionControls([u EXCEPT !.sel = c])

MutUpdateChartList(u) ==
    UpdateActionControls([u EXCEPT !.panels = {c \in Charts : u.listOK}, !.sel = NoChart])

MutKeepSelection(u) ==
    UpdateActionControls(
        [u EXCEPT !.panels = {c \in Charts : u.listOK /\ Shown(ChartOf(u, c), Me, u.dongle)}])

\* The panels are built anew, and the chart selected last is selected again.
UpdateChartList(u) ==
    LET last   == IF u.sel = NoChart THEN u.last ELSE u.sel
        panels == {c \in Charts : u.listOK /\ Shown(ChartOf(u, c), Me, u.dongle)}
    IN UpdateActionControls([u EXCEPT !.last = last, !.panels = panels,
                                      !.sel  = IF last \in panels THEN last ELSE NoChart])

\* The responses to getlist, assign and request list every slot of the account.
Listed(u, account) == [u EXCEPT !.view = account]

\* The user can no longer cancel the preparation, which is over.
MutStopPreparing(u) == [u EXCEPT !.cancelShown = FALSE]
StopPreparing(u) == [u EXCEPT !.cancelShown = FALSE, !.timer = FALSE]

MutIsDownloadable(u) == u.view[u.sel][u.slot].stat \in {"processing", "download"}
IsDownloadable(u) == u.view[u.sel][u.slot].stat = "download"

MutDownloadGui(u, fs, byTimer) ==
    /\ ui' = UpdateChartList([u EXCEPT !.cancelShown = TRUE, !.override = "Downloading..."])
    /\ frames' = Yield("download", NoChart, 0, byTimer, fs)

\* doDownloadGui up to its wxYield; `byTimer` tells OnPrepareTimer called it.
DownloadGui(u, fs, byTimer) ==
    /\ ui' = UpdateChartList([u EXCEPT !.cancelShown = TRUE, !.updateOn = FALSE,
                                       !.override = "Downloading..."])
    /\ frames' = Yield("download", NoChart, 0, byTimer, fs)

MutTimeoutOnce(u, fs) ==
    IF u.count = Timeout
    THEN /\ ui' = [u EXCEPT !.timer = FALSE]
         /\ frames' = Modal("continueWaiting", NoChart, 0, None, fs)
    ELSE ui' = u /\ frames' = fs

MutTimeoutNever(u, fs) == ui' = u /\ frames' = fs

MutTimeoutRestarts(u, fs) ==
    ui' = [u EXCEPT !.count = IF @ >= Timeout THEN 0 ELSE @] /\ frames' = fs

\* The end of OnPrepareTimer.
TimeoutCheck(u, fs) ==
    IF u.count >= Timeout
    THEN /\ ui' = [u EXCEPT !.timer = FALSE]
         /\ frames' = Modal("continueWaiting", NoChart, 0, None, fs)
    ELSE ui' = u /\ frames' = fs

-----------------------------------------------------------------------------
\* Chart panels and the Refresh, Install and Cancel buttons

UserActs == ClicksRun /\ (calm => frames = <<>>)

Busy == ui.timer \/ ui.override # "" \/ handle # NoThread \/ pending # <<>>

\* oeSencChartPanel::DoChartSelected
ClickChart(c) ==
    /\ UserActs /\ c \in ui.panels
    /\ calm => ~Busy
    /\ ui.override = ""
    /\ ui' = SelectChart(ui, IF ui.sel = c THEN NoChart ELSE c)
    /\ UNCHANGED <<server, frames, pending, transfers, files>>

\* OnButtonUpdate up to its wxYield.
ClickUpdate ==
    /\ UserActs /\ ui.updateOn
    /\ ui' = [ui EXCEPT !.dongle = plugged]
    /\ frames' = Yield("refresh", NoChart, 0, FALSE, frames)
    /\ UNCHANGED <<server, pending, transfers, files>>

\* Then the list is requested, or an error is shown and the handler returns.
ResumeUpdate ==
    /\ Resumes("refresh")
    /\ \/ /\ ui' = UpdateChartList([Listed(ui, srv) EXCEPT !.listOK = TRUE])
          /\ frames' = Tail(frames)
       \/ /\ frames' = Modal("box", NoChart, 0, None, Tail(frames))
          /\ UNCHANGED ui
    /\ UNCHANGED <<server, pending, transfers, files>>

\* OnButtonInstall up to the download, the first request or the first dialog.
ClickInstall ==
    /\ UserActs /\ ui.installShown /\ ui.installOn
    /\ calm => ~Busy
    /\ LET u   == [ui EXCEPT !.dongle = plugged]
           c   == ui.sel
           act == ActiveSlotAction(ChartOf(u, c), Me, plugged)
           v   == [u EXCEPT !.slot = act.slot, !.installOn = FALSE, !.cancelShown = TRUE]
       IN \/ /\ c = NoChart
             /\ ui' = u /\ frames' = Crash(frames)
          \/ /\ c # NoChart /\ act = NoAction
             /\ ui' = u /\ frames' = Modal("box", NoChart, 0, None, frames)
          \/ /\ c # NoChart /\ act.action \in {"DOWNLOAD_DONGLE", "DOWNLOAD_SYSTEM"}
             /\ DownloadGui(v, frames, FALSE)
          \/ /\ c # NoChart /\ act.action \in {"REQUEST_DONGLE", "REQUEST_SYSTEM"}
             /\ ui' = [v EXCEPT !.last = c]
             /\ frames' = Push("call", "prepare", c, act.slot, None, FALSE, frames)
          \/ /\ c # NoChart /\ act.action \in {"ASSIGN_DONGLE", "ASSIGN_SYSTEM"}
             /\ ui' = v
             /\ LET n == IF act.action = "ASSIGN_DONGLE" THEN plugged ELSE Me
                IN \/ frames' = Modal("assignConfirm", c, act.slot, n, frames)
                   \/ frames' = Modal("uploadFailed", c, act.slot, n, frames)
    /\ UNCHANGED <<server, pending, transfers, files>>

\* What a transfer that is broken off may have stored of its reply.  (A page is too
\* short to lack less than a thousandth of its length.)
BrokenOff(t) ==
    LET f == threads[t].file
    IN {disk} \cup {d \in {[disk EXCEPT ![f] = "most"]} :
                       disk[f] = "part" /\ threads[t].reply = "zip"}

\* OnButtonCancelOp.  Abort() joins the thread, whose end event stays posted.
ClickCancel ==
    /\ UserActs /\ ui.cancelShown
    /\ LET t       == IF handle = NoThread THEN Idle ELSE threads[handle]
           running == t # Idle
       IN /\ ui' = UpdateChartList(
                [ui EXCEPT !.timer = FALSE, !.cancelShown = FALSE, !.override = "",
                           !.installOn = TRUE,
                           !.aborting = @ \/ handle # NoThread,
                           !.chain = @ \/ handle # NoThread])
          /\ IF running
             THEN /\ threads' = [threads EXCEPT ![handle] = Idle]
                  /\ pending' = Append(pending, [type |-> "end", size |-> Size(t)])
                  /\ disk' \in BrokenOff(handle)
             ELSE UNCHANGED <<threads, pending, disk>>
    /\ UNCHANGED <<server, frames, handle, stream, target, dlFile, dlPath, installed>>

-----------------------------------------------------------------------------
\* OnButtonInstall after its dialogs: doAssign, doPrepareGUI

\* What the server does with a request; it may do it although the reply is lost.
CanAssign(c, s, n)  == /\ srv[c][s].sys = None
                       /\ \A o \in SlotIds : srv[c][o].sys # n
CanPrepare(c, s, n) == srv[c][s] = [sys |-> n, stat |-> "requestable"]

SetSlot(c, s, n, stat) == [srv EXCEPT ![c][s] = [sys |-> n, stat |-> stat]]

CloseUploadFailed ==
    /\ InHandler("uploadFailed")
    /\ ui' = [ui EXCEPT !.override = ""]
    /\ frames' = Tail(frames)
    /\ UNCHANGED <<server, pending, transfers, files>>

RefuseAssign ==
    /\ InHandler("assignConfirm")
    /\ ui' = [ui EXCEPT !.override = "", !.installOn = TRUE]
    /\ frames' = Tail(frames)
    /\ UNCHANGED <<server, pending, transfers, files>>

\* doAssign: the assignment is made with the arguments of the call, for good.
ConfirmAssign ==
    /\ InHandler("assignConfirm")
    /\ LET c == frames[1].chart  s == frames[1].slot  n == frames[1].name
       IN \/ /\ CanAssign(c, s, n)
             /\ srv' = SetSlot(c, s, n, "requestable")
             /\ ui'  = [Listed(ui, srv') EXCEPT !.last = c]
             /\ frames' = Push("call", "prepare", c, s, None, FALSE, Tail(frames))
          \/ /\ CanAssign(c, s, n)
             /\ srv' = SetSlot(c, s, n, "requestable")
             /\ frames' = Modal("assignFailed", c, s, n, Tail(frames))
             /\ UNCHANGED ui
          \/ /\ frames' = Modal("assignFailed", c, s, n, Tail(frames))
             /\ UNCHANGED <<srv, ui>>
    /\ UNCHANGED <<plugged, calm, pending, transfers, files>>

CloseAssignFailed ==
    /\ InHandler("assignFailed")
    /\ ui' = [ui EXCEPT !.override = "", !.installOn = TRUE]
    /\ frames' = Tail(frames)
    /\ UNCHANGED <<server, pending, transfers, files>>

\* doPrepareGUI and doPrepare work on the selected chart and the active slot.
Prepare ==
    /\ InHandler("prepare")
    /\ LET u == [ui EXCEPT !.cancelShown = TRUE, !.count = FirstCount]
           c == ui.sel  s == ui.slot  n == ui.view[c][s].sys
       IN IF c = NoChart THEN ui' = u /\ frames' = Crash(Tail(frames)) /\ UNCHANGED srv
          ELSE \/ /\ IsDownloadable(u)
                  /\ ui' = [u EXCEPT !.timer = TRUE]
                  /\ frames' = Tail(frames)
                  /\ UNCHANGED srv
               \/ /\ ~IsDownloadable(u) /\ CanPrepare(c, s, n)
                  /\ srv' = SetSlot(c, s, n, "processing")
                  /\ ui' = [Listed(u, srv') EXCEPT !.timer = TRUE]
                  /\ frames' = Tail(frames)
               \/ /\ ~IsDownloadable(u) /\ CanPrepare(c, s, n)
                  /\ srv' = SetSlot(c, s, n, "processing")
                  /\ ui' = u /\ frames' = Modal("prepareFailed", c, s, None, Tail(frames))
               \/ /\ ~IsDownloadable(u)
                  /\ ui' = u /\ frames' = Modal("prepareFailed", c, s, None, Tail(frames))
                  /\ UNCHANGED srv
    /\ UNCHANGED <<plugged, calm, pending, transfers, files>>

ClosePrepareFailed ==
    /\ InHandler("prepareFailed")
    /\ ui' = StopPreparing(ui)
    /\ frames' = Tail(frames)
    /\ UNCHANGED <<server, pending, transfers, files>>

-----------------------------------------------------------------------------
\* OnPrepareTimer

\* Handlers the timer's own handler is suspended in.
InTimerHandler == \E i \in DOMAIN frames :
    \/ frames[i].pc \in {"pollError", "pollYield", "continueWaiting"}
    \/ frames[i].pc = "download" /\ frames[i].flag

\* The poll after the list was received (or an error ignored).
PollListed(u, fs) ==
    IF u.sel = NoChart
    THEN ui' = StopPreparing(u) /\ frames' = fs
    ELSE /\ ui' = UpdateChartList(u)
         /\ frames' = Yield("pollYield", NoChart, 0, IsDownloadable(u), fs)

\* The event loops of GTK and macOS do not run a timer inside its own handler,
\* that of Windows does.  No dialog is shown for an error code of the server, but
\* one is for a response that is not 200.
TimerTick ==
    /\ EventsRun /\ ui.timer /\ Len(frames) < MaxNesting
    /\ calm => ~InTimerHandler
    /\ LET u == [ui EXCEPT !.count = @ + 1]
       IN IF u.count % PollEvery = 0
          THEN \/ PollListed(Listed(u, srv), frames)
               \/ PollListed(u, frames)
               \/ ui' = u /\ frames' = Modal("pollError", NoChart, 0, None, frames)
          ELSE TimeoutCheck(u, frames)
    /\ UNCHANGED <<server, pending, transfers, files>>

ClosePollError ==
    /\ InHandler("pollError")
    /\ PollListed(ui, Tail(frames))
    /\ UNCHANGED <<server, pending, transfers, files>>

\* The download is started on what was known before the yield.
ResumePoll ==
    /\ Resumes("pollYield")
    /\ IF frames[1].flag
       THEN DownloadGui(StopPreparing(ui), Tail(frames), TRUE)
       ELSE TimeoutCheck(ui, Tail(frames))
    /\ UNCHANGED <<server, pending, transfers, files>>

AnswerContinueWaiting(yes) ==
    /\ InHandler("continueWaiting")
    /\ calm /\ yes => handle = NoThread /\ pending = <<>>
    /\ ui' = IF yes THEN [ui EXCEPT !.count = 0, !.timer = TRUE]
                    ELSE StopPreparing(ui)
    /\ frames' = Tail(frames)
    /\ UNCHANGED <<server, pending, transfers, files>>

-----------------------------------------------------------------------------
\* doDownload, the download threads and their events

Running == {t \in Tids : threads[t] # Idle}

\* The archive the link of a slot leads to, and the file it is stored as.
MutLinkOf(c, s) == <<c, 0>>
LinkOf(c, s) == <<c, s>>

\* A slot that is not ready for download has no link, or one that ProcessResponse
\* left there from another slot of the list (ReadElement of ShopReply).
LinksOf(u) ==
    IF IsDownloadable(u) THEN {LinkOf(u.sel, u.slot)}
    ELSE {LinkOf(x[1], x[2]) : x \in {y \in Charts \X SlotIds : u.view[y[1]][y[2]].stat = "download"}}

\* doDownloadGui after its yield.
StartDownload ==
    /\ Resumes("download")
    /\ LET u == [ui EXCEPT !.chain = TRUE, !.aborting = FALSE]
           Return == IF frames[1].flag THEN TimeoutCheck(u, Tail(frames))
                                       ELSE ui' = u /\ frames' = Tail(frames)
       IN \/ /\ ui.sel = NoChart
             /\ ui' = u /\ frames' = Crash(Tail(frames))
             /\ UNCHANGED <<threads, handle, stream, disk, dlFile>>
          \/ /\ ui.sel # NoChart /\ ~IsDownloadable(u)
             /\ Return
             /\ dlFile' = [dlFile EXCEPT ![ui.sel] = NoFile]
             /\ UNCHANGED <<threads, handle, stream, disk>>
          \/ /\ ui.sel # NoChart
             /\ Return
             /\ Cardinality(Running) + Len(pending) < MaxTransfers
             /\ \E t \in Tids \ Running, r \in Replies :
                \E f \in LinksOf(u) :
                   /\ threads' = [threads EXCEPT ![t] = [file |-> f, reply |-> r, open |-> TRUE]]
                   /\ handle' = t /\ stream' = t
                   /\ disk' = [disk EXCEPT ![f] = "part"]
                   /\ dlFile' = [dlFile EXCEPT ![ui.sel] = f]
    /\ UNCHANGED <<server, pending, target, dlPath, installed>>

\* A progress event of a running transfer.
Progress(t) ==
    /\ EventsRun /\ threads[t] # Idle
    /\ target # Size(threads[t])
    /\ target' = Size(threads[t])
    /\ UNCHANGED <<server, ui, frames, pending, threads, handle, stream, files>>

\* A transfer ends: complete, or broken off, as it must be once its stream is
\* closed or when another transfer writes the same file.
TransferEnds(t) ==
    /\ threads[t] # Idle
    /\ LET me    == threads[t]
           alone == \A o \in Tids \ {t} : threads[o].file # me.file
       IN \/ disk' \in BrokenOff(t)
          \/ me.open /\ alone /\ disk' = [disk EXCEPT ![me.file] = me.reply]
    /\ pending' = Append(pending, [type |-> "end", size |-> Size(threads[t])])
    /\ threads' = [threads EXCEPT ![t] = Idle]
    /\ UNCHANGED <<server, ui, frames, handle, stream, target, dlFile, dlPath, installed>>

NextEvent(type) == EventsRun /\ pending # <<>> /\ Head(pending).type = type

\* The controls when a transfer has ended.
MutTransferEnded(u) == [u EXCEPT !.cancelShown = FALSE]
TransferEnded(u) == [u EXCEPT !.cancelShown = FALSE, !.updateOn = TRUE]

\* The directory without the file of a cancelled download.
MutDiscard(f) == disk
Discard(f) == IF f = NoFile THEN disk ELSE [disk EXCEPT ![f] = "absent"]

\* OESENC_CURL_EvtHandler::onEndEvent
HandleEnd ==
    /\ NextEvent("end")
    /\ ui' = TransferEnded(ui)
    /\ target' = Head(pending).size
    /\ handle' = NoThread /\ stream' = NoThread
    /\ threads' = IF stream # NoThread /\ threads[stream] # Idle
                  THEN [threads EXCEPT ![stream].open = FALSE] ELSE threads
    /\ IF ui.aborting /\ ui.sel # NoChart
       THEN /\ disk' = Discard(dlFile[ui.sel])
            /\ dlFile' = [dlFile EXCEPT ![ui.sel] = NoFile]
       ELSE UNCHANGED <<disk, dlFile>>
    /\ pending' = Append(Tail(pending), [type |-> "chain", size |-> Size(Idle)])
    /\ UNCHANGED <<server, frames, dlPath, installed>>

-----------------------------------------------------------------------------
\* OnButtonInstallChain and doUnzip

MutDownloaded(c) == dlFile[c] # NoFile

\* Contents whose length is within a thousandth of that of a reply.
OfLength(reply) == {reply} \cup {most \in {"most"} : reply = "zip"}

\* Does the download destination file exist, and length match?
Downloaded(c) == /\ dlFile[c] # NoFile
                 /\ target.file = dlFile[c]
                 /\ disk[dlFile[c]] \in OfLength(target.reply)

HandleChain ==
    /\ NextEvent("chain") /\ Len(frames) < MaxNesting
    /\ pending' = Tail(pending)
    /\ LET c == ui.sel
       IN \/ /\ c = NoChart
             /\ frames' = Crash(frames)
             /\ UNCHANGED <<ui, dlPath>>
          \/ /\ c # NoChart /\ ~ui.chain
             /\ UNCHANGED <<ui, frames, dlPath>>
          \/ /\ c # NoChart /\ ui.chain /\ ui.aborting
             /\ ui' = [ui EXCEPT !.chain = FALSE, !.aborting = FALSE]
             /\ frames' = Modal("endBox", c, 0, None, frames)
             /\ UNCHANGED dlPath
          \/ /\ c # NoChart /\ ui.chain /\ ~ui.aborting
             /\ ui' = [ui EXCEPT !.chain = FALSE, !.override = ""]
             /\ IF Downloaded(c)
                THEN /\ dlPath' = [dlPath EXCEPT ![c][ui.slot] = dlFile[c]]
                     /\ frames' = Modal("proceed", c, 0, None, frames)
                ELSE /\ frames' = Modal("endBox", c, 0, None, frames)
                     /\ UNCHANGED dlPath
    /\ UNCHANGED <<server, transfers, disk, dlFile, installed>>

\* "Download cancelled" or "missing file": the handler ends, Install is enabled.
CloseEndBox ==
    /\ InHandler("endBox")
    /\ ui' = [ui EXCEPT !.installOn = TRUE]
    /\ frames' = Tail(frames)
    /\ UNCHANGED <<server, pending, transfers, files>>

AnswerProceed(yes) ==
    /\ InHandler("proceed")
    /\ IF yes
       THEN /\ ui' = [ui EXCEPT !.override = "Installing charts"]
            /\ frames' = Modal("chooseDir", frames[1].chart, ui.slot, None, Tail(frames))
       ELSE /\ ui' = [ui EXCEPT !.installOn = TRUE]
            /\ frames' = Tail(frames)
    /\ UNCHANGED <<server, pending, transfers, files>>

\* What follows doUnzip, whatever it returned.
AfterUnzip(fs) ==
    /\ ui' = [UpdateChartList([ui EXCEPT !.override = ""]) EXCEPT !.installOn = TRUE]
    /\ frames' = fs

ChooseDir(chosen) ==
    /\ InHandler("chooseDir")
    /\ IF chosen
       THEN /\ frames' = Yield("unzip", frames[1].chart, frames[1].slot, FALSE, Tail(frames))
            /\ UNCHANGED ui
       ELSE AfterUnzip(Tail(frames))
    /\ UNCHANGED <<server, pending, transfers, files>>

\* The extraction fails unless the file is a whole chart set, which is then removed:
\* a zip file that lacks its end, where the list of its entries is, has none.
Unzip ==
    /\ Resumes("unzip")
    /\ LET c == frames[1].chart  s == frames[1].slot  zip == dlPath[c][s]
       IN IF zip # NoFile /\ disk[zip] = "zip"
          THEN /\ installed' = [installed EXCEPT ![c][s] = zip]
               /\ disk' = [disk EXCEPT ![zip] = "absent"]
               /\ ui' = [ui EXCEPT !.override = ""]
          ELSE UNCHANGED <<installed, disk, ui>>
    /\ frames' = Modal("unzipDone", NoChart, 0, None, Tail(frames))
    /\ UNCHANGED <<server, pending, transfers, dlFile, dlPath>>

CloseUnzipDone ==
    /\ InHandler("unzipDone")
    /\ AfterUnzip(Tail(frames))
    /\ UNCHANGED <<server, pending, transfers, files>>

\* A message that nothing follows.
CloseBox ==
    /\ InHandler("box")
    /\ frames' = Tail(frames)
    /\ UNCHANGED <<server, ui, pending, transfers, files>>

-----------------------------------------------------------------------------
\* The server, other systems of the account, and the USB port

Unused == UNCHANGED <<ui, frames, pending, transfers, files>>

\* The request is processed and the set is ready for download.
ServerPrepares(c, s) ==
    /\ srv[c][s].stat = "processing"
    /\ srv' = SetSlot(c, s, srv[c][s].sys, "download")
    /\ UNCHANGED <<plugged, calm>> /\ Unused

\* The right to updates ends.
ServerExpires(c) ==
    /\ \E s \in SlotIds : srv[c][s].stat \in {"requestable", "processing", "download"}
    /\ srv' = [srv EXCEPT ![c] = [s \in SlotIds |-> IF @[s].sys = None THEN @[s]
                                                  ELSE [@[s] EXCEPT !.stat = "expired"]]]
    /\ UNCHANGED <<plugged, calm>> /\ Unused

\* Another system of the user takes an empty slot.
OtherAssigns(c, s, n) ==
    /\ n # Me /\ CanAssign(c, s, n)
    /\ srv' = SetSlot(c, s, n, "requestable")
    /\ UNCHANGED <<plugged, calm>> /\ Unused

Plug(d) ==
    /\ calm => frames = <<>> /\ ~Busy
    /\ plugged' = IF plugged = None THEN d ELSE None
    /\ UNCHANGED <<srv, calm>> /\ Unused

-----------------------------------------------------------------------------
NewSlot == [sys |-> None, stat |-> "unassigned"]

Init ==
    /\ srv = [c \in Charts |-> [s \in SlotIds |-> NewSlot]]
    /\ plugged = None
    /\ calm \in Calms
    /\ ui = [view |-> [c \in Charts |-> [s \in SlotIds |-> [sys |-> None, stat |-> ""]]],
             listOK |-> FALSE, dongle |-> None, sel |-> NoChart, last |-> NoChart,
             panels |-> {}, slot |-> 0, installShown |-> FALSE, installOn |-> TRUE,
             cancelShown |-> FALSE, updateOn |-> TRUE, override |-> "", timer |-> FALSE,
             count |-> 0, chain |-> FALSE, aborting |-> FALSE]
    /\ frames = <<>> /\ pending = <<>>
    /\ threads = [t \in Tids |-> Idle]
    /\ handle = NoThread /\ stream = NoThread /\ target = Size(Idle)
    /\ disk = [f \in Files |-> "absent"]
    /\ dlFile = [c \in Charts |-> NoFile]
    /\ dlPath = [c \in Charts |-> [s \in SlotIds |-> NoFile]]
    /\ installed = [c \in Charts |-> [s \in SlotIds |-> NoFile]]

User ==
    \/ \E c \in Charts : ClickChart(c)
    \/ ClickUpdate
    \/ ClickInstall
    \/ ClickCancel

\* What the GUI thread does next by itself, or when a dialog is answered.
Handler ==
    \/ ResumeUpdate
    \/ CloseUploadFailed
    \/ RefuseAssign
    \/ ConfirmAssign
    \/ CloseAssignFailed
    \/ Prepare
    \/ ClosePrepareFailed
    \/ ClosePollError
    \/ ResumePoll
    \/ \E yes \in BOOLEAN : AnswerContinueWaiting(yes)
    \/ StartDownload
    \/ HandleEnd
    \/ HandleChain
    \/ CloseEndBox
    \/ \E yes \in BOOLEAN : AnswerProceed(yes)
    \/ \E yes \in BOOLEAN : ChooseDir(yes)
    \/ Unzip
    \/ CloseUnzipDone
    \/ CloseBox

Environment ==
    \/ \E t \in Tids : Progress(t)
    \/ \E t \in Tids : TransferEnds(t)
    \/ \E c \in Charts, s \in SlotIds : ServerPrepares(c, s)
    \/ \E c \in Charts : ServerExpires(c)
    \/ \E c \in Charts, s \in SlotIds, n \in Names : OtherAssigns(c, s, n)
    \/ \E d \in Dongles : Plug(d)

Next == User \/ Handler \/ TimerTick \/ Environment

Spec == Init /\ [][Next]_vars

\* The GUI thread runs what it can and its user answers the dialogs, the timer
\* ticks, and a transfer completes or is broken off.  Nothing obliges the server
\* to prepare a chart set, or the user to press anything.
Fairness == /\ WF_vars(Handler)
            /\ WF_vars(TimerTick)
            /\ \A t \in Tids : WF_vars(TransferEnds(t))

FairSpec == Spec /\ Fairness

-----------------------------------------------------------------------------
\* Properties of any environment

InSome(pc) == \E i \in DOMAIN frames : frames[i].pc = pc

\* The preparation timer is never left running past its timeout, whichever
\* handlers are suspended when it is reached (OnPrepareTimer).
CountBounded == ui.timer => ui.count <= Timeout

\* The chart selected is one of those listed, so that the Install button and the
\* timer never work on a chart set the account no longer shows here
\* (UpdateChartList, SelectChart).
SelectionListed == ui.sel # NoChart => ui.sel \in ui.panels

\* When the user is asked to assign a slot for good, no slot of the chart set is
\* assigned to that name already, in what the panel knows: "If a slot is already
\* assigned to system, choose that slot" (GetActiveSlotAction).  With two chart
\* sets it takes a calm environment: otherwise a status query for one may list, under
\* the dialog, a slot of the other whose assignment was made but never answered.
AssignedSlotChosen ==
    \A i \in DOMAIN frames : frames[i].pc = "assignConfirm" =>
        ~AssignedTo(ui.view[frames[i].chart], frames[i].name)

-----------------------------------------------------------------------------
\* Properties of a calm environment

\* No handler reads a member of the chart selected when there is none:
\* m_ChartSelected is used after a wxYield and in event handlers unchecked.
NoCrash == calm => ~InSome("crash")

\* A running transfer is the one the Cancel button stops, the one whose stream is
\* closed when it ends, and that of the chart and slot the panel works on: there
\* are never two (doDownload overwrites g_curlDownloadThread and the stream).
TransferInHand ==
    calm => \A t \in Running :
        /\ handle = t /\ stream = t
        /\ threads[t].file = <<ui.sel, ui.slot>>

\* A transfer is never under way beside a preparation, its status is displayed,
\* and the list cannot be refreshed (doDownloadGui, OnPrepareTimer).
BusyIsShown ==
    calm /\ Running # {} => /\ ~ui.timer
                            /\ ui.override = "Downloading..."
                            /\ ~ui.updateOn

\* When nothing is under way nothing is left behind by what was, however it ended:
\* the Refresh button works, no status overrides the charts', no thread is
\* remembered and no flag would misdirect the next download.
Quiet == frames = <<>> /\ ~ui.timer /\ Running = {} /\ pending = <<>>

QuietIsReady ==
    calm /\ Quiet => /\ ui.updateOn /\ ui.override = ""
                     /\ handle = NoThread
                     /\ ~ui.chain /\ ~ui.aborting

\* While the timer runs, the chart selected and the active slot are those whose
\* preparation was requested: a slot of this system or of the dongle in use, which
\* the server prepares or has prepared (doPrepareGUI, OnPrepareTimer).
PollsOwnRequest ==
    calm /\ ui.timer =>
        /\ ui.sel # NoChart
        /\ srv[ui.sel][ui.slot].sys \in {Me, ui.dongle} \ {None}
        /\ srv[ui.sel][ui.slot].stat \in {"processing", "download", "expired"}

\* The user is asked to install the file fetched for the chart and slot worked on,
\* there to a thousandth of the length the server gave for it: never one that was
\* broken off earlier, discarded, or left by another transfer (OnButtonInstallChain).
\* It may be an error page, or a zip file that lacks its last bytes.
FetchedFileOffered ==
    calm /\ InSome("proceed") =>
        /\ dlPath[ui.sel][ui.slot] = <<ui.sel, ui.slot>>
        /\ target.file = <<ui.sel, ui.slot>>
        /\ disk[<<ui.sel, ui.slot>>] \in OfLength(target.reply)

\* A zip file is recorded for, and installed from, the chart set and the slot it
\* was downloaded for, however its download came about (OnButtonInstallChain).  A
\* user who selects another chart set inside the yield of OnPrepareTimer has the
\* transfer of the one recorded for the other.
ZipOfItsSlot ==
    calm => \A c \in Charts, s \in SlotIds : /\ dlPath[c][s] \in {NoFile, <<c, s>>}
                                             /\ installed[c][s] \in {NoFile, <<c, s>>}

\* When a cancelled download has been dealt with, its file is gone and the chart
\* no longer refers to it, so that it cannot be taken for a download that
\* succeeded (OnButtonCancelOp, onEndEvent, OnButtonInstallChain).
CancelledIsGone ==
    [][calm /\ ui.aborting /\ ~ui'.aborting =>
          /\ disk'[<<ui.sel, ui.slot>>] = "absent"
          /\ dlFile'[ui.sel] = NoFile]_vars

\* Slots are prepared for names in use here only, and charts are installed only from
\* the archive of their own slot, fetched when the server had made it ready: ShopPanel
\* implements ShopOrder, if the environment is calm (doPrepare, doDownload,
\* OnButtonInstallChain, doUnzip).  Otherwise a chart set selected inside a yield has
\* the archive of another recorded for it.
Order == INSTANCE ShopOrder WITH
             Slots <- SlotIds, Here <- {Me} \cup Dongles, Nothing <- NoFile,
             account <- srv, archive <- dlPath, charts <- installed
OrderKept == Order!Spec

\* "This is only a status loop that will time out eventually": preparing ends,
\* although errors of the status queries are ignored (OnPrepareTimer).
PreparingEnds == calm /\ ui.timer ~> ~ui.timer

\* The Refresh button, disabled for a download, is enabled again, and the status
\* line returns to the charts' own (doDownloadGui, onEndEvent).
RefreshReturns == calm /\ (~ui.updateOn \/ ui.override # "") ~> ui.updateOn /\ ui.override = ""

-----------------------------------------------------------------------------
\* What the source says of the program, and is not so

\* "Do not allow de-selection by mouse if this chart is busy, i.e. being prepared,
\* or being downloaded" (DoChartSelected).
BusyStaysSelected == ui.timer => ui.sel # NoChart
=============================================================================
