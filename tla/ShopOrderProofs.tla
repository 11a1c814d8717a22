-------------------------- MODULE ShopOrderProofs --------------------------
(***************************************************************************)
(* ShopPanel implements ShopOrder in a calm environment, for every value of *)
(* the other constants.                                                     *)
(*                                                                          *)
(* An archive is fetched for a slot that was ready when its download began, *)
(* long before it is recorded or installed.  The invariant carries that     *)
(* over: a file a chart set refers to is of a slot that is this user's here *)
(* and was ready (Fetched), as the server takes nothing back.  With what    *)
(* the handlers rely on (CInv) every step is one of ShopOrder or none.      *)
(***************************************************************************)
EXTENDS ShopPanelCalmProofs

Entitled(c, s) == /\ srv[c][s].sys \in {Me} \cup Dongles
                  /\ srv[c][s].stat \in {"download", "expired"}

Fetched ==
    /\ \A c \in Charts, d \in Charts, s \in SlotIds : dlFile[c] = <<d, s>> => Entitled(d, s)
    /\ \A c \in Charts, s \in SlotIds : dlPath[c][s] # NoFile => Entitled(c, s)

-----------------------------------------------------------------------------
\* The steps

\* What the server does to a slot leaves a slot that was ready as good as that.
LEMMA EntitledStays ==
    ASSUME IInv, NEW c \in Charts, NEW s \in SlotIds, Kept(srv[c][s], srv'[c][s]), Entitled(c, s)
    PROVE  Entitled(c, s)'
BY PanelAssumption, NamesAssumption DEF Entitled, Kept

\* The steps that change the account, as those of ShopOrder.
LEMMA AccountOrder ==
    ASSUME IInv, CInv, calm,
           \/ ConfirmAssign \/ Prepare
           \/ \E c \in Charts, s \in SlotIds : ServerPrepares(c, s)
           \/ \E c \in Charts : ServerExpires(c)
           \/ \E c \in Charts, s \in SlotIds, n \in Names : OtherAssigns(c, s, n)
    PROVE  /\ UNCHANGED files
           /\ \A c \in Charts, s \in SlotIds : Kept(srv[c][s], srv'[c][s])
           /\ Order!Next \/ UNCHANGED srv
<1>1. CASE ConfirmAssign
  <2> DEFINE c == frames[1].chart  s == frames[1].slot  n == frames[1].name
  <2>1. frames # <<>> /\ frames[1].pc = "assignConfirm" /\ UNCHANGED files
        /\ \/ srv' = srv
           \/ CanAssign(c, s, n) /\ srv' = SetSlot(c, s, n, "requestable")
    BY <1>1 DEF ConfirmAssign, InHandler
  <2>2. /\ Relies(frames[1]) /\ c = ui.sel /\ s = ui.slot /\ n \in {Me, plugged} \ {None}
        /\ ui.sel # NoChart
    BY <2>1, Below DEF Relies, Installing
  <2>3. c \in Charts /\ s \in SlotIds /\ n \in Names
    BY <2>2, Typed, PanelAssumption DEF Names
  <2> HIDE DEF c, s, n
  <2>4. CASE srv' = srv
    BY <2>1, <2>4 DEF Kept, CInv, Account
  <2>5. CASE CanAssign(c, s, n) /\ srv' = SetSlot(c, s, n, "requestable")
    <3>1. \A d \in Charts, o \in SlotIds :
              srv'[d][o] = IF d = c /\ o = s THEN [sys |-> n, stat |-> "requestable"]
                           ELSE srv[d][o]
      BY <2>3, <2>5, SetSlotValue
    <3>2. \A d \in Charts, o \in SlotIds : Kept(srv[d][o], srv'[d][o])
      BY <2>3, <2>5, <3>1, NamesAssumption DEF Kept, CanAssign, CInv, Account, Names
    <3>3. Order!Assign(c, s, n)
      BY <2>1, <2>3, <2>5 DEF Order!Assign, Order!Becomes, CanAssign, SetSlot, files
    <3> QED
      BY <2>1, <2>3, <3>2, <3>3 DEF Order!Next
  <2> QED
    BY <2>1, <2>4, <2>5
<1>2. CASE Prepare
  <2> DEFINE c == ui.sel  s == ui.slot  n == ui.view[c][s].sys
  <2>1. frames # <<>> /\ frames[1].pc = "prepare" /\ UNCHANGED files
        /\ \/ srv' = srv
           \/ CanPrepare(c, s, n) /\ srv' = SetSlot(c, s, n, "processing")
    BY <1>2 DEF Prepare, InHandler
  <2>2. Relies(frames[1]) /\ Mine
    BY <2>1, Below DEF Relies
  <2>3. c \in Charts /\ s \in SlotIds /\ n \in {Me} \cup Dongles /\ n # None
    BY <2>2, Typed DEF Mine
  <2> HIDE DEF c, s, n
  <2>4. CASE srv' = srv
    BY <2>1, <2>4 DEF Kept, CInv, Account
  <2>5. CASE CanPrepare(c, s, n) /\ srv' = SetSlot(c, s, n, "processing")
    <3>1. /\ srv[c][s] = [sys |-> n, stat |-> "requestable"]
          /\ \A d \in Charts, o \in SlotIds :
              srv'[d][o] = IF d = c /\ o = s THEN [sys |-> n, stat |-> "processing"]
                           ELSE srv[d][o]
      BY <2>3, <2>5, SetSlotValue DEF CanPrepare
    <3>2. \A d \in Charts, o \in SlotIds : Kept(srv[d][o], srv'[d][o])
      BY <2>3, <3>1 DEF Kept, CInv, Account
    <3>3. srv[c][s].sys = n /\ srv[c][s].stat = "requestable"
      BY <3>1
    <3>4. Order!Request(c, s)
      BY <2>1, <2>3, <2>5, <3>3 DEF Order!Request, Order!Becomes, SetSlot, files
    <3> QED
      BY <2>1, <2>3, <3>2, <3>4 DEF Order!Next
  <2> QED
    BY <2>1, <2>4, <2>5
<1>3. ASSUME \/ \E c \in Charts, s \in SlotIds : ServerPrepares(c, s)
             \/ \E c \in Charts : ServerExpires(c)
             \/ \E c \in Charts, s \in SlotIds, n \in Names : OtherAssigns(c, s, n)
      PROVE  /\ UNCHANGED files
             /\ \A c \in Charts, s \in SlotIds : Kept(srv[c][s], srv'[c][s])
             /\ Order!Next
  <2>1. UNCHANGED files
    BY <1>3 DEF ServerPrepares, ServerExpires, OtherAssigns, Unused
  <2>2. \A c \in Charts, s \in SlotIds : Kept(srv[c][s], srv'[c][s])
    BY <1>3, ServerKeeps DEF CInv
  <2>3. ASSUME NEW c \in Charts, NEW s \in SlotIds, ServerPrepares(c, s) PROVE Order!Ready(c, s)
    BY <2>1, <2>3 DEF ServerPrepares, SetSlot, Order!Ready, Order!Becomes, files
  <2>4. ASSUME NEW c \in Charts, ServerExpires(c) PROVE Order!Expire(c)
    BY <2>1, <2>4 DEF ServerExpires, Order!Expire, files
  <2>5. ASSUME NEW c \in Charts, NEW s \in SlotIds, NEW n \in Names, OtherAssigns(c, s, n)
        PROVE  Order!Assign(c, s, n)
    BY <2>1, <2>5 DEF OtherAssigns, CanAssign, SetSlot, Order!Assign, Order!Becomes, files
  <2> QED
    BY <1>3, <2>1, <2>2, <2>3, <2>4, <2>5 DEF Order!Next
<1> QED
  BY <1>1, <1>2, <1>3

\* A step that moves no file a chart refers to and no charts.
LEMMA FilesStay ==
    ASSUME Fetched, UNCHANGED <<srv, dlFile, dlPath, installed>>
    PROVE  Fetched' /\ UNCHANGED Order!order
BY DEF Fetched, Entitled, Order!order

\* The download begins when the slot is ready, in a handler that works on it.
LEMMA StartDownloadOrder ==
    ASSUME IInv, CInv, calm, Fetched, StartDownload
    PROVE  Fetched' /\ UNCHANGED Order!order
<1> DEFINE u == [ui EXCEPT !.chain = TRUE, !.aborting = FALSE]
           file == <<ui.sel, ui.slot>>
<1>1. /\ frames # <<>> /\ frames[1].pc = "download"
      /\ UNCHANGED <<srv, plugged, dlPath, installed>>
  BY DEF StartDownload, Resumes, InHandler, server
<1>2. Relies(frames[1]) /\ Requested /\ IsDownloadable(ui)
  BY <1>1, Below DEF Relies
<1>3. /\ ui.sel \in Charts /\ ui.slot \in SlotIds /\ ui.sel # NoChart
      /\ ui.view[ui.sel][ui.slot].sys \in ({Me} \cup Dongles) \ {None}
      /\ ui.view[ui.sel][ui.slot].stat = "download"
  BY <1>2, Typed DEF Requested, Mine, IsDownloadable
<1>4. Entitled(ui.sel, ui.slot)
  BY <1>3 DEF CInv, Account, Entitled
<1>5. IsDownloadable(u) /\ LinksOf(u) = {file}
  <2>1. u.view = ui.view /\ u.sel = ui.sel /\ u.slot = ui.slot
    BY Typed DEF UI
  <2> QED
    BY <2>1, <1>3 DEF IsDownloadable, LinksOf, LinkOf
<1>6. dlFile' = [dlFile EXCEPT ![ui.sel] = file]
  <2>1. \E f \in LinksOf(u) : dlFile' = [dlFile EXCEPT ![ui.sel] = f]
    BY <1>3, <1>5 DEF StartDownload
  <2> HIDE DEF u, file
  <2> QED
    BY <2>1, <1>5
<1>7. ASSUME NEW c \in Charts, NEW d \in Charts, NEW s \in SlotIds, dlFile'[c] = <<d, s>>
      PROVE  Entitled(d, s)
  <2>1. dlFile[c] = <<d, s>> \/ file = <<d, s>>
    BY <1>6, <1>7, Typed
  <2> QED
    BY <2>1, <1>4 DEF Fetched
<1> QED
  BY <1>1, <1>7 DEF Fetched, Entitled, Order!order

LEMMA HandleEndOrder ==
    ASSUME IInv, Fetched, HandleEnd
    PROVE  Fetched' /\ UNCHANGED Order!order
<1>1. /\ UNCHANGED <<srv, dlPath, installed>>
      /\ dlFile' = dlFile \/ dlFile' = [dlFile EXCEPT ![ui.sel] = NoFile]
  BY DEF HandleEnd, server
<1>2. ASSUME NEW c \in Charts, NEW d \in Charts, NEW s \in SlotIds, dlFile'[c] = <<d, s>>
      PROVE  Entitled(d, s)
  <2>1. dlFile[c] = <<d, s>>
    BY <1>1, <1>2, Typed
  <2> QED
    BY <2>1 DEF Fetched
<1> QED
  BY <1>1, <1>2 DEF Fetched, Entitled, Order!order

\* What is offered for installation is on record for the slot it was fetched for.
LEMMA HandleChainOrder ==
    ASSUME IInv, CInv, calm, Fetched, HandleChain
    PROVE  Fetched' /\ (Order!Next \/ UNCHANGED Order!order)
<1> DEFINE c == ui.sel  s == ui.slot
<1>1. /\ pending # <<>> /\ UNCHANGED <<srv, dlFile, installed>>
      /\ \/ dlPath' = dlPath
         \/ ~ui.aborting /\ dlPath' = [dlPath EXCEPT ![c][s] = dlFile[c]]
  BY DEF HandleChain, NextEvent, server
<1>2. CASE dlPath' = dlPath
  BY <1>1, <1>2, FilesStay
<1>3. CASE ~ui.aborting /\ dlPath' = [dlPath EXCEPT ![c][s] = dlFile[c]]
  <2>1. c \in Charts /\ s \in SlotIds /\ dlFile[c] = <<c, s>>
    BY <1>1, <1>3, EventWaits, Typed DEF CInv, Flight
  <2>2. Entitled(c, s)
    BY <2>1 DEF Fetched
  <2> HIDE DEF c, s
  <2>3. Order!Fetch(c, s)
    BY <1>1, <1>3, <2>1, <2>2 DEF Order!Fetch, Order!Entitled, Entitled
  <2>4. \A d \in Charts, o \in SlotIds : dlPath'[d][o] = dlPath[d][o] \/ (d = c /\ o = s)
    <3>1. dlPath \in [Charts -> [SlotIds -> Files \cup {NoFile}]]
      BY Typed
    <3> QED
      BY <3>1, <1>3, <2>1
  <2>5. Fetched'
    BY <1>1, <2>2, <2>4 DEF Fetched, Entitled
  <2> QED
    BY <2>1, <2>3, <2>5 DEF Order!Next
<1> QED
  BY <1>1, <1>2, <1>3

\* Charts come from the archive on record for their slot.
LEMMA UnzipOrder ==
    ASSUME IInv, CInv, calm, Fetched, Unzip
    PROVE  Fetched' /\ (Order!Next \/ UNCHANGED Order!order)
<1> DEFINE c == frames[1].chart  s == frames[1].slot  zip == dlPath[c][s]
<1>1. /\ frames # <<>> /\ UNCHANGED <<srv, dlFile, dlPath>>
      /\ \/ installed' = installed
         \/ zip # NoFile /\ installed' = [installed EXCEPT ![c][s] = zip]
  BY DEF Unzip, Resumes, InHandler, server
<1>2. Fetched'
  BY <1>1 DEF Fetched, Entitled
<1>3. CASE installed' = installed
  BY <1>1, <1>3, FilesStay
<1>4. CASE zip # NoFile /\ installed' = [installed EXCEPT ![c][s] = zip]
  <2>1. c \in Charts \cup {NoChart} /\ s \in SlotIds
    BY <1>1, Below DEF Frame
  <2>2. CASE c \in Charts
    <3>1. zip = <<c, s>> /\ Entitled(c, s)
      BY <1>4, <2>1, <2>2 DEF CInv, Zips, Fetched
    <3> HIDE DEF c, s
    <3>2. Order!Install(c, s)
      BY <1>1, <1>4, <3>1 DEF Order!Install, Order!Entitled, Entitled
    <3> QED
      BY <1>2, <2>1, <2>2, <3>2 DEF Order!Next
  <2>3. CASE c = NoChart
    <3> HIDE DEF c, s, zip
    <3>1. installed \in [Charts -> [SlotIds -> Files \cup {NoFile}]] /\ c \notin Charts
      BY <2>3, Typed
    <3>2. installed' = installed
      BY <3>1, <1>4
    <3> QED
      BY <3>2, <1>1, FilesStay
  <2> QED
    BY <2>1, <2>2, <2>3
<1> QED
  BY <1>1, <1>3, <1>4

LEMMA OrderStep ==
    ASSUME IInv, CInv, calm, Fetched, [Next]_vars
    PROVE  Fetched' /\ [Order!Next]_(Order!order)
<1> DEFINE Changes == \/ ConfirmAssign \/ Prepare
                      \/ \E c \in Charts, s \in SlotIds : ServerPrepares(c, s)
                      \/ \E c \in Charts : ServerExpires(c)
                      \/ \E c \in Charts, s \in SlotIds, n \in Names : OtherAssigns(c, s, n)
<1>1. CASE Changes
  <2>1. /\ UNCHANGED <<dlFile, dlPath, installed>>
        /\ \A c \in Charts, s \in SlotIds : Kept(srv[c][s], srv'[c][s])
        /\ Order!Next \/ UNCHANGED srv
    BY <1>1, AccountOrder DEF files
  <2>2. Fetched'
    BY <2>1, EntitledStays DEF Fetched
  <2> QED
    BY <2>1, <2>2 DEF Order!order
<1>2. CASE StartDownload \/ HandleEnd \/ HandleChain \/ Unzip
  BY <1>2, StartDownloadOrder, HandleEndOrder, HandleChainOrder, UnzipOrder
<1>3. CASE UNCHANGED <<srv, dlFile, dlPath, installed>>
  BY <1>3, FilesStay
<1> HIDE DEF Changes
<1>4. CASE User
  BY <1>3, <1>4 DEF User, ClickChart, ClickUpdate, ClickInstall, ClickCancel, server, files
<1>5. CASE Handler
  <2>1. ASSUME \/ ResumeUpdate \/ CloseUploadFailed \/ RefuseAssign \/ CloseAssignFailed
               \/ ClosePrepareFailed \/ ClosePollError \/ ResumePoll
               \/ \E yes \in BOOLEAN : AnswerContinueWaiting(yes)
               \/ CloseEndBox
               \/ \E yes \in BOOLEAN : AnswerProceed(yes)
               \/ \E yes \in BOOLEAN : ChooseDir(yes)
               \/ CloseUnzipDone \/ CloseBox
        PROVE  UNCHANGED <<srv, dlFile, dlPath, installed>>
    BY <2>1 DEF ResumeUpdate, CloseUploadFailed, RefuseAssign, CloseAssignFailed,
                ClosePrepareFailed, ClosePollError, ResumePoll, AnswerContinueWaiting,
                CloseEndBox, AnswerProceed, ChooseDir, CloseUnzipDone, CloseBox, server, files
  <2>2. (ConfirmAssign => Changes) /\ (Prepare => Changes)
    BY DEF Changes
  <2> QED
    BY <1>1, <1>2, <1>3, <1>5, <2>1, <2>2 DEF Handler
<1>6. CASE TimerTick
  BY <1>3, <1>6 DEF TimerTick, server, files
<1>7. CASE Environment
  <2>1. ASSUME \/ \E t \in Tids : Progress(t)
               \/ \E t \in Tids : TransferEnds(t)
               \/ \E d \in Dongles : Plug(d)
        PROVE  UNCHANGED <<srv, dlFile, dlPath, installed>>
    BY <2>1 DEF Progress, TransferEnds, Plug, Unused, server, files
  <2> QED
    BY <1>1, <1>3, <1>7, <2>1 DEF Environment, Changes
<1>8. CASE UNCHANGED vars
  BY <1>3, <1>8 DEF vars, server, files
<1> QED
  BY <1>4, <1>5, <1>6, <1>7, <1>8 DEF Next

\* Slots are prepared for names in use here only, and charts are installed only from the
\* archive of their own slot, fetched when it was ready, whatever the user cancels, the
\* timer polls or the server lists meanwhile (doPrepare, doDownload,
\* OnButtonInstallChain, doUnzip).
THEOREM OrderIsKept ==
    ASSUME DistinctSerials, Calms = {TRUE}
    PROVE  Spec => OrderKept
<1>1. Init => Fetched /\ calm /\ Order!Init
  <2> SUFFICES ASSUME Init PROVE Fetched /\ calm /\ Order!Init
    OBVIOUS
  <2>1. \A c \in Charts, d \in Charts, s \in SlotIds : dlFile[c] # <<d, s>>
    BY PanelAssumption DEF Init, NoFile
  <2>2. \A c \in Charts, s \in SlotIds : dlPath[c][s] = NoFile
    BY DEF Init
  <2>3. calm
    BY DEF Init
  <2>4. Order!Init
    BY DEF Init, Order!Init, NewSlot
  <2> QED
    BY <2>1, <2>2, <2>3, <2>4 DEF Fetched
<1>2. IInv /\ CalmInv /\ calm /\ Fetched /\ [Next]_vars
      => calm' /\ Fetched' /\ [Order!Next]_(Order!order)
  BY OrderStep, CalmForGood DEF CalmInv
<1> QED
  BY <1>1, <1>2, Inductive, CalmInductive, PTL DEF Spec, OrderKept, Order!Spec
=============================================================================
