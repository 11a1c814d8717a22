# Verification of oesenc_pi

oesenc_pi is the OpenCPN plugin for encrypted vector charts (oeSENC) sold by
o-charts.org.  This directory holds TLA+ models of its own program logic, the
TLC configurations that check them on small instances, and theorems the TLAPS
proof system checks for every value of the constants.

Line numbers without a file are those of `src/src/ochartShop.cpp` in what is said
of the shop, of `src/src/oesenc_pi.cpp` in what is said of the server and the
registry, and of `src/src/Osenc.cpp` in what is said of the stream.

## 1. The system

### Components, their state and operations

| Component | Code | State it keeps | Operations |
|---|---|---|---|
| Shop: slot decisions | `ochartShop.cpp` `itemChart` 409-659, `GetActiveSlotAction` 3431-3531 | one `itemChart` per chart set: system and state of two slots, installed edition | who a set is assigned to, the status displayed, the slot and action of a press of Install |
| Shop: panel | `shopPanel` 2955-3990, `OESENC_CURL_EvtHandler` 4431-4527 | `m_ChartSelected`, `m_activeSlot`, timer and counter, button states, `g_statusOverride`, `m_binstallChain`, `m_bAbortingDownload`, `g_curlDownloadThread`, `downloadOutStream`, `g_targetDownloadSize` | Refresh, Install, Cancel, chart clicks, timer ticks, begin, progress and end events of a transfer, installation chain |
| Shop: protocol | `doLogin` 1111, `ProcessResponse` 1334-1541, `getChartList`, `doAssign`, `doUploadXFPR`, `doPrepare` 1545-2040, `API_oeSENC_191203.txt` | `g_loginUser`, `g_loginKey`, `g_systemName`, `g_ChartArray`, the arrays of system names | tasks of the shop API over HTTP, the fold of a reply into `g_ChartArray`, login and system name dialogs |
| Shop: configuration, installation | `loadShopConfig`, `saveShopConfig` 922-1014, `doUnzip` 2300-2480 | configuration file, chart directories, zip files | load, save, extract, replace the directories of an old edition |
| Decryption server and user keys | `oesenc_pi.cpp` `validate_SENC_server` 3218-3410, `shutdown_SENC_server`, `processUserKeyHint`, `validateUserKey` 2579-2715; `eSENCChart.cpp` `Init` | `g_serverProc`, `g_sencutil_bin`, `g_UserKey`, `g_bUserKeyHintTaken`, failures of each chart | start, probe and stop the `oeserverd` process; take, try and ask for keys |
| SENC stream | `Osenc.cpp` `Osenc_instream` 363-575, `verifySENC`, `ingestHeader`, `ingest200` | the public pipe, a private file, read position | open with a command, read n bytes, close; the loops over records |
| Chart registry | `oesenc_pi.cpp` `processChartinfo` 5430-5700, `ShowEULA`, `ShowAlwaysEULAs`, `showChartinfoDialog`, `LoadConfig`, `SaveConfig`, `ScrubChartinfoList` | `g_EULAArray`, `g_EULAShaArray`, `info_hash`, `g_ChartInfoArray`, `g_bEULA_Rejected`, `g_binfoShown`, their part of the configuration | on the first chart of a directory: show the licences its Chartinfo names, add its chart set to the list, show the list |
| Presentation | `eSENCChart.cpp`, `s52plib.cpp`, `s52cnsy.cpp`, `SetPluginMessage` | the mariner's settings, and for each object its rules, what the conditional symbology made of it and its category, the state hash, priorities of edges | take settings from OpenCPN's messages, find the rules of an object, run a procedure, filter, draw |
| Chart objects | `eSENCChart.cpp`, `OCPNRegion.cpp`, `LLRegion.cpp`, `bbox.cpp` | object lists, regions as lists of bands | build, query, intersect |
| Tables and view ports | `chartsymbols.cpp`, `razdsparser.cpp`, `viewport.cpp`, `TexFont.cpp` | symbol tables, projections, OpenGL state | parse, project |
| Helpers | `mygeom63.cpp`, `s57RegistrarMgr.cpp`, `cutil.cpp`, `InstallDirs.cpp` | none that outlives a call | tessellation, attribute tables, paths |

`libs/` (wxcurl, GDAL parts, tess, zlib...), `buildosx/`, `data/` and the
packaging are vendored, generated or assets, and are left aside.

### How they interact

The shop panel runs on OpenCPN's GUI thread.  Every button handler calls the
o-charts server with a blocking HTTP POST, and folds the reply into the global
`g_ChartArray`, whose elements the chart panels and `m_ChartSelected` refer to.
A preparation is followed by a timer of one tick a second that asks the server
for the list every tenth tick and gives up after sixty.  A download runs on a
thread of wxcurl that posts begin, progress and end events to a global event
handler; its end posts a further event to the panel (`OnButtonInstallChain`),
which checks the file and calls `doUnzip`, which saves the configuration and
tells OpenCPN about the new chart directory.

OpenCPN later opens charts there.  `eSENCChart::Init` has the registry show what
licences the directory has, starts the decryption server if it does not answer,
finds a key that fits, and reads the header or the whole chart through the
server, another process: commands go through a public named pipe, the chart
comes back through a private file.  (It is meant as a pipe, but `mkfifo` fails on
the temporary file that was created to get its name; a reader at its end finds
nothing, waits, and gives up after 100 tries.)

A chart in memory is drawn through a presentation library of the plugin's own.
Its settings come by a message for each canvas before OpenCPN renders it; what
is kept with the objects is cleared when OpenCPN's state hash has changed.

### What is hard here

Almost everything is global, and almost every handler of the shop calls
`wxYield()` or shows a message box in the middle, during which any other handler
may run:

* state read before a yield is used after it (`bDownloadReady` 3792,
  `m_ChartSelected` and `m_activeSlot` 3699);
* events of a transfer arrive after the selection, the thread handle or the
  flags they are read with belong to something else (3337, 4472, 4482);
* the preparation timer may be handled inside its own handler, and its timeout
  shares a tick with the last status query (3797);
* steps fail half way: an early return after the controls were disabled (2075),
  a reply lost after the server acted on the request (1709), a broken transfer;
* the server's account changes by itself and by the hand of other systems, and
  the dongle is plugged and unplugged between what is shown and what is pressed;
* an installation replaces directories that the configuration names, with a crash
  possible between any two steps.

Elsewhere it is what outlives a call: variables of one element of a reply seen by
the next (1429), a name saved before it has been verified (4054), the key of one
directory in use for the charts of another, a server that was slow and is still
there, a licence counted as processed before it has been shown, a symbol kept
from other settings, an edge claimed by an object that is not drawn any more.

`PROJECT.json` lists each hazard at its line with the properties that cover it.

### What makes each component correct

* Slot decisions: no second slot is proposed for a system that holds one.
* Panel: a handler never uses a selection that is gone; a transfer belongs to
  the chart, slot, handle, stream and file the panel works on; charts come
  only from a whole archive of their own slot; cancelling leaves nothing that
  passes for success; however an operation ends, the panel is ready for the next
  one; preparing ends.
* Protocol: the fold of a reply neither loses nor invents a slot; a login is not
  lost; slots go to a name that is this machine's; retries stop.
* Configuration: after a crash at any point, what is recorded as installed is on
  disk and scanned, and the last copy of a chart set is not removed.
* Server and stream: a chart that can be read is opened; one server runs; what is
  read is a beginning of the chart asked for; the retries end.
* Registry: nothing is opened without its licence; nobody is asked twice; the list
  of chart sets has what is there.
* Presentation: a picture is what the settings of the moment make of the chart;
  dangers, the safety contour and shared edges are not lost.

## 2. What is modelled

| Module | Models |
|---|---|
| `ShopSlots` | the decisions of `itemChart` and `GetActiveSlotAction`, as pure operators |
| `ShopOrder` | abstractly, what slots and charts go through |
| `ShopPanel` (extends `ShopSlots`, implements `ShopOrder`) | the panel's handlers, timer, transfers and events, the server and the user |
| `ShopReply` | the fold of a reply, logins, system names, fingerprints, assignments, what of it is saved |
| `ShopStore` | the configuration, the archives and the directories on disk, and the steps of an installation |
| `ChartData` | abstractly, what opening a chart promises |
| `SencServer` (implements it) | opening a chart through server processes, keys and streams |
| `ChartRegistry` | licences and the list of chart sets |
| `S52Symbols` | the procedures of the conditional symbology for dangers and depths, as pure operators |
| `Display` (extends it) | settings, caches and renderings of a chart |
| `MC...` | instances for TLC |
| `...Proofs` | theorems about the module of the name before it, section 5 |

The modules divide the plugin where it has seams.  `ShopPanel` has one step for
all of `doUnzip` and one for the login and the name that come before a Refresh;
`ShopStore` and `ShopReply` take these apart, with one step for what comes
before.  `ChartRegistry` and `SencServer` are the two things `Init` does with a
chart; each has one step, or none, for the other.  `Display` begins where a chart
is in memory.

### The panel (`ShopPanel`)

`ui` is one record of the panel's members and the shop's globals, with the
member each field stands for beside it in the module; every function of the
panel is an operator from `ui` to `ui` (`UpdateChartList`, `SelectChart`,
`UpdateActionControls`...).  `srv` is the account at the server: system and
state of both slots of every chart set.  `ui.view` is what the panel knows of
it, and differs from it between two replies.  `threads`, `handle`, `stream` and
`target` are the running transfers, `g_curlDownloadThread`, `downloadOutStream`
and `g_targetDownloadSize`.  `disk` holds the zip files, `dlFile` and `dlPath`
the file names the chart record keeps, `installed` the zip each slot's charts
came from.  `pending` is the queue of posted events.

A handler is cut where other handlers can run: at `wxYield()` and at message
boxes.  `frames` is the stack of the handlers that are suspended there,
innermost first, and only the innermost can go on.  An action is the code
between two such cuts, with every call it makes included:

| Handler | Actions |
|---|---|
| `DoChartSelected` | `ClickChart` |
| `OnButtonUpdate` | `ClickUpdate`, `ResumeUpdate` |
| `OnButtonInstall` | `ClickInstall`, `CloseUploadFailed`, `RefuseAssign`, `ConfirmAssign`, `CloseAssignFailed`, `Prepare`, `ClosePrepareFailed` |
| `OnButtonCancelOp` | `ClickCancel` |
| `OnPrepareTimer` | `TimerTick`, `ClosePollError`, `ResumePoll`, `AnswerContinueWaiting` |
| `doDownloadGui`, `doDownload` | `DownloadGui` (in the caller's action), `StartDownload` |
| transfer events | `Progress`, `TransferEnds`, `HandleEnd` |
| `OnButtonInstallChain`, `doUnzip` | `HandleChain`, `CloseEndBox`, `AnswerProceed`, `ChooseDir`, `Unzip`, `CloseUnzipDone` |

A use of `m_ChartSelected` when it is NULL leads to a frame `crash`, after which
nothing runs on the GUI thread.  The server (`ServerPrepares`, `ServerExpires`),
other systems of the account (`OtherAssigns`), the USB port (`Plug`) and the
transfers act by themselves.

`calm`, chosen initially, is the environment:

* `FALSE`: any event loop and user.  A timer may be handled inside its own
  handler, which the event loop of Windows does, and the user clicks on whatever
  the panel shows, in a yield too.
* `TRUE`: the event loop of GTK and macOS, where a timer is not handled inside
  its own handler, and a user who presses nothing inside a yield, presses only
  Cancel and Refresh while something is under way, plugs and unplugs the dongle
  only when nothing is, and answers NO when asked to continue waiting for a
  transfer that runs already.

The properties of the first kind hold whatever happens.  Those of the second
kind begin with `calm`, and are what the code promises to a user with patience;
without it they fail: after a status query `UpdateChartList` enables Install again
(3953), and a second press starts a second transfer of the same file, which leaves
the first without a handle; a chart deselected inside a yield is dereferenced as
NULL; and with another chart selected inside the yield of a status query the
transfer of the one is recorded for the other.  The conditions on the
environment are the module's `UserActs`, `Busy`, and the conjuncts that begin with
`calm =>`.

`ShopOrder` is what all this comes to: a slot is empty, assigned, asked for,
ready, perhaps expired; it is asked for only by this machine, for itself or a
dongle; an archive is fetched for it only when it is ready, and charts come only
from the archive of their slot.  `OrderKept` is the refinement: the account is
`srv`, the archives on record `dlPath`, the charts `installed`, and whatever
happens between two of its steps (dialogs, ticks, transfers, cancellations) is a
stutter.

### Replies, logins and names (`ShopReply`)

`mem` is the user, key and system name in memory, `conf` the configuration's,
`items` is `g_ChartArray` and `told` what the server last said of each slot;
`acct`, `owner` and `valid` are the server's slots, the fingerprint each of its
names has, and the logins it accepts.  `gui` is where a Refresh is:

| Code | Actions |
|---|---|
| `OnButtonUpdate` 3188-3330 | `Refresh`, then those below |
| `doLogin`, its dialog | `LoginCancel`, `LoginFails`, `Login` |
| `getChartList`, `ProcessResponse` | `ListFails`, `ListRefused`, `List` (the fold of the elements, with the variables that outlive each) |
| the name dialog and wizard | `NameCancel`, `NameGarbled`, `NameInvalid`, `NameNew`, `NameChosen` |
| `doUploadXFPR` | `UploadOK`, `UploadFails` |
| `doAssign`, `doPrepare` | `Assign`, `Prepare`, after the upload `OnButtonInstall` begins with |
| the timer's query, a save by another dialog, the name cleared in the settings | `Poll`, `SaveElsewhere`, `ClearName` |

`Quit` and `Crash` end a session; `OtherName`, `NewPassword` and `FprBreaks` are
the world's.

### The store (`ShopStore`)

`rec` is what the chart records of the panel say of each slot (directory
chosen, archive, edition), `conf` what the configuration object says and
`confFile` what its file says; `core` and `coreFile` are OpenCPN's list of chart
directories, in memory and in that file.  `file` holds the archives; `dir` says of
each file of each chart set directory whether it is there, from which archive, and
whether it is whole, since an extraction adds to what a directory holds and clears
nothing.  `room` is whether the disk has room for what is extracted.  `shop` is the
edition sold, and what is known of it and of the edition requested is as last
listed.  `job` is `doUnzip`'s local state and where it is:

| Step | Code |
|---|---|
| `Download` | an archive is fetched, the user proceeds (`OnButtonInstallChain`) |
| `ChooseDir`, `CancelChoice` | the directory dialog (2331-2348) |
| `OpenFile`, `ReadFile` | `ExtractZipFiles`, one file (2235-2274), on both sides of the yield at 2263 |
| `ExtractFails`, `Extracted` | its error returns and that of `doUnzip` (2369); its end, the list of directories (2383-2403) and the files of the old edition (2405-2446) |
| `RetireFile` | one of these is removed, and with the last its directory (2447-2450) |
| `RecordIt` | the record, the archive and `saveShopConfig` (2457-2476) |

`Refresh` loads, lists and saves, as `OnButtonUpdate` does; `Start` is the load of
the panel's constructor.  OpenCPN writes the object to the file by itself: `Flush`
at any time the GUI thread is not in the midst of an installation (it may be
where that yields), and `Quit`.  `Crash` may come between any two steps and
loses all but the disk.

### Opening a chart (`SencServer`, `ChartData`)

`procs` are the server processes, which start, are slow and end; `proc`, `bin`,
`key`, `hintTaken` and `fails` the plugin's globals; `conn` the stream in use and
`got` the records read from it; `last` what `Init` returned.  `gui` is where the
call of `Init` is and for which of its callers:

| Code | Actions |
|---|---|
| `Init`, `processUserKeyHint` | `Open`, and `Return` at the end |
| `validate_SENC_server` | `Probe`, `Launch`, `LaunchFails`, `Await` |
| `validateUserKey`, `GetUserKey` | `Ask`, `Ingested` (every call of `ingestHeader` or `ingest200` returns through it, and it says what the caller does next) |
| `Osenc_instream::Open` | `OpenStream` |
| `verifySENC` | `VerifyBase`, `VerifyPlain`, `VerifyVersion` |
| the loops of `ingestHeader`, `ingest200` | `NextRecord` |
| `shutdown_SENC_server`, `DeInit` | `Quit` |

A stream is counted in units: two for the base of the first record, one for its
version, two for every other record.  A server that is slow may have written any
part of what is read.  `calm` and the call's `due` say what the environment was
like: no server slow, lost or failing to start in this session; and in this call,
with a key at hand.

`ChartData` is the promise: the records given are the first ones of that chart,
in order, each once, or none.  `OpensInOrder` is the refinement, `ChartData`
with the chart of the call, the records of the attempt and those last given.
That all records come is promised nowhere, and is not so: a server that is slow
for 100 ms ends the chart.

### Licences and chart sets (`ChartRegistry`)

`disk` is each chart directory with its Chartinfo: blocks of EULA lines and
whether there is a ChartInfo line; `core` those on OpenCPN's list.  The rest is
named in the module by the globals it stands for.  `stack` has the calls under
way: OpenCPN may open another chart in the event loop of a dialog (`Reentrant`),
up to `MaxNesting`.

| Code | Actions |
|---|---|
| `Init`, `processChartinfo` | `Open`, `NextBlock`, `EndOfChartinfo` (which also shows the list) |
| `ShowEULA` | `Accept`, `Reject` |
| `ShowAlwaysEULAs` (5671), which the constructor calls (627) | `LoadNext`, `LoadAccept`, `LoadReject` |
| `SaveConfig`, OpenCPN's own writing, `DeInit` | `SaveConfig`, `Flush`, `Quit` |
| `LoadConfig`, `ScrubChartinfoList` | in `Quit` and `Crash`, the next session's start |

`Install`, `Remove` and `Unlist` change the directories.

### Settings and pictures (`Display`, `S52Symbols`)

`canvas` and `common` are OpenCPN's settings, `plib` those of the plugin's
library; `raz` says which object is linked to rules in which style, `cache` what
the procedure of each object gave, its category and its SCAMIN; `edge` who draws
an edge; `shown` the last picture.  `Message` is `SetPluginMessage`; `Render` is a
whole rendering of a canvas in the order of the code: the state hash and what it
clears (`eSENCChart.cpp` 1576), `UpdateLUPs`, line priorities, then each object
through its filters and procedure (`s52plib.cpp` 10787-10920).  `Load` reads the
chart again.

### Abstractions

* `ShopPanel`.  A reply is the account it describes, or an error; login retries
  and the name wizard are part of that error or of the time before (they are
  `ShopReply`'s), so `g_systemName` is a constant.  A request may be carried out
  although its reply is lost.  The server refuses a request by `CanAssign` and
  `CanPrepare`: a slot that is taken, a system that has one, a slot that is not
  requestable.  A file is absent, cut short, cut short by less than the thousandth
  that the length check (3367) tolerates, the zip, or the page of an HTTP error
  (which the transfer stores as it does a zip); its length is the reply it came
  from.  Only the whole zip can be unpacked, because its list of entries is at its
  end.  Two transfers that write one file break it.  The link of a slot is void
  unless its state is `download`, as the API's document says, and has a size then,
  so that the early return of `doDownload` (2075) is not reached for a slot that is
  ready.  `wxYield` inside a
  yield returns at once; otherwise it runs what is ready, and returns when no
  posted event is left.  `doUnzip`'s two yields are one.  Editions are not
  distinguished: what is installed is current.
* `ShopReply`.  One account; a key is named by its user.  The fields of a slot are
  of the three kinds the fold treats differently: its state, its system and its
  link.  The configuration object is written at once.  This machine's own name is
  never disabled by the server.  `blank` is the time when fingerprint files come
  out empty, and `crashed` remembers a crash: two properties except them.
* `ShopStore`.  The top directory of an archive is named as the archive; names of
  archives of two slots differ, which the server sees to; a path begins another
  where `Prefixes` says so of the names and never otherwise; a change of OpenCPN's
  list is at once visible.  A directory is the files in it.  The user does not press Refresh in the yields of an
  extraction.
* `SencServer`.  The server processes are known from how the plugin uses them: they
  share the public pipe and answer a key that does not fit with a failed
  signature.  Records are of the kinds the loops tell apart.  The key an accepted
  licence sets to "Pending" is to this module a key that fits no chart.
* `ChartRegistry`.  A Chartinfo is its blocks of EULA lines and at most one
  ChartInfo line, and says which of these is its last line, if one is: the loops
  over the lines (5471, 5591) end before they look at that one.  A directory without
  a Chartinfo has neither.  The window of a
  canvas exists, so that dialogs can be shown.  How often `Init` failed is
  `SencServer`'s.
* `Display`, `S52Symbols`.  OpenCPN (4.9 or later) tells the plugin of settings
  before it renders a canvas, and its hash tells settings apart.  The look-up
  tables are a constant: one category for each object, and a priority in each
  style, which for areas is the same.  Areas are filled in OpenCPN's own boundary
  style, assumed to be that of the message.  The safety contour is above 0, depths
  are whole centimetres.  Soundings, lights, texts, meta objects, the list of
  objects never shown, zoom modifiers and colour tables are left out, and so are the
  accuracy symbols that are added to what a point or an area shows; those that are
  drawn in place of a line are not.  A variable that the code reads without having
  set it (`s52cnsy.cpp` 2080) has any value, chosen anew (`stray`) when the
  procedures are run again.
* Everywhere: wording, layout, logging, progress bars, character sets and the
  Android build are left out.

## 3. What is checked

Every property of a passing run has, in `PROJECT.json`, a mutant: a mistake
(`Mut...` in the modules) that the same run finds.

| Run | Instance | Shows |
|---|---|---|
| `panel` | one chart set, no dongle, two transfers, two nested handlers, both environments (0.31 million states) | `TypeOK`; the timer's count is bounded (`CountBounded`); no second slot is proposed (`AssignedSlotChosen`); no NULL selection is used (`NoCrash`); every end of an operation leaves the panel ready (`QuietIsReady`); only a file fetched for the chart and slot worked on is offered, of the length the server gave, to a thousandth (`FetchedFileOffered`); preparing ends (`PreparingEnds`); Refresh comes back and the status override is lifted (`RefreshReturns`) |
| `panel_two` | two chart sets, or one with a dongle and another system of the account, calm (1.5 million, with symmetry of the chart sets) | a running transfer is that of the handle, the stream, the selection and the slot (`TransferInHand`); it is shown as such and excludes preparing (`BusyIsShown`); the timer polls what was requested (`PollsOwnRequest`); the selection is listed (`SelectionListed`); a zip goes where it belongs (`ZipOfItsSlot`); a cancelled file is gone (`CancelledIsGone`); `ShopPanel` implements `ShopOrder` (`OrderKept`) |
| `reply` | one chart set of which another machine holds a slot; a name of another, a free one, a disabled one (0.81 million) | `TypeOK`; the list is the account's, element by element (`ListIsAccount`); a name that is kept is this machine's (`NameVerified`); slots are assigned to this machine (`AssignedHere`); a login that works is kept (`LoginKept`); a Refresh ends (`RefreshEnds`) |
| `store` | one slot with three editions in one place or two in two, on disks with and without room, or two slots, two editions, one place and room (1.2 million) | `TypeOK`; of a chart set displayed as current every file is in its directory (`CurrentIsThere`); what is on record is scanned, also after a restart (`InstalledIsScanned`); the last whole copy is never removed while there is room (`LastCopyKept`) |
| `senc` | a chart whose directory names its key, one of another key with none named, one not encrypted in a directory that names a key; two servers (0.75 million) | `TypeOK`; a chart that can be read opens (`CalmOpenSucceeds`); one server is started (`OneServer`); `SencServer` implements `ChartData` (`OpensInOrder`); every call of `Init` returns (`InitReturns`) |
| `registry` | two directories, of which one has editions with two licences, the other the first text again, to be shown always, or on the last line, or no Chartinfo; dialogs two deep (2.7 million) | `TypeOK`; a chart is let through only with its licences accepted (`OpenedIsAccepted`); the list of chart sets has been shown and is of charts that are there (`SetsTold`), both but for last lines; nobody is asked twice (`AskedOnce`) |
| `display` | eleven dangers in turn, two of them lines, with a depth area, two contours and a boundary that shares their edges; four sets of settings on two canvases, two safety depths (0.17 million) | `TypeOK`; a picture is what the settings of the moment make of the chart (`DrawnIsCurrent`); every object has its symbol in the new style (`AllLinked`); dangers (`DangerShown`), the safety contour (`SafetyContourShown`) and shared edges (`EdgesDrawn`) are drawn |

Bounds of the panel.  The periods are scaled: queries every 2 ticks instead of 10,
timeout 4 instead of 60, counter from 1 instead of 8.  That keeps what the code's
numbers have: the timeout is a multiple of the period, and the first query comes
before a full period (`PanelAssumption`; the theorems hold for all such numbers, with
any timeout above 0).
`MaxTransfers` = 2 lets a transfer's end wait while another runs, the least for
events to be mixed up.  `MaxNesting` = 2 allows a handler inside a suspended one
and forbids a third, in which case the click or tick does not happen.  The state
constraint of `panel` (`CalmOrFew`) leaves a calm environment whole and has two
transfers, events or suspended handlers at most in one that is not, of which
fewer properties are asked.  That of `panel_two` (`Bounds`) has either both chart
sets without a dongle, or one of them with the dongle, the other system and one
transfer.

Bounds of the others.  `reply`: three attempts at a name are two.  `store`: slots
meet only in the configuration and in OpenCPN's list, so two are enough for one's
steps to harm the other; three editions give an update over the same name, by an
edition that lacks a file of the first, followed by one to a new name that has it
again; two places, a move there and back; `Bounds` keeps these apart.  Two files
are enough for a directory to hold some of each of two editions.  Every crash and
restart is in it, any number of times.  `senc`: the code probes 10 times, 3 times a
server just started, and gives a chart up after 3 failures; here it is 2, 2 and 2.  The three charts are the three relations of a
chart's key to the one its directory names; two servers are enough for one to
read what was meant for the other.  `registry`: a licence met again in another
directory, by its text, needs two of each; two nested dialogs let an inner call
change what the outer one has read.  `display`: two canvases with all four
settings let a picture be kept from the other canvas, and from the same one
earlier; the two safety depths make either contour the safety contour.

Deadlock is checked in `registry` alone: elsewhere the system may stop, after a
crash of the GUI thread, or when everything is installed and nothing is left to
do.

Fairness.  The panel's `FairSpec`: the GUI thread runs what it can and the user
answers the dialogs (`Handler`), the timer ticks while it runs, and every transfer
completes or breaks off, as curl's timeouts make it.  `ShopReply`: the step a
Refresh is at is taken, by the user who answers a dialog or by a post that ends or
times out.  `SencServer`: the GUI thread takes its steps, and the user answers the
key dialog; nothing is assumed of the servers, since every wait for them is
counted in tries.  Nothing is assumed anywhere of the shop's server or of clicks.

### Disagreements between the code and what it says

* `bug_selection`: line 2581 says that a chart being prepared cannot be
  deselected by the mouse; the guard looks at the status override, which is set
  for downloads only.
* `bug_second_slot`: line 3498 says that a slot already assigned to the system is
  chosen; one that is being prepared is not, and a second permanent assignment is
  asked for when the dongle is unplugged between Refresh and Install.
* `bug_prefix`: line 2383 says that a directory is added to OpenCPN's list when the
  list does not cover it; the test (2391) compares names as strings, so that
  `chart-2017-10` passes for covered by `chart-2017-1`.  It is not added, the old
  directory is deleted, and OpenCPN scans neither.
* `bug_licence`: `oesenc_pi.cpp` 5547 and 5570 say that each licence a Chartinfo
  names is shown and then done with; the name of its file is not cleared, so that
  a second licence without a file in the user's language is looked up under the
  name of the first, passes for shown, and never is.
* `bug_scamin`: `s52plib.cpp` 10827 says that SCAMIN does not apply to objects of
  category DISPLAYBASE; the test takes the category of the look-up table, not the
  one a danger was moved to, and the danger is hidden.

Met while modelling, with no line of the source that says otherwise.

* Panel.  After an upload or preparation that fails, Install stays disabled and
  Cancel shown.  With the dongle unplugged while its slot is prepared, Refresh takes
  the chart from the list and what the handler does next uses a NULL selection.
  A press of Install that yields finds another selection when it goes on.  The last
  status query and the timeout share a tick, so that the user is told that
  preparation is not complete (3803) when the download has just begun; with YES,
  the next query starts another.  A zip file that lacks less than a thousandth
  passes the length check (3367), is offered, and fails to unpack.
* Replies.  A slot without a link keeps that of the element before it in the list.
  An empty fingerprint file passes for an upload that succeeded (1937).  The wizard
  saves a name before it has been verified (4054).
* Store.  An extraction that breaks off over the directory on record leaves a file
  cut short under a record that says it is installed: so `LastCopyKept` excepts
  the extraction over the very directory, and `CurrentIsThere` asks of every file
  that it is there and of which edition, and not whether it is whole.  Nothing
  clears a directory before an archive of the same name is extracted there, and
  2438 removes nothing then, so that files the newer edition lacks stay and are
  scanned beside it.  Whether a file could be written (2271) is not asked: what a
  full disk cuts short passes for extracted, and the old edition is then removed.
  So `LastCopyKept` excepts a full disk.
* Server.  A probe with an empty key opens no pipe, so that a second server is
  started beside one that answers.  A whole chart read with an error that is not
  the key's is taken for read, with no objects.  Failed openings leave their
  temporary files behind.  A slow server cuts a chart short without an error.
* Registry.  A directory replaced in the same session is not processed again,
  although 5452 asks for the "exact" file.  A chart of a directory whose licence is
  being asked for passes.  One rejection blocks every chart of the session.
  Licences whose files are missing share one hash, so one acceptance serves all.
  The version and the expiry of a chart set in the list are never renewed.  A
  licence shown once is known by its path, and a new text there is not shown.  The
  last line of a Chartinfo is never processed: a licence or a chart set named only
  there is ignored.
* Display.  A contour or coast line with QUAPOS 1, 10 or 11 is not drawn.  The
  scale set by a contour that was the safety contour stays.  A first contour of
  depth 0 is left out of those sought (4594).  An obstruction area with WATLEV 3 and
  no CATOBS 6, and a wreck without CATWRK and WATLEV, have no symbol.  An obstruction
  that is a line of poor accuracy (QUALTY 2 to 9) is drawn as one of low accuracy or
  not at all, danger or not, by a variable that is read without having been set
  (`s52cnsy.cpp` 2080).
  `UpdateLUPs` may leave a point without a symbol if its priorities differ between
  the styles.

## 4. Plan

Done: the core of the shop, its store and protocol, with their theorems; the
server with its streams; the registry; what a chart shows of dangers and depths.
Left, in this order:

1. What the records of a SENC stream become: an object with its attributes and
   geometry, built over several records.
2. Lights and soundings in `S52Symbols`, and priorities that differ between styles.
3. The bands of `OCPNRegion` as pure algorithms against sets of pixels.

## 5. What is proved

Each proofs module proves that an inductive invariant `IInv` holds, one lemma for
each action, and derives its theorems from it.  All hold for every value of the
constants that satisfies the module's named assumption.

* `ShopPanelProofs`: `TypeCorrect`, `TimeoutRespected` (`CountBounded`) and
  `SelectionIsListed` (`SelectionListed`), in both environments.  `IInv` joins the
  three, since none is inductive alone.  The type says that the counter is at most
  `Timeout + 1`; an increment keeps to that only if a running timer was within the
  timeout; and that is restored only where the count is tested, which a tick that
  queries the server does after a suspension.  So the proof needs the fact that
  the tick after the timeout is not a querying one, `NoPollAfterTimeout`: a number
  and its successor are not both multiples of a period above one.  With a period
  that divided the timeout's successor, a handler suspended in that query would
  leave the timer running past it.  The selection is preserved by each function
  that rebuilds the panels (`GoodUI`, `ChartListGood`, `TimeoutCheckGood`...).
* `ShopPanelCalmProofs`: the eight properties of the calm panel, `NeverCrashes`
  (`NoCrash`), `OneTransferInHand` (`TransferInHand`), `TransferIsShown`
  (`BusyIsShown`), `NothingLeftBehind` (`QuietIsReady`), `OwnRequestPolled`
  (`PollsOwnRequest`), `OfferedIsFetched` (`FetchedFileOffered`), `ZipIsOfItsSlot`
  (`ZipOfItsSlot`) and `CancelledFileIsGone` (`CancelledIsGone`), for any number of
  chart sets, dongles, transfers and nested handlers, all from one invariant
  (`CInv`).  At its centre is that while anything is under way the slot worked on
  is assigned to this system or to the dongle, which no list of the server takes
  back (`Account`, `Work`): so the chart set stays listed, and every handler that
  reads the selection again finds the one it left.  The rest says which handlers
  may be suspended inside which others (a stack has at most a handler of a button,
  the timer's inside it, the installation's inside that: `Nested`) and what each
  relies on (`Relies`); that there is one transfer, or the one event it left, and
  how the flags go with it (`Flight`); and who will change back each control that
  was changed (`Residue`).  One hypothesis, `DistinctSerials`: no two dongles whose
  serial numbers differ in the leading hex digit only.  Such a pair is taken for
  each other (504), and a download for the one can lose the selection under the other.
  The last section proves `AssignedSlotIsChosen` (`AssignedSlotChosen`) without
  dongles (`NoDongles`) and while the environment is calm.  The button that leads to
  the question whether to assign a slot for good may be a stale one: it stays on the
  panel when a list that has just come gives this system a slot.  Its invariant
  (`AskInv`) is `CInv` with `Offering`, that *Install* is shown beside a slot that is
  being prepared only until the timer's first query or in the box of its error, and
  `Unasked`, that no name the user is asked about has a slot; so it needs that the
  first query comes before the timeout (`PollsInTime`).  Both hypotheses are needed:
  with a dongle the question is asked although the system has a slot
  (`bug_second_slot`); and with two chart sets and a reply to an assignment that is
  lost, the timer of the other chart set lists the slot under the open question.
  `TicksAreCounted`: while the timer runs its count is within the timeout, each tick
  raises it by one, and no other handler sets it back, as one that starts a
  preparation would; those find the timer stopped, by `Relies`.
* `ShopOrderProofs`: `OrderIsKept` (`OrderKept`), that `ShopPanel` implements
  `ShopOrder`, if the environment is calm (`Calms = {TRUE}`) and with the same
  hypothesis on dongles.  To `CInv` it adds that a file a chart set refers to is of
  a slot that is this user's and was ready when it was fetched (`Fetched`).
* `ShopStoreProofs`: `RecordsAreWhole` (`TypeOK`), `CurrentIsInstalled`
  (`CurrentIsThere`), `LastCopyIsKept` (`LastCopyKept`) and, if no path begins
  another (`Prefixes = {}`), `RecordedIsScanned` (`InstalledIsScanned`), so that the
  string comparison of `bug_prefix` is the only way to lose a directory.  The
  invariant: editions only go up, from what is on record over what was requested
  and listed to what is sold; in the directory of the job under way every file is of
  its archive, and whole if there is room, but for those still to be extracted and
  the one being written (`Sound`); of each record, in memory, object and file, the
  directory holds every file of the edition recorded, or that edition is out of date,
  which the panel then sees (`Dated`); names tell archives of different slots apart.
  `LastCopyIsKept` has the hypothesis of the property that there is room: a file that
  was read is then whole when the old edition's are removed.
* `ShopReplyProofs`: `LoginIsKept`, `NameIsVerified` and `AssignedIsHere`.  The
  invariant: a saved login that works is the one in memory (`LoggedIn`), and a name
  is in doubt only while it is chosen and uploaded (`Vouched`).  `ListIsTheAccount`
  (`ListIsAccount`) and `TypeCorrect`, for any finite set of charts and any order of
  a reply's elements: `ProcessResponse` carries a link and a system name from one
  element to the next, so that the list is right only if each slot's elements come
  together and end with the one that stores it.  The lemmas go through a reply as the
  code does, first inside one slot (`ReadOne`), then slot by slot (`ReadNext`), the
  fact kept being which slots have been read and that nothing else was written.
  `RefreshesAreBounded`: what a refresh has left (`RefreshLeft`) decreases with each
  of its steps and is touched by no other, so that it is over after at most
  `MaxTries + 6`; the log-in that follows a refusal is not followed by another.
* `SencServerProofs`: `ChartIsInOrder`, that `SencServer` implements `ChartData`;
  `ReadableOpens` (`CalmOpenSucceeds`), `OneServerRuns` (`OneServer`) and
  `TypeCorrect`.  The invariant says where a call can be and with which stream and
  key (`Placed`); that while records are read their number and the position in
  the stream determine each other (`Streamed`), from which the next one is the
  right one; that of a calm session's servers none runs, or one does that answers
  or has just been launched (`Alone`); and that in a call that is due to succeed
  a server answers, the key fits or the one beside the chart will, and what fits
  arrives whole (`Due`).  So an error can only mean a key that does not fit, and
  the last attempt cannot err.  `CallsAreBounded`: a call of `Init` returns after at
  most `12 * Most(chart)` of its own steps, whatever the servers do.  Its steps
  come in stages, of which none is entered twice (`Stage`), and in each there
  is so much left to try, to await or to read (`Ahead`): the retries of the four
  functions that have them are nested, and are bounded together (`StepsLeft`).
* `ChartRegistryProofs`: `TypeCorrect`, `LicencesAreAccepted` (`OpenedIsAccepted`),
  `SetsAreTold` (`SetsTold`) and `NobodyIsAskedTwice` (`AskedOnce`), for any depth of
  dialogs.  The invariant follows the stack: each call is of another directory,
  and the blocks below its own have been accepted; what was ever accepted is what
  the array says was shown, and the configuration never says more than that.
* `DisplayProofs`: `PictureIsCurrent` (`DrawnIsCurrent`), for any chart, settings and
  canvases.  The invariant is one for each object: what is kept with it was made
  under the settings of the hash, or is cleared by the next rendering, and a
  rendering with an equal hash has equal settings.  On it rest `TypeCorrect` and,
  under the hypothesis that the tables (OpenCPN's, not of this repository) give a
  point one priority whichever symbols are chosen (`SamePriorities`):
  `AllAreLinked` (`AllLinked`), `DangersAreShown` (`DangerShown`: in every display
  category and with any classes switched off, at the scales SCAMIN leaves),
  `SafetyContourIsShown` (`SafetyContourShown`) and, if no object of the chart is in
  the category of the mariner's own (`NoMariners`), `EdgesAreDrawn` (`EdgesDrawn`).
  The invariant `LInv` adds that a chart is linked for the style it was loaded under
  and, from the first rendering, for every style (`Stylish`); that the safety
  contour found is the least of the contours from the safety depth to the deep one;
  that each edge has the priority of the highest of the objects that claim it under
  the settings of the hash (`Edged`); and that a picture is of the present settings
  (`Pictured`).  Without `SamePriorities`, a point that moves up when
  it is linked to its other symbol makes the list it comes to look filled already, and
  the points of that priority are left out.  Without `NoMariners`, an object of the
  mariner's own takes edges in the category OTHER, in which it is not drawn.

Induction.  The library's induction theorems take a predicate, which the provers
cannot instantiate.  Where a proof needs one, it takes the least counterexample
instead: the natural numbers are well-founded (`WellFoundedInduction`, whose
theorems are about sets), so a set of failures that is not empty has a least
element (`LeastNatural`).  A fold of the community modules is a function chosen by
its recursion, of which nothing can be said until one is exhibited: `FoldExists`
shows by the same argument that the recursion has a solution for every length, and
`FoldStep` unfolds it.

Only model-checked are the liveness properties (`PreparingEnds`, `RefreshReturns`,
`RefreshEnds`, `InitReturns`), since TLAPS does not prove facts about fairness and
`ENABLED`.  Of three of them the part that is not about fairness is proved:
`TicksAreCounted`, `RefreshesAreBounded` and `CallsAreBounded` give the variants,
and what TLC adds is that a step is always possible and is taken.  Also only checked
are the properties of the runs that expect a violation; and, of
`AssignedSlotChosen`, the part about an environment that is not calm, which run
`panel` has for one chart set.  All other properties of the runs are theorems.

## 6. Not modelled

* Chart object model and region algebra; tessellation and S57 attributes; tables,
  fonts and view ports: geometry in floating point, parsing and OpenGL state, with
  no protocol of their own.  Bounded inputs small enough for TLC would not reach
  the cases that matter, rounding among them.
* From an instruction to a pixel (`s52plib.cpp`): drawing, for which there is no
  statement to check but the picture itself.  The same holds for text placement.
* The writing of SENC files (`createSenc200`): built into another tool.
* Installation directories: path look-ups, pure input and output.
* `libs/`, `include/GL`: vendored.

These are most of the repository's lines.  What keeps state that outlives a call,
or talks to another process, a server, the disk or the user, is in sections 1 to 5.
