----------------------------- MODULE ShopReply -----------------------------
(***************************************************************************)
(* Talking to the shop: Refresh (shopPanel::OnButtonUpdate) with its login  *)
(* (doLogin), its second try, the choice of a system name                   *)
(* (doSystemNameWizard) and the upload of this machine's fingerprint        *)
(* (doUploadXFPR); the fold of a reply into the list of chart sets          *)
(* (ProcessResponse); the assignment of a slot (OnButtonInstall, doAssign); *)
(* and what the configuration keeps of user, key and name.                  *)
(*                                                                          *)
(* The server is external: its document is src/API_oeSENC_191203.txt.  The  *)
(* key of a user is named by the user.  Of the fields of a chart element,   *)
(* sys stands for those that ProcessResponse clears before each element     *)
(* (assignedSystemName, lastRequested), link for those it does not clear    *)
(* and the server leaves void (link, size), state for those never void.     *)
(***************************************************************************)
EXTENDS Integers, Sequences, SequencesExt

CONSTANTS
    Users, NoUser,
    Mistyped,      \* what is no user of the shop
    Charts,        \* chart sets: order, chartid and quantityId
    OwnerOf,       \* the user whose account has it
    Names,         \* valid system names
    NoName,        \* the empty name
    Garbled,       \* the dongle's entry of the dialog, of a dongle not named yet
    NoLink,        \* no download link
    MaxTries,      \* names that may be rejected, 4 in the code
    FirstOwners,   \* what the server knows of the names at the beginning
    FirstSlots     \* and of the slots

Slots  == {0, 1}
Links  == (Charts \X Slots) \cup {NoLink}
Slot   == [sys : Names \cup {NoName}, state : {"unassigned", "requestable", "download"}]
Owners == {"none", "here", "else", "off"}

ASSUME ReplyAssumption ==
    /\ NoUser \notin Users /\ Mistyped \notin Users /\ Mistyped # NoUser /\ NoName \notin Names /\ Garbled \notin Names /\ NoName # Garbled
    /\ IsFiniteSet(Charts) /\ OwnerOf \in [Charts -> Users] /\ NoLink \notin Charts \X {0, 1}
    /\ MaxTries \in Nat \ {0}
    /\ FirstOwners \in [Names -> Owners]
    /\ FirstSlots \in [Charts -> [Slots -> Slot]]

VARIABLES
    mem,       \* g_loginUser, g_loginKey, g_systemName
    conf,      \* the same in the configuration, once saved
    items,     \* g_ChartArray: the two slots of each chart set
    listed,    \* the chart sets that are in it
    known,     \* g_systemNameChoiceArray, ...ServerArray, ...DisabledArray
    gui,       \* where the Refresh is
    acct,      \* the server's slots
    owner,     \* the server's system names: whose fingerprint each has
    valid,     \* users whose key the server accepts
    told,      \* the slots as the server last listed them
    blank,     \* fingerprint files come out empty
    crashed    \* OpenCPN has crashed once

account == <<acct, owner, valid>>
panel   == <<mem, conf, items, listed, known, gui, told>>
vars    == <<panel, account, blank, crashed>>

Idle == [at |-> "idle"]
Gui  == {Idle} \cup [at : {"login", "list", "name", "upload"}, again : BOOLEAN, dongle : BOOLEAN,
                     tries : 0..MaxTries, offered : SUBSET (Names \cup {Garbled})]

Creds == [user : Users \cup {NoUser, Mistyped}, key : Users \cup {NoUser}, name : Names \cup {NoName, Garbled}]
Item  == [sys : Names \cup {NoName}, state : {"", "unassigned", "requestable", "download"}, link : Links]
Empty == [sys |-> NoName, state |-> "", link |-> NoLink]

TypeOK ==
    /\ mem \in Creds
    /\ conf \in [saved : BOOLEAN, c : Creds]
    /\ items \in [Charts -> [Slots -> Item]]
    /\ listed \subseteq Charts
    /\ \A c \in Charts \ listed : items[c] = [s \in Slots |-> Empty]
    /\ known \in [choice : SUBSET (Names \cup {Garbled}), server : SUBSET Names, disabled : SUBSET Names]
    /\ gui \in Gui
    /\ acct \in [Charts -> [Slots -> Slot]]
    /\ owner \in [Names -> Owners]
    /\ valid \subseteq Users
    /\ told \in [Charts -> [Slots -> Slot \cup {Empty}]]
    /\ blank \in BOOLEAN /\ crashed \in BOOLEAN

-----------------------------------------------------------------------------
\* ProcessResponse

\* The chart elements of a reply, in any order.
Elements(slots, u) ==
    LET ids == {c \in Charts : OwnerOf[c] = u} \X Slots
        Element(id) == LET x == slots[id[1]][id[2]]
                       IN [chart |-> id[1], slot |-> id[2], sys |-> x.sys, state |-> x.state,
                           link |-> IF x.state = "download" THEN id ELSE NoLink]
    IN  {[i \in 1..Len(q) |-> Element(q[i])] : q \in SetToSeqs(ids)}

\* A field that is void leaves the variable of the element before as it is, but
\* for those that are cleared for each element.
MutElement(acc, e) ==
    LET link == IF e.link = NoLink THEN acc.link ELSE e.link
        sys  == IF e.sys = NoName THEN acc.sys ELSE e.sys
    IN  [link |-> link, sys |-> sys,
         items |-> [acc.items EXCEPT ![e.chart][e.slot] = [sys |-> sys, state |-> e.state, link |-> link]]]

ReadElement(acc, e) ==
    LET link == IF e.link = NoLink THEN acc.link ELSE e.link
    IN  [link |-> link, sys |-> e.sys,
         items |-> [acc.items EXCEPT ![e.chart][e.slot] = [sys |-> e.sys, state |-> e.state, link |-> link]]]

\* A list of the slots, of user u.
Listed(slots, u) ==
    /\ \E q \in Elements(slots, u) :
         items' = FoldLeft(ReadElement, [link |-> NoLink, sys |-> NoName, items |-> items], q).items
    /\ listed' = listed \cup {c \in Charts : OwnerOf[c] = u}
    /\ told' = [c \in Charts |-> IF OwnerOf[c] = u THEN slots[c] ELSE told[c]]

\* The names in a list: these arrays only grow.
NamesListed ==
    LET there == {n \in Names : owner[n] \in {"here", "else"}}
        off   == {n \in Names : owner[n] = "off"}
    IN known' = [choice |-> known.choice \cup there, server |-> known.server \cup there,
                 disabled |-> known.disabled \cup off]

-----------------------------------------------------------------------------
\* The configuration

\* An empty name is read again; what was never saved leaves the variables alone.
Loaded(m) == IF ~conf.saved THEN m
             ELSE [user |-> conf.c.user, key |-> conf.c.key, name |-> IF m.name = NoName THEN conf.c.name ELSE m.name]

Save(m) == conf' = [saved |-> TRUE, c |-> m]

\* The server's view of a user and a key.
Works(m) == m.user # NoUser /\ m.key = m.user /\ m.user \in valid

-----------------------------------------------------------------------------
\* OnButtonUpdate

At(place) == [gui EXCEPT !.at = place]

\* The wizard is opened after this many names were rejected: it offers the names there
\* are, the disabled ones not being.
Wizard(tries) == [gui EXCEPT !.at = "name", !.tries = tries, !.offered = known'.choice \ known'.disabled]

Refresh(dongle) ==
    /\ gui = Idle
    /\ mem' = Loaded(mem)
    /\ gui' = [at |-> IF mem'.key = NoUser THEN "login" ELSE "list", again |-> FALSE, dongle |-> dongle,
                tries |-> 0, offered |-> {}]
    /\ UNCHANGED <<conf, items, listed, known, told, account, blank, crashed>>

LoginCancel ==
    /\ gui.at = "login"
    /\ gui' = Idle
    /\ UNCHANGED <<mem, conf, items, listed, known, told, account, blank, crashed>>

\* The user named is kept whatever the server says.
LoginFails(u) ==
    /\ gui.at = "login"
    /\ mem' = [mem EXCEPT !.user = u]
    /\ gui' = Idle
    /\ UNCHANGED <<conf, items, listed, known, told, account, blank, crashed>>

Login(u) ==
    /\ gui.at = "login"
    /\ mem' = [mem EXCEPT !.user = u, !.key = u]
    /\ Save(mem')
    /\ valid' = valid \cup {u}
    /\ gui' = At("list")
    /\ UNCHANGED <<items, listed, known, told, acct, owner, blank, crashed>>

\* An error other than that of the login, or of any kind at the second try, ends it.
MutListFails ==
    /\ gui.at = "list"
    /\ gui' = IF gui.again THEN Idle ELSE [At("login") EXCEPT !.again = TRUE]
    /\ UNCHANGED <<mem, conf, items, listed, known, told, account, blank, crashed>>

ListFails ==
    /\ gui.at = "list"
    /\ gui' = Idle
    /\ UNCHANGED <<mem, conf, items, listed, known, told, account, blank, crashed>>

\* Errors 4, 5 and 6.
ListRefused ==
    /\ gui.at = "list"
    /\ ~Works(mem)
    /\ gui' = IF gui.again THEN Idle ELSE [At("login") EXCEPT !.again = TRUE]
    /\ UNCHANGED <<mem, conf, items, listed, known, told, account, blank, crashed>>

List ==
    /\ gui.at = "list"
    /\ Works(mem)
    /\ Listed(acct, mem.user) /\ NamesListed
    /\ IF mem.name = NoName /\ ~gui.dongle
         THEN gui' = Wizard(0) /\ UNCHANGED conf
         ELSE gui' = Idle /\ Save(mem)
    /\ UNCHANGED <<mem, account, blank, crashed>>

-----------------------------------------------------------------------------
\* doSystemNameWizard and the loop around it

\* After the loop: a name that is there is uploaded, accepted or not.
NamesDone(m) == IF m.name = NoName THEN gui' = Idle /\ Save(m)
                                   ELSE gui' = At("upload") /\ Save(m)

MutRejected(m) == gui' = Wizard(0) /\ Save(m)

MutRejectedOn(m) == gui' = Wizard(gui.tries + 1) /\ Save(m)

\* The wizard has saved the name; it stays when it is rejected.
Rejected(m) == IF gui.tries + 1 < MaxTries
                 THEN gui' = Wizard(gui.tries + 1) /\ Save(m)
                 ELSE NamesDone(m)

NameCancel ==
    /\ gui.at = "name"
    /\ mem' = [mem EXCEPT !.name = NoName]
    /\ NamesDone(mem')
    /\ UNCHANGED <<items, listed, known, told, account, blank, crashed>>

\* One of those offered, which a reply to a Poll may have disabled meanwhile.
NameChosen(n) ==
    /\ gui.at = "name"
    /\ n \in gui.offered
    /\ mem' = [mem EXCEPT !.name = n]
    /\ UNCHANGED <<items, listed, known, told, account, blank, crashed>>
    /\ IF n \in known.disabled THEN Rejected(mem') ELSE NamesDone(mem')

\* A dongle plugged in since the Refresh began: the label is cut to a name.
NameGarbled ==
    /\ gui.at = "name"
    /\ mem' = [mem EXCEPT !.name = Garbled]
    /\ known' = [known EXCEPT !.choice = @ \cup {Garbled}]
    /\ NamesDone(mem')
    /\ UNCHANGED <<items, listed, told, account, blank, crashed>>

NameNew(n) ==
    /\ gui.at = "name"
    /\ mem' = [mem EXCEPT !.name = n]
    /\ known' = [known EXCEPT !.choice = @ \cup {n}]
    /\ IF n \in known.disabled \cup known.server THEN Rejected(mem') ELSE NamesDone(mem')
    /\ UNCHANGED <<items, listed, told, account, blank, crashed>>

\* A new name that is no valid name.
NameInvalid ==
    /\ gui.at = "name"
    /\ mem' = [mem EXCEPT !.name = NoName]
    /\ UNCHANGED <<items, listed, known, told, account, blank, crashed>>
    /\ IF gui.tries + 1 < MaxTries THEN gui' = Wizard(gui.tries + 1) /\ UNCHANGED conf
                                   ELSE NamesDone(mem')

-----------------------------------------------------------------------------
\* doUploadXFPR

\* The server takes a name that has this machine's fingerprint, or a new one if no
\* other name has it.
Takes(n) == /\ n \in Names
            /\ \/ owner[n] = "here"
               \/ owner[n] = "none" /\ \A m \in Names : owner[m] # "here"

Registered(n) == [owner EXCEPT ![n] = "here"]

UploadOK ==
    /\ gui.at = "upload"
    /\ \/ ~blank /\ Works(mem) /\ Takes(mem.name) /\ owner' = Registered(mem.name)
       \/ blank /\ UNCHANGED owner
    /\ gui' = Idle /\ Save(mem)
    /\ UNCHANGED <<mem, items, listed, known, told, acct, valid, blank, crashed>>

MutForget == UNCHANGED <<mem, conf>>

Forget == mem' = [mem EXCEPT !.name = NoName] /\ Save(mem')

\* The name is refused, or the reply is lost, after the server has acted or before.
UploadFails ==
    /\ gui.at = "upload" /\ ~blank
    /\ \/ UNCHANGED owner
       \/ Works(mem) /\ Takes(mem.name) /\ owner' = Registered(mem.name)
    /\ Forget
    /\ gui' = Idle
    /\ UNCHANGED <<items, listed, known, told, acct, valid, blank, crashed>>

-----------------------------------------------------------------------------
\* What else the panel does with the account

MutUploaded == TRUE

\* The upload before an assignment reports success.
Uploaded == blank \/ (Works(mem) /\ Takes(mem.name))

\* The upload before an assignment (OnButtonInstall), and the assignment, unless the
\* user or the server refuses it.  Its reply is a list, and may be lost.
Assign(c, s) ==
    /\ gui = Idle
    /\ mem.name # NoName
    /\ items[c][s].state = "unassigned"
    /\ Uploaded
    /\ owner' = IF ~blank /\ Works(mem) /\ Takes(mem.name) THEN Registered(mem.name) ELSE owner
    /\ \/ UNCHANGED <<acct, items, listed, told>>
       \/ /\ Works(mem) /\ OwnerOf[c] = mem.user
          /\ acct[c][s].state = "unassigned"
          /\ mem.name \in Names /\ owner'[mem.name] \in {"here", "else"}
          /\ acct' = [acct EXCEPT ![c][s] = [sys |-> mem.name, state |-> "requestable"]]
          /\ Listed(acct', mem.user) \/ UNCHANGED <<items, listed, told>>
    /\ UNCHANGED <<mem, conf, known, gui, valid, blank, crashed>>

\* OnPrepareTimer, in the event loop of a dialog too.
Poll ==
    /\ gui.at \in {"idle", "login", "name"}
    /\ Works(mem)
    /\ listed # {}
    /\ Listed(acct, mem.user) /\ NamesListed
    /\ UNCHANGED <<mem, conf, gui, account, blank, crashed>>

\* doUnzip saves the configuration, whatever it is.
SaveElsewhere ==
    /\ gui.at \in {"idle", "login", "name"}
    /\ Save(mem)
    /\ UNCHANGED <<mem, items, listed, known, gui, told, account, blank, crashed>>

\* OnClearSystemName, in the preferences.
ClearName ==
    /\ gui = Idle /\ mem.name # NoName
    /\ mem' = [mem EXCEPT !.name = NoName]
    /\ conf' = [conf EXCEPT !.c.name = NoName]
    /\ UNCHANGED <<items, listed, known, gui, told, account, blank, crashed>>

\* OpenCPN is started again: LoadConfig.
Fresh ==
    /\ mem' = IF conf.saved THEN conf.c ELSE [user |-> NoUser, key |-> NoUser, name |-> NoName]
    /\ items' = [c \in Charts |-> [s \in Slots |-> Empty]]
    /\ told' = [c \in Charts |-> [s \in Slots |-> Empty]]
    /\ listed' = {}
    /\ known' = [choice |-> {}, server |-> {}, disabled |-> {}]
    /\ gui' = Idle

Quit == gui = Idle /\ Fresh /\ UNCHANGED <<conf, account, blank, crashed>>

Crash == Fresh /\ crashed' = TRUE /\ UNCHANGED <<conf, account, blank>>

-----------------------------------------------------------------------------
\* The server

Prepare(c, s) ==
    /\ acct[c][s].state = "requestable"
    /\ acct' = [acct EXCEPT ![c][s].state = "download"]
    /\ UNCHANGED <<panel, owner, valid, blank, crashed>>

\* Another machine registers a name, or one is disabled; not the one in use here.
OtherName(n) ==
    /\ \/ owner[n] = "none" /\ owner' = [owner EXCEPT ![n] = "else"]
       \/ owner[n] = "else" /\ owner' = [owner EXCEPT ![n] = "off"]
    /\ UNCHANGED <<panel, acct, valid, blank, crashed>>

NewPassword(u) ==
    /\ u \in valid
    /\ valid' = valid \ {u}
    /\ UNCHANGED <<panel, acct, owner, blank, crashed>>

\* The disk is full: oeserverd leaves an empty file.
FprBreaks ==
    /\ ~blank /\ blank' = TRUE
    /\ UNCHANGED <<panel, account, crashed>>

-----------------------------------------------------------------------------
Init ==
    /\ mem = [user |-> NoUser, key |-> NoUser, name |-> NoName]
    /\ conf = [saved |-> FALSE, c |-> mem]
    /\ items = [c \in Charts |-> [s \in Slots |-> Empty]]
    /\ told = [c \in Charts |-> [s \in Slots |-> Empty]]
    /\ listed = {}
    /\ known = [choice |-> {}, server |-> {}, disabled |-> {}]
    /\ gui = Idle
    /\ acct = FirstSlots /\ owner = FirstOwners /\ valid = {}
    /\ blank = FALSE /\ crashed = FALSE

\* A Refresh goes on: the user answers the dialogs, the server or a timeout the posts.
GoOn ==
    \/ LoginCancel \/ ListFails \/ ListRefused \/ List
    \/ \E u \in Users \cup {Mistyped} : LoginFails(u)
    \/ \E u \in Users : Login(u)
    \/ NameCancel \/ NameGarbled \/ NameInvalid
    \/ \E n \in Names : NameNew(n)
    \/ \E n \in Names \cup {Garbled} : NameChosen(n)
    \/ UploadOK \/ UploadFails

Next ==
    \/ \E dongle \in BOOLEAN : Refresh(dongle)
    \/ GoOn
    \/ \E c \in Charts, s \in Slots : Assign(c, s) \/ Prepare(c, s)
    \/ Poll \/ SaveElsewhere \/ ClearName
    \/ Quit \/ Crash
    \/ \E n \in Names : OtherName(n)
    \/ \E u \in Users : NewPassword(u)
    \/ FprBreaks

Spec     == Init /\ [][Next]_vars
FairSpec == Spec /\ WF_vars(GoOn)

-----------------------------------------------------------------------------
\* Properties

\* The state and the system of every slot of the panel's list are those the server
\* last gave for that very slot, whatever elements came before it, and so is the link
\* of one ready for download (ProcessResponse).  Any other may have a link that is not
\* its own: "void if state is not "download"" in the server's list
\* (API_oeSENC_191203.txt 147), it is left as the element before had it.
ListIsAccount ==
    \A c \in Charts, s \in Slots :
        /\ items[c][s].state = told[c][s].state /\ items[c][s].sys = told[c][s].sys
        /\ items[c][s].state = "download" => items[c][s].link = <<c, s>>

\* A system name that is kept when a Refresh is over is that of this machine at the
\* server, however names were typed, rejected and lost (OnButtonUpdate 3256-3327);
\* unless OpenCPN has crashed or fingerprints come out empty.
NameVerified ==
    gui = Idle /\ mem.name # NoName /\ ~crashed /\ ~blank => mem.name \in Names /\ owner[mem.name] = "here"

\* A slot is assigned, for good, only to the name of this machine, also with a name
\* that was never verified because of a crash (OnButtonInstall 3586, doAssign).
AssignedHere ==
    [][\A c \in Charts, s \in Slots :
          acct[c][s].state = "unassigned" /\ acct'[c][s].state # "unassigned" /\ ~blank
              => owner'[acct'[c][s].sys] = "here"]_vars

\* A saved login that works is not lost through lost replies, or logins cancelled or
\* mistyped: only the server ends it.
LoginKept ==
    [][conf.saved /\ Works(conf.c) /\ valid' = valid => Works(conf.c)']_vars

\* A Refresh that the user does not abandon ends: logins and names are tried a
\* bounded number of times.
RefreshEnds == (gui # Idle) ~> (gui = Idle)
=============================================================================
