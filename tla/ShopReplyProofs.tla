--------------------------- MODULE ShopReplyProofs ---------------------------
(***************************************************************************)
(* For any users, chart sets and names: a login that works is not lost, a   *)
(* system name that is kept has been verified, a slot is assigned only to   *)
(* the name of this machine, and the list of chart sets is what the server  *)
(* last gave; and a refresh is over after so many answers.  The list is     *)
(* about a fold over the elements of a reply, in any order: it exists for   *)
(* every number of elements, and each of them is read once (an induction on *)
(* the least set of elements for which it fails).                           *)
(***************************************************************************)
EXTENDS ShopReply, WellFoundedInduction, FiniteSetTheorems, TLAPS

Typed ==
    /\ mem \in Creds
    /\ conf \in [saved : BOOLEAN, c : Creds]
    /\ gui \in Gui
    /\ acct \in [Charts -> [Slots -> Slot]]
    /\ owner \in [Names -> Owners]
    /\ blank \in BOOLEAN /\ crashed \in BOOLEAN

\* What is saved and works is what the panel uses, and nobody is asked to log in who
\* need not be.
LoggedIn ==
    /\ conf.saved /\ Works(conf.c) => mem.user = conf.c.user /\ mem.key = conf.c.key
    /\ gui.at = "login" => ~Works(mem)

\* A name is in doubt only while it is chosen and uploaded.
Here(n) == n = NoName \/ (n \in Names /\ owner[n] = "here")

Vouched ==
    ~crashed /\ ~blank /\ gui.at \in {"idle", "login", "list"} =>
        Here(mem.name) /\ (conf.saved => Here(conf.c.name))

IInv == Typed /\ LoggedIn /\ Vouched

\* What is known of the names does not depend on the rest, and what is offered does on it.
NamesTyped == /\ known \in [choice : SUBSET (Names \cup {Garbled}), server : SUBSET Names, disabled : SUBSET Names]
              /\ valid \subseteq Users

-----------------------------------------------------------------------------
LEMMA OfGui ==
    ASSUME gui \in Gui
    PROVE  /\ gui = Idle <=> gui.at = "idle"
           /\ gui # Idle => /\ gui.at \in {"login", "list", "name", "upload"}
                            /\ gui.again \in BOOLEAN /\ gui.dongle \in BOOLEAN /\ gui.tries \in 0..MaxTries
                            /\ gui.offered \subseteq Names \cup {Garbled}
                            /\ gui = [at |-> gui.at, again |-> gui.again, dongle |-> gui.dongle,
                                      tries |-> gui.tries, offered |-> gui.offered]
BY DEF Gui, Idle

LEMMA IdleAt == Idle \in Gui /\ Idle.at = "idle"
BY DEF Gui, Idle

LEMMA SavedAs ==
    ASSUME Typed, NEW m \in Creds
    PROVE  /\ conf \in [saved : BOOLEAN, c : Creds]
           /\ [saved |-> TRUE, c |-> m] \in [saved : BOOLEAN, c : Creds]
BY DEF Typed

LEMMA OfSlots ==
    ASSUME acct \in [Charts -> [Slots -> Slot]], NEW c \in Charts, NEW s \in Slots, NEW x \in Slot
    PROVE  [acct EXCEPT ![c][s] = x] \in [Charts -> [Slots -> Slot]]
<1>1. acct[c] \in [Slots -> Slot]
  OBVIOUS
<1>2. [acct[c] EXCEPT ![s] = x] \in [Slots -> Slot]
  BY <1>1
<1>3. [acct EXCEPT ![c] = [acct[c] EXCEPT ![s] = x]] \in [Charts -> [Slots -> Slot]]
  BY <1>2
<1> QED
  BY <1>3

\* Where a Refresh that is under way goes.
LEMMA Goes ==
    ASSUME gui \in Gui, gui # Idle, NEW p \in {"login", "list", "name", "upload"}
    PROVE  /\ At(p) \in Gui /\ At(p).at = p
           /\ [At(p) EXCEPT !.again = TRUE] \in Gui /\ [At(p) EXCEPT !.again = TRUE].at = p
<1> DEFINE Under == [at : {"login", "list", "name", "upload"}, again : BOOLEAN, dongle : BOOLEAN,
                     tries : 0..MaxTries, offered : SUBSET (Names \cup {Garbled})]
<1>1. gui \in Under
  BY DEF Gui
<1>2. At(p) \in Under /\ At(p).at = p
  BY <1>1 DEF At
<1>3. [At(p) EXCEPT !.again = TRUE] \in Under /\ [At(p) EXCEPT !.again = TRUE].at = p
  BY <1>2
<1> QED
  BY <1>2, <1>3 DEF Gui

LEMMA WizardIs ==
    ASSUME gui \in Gui, gui # Idle, NamesTyped', NEW n \in 0..MaxTries
    PROVE  /\ Wizard(n) \in Gui /\ Wizard(n).at = "name"
           /\ Wizard(n) = [at |-> "name", again |-> gui.again, dongle |-> gui.dongle, tries |-> n,
                           offered |-> known'.choice \ known'.disabled]
<1>1. known'.choice \ known'.disabled \subseteq Names \cup {Garbled}
  BY DEF NamesTyped
<1>2. Wizard(n) = [at |-> "name", again |-> gui.again, dongle |-> gui.dongle, tries |-> n,
                   offered |-> known'.choice \ known'.disabled]
  <2> DEFINE on == known'.choice \ known'.disabled
  <2>1. gui = [at |-> gui.at, again |-> gui.again, dongle |-> gui.dongle,
               tries |-> gui.tries, offered |-> gui.offered]
    BY OfGui
  <2>2. Wizard(n) = [gui EXCEPT !.at = "name", !.tries = n, !.offered = on]
    BY DEF Wizard
  <2> HIDE DEF on
  <2>3. Wizard(n) = [at |-> "name", again |-> gui.again, dongle |-> gui.dongle, tries |-> n, offered |-> on]
    BY <2>1, <2>2
  <2> QED
    BY <2>3 DEF on
<1>3. gui.again \in BOOLEAN /\ gui.dongle \in BOOLEAN
  BY OfGui
<1>4. Wizard(n) \in Gui
  BY <1>1, <1>2, <1>3 DEF Gui
<1> QED
  BY <1>2, <1>4

LEMMA TriesOn ==
    ASSUME gui \in Gui, gui # Idle, NamesTyped', gui.tries + 1 < MaxTries
    PROVE  Wizard(gui.tries + 1) \in Gui /\ Wizard(gui.tries + 1).at = "name"
<1>1. gui.tries + 1 \in 0..MaxTries
  BY OfGui, ReplyAssumption
<1> QED
  BY <1>1, WizardIs

LEMMA OfCreds ==
    ASSUME NEW m \in Creds
    PROVE  /\ m = [user |-> m.user, key |-> m.key, name |-> m.name]
           /\ m.user \in Users \cup {NoUser, Mistyped} /\ m.key \in Users \cup {NoUser}
           /\ m.name \in Names \cup {NoName, Garbled}
           /\ \A n \in Names \cup {NoName, Garbled} :
                 [m EXCEPT !.name = n] \in Creds /\ [m EXCEPT !.name = n].user = m.user
                 /\ [m EXCEPT !.name = n].key = m.key /\ [m EXCEPT !.name = n].name = n
BY DEF Creds

\* Whether a login works is a matter of user and key.
LEMMA SameLogin ==
    ASSUME NEW m, NEW n, m.user = n.user, m.key = n.key, Works(m)
    PROVE  Works(n)
BY DEF Works

\* Names of this machine stay so when another one is registered.
LEMMA StaysHere ==
    ASSUME Typed, NEW n \in Names
    PROVE  /\ Registered(n) \in [Names -> Owners] /\ Registered(n)[n] = "here"
           /\ \A m \in Names : owner[m] = "here" => Registered(n)[m] = "here"
BY DEF Typed, Registered, Owners

LEMMA InitIInv == Init => IInv
<1> SUFFICES ASSUME Init PROVE IInv
  OBVIOUS
<1>1. mem \in Creds /\ mem.name = NoName /\ mem.user = NoUser
  BY DEF Init, Creds
<1>2. conf \in [saved : BOOLEAN, c : Creds] /\ conf.saved = FALSE
  BY <1>1 DEF Init
<1>3. gui \in Gui /\ gui.at = "idle"
  BY DEF Init, Gui, Idle
<1>4. Typed
  BY <1>1, <1>2, <1>3, ReplyAssumption DEF Init, Typed
<1>5. LoggedIn /\ Vouched
  BY <1>1, <1>2, <1>3 DEF LoggedIn, Vouched, Here
<1> QED
  BY <1>4, <1>5 DEF IInv

-----------------------------------------------------------------------------
\* What a step must not do to the login that is saved.
LoginStays == conf.saved /\ Works(conf.c) /\ valid' = valid => Works(conf.c)'

\* User and key stay as they are, and so does what is saved, or they are saved.
LEMMA SameUser ==
    ASSUME Typed, LoggedIn, valid' = valid,
           mem'.user = mem.user, mem'.key = mem.key,
           gui'.at = "login" => gui.at = "login",
           conf' = conf \/ conf' = [saved |-> TRUE, c |-> mem']
    PROVE  LoggedIn' /\ LoginStays
<1>1. Works(mem)' <=> Works(mem)
  BY DEF Works
<1>2. CASE conf' = conf
  <2>1. Works(conf.c)' <=> Works(conf.c)
    BY <1>2 DEF Works
  <2> QED
    BY <1>1, <1>2, <2>1 DEF LoggedIn, LoginStays
<1>3. CASE conf' = [saved |-> TRUE, c |-> mem']
  <2>1. conf'.c = mem'
    BY <1>3
  <2>2. Works(conf.c)' <=> Works(mem)
    BY <2>1 DEF Works
  <2>3. conf.saved /\ Works(conf.c) => Works(mem)
    BY SameLogin DEF LoggedIn
  <2> QED
    BY <1>1, <2>1, <2>2, <2>3 DEF LoggedIn, LoginStays
<1> QED
  BY <1>2, <1>3

LEMMA RefreshKeeps == ASSUME IInv, NEW dongle \in BOOLEAN, Refresh(dongle) PROVE IInv' /\ LoginStays
<1>1. /\ gui = Idle /\ mem' = Loaded(mem) /\ UNCHANGED <<conf, acct, owner, valid, blank, crashed>>
      /\ gui' = [at |-> IF mem'.key = NoUser THEN "login" ELSE "list", again |-> FALSE, dongle |-> dongle,
                 tries |-> 0, offered |-> {}]
  BY DEF Refresh, account
<1>2. gui.at = "idle"
  BY <1>1 DEF Idle
<1>3. mem' \in Creds
  <2>1. CASE ~conf.saved
    BY <1>1, <2>1 DEF Loaded, IInv, Typed
  <2>2. CASE conf.saved
    BY <1>1, <2>2, OfCreds DEF Loaded, IInv, Typed, Creds
  <2> QED
    BY <2>1, <2>2
<1>4. gui' \in Gui /\ gui'.at = (IF mem'.key = NoUser THEN "login" ELSE "list")
  BY <1>1, ReplyAssumption DEF Gui
<1>5. Typed'
  BY <1>1, <1>3, <1>4 DEF IInv, Typed
<1>6. conf.saved => mem'.user = conf.c.user /\ mem'.key = conf.c.key
  BY <1>1 DEF Loaded
<1>7. mem'.key = NoUser => ~Works(mem)'
  BY ReplyAssumption DEF Works
<1>8. Works(conf.c)' <=> Works(conf.c)
  BY <1>1 DEF Works
<1>9. LoggedIn' /\ LoginStays
  BY <1>1, <1>4, <1>6, <1>7, <1>8 DEF LoggedIn, LoginStays
<1>10. mem'.name = mem.name \/ (conf.saved /\ mem'.name = conf.c.name)
  BY <1>1 DEF Loaded
<1>11. Vouched'
  BY <1>1, <1>2, <1>10 DEF IInv, Vouched, Here
<1> QED
  BY <1>5, <1>9, <1>11 DEF IInv

\* LoginCancel, ListFails, and a refusal that is not the first.
LEMMA GivesUp ==
    ASSUME IInv, gui.at \in {"login", "list"}, gui' = Idle,
           UNCHANGED <<mem, conf, acct, owner, valid, blank, crashed>>
    PROVE  IInv' /\ LoginStays
<1>1. gui' \in Gui /\ gui'.at = "idle"
  BY DEF Gui, Idle
<1>2. Typed'
  BY <1>1 DEF IInv, Typed
<1>3. LoggedIn' /\ LoginStays
  BY <1>1, SameUser DEF IInv
<1>4. Vouched'
  BY <1>1 DEF IInv, Vouched, Here
<1> QED
  BY <1>2, <1>3, <1>4 DEF IInv

LEMMA LoginFailsKeeps ==
    ASSUME IInv, NEW u \in Users \cup {Mistyped}, LoginFails(u)
    PROVE  IInv' /\ LoginStays
<1>1. /\ gui.at = "login" /\ gui' = Idle /\ mem' = [mem EXCEPT !.user = u]
      /\ UNCHANGED <<conf, acct, owner, valid, blank, crashed>>
  BY DEF LoginFails, account
<1>2. mem' \in Creds /\ mem'.name = mem.name
  BY <1>1 DEF IInv, Typed, Creds
<1>3. gui' \in Gui /\ gui'.at = "idle"
  BY <1>1 DEF Gui, Idle
<1>4. Typed'
  BY <1>1, <1>2, <1>3 DEF IInv, Typed
<1>5. ~(conf.saved /\ Works(conf.c))
  BY <1>1, SameLogin DEF IInv, LoggedIn
<1>6. Works(conf.c)' <=> Works(conf.c)
  BY <1>1 DEF Works
<1>7. LoggedIn' /\ LoginStays
  BY <1>1, <1>3, <1>5, <1>6 DEF LoggedIn, LoginStays
<1>8. Vouched'
  BY <1>1, <1>2, <1>3 DEF IInv, Vouched, Here
<1> QED
  BY <1>4, <1>7, <1>8 DEF IInv

LEMMA LoginKeeps == ASSUME IInv, NEW u \in Users, Login(u) PROVE IInv' /\ LoginStays
<1>1. /\ gui.at = "login" /\ gui' = At("list") /\ mem' = [mem EXCEPT !.user = u, !.key = u]
      /\ conf' = [saved |-> TRUE, c |-> mem']
      /\ UNCHANGED <<acct, owner, blank, crashed>>
  BY DEF Login, Save
<1>2. mem' \in Creds /\ mem'.name = mem.name
  BY <1>1 DEF IInv, Typed, Creds
<1>3. gui' \in Gui /\ gui'.at = "list"
  BY <1>1, OfGui, Goes DEF IInv, Typed
<1>4. conf' \in [saved : BOOLEAN, c : Creds] /\ conf'.c = mem'
  BY <1>1, <1>2
<1>5. Typed'
  BY <1>1, <1>2, <1>3, <1>4 DEF IInv, Typed
<1>6. ~(conf.saved /\ Works(conf.c))
  BY <1>1, SameLogin DEF IInv, LoggedIn
<1>7. LoggedIn' /\ LoginStays
  BY <1>3, <1>4, <1>6 DEF LoggedIn, LoginStays
<1>8. Vouched'
  BY <1>1, <1>2, <1>3, <1>4 DEF IInv, Vouched, Here
<1> QED
  BY <1>5, <1>7, <1>8 DEF IInv

LEMMA ListRefusedKeeps == IInv /\ ListRefused => IInv' /\ LoginStays
<1> SUFFICES ASSUME IInv, ListRefused PROVE IInv' /\ LoginStays
  OBVIOUS
<1>1. /\ gui.at = "list" /\ ~Works(mem)
      /\ gui' = Idle \/ gui' = [At("login") EXCEPT !.again = TRUE]
      /\ UNCHANGED <<mem, conf, acct, owner, valid, blank, crashed>>
  BY DEF ListRefused, account
<1>2. CASE gui' = Idle
  BY <1>1, <1>2, GivesUp
<1>3. CASE gui' = [At("login") EXCEPT !.again = TRUE]
  <2>1. gui' \in Gui /\ gui'.at = "login"
    BY <1>1, <1>3, OfGui, Goes DEF IInv, Typed
  <2>2. Typed'
    BY <1>1, <2>1 DEF IInv, Typed
  <2>3. (Works(mem)' <=> Works(mem)) /\ (Works(conf.c)' <=> Works(conf.c))
    BY <1>1 DEF Works
  <2>4. LoggedIn' /\ LoginStays
    BY <1>1, <2>3 DEF IInv, LoggedIn, LoginStays
  <2>5. Vouched'
    BY <1>1, <2>1 DEF IInv, Vouched, Here
  <2> QED
    BY <2>2, <2>4, <2>5 DEF IInv
<1> QED
  BY <1>1, <1>2, <1>3

LEMMA ListKeeps == IInv /\ NamesTyped' /\ List => IInv' /\ LoginStays
<1> SUFFICES ASSUME IInv, NamesTyped', List PROVE IInv' /\ LoginStays
  OBVIOUS
<1>1. /\ gui.at = "list" /\ UNCHANGED <<mem, acct, owner, valid, blank, crashed>>
      /\ \/ mem.name = NoName /\ gui' = Wizard(0) /\ conf' = conf
         \/ gui' = Idle /\ conf' = [saved |-> TRUE, c |-> mem]
  BY DEF List, Save, account
<1>2. gui' \in Gui /\ gui'.at \in {"name", "idle"}
  <2>1. gui \in Gui /\ gui # Idle /\ 0 \in 0..MaxTries
    BY <1>1, OfGui, ReplyAssumption DEF IInv, Typed
  <2> QED
    BY <1>1, <2>1, WizardIs, IdleAt
<1>3. conf' \in [saved : BOOLEAN, c : Creds]
  <2>1. mem \in Creds
    BY DEF IInv, Typed
  <2> QED
    BY <1>1, <2>1, SavedAs DEF IInv
<1>4. Typed'
  BY <1>1, <1>2, <1>3 DEF IInv, Typed
<1>5. LoggedIn' /\ LoginStays
  BY <1>1, <1>2, SameUser DEF IInv
<1>6. Vouched'
  <2>1. CASE gui'.at = "name"
    BY <2>1 DEF Vouched
  <2>2. CASE gui'.at = "idle"
    <3>1. gui \in Gui /\ gui # Idle /\ 0 \in 0..MaxTries
      BY <1>1, OfGui, ReplyAssumption DEF IInv, Typed
    <3>2. conf' = [saved |-> TRUE, c |-> mem]
      BY <1>1, <2>2, <3>1, WizardIs
    <3>3. conf'.c.name = mem.name
      BY <3>2
    <3> QED
      BY <1>1, <3>3 DEF IInv, Vouched, Here
  <2> QED
    BY <1>2, <2>1, <2>2
<1> QED
  BY <1>4, <1>5, <1>6 DEF IInv

-----------------------------------------------------------------------------
\* The choice of a name: it is uploaded, or there is none, or the choice goes on.

LEMMA NameKeeps ==
    ASSUME IInv, NamesTyped', gui.at = "name", NEW n \in Names \cup {NoName, Garbled}, mem' = [mem EXCEPT !.name = n],
           UNCHANGED <<acct, owner, valid, blank, crashed>>,
           \/ NamesDone(mem')
           \/ /\ gui.tries + 1 < MaxTries /\ gui' = Wizard(gui.tries + 1)
              /\ Save(mem') \/ conf' = conf
    PROVE  IInv' /\ LoginStays
<1>1. mem' \in Creds /\ mem'.user = mem.user /\ mem'.key = mem.key /\ mem'.name = n
  BY OfCreds DEF IInv, Typed
<1>2. conf' = conf \/ conf' = [saved |-> TRUE, c |-> mem']
  BY DEF NamesDone, Save
<1>3. \/ gui' \in Gui /\ gui'.at \in {"name", "upload"}
      \/ gui' \in Gui /\ gui'.at = "idle" /\ n = NoName /\ conf' = [saved |-> TRUE, c |-> mem']
  <2>1. gui \in Gui /\ gui # Idle
    BY OfGui DEF IInv, Typed
  <2>2. CASE NamesDone(mem')
    BY <1>1, <2>1, <2>2, Goes, IdleAt DEF NamesDone, Save
  <2>3. CASE gui.tries + 1 < MaxTries /\ gui' = Wizard(gui.tries + 1)
    BY <2>1, <2>3, TriesOn
  <2> QED
    BY <2>2, <2>3
<1>4. conf' \in [saved : BOOLEAN, c : Creds]
  BY <1>1, <1>2, SavedAs DEF IInv
<1>5. Typed'
  BY <1>1, <1>3, <1>4 DEF IInv, Typed
<1>6. LoggedIn' /\ LoginStays
  BY <1>1, <1>2, <1>3, SameUser DEF IInv
<1>7. Vouched'
  <2>1. CASE gui'.at \in {"name", "upload"}
    BY <2>1 DEF Vouched
  <2>2. CASE n = NoName /\ conf' = [saved |-> TRUE, c |-> mem']
    <3>1. conf'.c = mem'
      BY <2>2
    <3>2. mem'.name = NoName /\ conf'.c.name = NoName
      BY <1>1, <2>2, <3>1
    <3> QED
      BY <3>2 DEF Vouched, Here
  <2> QED
    BY <1>3, <2>1, <2>2
<1> QED
  BY <1>5, <1>6, <1>7 DEF IInv

LEMMA ChoiceKeeps ==
    ASSUME IInv, NamesTyped',
           \/ NameCancel \/ NameGarbled \/ NameInvalid
           \/ \E n \in Names : NameNew(n)
           \/ \E n \in Names \cup {Garbled} : NameChosen(n)
    PROVE  IInv' /\ LoginStays
<1>1. CASE NameCancel \/ NameInvalid
  <2>1. gui.at = "name" /\ mem' = [mem EXCEPT !.name = NoName] /\ UNCHANGED <<acct, owner, valid, blank, crashed>>
    BY <1>1 DEF NameCancel, NameInvalid, account
  <2>2. \/ NamesDone(mem')
        \/ gui.tries + 1 < MaxTries /\ gui' = Wizard(gui.tries + 1) /\ conf' = conf
    BY <1>1 DEF NameCancel, NameInvalid
  <2> QED
    BY <2>1, <2>2, NameKeeps
<1>2. CASE NameGarbled
  BY <1>2, NameKeeps DEF NameGarbled, account
<1>3. CASE \E n \in Names : NameNew(n)
  <2>1. PICK n \in Names : NameNew(n)
    BY <1>3
  <2>2. gui.at = "name" /\ mem' = [mem EXCEPT !.name = n] /\ UNCHANGED <<acct, owner, valid, blank, crashed>>
    BY <2>1 DEF NameNew, account
  <2>3. \/ NamesDone(mem')
        \/ gui.tries + 1 < MaxTries /\ gui' = Wizard(gui.tries + 1) /\ Save(mem')
    BY <2>1 DEF NameNew, Rejected
  <2> QED
    BY <2>2, <2>3, NameKeeps
<1>4. CASE \E n \in Names \cup {Garbled} : NameChosen(n)
  BY <1>4, NameKeeps DEF NameChosen, Rejected, account
<1> QED
  BY <1>1, <1>2, <1>3, <1>4

-----------------------------------------------------------------------------
\* The upload

LEMMA OwnerGrows ==
    ASSUME Typed, owner' = owner \/ (Takes(mem.name) /\ owner' = Registered(mem.name))
    PROVE  /\ owner' \in [Names -> Owners]
           /\ \A m \in Names : owner[m] = "here" => owner'[m] = "here"
           /\ owner' = owner \/ (mem.name \in Names /\ owner'[mem.name] = "here")
BY StaysHere DEF Takes, Typed

LEMMA UploadOKKeeps == IInv /\ UploadOK => IInv' /\ LoginStays
<1> SUFFICES ASSUME IInv, UploadOK PROVE IInv' /\ LoginStays
  OBVIOUS
<1>1. /\ gui' = Idle /\ conf' = [saved |-> TRUE, c |-> mem] /\ mem' = mem
      /\ UNCHANGED <<acct, valid, blank, crashed>>
      /\ blank \/ (Takes(mem.name) /\ owner' = Registered(mem.name))
      /\ owner' = owner \/ (Takes(mem.name) /\ owner' = Registered(mem.name))
  BY DEF UploadOK, Save
<1>2. owner' \in [Names -> Owners]
  BY <1>1, OwnerGrows DEF IInv
<1>3. gui' \in Gui /\ gui'.at = "idle"
  BY <1>1 DEF Gui, Idle
<1>4. conf' \in [saved : BOOLEAN, c : Creds] /\ conf'.c = mem
  BY <1>1 DEF IInv, Typed
<1>5. Typed'
  BY <1>1, <1>2, <1>3, <1>4 DEF IInv, Typed
<1>6. LoggedIn' /\ LoginStays
  BY <1>1, <1>3, SameUser DEF IInv
<1>7. Vouched'
  <2>1. ~blank => mem.name \in Names /\ owner'[mem.name] = "here"
    BY <1>1, StaysHere DEF IInv, Takes
  <2> QED
    BY <1>1, <1>4, <2>1 DEF Vouched, Here
<1> QED
  BY <1>5, <1>6, <1>7 DEF IInv

LEMMA UploadFailsKeeps == IInv /\ UploadFails => IInv' /\ LoginStays
<1> SUFFICES ASSUME IInv, UploadFails PROVE IInv' /\ LoginStays
  OBVIOUS
<1>1. /\ gui' = Idle /\ mem' = [mem EXCEPT !.name = NoName] /\ conf' = [saved |-> TRUE, c |-> mem']
      /\ UNCHANGED <<acct, valid, blank, crashed>>
      /\ owner' = owner \/ (Takes(mem.name) /\ owner' = Registered(mem.name))
  BY DEF UploadFails, Forget, Save
<1>2. owner' \in [Names -> Owners]
  BY <1>1, OwnerGrows DEF IInv
<1>3. gui' \in Gui /\ gui'.at = "idle"
  BY <1>1 DEF Gui, Idle
<1>4. mem' \in Creds /\ mem'.user = mem.user /\ mem'.key = mem.key /\ mem'.name = NoName
  BY <1>1, OfCreds DEF IInv, Typed
<1>5. conf' \in [saved : BOOLEAN, c : Creds] /\ conf'.c = mem'
  BY <1>1, <1>4
<1>6. Typed'
  BY <1>1, <1>2, <1>3, <1>4, <1>5 DEF IInv, Typed
<1>7. LoggedIn' /\ LoginStays
  BY <1>1, <1>3, <1>4, SameUser DEF IInv
<1>8. Vouched'
  BY <1>4, <1>5 DEF Vouched, Here
<1> QED
  BY <1>6, <1>7, <1>8 DEF IInv

-----------------------------------------------------------------------------
\* Other uses of the account, and the server

LEMMA AssignKeeps ==
    ASSUME IInv, NEW c \in Charts, NEW s \in Slots, Assign(c, s)
    PROVE  IInv' /\ LoginStays
<1>1. /\ UNCHANGED <<mem, conf, gui, valid, blank, crashed>>
      /\ owner' = owner \/ (Takes(mem.name) /\ owner' = Registered(mem.name))
      /\ acct' = acct \/ (mem.name \in Names
                          /\ acct' = [acct EXCEPT ![c][s] = [sys |-> mem.name, state |-> "requestable"]])
  BY DEF Assign
<1>2. owner' \in [Names -> Owners] /\ \A m \in Names : owner[m] = "here" => owner'[m] = "here"
  BY <1>1, OwnerGrows DEF IInv
<1>3. acct' \in [Charts -> [Slots -> Slot]]
  <2>1. ASSUME mem.name \in Names PROVE [sys |-> mem.name, state |-> "requestable"] \in Slot
    BY <2>1 DEF Slot
  <2>2. acct \in [Charts -> [Slots -> Slot]]
    BY DEF IInv, Typed
  <2>3. CASE acct' = acct
    BY <2>2, <2>3
  <2>4. CASE mem.name \in Names /\ acct' = [acct EXCEPT ![c][s] = [sys |-> mem.name, state |-> "requestable"]]
    BY <2>1, <2>2, <2>4, OfSlots
  <2> QED
    BY <1>1, <2>3, <2>4
<1>4. Typed'
  BY <1>1, <1>2, <1>3 DEF IInv, Typed
<1>5. LoggedIn' /\ LoginStays
  BY <1>1, SameUser DEF IInv
<1>6. Vouched'
  BY <1>1, <1>2 DEF IInv, Vouched, Here
<1> QED
  BY <1>4, <1>5, <1>6 DEF IInv

LEMMA PanelKeeps ==
    ASSUME IInv, Poll \/ SaveElsewhere \/ ClearName
    PROVE  IInv' /\ LoginStays
<1>1. CASE Poll
  <2>1. UNCHANGED <<mem, conf, gui, acct, owner, valid, blank, crashed>>
    BY <1>1 DEF Poll, account
  <2>2. LoggedIn' /\ LoginStays
    BY <2>1, SameUser DEF IInv
  <2> QED
    BY <2>1, <2>2 DEF IInv, Typed, Vouched, Here
<1>2. CASE SaveElsewhere
  <2>1. UNCHANGED <<mem, gui, acct, owner, valid, blank, crashed>> /\ conf' = [saved |-> TRUE, c |-> mem]
    BY <1>2 DEF SaveElsewhere, Save, account
  <2>2. LoggedIn' /\ LoginStays
    BY <2>1, SameUser DEF IInv
  <2>3. conf' \in [saved : BOOLEAN, c : Creds] /\ conf'.c = mem
    BY <2>1 DEF IInv, Typed
  <2> QED
    BY <2>1, <2>2, <2>3 DEF IInv, Typed, Vouched, Here
<1>3. CASE ClearName
  <2>1. /\ UNCHANGED <<gui, acct, owner, valid, blank, crashed>>
        /\ mem' = [mem EXCEPT !.name = NoName] /\ conf' = [conf EXCEPT !.c.name = NoName]
    BY <1>3 DEF ClearName, account
  <2>2. mem' \in Creds /\ mem'.user = mem.user /\ mem'.key = mem.key /\ mem'.name = NoName
    BY <2>1, OfCreds DEF IInv, Typed
  <2>3. conf' = [saved |-> conf.saved, c |-> [conf.c EXCEPT !.name = NoName]]
    BY <2>1 DEF IInv, Typed
  <2>4. /\ conf' \in [saved : BOOLEAN, c : Creds] /\ conf'.saved = conf.saved
        /\ conf'.c.user = conf.c.user /\ conf'.c.key = conf.c.key /\ conf'.c.name = NoName
    BY <2>3, OfCreds DEF IInv, Typed
  <2>5. (Works(conf.c)' <=> Works(conf.c)) /\ (Works(mem)' <=> Works(mem))
    BY <2>1, <2>2, <2>4 DEF Works
  <2>6. LoggedIn' /\ LoginStays
    BY <2>1, <2>2, <2>4, <2>5 DEF IInv, LoggedIn, LoginStays
  <2>7. Typed' /\ Vouched'
    BY <2>1, <2>2, <2>4 DEF IInv, Typed, Vouched, Here
  <2> QED
    BY <2>6, <2>7 DEF IInv
<1> QED
  BY <1>1, <1>2, <1>3

LEMMA RestartKeeps == ASSUME IInv, Quit \/ Crash PROVE IInv' /\ LoginStays
<1>1. /\ UNCHANGED <<conf, acct, owner, valid, blank>> /\ gui' = Idle
      /\ mem' = IF conf.saved THEN conf.c ELSE [user |-> NoUser, key |-> NoUser, name |-> NoName]
      /\ (gui = Idle /\ crashed' = crashed) \/ crashed' = TRUE
  BY DEF Quit, Crash, Fresh, account
<1>2. gui' \in Gui /\ gui'.at = "idle"
  BY <1>1 DEF Gui, Idle
<1>3. mem' \in Creds
  BY <1>1 DEF IInv, Typed, Creds
<1>4. Typed'
  BY <1>1, <1>2, <1>3 DEF IInv, Typed
<1>5. Works(conf.c)' <=> Works(conf.c)
  BY <1>1 DEF Works
<1>6. LoggedIn' /\ LoginStays
  BY <1>1, <1>2, <1>5 DEF LoggedIn, LoginStays
<1>7. Vouched'
  BY <1>1, <1>2 DEF IInv, Vouched, Here, Idle
<1> QED
  BY <1>4, <1>6, <1>7 DEF IInv

LEMMA ServerKeeps ==
    ASSUME IInv,
           \/ \E c \in Charts, s \in Slots : Prepare(c, s)
           \/ \E n \in Names : OtherName(n)
           \/ \E u \in Users : NewPassword(u)
           \/ FprBreaks
    PROVE  IInv' /\ LoginStays
<1>1. CASE \E c \in Charts, s \in Slots : Prepare(c, s)
  <2>1. PICK c \in Charts, s \in Slots : Prepare(c, s)
    BY <1>1
  <2>2. UNCHANGED <<mem, conf, gui, owner, valid, blank, crashed>> /\ acct' = [acct EXCEPT ![c][s].state = "download"]
    BY <2>1 DEF Prepare, panel
  <2>3. acct' \in [Charts -> [Slots -> Slot]]
    <3>1. acct[c][s] \in Slot
      BY DEF IInv, Typed
    <3>2. [acct[c][s] EXCEPT !.state = "download"] \in Slot
      BY <3>1 DEF Slot
    <3>3. acct' = [acct EXCEPT ![c][s] = [acct[c][s] EXCEPT !.state = "download"]]
      BY <2>2 DEF IInv, Typed
    <3> QED
      BY <3>2, <3>3, OfSlots DEF IInv, Typed
  <2>4. LoggedIn' /\ LoginStays
    BY <2>2, SameUser DEF IInv
  <2> QED
    BY <2>2, <2>3, <2>4 DEF IInv, Typed, Vouched, Here
<1>2. CASE \E n \in Names : OtherName(n)
  <2>1. PICK n \in Names : OtherName(n)
    BY <1>2
  <2>2. /\ UNCHANGED <<mem, conf, gui, acct, valid, blank, crashed>>
        /\ owner[n] # "here" /\ owner' \in {[owner EXCEPT ![n] = "else"], [owner EXCEPT ![n] = "off"]}
    BY <2>1 DEF OtherName, panel
  <2>3. owner' \in [Names -> Owners] /\ \A m \in Names : owner[m] = "here" => owner'[m] = "here"
    BY <2>2 DEF IInv, Typed, Owners
  <2>4. LoggedIn' /\ LoginStays
    BY <2>2, SameUser DEF IInv
  <2> QED
    BY <2>2, <2>3, <2>4 DEF IInv, Typed, Vouched, Here
<1>3. CASE \E u \in Users : NewPassword(u)
  <2>1. UNCHANGED <<mem, conf, gui, acct, owner, blank, crashed>> /\ valid' \subseteq valid /\ valid' # valid
    BY <1>3 DEF NewPassword, panel
  <2>2. (Works(conf.c)' => Works(conf.c)) /\ (Works(mem)' => Works(mem))
    BY <2>1 DEF Works
  <2> QED
    BY <2>1, <2>2 DEF IInv, Typed, LoggedIn, LoginStays, Vouched, Here
<1>4. CASE FprBreaks
  <2>1. UNCHANGED <<mem, conf, gui, acct, owner, valid, crashed>> /\ blank' = TRUE
    BY <1>4 DEF FprBreaks, panel, account
  <2>2. LoggedIn' /\ LoginStays
    BY <2>1, SameUser DEF IInv
  <2> QED
    BY <2>1, <2>2 DEF IInv, Typed, Vouched, Here
<1> QED
  BY <1>1, <1>2, <1>3, <1>4

LEMMA NextKeeps == IInv /\ NamesTyped' /\ [Next]_vars => IInv' /\ LoginStays
<1> SUFFICES ASSUME IInv, NamesTyped', [Next]_vars PROVE IInv' /\ LoginStays
  OBVIOUS
<1>1. CASE LoginCancel \/ ListFails
  BY <1>1, GivesUp DEF LoginCancel, ListFails, account
<1>2. CASE GoOn
  BY <1>1, <1>2, ListRefusedKeeps, ListKeeps, LoginFailsKeeps, LoginKeeps, ChoiceKeeps,
     UploadOKKeeps, UploadFailsKeeps DEF GoOn
<1>3. CASE UNCHANGED vars
  <2>1. UNCHANGED <<mem, conf, gui, acct, owner, valid, blank, crashed>>
    BY <1>3 DEF vars, panel, account
  <2>2. LoggedIn' /\ LoginStays
    BY <2>1, SameUser DEF IInv
  <2> QED
    BY <2>1, <2>2 DEF IInv, Typed, Vouched, Here
<1> QED
  BY <1>2, <1>3, RefreshKeeps, AssignKeeps, PanelKeeps, RestartKeeps, ServerKeeps DEF Next

LEMMA NextNames == NamesTyped /\ [Next]_vars => NamesTyped'
<1> SUFFICES ASSUME NamesTyped, [Next]_vars PROVE NamesTyped'
  OBVIOUS
<1>1. CASE NamesListed /\ valid' = valid
  BY <1>1 DEF NamesTyped, NamesListed
<1>2. CASE known' = [choice |-> {}, server |-> {}, disabled |-> {}] /\ valid' = valid
  BY <1>2 DEF NamesTyped
<1>3. CASE /\ \E n \in Names \cup {Garbled} : known' = [known EXCEPT !.choice = @ \cup {n}]
           /\ valid' = valid
  BY <1>3 DEF NamesTyped
<1>4. CASE known' = known /\ (valid' \subseteq valid \/ \E u \in Users : valid' = valid \cup {u})
  BY <1>4 DEF NamesTyped
<1>5. CASE List \/ Poll
  BY <1>1, <1>5 DEF List, Poll, account
<1>6. CASE Quit \/ Crash
  BY <1>2, <1>6 DEF Quit, Crash, Fresh, account
<1>7. CASE NameGarbled \/ \E n \in Names : NameNew(n)
  BY <1>3, <1>7 DEF NameGarbled, NameNew, account
<1>8. CASE \/ \E u \in Users : Login(u)
           \/ \E u \in Users : NewPassword(u)
  BY <1>4, <1>8 DEF Login, NewPassword, panel
<1>9. CASE UNCHANGED <<known, valid>>
  BY <1>4, <1>9
<1> QED
  BY <1>5, <1>6, <1>7, <1>8, <1>9
     DEF Next, GoOn, Refresh, LoginCancel, ListFails, ListRefused, LoginFails, NameCancel, NameInvalid,
         NameChosen, UploadOK, UploadFails, Assign, SaveElsewhere, ClearName, Prepare, OtherName,
         FprBreaks, vars, account, panel

LEMMA NamesInvariance == Spec => []NamesTyped
<1>1. Init => NamesTyped
  BY DEF Init, NamesTyped
<1> QED
  BY <1>1, NextNames, PTL DEF Spec

LEMMA Invariance == Spec => []IInv
<1>1. IInv /\ NamesTyped' /\ [Next]_vars => IInv'
  BY NextKeeps
<1> QED
  BY <1>1, InitIInv, NamesInvariance, PTL DEF Spec

-----------------------------------------------------------------------------
\* A login that is saved and works is never lost but by the server, whatever is
\* cancelled, mistyped or lost on the way, and after any crash (doLogin, saveShopConfig).
THEOREM LoginIsKept == Spec => LoginKept
<1>1. []IInv /\ []NamesTyped /\ [][Next]_vars => [][LoginStays]_vars
  <2>1. IInv /\ NamesTyped' /\ [Next]_vars => [LoginStays]_vars
    BY NextKeeps
  <2> QED
    BY <2>1, PTL
<1>2. [][LoginStays]_vars => LoginKept
  BY DEF LoginKept, LoginStays
<1> QED
  BY <1>1, <1>2, Invariance, NamesInvariance, PTL DEF Spec

\* When a Refresh is over, a system name is this machine's at the server, or none is
\* kept (OnButtonUpdate 3256-3327).
THEOREM NameIsVerified == Spec => []NameVerified
<1>1. IInv => NameVerified
  BY DEF IInv, Vouched, Here, NameVerified, Idle
<1> QED
  BY <1>1, Invariance, PTL

\* A slot that is assigned is assigned to the name of this machine, a name that was
\* never verified included (doAssign, the upload before it).
HereOnly == \A c \in Charts, s \in Slots :
                acct[c][s].state = "unassigned" /\ acct'[c][s].state # "unassigned" /\ ~blank
                    => owner'[acct'[c][s].sys] = "here"

THEOREM AssignedIsHere == Spec => AssignedHere
<1>1. IInv /\ [Next]_vars => [HereOnly]_vars
  <2> SUFFICES ASSUME IInv, Next PROVE HereOnly
    OBVIOUS
  <2>1. CASE \E c \in Charts, s \in Slots : Assign(c, s)
    <3>1. PICK c \in Charts, s \in Slots : Assign(c, s)
      BY <2>1
    <3>2. CASE acct' = acct
      BY <3>2 DEF HereOnly
    <3>3. CASE acct' # acct
      <4>1. acct' = [acct EXCEPT ![c][s] = [sys |-> mem.name, state |-> "requestable"]]
        BY <3>1, <3>3 DEF Assign
      <4>2. ~blank => owner'[mem.name] = "here"
        BY <3>1, StaysHere DEF Assign, Uploaded, Takes, IInv
      <4>3. \A d \in Charts, t \in Slots : acct'[d][t] = acct[d][t] \/ acct'[d][t].sys = mem.name
        BY <4>1 DEF IInv, Typed
      <4> QED
        BY <4>2, <4>3 DEF HereOnly
    <3> QED
      BY <3>2, <3>3
  <2>2. CASE \E c \in Charts, s \in Slots : Prepare(c, s)
    <3>1. PICK c \in Charts, s \in Slots : Prepare(c, s)
      BY <2>2
    <3>2. acct' = [acct EXCEPT ![c][s].state = "download"] /\ acct[c][s].state = "requestable"
      BY <3>1 DEF Prepare
    <3>3. \A d \in Charts, t \in Slots : acct'[d][t] = acct[d][t] \/ acct[d][t].state = "requestable"
      BY <3>2 DEF IInv, Typed
    <3> QED
      BY <3>3 DEF HereOnly
  <2>3. CASE acct' = acct
    BY <2>3 DEF HereOnly
  <2>4. \/ \E c \in Charts, s \in Slots : Assign(c, s) \/ Prepare(c, s)
        \/ acct' = acct
    BY DEF Next, GoOn, Refresh, LoginCancel, ListFails, ListRefused, List, LoginFails, Login, NameCancel,
           NameGarbled, NameInvalid, NameNew, NameChosen, UploadOK, UploadFails, Poll, SaveElsewhere,
           ClearName, Quit, Crash, OtherName, NewPassword, FprBreaks, account, panel
  <2> QED
    BY <2>1, <2>2, <2>3, <2>4
<1>2. []IInv /\ [][Next]_vars => [][HereOnly]_vars
  BY <1>1, PTL
<1>3. [][HereOnly]_vars => AssignedHere
  BY DEF AssignedHere, HereOnly
<1> QED
  BY <1>2, <1>3, Invariance, PTL DEF Spec

-----------------------------------------------------------------------------
\* The fold of FoldLeft, unfolded: its recursion has a solution for every number of
\* elements.

\* One step of the fold over the elements q, for the set of those that have been read.
FoldStep(h, n, q, b) ==
    [s \in SUBSET (1..n) |-> IF s = {} THEN b ELSE ReadElement(h[s \ {Max(s)}], q[Max(s)])]

LEMMA LeastNatural ==
    ASSUME NEW S, S \subseteq Nat, S # {}
    PROVE  \E m \in S : \A k \in S : m <= k
<1>1. PICK m \in S : \A k \in S : <<k, m>> \notin OpToRel(<, Nat)
  BY WFMin, NatLessThanWellFounded
<1>2. \A k \in S : ~(k < m)
  BY <1>1 DEF OpToRel
<1> QED
  BY <1>2

LEMMA FoldIs ==
    ASSUME NEW q, NEW b, NEW n \in Nat, DOMAIN q = 1..n
    PROVE  FoldLeft(ReadElement, b, q) = (CHOOSE h : h = FoldStep(h, n, q, b))[1..n]
  BY DEF FoldLeft, MapThenFoldSet, FoldStep

LEMMA GreatestIs ==
    ASSUME NEW n \in Nat, NEW s \in SUBSET (1..n), n \in s
    PROVE  Max(s) = n
<1>1. n \in s /\ \A y \in s : n >= y
  OBVIOUS
<1>2. Max(s) \in s /\ \A y \in s : Max(s) >= y
  BY <1>1 DEF Max
<1>3. \A y \in s : y \in Int
  OBVIOUS
<1>4. Max(s) >= n /\ n >= Max(s) /\ Max(s) \in Int
  BY <1>1, <1>2, <1>3
<1> QED
  BY <1>4

LEMMA FoldExists ==
    ASSUME NEW q, NEW b, NEW n \in Nat
    PROVE  \E h : h = FoldStep(h, n, q, b)
<1> DEFINE bad == {m \in Nat : ~\E h : h = FoldStep(h, m, q, b)}
<1>1. \E h : h = FoldStep(h, 0, q, b)
  <2> DEFINE g == [s \in SUBSET (1..0) |-> b]
  <2>1. \A s \in SUBSET (1..0) : s = {}
    OBVIOUS
  <2>2. g = FoldStep(g, 0, q, b)
    BY <2>1 DEF FoldStep
  <2> QED
    BY <2>2
<1>2. ASSUME NEW m \in Nat, \E h : h = FoldStep(h, m, q, b)
      PROVE  \E h : h = FoldStep(h, m + 1, q, b)
  <2>1. PICK h : h = FoldStep(h, m, q, b)
    BY <1>2
  <2> DEFINE g == [s \in SUBSET (1..(m + 1)) |-> IF m + 1 \in s THEN ReadElement(h[s \ {m + 1}], q[m + 1]) ELSE h[s]]
  <2>2. ASSUME NEW s \in SUBSET (1..(m + 1))
        PROVE  g[s] = IF s = {} THEN b ELSE ReadElement(g[s \ {Max(s)}], q[Max(s)])
    <3>1. CASE m + 1 \in s
      <4>1. Max(s) = m + 1 /\ s # {}
        BY <3>1, GreatestIs
      <4>2. g[s \ {m + 1}] = h[s \ {m + 1}]
        OBVIOUS
      <4>3. g[s] = ReadElement(h[s \ {m + 1}], q[m + 1])
        BY <3>1
      <4> HIDE DEF g
      <4> QED
        BY <4>1, <4>2, <4>3
    <3>2. CASE m + 1 \notin s
      <4>1. s \in SUBSET (1..m) /\ s \ {Max(s)} \in SUBSET (1..m)
        <5>1. \A y \in 1..(m + 1) : y # m + 1 => y \in 1..m
          OBVIOUS
        <5>2. s \subseteq 1..(m + 1)
          OBVIOUS
        <5> QED
          BY <3>2, <5>1, <5>2
      <4>2. h[s] = IF s = {} THEN b ELSE ReadElement(h[s \ {Max(s)}], q[Max(s)])
        BY <2>1, <4>1 DEF FoldStep
      <4>3. m + 1 \notin s \ {Max(s)} /\ s \ {Max(s)} \in SUBSET (1..(m + 1))
        BY <3>2
      <4>4. \A t \in SUBSET (1..(m + 1)) : m + 1 \notin t => g[t] = h[t]
        OBVIOUS
      <4>5. g[s] = h[s] /\ g[s \ {Max(s)}] = h[s \ {Max(s)}]
        BY <3>2, <4>3, <4>4
      <4> HIDE DEF g
      <4> QED
        BY <4>2, <4>5
    <3> QED
      BY <3>1, <3>2
  <2>3. g = [s \in SUBSET (1..(m + 1)) |-> g[s]]
    OBVIOUS
  <2> HIDE DEF g
  <2>4. g = FoldStep(g, m + 1, q, b)
    BY <2>2, <2>3 DEF FoldStep
  <2> QED
    BY <2>4
<1>3. ASSUME bad # {} PROVE FALSE
  <2>1. PICK m \in bad : \A k \in bad : m <= k
    BY <1>3, LeastNatural
  <2>2. m # 0 /\ m - 1 \in Nat /\ ~(m <= m - 1)
    BY <1>1
  <2>3. \E h : h = FoldStep(h, m - 1, q, b)
    BY <2>1, <2>2
  <2> QED
    BY <1>2, <2>2, <2>3
<1> QED
  BY <1>3

-----------------------------------------------------------------------------
\* A reply about user u: every slot of the account is among its elements.
IdsOf(u) == {c \in Charts : OwnerOf[c] = u} \X Slots

ElementOf(slots, id) ==
    [chart |-> id[1], slot |-> id[2], sys |-> slots[id[1]][id[2]].sys, state |-> slots[id[1]][id[2]].state,
     link |-> IF slots[id[1]][id[2]].state = "download" THEN id ELSE NoLink]

LEMMA ElementsAre ==
    ASSUME NEW slots, NEW u, NEW q \in Elements(slots, u)
    PROVE  \E n \in Nat : \E id \in [1..n -> IdsOf(u)] :
              /\ q = [i \in 1..n |-> ElementOf(slots, id[i])]
              /\ \A x \in IdsOf(u) : \E i \in 1..n : id[i] = x
<1> DEFINE Element(id) == LET x == slots[id[1]][id[2]]
                          IN [chart |-> id[1], slot |-> id[2], sys |-> x.sys, state |-> x.state,
                              link |-> IF x.state = "download" THEN id ELSE NoLink]
<1>1. PICK id \in SetToSeqs(IdsOf(u)) : q = [i \in 1..Len(id) |-> Element(id[i])]
  BY DEF Elements, IdsOf
<1>2. IsFiniteSet(IdsOf(u))
  <2>1. IsFiniteSet({c \in Charts : OwnerOf[c] = u})
    BY FS_Subset, ReplyAssumption
  <2>2. IsFiniteSet(Slots)
    <3>1. Slots = 0..1
      BY DEF Slots
    <3>2. \A k \in Nat : IsFiniteSet(0..k)
      BY FS_Interval
    <3> QED
      BY <3>1, <3>2
  <2> QED
    BY <2>1, <2>2, FS_Product DEF IdsOf
<1> DEFINE n == Cardinality(IdsOf(u))
<1>3. n \in Nat
  BY <1>2, FS_CardinalityType
<1>4. id \in [1..n -> IdsOf(u)] /\ \A i, j \in 1..n : i # j => id[i] # id[j]
  BY <1>1 DEF SetToSeqs
<1>5. Len(id) = n
  <2> HIDE DEF n
  <2>1. id \in Seq(IdsOf(u)) /\ DOMAIN id = 1..n
    BY <1>3, <1>4
  <2> QED
    BY <1>3, <2>1
<1>6. id \in Injection(1..n, IdsOf(u))
  BY <1>4 DEF Injection, IsInjective
<1>7. Cardinality(1..n) = n
  BY <1>3, FS_Interval
<1>8. id \in Surjection(1..n, IdsOf(u))
  BY <1>2, <1>6, <1>7, FS_Injection
<1>9. \A x \in IdsOf(u) : \E i \in 1..n : id[i] = x
  BY <1>8 DEF Surjection
<1>10. q = [i \in 1..n |-> ElementOf(slots, id[i])]
  BY <1>1, <1>5 DEF ElementOf
<1> QED
  BY <1>3, <1>4, <1>9, <1>10

\* An item that has been read from the element of its slot.
Read(item, slots, c, s) ==
    /\ item \in Item
    /\ item.state = slots[c][s].state /\ item.sys = slots[c][s].sys
    /\ item.state = "download" => item.link = <<c, s>>

Sound(acc) == acc.link \in Links /\ acc.items \in [Charts -> [Slots -> Item]]

OthersStay(r, acc, c, s) ==
    \A d \in Charts, t \in Slots : <<d, t>> # <<c, s>> => r.items[d][t] = acc.items[d][t]

LEMMA ReadOne ==
    ASSUME NEW slots \in [Charts -> [Slots -> Slot]], NEW acc, Sound(acc),
           NEW c \in Charts, NEW s \in Slots, NEW r, r = ReadElement(acc, ElementOf(slots, <<c, s>>))
    PROVE  Sound(r) /\ Read(r.items[c][s], slots, c, s) /\ OthersStay(r, acc, c, s)
<1> DEFINE e == ElementOf(slots, <<c, s>>)
           link == IF e.link = NoLink THEN acc.link ELSE e.link
           new == [sys |-> e.sys, state |-> e.state, link |-> link]
<1>1. /\ e.chart = c /\ e.slot = s /\ e.sys = slots[c][s].sys /\ e.state = slots[c][s].state
      /\ e.link = IF slots[c][s].state = "download" THEN <<c, s>> ELSE NoLink
  BY DEF ElementOf
<1>0. acc.link \in Links /\ acc.items \in [Charts -> [Slots -> Item]]
  BY DEF Sound
<1>2. <<c, s>> # NoLink /\ <<c, s>> \in Links
  BY ReplyAssumption DEF Links, Slots
<1>3. link \in Links /\ (e.state = "download" => link = <<c, s>>)
  BY <1>0, <1>1, <1>2 DEF Links
<1>4. slots[c][s] \in Slot
  OBVIOUS
<1> HIDE DEF e, link
<1>5. new \in Item /\ new.sys = e.sys /\ new.state = e.state /\ new.link = link
  BY <1>1, <1>3, <1>4 DEF Slot, Item
<1>6. Read(new, slots, c, s)
  BY <1>1, <1>3, <1>5 DEF Read
<1> DEFINE all == [acc.items EXCEPT ![c][s] = new]
<1>7. r = [link |-> link, sys |-> e.sys, items |-> all]
  BY <1>1 DEF ReadElement, link, e
<1> HIDE DEF new, all
<1>8. r.link = link /\ r.items = all
  BY <1>7
<1>9. r.items = [acc.items EXCEPT ![c] = [acc.items[c] EXCEPT ![s] = new]]
  BY <1>0, <1>8 DEF all
<1>10. [acc.items[c] EXCEPT ![s] = new] \in [Slots -> Item]
  BY <1>0, <1>5
<1>11. r.items \in [Charts -> [Slots -> Item]]
  BY <1>0, <1>9, <1>10
<1>12. r.items[c][s] = new /\ \A d \in Charts, t \in Slots : <<d, t>> # <<c, s>> => r.items[d][t] = acc.items[d][t]
  <2>1. /\ r.items[c] = [acc.items[c] EXCEPT ![s] = new]
        /\ \A d \in Charts : d # c => r.items[d] = acc.items[d]
    BY <1>0, <1>9
  <2>2. /\ r.items[c][s] = new
        /\ \A t \in Slots : t # s => r.items[c][t] = acc.items[c][t]
    <3>1. acc.items[c] \in [Slots -> Item]
      BY <1>0
    <3> QED
      BY <2>1, <3>1
  <2> QED
    BY <2>1, <2>2
<1> QED
  BY <1>3, <1>6, <1>8, <1>11, <1>12 DEF OthersStay, Sound

\* What the elements of the set t make of the list: their slots are read, and the others
\* left alone.
ReadSoFar(acc, slots, id, t) ==
    /\ Sound(acc)
    /\ \A c \in Charts, s \in Slots :
          IF \E i \in t : id[i] = <<c, s>> THEN Read(acc.items[c][s], slots, c, s)
                                           ELSE acc.items[c][s] = items[c][s]

LEMMA ReadNext ==
    ASSUME NEW slots \in [Charts -> [Slots -> Slot]],
           NEW n \in Nat, NEW id \in [1..n -> Charts \X Slots], NEW t \in SUBSET (1..n), NEW m \in t,
           NEW acc, ReadSoFar(acc, slots, id, t \ {m}),
           NEW r, r = ReadElement(acc, ElementOf(slots, id[m]))
    PROVE  ReadSoFar(r, slots, id, t)
<1>1. PICK c \in Charts, s \in Slots : id[m] = <<c, s>>
  <2>1. m \in 1..n
    OBVIOUS
  <2>2. id[m] \in Charts \X Slots
    BY <2>1
  <2> QED
    BY <2>2
<1>2. Sound(acc)
  BY DEF ReadSoFar
<1>3. r = ReadElement(acc, ElementOf(slots, <<c, s>>))
  BY <1>1
<1>4. Sound(r) /\ Read(r.items[c][s], slots, c, s) /\ OthersStay(r, acc, c, s)
  BY <1>2, <1>3, ReadOne
<1>5. ASSUME NEW d \in Charts, NEW o \in Slots
      PROVE  IF \E i \in t : id[i] = <<d, o>> THEN Read(r.items[d][o], slots, d, o)
                                              ELSE r.items[d][o] = items[d][o]
  <2>1. CASE <<d, o>> = <<c, s>>
    BY <1>1, <1>4, <2>1
  <2>2. CASE <<d, o>> # <<c, s>>
    <3>1. (\E i \in t : id[i] = <<d, o>>) <=> (\E i \in t \ {m} : id[i] = <<d, o>>)
      BY <1>1, <2>2
    <3>2. r.items[d][o] = acc.items[d][o]
      BY <1>4, <2>2 DEF OthersStay
    <3>3. IF \E i \in t \ {m} : id[i] = <<d, o>> THEN Read(acc.items[d][o], slots, d, o)
                                                 ELSE acc.items[d][o] = items[d][o]
      BY DEF ReadSoFar
    <3> QED
      BY <3>1, <3>2, <3>3
  <2> QED
    BY <2>1, <2>2
<1> QED
  BY <1>4, <1>5 DEF ReadSoFar

LEMMA ReadAll ==
    ASSUME NEW slots \in [Charts -> [Slots -> Slot]], items \in [Charts -> [Slots -> Item]],
           NEW n \in Nat, NEW id \in [1..n -> Charts \X Slots]
    PROVE  LET q == [i \in 1..n |-> ElementOf(slots, id[i])]
               b == [link |-> NoLink, sys |-> NoName, items |-> items]
           IN  ReadSoFar(FoldLeft(ReadElement, b, q), slots, id, 1..n)
<1> DEFINE q == [i \in 1..n |-> ElementOf(slots, id[i])]
           b == [link |-> NoLink, sys |-> NoName, items |-> items]
           f == CHOOSE h : h = FoldStep(h, n, q, b)
<1>1. f = FoldStep(f, n, q, b)
  BY FoldExists
<1>2. FoldLeft(ReadElement, b, q) = f[1..n]
  <2>1. DOMAIN q = 1..n
    OBVIOUS
  <2> HIDE DEF q, b
  <2> QED
    BY <2>1, FoldIs
<1>3. b.link = NoLink /\ b.items = items
  OBVIOUS
<1>4. \A i \in 1..n : q[i] = ElementOf(slots, id[i])
  OBVIOUS
<1> HIDE DEF f, q, b
<1>5. \A t \in SUBSET (1..n) : f[t] = IF t = {} THEN b ELSE ReadElement(f[t \ {Max(t)}], q[Max(t)])
  BY <1>1 DEF FoldStep
<1> DEFINE Good(t) == ReadSoFar(f[t], slots, id, t)
           bad == {m \in Nat : \E t \in SUBSET (1..n) : (\A y \in t : y <= m) /\ ~Good(t)}
<1>6. Good({})
  BY <1>3, <1>5 DEF ReadSoFar, Sound, Links
<1>7. ASSUME bad # {} PROVE FALSE
  <2>1. PICK m \in bad : \A k \in bad : m <= k
    BY <1>7, LeastNatural
  <2>2. PICK t \in SUBSET (1..n) : (\A y \in t : y <= m) /\ ~Good(t)
    BY <2>1
  <2>3. t # {}
    BY <1>6, <2>2
  <2>4. \A y \in t : y \in 1..n
    OBVIOUS
  <2>5. m \in t
    <3>1. CASE m = 0
      <4>1. PICK y \in t : TRUE
        BY <2>3
      <4>2. y \in 1..n /\ y <= 0
        BY <2>2, <2>4, <3>1
      <4> QED
        BY <4>2
    <3>2. CASE m # 0
      <4>1. m - 1 \in Nat /\ ~(m <= m - 1)
        BY <3>2
      <4>2. m - 1 \notin bad
        BY <2>1, <4>1
      <4>3. PICK y \in t : ~(y <= m - 1)
        BY <2>2, <4>1, <4>2
      <4>4. y = m
        <5>1. y \in 1..n /\ y <= m /\ m \in Nat
          BY <2>2, <2>4
        <5> QED
          BY <4>3, <5>1
      <4> QED
        BY <4>3, <4>4
    <3> QED
      BY <3>1, <3>2
  <2>6. m \in 1..n /\ m - 1 \in Nat /\ ~(m <= m - 1)
    BY <2>4, <2>5
  <2> DEFINE u == t \ {m}
  <2>7. u \in SUBSET (1..n) /\ \A y \in u : y <= m - 1
    BY <2>2, <2>4, <2>6
  <2>8. Good(u)
    BY <2>1, <2>6, <2>7
  <2>9. Max(t) = m
    <3>1. \A y \in t : y \in 1..m
      BY <2>2, <2>4, <2>6
    <3> QED
      BY <2>5, <3>1, GreatestIs
  <2>10. f[t] = ReadElement(f[u], ElementOf(slots, id[m]))
    BY <1>4, <1>5, <2>3, <2>6, <2>9
  <2>11. Good(t)
    BY <2>5, <2>8, <2>10, ReadNext
  <2> QED
    BY <2>2, <2>11
<1>8. Good(1..n)
  <2>1. n \notin bad
    BY <1>7
  <2>2. \A y \in 1..n : y <= n
    OBVIOUS
  <2> HIDE DEF Good
  <2> QED
    BY <2>1, <2>2
<1> QED
  BY <1>2, <1>8 DEF q, b

-----------------------------------------------------------------------------
\* The panel's list, and what the server last told of it.
ListTyped ==
    /\ items \in [Charts -> [Slots -> Item]]
    /\ listed \subseteq Charts
    /\ \A c \in Charts \ listed : items[c] = [s \in Slots |-> Empty]
    /\ told \in [Charts -> [Slots -> Slot \cup {Empty}]]

ListSound == ListTyped /\ ListIsAccount

\* A list from the server, whatever the order of its elements.
LEMMA ListedKeeps ==
    ASSUME ListSound, NEW slots \in [Charts -> [Slots -> Slot]], NEW u, Listed(slots, u)
    PROVE  ListSound'
<1> DEFINE b == [link |-> NoLink, sys |-> NoName, items |-> items]
<1>1. PICK q \in Elements(slots, u) : items' = FoldLeft(ReadElement, b, q).items
  BY DEF Listed
<1>2. /\ listed' = listed \cup {c \in Charts : OwnerOf[c] = u}
      /\ told' = [c \in Charts |-> IF OwnerOf[c] = u THEN slots[c] ELSE told[c]]
  BY DEF Listed
<1>3. PICK n \in Nat : \E id \in [1..n -> IdsOf(u)] :
              /\ q = [i \in 1..n |-> ElementOf(slots, id[i])]
              /\ \A x \in IdsOf(u) : \E i \in 1..n : id[i] = x
  BY ElementsAre
<1>4. PICK id \in [1..n -> IdsOf(u)] :
              /\ q = [i \in 1..n |-> ElementOf(slots, id[i])]
              /\ \A x \in IdsOf(u) : \E i \in 1..n : id[i] = x
  BY <1>3
<1>5. \A c \in Charts, s \in Slots : OwnerOf[c] = u <=> \E i \in 1..n : id[i] = <<c, s>>
  <2>1. \A c \in Charts, s \in Slots : OwnerOf[c] = u <=> <<c, s>> \in IdsOf(u)
    BY DEF IdsOf
  <2>2. \A i \in 1..n : id[i] \in IdsOf(u)
    OBVIOUS
  <2> QED
    BY <1>4, <2>1, <2>2
<1>6. id \in [1..n -> Charts \X Slots]
  BY DEF IdsOf
<1>7. items \in [Charts -> [Slots -> Item]]
  BY DEF ListSound, ListTyped
<1>8. ReadSoFar(FoldLeft(ReadElement, b, q), slots, id, 1..n)
  BY <1>4, <1>6, <1>7, ReadAll
<1> HIDE DEF b
<1>9. items' \in [Charts -> [Slots -> Item]]
  BY <1>1, <1>8 DEF ReadSoFar, Sound
<1>10. ASSUME NEW c \in Charts, NEW s \in Slots
       PROVE  IF OwnerOf[c] = u THEN Read(items'[c][s], slots, c, s) ELSE items'[c][s] = items[c][s]
  BY <1>1, <1>5, <1>8 DEF ReadSoFar
<1>11. \A c \in Charts \ listed' : items'[c] = [s \in Slots |-> Empty]
  <2> SUFFICES ASSUME NEW c \in Charts \ listed' PROVE items'[c] = [s \in Slots |-> Empty]
    OBVIOUS
  <2>1. OwnerOf[c] # u /\ c \notin listed
    BY <1>2
  <2>2. items[c] = [s \in Slots |-> Empty]
    BY <2>1 DEF ListSound, ListTyped
  <2>3. \A s \in Slots : items'[c][s] = Empty
    BY <1>10, <2>1, <2>2
  <2>4. items'[c] \in [Slots -> Item]
    BY <1>9
  <2> QED
    BY <2>3, <2>4
<1>12. told' \in [Charts -> [Slots -> Slot \cup {Empty}]]
  <2>1. told \in [Charts -> [Slots -> Slot \cup {Empty}]]
    BY DEF ListSound, ListTyped
  <2>2. \A c \in Charts : slots[c] \in [Slots -> Slot \cup {Empty}]
    OBVIOUS
  <2> QED
    BY <1>2, <2>1, <2>2
<1>13. ListTyped'
  BY <1>2, <1>9, <1>11, <1>12 DEF ListSound, ListTyped
<1>14. ListIsAccount'
  <2> SUFFICES ASSUME NEW c \in Charts, NEW s \in Slots
               PROVE  /\ items'[c][s].state = told'[c][s].state /\ items'[c][s].sys = told'[c][s].sys
                      /\ items'[c][s].state = "download" => items'[c][s].link = <<c, s>>
    BY DEF ListIsAccount
  <2>1. CASE OwnerOf[c] = u
    <3>1. told'[c][s] = slots[c][s]
      BY <1>2, <2>1
    <3> QED
      BY <1>10, <2>1, <3>1 DEF Read
  <2>2. CASE OwnerOf[c] # u
    <3>1. told'[c][s] = told[c][s] /\ items'[c][s] = items[c][s]
      BY <1>2, <1>10, <2>2
    <3> QED
      BY <3>1 DEF ListSound, ListIsAccount
  <2> QED
    BY <2>1, <2>2
<1> QED
  BY <1>13, <1>14 DEF ListSound

LEMMA SameList ==
    ASSUME ListSound, UNCHANGED <<items, listed, told>>
    PROVE  ListSound'
  BY DEF ListSound, ListTyped, ListIsAccount

LEMMA EmptyList ==
    ASSUME items' = [c \in Charts |-> [s \in Slots |-> Empty]],
           told' = [c \in Charts |-> [s \in Slots |-> Empty]], listed' = {}
    PROVE  ListSound'
<1>1. Empty \in Item /\ Empty.state # "download"
  BY DEF Empty, Item, Links
<1>2. ListTyped'
  BY <1>1 DEF ListTyped
<1>3. ListIsAccount'
  BY <1>1 DEF ListIsAccount
<1> QED
  BY <1>2, <1>3 DEF ListSound

LEMMA InitList == Init => ListSound
<1> SUFFICES ASSUME Init PROVE ListSound
  OBVIOUS
<1>1. Empty \in Item /\ Empty.state # "download"
  BY DEF Empty, Item, Links
<1>2. ListTyped
  BY <1>1 DEF Init, ListTyped
<1>3. ListIsAccount
  BY <1>1 DEF Init, ListIsAccount
<1> QED
  BY <1>2, <1>3 DEF ListSound

LEMMA NextList == IInv /\ IInv' /\ ListSound /\ [Next]_vars => ListSound'
<1> SUFFICES ASSUME IInv, IInv', ListSound, [Next]_vars PROVE ListSound'
  OBVIOUS
<1>1. acct \in [Charts -> [Slots -> Slot]] /\ acct' \in [Charts -> [Slots -> Slot]]
  BY DEF IInv, Typed
<1>2. CASE List \/ Poll
  BY <1>1, <1>2, ListedKeeps DEF List, Poll
<1>3. CASE \E c \in Charts, s \in Slots : Assign(c, s)
  <2>1. Listed(acct', mem.user) \/ UNCHANGED <<items, listed, told>>
    BY <1>3 DEF Assign
  <2> QED
    BY <1>1, <2>1, ListedKeeps, SameList
<1>4. CASE Quit \/ Crash
  BY <1>4, EmptyList DEF Quit, Crash, Fresh
<1>5. CASE UNCHANGED <<items, listed, told>>
  BY <1>5, SameList
<1> QED
  BY <1>2, <1>3, <1>4, <1>5
     DEF Next, GoOn, Refresh, LoginCancel, ListFails, ListRefused, LoginFails, Login, NameCancel,
         NameInvalid, NameGarbled, NameNew, NameChosen, UploadOK, UploadFails, SaveElsewhere, ClearName,
         Prepare, OtherName, NewPassword, FprBreaks, vars, panel

LEMMA ListInvariance == Spec => []ListSound
  BY InitList, NextList, Invariance, PTL DEF Spec

\* The types of the login, the list and the names, and that a chart set not listed yet
\* has no slots: whatever was typed, chosen, rejected or lost.
THEOREM TypeCorrect == Spec => []TypeOK
<1>1. IInv /\ NamesTyped /\ ListSound => TypeOK
  BY DEF IInv, Typed, ListSound, ListTyped, NamesTyped, TypeOK
<1> QED
  BY <1>1, Invariance, NamesInvariance, ListInvariance, PTL

\* Whatever the order of the elements of a reply and whatever was in the list before,
\* each slot has the state and the system the server gave for it, and the link that it
\* offers for download is its own (ProcessResponse).
THEOREM ListIsTheAccount == Spec => []ListIsAccount
<1>1. ListSound => ListIsAccount
  BY DEF ListSound
<1> QED
  BY <1>1, ListInvariance, PTL

-----------------------------------------------------------------------------
\* How long a Refresh may take: a login and a list, both once again if the server refuses
\* the first, and the names.
RefreshLeft(g) ==
    CASE g.at = "idle"              -> 0
      [] g.at = "upload"            -> 1
      [] g.at = "name"              -> MaxTries - g.tries + 2
      [] g.at = "list"  /\ g.again  -> MaxTries + 3
      [] g.at = "login" /\ g.again  -> MaxTries + 4
      [] g.at = "list"  /\ ~g.again -> MaxTries + 5
      [] g.at = "login" /\ ~g.again -> MaxTries + 6

LEMMA RefreshLeftIs ==
    ASSUME NEW g \in Gui
    PROVE  RefreshLeft(g) \in 0..(MaxTries + 6)
<1>1. MaxTries \in Nat
  BY ReplyAssumption
<1>2. CASE g = Idle
  BY <1>1, <1>2 DEF RefreshLeft, Idle
<1>3. CASE g # Idle
  <2>1. /\ g.at \in {"login", "list", "name", "upload"} /\ g.again \in BOOLEAN /\ g.tries \in 0..MaxTries
    BY <1>3 DEF Gui
  <2>2. CASE g.at \in {"name", "upload"}
    BY <1>1, <2>1, <2>2 DEF RefreshLeft
  <2>3. CASE g.at \in {"login", "list"}
    BY <1>1, <2>1, <2>3 DEF RefreshLeft
  <2> QED
    BY <2>1, <2>2, <2>3
<1> QED
  BY <1>2, <1>3

\* The way of a Refresh through its dialogs and posts.
Onward ==
    \/ gui' = Idle
    \/ gui.at = "login" /\ gui' = At("list")
    \/ gui.at = "list" /\ ~gui.again /\ gui' = [At("login") EXCEPT !.again = TRUE]
    \/ gui.at = "list" /\ gui' = Wizard(0)
    \/ gui.at = "name" /\ gui' = At("upload")
    \/ gui.at = "name" /\ gui.tries + 1 < MaxTries /\ gui' = Wizard(gui.tries + 1)

LEMMA GoesOnward == ASSUME GoOn PROVE Onward
<1>1. CASE LoginCancel \/ ListFails \/ ListRefused \/ List
  BY <1>1 DEF LoginCancel, ListFails, ListRefused, List, Onward
<1>2. CASE \/ \E u \in Users \cup {Mistyped} : LoginFails(u)
           \/ \E u \in Users : Login(u)
  BY <1>2 DEF LoginFails, Login, Onward
<1>3. CASE \/ NameCancel \/ NameGarbled \/ NameInvalid
           \/ \E n \in Names : NameNew(n)
           \/ \E n \in Names \cup {Garbled} : NameChosen(n)
  BY <1>3 DEF NameCancel, NameGarbled, NameInvalid, NameNew, NameChosen, NamesDone, Rejected, Onward
<1>4. CASE UploadOK \/ UploadFails
  BY <1>4 DEF UploadOK, UploadFails, Onward
<1> QED
  BY <1>1, <1>2, <1>3, <1>4 DEF GoOn

LEMMA OnwardIsLess ==
    ASSUME IInv, NamesTyped', gui # Idle, Onward
    PROVE  RefreshLeft(gui') < RefreshLeft(gui)
<1>1. /\ gui.at \in {"login", "list", "name", "upload"} /\ gui.again \in BOOLEAN /\ gui.tries \in 0..MaxTries
      /\ gui = [at |-> gui.at, again |-> gui.again, dongle |-> gui.dongle, tries |-> gui.tries,
                offered |-> gui.offered]
      /\ MaxTries \in Nat
  BY OfGui, ReplyAssumption DEF IInv, Typed
<1>2. ASSUME NEW p
      PROVE  At(p) = [at |-> p, again |-> gui.again, dongle |-> gui.dongle, tries |-> gui.tries,
                      offered |-> gui.offered]
  BY <1>1 DEF At
<1>3. /\ gui.at = "upload" => RefreshLeft(gui) = 1
      /\ gui.at = "name" => RefreshLeft(gui) = MaxTries - gui.tries + 2
      /\ gui.at = "list" => RefreshLeft(gui) = IF gui.again THEN MaxTries + 3 ELSE MaxTries + 5
      /\ gui.at = "login" => RefreshLeft(gui) = IF gui.again THEN MaxTries + 4 ELSE MaxTries + 6
  BY <1>1 DEF RefreshLeft
<1>4. CASE gui' = Idle
  <2>1. RefreshLeft(gui') = 0
    BY <1>4 DEF RefreshLeft, Idle
  <2> QED
    BY <1>1, <1>3, <2>1
<1>5. CASE gui.at = "login" /\ gui' = At("list")
  <2>1. RefreshLeft(gui') = IF gui.again THEN MaxTries + 3 ELSE MaxTries + 5
    BY <1>1, <1>2, <1>5 DEF RefreshLeft
  <2> QED
    BY <1>1, <1>3, <1>5, <2>1
<1>6. CASE gui.at = "list" /\ ~gui.again /\ gui' = [At("login") EXCEPT !.again = TRUE]
  <2>1. gui' = [at |-> "login", again |-> TRUE, dongle |-> gui.dongle, tries |-> gui.tries,
                offered |-> gui.offered]
    BY <1>2, <1>6
  <2>2. RefreshLeft(gui') = MaxTries + 4
    BY <2>1 DEF RefreshLeft
  <2> QED
    BY <1>1, <1>3, <1>6, <2>2
<1>7. CASE gui.at = "list" /\ gui' = Wizard(0)
  <2>1. RefreshLeft(gui') = MaxTries + 2
    BY <1>1, <1>7, WizardIs DEF RefreshLeft, IInv, Typed
  <2> QED
    BY <1>1, <1>3, <1>7, <2>1
<1>8. CASE gui.at = "name" /\ gui' = At("upload")
  <2>1. RefreshLeft(gui') = 1
    BY <1>2, <1>8 DEF RefreshLeft
  <2> QED
    BY <1>1, <1>3, <1>8, <2>1
<1>9. CASE gui.at = "name" /\ gui.tries + 1 < MaxTries /\ gui' = Wizard(gui.tries + 1)
  <2>1. gui.tries + 1 \in 0..MaxTries
    BY <1>1, <1>9
  <2>2. RefreshLeft(gui') = MaxTries - (gui.tries + 1) + 2
    BY <1>9, <2>1, WizardIs DEF RefreshLeft, IInv, Typed
  <2> QED
    BY <1>1, <1>3, <1>9, <2>2
<1> QED
  BY <1>4, <1>5, <1>6, <1>7, <1>8, <1>9 DEF Onward

\* What is left of a Refresh gets less with each of its steps, and nothing else that
\* happens at the panel or at the server adds to it.
RefreshBounded ==
    gui # Idle =>
        /\ RefreshLeft(gui) \in 0..(MaxTries + 6)
        /\ GoOn => RefreshLeft(gui') < RefreshLeft(gui)
        /\ ~GoOn => gui' \in {gui, Idle}

LEMMA NextRefreshes == IInv /\ NamesTyped' /\ [Next]_vars => [RefreshBounded]_vars
<1> SUFFICES ASSUME IInv, NamesTyped', Next, gui # Idle PROVE RefreshBounded
  BY DEF RefreshBounded
<1>1. RefreshLeft(gui) \in 0..(MaxTries + 6)
  BY RefreshLeftIs DEF IInv, Typed
<1>2. GoOn => RefreshLeft(gui') < RefreshLeft(gui)
  BY GoesOnward, OnwardIsLess
<1>3. ~GoOn => gui' \in {gui, Idle}
  BY DEF Next, Refresh, Assign, Prepare, Poll, SaveElsewhere, ClearName, Quit, Crash, Fresh,
         OtherName, NewPassword, FprBreaks, panel
<1> QED
  BY <1>1, <1>2, <1>3 DEF RefreshBounded

\* A Refresh is over after MaxTries + 6 answers of its user and of the server at the most,
\* whatever they are: the server's refusal is followed by one more login only, and no
\* name is asked for again without counting the one before (OnButtonUpdate).
THEOREM RefreshesAreBounded == Spec => [][RefreshBounded]_vars
<1>1. []IInv /\ []NamesTyped /\ [][Next]_vars => [][RefreshBounded]_vars
  <2>1. IInv /\ NamesTyped' /\ [Next]_vars => [RefreshBounded]_vars
    BY NextRefreshes
  <2> QED
    BY <2>1, PTL
<1> QED
  BY <1>1, Invariance, NamesInvariance, PTL DEF Spec
=============================================================================
