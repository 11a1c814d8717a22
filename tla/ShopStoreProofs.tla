--------------------------- MODULE ShopStoreProofs ---------------------------
(***************************************************************************)
(* For any chart sets, editions and places, however OpenCPN crashes: the    *)
(* records are whole, a chart set displayed as current is in its directory, *)
(* no removal takes the last whole copy, and, unless one archive's name     *)
(* begins another's, what is on record is scanned.                          *)
(***************************************************************************)
EXTENDS ShopStore, TLAPS

\* What lies where is named as it should be.
Named ==
    /\ \A d \in Dirs, f \in Files : dir[d][f].zip # <<>> => NameOf[dir[d][f].zip] = d[2]
    /\ \A k \in Keys : rec[k] # NoRecord => rec[k].zip = NameOf[<<k, rec[k].ed>>]
    /\ \A k \in Keys : confFile[k] # NoRecord => confFile[k].zip = NameOf[<<k, confFile[k].ed>>]

\* Editions only go up: from the one on file to that on record, requested, sold.
Listed(k) ==
    /\ ready[k] <= shop[k]
    /\ rec[k].ed <= ready[k] /\ confFile[k].ed <= ready[k]
    /\ up => confFile[k].ed <= rec[k].ed
    /\ known[k].req <= ready[k] /\ known[k].cur <= shop[k]
    /\ known[k].cur # NoEdition => rec[k].ed <= known[k].req /\ known[k].req <= known[k].cur
    /\ known[k].cur = NoEdition => known[k].req = NoEdition

\* A program that does not run knows nothing, and the configuration object says what
\* the records say.
Session ==
    /\ conf = rec
    /\ ~up => /\ job = NoJob
              /\ \A k \in Keys : rec[k] = NoRecord /\ known[k] = Unknown

\* A file of the archive is in the directory of the job as the archive has it, but
\* that it is being written or the disk was full.
Fresh(f) == /\ dir[Target][f].zip = Zip
            /\ room /\ f # job.open => dir[Target][f].whole

\* The archive of the job is the one requested, its directory holds what is not still to
\* be extracted, and all of it when the old edition is removed.
Sound ==
    job # NoJob =>
        /\ known[job.key].req # NoEdition
        /\ job.zip = NameOf[<<job.key, known[job.key].req>>]
        /\ Zip = <<job.key, known[job.key].req>>
        /\ job.at # "choose" => /\ job.loc \in Parents
                                /\ \A f \in FilesOf[Zip] : (job.at = "extract" /\ f \in job.left) \/ Fresh(f)
        /\ job.open # NoFile => /\ job.at = "extract"
                                /\ dir[Target][job.open] = [zip |-> Zip, whole |-> FALSE]
        /\ job.at = "retire" =>
               rec[job.key] # NoRecord /\ rec[job.key].ed # known[job.key].req /\ OldDir(job.key) # Target

\* A directory on record holds the files of the edition recorded, or that edition is out
\* of date; so does one on file.
Holds(k, r, in) == \A f \in FilesOf[<<k, r.ed>>] : in[Place(r)][f].zip = <<k, r.ed>>

Dated(k) ==
    /\ rec[k] # NoRecord => Holds(k, rec[k], dir) \/ rec[k].ed < IF known[k].cur = NoEdition THEN shop[k] ELSE known[k].cur
    /\ confFile[k] # NoRecord => Holds(k, confFile[k], dir) \/ confFile[k].ed < shop[k]

IInv == TypeOK /\ Named /\ Session /\ Sound /\ \A k \in Keys : Listed(k) /\ Dated(k)

-----------------------------------------------------------------------------
\* Facts of the data

LEMMA Pairs ==
    ASSUME NEW z \in Zips
    PROVE  z # <<>> /\ z[1] \in Keys /\ z[2] \in Editions /\ z = <<z[1], z[2]>>
BY DEF Zips

\* An archive has files.
LEMMA Archives ==
    ASSUME NEW z \in Zips
    PROVE  FilesOf[z] \subseteq Files /\ FilesOf[z] # {}
BY StoreAssumption

\* Archives of two keys are named differently.
LEMMA OwnNames ==
    ASSUME NEW y \in Zips, NEW z \in Zips, NameOf[y] = NameOf[z]
    PROVE  y[1] = z[1] /\ NameOf[y] \in Names
BY StoreAssumption

LEMMA Records ==
    /\ NoRecord.ed = NoEdition /\ NoRecord \in Record
    /\ \A r \in Record : r # NoRecord => /\ r.loc \in Parents /\ r.zip \in Names
                                         /\ r.ed \in Editions /\ r.ed # NoEdition
    /\ \A r \in Record : r.ed \in Nat
BY StoreAssumption DEF Record, NoRecord, Editions, NoEdition

\* Loading what is remembered already, or into an empty record, gives what is loaded.
LEMMA LoadedIsConf ==
    ASSUME NEW r \in Record, NEW c \in Record, r = c \/ r = NoRecord
    PROVE  Loaded(r, c) = c
<1>1. CASE c = NoRecord
  BY <1>1 DEF Loaded, NoRecord
<1>2. CASE c # NoRecord
  BY <1>2, StoreAssumption DEF Loaded, Record, NoRecord
<1> QED
  BY <1>1, <1>2

LEMMA Jobs ==
    ASSUME TypeOK
    PROVE  /\ job = NoJob <=> job.at = "idle"
           /\ job # NoJob => /\ job.key \in Keys /\ job.zip \in Names
                             /\ job.loc \in Parents \cup {NoParent} /\ job.at \in Steps \ {"idle"}
                             /\ job.left \subseteq Files /\ job.open \in Files \cup {NoFile}
                             /\ job = [at |-> job.at, key |-> job.key, zip |-> job.zip, loc |-> job.loc,
                                       left |-> job.left, open |-> job.open]
BY DEF TypeOK, Job, NoJob, Steps

LEMMA InitIInv == Init => IInv
<1> SUFFICES ASSUME Init PROVE IInv
  OBVIOUS
<1>1. TypeOK
  <2>1. 1 \in Editions
    BY StoreAssumption DEF Editions
  <2>2. Unknown \in [cur : Editions \cup {NoEdition}, req : Editions \cup {NoEdition}]
    BY DEF Unknown
  <2>3. shop \in [Keys -> Editions] /\ up \in BOOLEAN /\ room \in BOOLEAN /\ job \in Job
        /\ ready \in [Keys -> Editions \cup {NoEdition}]
    BY <2>1 DEF Init, Job
  <2>4. rec \in [Keys -> Record] /\ conf \in [Keys -> Record] /\ confFile \in [Keys -> Record]
    BY Records DEF Init
  <2>5. file \in [Names -> Zips \cup {<<>>}] /\ dir \in [Dirs -> [Files -> Content]]
        /\ core \subseteq Parents \cup Dirs /\ coreFile \subseteq Parents \cup Dirs
    BY DEF Init, Content
  <2>6. known \in [Keys -> [cur : Editions \cup {NoEdition}, req : Editions \cup {NoEdition}]]
    BY <2>2 DEF Init
  <2> QED
    BY <2>3, <2>4, <2>5, <2>6 DEF TypeOK
<1>2. Named /\ Session
  BY DEF Init, Named, Session, Absent
<1>3. Sound
  BY DEF Init, Sound
<1>4. \A k \in Keys : Listed(k) /\ Dated(k)
  <2> TAKE k \in Keys
  <2>1. Listed(k)
    BY Records DEF Init, Listed, Unknown, NoEdition
  <2>2. Dated(k)
    BY DEF Init, Dated
  <2> QED
    BY <2>1, <2>2
<1> QED
  BY <1>1, <1>2, <1>3, <1>4 DEF IInv

-----------------------------------------------------------------------------
\* What the invariant says of one key, and of the job

LEMMA OfKey ==
    ASSUME IInv, NEW k \in Keys
    PROVE  /\ rec[k] \in Record /\ conf[k] \in Record /\ confFile[k] \in Record
           /\ shop[k] \in Editions /\ shop[k] \in Nat /\ ready[k] \in Editions \cup {NoEdition} /\ ready[k] \in Nat
           /\ known[k] \in [cur : Editions \cup {NoEdition}, req : Editions \cup {NoEdition}]
           /\ known[k].cur \in Nat /\ known[k].req \in Nat
           /\ known[k].req # NoEdition => known[k].req \in Editions
           /\ rec[k].ed \in Nat /\ confFile[k].ed \in Nat
           /\ Listed(k) /\ Dated(k)
<1>1. /\ rec[k] \in Record /\ conf[k] \in Record /\ confFile[k] \in Record
      /\ shop[k] \in Editions /\ ready[k] \in Editions \cup {NoEdition}
      /\ known[k] \in [cur : Editions \cup {NoEdition}, req : Editions \cup {NoEdition}]
  BY DEF IInv, TypeOK
<1> QED
  BY <1>1, Records DEF IInv, Editions, NoEdition

LEMMA OfJob ==
    ASSUME IInv, job # NoJob
    PROVE  /\ job.key \in Keys /\ job.zip \in Names /\ job.at \in Steps \ {"idle"}
           /\ known[job.key].req \in Editions
           /\ <<job.key, known[job.key].req>> \in Zips
           /\ NameOf[<<job.key, known[job.key].req>>] = job.zip
           /\ Zip = <<job.key, known[job.key].req>>
           /\ up
<1>1. TypeOK /\ Sound /\ Session
  BY DEF IInv
<1>2. job.key \in Keys /\ job.zip \in Names /\ job.at \in Steps \ {"idle"}
  BY <1>1, Jobs
<1>3. known[job.key].req \in Editions
  BY <1>1, <1>2, OfKey DEF Sound
<1> QED
  BY <1>1, <1>2, <1>3 DEF Sound, Session, Zips, TypeOK

LEMMA OfRecord ==
    ASSUME IInv, NEW k \in Keys, NEW r \in {rec[k], confFile[k]}, r # NoRecord
    PROVE  /\ r.loc \in Parents /\ r.zip \in Names /\ r.ed \in Editions
           /\ <<k, r.ed>> \in Zips /\ NameOf[<<k, r.ed>>] = r.zip
           /\ Place(r) \in Dirs
<1>1. r \in Record
  BY OfKey
<1>2. NameOf[<<k, r.ed>>] = r.zip
  BY DEF IInv, Named
<1> QED
  BY <1>1, <1>2, Records DEF Zips, Place, Dirs

\* A directory named as an archive of one key is on record for no other.
LEMMA Apart ==
    ASSUME IInv, NEW k \in Keys, NEW r \in {rec[k], confFile[k]}, r # NoRecord,
           NEW z \in Zips, z[1] # k, NEW d, d[2] = NameOf[z]
    PROVE  Place(r) # d
<1> SUFFICES ASSUME Place(r) = d PROVE FALSE
  OBVIOUS
<1>1. <<k, r.ed>> \in Zips /\ NameOf[<<k, r.ed>>] = NameOf[z]
  BY OfRecord DEF Place
<1> QED
  BY <1>1, OwnNames

-----------------------------------------------------------------------------
\* Refresh, and what OpenCPN and the server do

LEMMA RefreshKeeps == IInv /\ Refresh => IInv'
<1> SUFFICES ASSUME IInv, Refresh PROVE IInv'
  OBVIOUS
<1>1. rec' = rec
  <2>1. \A k \in Keys : Loaded(rec[k], conf[k]) = rec[k]
    BY OfKey, LoadedIsConf DEF IInv, Session
  <2> QED
    BY <2>1 DEF Refresh, AllLoaded, IInv, TypeOK
<1>2. conf' = rec' /\ conf' = conf
  BY <1>1 DEF Refresh, IInv, Session
<1>3. \/ known' = known
      \/ known' = [k \in Keys |-> [cur |-> shop[k], req |-> ready[k]]]
  BY DEF Refresh
<1>4. UNCHANGED <<shop, ready, room, up, core, job, confFile, coreFile, file, dir>> /\ up /\ job = NoJob
  BY DEF Refresh, disk
<1>5. TypeOK'
  <2>1. known' \in [Keys -> [cur : Editions \cup {NoEdition}, req : Editions \cup {NoEdition}]]
    BY <1>3, OfKey DEF IInv, TypeOK
  <2> QED
    BY <1>1, <1>2, <1>4, <2>1 DEF IInv, TypeOK
<1>6. Named' /\ Session' /\ Sound'
  BY <1>1, <1>2, <1>4 DEF IInv, Named, Session, Sound
<1>7. ASSUME NEW k \in Keys PROVE Listed(k)' /\ Dated(k)'
  <2>1. Listed(k)'
    BY <1>1, <1>3, <1>4, OfKey DEF Listed, Editions, NoEdition
  <2>2. Dated(k)'
    BY <1>1, <1>3, <1>4, OfKey DEF Listed, Dated, Editions, NoEdition
  <2> QED
    BY <2>1, <2>2
<1> QED
  BY <1>5, <1>6, <1>7 DEF IInv

LEMMA FlushKeeps == IInv /\ Flush => IInv'
<1> SUFFICES ASSUME IInv, Flush PROVE IInv'
  OBVIOUS
<1>1. confFile' = rec /\ coreFile' = core /\ up /\ UNCHANGED <<shop, ready, room, up, known, rec, conf, core, job, file, dir>>
  BY DEF Flush, IInv, Session, memory
<1>2. TypeOK' /\ Named' /\ Session' /\ Sound'
  BY <1>1 DEF IInv, TypeOK, Named, Session, Sound, Fresh, Zip, Target, OldDir
<1>3. ASSUME NEW k \in Keys PROVE Listed(k)' /\ Dated(k)'
  <2>1. Listed(k)'
    BY <1>1, OfKey DEF Listed
  <2>2. Dated(k)'
    <3>1. rec[k] # NoRecord => Holds(k, rec[k], dir) \/ rec[k].ed < shop[k]
      BY OfKey DEF Listed, Dated
    <3> QED
      BY <1>1, <3>1, OfKey DEF Dated
  <2> QED
    BY <2>1, <2>2
<1> QED
  BY <1>2, <1>3 DEF IInv

LEMMA QuitKeeps == IInv /\ Quit => IInv'
<1> SUFFICES ASSUME IInv, Quit PROVE IInv'
  OBVIOUS
<1>1. /\ confFile' = rec /\ coreFile' = core /\ UNCHANGED <<shop, ready, room, file, dir>>
      /\ up' = FALSE /\ core' = {} /\ job' = NoJob
      /\ known' = [k \in Keys |-> Unknown] /\ rec' = [k \in Keys |-> NoRecord] /\ conf' = rec'
  BY DEF Quit, Down, IInv, Session
<1>2. Unknown \in [cur : Editions \cup {NoEdition}, req : Editions \cup {NoEdition}]
  BY DEF Unknown
<1>3. TypeOK'
  <2>1. known' \in [Keys -> [cur : Editions \cup {NoEdition}, req : Editions \cup {NoEdition}]]
    BY <1>1, <1>2
  <2>2. rec' \in [Keys -> Record]
    BY <1>1, Records
  <2> QED
    BY <1>1, <2>1, <2>2 DEF IInv, TypeOK, Job
<1>4. Named' /\ Session' /\ Sound'
  BY <1>1 DEF IInv, Named, Session, Sound
<1>5. ASSUME NEW k \in Keys PROVE Listed(k)' /\ Dated(k)'
  <2>1. rec'[k] = NoRecord /\ known'[k].cur = NoEdition /\ known'[k].req = NoEdition
    BY <1>1 DEF Unknown
  <2>2. Listed(k)'
    BY <1>1, <2>1, OfKey, Records DEF Listed, NoEdition
  <2>3. Dated(k)'
    <3>1. rec[k] # NoRecord => Holds(k, rec[k], dir) \/ rec[k].ed < shop[k]
      BY OfKey DEF Listed, Dated
    <3> QED
      BY <1>1, <2>1, <3>1 DEF Dated
  <2> QED
    BY <2>2, <2>3
<1> QED
  BY <1>3, <1>4, <1>5 DEF IInv

LEMMA CrashKeeps == IInv /\ Crash => IInv'
<1> SUFFICES ASSUME IInv, Crash PROVE IInv'
  OBVIOUS
<1>1. /\ UNCHANGED <<shop, ready, room, confFile, coreFile, file, dir>>
      /\ up' = FALSE /\ core' = {} /\ job' = NoJob
      /\ known' = [k \in Keys |-> Unknown] /\ rec' = [k \in Keys |-> NoRecord] /\ conf' = rec'
  BY DEF Crash, Down, disk
<1>2. Unknown \in [cur : Editions \cup {NoEdition}, req : Editions \cup {NoEdition}]
  BY DEF Unknown
<1>3. TypeOK'
  <2>1. known' \in [Keys -> [cur : Editions \cup {NoEdition}, req : Editions \cup {NoEdition}]]
    BY <1>1, <1>2
  <2>2. rec' \in [Keys -> Record]
    BY <1>1, Records
  <2> QED
    BY <1>1, <2>1, <2>2 DEF IInv, TypeOK, Job
<1>4. Named' /\ Session' /\ Sound'
  BY <1>1 DEF IInv, Named, Session, Sound
<1>5. ASSUME NEW k \in Keys PROVE Listed(k)' /\ Dated(k)'
  <2>1. rec'[k] = NoRecord /\ known'[k].cur = NoEdition /\ known'[k].req = NoEdition
    BY <1>1 DEF Unknown
  <2>2. Listed(k)'
    BY <1>1, <2>1, OfKey, Records DEF Listed, NoEdition
  <2>3. Dated(k)'
    BY <1>1, <2>1, OfKey DEF Dated, NoEdition
  <2> QED
    BY <2>2, <2>3
<1> QED
  BY <1>3, <1>4, <1>5 DEF IInv

LEMMA StartKeeps == IInv /\ Start => IInv'
<1> SUFFICES ASSUME IInv, Start PROVE IInv'
  OBVIOUS
<1>1. /\ UNCHANGED <<shop, ready, room, known, job, confFile, coreFile, file, dir>>
      /\ ~up /\ up' = TRUE /\ core' = coreFile /\ conf' = confFile
  BY DEF Start, disk
<1>2. rec' = confFile
  <2>1. \A k \in Keys : Loaded(rec[k], confFile[k]) = confFile[k]
    BY <1>1, OfKey, LoadedIsConf DEF IInv, Session
  <2> QED
    BY <2>1 DEF Start, AllLoaded, IInv, TypeOK
<1>3. job = NoJob
  BY <1>1 DEF IInv, Session
<1>4. TypeOK' /\ Named' /\ Session' /\ Sound'
  BY <1>1, <1>2, <1>3 DEF IInv, TypeOK, Named, Session, Sound
<1>5. ASSUME NEW k \in Keys PROVE Listed(k)' /\ Dated(k)'
  <2>1. known[k].cur = NoEdition /\ known[k].req = NoEdition
    BY <1>1 DEF IInv, Session, Unknown
  <2>2. Listed(k)'
    BY <1>1, <1>2, <2>1, OfKey DEF Listed
  <2>3. Dated(k)'
    BY <1>1, <1>2, <2>1, OfKey DEF Dated
  <2> QED
    BY <2>2, <2>3
<1> QED
  BY <1>4, <1>5 DEF IInv

LEMMA PublishKeeps == ASSUME IInv, NEW p \in Keys, Publish(p) PROVE IInv'
<1>1. /\ UNCHANGED <<ready, room, up, known, rec, conf, core, job, confFile, coreFile, file, dir>>
      /\ shop' = [shop EXCEPT ![p] = @ + 1] /\ shop[p] < MaxEdition
  BY DEF Publish, memory, disk
<1>2. \A k \in Keys : shop'[k] \in Editions /\ shop'[k] >= shop[k]
  BY <1>1, OfKey, StoreAssumption DEF Editions, IInv, TypeOK
<1>3. TypeOK' /\ Named' /\ Session' /\ Sound'
  BY <1>1, <1>2 DEF IInv, TypeOK, Named, Session, Sound, Fresh, Zip, Target, OldDir
<1>4. ASSUME NEW k \in Keys PROVE Listed(k)' /\ Dated(k)'
  BY <1>1, <1>2, OfKey DEF Listed, Dated, NoEdition, Editions
<1> QED
  BY <1>3, <1>4 DEF IInv

LEMMA PrepareKeeps == ASSUME IInv, NEW p \in Keys, Prepare(p) PROVE IInv'
<1>1. /\ UNCHANGED <<shop, room, up, known, rec, conf, core, job, confFile, coreFile, file, dir>>
      /\ ready' = [ready EXCEPT ![p] = shop[p]]
  BY DEF Prepare, memory, disk
<1>2. \A k \in Keys : /\ ready'[k] \in Editions \cup {NoEdition}
                      /\ ready'[k] >= ready[k] /\ ready'[k] <= shop[k]
  BY <1>1, OfKey DEF IInv, TypeOK, Listed
<1>3. TypeOK' /\ Named' /\ Session' /\ Sound'
  BY <1>1, <1>2 DEF IInv, TypeOK, Named, Session, Sound, Fresh, Zip, Target, OldDir
<1>4. ASSUME NEW k \in Keys PROVE Listed(k)' /\ Dated(k)'
  BY <1>1, <1>2, OfKey DEF Listed, Dated, NoEdition, Editions
<1> QED
  BY <1>3, <1>4 DEF IInv

-----------------------------------------------------------------------------
\* The steps of an installation

\* The editions, while a job for the key has got as far as its request.
LEMMA InOrder ==
    ASSUME IInv, job # NoJob
    PROVE  /\ rec[job.key].ed <= known[job.key].req /\ confFile[job.key].ed <= known[job.key].req
           /\ known[job.key].req <= known[job.key].cur /\ known[job.key].cur # NoEdition
           /\ known[job.key].req <= shop[job.key]
<1> DEFINE k == job.key
<1>1. k \in Keys /\ known[k].req \in Editions /\ up
  BY OfJob
<1>2. known[k].req \in Nat /\ known[k].req > 0
  BY <1>1 DEF Editions
<1>3. /\ rec[k].ed \in Nat /\ confFile[k].ed \in Nat /\ known[k].cur \in Nat
      /\ shop[k] \in Nat /\ Listed(k)
  BY <1>1, OfKey
<1> QED
  BY <1>1, <1>2, <1>3 DEF Listed, NoEdition

\* Nothing is changed that the listing of editions is about.
LEMMA ListedKeeps ==
    ASSUME IInv, UNCHANGED <<shop, ready, room, up, known, rec, confFile>>
    PROVE  \A k \in Keys : Listed(k)'
BY OfKey DEF Listed

LEMMA DatedKeeps ==
    ASSUME IInv, UNCHANGED <<shop, known, rec, confFile>>,
           \A d \in Dirs, f \in Files : dir'[d][f].zip = dir[d][f].zip
    PROVE  \A k \in Keys : Dated(k)'
<1> TAKE k \in Keys
<1>1. \A r \in {rec[k], confFile[k]} : r # NoRecord => (Holds(k, r, dir') <=> Holds(k, r, dir))
  BY OfRecord, Archives DEF Holds, Place
<1> QED
  BY <1>1, OfKey DEF Dated

LEMMA DownloadKeeps == ASSUME IInv, NEW k \in Keys, Download(k) PROVE IInv'
<1> DEFINE z == <<k, known[k].req>>
<1>1. /\ UNCHANGED <<shop, ready, room, up, known, rec, conf, core, confFile, coreFile, dir>>
      /\ up /\ known[k].req # NoEdition
      /\ file' = [file EXCEPT ![NameOf[z]] = z]
      /\ job' = [at |-> "choose", key |-> k, zip |-> NameOf[z], loc |-> NoParent, left |-> {}, open |-> NoFile]
  BY DEF Download, NoJob
<1>2. z \in Zips
  BY <1>1, OfKey DEF Zips
<1>3. NameOf[z] \in Names
  BY <1>2, OwnNames
<1>4. file'[NameOf[z]] = z
  BY <1>1, <1>3 DEF IInv, TypeOK
<1>5. TypeOK'
  <2>1. job' \in Job
    BY <1>1, <1>3 DEF Job, Steps
  <2>2. file' \in [Names -> Zips \cup {<<>>}]
    BY <1>1, <1>2, <1>3 DEF IInv, TypeOK
  <2> QED
    BY <1>1, <2>1, <2>2 DEF IInv, TypeOK
<1>6. Named' /\ Session'
  BY <1>1 DEF IInv, Named, Session
<1>7. Sound'
  BY <1>1, <1>4 DEF Sound, Zip
<1>8. \A q \in Keys : Listed(q)' /\ Dated(q)'
  BY <1>1, ListedKeeps, DatedKeeps
<1> QED
  BY <1>5, <1>6, <1>7, <1>8 DEF IInv

\* The job is given up.
LEMMA EndKeeps ==
    ASSUME IInv, job' = NoJob,
           UNCHANGED <<shop, ready, room, up, known, rec, conf, core, confFile, coreFile, file, dir>>
    PROVE  IInv'
<1>1. TypeOK' /\ Named' /\ Session' /\ Sound'
  BY DEF IInv, TypeOK, Named, Session, Sound, Job
<1>2. \A q \in Keys : Listed(q)' /\ Dated(q)'
  BY ListedKeeps, DatedKeeps
<1> QED
  BY <1>1, <1>2 DEF IInv

LEMMA CancelChoiceKeeps == IInv /\ CancelChoice => IInv'
BY EndKeeps DEF CancelChoice, disk

LEMMA ExtractFailsKeeps == IInv /\ ExtractFails => IInv'
BY EndKeeps DEF ExtractFails, disk

LEMMA ChooseDirKeeps == ASSUME IInv, NEW p \in Parents, ChooseDir(p) PROVE IInv'
<1>1. /\ UNCHANGED <<shop, ready, room, up, known, rec, conf, core, confFile, coreFile, file, dir>>
      /\ up /\ job.at = "choose"
      /\ job' = [job EXCEPT !.at = "extract", !.loc = p, !.left = FilesOf[Zip]]
  BY DEF ChooseDir, disk
<1>2. job # NoJob
  BY <1>1 DEF NoJob
<1>3. job.open = NoFile
  BY <1>1, <1>2 DEF IInv, Sound
<1>4. job' = [at |-> "extract", key |-> job.key, zip |-> job.zip, loc |-> p, left |-> FilesOf[Zip], open |-> NoFile]
  BY <1>1, <1>2, <1>3, Jobs DEF IInv
<1>5. Zip' = Zip
  BY <1>1, <1>4 DEF Zip
<1>6. TypeOK'
  <2>1. FilesOf[Zip] \subseteq Files
    BY <1>2, OfJob, Archives
  <2>2. job' \in Job
    BY <1>2, <1>4, <2>1, OfJob DEF Job, Steps
  <2> QED
    BY <1>1, <2>2 DEF IInv, TypeOK
<1>7. Named' /\ Session'
  BY <1>1 DEF IInv, Named, Session
<1>8. Sound'
  BY <1>1, <1>2, <1>4, <1>5 DEF IInv, Sound
<1> QED
  BY <1>1, <1>6, <1>7, <1>8, ListedKeeps, DatedKeeps DEF IInv

\* The job is past the choice of a directory.
LEMMA OfTarget ==
    ASSUME IInv, job # NoJob, job.at # "choose"
    PROVE  /\ Target \in Dirs /\ job.loc \in Parents
           /\ Target[2] = NameOf[<<job.key, known[job.key].req>>]
           /\ FilesOf[Zip] \subseteq Files
<1>1. job.loc \in Parents
  BY DEF IInv, Sound
<1> QED
  BY <1>1, OfJob, Archives DEF Target, Dirs

\* A record whose directory is that of the job is of its edition, or out of date.
LEMMA Overwritten ==
    ASSUME IInv, job # NoJob, job.at # "choose",
           NEW k \in Keys, NEW r \in {rec[k], confFile[k]}, r # NoRecord, Place(r) = Target
    PROVE  k = job.key /\ (r.ed = known[k].req \/ r.ed < known[k].req)
<1>1. k = job.key
  BY OfJob, OfTarget, Apart
<1>2. r.ed <= known[k].req /\ known[k].req \in Nat /\ r.ed \in Nat
  BY <1>1, InOrder, OfKey
<1> QED
  BY <1>1, <1>2

\* A file of the job's archive is written into its directory.
LEMMA WriteKeeps ==
    ASSUME IInv, job # NoJob, job.at # "choose", NEW f \in Files, NEW whole \in BOOLEAN,
           dir' = [dir EXCEPT ![Target][f] = [zip |-> Zip, whole |-> whole]],
           UNCHANGED <<shop, ready, room, up, known, rec, confFile>>
    PROVE  /\ dir' \in [Dirs -> [Files -> Content]]
           /\ dir'[Target][f] = [zip |-> Zip, whole |-> whole]
           /\ \A e \in Dirs, g \in Files : e # Target \/ g # f => dir'[e][g] = dir[e][g]
           /\ Named'
           /\ \A k \in Keys : Dated(k)'
<1> DEFINE c == [zip |-> Zip, whole |-> whole]
<1>1. Zip = <<job.key, known[job.key].req>> /\ Zip \in Zips /\ NameOf[Zip] = Target[2] /\ Target \in Dirs
  BY OfJob, OfTarget
<1>2. c \in Content /\ dir' = [dir EXCEPT ![Target][f] = c]
  BY <1>1 DEF Content
<1> HIDE DEF c
<1>3. /\ dir' \in [Dirs -> [Files -> Content]]
      /\ dir'[Target][f] = c
      /\ \A e \in Dirs, g \in Files : e # Target \/ g # f => dir'[e][g] = dir[e][g]
  <2>1. TypeOK /\ Target \in Dirs
    BY <1>1 DEF IInv
  <2>2. ASSUME NEW d \in Dirs, d = Target
        PROVE  /\ dir' \in [Dirs -> [Files -> Content]]
               /\ dir'[d][f] = c
               /\ \A e \in Dirs, g \in Files : e # d \/ g # f => dir'[e][g] = dir[e][g]
    <3>1. dir' = [dir EXCEPT ![d][f] = c]
      BY <1>2, <2>2
    <3> QED
      BY <1>2, <2>1, <3>1 DEF TypeOK
  <2> QED
    BY <2>1, <2>2
<1>4. Named'
  BY <1>1, <1>3 DEF IInv, Named, c
<1>5. ASSUME NEW k \in Keys, NEW r \in {rec[k], confFile[k]}, r # NoRecord, Holds(k, r, dir)
      PROVE  \/ Holds(k, r, dir')
             \/ k = job.key /\ r.ed < known[k].req
  <2>1. Place(r) \in Dirs /\ <<k, r.ed>> \in Zips /\ FilesOf[<<k, r.ed>>] \subseteq Files
    BY <1>5, OfRecord, Archives
  <2>2. CASE Place(r) # Target
    BY <1>3, <1>5, <2>1, <2>2 DEF Holds
  <2>3. CASE Place(r) = Target
    <3>1. k = job.key /\ (r.ed = known[k].req \/ r.ed < known[k].req)
      BY <1>5, <2>3, Overwritten
    <3>2. CASE r.ed = known[k].req
      <4>1. <<k, r.ed>> = Zip
        BY <1>1, <3>1, <3>2
      <4> QED
        BY <1>3, <1>5, <2>1, <2>3, <4>1 DEF Holds, c
    <3> QED
      BY <3>1, <3>2
  <2> QED
    BY <2>2, <2>3
<1>6. ASSUME NEW k \in Keys PROVE Dated(k)'
  <2>1. k = job.key => /\ known[k].cur # NoEdition /\ known[k].req <= known[k].cur /\ known[k].req <= shop[k]
    BY InOrder
  <2>2. /\ known[k].req \in Nat /\ known[k].cur \in Nat /\ shop[k] \in Nat
        /\ rec[k].ed \in Nat /\ confFile[k].ed \in Nat /\ Dated(k)
    BY OfKey
  <2>3. rec[k] # NoRecord => \/ Holds(k, rec[k], dir')
                             \/ rec[k].ed < IF known[k].cur = NoEdition THEN shop[k] ELSE known[k].cur
    <3> SUFFICES ASSUME rec[k] # NoRecord, Holds(k, rec[k], dir), k = job.key, rec[k].ed < known[k].req
                 PROVE  rec[k].ed < IF known[k].cur = NoEdition THEN shop[k] ELSE known[k].cur
      BY <1>5, <2>2 DEF Dated
    <3> QED
      BY <2>1, <2>2
  <2>4. confFile[k] # NoRecord => \/ Holds(k, confFile[k], dir')
                                  \/ confFile[k].ed < shop[k]
    <3> SUFFICES ASSUME confFile[k] # NoRecord, Holds(k, confFile[k], dir), k = job.key, confFile[k].ed < known[k].req
                 PROVE  confFile[k].ed < shop[k]
      BY <1>5, <2>2 DEF Dated
    <3> QED
      BY <2>1, <2>2
  <2> QED
    BY <2>3, <2>4 DEF Dated
<1> QED
  BY <1>3, <1>4, <1>6 DEF c

LEMMA OpenFileKeeps == ASSUME IInv, NEW f \in Files, OpenFile(f) PROVE IInv'
<1>1. /\ UNCHANGED <<shop, ready, room, up, known, rec, conf, core, confFile, coreFile, file>>
      /\ up /\ job.at = "extract" /\ job.open = NoFile /\ f \in job.left
      /\ job' = [job EXCEPT !.left = @ \ {f}, !.open = f]
      /\ dir' = [dir EXCEPT ![Target][f] = [zip |-> Zip, whole |-> FALSE]]
  BY DEF OpenFile
<1>2. job # NoJob /\ job.at # "choose"
  BY <1>1 DEF NoJob
<1>3. job' = [at |-> "extract", key |-> job.key, zip |-> job.zip, loc |-> job.loc, left |-> job.left \ {f}, open |-> f]
  BY <1>1, <1>2, Jobs DEF IInv
<1>4. /\ dir' \in [Dirs -> [Files -> Content]]
      /\ dir'[Target][f] = [zip |-> Zip, whole |-> FALSE]
      /\ \A e \in Dirs, g \in Files : e # Target \/ g # f => dir'[e][g] = dir[e][g]
      /\ Named'
      /\ \A k \in Keys : Dated(k)'
  BY <1>1, <1>2, WriteKeeps
<1>5. Zip' = Zip /\ Target' = Target
  BY <1>1, <1>3 DEF Zip, Target
<1>6. TypeOK'
  <2>1. job' \in Job
    BY <1>2, <1>3, OfJob, OfTarget, Jobs DEF Job, Steps, IInv
  <2> QED
    BY <1>1, <1>4, <2>1 DEF IInv, TypeOK
<1>7. Session'
  BY <1>1 DEF IInv, Session
<1>8. Sound'
  <2>1. ASSUME NEW g \in FilesOf[Zip] PROVE g \in job.left \ {f} \/ Fresh(g)'
    <3>1. g \in Files /\ Target \in Dirs
      BY <1>2, <2>1, OfTarget
    <3>2. CASE g = f
      BY <1>3, <1>4, <1>5, <3>2 DEF Fresh
    <3>3. CASE g # f
      <4>1. g \in job.left \/ Fresh(g)
        BY <1>2, <2>1 DEF IInv, Sound
      <4> QED
        BY <1>1, <1>4, <1>5, <3>1, <3>3, <4>1, StoreAssumption DEF Fresh
    <3> QED
      BY <3>2, <3>3
  <2>2. job' # NoJob /\ job'.at = "extract" /\ job'.open = f /\ job'.left = job.left \ {f}
        /\ job'.key = job.key /\ job'.zip = job.zip /\ job'.loc = job.loc
    BY <1>3 DEF NoJob
  <2>3. /\ known[job.key].req # NoEdition /\ job.zip = NameOf[<<job.key, known[job.key].req>>]
        /\ Zip = <<job.key, known[job.key].req>> /\ job.loc \in Parents
    BY <1>2 DEF IInv, Sound
  <2> QED
    BY <1>1, <1>4, <1>5, <2>1, <2>2, <2>3 DEF Sound
<1> QED
  BY <1>1, <1>4, <1>6, <1>7, <1>8, ListedKeeps DEF IInv

LEMMA ReadFileKeeps == IInv /\ ReadFile => IInv'
<1> SUFFICES ASSUME IInv, ReadFile PROVE IInv'
  OBVIOUS
<1> DEFINE f == job.open
<1>1. /\ UNCHANGED <<shop, ready, room, up, known, rec, conf, core, confFile, coreFile, file>>
      /\ up /\ job.at = "extract" /\ f # NoFile
      /\ job' = [job EXCEPT !.open = NoFile]
  BY DEF ReadFile
<1>2. PICK whole \in {TRUE, room} : dir' = [dir EXCEPT ![Target][f] = [zip |-> Zip, whole |-> whole]]
  BY DEF ReadFile
<1>3. job # NoJob /\ job.at # "choose"
  BY <1>1 DEF NoJob
<1>4. f \in Files /\ whole \in BOOLEAN /\ (room => whole)
  BY <1>1, <1>2, <1>3, Jobs DEF IInv, TypeOK
<1>5. job' = [at |-> "extract", key |-> job.key, zip |-> job.zip, loc |-> job.loc, left |-> job.left, open |-> NoFile]
  BY <1>1, <1>3, Jobs DEF IInv
<1>6. /\ dir' \in [Dirs -> [Files -> Content]]
      /\ dir'[Target][f] = [zip |-> Zip, whole |-> whole]
      /\ \A e \in Dirs, g \in Files : e # Target \/ g # f => dir'[e][g] = dir[e][g]
      /\ Named'
      /\ \A k \in Keys : Dated(k)'
  BY <1>1, <1>2, <1>3, <1>4, WriteKeeps
<1>7. Zip' = Zip /\ Target' = Target
  BY <1>1, <1>5 DEF Zip, Target
<1>8. TypeOK'
  <2>1. job' \in Job
    BY <1>3, <1>5, OfJob, OfTarget, Jobs DEF Job, Steps, IInv
  <2> QED
    BY <1>1, <1>6, <2>1 DEF IInv, TypeOK
<1>9. Session'
  BY <1>1 DEF IInv, Session
<1>10. Sound'
  <2>1. ASSUME NEW g \in FilesOf[Zip] PROVE g \in job.left \/ Fresh(g)'
    <3>1. g \in Files /\ Target \in Dirs
      BY <1>3, <2>1, OfTarget
    <3>2. CASE g = f
      BY <1>1, <1>4, <1>6, <1>7, <3>2 DEF Fresh
    <3>3. CASE g # f
      <4>1. g \in job.left \/ Fresh(g)
        BY <1>3, <2>1 DEF IInv, Sound
      <4> QED
        BY <1>1, <1>6, <1>7, <3>1, <3>3, <4>1 DEF Fresh
    <3> QED
      BY <3>2, <3>3
  <2>2. job' # NoJob /\ job'.at = "extract" /\ job'.open = NoFile /\ job'.left = job.left
        /\ job'.key = job.key /\ job'.zip = job.zip /\ job'.loc = job.loc
    BY <1>5 DEF NoJob
  <2>3. /\ known[job.key].req # NoEdition /\ job.zip = NameOf[<<job.key, known[job.key].req>>]
        /\ Zip = <<job.key, known[job.key].req>> /\ job.loc \in Parents
    BY <1>3 DEF IInv, Sound
  <2> QED
    BY <1>1, <1>7, <2>1, <2>2, <2>3 DEF Sound
<1> QED
  BY <1>1, <1>6, <1>8, <1>9, <1>10, ListedKeeps DEF IInv

LEMMA ExtractedKeeps == IInv /\ Extracted => IInv'
<1> SUFFICES ASSUME IInv, Extracted PROVE IInv'
  OBVIOUS
<1> DEFINE old  == IF IsUpdate(job.key) THEN Present(OldDir(job.key)) ELSE {}
           next == IF old = {} THEN "record" ELSE "retire"
<1>1. /\ UNCHANGED <<shop, ready, room, up, known, rec, conf, confFile, coreFile, file, dir>>
      /\ up /\ job.at = "extract" /\ job.open = NoFile /\ job.left = {}
      /\ core' = IF Covered(Target) THEN core ELSE core \cup {Target}
      /\ job' = [job EXCEPT !.left = old, !.at = next]
  BY DEF Extracted, disk
<1>2. job # NoJob /\ job.at # "choose"
  BY <1>1 DEF NoJob
<1>3. job' = [at |-> next, key |-> job.key, zip |-> job.zip, loc |-> job.loc, left |-> old, open |-> NoFile]
  BY <1>1, <1>2, Jobs DEF IInv
<1>4. TypeOK'
  <2>1. old \subseteq Files
    BY DEF Present
  <2>2. job' \in Job
    BY <1>2, <1>3, <2>1, OfJob, OfTarget DEF Job, Steps
  <2>3. core' \subseteq Parents \cup Dirs
    BY <1>1, <1>2, OfTarget DEF IInv, TypeOK
  <2> QED
    BY <1>1, <2>2, <2>3 DEF IInv, TypeOK
<1>5. Named' /\ Session'
  BY <1>1 DEF IInv, Named, Session
<1>6. Sound'
  <2>1. Zip' = Zip /\ Target' = Target /\ \A k : OldDir(k)' = OldDir(k)
    BY <1>1, <1>3 DEF Zip, Target, OldDir
  <2>2. ASSUME NEW g \in FilesOf[Zip] PROVE Fresh(g)'
    <3>1. Fresh(g)
      BY <1>1, <1>2, <2>2 DEF IInv, Sound
    <3> QED
      BY <1>1, <1>3, <2>1, <3>1 DEF Fresh
  <2>3. next = "retire" =>
            rec[job.key] # NoRecord /\ rec[job.key].ed # known[job.key].req /\ OldDir(job.key) # Target
    BY DEF IsUpdate
  <2>4. job' # NoJob /\ job'.at = next /\ job'.open = NoFile
        /\ job'.key = job.key /\ job'.zip = job.zip /\ job'.loc = job.loc
    BY <1>3 DEF NoJob
  <2>5. /\ known[job.key].req # NoEdition /\ job.zip = NameOf[<<job.key, known[job.key].req>>]
        /\ Zip = <<job.key, known[job.key].req>> /\ job.loc \in Parents
    BY <1>2 DEF IInv, Sound
  <2> QED
    BY <1>1, <2>1, <2>2, <2>3, <2>4, <2>5 DEF Sound
<1> QED
  BY <1>1, <1>4, <1>5, <1>6, ListedKeeps, DatedKeeps DEF IInv

LEMMA RetireFileKeeps == ASSUME IInv, NEW f \in Files, RetireFile(f) PROVE IInv'
<1> DEFINE old  == OldDir(job.key)
           next == IF job.left = {f} THEN "record" ELSE "retire"
<1>1. /\ UNCHANGED <<shop, ready, room, up, known, rec, conf, core, confFile, coreFile, file>>
      /\ up /\ job.at = "retire"
      /\ dir' = [dir EXCEPT ![old][f] = Absent] \/ dir' = dir
      /\ job' = [job EXCEPT !.left = @ \ {f}, !.at = next]
  BY DEF RetireFile
<1>2. job # NoJob /\ job.at # "choose"
  BY <1>1 DEF NoJob
<1>3. job.open = NoFile
  BY <1>1, <1>2 DEF IInv, Sound
<1>4. job' = [at |-> next, key |-> job.key, zip |-> job.zip, loc |-> job.loc, left |-> job.left \ {f}, open |-> NoFile]
  BY <1>1, <1>2, <1>3, Jobs DEF IInv
<1>5. rec[job.key] # NoRecord /\ rec[job.key].ed # known[job.key].req /\ old # Target
  BY <1>1, <1>2 DEF IInv, Sound
<1>6. <<job.key, rec[job.key].ed>> \in Zips /\ old[2] = NameOf[<<job.key, rec[job.key].ed>>] /\ old \in Dirs
  BY <1>2, <1>5, OfJob, OfRecord DEF OldDir, Place
<1>7. /\ dir' \in [Dirs -> [Files -> Content]]
      /\ dir'[old][f] \in {Absent, dir[old][f]}
      /\ \A e \in Dirs, g \in Files : e # old \/ g # f => dir'[e][g] = dir[e][g]
  <2>1. CASE dir' = dir
    BY <2>1 DEF IInv, TypeOK
  <2>2. CASE dir' = [dir EXCEPT ![old][f] = Absent]
    BY <1>6, <2>2 DEF IInv, TypeOK, Content
  <2> QED
    BY <1>1, <2>1, <2>2
<1>8. TypeOK'
  <2>1. job' \in Job
    BY <1>2, <1>4, OfJob, OfTarget, Jobs DEF Job, Steps, IInv
  <2> QED
    BY <1>1, <1>7, <2>1 DEF IInv, TypeOK
<1>9. Named' /\ Session'
  <2>1. ASSUME NEW d \in Dirs, NEW g \in Files, dir'[d][g].zip # <<>> PROVE NameOf[dir'[d][g].zip] = d[2]
    <3>1. dir'[d][g] = dir[d][g]
      BY <1>7, <2>1 DEF Absent
    <3> QED
      BY <2>1, <3>1 DEF IInv, Named
  <2> QED
    BY <1>1, <2>1 DEF IInv, Named, Session
<1>10. Sound'
  <2>1. Zip' = Zip /\ Target' = Target /\ \A k : OldDir(k)' = OldDir(k)
    BY <1>1, <1>4 DEF Zip, Target, OldDir
  <2>2. ASSUME NEW g \in FilesOf[Zip] PROVE Fresh(g)'
    <3>1. Fresh(g) /\ g \in Files /\ Target \in Dirs
      BY <1>1, <1>2, <2>2, OfTarget DEF IInv, Sound
    <3> QED
      BY <1>1, <1>3, <1>4, <1>5, <1>7, <2>1, <3>1 DEF Fresh
  <2>3. job' # NoJob /\ job'.at \in {"retire", "record"} /\ job'.open = NoFile
        /\ job'.key = job.key /\ job'.zip = job.zip /\ job'.loc = job.loc
    BY <1>4 DEF NoJob
  <2>4. /\ known[job.key].req # NoEdition /\ job.zip = NameOf[<<job.key, known[job.key].req>>]
        /\ Zip = <<job.key, known[job.key].req>> /\ job.loc \in Parents
    BY <1>2 DEF IInv, Sound
  <2> QED
    BY <1>1, <1>5, <2>1, <2>2, <2>3, <2>4 DEF Sound
<1>11. ASSUME NEW k \in Keys, k # job.key PROVE Dated(k)'
  <2>1. \A r \in {rec[k], confFile[k]} : r # NoRecord =>
            \A g \in FilesOf[<<k, r.ed>>] : dir'[Place(r)][g] = dir[Place(r)][g]
    <3> TAKE r \in {rec[k], confFile[k]}
    <3> HAVE r # NoRecord
    <3>1. Place(r) \in Dirs /\ FilesOf[<<k, r.ed>>] \subseteq Files
      BY OfRecord, Archives
    <3>2. Place(r) # old
      BY <1>6, <1>11, Apart
    <3> QED
      BY <1>7, <3>1, <3>2
  <2>2. \A r \in {rec[k], confFile[k]} : r # NoRecord /\ Holds(k, r, dir) => Holds(k, r, dir')
    BY <2>1 DEF Holds
  <2> QED
    BY <1>1, <2>2, OfKey DEF Dated
<1>12. Dated(job.key)'
  <2> DEFINE k == job.key
  <2>1. k \in Keys /\ known[k].req \in Nat /\ known[k].cur \in Nat /\ shop[k] \in Nat
        /\ rec[k].ed \in Nat /\ confFile[k].ed \in Nat /\ Listed(k)
    BY <1>2, OfJob, OfKey
  <2>2. /\ known[k].req <= known[k].cur /\ known[k].cur # NoEdition /\ known[k].req <= shop[k]
        /\ rec[k].ed < known[k].req
    BY <1>2, <1>5, <2>1, InOrder
  <2>3. confFile[k].ed <= rec[k].ed
    BY <1>1, <2>1 DEF Listed
  <2>4. UNCHANGED <<shop, known, rec, confFile>>
    BY <1>1
  <2>5. job'.key = k
    BY <1>4
  <2> QED
    BY <2>1, <2>2, <2>3, <2>4, <2>5 DEF Dated
<1> QED
  BY <1>1, <1>8, <1>9, <1>10, <1>11, <1>12, ListedKeeps DEF IInv

LEMMA RecordItKeeps == IInv /\ RecordIt => IInv'
<1> SUFFICES ASSUME IInv, RecordIt PROVE IInv'
  OBVIOUS
<1> DEFINE j == job.key
           new == Installed(job.key)
<1>1. /\ UNCHANGED <<shop, ready, room, up, known, core, confFile, coreFile, dir>>
      /\ up /\ job.at = "record"
      /\ rec' = [rec EXCEPT ![j] = new] /\ conf' = rec' /\ job' = NoJob
      /\ file' = [file EXCEPT ![job.zip] = <<>>]
  BY DEF RecordIt
<1>2. job # NoJob /\ job.at # "choose"
  BY <1>1 DEF NoJob
<1>3. /\ j \in Keys /\ known[j].req \in Editions /\ job.zip \in Names /\ job.loc \in Parents
      /\ job.zip = NameOf[<<j, known[j].req>>]
      /\ \A f \in FilesOf[<<j, known[j].req>>] : dir[Target][f].zip = <<j, known[j].req>>
  BY <1>1, <1>2, OfJob, OfTarget DEF IInv, Sound, Fresh
<1>4. new = [loc |-> job.loc, zip |-> job.zip, ed |-> known[j].req]
  BY DEF Installed
<1>5. rec'[j] = new /\ \A k \in Keys : k # j => rec'[k] = rec[k]
  BY <1>1, <1>3 DEF IInv, TypeOK
<1>6. TypeOK'
  <2>1. new \in Record
    BY <1>3, <1>4 DEF Record
  <2>2. rec' \in [Keys -> Record]
    BY <1>1, <2>1 DEF IInv, TypeOK
  <2>3. file' \in [Names -> Zips \cup {<<>>}]
    BY <1>1 DEF IInv, TypeOK
  <2> QED
    BY <1>1, <2>2, <2>3 DEF IInv, TypeOK, Job
<1>7. Named'
  BY <1>1, <1>3, <1>4, <1>5 DEF IInv, Named
<1>8. Session' /\ Sound'
  BY <1>1 DEF IInv, Session, Sound
<1>9. ASSUME NEW k \in Keys PROVE Listed(k)' /\ Dated(k)'
  <2>1. CASE k # j
    BY <1>1, <1>5, <2>1, OfKey DEF Listed, Dated
  <2>2. CASE k = j
    <3>1. new.ed = known[k].req /\ Place(new) = Target /\ known[k].req \in Nat
      BY <1>3, <1>4, <2>2, OfKey DEF Place, Target
    <3>2. Listed(k)'
      BY <1>1, <1>2, <1>5, <2>2, <3>1, OfKey, InOrder DEF Listed
    <3>3. Holds(k, new, dir)
      BY <1>3, <2>2, <3>1 DEF Holds
    <3>4. Dated(k)'
      BY <1>1, <1>5, <2>2, <3>3, OfKey DEF Dated
    <3> QED
      BY <3>2, <3>4
  <2> QED
    BY <2>1, <2>2
<1> QED
  BY <1>6, <1>7, <1>8, <1>9 DEF IInv

LEMMA NextKeeps == IInv /\ [Next]_vars => IInv'
<1> SUFFICES ASSUME IInv, [Next]_vars PROVE IInv'
  OBVIOUS
<1>1. CASE Install
  BY <1>1, DownloadKeeps, CancelChoiceKeeps, ChooseDirKeeps, OpenFileKeeps, ReadFileKeeps, ExtractFailsKeeps,
     ExtractedKeeps, RetireFileKeeps, RecordItKeeps DEF Install
<1>2. CASE Refresh \/ Flush \/ Quit \/ Crash \/ Start
  BY <1>2, RefreshKeeps, FlushKeeps, QuitKeeps, CrashKeeps, StartKeeps
<1>3. CASE \E k \in Keys : Publish(k) \/ Prepare(k)
  BY <1>3, PublishKeeps, PrepareKeeps
<1>4. CASE UNCHANGED vars
  <2>1. UNCHANGED <<shop, ready, room, up, known, rec, conf, core, job, confFile, coreFile, file, dir>>
    BY <1>4 DEF vars, memory, disk
  <2>2. TypeOK' /\ Named' /\ Session' /\ Sound'
    BY <2>1 DEF IInv, TypeOK, Named, Session, Sound, Fresh, Zip, Target, OldDir
  <2>3. \A q \in Keys : Listed(q)' /\ Dated(q)'
    BY <2>1, ListedKeeps, DatedKeeps
  <2> QED
    BY <2>2, <2>3 DEF IInv
<1> QED
  BY <1>1, <1>2, <1>3, <1>4 DEF Next

LEMMA Invariance == Spec => []IInv
BY InitIInv, NextKeeps, PTL DEF Spec

-----------------------------------------------------------------------------
\* In each of its copies a record is empty or of one installation, after any crash: what
\* loadShopConfig puts together from memory and configuration is whole.
THEOREM RecordsAreWhole == Spec => []TypeOK
<1>1. IInv => TypeOK
  BY DEF IInv
<1> QED
  BY <1>1, Invariance, PTL

\* Every file of a chart set displayed as current is in the directory on record, and is
\* of that edition, whatever was extracted over it, moved, removed or cut short by a
\* crash (doUnzip, ExtractZipFiles, loadShopConfig).
THEOREM CurrentIsInstalled == Spec => []CurrentIsThere
<1>1. IInv => CurrentIsThere
  <2> SUFFICES ASSUME IInv, NEW k \in Keys, rec[k] # NoRecord, rec[k].ed = known[k].cur
               PROVE  \A f \in FilesOf[<<k, rec[k].ed>>] : dir[Place(rec[k])][f].zip = <<k, rec[k].ed>>
    BY DEF CurrentIsThere
  <2>1. rec[k].ed # NoEdition /\ rec[k].ed \in Nat
    BY OfKey, Records
  <2>2. Holds(k, rec[k], dir)
    BY <2>1, OfKey DEF Dated
  <2> QED
    BY <2>2 DEF Holds
<1> QED
  BY <1>1, Invariance, PTL

-----------------------------------------------------------------------------
\* The last whole copy

Kept == \A k \in Keys : room /\ HasWhole(k) /\ ~HasWhole(k)' =>
            job.key = k /\ job.open = NoFile /\ job'.open # NoFile

\* A directory with a whole copy is named as its archive.
LEMMA WholeIsNamed ==
    ASSUME IInv, NEW d \in Dirs, NEW z \in Zips, Whole(d, z)
    PROVE  NameOf[z] = d[2]
<1>1. PICK f \in Files : f \in FilesOf[z]
  BY Archives
<1>2. dir[d][f].zip = z /\ z # <<>>
  BY <1>1, Pairs DEF Whole
<1> QED
  BY <1>2 DEF IInv, Named

\* A whole copy that is not touched is still one.
LEMMA WholeStays ==
    ASSUME NEW k \in Keys, NEW d \in Dirs, NEW e \in Editions, Whole(d, <<k, e>>),
           \A f \in FilesOf[<<k, e>>] : dir'[d][f] = dir[d][f]
    PROVE  HasWhole(k)'
BY DEF HasWhole, Whole

LEMMA OpenFileKept == ASSUME IInv, NEW f \in Files, OpenFile(f) PROVE Kept
<1> SUFFICES ASSUME NEW k \in Keys, HasWhole(k), ~HasWhole(k)'
             PROVE  job.key = k /\ job.open = NoFile /\ job'.open # NoFile
  BY DEF Kept
<1>1. /\ job.at = "extract" /\ job.open = NoFile
      /\ job' = [job EXCEPT !.left = @ \ {f}, !.open = f]
      /\ dir' = [dir EXCEPT ![Target][f] = [zip |-> Zip, whole |-> FALSE]]
      /\ UNCHANGED <<shop, ready, room, up, known, rec, confFile>>
  BY DEF OpenFile
<1>2. job # NoJob /\ job.at # "choose"
  BY <1>1 DEF NoJob
<1>3. PICK d \in Dirs, e \in Editions : Whole(d, <<k, e>>)
  BY DEF HasWhole
<1>4. <<k, e>> \in Zips /\ FilesOf[<<k, e>>] \subseteq Files
  BY Archives DEF Zips
<1>5. d = Target
  <2>1. \A c \in Dirs, g \in Files : c # Target \/ g # f => dir'[c][g] = dir[c][g]
    BY <1>1, <1>2, WriteKeeps
  <2> QED
    BY <1>3, <1>4, <2>1, WholeStays
<1>6. <<job.key, known[job.key].req>> \in Zips /\ NameOf[<<job.key, known[job.key].req>>] = NameOf[<<k, e>>]
  BY <1>2, <1>3, <1>4, <1>5, OfJob, OfTarget, WholeIsNamed
<1>7. job.key = k
  BY <1>4, <1>6, OwnNames
<1>8. job'.open = f
  BY <1>1, <1>2, Jobs DEF IInv
<1> QED
  BY <1>1, <1>7, <1>8, StoreAssumption

\* The file written was a cut one, so no copy that was whole is changed.
LEMMA ReadFileKept == IInv /\ ReadFile => Kept
<1> SUFFICES ASSUME IInv, ReadFile, NEW k \in Keys, HasWhole(k) PROVE HasWhole(k)'
  BY DEF Kept
<1> DEFINE f == job.open
<1>1. /\ job.at = "extract" /\ f # NoFile
      /\ UNCHANGED <<shop, ready, room, up, known, rec, confFile>>
  BY DEF ReadFile
<1>2. PICK whole \in {TRUE, room} : dir' = [dir EXCEPT ![Target][f] = [zip |-> Zip, whole |-> whole]]
  BY DEF ReadFile
<1>3. job # NoJob /\ job.at # "choose"
  BY <1>1 DEF NoJob
<1>4. f \in Files /\ whole \in BOOLEAN
  BY <1>1, <1>2, <1>3, Jobs DEF IInv, TypeOK
<1>5. \A e \in Dirs, g \in Files : e # Target \/ g # f => dir'[e][g] = dir[e][g]
  BY <1>1, <1>2, <1>3, <1>4, WriteKeeps
<1>6. ~dir[Target][f].whole
  BY <1>1, <1>3 DEF IInv, Sound
<1>7. PICK d \in Dirs, e \in Editions : Whole(d, <<k, e>>)
  BY DEF HasWhole
<1>8. <<k, e>> \in Zips /\ FilesOf[<<k, e>>] \subseteq Files
  BY Archives DEF Zips
<1>9. \A g \in FilesOf[<<k, e>>] : dir'[d][g] = dir[d][g]
  <2> TAKE g \in FilesOf[<<k, e>>]
  <2>1. dir[d][g].whole
    BY <1>7 DEF Whole
  <2> QED
    BY <1>5, <1>6, <1>8, <2>1
<1> QED
  BY <1>7, <1>9, WholeStays

\* The directory whose file is removed holds, if any, the chart set of the job; and of
\* that there is a whole copy in the directory of the job.
LEMMA RetireFileKept == ASSUME IInv, NEW f \in Files, RetireFile(f) PROVE Kept
<1> DEFINE j == job.key
           z == <<job.key, known[job.key].req>>
<1> SUFFICES ASSUME NEW k \in Keys, room, HasWhole(k) PROVE HasWhole(k)'
  BY DEF Kept
<1>1. job.at = "retire" /\ (dir' = [dir EXCEPT ![OldDir(j)][f] = Absent] \/ dir' = dir)
  BY DEF RetireFile
<1>2. job # NoJob /\ job.at # "choose"
  BY <1>1 DEF NoJob
<1>3. \A d \in Dirs : d # OldDir(j) => dir'[d] = dir[d]
  BY <1>1 DEF IInv, TypeOK
<1>4. PICK d \in Dirs, e \in Editions : Whole(d, <<k, e>>)
  BY DEF HasWhole
<1>5. CASE d # OldDir(j)
  BY <1>3, <1>4, <1>5, WholeStays
<1>6. CASE d = OldDir(j)
  <2>1. rec[j] # NoRecord /\ OldDir(j) # Target
    BY <1>1, <1>2 DEF IInv, Sound
  <2>2. <<k, e>> \in Zips /\ NameOf[<<k, e>>] = d[2]
    BY <1>4, WholeIsNamed DEF Zips
  <2>3. <<j, rec[j].ed>> \in Zips /\ NameOf[<<j, rec[j].ed>>] = d[2]
    BY <1>2, <1>6, <2>1, OfJob, OfRecord DEF OldDir
  <2>4. k = j
    BY <2>2, <2>3, OwnNames
  <2>5. Target \in Dirs /\ FilesOf[z] \subseteq Files /\ Zip = z /\ known[j].req \in Editions
    BY <1>2, OfJob, OfTarget
  <2>6. Whole(Target, z)
    <3> SUFFICES ASSUME NEW g \in FilesOf[z] PROVE dir[Target][g] = [zip |-> z, whole |-> TRUE]
      BY DEF Whole
    <3>1. Fresh(g) /\ job.open = NoFile
      BY <1>1, <1>2, <2>5 DEF IInv, Sound
    <3>2. dir[Target][g].zip = z /\ dir[Target][g].whole
      BY <2>5, <3>1, StoreAssumption DEF Fresh
    <3>3. dir[Target][g] \in Content
      BY <2>5 DEF IInv, TypeOK
    <3> QED
      BY <3>2, <3>3 DEF Content, Absent
  <2> QED
    BY <1>3, <2>1, <2>4, <2>5, <2>6, WholeStays
<1> QED
  BY <1>5, <1>6

\* As long as the disk has room, no removal and no crash takes the last whole copy of a
\* chart set: the files of the edition before go only when all of the new one are
\* whole, in a directory of its own (doUnzip).
THEOREM LastCopyIsKept == Spec => LastCopyKept
<1>1. IInv /\ [Next]_vars => [Kept]_vars
  <2> SUFFICES ASSUME IInv, Next PROVE Kept
    OBVIOUS
  <2>1. CASE dir' = dir
    BY <2>1 DEF Kept, HasWhole, Whole
  <2>2. CASE \E f \in Files : OpenFile(f) \/ RetireFile(f)
    BY <2>2, OpenFileKept, RetireFileKept
  <2>3. CASE ReadFile
    BY <2>3, ReadFileKept
  <2>4. \/ dir' = dir
        \/ \E f \in Files : OpenFile(f) \/ RetireFile(f)
        \/ ReadFile
    BY DEF Next, Install, Refresh, Download, CancelChoice, ChooseDir, ExtractFails, Extracted, RecordIt,
           Flush, Quit, Crash, Start, Publish, Prepare, disk
  <2> QED
    BY <2>1, <2>2, <2>3, <2>4
<1>2. []IInv /\ [][Next]_vars => [][Kept]_vars
  BY <1>1, PTL
<1>3. [][Kept]_vars => LastCopyKept
  BY DEF LastCopyKept, Kept
<1> QED
  BY <1>2, <1>3, Invariance, PTL DEF Spec

-----------------------------------------------------------------------------
\* What is scanned

\* Past its extraction, the directory of the job is scanned too.
ScanInv == /\ InstalledIsScanned
           /\ job.at \in {"retire", "record"} => Scanned(Target, core)

LEMMA ScanKeeps ==
    ASSUME Prefixes = {}, IInv, ScanInv, [Next]_vars
    PROVE  ScanInv'
<1> USE DEF Scanned
<1>1. CASE /\ UNCHANGED <<rec, core, confFile, coreFile>>
           /\ job' = job \/ job'.at \in {"idle", "choose", "extract"}
  BY <1>1 DEF ScanInv, InstalledIsScanned, Target
<1>2. CASE Refresh
  <2>1. rec' = rec
    <3>1. \A k \in Keys : Loaded(rec[k], conf[k]) = rec[k]
      BY OfKey, LoadedIsConf DEF IInv, Session
    <3> QED
      BY <1>2, <3>1 DEF Refresh, AllLoaded, IInv, TypeOK
  <2> QED
    BY <1>2, <2>1 DEF Refresh, disk, ScanInv, InstalledIsScanned, Target
<1>3. CASE \E p \in Parents : ChooseDir(p)
  <2>1. job'.at = "extract"
    BY <1>3, Jobs DEF ChooseDir, IInv, NoJob
  <2> QED
    BY <1>3, <2>1, <1>1 DEF ChooseDir, disk
<1>4. CASE Extracted
  <2>2. Target' = Target
    BY <1>4, Jobs DEF Extracted, NoJob, Target, IInv
  <2>3. Scanned(Target, core')
    BY <1>4 DEF Extracted, Covered
  <2>4. core \subseteq core' /\ UNCHANGED <<rec, confFile, coreFile>>
    BY <1>4 DEF Extracted, disk
  <2>5. InstalledIsScanned'
    BY <2>4 DEF ScanInv, InstalledIsScanned
  <2>6. Scanned(Target, core)'
    BY <2>2, <2>3
  <2> QED
    BY <2>5, <2>6 DEF ScanInv
<1>5. CASE \E f \in Files : RetireFile(f)
  <2>1. PICK f \in Files : RetireFile(f)
    BY <1>5
  <2>2. Scanned(Target, core) /\ UNCHANGED <<rec, core, confFile, coreFile>>
    BY <2>1 DEF RetireFile, ScanInv
  <2>3. Target' = Target
    BY <2>1, Jobs DEF RetireFile, NoJob, Target, IInv
  <2> QED
    BY <2>2, <2>3 DEF ScanInv, InstalledIsScanned
<1>6. CASE RecordIt
  <2>1. /\ job' = NoJob /\ UNCHANGED <<core, confFile, coreFile>> /\ Scanned(Target, core)
        /\ rec' = [rec EXCEPT ![job.key] = Installed(job.key)]
    BY <1>6 DEF RecordIt, ScanInv
  <2>2. Place(Installed(job.key)) = Target
    BY DEF Place, Installed, Target
  <2>3. \A k \in Keys : rec'[k] = rec[k] \/ rec'[k] = Installed(job.key)
    BY <2>1 DEF IInv, TypeOK
  <2>4. \A k \in Keys : rec'[k] # NoRecord => Scanned(Place(rec'[k]), core)
    BY <2>1, <2>2, <2>3 DEF ScanInv, InstalledIsScanned
  <2> QED
    BY <2>1, <2>4 DEF ScanInv, InstalledIsScanned, NoJob, Place
<1>7. CASE Flush \/ Quit \/ Crash
  <2>1. \A k \in Keys : confFile'[k] # NoRecord => Scanned(Place(confFile'[k]), coreFile')
    BY <1>7 DEF Flush, Quit, Crash, disk, ScanInv, InstalledIsScanned, IInv, Session
  <2>2. \A k \in Keys : rec'[k] # NoRecord => Scanned(Place(rec'[k]), core')
    BY <1>7 DEF Flush, Quit, Crash, Down, memory, ScanInv, InstalledIsScanned
  <2>3. (job' = job /\ core' = core) \/ job' = NoJob
    BY <1>7 DEF Flush, Quit, Crash, Down, memory
  <2> QED
    BY <2>1, <2>2, <2>3 DEF ScanInv, InstalledIsScanned, Place, Target, NoJob
<1>8. CASE Start
  <2>1. rec' = confFile /\ job = NoJob
    <3>1. \A k \in Keys : Loaded(rec[k], confFile[k]) = confFile[k]
      BY <1>8, OfKey, LoadedIsConf DEF Start, IInv, Session
    <3> QED
      BY <1>8, <3>1 DEF Start, AllLoaded, IInv, TypeOK, Session
  <2> QED
    BY <1>8, <2>1 DEF Start, disk, ScanInv, InstalledIsScanned, NoJob, Place
<1>9. CASE \/ \E k \in Keys : Download(k) \/ Publish(k) \/ Prepare(k)
           \/ CancelChoice \/ ExtractFails \/ ReadFile \/ UNCHANGED vars
           \/ \E f \in Files : OpenFile(f)
  <2>1. CASE \E k \in Keys : Download(k)
    BY <1>1, <2>1 DEF Download
  <2>2. CASE \E k \in Keys : Publish(k) \/ Prepare(k)
    BY <1>1, <2>2 DEF Publish, Prepare, memory, disk
  <2>3. CASE CancelChoice \/ ExtractFails
    BY <1>1, <2>3 DEF CancelChoice, ExtractFails, NoJob, disk
  <2>4. CASE UNCHANGED vars
    BY <1>1, <2>4 DEF vars, memory, disk
  <2>5. CASE ReadFile \/ \E f \in Files : OpenFile(f)
    <3>1. job'.at = "extract"
      BY <2>5, Jobs DEF ReadFile, OpenFile, NoJob, IInv
    <3> QED
      BY <1>1, <2>5, <3>1 DEF ReadFile, OpenFile
  <2> QED
    BY <1>9, <2>1, <2>2, <2>3, <2>4, <2>5
<1> QED
  BY <1>2, <1>3, <1>4, <1>5, <1>6, <1>7, <1>8, <1>9 DEF Next, Install

\* OpenCPN scans every directory on record, also after a restart, as long as no name of
\* an archive begins another (doUnzip; the run bug_prefix is the other case).
THEOREM RecordedIsScanned ==
    ASSUME Prefixes = {}
    PROVE  Spec => []InstalledIsScanned
<1>1. Init => ScanInv
  BY DEF Init, ScanInv, InstalledIsScanned, NoJob
<1>2. IInv /\ ScanInv /\ [Next]_vars => ScanInv'
  BY ScanKeeps
<1>3. ScanInv => InstalledIsScanned
  BY DEF ScanInv
<1> QED
  BY <1>1, <1>2, <1>3, Invariance, PTL DEF Spec
=============================================================================
