------------------------------ MODULE ShopStore ------------------------------
(***************************************************************************)
(* What the chart shop keeps on disk (ochartShop.cpp): the archives it      *)
(* downloads, the directories it installs them in, the record of what is    *)
(* installed, and the list of directories OpenCPN scans for charts; with    *)
(* crashes of the program between any two steps of an installation.         *)
(*                                                                          *)
(* A key is a slot of a chart set.  The record of a key is kept three       *)
(* times: in the chart record of the panel (`rec`), in the configuration    *)
(* object (`conf`, which saveShopConfig writes and loadShopConfig reads),   *)
(* and in the configuration file (`confFile`), which OpenCPN writes from    *)
(* the object when it sees fit.  ShopPanel models how a download comes      *)
(* about; here it is one step.                                              *)
(*                                                                          *)
(* The top directory of an archive is named as the archive is, the          *)
(* extension left out, which the removal of an old edition relies on.  A    *)
(* directory is what its files are: one without any is as good as none.     *)
(***************************************************************************)
EXTENDS Integers

CONSTANTS Keys,          \* slots of chart sets
          MaxEdition,    \* bound: editions the shop publishes
          Parents,       \* directories the user installs chart sets in
          NoParent,
          Names,         \* names of archives
          NoName,
          NameOf,        \* name of the archive of each edition for each key
          Files,         \* names of files in chart set directories
          NoFile,
          FilesOf,       \* those in the archive of each edition for each key
          Prefixes       \* pairs of names the first of which begins the second

Editions  == 1 .. MaxEdition
NoEdition == 0
Zips      == Keys \X Editions

ASSUME StoreAssumption ==
    /\ MaxEdition \in Nat \ {0}
    /\ NoParent \notin Parents
    /\ NoName \notin Names
    /\ NameOf \in [Zips -> Names]
    /\ \A y, z \in Zips : NameOf[y] = NameOf[z] => y[1] = z[1]
    /\ NoFile \notin Files
    /\ FilesOf \in [Zips -> (SUBSET Files) \ {{}}]
    /\ Prefixes \subseteq Names \X Names

\* A file of a chart set's directory: none, or one of an archive, whole or cut short.
Dirs    == Parents \X Names
Absent  == [zip |-> <<>>, whole |-> FALSE]
Content == {Absent} \cup [zip : Zips, whole : BOOLEAN]

\* What is recorded as installed: the directory chosen, the archive, the edition.
NoRecord == [loc |-> NoParent, zip |-> NoName, ed |-> NoEdition]
Record   == {NoRecord} \cup [loc : Parents, zip : Names, ed : Editions]

VARIABLES
    shop,      \* edition the shop sells
    ready,     \* edition last requested and prepared, NoEdition if none
    room,      \* the disk has room for all that is extracted
    up,        \* the program runs
    known,     \* currentChartEdition and lastRequestEdition, as last listed
    rec,       \* installLocation, installedFileDownloadPath, installedEdition
    conf,      \* their values in the configuration object
    confFile,  \* and in its file
    core,      \* OpenCPN's chart directories
    coreFile,  \* and those in its file
    file,      \* archives in the download directory
    dir,       \* files of the chart set directories
    job        \* the installation under way

memory == <<known, rec, conf, core, job>>
disk   == <<confFile, coreFile, file, dir>>
vars   == <<shop, ready, room, up, memory, disk>>

Unknown == [cur |-> NoEdition, req |-> NoEdition]

\* Where doUnzip is, with the files still to be extracted or removed and the one
\* that is being written.
Steps == {"idle", "choose", "extract", "retire", "record"}
NoJob == [at |-> "idle", key |-> <<>>, zip |-> NoName, loc |-> NoParent,
          left |-> {}, open |-> NoFile]
Job   == {NoJob} \cup [at : Steps \ {"idle"}, key : Keys, zip : Names,
                       loc : Parents \cup {NoParent},
                       left : SUBSET Files, open : Files \cup {NoFile}]

\* Beside the types it says that a record is empty or complete in each of its copies.
TypeOK ==
    /\ shop \in [Keys -> Editions]
    /\ ready \in [Keys -> Editions \cup {NoEdition}]
    /\ room \in BOOLEAN /\ up \in BOOLEAN
    /\ known \in [Keys -> [cur : Editions \cup {NoEdition}, req : Editions \cup {NoEdition}]]
    /\ rec \in [Keys -> Record] /\ conf \in [Keys -> Record] /\ confFile \in [Keys -> Record]
    /\ core \subseteq Parents \cup Dirs /\ coreFile \subseteq Parents \cup Dirs
    /\ file \in [Names -> Zips \cup {<<>>}]
    /\ dir \in [Dirs -> [Files -> Content]]
    /\ job \in Job

-----------------------------------------------------------------------------
\* loadShopConfig, saveShopConfig

MutLoaded(r, c) ==
    [loc |-> IF r.loc = NoParent THEN c.loc ELSE r.loc,
     zip |-> IF r.zip = NoName THEN c.zip ELSE r.zip,
     ed  |-> r.ed]

\* The record of a key after loadShopConfig: a location or an archive known
\* already is kept, the edition never is.
Loaded(r, c) ==
    [loc |-> IF r.loc = NoParent THEN c.loc ELSE r.loc,
     zip |-> IF r.zip = NoName THEN c.zip ELSE r.zip,
     ed  |-> c.ed]

AllLoaded(rs, cs) == [k \in Keys |-> Loaded(rs[k], cs[k])]

\* OnButtonUpdate: the configuration is loaded again, the list is received, and
\* UpdateChartList saves the configuration; or the request fails.
\* The user does not press Refresh while an archive is unpacked.
Refresh ==
    /\ up /\ job = NoJob
    /\ rec' = AllLoaded(rec, conf)
    /\ \/ /\ known' = [k \in Keys |-> [cur |-> shop[k], req |-> ready[k]]]
          /\ conf' = rec'
       \/ UNCHANGED <<known, conf>>
    /\ UNCHANGED <<shop, ready, room, up, core, job, disk>>

-----------------------------------------------------------------------------
\* Downloading and installing: OnButtonInstallChain, doUnzip, ExtractZipFiles

\* The archive of the edition listed as prepared arrives, and the user proceeds.
Download(k) ==
    /\ up /\ job = NoJob
    /\ known[k].req # NoEdition
    /\ LET z == <<k, known[k].req>>
       IN /\ file' = [file EXCEPT ![NameOf[z]] = z]
          /\ job' = [NoJob EXCEPT !.at = "choose", !.key = k, !.zip = NameOf[z]]
    /\ UNCHANGED <<shop, ready, room, up, known, rec, conf, core, confFile, coreFile, dir>>

\* The archive of the job, and the directory it becomes.
Zip    == file[job.zip]
Target == <<job.loc, job.zip>>

CancelChoice ==
    /\ up /\ job.at = "choose"
    /\ job' = NoJob
    /\ UNCHANGED <<shop, ready, room, up, known, rec, conf, core, disk>>

\* What the directory holds already stays there.
ChooseDir(p) ==
    /\ up /\ job.at = "choose"
    /\ job' = [job EXCEPT !.at = "extract", !.loc = p, !.left = FilesOf[Zip]]
    /\ UNCHANGED <<shop, ready, room, up, known, rec, conf, core, disk>>

\* The output stream creates the next file, or cuts the one there is to nothing,
\* and the loop yields before it writes.
OpenFile(f) ==
    /\ up /\ job.at = "extract" /\ job.open = NoFile /\ f \in job.left
    /\ job' = [job EXCEPT !.left = @ \ {f}, !.open = f]
    /\ dir' = [dir EXCEPT ![Target][f] = [zip |-> Zip, whole |-> FALSE]]
    /\ UNCHANGED <<shop, ready, room, up, known, rec, conf, core, confFile, coreFile, file>>

\* The file is read from the archive to the disk.  What came of that is not asked:
\* a disk that is full leaves part of a file, and the loop goes on.
ReadFile ==
    /\ up /\ job.at = "extract" /\ job.open # NoFile
    /\ job' = [job EXCEPT !.open = NoFile]
    /\ \E whole \in {TRUE, room} :
          dir' = [dir EXCEPT ![Target][job.open] = [zip |-> Zip, whole |-> whole]]
    /\ UNCHANGED <<shop, ready, room, up, known, rec, conf, core, confFile, coreFile, file>>

\* The extraction fails at a file that cannot be opened, here or in the archive.
ExtractFails ==
    /\ up /\ job.at = "extract"
    /\ job' = NoJob
    /\ UNCHANGED <<shop, ready, room, up, known, rec, conf, core, disk>>

MutCovered(d) == core # {}

\* "If the current core chart directories do not cover this new directory, then
\* add it": the test is whether the name of one begins that of the other.
Covered(d) ==
    \/ d[1] \in core
    \/ d \in core
    \/ \E n \in Names : <<d[1], n>> \in core /\ <<n, d[2]>> \in Prefixes

\* The directory of the edition installed before, and the files there are in one.
OldDir(k)  == <<rec[k].loc, rec[k].zip>>
Present(d) == {f \in Files : dir[d][f] # Absent}

MutIsUpdate(k) == /\ rec[k].ed # known[k].req
                  /\ rec[k] # NoRecord

\* An update of an installation which is in another directory.
IsUpdate(k) == /\ rec[k].ed # known[k].req
               /\ rec[k] # NoRecord
               /\ OldDir(k) # Target

\* The extraction ends, the directory is added to those scanned, and the files of
\* the old edition, if that is in another one, are listed.
Extracted ==
    /\ up /\ job.at = "extract" /\ job.open = NoFile /\ job.left = {}
    /\ core' = IF Covered(Target) THEN core ELSE core \cup {Target}
    /\ LET old == IF IsUpdate(job.key) THEN Present(OldDir(job.key)) ELSE {}
       IN job' = [job EXCEPT !.left = old, !.at = IF old = {} THEN "record" ELSE "retire"]
    /\ UNCHANGED <<shop, ready, room, up, known, rec, conf, disk>>

\* They are removed one by one, then their directory; one that is in use stays, and
\* the directory with it.
RetireFile(f) ==
    /\ up /\ job.at = "retire" /\ f \in job.left
    /\ \/ dir' = [dir EXCEPT ![OldDir(job.key)][f] = Absent]
       \/ dir' = dir
    /\ job' = [job EXCEPT !.left = @ \ {f}, !.at = IF job.left = {f} THEN "record" ELSE "retire"]
    /\ UNCHANGED <<shop, ready, room, up, known, rec, conf, core, confFile, coreFile, file>>

MutInstalled(k) == [loc |-> job.loc, zip |-> job.zip, ed |-> known[k].cur]

\* The record of an installation.
Installed(k) == [loc |-> job.loc, zip |-> job.zip, ed |-> known[k].req]

\* The archive is removed and the configuration saved.
RecordIt ==
    /\ up /\ job.at = "record"
    /\ rec' = [rec EXCEPT ![job.key] = Installed(job.key)]
    /\ file' = [file EXCEPT ![job.zip] = <<>>]
    /\ conf' = rec'
    /\ job' = NoJob
    /\ UNCHANGED <<shop, ready, room, up, known, core, confFile, coreFile, dir>>

-----------------------------------------------------------------------------
\* OpenCPN and the server

\* The configuration object is written to its file: not in the midst of an
\* installation, except where that yields.
Flush ==
    /\ up /\ job.at \in {"idle", "choose", "extract"}
    /\ confFile' = conf /\ coreFile' = core
    /\ UNCHANGED <<shop, ready, room, up, memory, file, dir>>

Down == /\ up' = FALSE
        /\ known' = [k \in Keys |-> Unknown]
        /\ rec' = [k \in Keys |-> NoRecord] /\ conf' = rec'
        /\ core' = {}
        /\ job' = NoJob

Quit ==
    /\ up /\ job = NoJob
    /\ Down
    /\ confFile' = conf /\ coreFile' = core
    /\ UNCHANGED <<shop, ready, room, file, dir>>

Crash ==
    /\ up /\ Down
    /\ UNCHANGED <<shop, ready, room, disk>>

\* The constructor of the panel loads the configuration.
Start ==
    /\ ~up /\ up' = TRUE
    /\ conf' = confFile /\ core' = coreFile
    /\ rec' = AllLoaded(rec, confFile)
    /\ UNCHANGED <<shop, ready, room, known, job, disk>>

Publish(k) ==
    /\ shop[k] < MaxEdition
    /\ shop' = [shop EXCEPT ![k] = @ + 1]
    /\ UNCHANGED <<ready, room, up, memory, disk>>

\* The edition sold is requested for the key, and prepared.
Prepare(k) ==
    /\ ready[k] # shop[k]
    /\ ready' = [ready EXCEPT ![k] = shop[k]]
    /\ UNCHANGED <<shop, room, up, memory, disk>>

-----------------------------------------------------------------------------
Init ==
    /\ shop = [k \in Keys |-> 1]
    /\ ready = [k \in Keys |-> NoEdition]
    /\ room \in BOOLEAN
    /\ up = FALSE
    /\ known = [k \in Keys |-> Unknown]
    /\ rec = [k \in Keys |-> NoRecord] /\ conf = rec /\ confFile = rec
    /\ core = {} /\ coreFile \in SUBSET Parents
    /\ file = [n \in Names |-> <<>>]
    /\ dir = [d \in Dirs |-> [f \in Files |-> Absent]]
    /\ job = NoJob

Install ==
    \/ \E k \in Keys : Download(k)
    \/ CancelChoice
    \/ \E p \in Parents : ChooseDir(p)
    \/ \E f \in Files : OpenFile(f) \/ RetireFile(f)
    \/ ReadFile
    \/ ExtractFails
    \/ Extracted
    \/ RecordIt

Next ==
    \/ Refresh
    \/ Install
    \/ Flush \/ Quit \/ Crash \/ Start
    \/ \E k \in Keys : Publish(k) \/ Prepare(k)

Spec == Init /\ [][Next]_vars

-----------------------------------------------------------------------------
\* Properties

Place(r) == <<r.loc, r.zip>>

\* All files of an edition are there, and as its archive has them.
Whole(d, z) == \A f \in FilesOf[z] : dir[d][f] = [zip |-> z, whole |-> TRUE]

\* The last whole copy of a chart set is lost by no removal and no crash, unless the
\* disk is full: only the extraction of an archive over the very directory that
\* holds it leaves the user with part of one (doUnzip: the order of the extraction
\* and the removal of the edition before, and its test that their directories differ).
HasWhole(k) == \E d \in Dirs, e \in Editions : Whole(d, <<k, e>>)

LastCopyKept ==
    [][\A k \in Keys : room /\ HasWhole(k) /\ ~HasWhole(k)' =>
          job.key = k /\ job.open = NoFile /\ job'.open # NoFile]_vars

\* A chart set displayed as current is the edition the shop listed: every file that
\* edition has is in the directory on record, and is that edition's and none of
\* another, however many were installed over each other, moved, half removed or
\* broken off since (getChartStatus, doUnzip, ExtractZipFiles, loadShopConfig).  It
\* may be cut short, by the extraction of the same edition again or by a full disk;
\* and beside it may be files of an older edition that the newer has not, since nothing
\* clears a directory before an archive of the same name is extracted there.
CurrentIsThere ==
    \A k \in Keys : rec[k] # NoRecord /\ rec[k].ed = known[k].cur =>
        \A f \in FilesOf[<<k, rec[k].ed>>] : dir[Place(rec[k])][f].zip = <<k, rec[k].ed>>

\* OpenCPN scans the directory of every chart set on record, before and after a
\* restart (doUnzip, AddChartDirectory).
Scanned(d, list) == d \in list \/ d[1] \in list

InstalledIsScanned ==
    \A k \in Keys : /\ rec[k] # NoRecord => Scanned(Place(rec[k]), core)
                    /\ confFile[k] # NoRecord => Scanned(Place(confFile[k]), coreFile)
=============================================================================
