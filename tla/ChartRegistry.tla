---------------------------- MODULE ChartRegistry ----------------------------
(***************************************************************************)
(* What the plugin knows of the directories its charts are in: when a chart *)
(* is opened (eSENCChart::Init), the Chartinfo.txt beside it is processed    *)
(* once a session (processChartinfo): its licences are shown and must be    *)
(* accepted (ShowEULA), and what it says of the chart set is added to the    *)
(* list the user is shown (showChartinfoDialog).  Both are kept in the      *)
(* configuration (LoadConfig, SaveConfig, ScrubChartinfoList).              *)
(*                                                                          *)
(* A Chartinfo is a sequence of blocks, each of some oesencEULAFile lines    *)
(* and an oesencEULAShow line, and at most one ChartInfo line.  The loops    *)
(* over its lines end before the last, which is never processed.  Left out: *)
(* the user key "Pending" that an acceptance sets if there is none.         *)
(***************************************************************************)
EXTENDS Integers, Sequences

CONSTANTS
    Dirs,          \* directories of charts
    Names, NoName, \* names of licence files
    Texts,         \* what a licence says
    NoText,        \* what is hashed when its file is not there
    Editions,      \* what each directory may hold
    Gone,          \* no such directory
    NoDir,
    Reentrant,     \* OpenCPN opens charts while a dialog is shown
    MaxNesting     \* bound on the dialogs shown at a time

Shows   == {"once", "always", "never"}
Paths   == Dirs \X (Names \cup {NoName})
Block   == [match : Names \cup {NoName}, first : Names \cup {NoName}, show : Shows]
Edition == [chartinfo : BOOLEAN, blocks : Seq(Block), line : BOOLEAN, last : {"show", "chartinfo", "other"},
            text : [Names \cup {NoName} -> Texts \cup {NoText}]]

\* What is processed: a block ends with its oesencEULAShow line, which may be the last.
ReadBlocks(e) == IF e.last = "show" THEN SubSeq(e.blocks, 1, Len(e.blocks) - 1) ELSE e.blocks
ReadLine(e)   == e.line /\ e.last # "chartinfo"

ASSUME RegistryAssumption ==
    /\ NoName \notin Names /\ NoText \notin Texts /\ NoDir \notin Dirs
    /\ Editions \in [Dirs -> SUBSET Edition] /\ Gone \notin Edition
    /\ \A d \in Dirs : \A e \in Editions[d] :
          /\ e.text[NoName] = NoText
          /\ ~e.chartinfo => e.blocks = <<>> /\ ~e.line
          /\ e.last = "show" => e.blocks # <<>>
    /\ Reentrant \in BOOLEAN /\ MaxNesting \in Nat \ {0}

VARIABLES
    disk,      \* the directories
    core,      \* those that OpenCPN's list of chart directories covers
    eulas,     \* g_EULAArray: the licences by their paths
    info,      \* info_hash: directories whose chart set is in the list
    conf,      \* both in the configuration object
    confFile,  \* and in its file
    agreed,    \* g_EULAShaArray: texts accepted in this session
    rejected,  \* g_bEULA_Rejected
    done,      \* g_ChartInfoArray
    infoShown, \* g_binfoShown
    stack,     \* calls under way, each below the first suspended in its dialog
    passed,    \* the chart that has just been let through
    told,      \* the chart sets in the list that the user was shown last
    ever,      \* licences accepted in any session, as far as no crash has lost that
    changed,   \* directories replaced in this session after they were processed
    seen       \* directories in place at the start, or of charts opened since

saved  == <<conf, confFile>>
ghosts == <<ever, changed, seen>>
vars   == <<disk, core, eulas, info, saved, agreed, rejected, done, infoShown, stack, passed, told, ghosts>>

Licence == [policy : Shows, once : BOOLEAN, session : BOOLEAN]
Entry   == [policy : Shows, once : BOOLEAN]
Nobody  == [dir |-> NoDir, full |-> FALSE]

\* processChartinfo, before block i; or in the dialog of one.
Call   == [at : {"next", "ask"}, dir : Dirs, full : BOOLEAN, i : Nat, file : Names \cup {NoName}]
\* ShowAlwaysEULAs, with the paths to come; or in the dialog of one.
Loading == [at : {"load", "loadAsk"}, dir : Dirs \cup {NoDir}, file : Names \cup {NoName}, todo : SUBSET Paths]

ByPath(f, what) == DOMAIN f \subseteq Paths /\ \A p \in DOMAIN f : f[p] \in what

TypeOK ==
    /\ disk \in [Dirs -> (UNION {Editions[d] : d \in Dirs}) \cup {Gone}]
    /\ \A d \in Dirs : disk[d] \in Editions[d] \cup {Gone}
    /\ core \subseteq Dirs /\ info \subseteq Dirs /\ told \subseteq info
    /\ ByPath(eulas, Licence)
    /\ ByPath(conf.eulas, Entry) /\ conf.info \subseteq Dirs
    /\ ByPath(confFile.eulas, Entry) /\ confFile.info \subseteq Dirs
    /\ agreed \subseteq Texts \cup {NoText}
    /\ rejected \in BOOLEAN /\ infoShown \in BOOLEAN
    /\ done \subseteq Dirs /\ changed \subseteq Dirs /\ seen \subseteq Dirs /\ ever \subseteq Paths
    /\ stack \in Seq(Call \cup Loading)
    /\ \A k \in 1..Len(stack) : stack[k] \in Loading => Len(stack) = 1
    /\ \A k, l \in 1..Len(stack) : stack[k].dir = stack[l].dir => k = l
    /\ passed \in [dir : Dirs \cup {NoDir}, full : BOOLEAN]

-----------------------------------------------------------------------------
\* The dialogs

Top == Head(stack)
Free == stack = <<>>
Runs(at) == stack # <<>> /\ Top.at = at

\* What getEULASha1 makes of a path.
Text(p) == IF disk[p[1]] = Gone THEN NoText ELSE disk[p[1]].text[p[2]]

TopPath == <<Top.dir, Top.file>>

\* Where the call on top goes, and ShowAlwaysEULAs between two dialogs.
Goes(at, i, file) == [at |-> at, dir |-> Top.dir, full |-> Top.full, i |-> i, file |-> file]
Going(todo)       == [at |-> "load", dir |-> NoDir, file |-> NoName, todo |-> todo]

\* The array holds a licence as it was when it was first met.
Met(p, show) == IF p \in DOMAIN eulas THEN eulas
                ELSE [q \in DOMAIN eulas \cup {p} |->
                         IF q = p THEN [policy |-> show, once |-> FALSE, session |-> FALSE] ELSE eulas[q]]

Accepted(es, p) == [es EXCEPT ![p] = [policy |-> @.policy, once |-> TRUE, session |-> TRUE]]

Required(l) == (l.policy = "once" /\ ~l.once) \/ (l.policy = "always" /\ ~l.session)

-----------------------------------------------------------------------------
\* processChartinfo

MutEntered(d) == UNCHANGED done

\* A Chartinfo counts as processed from the beginning.
Entered(d) == done' = done \cup {d}

\* The name of the block before stays if none of this block's is in the user's language.
MutFileOf(b, file) == IF file # NoName THEN file ELSE IF b.match # NoName THEN b.match ELSE b.first

FileOf(b, file) == IF b.match # NoName THEN b.match ELSE IF file # NoName THEN file ELSE b.first

\* Init goes on, and shows the list if the whole chart is loaded.
LetThrough(d, full, list, shown) ==
    LET tells == full /\ ~shown /\ list # {}
    IN  /\ passed' = [dir |-> d, full |-> full]
        /\ infoShown' = (shown \/ tells)
        /\ told' = IF tells THEN list ELSE told
        /\ seen' = seen \cup {d}

\* eSENCChart::Init; also in the event loop of a licence's dialog.
Open(d, full) ==
    /\ Free \/ (Reentrant /\ Runs("ask") /\ Len(stack) < MaxNesting)
    /\ disk[d] # Gone
    /\ \/ /\ rejected
          /\ passed' = Nobody
          /\ UNCHANGED <<done, stack, infoShown, told, seen>>
       \/ /\ ~rejected /\ (d \in done \/ ~disk[d].chartinfo)
          /\ LetThrough(d, full, info, infoShown)
          /\ UNCHANGED <<done, stack>>
       \/ /\ ~rejected /\ d \notin done /\ disk[d].chartinfo
          /\ Entered(d)
          /\ stack' = <<[at |-> "next", dir |-> d, full |-> full, i |-> 1, file |-> NoName]>> \o stack
          /\ passed' = Nobody
          /\ UNCHANGED <<infoShown, told, seen>>
    /\ UNCHANGED <<disk, core, eulas, info, saved, agreed, rejected, ever, changed>>

\* The next block: its licence is not required, known by its text, or asked for.
NextBlock ==
    /\ Runs("next") /\ Top.i <= Len(ReadBlocks(disk[Top.dir]))
    /\ LET b    == ReadBlocks(disk[Top.dir])[Top.i]
           file == FileOf(b, Top.file)
           p    == <<Top.dir, file>>
           es   == Met(p, b.show)
           on   == <<Goes("next", Top.i + 1, file)>> \o Tail(stack)
       IN  \/ /\ ~Required(es[p])
              /\ eulas' = es /\ stack' = on /\ UNCHANGED ever
           \/ /\ Required(es[p]) /\ Text(p) \in agreed
              /\ eulas' = Accepted(es, p) /\ stack' = on /\ ever' = ever \cup {p}
           \/ /\ Required(es[p]) /\ Text(p) \notin agreed
              /\ eulas' = es /\ UNCHANGED ever
              /\ stack' = <<Goes("ask", Top.i, file)>> \o Tail(stack)
    /\ passed' = Nobody
    /\ UNCHANGED <<disk, core, info, saved, agreed, rejected, done, infoShown, told, changed, seen>>

\* The user accepts; whatever has been rejected meanwhile.
Accept ==
    /\ Runs("ask")
    /\ agreed' = agreed \cup {Text(TopPath)}
    /\ eulas' = Accepted(eulas, TopPath)
    /\ ever' = ever \cup {TopPath}
    /\ stack' = <<Goes("next", Top.i + 1, Top.file)>> \o Tail(stack)
    /\ passed' = Nobody
    /\ UNCHANGED <<disk, core, info, saved, rejected, done, infoShown, told, changed, seen>>

Reject ==
    /\ Runs("ask")
    /\ rejected' = TRUE
    /\ stack' = Tail(stack)
    /\ passed' = Nobody
    /\ UNCHANGED <<disk, core, eulas, info, saved, agreed, done, infoShown, told, ghosts>>

MutShownAgain(new) == infoShown

\* A line that is new is shown with all the others.
ShownAgain(new) == infoShown /\ ~new

\* After the last block; a directory that is in the list stays there as it is.
EndOfChartinfo ==
    /\ Runs("next") /\ Top.i > Len(ReadBlocks(disk[Top.dir]))
    /\ LET new == ReadLine(disk[Top.dir]) /\ Top.dir \notin info
       IN  /\ info' = IF new THEN info \cup {Top.dir} ELSE info
           /\ LetThrough(Top.dir, Top.full, info', ShownAgain(new))
    /\ stack' = Tail(stack)
    /\ UNCHANGED <<disk, core, eulas, saved, agreed, rejected, done, ever, changed>>

-----------------------------------------------------------------------------
\* The configuration

Saved == [eulas |-> [p \in DOMAIN eulas |-> [policy |-> eulas[p].policy, once |-> eulas[p].once]], info |-> info]

\* OK in the preferences or in the dialog of the user key.
SaveConfig ==
    /\ Free
    /\ conf' = Saved /\ passed' = Nobody
    /\ UNCHANGED <<disk, core, eulas, info, confFile, agreed, rejected, done, infoShown, stack, told, ghosts>>

Flush ==
    /\ confFile # conf
    /\ confFile' = conf /\ passed' = Nobody
    /\ UNCHANGED <<disk, core, eulas, info, conf, agreed, rejected, done, infoShown, stack, told, ghosts>>

MutLoadedEulas(f) == [p \in DOMAIN f |-> [policy |-> f[p].policy, once |-> FALSE, session |-> FALSE]]

LoadedEulas(f) == [p \in DOMAIN f |-> [policy |-> f[p].policy, once |-> f[p].once, session |-> FALSE]]

InPlace == {d \in Dirs : disk[d] # Gone} \cap core

\* ScrubChartinfoList
Scrubbed(list) == list \cap InPlace

\* The constructor: LoadConfig, ScrubChartinfoList, ShowAlwaysEULAs.
Start(file) ==
    /\ eulas' = LoadedEulas(file.eulas)
    /\ info' = Scrubbed(file.info)
    /\ conf' = file /\ confFile' = file
    /\ agreed' = {} /\ rejected' = FALSE /\ done' = {} /\ infoShown' = FALSE
    /\ stack' = <<Going({p \in DOMAIN eulas' : eulas'[p].policy = "always"})>>
    /\ passed' = Nobody /\ told' = {}
    /\ changed' = {} /\ seen' = InPlace
    /\ UNCHANGED <<disk, core>>

\* The next of the licences that are always shown.
LoadNext ==
    /\ Runs("load")
    /\ \/ /\ Top.todo = {} /\ stack' = <<>>
       \/ \E p \in Top.todo :
            LET rest == Top.todo \ {p}
            IN  stack' = IF Text(p) \in agreed THEN <<Going(rest)>>
                         ELSE <<[at |-> "loadAsk", dir |-> p[1], file |-> p[2], todo |-> rest]>>
    /\ passed' = Nobody
    /\ UNCHANGED <<disk, core, eulas, info, saved, agreed, rejected, done, infoShown, told, ghosts>>

\* The flags of the licence stay as they are.
LoadAccept ==
    /\ Runs("loadAsk")
    /\ agreed' = agreed \cup {Text(TopPath)}
    /\ stack' = <<Going(Top.todo)>>
    /\ passed' = Nobody
    /\ UNCHANGED <<disk, core, eulas, info, saved, rejected, done, infoShown, told, ghosts>>

LoadReject ==
    /\ Runs("loadAsk")
    /\ rejected' = TRUE
    /\ stack' = <<>>
    /\ passed' = Nobody
    /\ UNCHANGED <<disk, core, eulas, info, saved, agreed, done, infoShown, told, ghosts>>

\* DeInit, and the next start.
Quit ==
    /\ Free
    /\ Start(Saved)
    /\ UNCHANGED ever

\* OpenCPN crashes and is started again.
Crash ==
    /\ Start(confFile)
    /\ ever' = {p \in ever : p \in DOMAIN confFile.eulas /\ confFile.eulas[p].once}

-----------------------------------------------------------------------------
\* The directories, changed by the shop panel and by the user

Install(d, e) ==
    /\ Free /\ disk[d] # e
    /\ disk' = [disk EXCEPT ![d] = e]
    /\ core' = core \cup {d}
    /\ changed' = IF d \in done THEN changed \cup {d} ELSE changed
    /\ passed' = Nobody
    /\ UNCHANGED <<eulas, info, saved, agreed, rejected, done, infoShown, stack, told, ever, seen>>

Remove(d) ==
    /\ Free /\ disk[d] # Gone
    /\ disk' = [disk EXCEPT ![d] = Gone]
    /\ changed' = IF d \in done THEN changed \cup {d} ELSE changed
    /\ passed' = Nobody
    /\ UNCHANGED <<core, eulas, info, saved, agreed, rejected, done, infoShown, stack, told, ever, seen>>

Unlist(d) ==
    /\ Free /\ d \in core
    /\ core' = core \ {d} /\ passed' = Nobody
    /\ UNCHANGED <<disk, eulas, info, saved, agreed, rejected, done, infoShown, stack, told, ghosts>>

-----------------------------------------------------------------------------
NoLicence == [p \in {} |-> [policy |-> "never", once |-> FALSE]]

Init ==
    /\ disk \in [Dirs -> UNION {Editions[d] : d \in Dirs}] /\ \A d \in Dirs : disk[d] \in Editions[d]
    /\ core = Dirs
    /\ eulas = LoadedEulas(NoLicence) /\ info = {}
    /\ conf = [eulas |-> NoLicence, info |-> {}] /\ confFile = conf
    /\ agreed = {} /\ rejected = FALSE /\ done = {} /\ infoShown = FALSE
    /\ stack = <<>> /\ passed = Nobody /\ told = {}
    /\ ever = {} /\ changed = {} /\ seen = Dirs

Next ==
    \/ \E d \in Dirs, full \in BOOLEAN : Open(d, full)
    \/ NextBlock \/ Accept \/ Reject \/ EndOfChartinfo
    \/ SaveConfig \/ Flush
    \/ LoadNext \/ LoadAccept \/ LoadReject
    \/ Quit \/ Crash
    \/ \E d \in Dirs : Remove(d) \/ Unlist(d) \/ \E e \in Editions[d] : Install(d, e)

Spec == Init /\ [][Next]_vars

-----------------------------------------------------------------------------
\* Properties

\* The user has accepted what a path holds in this session; or, if it is shown once,
\* in any.
Agreed(p) ==
    \/ Text(p) \in agreed
    \/ /\ p \in DOMAIN eulas
       /\ eulas[p].policy = "never" \/ (eulas[p].policy = "once" /\ p \in ever)

\* The licence a block names: the file in the user's language, or the first there is.
Named(b) == IF b.match # NoName THEN b.match ELSE b.first

Blocks(d) == IF disk[d] = Gone THEN <<>> ELSE ReadBlocks(disk[d])

\* A chart is opened only if the licences of its directory have been accepted, as often
\* as they must be, over crashes, restarts, rejections and dialogs within dialogs
\* (processChartinfo, ShowEULA, ShowAlwaysEULAs).  Except for a licence after the
\* first that has no file in the user's language, one whose oesencEULAShow is the last
\* line of the file, a directory replaced since it was processed, and one whose dialog
\* is still open.
OpenedIsAccepted ==
    LET d == passed.dir
    IN  d # NoDir /\ d \notin changed /\ (\A k \in 1..Len(stack) : stack[k].dir # d) =>
            \A i \in 1..Len(Blocks(d)) :
                i = 1 \/ Blocks(d)[i].match # NoName => Agreed(<<d, Named(Blocks(d)[i])>>)

\* Nobody is asked twice: for no text accepted in this session, wherever it was,
\* nor for a licence to be shown once that was ever accepted, unless a crash has lost
\* that (LoadConfig, SaveConfig, b_onceShown).
Asks == Len(stack') >= Len(stack) /\ stack' # <<>> /\ Head(stack').at \in {"ask", "loadAsk"}
            /\ (stack = <<>> \/ Top.at \notin {"ask", "loadAsk"})

AskedOnce ==
    [][Asks => LET p == <<Head(stack').dir, Head(stack').file>>
               IN  Text(p) \notin agreed /\ (eulas'[p].policy = "once" => p \notin ever)]_vars

\* When a whole chart is loaded, the user has seen its chart set in the list, unless its
\* ChartInfo is the last line of the file, and no chart set in it that had been removed
\* before this session and not opened since (showChartinfoDialog, ScrubChartinfoList).
SetsTold ==
    LET d == passed.dir
    IN  /\ d # NoDir /\ passed.full /\ d \notin changed /\ ReadLine(disk[d])
           /\ (\A k \in 1..Len(stack) : stack[k].dir # d) => d \in told
        /\ told \subseteq seen

\* "If the EULA is required to be shown, either once or always, do it here" (5547): every
\* licence that a Chartinfo names.
EveryLicenceShown ==
    LET d == passed.dir
    IN  d # NoDir => \A i \in 1..Len(disk[d].blocks) : Agreed(<<d, Named(disk[d].blocks[i])>>)
=============================================================================
