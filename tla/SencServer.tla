----------------------------- MODULE SencServer -----------------------------
(***************************************************************************)
(* Opening charts through the decryption server: eSENCChart::Init, which    *)
(* starts the server when it does not answer (validate_SENC_server), finds  *)
(* the user key (processUserKeyHint, validateUserKey), and reads the header *)
(* or all of the chart over a pipe (Osenc_instream, Osenc::ingestHeader,    *)
(* Osenc::ingest200).                                                       *)
(*                                                                          *)
(* The server processes are external: what they answer is known from how    *)
(* the plugin uses them.  They share the public pipe; a message written to  *)
(* it is read by one of them.  The private "pipe" is a regular file, since  *)
(* CreateTempFileName has created it when mkfifo is called: a read at its   *)
(* end returns nothing, which Read takes for the end after 100 tries.       *)
(*                                                                          *)
(* A stream is counted in units: three for the version record, the first    *)
(* two of them its base, and two for every other record, base and body.     *)
(***************************************************************************)
EXTENDS Integers, Sequences

CONSTANTS
    Charts, NoChart,
    Keys,          \* user keys
    NoKey,         \* the empty key
    Invalid,       \* the text "Invalid"
    KeyOf,         \* the key a chart is encrypted with, or NoKey: not encrypted
    HintOf,        \* the key named in Chartinfo.txt beside a chart, or NoKey
    File,          \* the kinds of the records of each chart after the first
    ProbeTries,    \* probes of a running server, 10 in the code
    AwaitTries,    \* probes of a server just started, 3 in the code
    MaxFails,      \* failures after which a chart is not tried again, 2 in the code
    Procs,         \* bound on the server processes that run at a time
    NoProc

Kinds == {"header", "feature", "alien"}

SencAssumption ==
    /\ NoKey \notin Keys /\ Invalid \notin Keys /\ NoKey # Invalid
    /\ NoChart \notin Charts /\ NoProc \notin Procs
    /\ KeyOf \in [Charts -> Keys \cup {NoKey}] /\ HintOf \in [Charts -> Keys \cup {NoKey}]
    /\ File \in [Charts -> Seq(Kinds)]
    /\ ProbeTries \in Nat \ {0} /\ AwaitTries \in Nat \ {0} /\ MaxFails \in Nat

ASSUME SencAssumption

VARIABLES
    procs,     \* server processes
    proc,      \* g_serverProc: a process has been started in this session
    bin,       \* g_sencutil_bin names a program
    key,       \* g_UserKey
    hintTaken, \* g_bUserKeyHintTaken
    fails,     \* chartFailCount
    gui,       \* where the GUI thread is
    conn,      \* the Osenc_instream in use
    got,       \* the records ingested from it
    last,      \* what the last call of Init returned
    calm       \* in this session no server has been slow or lost

globals == <<proc, bin, key, hintTaken, fails>>
vars    == <<procs, globals, gui, conn, got, last, calm>>

ProcStates == {"none", "starting", "ready", "stalled"}
Running(p) == procs[p] # "none"
Answers(p) == procs[p] = "ready"

\* The callers of validate_SENC_server, and those of ingestHeader and ingest200.
Resets  == {"begin", "reset1", "reset2", "again"}
Ingests == {"try", "quiet", "afterReset", "hinted", "head", "headAgain", "full", "fullAgain"}

Idle == [at |-> "idle"]
Gui  == {Idle} \cup [at : {"probe", "launch", "await", "ask", "open", "verify", "version", "records"},
                      chart : Charts, full : BOOLEAN, step : Resets \cup Ingests,
                      n : 0..(ProbeTries + AwaitTries + 2), senc : Keys \cup {NoKey, Invalid},
                      due : BOOLEAN]

\* What comes through a stream: the chart, a version record that tells of a failed
\* signature, or what is no record at all.
Sends == {"chart", "signature", "noise"}

Closed == [mode |-> "closed"]
Length(c, s) == IF s = "signature" THEN 3 ELSE 3 + 2 * Len(File[c])
Conn   == {Closed} \cup [mode : {"pipe", "file"}, by : Procs \cup {NoProc}, sends : Sends,
                          pos : Nat, limit : Nat]

TypeOK ==
    /\ procs \in [Procs -> ProcStates]
    /\ proc \in BOOLEAN /\ bin \in BOOLEAN /\ hintTaken \in BOOLEAN
    /\ key \in Keys \cup {NoKey, Invalid}
    /\ fails \in [Charts -> 0..(MaxFails + 1)]
    /\ gui \in Gui
    /\ conn \in Conn
    /\ (conn # Closed => conn.pos <= conn.limit)
    /\ got \in Seq(Charts \X Nat)
    /\ last \in [ok : BOOLEAN, due : BOOLEAN, data : Seq(Charts \X Nat)]
    /\ calm \in BOOLEAN

-----------------------------------------------------------------------------
\* Control

\* A chart can be read with the key its directory names, with the one in use when
\* its directory names none, and without one when it is not encrypted.
Readable(c, k) == \/ KeyOf[c] = NoKey
                  \/ HintOf[c] = KeyOf[c]
                  \/ HintOf[c] = NoKey /\ k = KeyOf[c]

\* What Init returned, whether it was due to succeed, and the records given.
Nothing == [ok |-> FALSE, due |-> FALSE, data |-> <<>>]

\* The call under way need not succeed.
Undue(g) == IF g = Idle THEN Idle ELSE [g EXCEPT !.due = FALSE]

MutAt(place, n) == [gui EXCEPT !.at = place, !.n = IF place = "probe" THEN @ ELSE n]

At(place, n) == [gui EXCEPT !.at = place, !.n = n]

MutReset(g, s) == [g EXCEPT !.at = "launch", !.n = 0, !.step = s]

\* validate_SENC_server is called: a process of this session is probed first.
Reset(g, s) == IF proc THEN [g EXCEPT !.at = "probe", !.n = ProbeTries, !.step = s]
                       ELSE [g EXCEPT !.at = "launch", !.n = 0, !.step = s]

\* ingestHeader or ingest200 is called with a key: two attempts to open.
Ingest(g, s, k) == [g EXCEPT !.at = "open", !.n = 2, !.step = s, !.senc = k]

Full(s) == s \in {"full", "fullAgain"}

\* validateUserKey is called.
ValidateKey(g) == IF key \in {NoKey, Invalid} THEN [g EXCEPT !.at = "ask", !.n = 0]
                                              ELSE Ingest(g, "try", key)

\* What follows a call of validate_SENC_server, whatever it returned.
AfterReset(g) ==
    CASE g.step = "begin"  -> IF g.full THEN Ingest(g, "full", key) ELSE ValidateKey(g)
      [] g.step = "reset1" -> Ingest(g, "afterReset", g.senc)
      [] g.step = "reset2" -> Ingest(g, "hinted", key)
      [] g.step = "again"  -> Ingest(g, "headAgain", g.senc)

Stream == <<conn, got>>
MutNoStream == conn' = Closed /\ UNCHANGED got

\* A call returns: its stream and its Osenc are gone.
NoStream == conn' = Closed /\ got' = <<>>

\* Init returns: on any error the hint of the next chart will be taken.
Return(ok, data) ==
    /\ last' = [ok |-> ok, due |-> gui.due, data |-> data]
    /\ fails' = [fails EXCEPT ![gui.chart] = IF ok THEN 0 ELSE @ + 1]
    /\ hintTaken' = (hintTaken /\ ok)
    /\ gui' = Idle

\* The same function goes on.
GoOn(g) == gui' = g /\ UNCHANGED <<fails, hintTaken, last>>

-----------------------------------------------------------------------------
\* eSENCChart::Init, processUserKeyHint

Open(c, full) ==
    /\ gui = Idle
    /\ fails[c] <= MaxFails
    /\ LET k == IF hintTaken \/ HintOf[c] = NoKey THEN key ELSE HintOf[c]
       IN /\ key' = k
          /\ gui' = Reset([at |-> "idle", chart |-> c, full |-> full, step |-> "begin", n |-> 0,
                           senc |-> k,
                           due |-> Readable(c, k) /\ bin /\ \A p \in Procs : procs[p] \in {"none", "ready"}],
                          "begin")
    /\ hintTaken' = TRUE
    /\ last' = Nothing
    /\ UNCHANGED <<procs, proc, bin, fails, Stream, calm>>

-----------------------------------------------------------------------------
\* validate_SENC_server

\* isAvailable(g_UserKey): with an empty key it opens no pipe, and fails.
Probe ==
    /\ gui.at = "probe"
    /\ IF key # NoKey /\ \E p \in Procs : Answers(p)
         THEN GoOn(AfterReset(gui)) /\ UNCHANGED calm
         ELSE /\ GoOn(IF gui.n > 1 THEN At("probe", gui.n - 1) ELSE At("launch", 0))
              /\ calm' = (calm /\ key # NoKey)
    /\ UNCHANGED <<procs, proc, bin, key, Stream>>

Launch(p) ==
    /\ gui.at = "launch" /\ bin
    /\ ~Running(p)
    /\ procs' = [procs EXCEPT ![p] = "starting"]
    /\ proc' = TRUE
    /\ GoOn(At("await", AwaitTries))
    /\ UNCHANGED <<bin, key, calm, Stream>>

\* The program is not there, or it cannot be started and is forgotten.
LaunchFails ==
    /\ gui.at = "launch"
    /\ GoOn(AfterReset(Undue(gui)))
    /\ proc' = (proc /\ ~bin) /\ bin' = FALSE
    /\ calm' = FALSE
    /\ UNCHANGED <<procs, key, Stream>>

\* isAvailable("?")
Await ==
    /\ gui.at = "await"
    /\ IF \E p \in Procs : Answers(p)
         THEN GoOn(AfterReset(gui)) /\ UNCHANGED calm
         ELSE /\ GoOn(IF gui.n > 1 THEN At("await", gui.n - 1) ELSE AfterReset(Undue(gui)))
              /\ calm' = (calm /\ gui.n > 1)
    /\ UNCHANGED <<procs, proc, bin, key, Stream>>

-----------------------------------------------------------------------------
\* validateUserKey

\* The user enters a key, or cancels.
Ask(k) ==
    /\ gui.at = "ask"
    /\ key' = k
    /\ GoOn(Ingest(gui, "try", k))
    /\ UNCHANGED <<procs, proc, bin, calm, Stream>>

KeyErrors == {"SIGNATURE_FAILURE", "SENC_CORRUPT"}

MutSwitched == IF key = NoKey THEN HintOf[gui.chart] ELSE key

\* The key after "extracting userKey from Chartinfo.txt".
Switched == IF HintOf[gui.chart] = NoKey THEN key ELSE HintOf[gui.chart]

\* validateUserKey returns to CreateHeaderDataFromeSENC or BuildRAZFromSENCFile.
KeyValid == GoOn(Ingest(gui, IF gui.full THEN "fullAgain" ELSE "head", key))

\* A call of ingestHeader or ingest200 returns, and its caller goes on.
Ingested(res) ==
    LET s == gui.step
        ok == res = "NO_ERROR"
    IN  /\ NoStream
        /\ key' = IF s = "afterReset" /\ ~ok THEN Switched ELSE key
        /\ \/ s = "try" /\ res \notin KeyErrors /\ KeyValid
           \/ s = "try" /\ res \in KeyErrors /\ GoOn(Ingest(gui, "quiet", gui.senc))
           \/ s \in {"quiet", "afterReset", "hinted"} /\ ok /\ KeyValid
           \/ s = "quiet" /\ ~ok /\ GoOn(Reset(gui, "reset1"))
           \/ s = "afterReset" /\ ~ok /\ GoOn(Reset(gui, "reset2"))
           \/ s = "hinted" /\ ~ok /\ Return(FALSE, <<>>)
           \/ s = "head" /\ ~ok /\ GoOn(Reset(gui, "again"))
           \/ s = "full" /\ res \in KeyErrors /\ GoOn(ValidateKey(gui))
           \/ s = "full" /\ res \notin KeyErrors /\ Return(TRUE, got)
           \/ s \in {"headAgain", "fullAgain"} /\ ~ok /\ Return(FALSE, <<>>)
           \/ s \in {"head", "headAgain", "fullAgain"} /\ ok /\ Return(TRUE, got)
        /\ UNCHANGED <<procs, proc, bin, calm>>

-----------------------------------------------------------------------------
\* Osenc_instream, verifySENC and the record loops

\* What a server sends of a chart it is asked to read with a key.
Answer(c, k) == IF KeyOf[c] = NoKey THEN "noise" ELSE IF KeyOf[c] = k THEN "chart" ELSE "signature"

PipeTo(p) == LET a == Answer(gui.chart, gui.senc)
             IN [mode |-> "pipe", by |-> p, sends |-> a, pos |-> 0, limit |-> Length(gui.chart, a)]

\* The file itself, read without a server.
Plain == LET a == IF KeyOf[gui.chart] = NoKey THEN "chart" ELSE "noise"
         IN [mode |-> "file", by |-> NoProc, sends |-> a, pos |-> 0, limit |-> Length(gui.chart, a)]

\* The public pipe can be written if some process has it open; one that can will
\* answer.
OpenStream ==
    /\ gui.at = "open"
    /\ LET open == {p \in Procs : procs[p] \in {"ready", "stalled"}}
           verify == At("verify", 2)
       IN  \/ /\ gui.senc # NoKey /\ open # {}
              /\ \E p \in open : /\ Answers(p) \/ \A q \in open : ~Answers(q)
                                 /\ conn' = PipeTo(p)
              /\ GoOn(verify) /\ UNCHANGED <<key, got, procs, proc, bin, calm>>
           \/ /\ gui.senc = NoKey
              /\ conn' = Plain
              /\ GoOn(verify) /\ UNCHANGED <<key, got, procs, proc, bin, calm>>
           \/ /\ gui.senc # NoKey /\ open = {} /\ gui.n = 2
              /\ GoOn(At("open", 1)) /\ UNCHANGED <<key, Stream, procs, proc, bin, calm>>
           \/ /\ gui.senc # NoKey /\ open = {} /\ gui.n = 1 /\ Full(gui.step)
              /\ conn' = Plain
              /\ GoOn(verify) /\ UNCHANGED <<key, got, procs, proc, bin, calm>>
           \/ /\ gui.senc # NoKey /\ open = {} /\ gui.n = 1 /\ ~Full(gui.step)
              /\ Ingested("SENCFILE_NOT_FOUND")

\* How many of n units a call of Read may get: the server writes what it can, and
\* one that is slow has written any part of it when Read gives up.
Reads(n) == LET most == IF conn.limit - conn.pos < n THEN conn.limit - conn.pos ELSE n
            IN  IF conn.by # NoProc /\ ~Answers(conn.by) THEN 0..most ELSE {most}

MutAdvance(j) == conn' = [conn EXCEPT !.pos = @ + 2]

Advance(j) == conn' = [conn EXCEPT !.pos = @ + j]

Steady == UNCHANGED <<procs, proc, bin, key, calm>>

\* A base of the version record has been read, if it was read from the beginning.
IsVersion == conn.pos = 0 /\ conn.sends # "noise"

\* The base of the first record.  A short read is tried again from where it
\* stopped; a base of another type sends the plugin to the file itself, once.
VerifyBase ==
    /\ gui.at = "verify" /\ gui.n > 0
    /\ \E j \in Reads(2) :
         \/ /\ j < 2 /\ gui.n = 2
            /\ Advance(j) /\ GoOn(At("verify", 1)) /\ Steady /\ UNCHANGED got
         \/ /\ j < 2 /\ gui.n = 1
            /\ Ingested("SENC_CORRUPT")
         \/ /\ j = 2 /\ IsVersion
            /\ Advance(2) /\ GoOn(At("version", 0)) /\ Steady /\ UNCHANGED got
         \/ /\ j = 2 /\ ~IsVersion
            /\ conn' = Plain /\ GoOn(At("verify", 0)) /\ Steady /\ UNCHANGED got

\* The first record of the file itself.
VerifyPlain ==
    /\ gui.at = "verify" /\ gui.n = 0
    /\ IF IsVersion THEN Advance(2) /\ GoOn(At("version", 0)) /\ Steady /\ UNCHANGED got
                    ELSE Ingested("SENC_CORRUPT")

\* The version, in the record's body.
VerifyVersion ==
    /\ gui.at = "version"
    /\ \E j \in Reads(1) :
         \/ j = 0 /\ Ingested("SENC_CORRUPT")
         \/ j = 1 /\ conn.sends = "signature" /\ Ingested("SIGNATURE_FAILURE")
         \/ /\ j = 1 /\ conn.sends = "chart"
            /\ Advance(1) /\ GoOn(At("records", 0)) /\ Steady /\ UNCHANGED got

\* The record whose base is at the stream's position; a body taken for a base is
\* of no known kind.
Number == (conn.pos - 1) \div 2
Kind   == IF conn.pos % 2 = 1 THEN File[gui.chart][Number] ELSE "alien"

\* A record of a header; for the whole chart, of a feature.
Wanted == Kind \in (IF Full(gui.step) THEN {"header", "feature"} ELSE {"header"})

\* The loop of ingestHeader and that of ingest200: it ends at the first record it
\* does not know or want, and where the stream does, without an error.
NextRecord ==
    /\ gui.at = "records"
    /\ \E j \in Reads(2) :
         \/ /\ j = 2 /\ Wanted
            /\ got' = Append(got, <<gui.chart, Number>>)
            /\ Advance(2) /\ GoOn(gui) /\ Steady
         \/ /\ j = 2 => ~Wanted
            /\ Ingested("NO_ERROR")

-----------------------------------------------------------------------------
\* The server processes, and the plugin as a whole

Serves(p) == conn # Closed /\ conn.by = p

Ready(p) ==
    /\ procs[p] = "starting"
    /\ procs' = [procs EXCEPT ![p] = "ready"]
    /\ UNCHANGED <<globals, gui, Stream, last, calm>>

Upset == calm' = FALSE /\ gui' = Undue(gui)

Stall(p) ==
    /\ procs[p] = "ready"
    /\ procs' = [procs EXCEPT ![p] = "stalled"]
    /\ Upset
    /\ UNCHANGED <<globals, Stream, last>>

Recover(p) ==
    /\ procs[p] = "stalled"
    /\ procs' = [procs EXCEPT ![p] = "ready"]
    /\ UNCHANGED <<globals, gui, Stream, last, calm>>

\* A process is gone; what it has written can still be read.
Die(p) ==
    /\ Running(p)
    /\ procs' = [procs EXCEPT ![p] = "none"]
    /\ IF Serves(p) THEN \E l \in conn.pos..conn.limit : conn' = [conn EXCEPT !.by = NoProc, !.limit = l]
                    ELSE UNCHANGED conn
    /\ Upset
    /\ UNCHANGED <<globals, got, last>>

\* What a session begins with: the configuration may name any key, or none.
Session(ps) ==
    /\ proc' = FALSE /\ bin' = TRUE
    /\ key' \in Keys \cup {NoKey, Invalid}
    /\ hintTaken' = FALSE
    /\ fails' = [c \in Charts |-> 0]
    /\ gui' = Idle /\ NoStream
    /\ last' = Nothing
    /\ calm' = \A p \in Procs : ps[p] = "none"

\* DeInit, and the next start: the exit command, which reaches one
\* process that has the public pipe open.
Quit ==
    /\ gui = Idle
    /\ LET open == {p \in Procs : procs[p] \in {"ready", "stalled"}}
       IN \/ open = {} /\ UNCHANGED procs
          \/ \E p \in open : /\ Answers(p) \/ \A q \in open : ~Answers(q)
                             /\ procs' = [procs EXCEPT ![p] = "none"]
    /\ Session(procs')

\* OpenCPN crashes and is started again; its server processes stay.
Crash ==
    /\ UNCHANGED procs
    /\ Session(procs)

-----------------------------------------------------------------------------
Init ==
    /\ procs = [p \in Procs |-> "none"]
    /\ proc = FALSE /\ bin = TRUE
    /\ key \in Keys \cup {NoKey, Invalid}
    /\ hintTaken = FALSE
    /\ fails = [c \in Charts |-> 0]
    /\ gui = Idle /\ conn = Closed /\ got = <<>>
    /\ last = Nothing
    /\ calm = TRUE

GuiStep ==
    \/ Probe \/ LaunchFails \/ Await
    \/ \E p \in Procs : Launch(p)
    \/ \E k \in Keys \cup {Invalid} : Ask(k)
    \/ OpenStream \/ VerifyBase \/ VerifyPlain \/ VerifyVersion \/ NextRecord

Next ==
    \/ \E c \in Charts, full \in BOOLEAN : Open(c, full)
    \/ GuiStep
    \/ \E p \in Procs : Ready(p) \/ Stall(p) \/ Recover(p) \/ Die(p)
    \/ Quit \/ Crash

Spec == Init /\ [][Next]_vars

\* The GUI thread runs.
FairSpec == Spec /\ WF_vars(GuiStep)

-----------------------------------------------------------------------------
\* Properties

\* Opening a chart that can be read succeeds, header or all of it, with whatever
\* key another directory left in g_UserKey, unless a server was slow, lost or could
\* not be started meanwhile (Init, validateUserKey, BuildRAZFromSENCFile).
CalmOpenSucceeds ==
    last.due => last.ok

\* A session that found no server left has started at most one, unless it was slow
\* or lost, or was probed with an empty key (validate_SENC_server, Shutdown).
OneServer ==
    calm => \A p, q \in Procs : Running(p) /\ Running(q) => p = q

\* Whatever retries, resets and keys it takes, OpenCPN gets the first records of
\* the chart it asked for, each once, or none.
Data == INSTANCE ChartData WITH
    chart <- IF gui = Idle THEN NoChart ELSE gui.chart,
    have  <- got,
    given <- last.data

OpensInOrder == Data!Spec

\* Every call of Init returns: the retries are bounded whatever the servers do.
InitReturns == (gui # Idle) ~> (gui = Idle)
=============================================================================
