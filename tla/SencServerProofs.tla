-------------------------- MODULE SencServerProofs --------------------------
(***************************************************************************)
(* For any charts, keys, hints, numbers of tries and of server processes:   *)
(* what OpenCPN gets of a chart is a beginning of it, in order (SencServer  *)
(* implements ChartData); a chart that can be read is opened if no server   *)
(* is slow or lost; one server runs; and a call is over after a number of    *)
(* steps that the constants give.                                           *)
(*                                                                          *)
(* The invariant says where a call may be (Placed), how far its stream is   *)
(* (Streamed), which server runs (Alone), and what is known of the key of a *)
(* call that is due to succeed (Due).                                       *)
(***************************************************************************)
EXTENDS SencServer, TLAPS

Places == {"probe", "launch", "await", "ask", "open", "verify", "version", "records"}
Streams == {"verify", "version", "records"}
Texts == Keys \cup {NoKey, Invalid}

Call == [at : Places, chart : Charts, full : BOOLEAN, step : Resets \cup Ingests,
         n : 0..(ProbeTries + AwaitTries + 2), senc : Texts, due : BOOLEAN]

\* The key fits the chart, or none is needed.
Fits(k) == KeyOf[gui.chart] = NoKey \/ KeyOf[gui.chart] = k

\* The steps that are taken with a key known to fit.
Sure == {"reset2", "hinted", "head", "again", "headAgain", "fullAgain"}

\* Where the call under way is.
Placed ==
    /\ gui.at \notin Streams => conn = Closed
    /\ gui # Idle =>
         /\ fails[gui.chart] <= MaxFails
         /\ gui.at \in {"probe", "launch", "await"} => gui.step \in Resets
         /\ gui.step # "reset2" => gui.senc = key
         /\ gui.at = "ask" => gui.step \in {"begin", "full"} /\ key \in {NoKey, Invalid}
    /\ gui.at # "records" => got = <<>>

\* What has come through the stream.
Streamed ==
    gui.at \in Streams =>
        /\ conn # Closed
        /\ conn.limit <= Length(gui.chart, conn.sends)
        /\ gui.at = "verify" /\ gui.n \in {0, 2} => conn.pos = 0
        /\ gui.at = "verify" /\ gui.n = 0 => conn.by = NoProc /\ conn.limit = Length(gui.chart, conn.sends)
        /\ gui.at = "version" => conn.pos = 2 /\ conn.sends # "noise"
        /\ gui.at = "records" => conn.pos = 3 + 2 * Len(got) /\ conn.sends = "chart"
        /\ conn.sends = "chart" => Fits(gui.senc)

\* A server of this session that was never slow answers, or has been launched just now.
Alone ==
    calm =>
      \/ ~proc /\ gui.at \notin {"probe", "await"} /\ \A p \in Procs : ~Running(p)
      \/ /\ proc /\ gui.at # "launch"
         /\ \E p \in Procs : /\ \A q \in Procs \ {p} : ~Running(q)
                             /\ procs[p] = "ready" \/ (procs[p] = "starting" /\ gui.at = "await")

\* What fits comes whole.
Whole ==
    gui.at \in Streams /\ Fits(gui.senc) =>
      /\ conn.limit = Length(gui.chart, conn.sends)
      /\ conn.by = NoProc \/ Answers(conn.by)
      /\ gui.at = "verify" => gui.n \in {0, 2}
      /\ conn.sends # "chart" => /\ conn.sends = "noise" /\ KeyOf[gui.chart] = NoKey
                                 /\ gui.at = "verify" /\ gui.n = 2

\* A call that is due to succeed: a server answers once one was found, and the right
\* key is in use or is the one beside the chart.
Due ==
    gui # Idle /\ gui.due =>
      /\ \A p \in Procs : procs[p] # "stalled"
      /\ gui.at \in {"ask", "open"} \cup Streams => \E p \in Procs : Answers(p)
      /\ IF gui.step \in Sure THEN Fits(key) ELSE Readable(gui.chart, key)
      /\ Whole

IInv == TypeOK /\ Placed /\ Streamed /\ Alone /\ Due /\ CalmOpenSucceeds

-----------------------------------------------------------------------------
\* The records a call goes through

LEMMA OfGui ==
    ASSUME gui \in Gui
    PROVE  /\ gui = Idle \/ gui \in Call
           /\ gui \in Call => gui # Idle /\ gui.at \in Places
           /\ gui = Idle <=> gui.at = "idle"
BY DEF Gui, Call, Places, Texts, Idle

LEMMA CallIsGui == Call \subseteq Gui /\ Idle \in Gui /\ Idle.at = "idle"
BY DEF Gui, Call, Places, Texts, Idle

LEMMA NotIdle == \A g \in Call : g # Idle /\ g.chart \in Charts
BY DEF Call, Idle, Places

Draft == [at : Places \cup {"idle"}, chart : Charts, full : BOOLEAN, step : Resets \cup Ingests,
          n : 0..(ProbeTries + AwaitTries + 2), senc : Texts, due : BOOLEAN]

Same(g, h) == g.chart = h.chart /\ g.full = h.full /\ g.due = h.due

LEMMA CallIsDraft == Call \subseteq Draft
BY DEF Call, Draft

LEMMA DraftIsCall ==
    ASSUME NEW g \in Draft, g.at \in Places
    PROVE  g \in Call
BY DEF Draft, Call

LEMMA Tries == ProbeTries \in Nat \ {0} /\ AwaitTries \in Nat \ {0} /\ MaxFails \in Nat
BY SencAssumption DEF SencAssumption

LEMMA AtIs ==
    ASSUME gui \in Call, NEW p \in Places, NEW n \in 0..(ProbeTries + AwaitTries + 2)
    PROVE  /\ At(p, n) \in Call /\ Same(At(p, n), gui)
           /\ At(p, n).at = p /\ At(p, n).n = n
           /\ At(p, n).step = gui.step /\ At(p, n).senc = gui.senc
BY DEF At, Call, Same

LEMMA UndueIs ==
    ASSUME NEW g \in Call
    PROVE  /\ Undue(g) \in Call /\ Undue(g).due = FALSE
           /\ Undue(g).at = g.at /\ Undue(g).chart = g.chart /\ Undue(g).full = g.full
           /\ Undue(g).step = g.step /\ Undue(g).senc = g.senc /\ Undue(g).n = g.n
<1>1. g # Idle
  BY DEF Call, Idle, Places
<1>2. Undue(g) = [g EXCEPT !.due = FALSE]
  BY <1>1 DEF Undue
<1> QED
  BY <1>2 DEF Call

LEMMA ResetIs ==
    ASSUME NEW g \in Draft, NEW s \in Resets
    PROVE  /\ Reset(g, s) \in Call /\ Same(Reset(g, s), g)
           /\ Reset(g, s).at = (IF proc THEN "probe" ELSE "launch")
           /\ Reset(g, s).step = s /\ Reset(g, s).senc = g.senc
<1>0. 0 \in 0..(ProbeTries + AwaitTries + 2) /\ ProbeTries \in 0..(ProbeTries + AwaitTries + 2)
  BY Tries
<1>1. CASE proc
  <2>1. Reset(g, s) = [g EXCEPT !.at = "probe", !.n = ProbeTries, !.step = s]
    BY <1>1 DEF Reset
  <2> QED
    BY <1>0, <1>1, <2>1 DEF Draft, Call, Places, Same
<1>2. CASE ~proc
  <2>1. Reset(g, s) = [g EXCEPT !.at = "launch", !.n = 0, !.step = s]
    BY <1>2 DEF Reset
  <2> QED
    BY <1>0, <1>2, <2>1 DEF Draft, Call, Places, Same
<1> QED
  BY <1>1, <1>2

LEMMA IngestIs ==
    ASSUME NEW g \in Draft, NEW s \in Ingests, NEW k \in Texts
    PROVE  /\ Ingest(g, s, k) \in Call /\ Same(Ingest(g, s, k), g)
           /\ Ingest(g, s, k).at = "open" /\ Ingest(g, s, k).n = 2
           /\ Ingest(g, s, k).step = s /\ Ingest(g, s, k).senc = k
<1>1. 2 \in 0..(ProbeTries + AwaitTries + 2)
  BY Tries
<1> DEFINE h == [g EXCEPT !.at = "open", !.n = 2]
<1>2. h \in Draft /\ Same(h, g) /\ h.at = "open" /\ h.n = 2
  BY <1>1 DEF Draft, Places, Same
<1>3. Ingest(g, s, k) = [h EXCEPT !.step = s, !.senc = k]
  BY DEF Ingest
<1> HIDE DEF h
<1>4. Ingest(g, s, k) \in Draft
  BY <1>2, <1>3 DEF Draft
<1>5. /\ Same(Ingest(g, s, k), g) /\ Ingest(g, s, k).at = "open" /\ Ingest(g, s, k).n = 2
      /\ Ingest(g, s, k).step = s /\ Ingest(g, s, k).senc = k
  BY <1>2, <1>3 DEF Draft, Same
<1> QED
  BY <1>4, <1>5, DraftIsCall DEF Places

LEMMA ValidateIs ==
    ASSUME NEW g \in Draft, key \in Texts
    PROVE  /\ ValidateKey(g) \in Call /\ Same(ValidateKey(g), g)
           /\ \/ /\ ValidateKey(g).at = "ask" /\ key \in {NoKey, Invalid}
                 /\ ValidateKey(g).step = g.step /\ ValidateKey(g).senc = g.senc
              \/ /\ ValidateKey(g).at = "open" /\ ValidateKey(g).step = "try"
                 /\ ValidateKey(g).senc = key /\ ValidateKey(g).n = 2
<1>1. CASE key \in {NoKey, Invalid}
  <2>1. ValidateKey(g) = [g EXCEPT !.at = "ask", !.n = 0]
    BY <1>1 DEF ValidateKey
  <2>2. 0 \in 0..(ProbeTries + AwaitTries + 2)
    BY Tries
  <2> QED
    BY <1>1, <2>1, <2>2 DEF Draft, Call, Places, Same
<1>2. CASE key \notin {NoKey, Invalid}
  <2>1. ValidateKey(g) = Ingest(g, "try", key)
    BY <1>2 DEF ValidateKey
  <2>2. "try" \in Ingests
    BY DEF Ingests
  <2> QED
    BY <2>1, <2>2, IngestIs
<1> QED
  BY <1>1, <1>2

LEMMA AfterIs ==
    ASSUME NEW g \in Call, g.step \in Resets, key \in Texts
    PROVE  /\ AfterReset(g) \in Call /\ Same(AfterReset(g), g)
           /\ \/ /\ g.step = "begin" /\ AfterReset(g).at = "ask" /\ key \in {NoKey, Invalid}
                 /\ AfterReset(g).step = "begin" /\ AfterReset(g).senc = g.senc
              \/ /\ AfterReset(g).at = "open"
                 /\ \/ g.step = "begin" /\ AfterReset(g).step \in {"full", "try"} /\ AfterReset(g).senc = key
                    \/ g.step = "reset1" /\ AfterReset(g).step = "afterReset" /\ AfterReset(g).senc = g.senc
                    \/ g.step = "reset2" /\ AfterReset(g).step = "hinted" /\ AfterReset(g).senc = key
                    \/ g.step = "again" /\ AfterReset(g).step = "headAgain" /\ AfterReset(g).senc = g.senc
<1>0. g \in Draft /\ g.senc \in Texts /\ {"full", "try", "afterReset", "hinted", "headAgain"} \subseteq Ingests
  BY CallIsDraft DEF Call, Ingests
<1>1. CASE g.step = "begin" /\ g.full
  <2>1. AfterReset(g) = Ingest(g, "full", key)
    BY <1>1 DEF AfterReset
  <2> QED
    BY <1>0, <1>1, <2>1, IngestIs
<1>2. CASE g.step = "begin" /\ ~g.full
  <2>1. AfterReset(g) = ValidateKey(g)
    BY <1>2 DEF AfterReset
  <2> QED
    BY <1>0, <1>2, <2>1, ValidateIs
<1>3. CASE g.step = "reset1"
  <2>1. AfterReset(g) = Ingest(g, "afterReset", g.senc)
    BY <1>3 DEF AfterReset
  <2> QED
    BY <1>0, <1>3, <2>1, IngestIs
<1>4. CASE g.step = "reset2"
  <2>1. AfterReset(g) = Ingest(g, "hinted", key)
    BY <1>4 DEF AfterReset
  <2> QED
    BY <1>0, <1>4, <2>1, IngestIs
<1>5. CASE g.step = "again"
  <2>1. AfterReset(g) = Ingest(g, "headAgain", g.senc)
    BY <1>5 DEF AfterReset
  <2> QED
    BY <1>0, <1>5, <2>1, IngestIs
<1> QED
  BY <1>1, <1>2, <1>3, <1>4, <1>5 DEF Resets

-----------------------------------------------------------------------------
\* How a step looks to OpenCPN

Opens == [Data!Next]_<<IF gui = Idle THEN NoChart ELSE gui.chart, got, last.data>>

LEMMA OpenIsBegin ==
    ASSUME NEW c \in Charts, gui = Idle, gui' # Idle, gui'.chart = c, got' = <<>>, last' = Nothing
    PROVE  Opens
BY DEF Opens, Data!Next, Data!Begin, Nothing

LEMMA SameIsStutter ==
    ASSUME gui # Idle <=> gui' # Idle, gui # Idle => gui'.chart = gui.chart,
           got' = got, last' = last
    PROVE  Opens
BY DEF Opens

LEMMA AgainIsStartOver ==
    ASSUME gui # Idle, gui' # Idle, gui.chart \in Charts, gui'.chart = gui.chart, got' = <<>>, last' = last
    PROVE  Opens
BY SencAssumption DEF Opens, Data!Next, Data!StartOver, SencAssumption

LEMMA ReturnIsGive ==
    ASSUME gui # Idle, gui.chart \in Charts, gui' = Idle, got' = <<>>, last'.data \in {got, <<>>}
    PROVE  Opens
BY SencAssumption DEF Opens, Data!Next, Data!Give, SencAssumption

LEMMA RecordIsTake ==
    ASSUME gui # Idle, gui' = gui, gui.chart \in Charts, Len(got) < Len(File[gui.chart]),
           got' = Append(got, <<gui.chart, Len(got) + 1>>), last' = last
    PROVE  Opens
BY SencAssumption DEF Opens, Data!Next, Data!Take, SencAssumption

LEMMA SessionIsForget ==
    ASSUME gui' = Idle, got' = <<>>, last' = Nothing
    PROVE  Opens
BY DEF Opens, Data!Next, Data!Forget, Nothing

-----------------------------------------------------------------------------
\* What the invariant says of a call that has no stream open

TypedMove ==
    /\ procs' \in [Procs -> ProcStates]
    /\ proc' \in BOOLEAN /\ bin' \in BOOLEAN
    /\ key' \in Texts
    /\ calm' \in BOOLEAN

\* The same call goes on, without a stream: what its step and its key must be.
LEMMA Moves ==
    ASSUME IInv, gui \in Call, gui' \in Call, gui'.chart = gui.chart, gui'.at \notin Streams,
           conn' = Closed, got' = <<>>, UNCHANGED <<fails, hintTaken, last>>,
           TypedMove,
           gui'.at \in {"probe", "launch", "await"} => gui'.step \in Resets,
           gui'.step # "reset2" => gui'.senc = key',
           gui'.at = "ask" => gui'.step \in {"begin", "full"} /\ key' \in {NoKey, Invalid}
    PROVE  TypeOK' /\ Placed' /\ Streamed' /\ CalmOpenSucceeds' /\ Opens
<1>1. gui # Idle /\ gui' # Idle /\ gui.chart \in Charts /\ gui' \in Gui
  BY OfGui, CallIsGui DEF Call, Idle
<1>2. Closed \in Conn /\ <<>> \in Seq(Charts \X Nat)
  BY DEF Conn
<1>3. TypeOK'
  BY <1>1, <1>2 DEF IInv, TypeOK, TypedMove, Texts
<1>4. Placed'
  BY <1>1 DEF IInv, Placed
<1>5. Streamed'
  BY DEF Streamed
<1>6. CalmOpenSucceeds'
  BY DEF IInv, CalmOpenSucceeds
<1> QED
  BY <1>1, <1>3, <1>4, <1>5, <1>6, AgainIsStartOver

LEMMA Returns ==
    ASSUME IInv, gui \in Call, conn' = Closed, got' = <<>>, UNCHANGED <<procs, proc, bin, calm>>,
           key' \in Texts, NEW ok \in BOOLEAN, NEW data \in {got, <<>>}, Return(ok, data),
           gui.due => ok, gui.at # "await"
    PROVE  IInv' /\ Opens
<1>1. gui # Idle /\ gui' = Idle /\ gui.chart \in Charts /\ Idle \in Gui /\ Idle.at = "idle" /\ gui.due \in BOOLEAN
  BY OfGui, CallIsGui DEF Return, Call
<1>2. Closed \in Conn /\ <<>> \in Seq(Charts \X Nat)
  BY DEF Conn
<1>3. last' = [ok |-> ok, due |-> gui.due, data |-> data] /\ hintTaken' \in BOOLEAN
  BY DEF Return, IInv, TypeOK
<1>4. fails' \in [Charts -> 0..(MaxFails + 1)]
  <2>1. fails[gui.chart] <= MaxFails /\ fails[gui.chart] \in Nat
    BY <1>1, Tries DEF IInv, Placed, TypeOK
  <2>2. (IF ok THEN 0 ELSE fails[gui.chart] + 1) \in 0..(MaxFails + 1)
    BY <2>1, Tries
  <2>3. fails' = [fails EXCEPT ![gui.chart] = IF ok THEN 0 ELSE fails[gui.chart] + 1]
    BY <1>1 DEF Return, IInv, TypeOK
  <2> QED
    BY <1>1, <2>2, <2>3 DEF IInv, TypeOK
<1>5. data \in Seq(Charts \X Nat)
  BY <1>2 DEF IInv, TypeOK
<1>6. TypeOK'
  BY <1>1, <1>2, <1>3, <1>4, <1>5 DEF IInv, TypeOK, Texts
<1>7. Placed' /\ Streamed' /\ Due'
  BY <1>1 DEF Placed, Streamed, Due, Streams
<1>8. Alone'
  BY <1>1 DEF IInv, Alone, Running
<1>9. CalmOpenSucceeds'
  BY <1>1, <1>3 DEF CalmOpenSucceeds
<1>10. Opens
  BY <1>1, <1>3, ReturnIsGive
<1> QED
  BY <1>6, <1>7, <1>8, <1>9, <1>10 DEF IInv

-----------------------------------------------------------------------------
\* validate_SENC_server and the user's key

LEMMA InCall ==
    ASSUME IInv, gui.at # "idle"
    PROVE  gui \in Call /\ gui # Idle /\ key \in Texts /\ gui.due \in BOOLEAN /\ gui.chart \in Charts
BY OfGui DEF IInv, TypeOK, Texts, Call

\* A server was found, or it was given up: what the caller does next.
LEMMA AfterKeeps ==
    ASSUME IInv, gui.at \in {"probe", "launch", "await"}, NEW g \in {gui, Undue(gui)},
           GoOn(AfterReset(g)), UNCHANGED <<procs, key, Stream>>,
           proc' \in BOOLEAN, bin' \in BOOLEAN, calm' \in BOOLEAN,
           g.due => \E p \in Procs : Answers(p)
    PROVE  /\ TypeOK' /\ Placed' /\ Streamed' /\ CalmOpenSucceeds' /\ Opens /\ Due'
           /\ gui'.at \in {"ask", "open"}
<1>1. /\ gui \in Call /\ gui # Idle /\ key \in Texts /\ gui.step \in Resets /\ gui.due \in BOOLEAN
      /\ gui.at \notin Streams
  BY InCall DEF IInv, Placed, Streams
<1>2. /\ g \in Call /\ g.chart = gui.chart /\ g.step = gui.step /\ g.senc = gui.senc
      /\ g.due => gui.due /\ \E p \in Procs : Answers(p)
  BY <1>1, UndueIs
<1>3. gui' = AfterReset(g) /\ UNCHANGED <<fails, hintTaken, last>>
  BY DEF GoOn
<1>4. gui' \in Call /\ gui'.chart = gui.chart /\ gui'.due = g.due
  BY <1>1, <1>2, <1>3, AfterIs DEF Same
<1>5. \/ /\ gui.step = "begin" /\ gui'.at = "ask" /\ key \in {NoKey, Invalid}
         /\ gui'.step = "begin" /\ gui'.senc = gui.senc
      \/ /\ gui'.at = "open"
         /\ \/ gui.step = "begin" /\ gui'.step \in {"full", "try"} /\ gui'.senc = key
            \/ gui.step = "reset1" /\ gui'.step = "afterReset" /\ gui'.senc = gui.senc
            \/ gui.step = "reset2" /\ gui'.step = "hinted" /\ gui'.senc = key
            \/ gui.step = "again" /\ gui'.step = "headAgain" /\ gui'.senc = gui.senc
  BY <1>1, <1>2, <1>3, AfterIs
<1>6. gui'.at \in {"ask", "open"} /\ gui'.at \notin Streams
  BY <1>5 DEF Streams
<1>7. gui'.step # "reset2" /\ gui'.senc = key /\ (gui'.step \in Sure <=> gui.step \in Sure)
  BY <1>1, <1>5 DEF Sure, IInv, Placed
<1>8. conn' = Closed /\ got' = <<>>
  BY <1>1 DEF IInv, Placed, Stream, Streams
<1>9. TypedMove
  BY <1>1 DEF TypedMove, IInv, TypeOK
<1>10. TypeOK' /\ Placed' /\ Streamed' /\ CalmOpenSucceeds' /\ Opens
  <2>1. gui'.at = "ask" => gui'.step \in {"begin", "full"} /\ key' \in {NoKey, Invalid}
    BY <1>5 DEF Sure
  <2> QED
    BY <1>1, <1>3, <1>4, <1>6, <1>7, <1>8, <1>9, <2>1, Moves
<1>11. Due'
  <2>1. SUFFICES ASSUME gui'.due PROVE Due'
    BY DEF Due
  <2>2. gui.due /\ (\E p \in Procs : Answers(p)) /\ procs' = procs /\ key' = key
    BY <1>2, <1>4, <2>1
  <2> QED
    BY <1>1, <1>4, <1>6, <1>7, <2>2 DEF IInv, Due, Whole, Fits, Readable, Answers
<1> QED
  BY <1>6, <1>10, <1>11

LEMMA AtKeeps ==
    ASSUME IInv, gui.at \in {"probe", "launch", "await"},
           NEW p \in {"probe", "launch", "await"}, NEW n \in 0..(ProbeTries + AwaitTries + 2),
           GoOn(At(p, n)), UNCHANGED <<bin, key, Stream>>,
           procs' \in [Procs -> ProcStates], \A q \in Procs : procs'[q] = "stalled" => procs[q] = "stalled",
           proc' \in BOOLEAN, calm' \in BOOLEAN
    PROVE  TypeOK' /\ Placed' /\ Streamed' /\ CalmOpenSucceeds' /\ Opens /\ Due' /\ gui'.at = p
<1>1. /\ gui \in Call /\ gui # Idle /\ key \in Texts /\ gui.step \in Resets
      /\ gui.at \notin Streams
  BY InCall DEF IInv, Placed, Streams
<1>2. gui' = At(p, n) /\ UNCHANGED <<fails, hintTaken, last>> /\ p \in Places /\ p \notin Streams
  BY DEF GoOn, Places, Streams
<1>3. /\ gui' \in Call /\ gui'.chart = gui.chart /\ gui'.due = gui.due /\ gui'.at = p
      /\ gui'.step = gui.step /\ gui'.senc = gui.senc
  BY <1>1, <1>2, AtIs DEF Same
<1>4. conn' = Closed /\ got' = <<>> /\ TypedMove
  BY <1>1 DEF IInv, Placed, Stream, Streams, TypedMove, TypeOK, Texts
<1>5. TypeOK' /\ Placed' /\ Streamed' /\ CalmOpenSucceeds' /\ Opens
  <2>1. gui'.step # "reset2" => gui'.senc = key'
    BY <1>1, <1>3 DEF IInv, Placed
  <2> QED
    BY <1>1, <1>2, <1>3, <1>4, <2>1, Moves
<1>6. Due'
  BY <1>1, <1>2, <1>3 DEF IInv, Due, Whole, Fits, Readable, Streams
<1> QED
  BY <1>3, <1>5, <1>6

LEMMA ProbeKeeps == ASSUME IInv, Probe PROVE IInv' /\ Opens
<1>1. /\ gui.at = "probe" /\ UNCHANGED <<procs, proc, bin, key, Stream>> /\ gui \in Call
      /\ proc \in BOOLEAN /\ bin \in BOOLEAN /\ calm \in BOOLEAN /\ procs \in [Procs -> ProcStates]
  BY InCall DEF Probe, IInv, TypeOK
<1>2. CASE key # NoKey /\ \E p \in Procs : Answers(p)
  <2>1. GoOn(AfterReset(gui)) /\ calm' = calm
    BY <1>2 DEF Probe
  <2>2. /\ TypeOK' /\ Placed' /\ Streamed' /\ CalmOpenSucceeds' /\ Opens /\ Due'
        /\ gui'.at \in {"ask", "open"}
    BY <1>1, <1>2, <2>1, AfterKeeps
  <2>3. Alone'
    BY <1>1, <2>1, <2>2 DEF IInv, Alone, Running
  <2> QED
    BY <2>2, <2>3 DEF IInv
<1>3. CASE ~(key # NoKey /\ \E p \in Procs : Answers(p))
  <2>1. /\ GoOn(IF gui.n > 1 THEN At("probe", gui.n - 1) ELSE At("launch", 0))
        /\ calm' = (calm /\ key # NoKey)
    BY <1>3 DEF Probe
  <2>2. gui.n \in 0..(ProbeTries + AwaitTries + 2)
    BY <1>1 DEF Call
  <2>3. PICK p \in {"probe", "launch"}, n \in 0..(ProbeTries + AwaitTries + 2) : GoOn(At(p, n))
    <3>1. CASE gui.n > 1
      BY <2>1, <2>2, <3>1, Tries
    <3>2. CASE ~(gui.n > 1)
      BY <2>1, <2>2, <3>2, Tries
    <3> QED
      BY <3>1, <3>2
  <2>4. TypeOK' /\ Placed' /\ Streamed' /\ CalmOpenSucceeds' /\ Opens /\ Due' /\ gui'.at = p
    <3>1. calm' \in BOOLEAN
      BY <2>1
    <3> QED
      BY <1>1, <2>3, <3>1, AtKeeps
  <2>5. ~calm'
    BY <1>1, <1>3, <2>1 DEF IInv, Alone, Answers
  <2>6. Alone'
    BY <2>5 DEF Alone
  <2> QED
    BY <2>4, <2>6 DEF IInv
<1> QED
  BY <1>2, <1>3

LEMMA LaunchKeeps == ASSUME IInv, NEW p \in Procs, Launch(p) PROVE IInv' /\ Opens
<1>1. /\ gui.at = "launch" /\ ~Running(p) /\ procs' = [procs EXCEPT ![p] = "starting"] /\ proc' = TRUE
      /\ GoOn(At("await", AwaitTries)) /\ UNCHANGED <<bin, key, calm, Stream>>
  BY DEF Launch
<1>2. /\ AwaitTries \in 0..(ProbeTries + AwaitTries + 2) /\ calm' \in BOOLEAN
      /\ procs' \in [Procs -> ProcStates] /\ \A q \in Procs : procs'[q] = "stalled" => procs[q] = "stalled"
  BY <1>1, Tries DEF IInv, TypeOK, ProcStates
<1>3. TypeOK' /\ Placed' /\ Streamed' /\ CalmOpenSucceeds' /\ Opens /\ Due' /\ gui'.at = "await"
  BY <1>1, <1>2, AtKeeps
<1>4. Alone'
  <2>1. calm => \A q \in Procs : ~Running(q)
    BY <1>1 DEF IInv, Alone
  <2>2. calm' => (\A q \in Procs \ {p} : ~Running(q)') /\ procs'[p] = "starting"
    BY <1>1, <2>1 DEF Running, IInv, TypeOK
  <2> QED
    BY <1>1, <1>3, <2>2 DEF Alone
<1> QED
  BY <1>3, <1>4 DEF IInv

LEMMA LaunchFailsKeeps == ASSUME IInv, LaunchFails PROVE IInv' /\ Opens
<1>1. /\ gui.at = "launch" /\ GoOn(AfterReset(Undue(gui))) /\ UNCHANGED <<procs, key, Stream>>
      /\ proc' \in BOOLEAN /\ bin' \in BOOLEAN /\ calm' = FALSE
  BY DEF LaunchFails
<1>2. ~Undue(gui).due
  BY <1>1, InCall, UndueIs
<1>3. TypeOK' /\ Placed' /\ Streamed' /\ CalmOpenSucceeds' /\ Opens /\ Due'
  BY <1>1, <1>2, AfterKeeps
<1> QED
  BY <1>1, <1>3 DEF IInv, Alone

LEMMA AwaitKeeps == ASSUME IInv, Await PROVE IInv' /\ Opens
<1>1. /\ gui.at = "await" /\ UNCHANGED <<procs, proc, bin, key, Stream>> /\ gui \in Call
      /\ proc \in BOOLEAN /\ bin \in BOOLEAN /\ calm \in BOOLEAN /\ procs \in [Procs -> ProcStates]
  BY InCall DEF Await, IInv, TypeOK
<1>2. CASE \E p \in Procs : Answers(p)
  <2>1. GoOn(AfterReset(gui)) /\ calm' = calm
    BY <1>2 DEF Await
  <2>2. /\ TypeOK' /\ Placed' /\ Streamed' /\ CalmOpenSucceeds' /\ Opens /\ Due'
        /\ gui'.at \in {"ask", "open"}
    BY <1>1, <1>2, <2>1, AfterKeeps
  <2>3. Alone'
    BY <1>1, <1>2, <2>1, <2>2 DEF IInv, Alone, Running, Answers
  <2> QED
    BY <2>2, <2>3 DEF IInv
<1>3. CASE ~\E p \in Procs : Answers(p)
  <2>1. /\ GoOn(IF gui.n > 1 THEN At("await", gui.n - 1) ELSE AfterReset(Undue(gui)))
        /\ calm' = (calm /\ gui.n > 1)
    BY <1>3 DEF Await
  <2>2. gui.n \in 0..(ProbeTries + AwaitTries + 2) /\ calm' \in BOOLEAN
    BY <1>1, <2>1 DEF Call
  <2>3. CASE gui.n > 1
    <3>1. GoOn(At("await", gui.n - 1)) /\ gui.n - 1 \in 0..(ProbeTries + AwaitTries + 2)
      BY <2>1, <2>2, <2>3, Tries
    <3>0. calm' = calm
      BY <1>1, <2>1, <2>3
    <3>2. TypeOK' /\ Placed' /\ Streamed' /\ CalmOpenSucceeds' /\ Opens /\ Due' /\ gui'.at = "await"
      BY <1>1, <2>2, <3>1, AtKeeps
    <3>3. Alone'
      BY <1>1, <3>0, <3>2 DEF IInv, Alone, Running
    <3> QED
      BY <3>2, <3>3 DEF IInv
  <2>4. CASE ~(gui.n > 1)
    <3>1. GoOn(AfterReset(Undue(gui))) /\ calm' = FALSE /\ ~Undue(gui).due
      BY <1>1, <2>1, <2>4, UndueIs
    <3>2. TypeOK' /\ Placed' /\ Streamed' /\ CalmOpenSucceeds' /\ Opens /\ Due'
      BY <1>1, <3>1, AfterKeeps
    <3> QED
      BY <3>1, <3>2 DEF IInv, Alone
  <2> QED
    BY <2>3, <2>4
<1> QED
  BY <1>2, <1>3

\* A call that need not ask is due with any key.
LEMMA AnyKey ==
    ASSUME NEW c \in Charts, Readable(c, key), key \in {NoKey, Invalid}, NEW k
    PROVE  Readable(c, k)
BY SencAssumption DEF SencAssumption, Readable

LEMMA AskKeeps == ASSUME IInv, NEW k \in Keys \cup {Invalid}, Ask(k) PROVE IInv' /\ Opens
<1>1. /\ gui.at = "ask" /\ key' = k /\ GoOn(Ingest(gui, "try", k)) /\ UNCHANGED <<procs, proc, bin, calm, Stream>>
      /\ k \in Texts /\ "try" \in Ingests /\ "try" # "reset2" /\ "try" \notin Sure
  BY DEF Ask, Texts, Ingests, Sure
<1>2. gui \in Call /\ gui # Idle /\ gui.chart \in Charts /\ gui.at \notin Streams
  BY <1>1, InCall DEF Streams
<1>3. gui' = Ingest(gui, "try", k) /\ UNCHANGED <<fails, hintTaken, last>>
  BY <1>1 DEF GoOn
<1>4. /\ gui' \in Call /\ gui'.chart = gui.chart /\ gui'.due = gui.due /\ gui'.at = "open"
      /\ gui'.step = "try" /\ gui'.senc = k
  BY <1>1, <1>2, <1>3, IngestIs, CallIsDraft DEF Same
<1>5. conn' = Closed /\ got' = <<>> /\ TypedMove /\ "open" \notin Streams
  BY <1>1, <1>2 DEF IInv, Placed, Stream, Streams, TypedMove, TypeOK, Texts
<1>6. TypeOK' /\ Placed' /\ Streamed' /\ CalmOpenSucceeds' /\ Opens
  BY <1>1, <1>2, <1>3, <1>4, <1>5, Moves
<1>7. gui.step \notin Sure
  BY <1>1, <1>2 DEF IInv, Placed, Sure
<1>8. Due'
  <2>1. SUFFICES ASSUME gui'.due PROVE Due'
    BY DEF Due
  <2>2. Readable(gui.chart, k)
    <3>1. Readable(gui.chart, key)
      BY <1>2, <1>4, <1>7, <2>1 DEF IInv, Due
    <3>2. key \in {NoKey, Invalid}
      BY <1>1, <1>2 DEF IInv, Placed
    <3> QED
      BY <1>2, <3>1, <3>2, AnyKey
  <2> QED
    BY <1>1, <1>2, <1>4, <1>5, <2>1, <2>2 DEF IInv, Due, Whole, Readable, Answers, Streams
<1>9. Alone'
  BY <1>1, <1>4 DEF IInv, Alone, Running
<1> QED
  BY <1>6, <1>8, <1>9 DEF IInv

-----------------------------------------------------------------------------
\* Calls of ingestHeader and ingest200

\* Within a stream: the call, its key and the servers are as before.
LEMMA StreamsOn ==
    ASSUME IInv, gui \in Call, gui.at \in {"open"} \cup Streams,
           gui' \in Call, gui'.chart = gui.chart, gui'.due = gui.due, gui'.step = gui.step,
           gui'.senc = gui.senc, gui'.at \in Streams,
           Steady, UNCHANGED <<fails, hintTaken, last>>,
           conn' \in Conn, conn' # Closed, conn'.pos <= conn'.limit,
           got' \in Seq(Charts \X Nat), gui'.at # "records" => got' = <<>>,
           Streamed', gui.due => Whole', Opens
    PROVE  IInv' /\ Opens
<1>1. gui # Idle /\ gui' # Idle /\ gui' \in Gui /\ UNCHANGED <<procs, proc, bin, key, calm>>
  BY NotIdle, CallIsGui DEF Steady
<1>2. TypeOK'
  BY <1>1 DEF IInv, TypeOK
<1>3. /\ gui'.at \notin {"probe", "launch", "await", "ask"} /\ gui.at \notin {"probe", "launch", "await"}
  BY DEF Streams
<1>4. Placed'
  BY <1>1, <1>3 DEF IInv, Placed
<1>5. Alone'
  BY <1>1, <1>3 DEF IInv, Alone, Running
<1>6. Due'
  BY <1>1 DEF IInv, Due, Fits, Readable, Answers
<1>7. CalmOpenSucceeds'
  BY DEF IInv, CalmOpenSucceeds
<1> QED
  BY <1>2, <1>4, <1>5, <1>6, <1>7 DEF IInv

\* The same call, with its stream closed, goes on to another of its steps.
LEMMA GoesOn ==
    ASSUME IInv, gui \in Call, gui.at \in {"open"} \cup Streams, NEW g \in Call, GoOn(g),
           g.chart = gui.chart, g.due = gui.due, NoStream, UNCHANGED <<procs, proc, bin, calm>>,
           key' \in Texts,
           \/ g.at = (IF proc THEN "probe" ELSE "launch") /\ g.step \in Resets
           \/ g.at = "open"
           \/ g.at = "ask" /\ g.step \in {"begin", "full"} /\ key' \in {NoKey, Invalid},
           g.step # "reset2" => g.senc = key',
           gui.due => IF g.step \in Sure THEN Fits(key') ELSE Readable(gui.chart, key')
    PROVE  IInv' /\ Opens
<1>1. /\ gui' = g /\ UNCHANGED <<fails, hintTaken, last>> /\ conn' = Closed /\ got' = <<>>
      /\ gui # Idle /\ gui' # Idle /\ gui.chart \in Charts
  BY NotIdle DEF GoOn, NoStream
<1>2. gui'.at \notin Streams /\ gui'.at # "await" /\ gui.at \notin {"probe", "launch", "await"}
  BY <1>1 DEF Streams
<1>3. TypedMove
  BY DEF IInv, TypeOK, TypedMove
<1>4. TypeOK' /\ Placed' /\ Streamed' /\ CalmOpenSucceeds' /\ Opens
  BY <1>1, <1>2, <1>3, Moves
<1>5. Alone'
  BY <1>1, <1>2 DEF IInv, Alone, Running
<1>6. Due'
  <2>1. SUFFICES ASSUME gui'.due PROVE Due'
    BY DEF Due
  <2>2. gui.due /\ gui'.chart = gui.chart
    BY <1>1, <2>1
  <2>3. Whole'
    BY <1>2 DEF Whole
  <2>4. IF gui'.step \in Sure THEN Fits(key)' ELSE Readable(gui.chart, key)'
    BY <1>1, <2>2 DEF Fits, Readable
  <2> QED
    BY <1>1, <2>2, <2>3, <2>4 DEF IInv, Due, Answers
<1> QED
  BY <1>4, <1>5, <1>6 DEF IInv

LEMMA KeyValidKeeps ==
    ASSUME IInv, gui \in Call, gui.at \in {"open"} \cup Streams, KeyValid, key' = key,
           NoStream, UNCHANGED <<procs, proc, bin, calm>>, gui.due => Fits(key)
    PROVE  IInv' /\ Opens
<1> DEFINE s == IF gui.full THEN "fullAgain" ELSE "head"
           g == Ingest(gui, s, key)
<1>1. s \in Ingests /\ s \in Sure /\ s # "reset2"
  BY DEF Ingests, Sure
<1>2. key \in Texts
  BY DEF IInv, TypeOK, Texts
<1>3. GoOn(g)
  BY DEF KeyValid
<1> HIDE DEF s
<1>4. g \in Call /\ g.chart = gui.chart /\ g.due = gui.due /\ g.at = "open" /\ g.step = s /\ g.senc = key
  BY <1>1, <1>2, IngestIs, CallIsDraft DEF Same
<1> HIDE DEF g
<1>5. key' \in Texts /\ (gui.due => Fits(key'))
  BY <1>2
<1> QED
  BY <1>1, <1>3, <1>4, <1>5, GoesOn

LEMMA ResetKeeps ==
    ASSUME IInv, gui \in Call, gui.at \in {"open"} \cup Streams, NEW s \in Resets,
           GoOn(Reset(gui, s)), NoStream, UNCHANGED <<procs, proc, bin, calm>>,
           key' \in Texts, s # "reset2" => gui.senc = key',
           gui.due => IF s \in Sure THEN Fits(key') ELSE Readable(gui.chart, key')
    PROVE  IInv' /\ Opens
<1> DEFINE g == Reset(gui, s)
<1>1. /\ g \in Call /\ g.chart = gui.chart /\ g.due = gui.due /\ g.step = s /\ g.senc = gui.senc
      /\ g.at = (IF proc THEN "probe" ELSE "launch")
  BY ResetIs, CallIsDraft DEF Same
<1>2. GoOn(g)
  OBVIOUS
<1> HIDE DEF g
<1> QED
  BY <1>1, <1>2, GoesOn

\* The key found beside the chart is right if the one in use is not.
LEMMA SwitchedFits ==
    ASSUME gui \in Call, Readable(gui.chart, key)
    PROVE  Fits(Switched)
BY SencAssumption DEF Readable, Fits, Switched

\* A call returns, and what called it goes on: an error says that the key does not fit.
LEMMA IngestedKeeps ==
    ASSUME IInv, gui \in Call, gui.at \in {"open"} \cup Streams, NEW res, Ingested(res),
           res = "NO_ERROR" => Fits(gui.senc),
           gui.due => res \in KeyErrors \cup {"NO_ERROR"},
           gui.due /\ Fits(gui.senc) => res = "NO_ERROR"
    PROVE  IInv' /\ Opens
<1> DEFINE s == gui.step
           ok == res = "NO_ERROR"
           known == gui.due => IF s \in Sure THEN Fits(key) ELSE Readable(gui.chart, key)
<1>1. /\ NoStream /\ UNCHANGED <<procs, proc, bin, calm>> /\ key \in Texts /\ Switched \in Texts
      /\ key' = IF s = "afterReset" /\ ~ok THEN Switched ELSE key
  BY SencAssumption DEF Ingested, IInv, TypeOK, Texts, Switched, SencAssumption, Call
<1>2. key' \in Texts /\ conn' = Closed /\ got' = <<>> /\ gui.at # "await" /\ gui # Idle
  BY <1>1, NotIdle DEF NoStream, Streams
<1>3. known /\ (s # "reset2" => gui.senc = key)
  BY <1>2 DEF IInv, Due, Placed
<1>4. \/ s = "try" /\ res \notin KeyErrors /\ KeyValid
      \/ s = "try" /\ res \in KeyErrors /\ GoOn(Ingest(gui, "quiet", gui.senc))
      \/ s \in {"quiet", "afterReset", "hinted"} /\ ok /\ KeyValid
      \/ s = "quiet" /\ ~ok /\ GoOn(Reset(gui, "reset1"))
      \/ s = "afterReset" /\ ~ok /\ GoOn(Reset(gui, "reset2"))
      \/ s = "hinted" /\ ~ok /\ Return(FALSE, <<>>)
      \/ s = "head" /\ ~ok /\ GoOn(Reset(gui, "again"))
      \/ s = "full" /\ res \in KeyErrors /\ GoOn(ValidateKey(gui))
      \/ s = "full" /\ res \notin KeyErrors /\ Return(TRUE, got)
      \/ s \in {"headAgain", "fullAgain"} /\ ~ok /\ Return(FALSE, <<>>)
      \/ s \in {"head", "headAgain", "fullAgain"} /\ ok /\ Return(TRUE, got)
  BY DEF Ingested
<1> HIDE DEF ok
<1>5. CASE KeyValid /\ \/ s = "try" /\ res \notin KeyErrors
                       \/ s \in {"quiet", "afterReset", "hinted"} /\ ok
  <2>1. key' = key
    BY <1>1, <1>5
  <2>2. gui.due => Fits(key)
    BY <1>3, <1>5 DEF ok
  <2> QED
    BY <1>1, <1>5, <2>1, <2>2, KeyValidKeeps
<1>6. CASE s = "try" /\ res \in KeyErrors /\ GoOn(Ingest(gui, "quiet", gui.senc))
  <2> DEFINE g == Ingest(gui, "quiet", gui.senc)
  <2>1. "quiet" \in Ingests /\ gui.senc \in Texts /\ "quiet" \notin Sure /\ "quiet" # "reset2" /\ key' = key
    BY <1>1, <1>6 DEF Ingests, Call, Sure
  <2>2. g \in Call /\ g.chart = gui.chart /\ g.due = gui.due /\ g.at = "open" /\ g.step = "quiet" /\ g.senc = gui.senc
    BY <2>1, IngestIs, CallIsDraft DEF Same
  <2>3. GoOn(g)
    BY <1>6
  <2> HIDE DEF g
  <2>4. gui.due => Readable(gui.chart, key')
    BY <1>3, <1>6, <2>1 DEF Sure
  <2>5. g.senc = key'
    BY <1>3, <1>6, <2>1, <2>2
  <2> QED
    BY <1>1, <1>2, <2>1, <2>2, <2>3, <2>4, <2>5, GoesOn
<1>7. CASE s = "quiet" /\ ~ok /\ GoOn(Reset(gui, "reset1"))
  <2>1. "reset1" \in Resets /\ "reset1" \notin Sure /\ key' = key /\ s \notin Sure
    BY <1>1, <1>7 DEF Resets, Sure
  <2>2. gui.senc = key' /\ (gui.due => Readable(gui.chart, key'))
    BY <1>3, <1>7, <2>1
  <2> QED
    BY <1>1, <1>2, <1>7, <2>1, <2>2, ResetKeeps
<1>8. CASE s = "afterReset" /\ ~ok /\ GoOn(Reset(gui, "reset2"))
  <2>1. "reset2" \in Resets /\ "reset2" \in Sure /\ key' = Switched /\ s \notin Sure
    BY <1>1, <1>8 DEF Resets, Sure
  <2>2. gui.due => Fits(key')
    BY <1>3, <2>1, SwitchedFits
  <2> QED
    BY <1>1, <1>2, <1>8, <2>1, <2>2, ResetKeeps
<1>9. CASE s = "head" /\ ~ok /\ GoOn(Reset(gui, "again"))
  <2>1. "again" \in Resets /\ "again" \in Sure /\ key' = key /\ s \in Sure
    BY <1>1, <1>9 DEF Resets, Sure
  <2>2. gui.senc = key' /\ (gui.due => Fits(key'))
    BY <1>3, <1>9, <2>1
  <2> QED
    BY <1>1, <1>2, <1>9, <2>1, <2>2, ResetKeeps
<1>10. CASE s = "full" /\ res \in KeyErrors /\ GoOn(ValidateKey(gui))
  <2> DEFINE g == ValidateKey(gui)
  <2>1. key' = key /\ s \notin Sure /\ "try" \notin Sure
    BY <1>1, <1>10 DEF Sure
  <2>2. /\ g \in Call /\ g.chart = gui.chart /\ g.due = gui.due
        /\ \/ g.at = "ask" /\ key \in {NoKey, Invalid} /\ g.step = s /\ g.senc = gui.senc
           \/ g.at = "open" /\ g.step = "try" /\ g.senc = key
    BY <1>1, ValidateIs, CallIsDraft DEF Same
  <2>3. GoOn(g)
    BY <1>10
  <2> HIDE DEF g
  <2>4. (g.at = "ask" => g.step = "full") /\ g.step \notin Sure /\ g.senc = key' /\ (gui.due => Readable(gui.chart, key'))
    BY <1>3, <1>10, <2>1, <2>2
  <2> QED
    <3>1. \/ g.at = "open"
          \/ g.at = "ask" /\ g.step \in {"begin", "full"} /\ key' \in {NoKey, Invalid}
      BY <2>1, <2>2, <2>4
    <3>2. gui.due => IF g.step \in Sure THEN Fits(key') ELSE Readable(gui.chart, key')
      BY <2>4
    <3>3. g.step # "reset2" => g.senc = key'
      BY <2>4
    <3> QED
      BY <1>1, <1>2, <2>2, <2>3, <3>1, <3>2, <3>3, GoesOn
<1>11. CASE s \in {"hinted", "headAgain", "fullAgain"} /\ ~ok /\ Return(FALSE, <<>>)
  <2>1. ~gui.due
    BY <1>3, <1>11 DEF Sure, ok
  <2> QED
    BY <1>1, <1>2, <1>11, <2>1, Returns
<1>12. CASE Return(TRUE, got)
  BY <1>1, <1>2, <1>12, Returns
<1> QED
  BY <1>4, <1>5, <1>6, <1>7, <1>8, <1>9, <1>10, <1>11, <1>12

-----------------------------------------------------------------------------
\* Opening and reading a stream

LEMMA Lengths ==
    ASSUME NEW c \in Charts, NEW a
    PROVE  Len(File[c]) \in Nat /\ Length(c, a) \in Nat /\ Length(c, a) >= 3
           /\ (a # "signature" => Length(c, a) = 3 + 2 * Len(File[c]))
<1>1. File[c] \in Seq(Kinds)
  BY SencAssumption DEF SencAssumption
<1> QED
  BY <1>1 DEF Length

LEMMA OfConn ==
    ASSUME IInv, conn # Closed
    PROVE  /\ conn \in [mode : {"pipe", "file"}, by : Procs \cup {NoProc}, sends : Sends,
                        pos : Nat, limit : Nat]
           /\ conn.pos <= conn.limit
BY DEF IInv, TypeOK, Conn

\* What a call of Read gets fits in what is left, and is all of it if nobody is slow.
LEMMA ReadsIs ==
    ASSUME IInv, conn # Closed, NEW n \in Nat, NEW j \in Reads(n)
    PROVE  /\ j \in 0..n /\ conn.pos + j <= conn.limit
           /\ (conn.by = NoProc \/ Answers(conn.by)) /\ conn.pos + n <= conn.limit => j = n
<1> DEFINE most == IF conn.limit - conn.pos < n THEN conn.limit - conn.pos ELSE n
<1>1. conn.pos \in Nat /\ conn.limit \in Nat /\ conn.pos <= conn.limit
  BY OfConn
<1>2. most \in 0..n /\ conn.pos + most <= conn.limit /\ (conn.pos + n <= conn.limit => most = n)
  BY <1>1
<1>3. j \in IF conn.by # NoProc /\ ~Answers(conn.by) THEN 0..most ELSE {most}
  BY DEF Reads
<1> HIDE DEF most
<1> QED
  BY <1>1, <1>2, <1>3

LEMMA PipeIs ==
    ASSUME gui \in Call, NEW p \in Procs
    PROVE  /\ PipeTo(p) \in Conn /\ PipeTo(p) # Closed
           /\ PipeTo(p).pos = 0 /\ PipeTo(p).by = p
           /\ PipeTo(p).limit = Length(gui.chart, PipeTo(p).sends) /\ 0 <= PipeTo(p).limit
           /\ PipeTo(p).sends = "chart" => Fits(gui.senc)
           /\ Fits(gui.senc) => PipeTo(p).sends = IF KeyOf[gui.chart] = NoKey THEN "noise" ELSE "chart"
<1>1. gui.chart \in Charts
  BY NotIdle
<1> DEFINE a == Answer(gui.chart, gui.senc)
<1>2. a \in Sends /\ (a = "chart" => Fits(gui.senc)) /\ (Fits(gui.senc) => a = IF KeyOf[gui.chart] = NoKey THEN "noise" ELSE "chart")
  BY DEF Answer, Sends, Fits
<1>3. Length(gui.chart, a) \in Nat
  BY <1>1, Lengths
<1>4. PipeTo(p) = [mode |-> "pipe", by |-> p, sends |-> a, pos |-> 0, limit |-> Length(gui.chart, a)]
  BY DEF PipeTo
<1> HIDE DEF a
<1> QED
  BY <1>2, <1>3, <1>4 DEF Conn, Closed

LEMMA PlainIs ==
    ASSUME gui \in Call
    PROVE  /\ Plain \in Conn /\ Plain # Closed
           /\ Plain.pos = 0 /\ Plain.by = NoProc
           /\ Plain.limit = Length(gui.chart, Plain.sends) /\ 0 <= Plain.limit
           /\ Plain.sends \in {"chart", "noise"}
           /\ Plain.sends = "chart" <=> KeyOf[gui.chart] = NoKey
<1>1. gui.chart \in Charts
  BY NotIdle
<1> DEFINE a == IF KeyOf[gui.chart] = NoKey THEN "chart" ELSE "noise"
<1>2. a \in Sends /\ a \in {"chart", "noise"} /\ (a = "chart" <=> KeyOf[gui.chart] = NoKey)
  BY DEF Sends
<1>3. Length(gui.chart, a) \in Nat
  BY <1>1, Lengths
<1>4. Plain = [mode |-> "file", by |-> NoProc, sends |-> a, pos |-> 0, limit |-> Length(gui.chart, a)]
  BY DEF Plain
<1> HIDE DEF a
<1> QED
  BY <1>2, <1>3, <1>4 DEF Conn, Closed

\* A stream has just been opened, the first of two attempts to read it or the last.
LEMMA OpensStream ==
    ASSUME IInv, gui \in Call, gui.at \in {"open"} \cup Streams, gui.at # "records",
           NEW n \in {0, 2}, GoOn(At("verify", n)), Steady, got' = got,
           NEW c \in Conn, conn' = c, c # Closed, c.pos = 0, 0 <= c.limit,
           c.limit = Length(gui.chart, c.sends),
           c.sends = "chart" => Fits(gui.senc), n = 0 => c.by = NoProc,
           gui.due /\ Fits(gui.senc) =>
             /\ c.by = NoProc \/ Answers(c.by)
             /\ c.sends = "chart" \/ (c.sends = "noise" /\ KeyOf[gui.chart] = NoKey /\ n = 2)
    PROVE  IInv' /\ Opens
<1>1. /\ gui' = At("verify", n) /\ UNCHANGED <<fails, hintTaken, last>> /\ got = <<>> /\ got' = <<>>
      /\ n \in 0..(ProbeTries + AwaitTries + 2) /\ gui.chart \in Charts /\ gui # Idle
  BY Tries, NotIdle DEF GoOn, IInv, Placed
<1>2. /\ gui' \in Call /\ gui'.chart = gui.chart /\ gui'.due = gui.due /\ gui'.at = "verify" /\ gui'.n = n
      /\ gui'.step = gui.step /\ gui'.senc = gui.senc /\ "verify" \in Streams
  BY <1>1, AtIs DEF Same, Places, Streams
<1>3. c.limit \in Nat
  BY <1>1, Lengths
<1>4. Streamed'
  BY <1>1, <1>2, <1>3 DEF Streamed, Fits, Steady
<1>5. gui.due => Whole'
  BY <1>1, <1>2 DEF Whole, Fits, Answers, Steady
<1>6. Opens
  BY <1>1, <1>2, NotIdle, SameIsStutter
<1>7. c.pos <= c.limit /\ <<>> \in Seq(Charts \X Nat)
  OBVIOUS
<1> QED
  BY <1>1, <1>2, <1>4, <1>5, <1>6, <1>7, StreamsOn

LEMMA OpenStreamKeeps == ASSUME IInv, OpenStream PROVE IInv' /\ Opens
<1> DEFINE open == {p \in Procs : procs[p] \in {"ready", "stalled"}}
<1>1. /\ gui.at = "open" /\ gui.at \in {"open"} \cup Streams /\ gui.at # "records"
      /\ gui \in Call /\ gui # Idle /\ conn = Closed /\ got = <<>>
  BY InCall DEF OpenStream, IInv, Placed, Streams
<1>2. gui.due => \E p \in open : Answers(p)
  BY <1>1 DEF IInv, Due, Answers
<1>3. \/ /\ gui.senc # NoKey
         /\ \E p \in open : /\ Answers(p) \/ \A q \in open : ~Answers(q)
                            /\ conn' = PipeTo(p)
         /\ GoOn(At("verify", 2)) /\ UNCHANGED <<key, got, procs, proc, bin, calm>>
      \/ /\ gui.senc = NoKey \/ open = {}
         /\ conn' = Plain
         /\ GoOn(At("verify", 2)) /\ UNCHANGED <<key, got, procs, proc, bin, calm>>
      \/ GoOn(At("open", 1)) /\ UNCHANGED <<key, Stream, procs, proc, bin, calm>>
      \/ open = {} /\ Ingested("SENCFILE_NOT_FOUND")
  BY DEF OpenStream
<1> HIDE DEF open
<1>4. CASE /\ \E p \in open : /\ Answers(p) \/ \A q \in open : ~Answers(q)
                              /\ conn' = PipeTo(p)
           /\ GoOn(At("verify", 2)) /\ UNCHANGED <<key, got, procs, proc, bin, calm>>
  <2>1. PICK p \in open : /\ Answers(p) \/ \A q \in open : ~Answers(q)
                          /\ conn' = PipeTo(p)
    BY <1>4
  <2>2. p \in Procs /\ Steady /\ got' = got /\ GoOn(At("verify", 2))
    BY <1>4 DEF open, Steady
  <2>3. gui.due => Answers(p)
    BY <1>2, <2>1
  <2> DEFINE c == PipeTo(p)
  <2>4. /\ c \in Conn /\ c # Closed /\ c.pos = 0 /\ c.by = p /\ 0 <= c.limit
        /\ c.limit = Length(gui.chart, c.sends) /\ (c.sends = "chart" => Fits(gui.senc))
        /\ (Fits(gui.senc) => c.sends = IF KeyOf[gui.chart] = NoKey THEN "noise" ELSE "chart")
    BY <1>1, <2>2, PipeIs
  <2>5. conn' = c
    BY <2>1
  <2> HIDE DEF c
  <2> QED
    BY <1>1, <2>2, <2>3, <2>4, <2>5, OpensStream
<1>5. CASE /\ gui.senc = NoKey \/ open = {}
           /\ conn' = Plain
           /\ GoOn(At("verify", 2)) /\ UNCHANGED <<key, got, procs, proc, bin, calm>>
  <2>1. Steady /\ got' = got /\ GoOn(At("verify", 2)) /\ conn' = Plain
    BY <1>5 DEF Steady
  <2>2. gui.due /\ Fits(gui.senc) => Plain.sends = "chart"
    BY <1>1, <1>2, <1>5, PlainIs DEF Fits
  <2> QED
    BY <1>1, <2>1, <2>2, PlainIs, OpensStream DEF Fits
<1>6. CASE GoOn(At("open", 1)) /\ UNCHANGED <<key, Stream, procs, proc, bin, calm>>
  <2> DEFINE g == At("open", 1)
  <2>1. 1 \in 0..(ProbeTries + AwaitTries + 2) /\ "open" \in Places
    BY Tries DEF Places
  <2>2. g \in Call /\ g.chart = gui.chart /\ g.due = gui.due /\ g.at = "open" /\ g.step = gui.step /\ g.senc = gui.senc
    BY <1>1, <2>1, AtIs DEF Same
  <2>3. GoOn(g) /\ NoStream /\ key' = key /\ UNCHANGED <<procs, proc, bin, calm>>
    BY <1>1, <1>6 DEF NoStream, Stream
  <2> HIDE DEF g
  <2>4. /\ key \in Texts /\ (g.step # "reset2" => g.senc = key)
        /\ gui.due => IF g.step \in Sure THEN Fits(key) ELSE Readable(gui.chart, key)
    BY <1>1, <2>2, InCall DEF IInv, Placed, Due
  <2> QED
    BY <1>1, <2>2, <2>3, <2>4, GoesOn
<1>7. CASE open = {} /\ Ingested("SENCFILE_NOT_FOUND")
  BY <1>1, <1>2, <1>7, IngestedKeeps
<1> QED
  BY <1>3, <1>4, <1>5, <1>6, <1>7

LEMMA AdvanceIs ==
    ASSUME IInv, conn # Closed, NEW j \in Nat, conn.pos + j <= conn.limit, Advance(j)
    PROVE  /\ conn' \in Conn /\ conn' # Closed /\ conn'.pos = conn.pos + j /\ conn'.pos <= conn'.limit
           /\ conn'.limit = conn.limit /\ conn'.sends = conn.sends /\ conn'.by = conn.by
<1>1. conn \in [mode : {"pipe", "file"}, by : Procs \cup {NoProc}, sends : Sends, pos : Nat, limit : Nat]
  BY OfConn
<1>2. conn' = [conn EXCEPT !.pos = conn.pos + j] /\ conn.pos + j \in Nat
  BY <1>1 DEF Advance
<1>3. conn' \in [mode : {"pipe", "file"}, by : Procs \cup {NoProc}, sends : Sends, pos : Nat, limit : Nat]
  BY <1>1, <1>2
<1>4. /\ conn'.pos = conn.pos + j /\ conn'.limit = conn.limit /\ conn'.sends = conn.sends
      /\ conn'.by = conn.by
  BY <1>1, <1>2
<1>5. conn' # Closed
  BY <1>3 DEF Closed
<1> QED
  BY <1>3, <1>4, <1>5 DEF Conn

\* The first record is read a piece further.
LEMMA Advances ==
    ASSUME IInv, gui \in Call, gui.at \in {"verify", "version"},
           NEW j \in Nat, conn.pos + j <= conn.limit, Advance(j),
           NEW p \in Streams, NEW n \in {0, 1}, GoOn(At(p, n)), Steady, UNCHANGED got,
           \/ p = "verify" /\ n = 1 /\ (gui.due => ~Fits(gui.senc))
           \/ p = "version" /\ conn.pos + j = 2 /\ conn.sends # "noise"
           \/ p = "records" /\ conn.pos + j = 3 /\ conn.sends = "chart"
    PROVE  IInv' /\ Opens
<1>1. /\ gui # Idle /\ gui.chart \in Charts /\ got = <<>> /\ got' = <<>> /\ conn # Closed
      /\ gui.at \in {"open"} \cup Streams /\ gui.at \in Streams
  BY NotIdle DEF IInv, Placed, Streamed, Streams
<1>2. n \in 0..(ProbeTries + AwaitTries + 2) /\ p \in Places
  BY Tries DEF Places, Streams
<1>3. /\ gui' \in Call /\ gui'.chart = gui.chart /\ gui'.due = gui.due /\ gui'.at = p /\ gui'.n = n
      /\ gui'.step = gui.step /\ gui'.senc = gui.senc /\ UNCHANGED <<fails, hintTaken, last>>
  BY <1>2, AtIs DEF Same, GoOn
<1>4. /\ conn' \in Conn /\ conn' # Closed /\ conn'.pos = conn.pos + j /\ conn'.pos <= conn'.limit
      /\ conn'.limit = conn.limit /\ conn'.sends = conn.sends /\ conn'.by = conn.by
  BY <1>1, AdvanceIs
<1>5. Streamed'
  BY <1>1, <1>3, <1>4 DEF IInv, Streamed, Fits
<1>6. gui.due => Whole'
  <2>1. gui.due => Whole
    BY <1>1 DEF IInv, Due
  <2> QED
    BY <1>1, <1>3, <1>4, <2>1 DEF Whole, Fits, Answers, Steady
<1>7. Opens
  BY <1>1, <1>3, NotIdle, SameIsStutter
<1> QED
  BY <1>1, <1>3, <1>4, <1>5, <1>6, <1>7, StreamsOn

LEMMA VerifyBaseKeeps == ASSUME IInv, VerifyBase PROVE IInv' /\ Opens
<1>1. /\ gui.at = "verify" /\ gui.n > 0 /\ gui.at \in {"open"} \cup Streams /\ gui.at \in Streams
      /\ gui \in Call /\ gui # Idle /\ got = <<>> /\ conn # Closed /\ gui.chart \in Charts /\ gui.at # "records"
  BY InCall DEF VerifyBase, IInv, Placed, Streamed, Streams
<1>2. PICK j \in Reads(2) :
        \/ j < 2 /\ gui.n = 2 /\ Advance(j) /\ GoOn(At("verify", 1)) /\ Steady /\ UNCHANGED got
        \/ j < 2 /\ gui.n = 1 /\ Ingested("SENC_CORRUPT")
        \/ j = 2 /\ IsVersion /\ Advance(2) /\ GoOn(At("version", 0)) /\ Steady /\ UNCHANGED got
        \/ j = 2 /\ ~IsVersion /\ conn' = Plain /\ GoOn(At("verify", 0)) /\ Steady /\ UNCHANGED got
  BY DEF VerifyBase
<1>3. /\ j \in 0..2 /\ conn.pos + j <= conn.limit
      /\ (conn.by = NoProc \/ Answers(conn.by)) /\ conn.pos + 2 <= conn.limit => j = 2
  BY <1>1, ReadsIs
<1>4. gui.due /\ Fits(gui.senc) => /\ gui.n = 2 /\ conn.pos = 0 /\ j = 2
                                   /\ conn.sends = "chart" \/ (conn.sends = "noise" /\ KeyOf[gui.chart] = NoKey)
  <2>1. SUFFICES ASSUME gui.due, Fits(gui.senc)
                 PROVE  /\ gui.n = 2 /\ conn.pos = 0 /\ j = 2
                        /\ conn.sends = "chart" \/ (conn.sends = "noise" /\ KeyOf[gui.chart] = NoKey)
    OBVIOUS
  <2>2. Whole /\ Streamed
    BY <1>1, <2>1 DEF IInv, Due
  <2>3. gui.n = 2 /\ conn.pos = 0
    BY <1>1, <2>1, <2>2 DEF Whole, Streamed
  <2>4. conn.limit >= 3 /\ conn.limit \in Nat
    BY <1>1, <2>1, <2>2, Lengths DEF Whole
  <2>5. j = 2
    BY <1>1, <1>3, <2>1, <2>2, <2>3, <2>4 DEF Whole
  <2> QED
    BY <1>1, <2>1, <2>2, <2>3, <2>5 DEF Whole

<1>5. CASE j < 2 /\ gui.n = 2 /\ Advance(j) /\ GoOn(At("verify", 1)) /\ Steady /\ UNCHANGED got
  <2>1. gui.due => ~Fits(gui.senc)
    BY <1>4, <1>5
  <2>2. "verify" \in Streams /\ j \in Nat
    BY <1>3 DEF Streams
  <2> QED
    BY <1>1, <1>3, <1>5, <2>1, <2>2, Advances
<1>6. CASE j < 2 /\ gui.n = 1 /\ Ingested("SENC_CORRUPT")
  <2>1. ~(gui.due /\ Fits(gui.senc)) /\ "SENC_CORRUPT" \in KeyErrors
    BY <1>4, <1>6 DEF KeyErrors
  <2> QED
    BY <1>1, <1>6, <2>1, IngestedKeeps
<1>7. CASE j = 2 /\ IsVersion /\ Advance(2) /\ GoOn(At("version", 0)) /\ Steady /\ UNCHANGED got
  <2>1. "version" \in Streams /\ conn.pos + 2 = 2 /\ conn.pos + 2 <= conn.limit /\ 2 \in Nat
    BY <1>3, <1>7 DEF Streams, IsVersion
  <2> QED
    BY <1>1, <1>7, <2>1, Advances DEF IsVersion
<1>8. CASE j = 2 /\ ~IsVersion /\ conn' = Plain /\ GoOn(At("verify", 0)) /\ Steady /\ UNCHANGED got
  <2>1. gui.due /\ Fits(gui.senc) => KeyOf[gui.chart] = NoKey
    BY <1>4, <1>8 DEF IsVersion
  <2> QED
    BY <1>1, <1>8, <2>1, PlainIs, OpensStream DEF Fits
<1> QED
  BY <1>2, <1>5, <1>6, <1>7, <1>8

LEMMA VerifyPlainKeeps == ASSUME IInv, VerifyPlain PROVE IInv' /\ Opens
<1>1. /\ gui.at = "verify" /\ gui.n = 0 /\ gui.at \in {"open"} \cup Streams /\ gui.at \in Streams
      /\ gui \in Call /\ gui # Idle /\ got = <<>> /\ conn # Closed /\ gui.chart \in Charts /\ gui.at # "records"
      /\ conn.pos = 0
  BY InCall DEF VerifyPlain, IInv, Placed, Streamed, Streams
<1>2. CASE IsVersion
  <2>1. Advance(2) /\ GoOn(At("version", 0)) /\ Steady /\ UNCHANGED got
    BY <1>2 DEF VerifyPlain
  <2>2. "version" \in Streams /\ conn.pos + 2 = 2 /\ 2 \in Nat
    BY <1>1 DEF Streams
  <2>3. conn.pos + 2 <= conn.limit
    <3>1. conn.limit = Length(gui.chart, conn.sends)
      BY <1>1 DEF IInv, Streamed
    <3> QED
      BY <1>1, <3>1, Lengths
  <2> QED
    BY <1>1, <1>2, <2>1, <2>2, <2>3, Advances DEF IsVersion
<1>3. CASE ~IsVersion
  <2>1. Ingested("SENC_CORRUPT") /\ "SENC_CORRUPT" \in KeyErrors
    BY <1>3 DEF VerifyPlain, KeyErrors
  <2>2. ~(gui.due /\ Fits(gui.senc))
    BY <1>1, <1>3 DEF IInv, Due, Whole, IsVersion
  <2> QED
    BY <1>1, <2>1, <2>2, IngestedKeeps
<1> QED
  BY <1>2, <1>3

LEMMA VerifyVersionKeeps == ASSUME IInv, VerifyVersion PROVE IInv' /\ Opens
<1>1. /\ gui.at = "version" /\ gui.at \in {"open"} \cup Streams /\ gui.at \in Streams
      /\ gui \in Call /\ gui # Idle /\ got = <<>> /\ conn # Closed /\ gui.chart \in Charts /\ gui.at # "records"
      /\ conn.pos = 2
  BY InCall DEF VerifyVersion, IInv, Placed, Streamed, Streams
<1>2. PICK j \in Reads(1) :
        \/ j = 0 /\ Ingested("SENC_CORRUPT")
        \/ j = 1 /\ conn.sends = "signature" /\ Ingested("SIGNATURE_FAILURE")
        \/ /\ j = 1 /\ conn.sends = "chart"
           /\ Advance(1) /\ GoOn(At("records", 0)) /\ Steady /\ UNCHANGED got
  BY DEF VerifyVersion
<1>3. /\ j \in 0..1 /\ conn.pos + j <= conn.limit
      /\ (conn.by = NoProc \/ Answers(conn.by)) /\ conn.pos + 1 <= conn.limit => j = 1
  BY <1>1, ReadsIs
<1>4. gui.due /\ Fits(gui.senc) => j = 1 /\ conn.sends = "chart"
  <2>1. SUFFICES ASSUME gui.due, Fits(gui.senc) PROVE j = 1 /\ conn.sends = "chart"
    OBVIOUS
  <2>2. Whole
    BY <1>1, <2>1 DEF IInv, Due
  <2>3. conn.sends = "chart" /\ conn.limit >= 3 /\ conn.limit \in Nat
    BY <1>1, <2>1, <2>2, Lengths DEF Whole
  <2> QED
    BY <1>1, <1>3, <2>1, <2>2, <2>3 DEF Whole
<1>5. CASE j = 0 /\ Ingested("SENC_CORRUPT")
  BY <1>1, <1>4, <1>5, IngestedKeeps DEF KeyErrors
<1>6. CASE j = 1 /\ conn.sends = "signature" /\ Ingested("SIGNATURE_FAILURE")
  BY <1>1, <1>4, <1>6, IngestedKeeps DEF KeyErrors
<1>7. CASE j = 1 /\ conn.sends = "chart" /\ Advance(1) /\ GoOn(At("records", 0)) /\ Steady /\ UNCHANGED got
  <2>1. "records" \in Streams /\ conn.pos + 1 = 3 /\ conn.pos + 1 <= conn.limit /\ 1 \in Nat
    BY <1>1, <1>3, <1>7 DEF Streams
  <2> QED
    BY <1>1, <1>7, <2>1, Advances
<1> QED
  BY <1>2, <1>5, <1>6, <1>7

LEMMA NextRecordKeeps == ASSUME IInv, NextRecord PROVE IInv' /\ Opens
<1>1. /\ gui.at = "records" /\ gui.at \in {"open"} \cup Streams /\ gui.at \in Streams
      /\ gui \in Call /\ gui # Idle /\ conn # Closed /\ gui.chart \in Charts
      /\ conn.pos = 3 + 2 * Len(got) /\ conn.sends = "chart" /\ Fits(gui.senc)
      /\ conn.limit <= Length(gui.chart, conn.sends)
      /\ got \in Seq(Charts \X Nat) /\ Len(got) \in Nat
  BY InCall DEF NextRecord, IInv, TypeOK, Streamed, Streams
<1>2. PICK j \in Reads(2) :
        \/ /\ j = 2 /\ got' = Append(got, <<gui.chart, Number>>)
           /\ Advance(2) /\ GoOn(gui) /\ Steady
        \/ Ingested("NO_ERROR")
  BY DEF NextRecord
<1>3. j \in 0..2 /\ conn.pos + j <= conn.limit
  BY <1>1, ReadsIs
<1>4. CASE j = 2 /\ got' = Append(got, <<gui.chart, Number>>) /\ Advance(2) /\ GoOn(gui) /\ Steady
  <2>1. Number = Len(got) + 1
    BY <1>1 DEF Number
  <2>2. got' \in Seq(Charts \X Nat) /\ Len(got') = Len(got) + 1
    BY <1>1, <1>4, <2>1
  <2>3. gui' = gui /\ UNCHANGED <<fails, hintTaken, last>>
    BY <1>4 DEF GoOn
  <2>4. /\ conn' \in Conn /\ conn' # Closed /\ conn'.pos = conn.pos + 2 /\ conn'.pos <= conn'.limit
        /\ conn'.limit = conn.limit /\ conn'.sends = conn.sends /\ conn'.by = conn.by
    BY <1>1, <1>3, <1>4, AdvanceIs
  <2>5. conn'.pos = 3 + 2 * Len(got')
    BY <1>1, <2>2, <2>4
  <2>6. Streamed'
    BY <1>1, <2>3, <2>4, <2>5 DEF Streamed, Fits
  <2>7. gui.due => Whole'
    <3>1. gui.due => Whole
      BY <1>1 DEF IInv, Due
    <3> QED
      BY <1>1, <1>4, <2>3, <2>4, <3>1 DEF Whole, Fits, Answers, Steady
  <2>8. Opens
    <3>1. Len(got) < Len(File[gui.chart])
      <4>1. Length(gui.chart, "chart") = 3 + 2 * Len(File[gui.chart]) /\ Len(File[gui.chart]) \in Nat
        BY <1>1, Lengths
      <4>2. conn.pos + 2 <= conn.limit /\ conn.limit \in Nat
        BY <1>1, <1>3, <1>4, OfConn
      <4> QED
        BY <1>1, <4>1, <4>2
    <3> QED
      BY <1>1, <1>4, <2>1, <2>3, <3>1, RecordIsTake
  <2> QED
    BY <1>1, <1>4, <2>2, <2>3, <2>4, <2>6, <2>7, <2>8, StreamsOn
<1>5. CASE Ingested("NO_ERROR")
  BY <1>1, <1>5, IngestedKeeps
<1> QED
  BY <1>2, <1>4, <1>5

-----------------------------------------------------------------------------
\* The other actions

LEMMA OpenKeeps == ASSUME IInv, NEW c \in Charts, NEW full \in BOOLEAN, Open(c, full) PROVE IInv' /\ Opens
<1> DEFINE k == IF hintTaken \/ HintOf[c] = NoKey THEN key ELSE HintOf[c]
           due == Readable(c, k) /\ bin /\ \A p \in Procs : procs[p] \in {"none", "ready"}
           d == [at |-> "idle", chart |-> c, full |-> full, step |-> "begin", n |-> 0, senc |-> k, due |-> due]
           g == Reset(d, "begin")
<1>1. /\ gui = Idle /\ gui.at = "idle" /\ fails[c] <= MaxFails /\ key' = k /\ gui' = g /\ hintTaken' = TRUE
      /\ last' = Nothing /\ UNCHANGED <<procs, proc, bin, fails, conn, got, calm>>
  BY CallIsGui DEF Open, Stream
<1>2. k \in Texts
  BY SencAssumption DEF SencAssumption, IInv, TypeOK, Texts
<1>3. due \in BOOLEAN
  BY DEF Readable
<1>4. "begin" \in Resets /\ "begin" \notin Sure /\ "begin" # "reset2" /\ 0 \in 0..(ProbeTries + AwaitTries + 2)
  BY Tries DEF Resets, Sure
<1> HIDE DEF k
<1>5. due => Readable(c, k) /\ \A p \in Procs : procs[p] # "stalled"
  OBVIOUS
<1> HIDE DEF due
<1>6. d \in Draft
  BY <1>2, <1>3, <1>4 DEF Draft
<1>7. d.chart = c /\ d.senc = k /\ d.due = due
  OBVIOUS
<1> HIDE DEF d
<1>8. /\ g \in Call /\ g.chart = c /\ g.senc = k /\ g.due = due /\ g.step = "begin"
      /\ g.at = (IF proc THEN "probe" ELSE "launch")
  BY <1>4, <1>6, <1>7, ResetIs DEF Same
<1> HIDE DEF g
<1>9. /\ gui' \in Call /\ gui'.chart = c /\ gui'.senc = k /\ gui'.due = due /\ gui'.step = "begin"
      /\ gui'.at = (IF proc THEN "probe" ELSE "launch") /\ gui' # Idle /\ gui' \in Gui
  BY <1>1, <1>8, NotIdle, CallIsGui
<1>10. conn = Closed /\ got = <<>> /\ gui'.at \notin Streams /\ gui'.at \notin {"ask", "open", "await", "records"}
  BY <1>1, <1>9 DEF IInv, Placed, Streams
<1>11. TypeOK'
  BY <1>1, <1>2, <1>9, <1>10 DEF IInv, TypeOK, Texts, Nothing
<1>12. Placed' /\ Streamed'
  BY <1>1, <1>4, <1>9, <1>10 DEF Placed, Streamed
<1>13. Alone'
  BY <1>1, <1>9 DEF IInv, Alone, Running
<1>14. Due'
  BY <1>1, <1>4, <1>5, <1>9, <1>10 DEF Due, Whole, Readable
<1>15. CalmOpenSucceeds' /\ Opens
  BY <1>1, <1>9, <1>10, OpenIsBegin DEF CalmOpenSucceeds, Nothing
<1> QED
  BY <1>11, <1>12, <1>13, <1>14, <1>15 DEF IInv

\* What is left of a stream whose process is gone.
Cut ==
    /\ conn # Closed /\ conn.by # NoProc
    /\ conn' \in Conn /\ conn' # Closed /\ conn'.pos = conn.pos /\ conn'.sends = conn.sends
    /\ conn'.pos <= conn'.limit /\ conn'.limit <= conn.limit

LEMMA CutIs ==
    ASSUME IInv, conn # Closed, conn.by # NoProc, NEW l \in conn.pos..conn.limit,
           conn' = [conn EXCEPT !.by = NoProc, !.limit = l]
    PROVE  Cut
<1>1. conn \in [mode : {"pipe", "file"}, by : Procs \cup {NoProc}, sends : Sends, pos : Nat, limit : Nat]
  BY OfConn
<1>2. l \in Nat /\ conn.pos <= l /\ l <= conn.limit
  BY <1>1
<1> DEFINE c == [conn EXCEPT !.by = NoProc]
<1>3. /\ c \in [mode : {"pipe", "file"}, by : Procs \cup {NoProc}, sends : Sends, pos : Nat, limit : Nat]
      /\ c.pos = conn.pos /\ c.sends = conn.sends
  BY <1>1
<1>4. conn' = [c EXCEPT !.limit = l]
  OBVIOUS
<1> HIDE DEF c
<1>5. /\ conn' \in [mode : {"pipe", "file"}, by : Procs \cup {NoProc}, sends : Sends, pos : Nat, limit : Nat]
      /\ conn'.pos = conn.pos /\ conn'.sends = conn.sends /\ conn'.limit = l
  BY <1>2, <1>3, <1>4
<1>6. conn' # Closed
  BY <1>5 DEF Closed
<1> QED
  BY <1>2, <1>5, <1>6 DEF Cut, Conn

\* A process changes: a call under way goes on, and is no longer due if the change is
\* for the worse.
LEMMA ProcKeeps ==
    ASSUME IInv, procs' \in [Procs -> ProcStates], UNCHANGED <<globals, got, last>>,
           \/ gui' = gui /\ \A p \in Procs : /\ procs[p] = "ready" => procs'[p] = "ready"
                                             /\ procs'[p] = "stalled" => procs[p] = "stalled"
           \/ gui' = Undue(gui),
           calm' \in BOOLEAN, Alone',
           \/ conn' = conn
           \/ gui' = Undue(gui) /\ Cut
    PROVE  IInv' /\ Opens
<1>1. gui \in Gui /\ UNCHANGED <<proc, bin, key, hintTaken, fails>>
  BY DEF IInv, TypeOK, globals
<1>2. /\ gui' \in Gui /\ (gui # Idle <=> gui' # Idle) /\ gui'.at = gui.at
      /\ gui # Idle => /\ gui'.chart = gui.chart /\ gui'.step = gui.step /\ gui'.senc = gui.senc
                       /\ gui'.n = gui.n /\ (gui'.due => gui' = gui)
  <2>1. CASE gui' = gui
    BY <1>1, <2>1
  <2>2. CASE gui' = Undue(gui) /\ gui = Idle
    BY <1>1, <2>2 DEF Undue
  <2>3. CASE gui' = Undue(gui) /\ gui # Idle
    BY <1>1, <2>3, OfGui, UndueIs, NotIdle, CallIsGui
  <2> QED
    BY <2>1, <2>2, <2>3
<1>3. /\ conn' \in Conn /\ (conn' # Closed => conn'.pos <= conn'.limit)
      /\ conn = Closed => conn' = Closed
      /\ conn # Closed => /\ conn' # Closed /\ conn'.pos = conn.pos /\ conn'.sends = conn.sends
                          /\ conn'.limit <= conn.limit /\ conn'.limit \in Nat /\ conn.limit \in Nat
                          /\ conn.by = NoProc => conn' = conn
  <2>1. CASE conn' = conn
    BY <2>1, OfConn DEF IInv, TypeOK
  <2>2. CASE Cut
    BY <2>2, OfConn DEF Cut, Conn, Closed
  <2> QED
    BY <2>1, <2>2
<1>4. TypeOK'
  BY <1>1, <1>2, <1>3 DEF IInv, TypeOK
<1>5. Placed'
  BY <1>1, <1>2, <1>3 DEF IInv, Placed
<1>6. Streamed'
  <2>1. SUFFICES ASSUME gui.at \in Streams PROVE Streamed'
    BY <1>2 DEF Streamed
  <2>2. gui # Idle /\ gui.chart \in Charts /\ conn # Closed
    BY <1>1, <2>1, OfGui, NotIdle, CallIsGui DEF IInv, Streamed, Streams
  <2>3. Length(gui.chart, conn.sends) \in Nat
    BY <2>2, Lengths
  <2>4. conn'.limit <= Length(gui.chart, conn'.sends)
    BY <1>3, <2>1, <2>2, <2>3 DEF IInv, Streamed
  <2>5. gui.at = "verify" /\ gui.n = 0 => conn' = conn
    BY <1>3, <2>1, <2>2 DEF IInv, Streamed
  <2>6. gui'.at = gui.at /\ gui'.n = gui.n /\ gui'.chart = gui.chart /\ gui'.senc = gui.senc /\ got' = got
    BY <1>2, <2>2
  <2>7. conn'.pos = conn.pos /\ conn'.sends = conn.sends /\ conn' # Closed
    BY <1>3, <2>2
  <2> QED
    BY <2>1, <2>4, <2>5, <2>6, <2>7 DEF IInv, Streamed, Fits
<1>7. Due'
  <2>1. SUFFICES ASSUME gui' # Idle, gui'.due PROVE Due'
    BY DEF Due
  <2>2. gui' = gui /\ gui # Idle /\ gui.due
    BY <1>2, <2>1
  <2>3. CASE gui' = Undue(gui)
    BY <1>1, <2>1, <2>2, <2>3, OfGui, UndueIs
  <2>4. CASE gui' # Undue(gui)
    <3>1. conn' = conn /\ \A p \in Procs : /\ procs[p] = "ready" => procs'[p] = "ready"
                                           /\ procs'[p] = "stalled" => procs[p] = "stalled"
      BY <2>4
    <3>2. Whole /\ (\A p \in Procs : procs[p] # "stalled")
      BY <2>2 DEF IInv, Due
    <3>3. gui.at \in Streams => conn.by \in Procs \cup {NoProc}
      BY OfConn DEF IInv, Streamed
    <3>4. Whole'
      <4>1. gui.at \in Streams /\ Answers(conn.by) => conn.by = NoProc \/ procs'[conn.by] = "ready"
        BY <3>1, <3>3 DEF Answers
      <4> QED
        BY <2>2, <3>1, <3>2, <4>1 DEF Whole, Fits, Answers
    <3>5. IF gui'.step \in Sure THEN Fits(key)' ELSE Readable(gui'.chart, key')
      BY <1>1, <2>2 DEF IInv, Due, Fits, Readable
    <3>6. ASSUME gui.at \in {"ask", "open"} \cup Streams
          PROVE  \E p \in Procs : procs'[p] = "ready"
      <4>1. PICK p \in Procs : procs[p] = "ready"
        BY <2>2, <3>6 DEF IInv, Due, Answers
      <4> QED
        BY <3>1, <4>1
    <3>7. \A p \in Procs : procs'[p] # "stalled"
      BY <3>1, <3>2
    <3> QED
      BY <2>2, <3>4, <3>5, <3>6, <3>7 DEF Due, Answers, Readable
  <2> QED
    BY <2>3, <2>4
<1>8. CalmOpenSucceeds' /\ Opens
  BY <1>2, SameIsStutter DEF IInv, CalmOpenSucceeds
<1> QED
  BY <1>4, <1>5, <1>6, <1>7, <1>8 DEF IInv

LEMMA ReadyKeeps == ASSUME IInv, NEW p \in Procs, Ready(p) PROVE IInv' /\ Opens
<1>1. /\ procs[p] = "starting" /\ procs' = [procs EXCEPT ![p] = "ready"]
      /\ UNCHANGED <<globals, gui, conn, got, last, calm>> /\ procs \in [Procs -> ProcStates]
  BY DEF Ready, Stream, IInv, TypeOK
<1>2. /\ procs' \in [Procs -> ProcStates] /\ calm' \in BOOLEAN
      /\ \A q \in Procs : /\ procs[q] = "ready" => procs'[q] = "ready"
                          /\ procs'[q] = "stalled" => procs[q] = "stalled"
  BY <1>1 DEF ProcStates, IInv, TypeOK
<1>3. Alone'
  BY <1>1 DEF IInv, Alone, Running, globals
<1> QED
  BY <1>1, <1>2, <1>3, ProcKeeps

LEMMA StallKeeps == ASSUME IInv, NEW p \in Procs, Stall(p) PROVE IInv' /\ Opens
<1>1. /\ procs' = [procs EXCEPT ![p] = "stalled"] /\ gui' = Undue(gui) /\ calm' = FALSE
      /\ UNCHANGED <<globals, conn, got, last>> /\ procs \in [Procs -> ProcStates]
  BY DEF Stall, Upset, Stream, IInv, TypeOK
<1>2. procs' \in [Procs -> ProcStates] /\ Alone'
  BY <1>1 DEF ProcStates, Alone
<1> QED
  BY <1>1, <1>2, ProcKeeps

LEMMA RecoverKeeps == ASSUME IInv, NEW p \in Procs, Recover(p) PROVE IInv' /\ Opens
<1>1. /\ procs[p] = "stalled" /\ procs' = [procs EXCEPT ![p] = "ready"]
      /\ UNCHANGED <<globals, gui, conn, got, last, calm>> /\ procs \in [Procs -> ProcStates]
  BY DEF Recover, Stream, IInv, TypeOK
<1>2. /\ procs' \in [Procs -> ProcStates] /\ calm' \in BOOLEAN
      /\ \A q \in Procs : /\ procs[q] = "ready" => procs'[q] = "ready"
                          /\ procs'[q] = "stalled" => procs[q] = "stalled"
  BY <1>1 DEF ProcStates, IInv, TypeOK
<1>3. ~calm
  BY <1>1 DEF IInv, Alone, Running
<1>4. Alone'
  BY <1>1, <1>3 DEF Alone
<1> QED
  BY <1>1, <1>2, <1>4, ProcKeeps

LEMMA DieKeeps == ASSUME IInv, NEW p \in Procs, Die(p) PROVE IInv' /\ Opens
<1>1. /\ procs' = [procs EXCEPT ![p] = "none"] /\ gui' = Undue(gui) /\ calm' = FALSE
      /\ UNCHANGED <<globals, got, last>> /\ procs \in [Procs -> ProcStates]
      /\ IF Serves(p) THEN \E l \in conn.pos..conn.limit : conn' = [conn EXCEPT !.by = NoProc, !.limit = l]
                      ELSE UNCHANGED conn
  BY DEF Die, Upset, IInv, TypeOK
<1>2. procs' \in [Procs -> ProcStates] /\ Alone'
  BY <1>1 DEF ProcStates, Alone
<1>3. conn' = conn \/ Cut
  <2>1. CASE Serves(p)
    <3>1. conn # Closed /\ conn.by # NoProc
      BY <2>1, SencAssumption DEF Serves, SencAssumption
    <3>2. PICK l \in conn.pos..conn.limit : conn' = [conn EXCEPT !.by = NoProc, !.limit = l]
      BY <1>1, <2>1
    <3> QED
      BY <3>1, <3>2, CutIs
  <2>2. CASE ~Serves(p)
    BY <1>1, <2>2
  <2> QED
    BY <2>1, <2>2
<1> QED
  BY <1>1, <1>2, <1>3, ProcKeeps

LEMMA NothingIs ==
    /\ <<>> \in Seq(Charts \X Nat)
    /\ Nothing \in [ok : BOOLEAN, due : BOOLEAN, data : Seq(Charts \X Nat)]
BY DEF Nothing

LEMMA SessionKeeps ==
    ASSUME IInv, procs' \in [Procs -> ProcStates], Session(procs')
    PROVE  IInv' /\ Opens
<1>1. /\ proc' = FALSE /\ bin' = TRUE /\ key' \in Texts /\ hintTaken' = FALSE
      /\ fails' = [c \in Charts |-> 0] /\ gui' = Idle /\ conn' = Closed /\ got' = <<>> /\ last' = Nothing
      /\ calm' = (\A p \in Procs : procs'[p] = "none")
  BY DEF Session, NoStream, Texts
<1>2. Idle \in Gui /\ Idle.at = "idle" /\ 0 \in 0..(MaxFails + 1) /\ Closed \in Conn
  BY CallIsGui, Tries DEF Conn
<1>3. TypeOK'
  <2>1. calm' \in BOOLEAN /\ fails' \in [Charts -> 0..(MaxFails + 1)]
    BY <1>1, <1>2
  <2> QED
    BY <1>1, <1>2, <2>1, NothingIs DEF TypeOK, Texts
<1>4. Placed' /\ Streamed' /\ Due' /\ CalmOpenSucceeds'
  BY <1>1, <1>2 DEF Placed, Streamed, Due, CalmOpenSucceeds, Nothing, Streams
<1>5. Alone'
  BY <1>1, <1>2 DEF Alone, Running
<1> QED
  BY <1>1, <1>3, <1>4, <1>5, SessionIsForget DEF IInv

LEMMA NextKeeps == IInv /\ [Next]_vars => IInv' /\ Opens
<1> SUFFICES ASSUME IInv, [Next]_vars PROVE IInv' /\ Opens
  OBVIOUS
<1>1. CASE \E c \in Charts, full \in BOOLEAN : Open(c, full)
  BY <1>1, OpenKeeps
<1>2. CASE GuiStep
  BY <1>2, ProbeKeeps, LaunchFailsKeeps, AwaitKeeps, LaunchKeeps, AskKeeps, OpenStreamKeeps,
     VerifyBaseKeeps, VerifyPlainKeeps, VerifyVersionKeeps, NextRecordKeeps DEF GuiStep
<1>3. CASE \E p \in Procs : Ready(p) \/ Stall(p) \/ Recover(p) \/ Die(p)
  BY <1>3, ReadyKeeps, StallKeeps, RecoverKeeps, DieKeeps
<1>4. CASE Quit
  <2>1. procs' \in [Procs -> ProcStates] /\ Session(procs')
    BY <1>4 DEF Quit, IInv, TypeOK, ProcStates
  <2> QED
    BY <2>1, SessionKeeps
<1>5. CASE Crash
  <2>1. procs' \in [Procs -> ProcStates] /\ Session(procs')
    BY <1>5 DEF Crash, Session, IInv, TypeOK
  <2> QED
    BY <2>1, SessionKeeps
<1>6. CASE UNCHANGED vars
  <2>1. UNCHANGED <<procs, proc, bin, key, hintTaken, fails, gui, conn, got, last, calm>>
    BY <1>6 DEF vars, globals
  <2>2. IInv'
    BY <2>1 DEF IInv, TypeOK, Placed, Streamed, Alone, Due, Whole, CalmOpenSucceeds, Fits, Readable,
                Running, Answers
  <2> QED
    BY <2>1, <2>2, SameIsStutter
<1> QED
  BY <1>1, <1>2, <1>3, <1>4, <1>5, <1>6 DEF Next

LEMMA InitIInv == Init => IInv
<1> SUFFICES ASSUME Init PROVE IInv
  OBVIOUS
<1>1. Idle \in Gui /\ Idle.at = "idle" /\ 0 \in 0..(MaxFails + 1) /\ Closed \in Conn
  BY CallIsGui, Tries DEF Conn
<1>2. TypeOK
  <2>1. fails \in [Charts -> 0..(MaxFails + 1)] /\ procs \in [Procs -> ProcStates]
    BY <1>1 DEF Init, ProcStates
  <2> QED
    BY <1>1, <2>1, NothingIs DEF Init, TypeOK
<1>3. Placed /\ Streamed /\ Alone /\ Due /\ CalmOpenSucceeds
  BY <1>1 DEF Init, Placed, Streamed, Alone, Due, CalmOpenSucceeds, Nothing, Streams, Running
<1> QED
  BY <1>2, <1>3 DEF IInv

LEMMA Invariance == Spec => []IInv
<1>1. IInv /\ [Next]_vars => IInv'
  BY NextKeeps
<1> QED
  BY <1>1, InitIInv, PTL DEF Spec

-----------------------------------------------------------------------------
\* Every state of the plugin and of its servers is of the types declared, in
\* particular reads never pass the end of a stream (Osenc_instream::Read).
THEOREM TypeCorrect == Spec => []TypeOK
<1>1. IInv => TypeOK
  BY DEF IInv
<1> QED
  BY <1>1, Invariance, PTL

\* A chart that can be read is opened, whatever key another directory has left in use,
\* if no server is slow, lost or not to be started meanwhile (Init, validateUserKey,
\* BuildRAZFromSENCFile).
THEOREM ReadableOpens == Spec => []CalmOpenSucceeds
<1>1. IInv => CalmOpenSucceeds
  BY DEF IInv
<1> QED
  BY <1>1, Invariance, PTL

\* A session in which no server is slow or lost, and none is probed with an empty key,
\* has one server at most (validate_SENC_server).
THEOREM OneServerRuns == Spec => []OneServer
<1>1. IInv => OneServer
  BY DEF IInv, Alone, OneServer
<1> QED
  BY <1>1, Invariance, PTL

\* The plugin implements ChartData: whatever servers, keys, pipes and retries it takes,
\* OpenCPN gets the first records of the chart it asked for, in order and each once, or
\* nothing.
THEOREM ChartIsInOrder == Spec => OpensInOrder
<1>1. Init => Data!Init
  BY DEF Init, Data!Init, Nothing
<1>2. IInv /\ [Next]_vars => [Data!Next]_<<IF gui = Idle THEN NoChart ELSE gui.chart, got, last.data>>
  BY NextKeeps DEF Opens
<1> QED
  BY <1>1, <1>2, Invariance, PTL DEF OpensInOrder, Spec, Data!Spec

-----------------------------------------------------------------------------
\* How long a call of Init may take.  Each time a stage of it is reached the ones before
\* are over for good, and within a stage each step leaves fewer to take.
Stage(s) == CASE s = "begin"      -> 11
              [] s = "full"       -> 10
              [] s = "try"        -> 9
              [] s = "quiet"      -> 8
              [] s = "reset1"     -> 7
              [] s = "afterReset" -> 6
              [] s = "reset2"     -> 5
              [] s = "hinted"     -> 4
              [] s \in {"head", "fullAgain"} -> 3
              [] s = "again"      -> 2
              [] s = "headAgain"  -> 1

\* The steps that a stage may take at most.
Most(c) == ProbeTries + 2 * AwaitTries + Len(File[c]) + 9

\* Those that are left when the records h have been ingested.
Ahead(g, h) == CASE g.at = "probe"   -> AwaitTries + 3 + g.n
                 [] g.at = "launch"  -> AwaitTries + 2
                 [] g.at = "await"   -> g.n + 1
                 [] g.at = "ask"     -> 0
                 [] g.at = "open"    -> Len(File[g.chart]) + 6 + g.n
                 [] g.at = "verify"  -> Len(File[g.chart]) + 3 + g.n
                 [] g.at = "version" -> Len(File[g.chart]) + 2
                 [] g.at = "records" -> Len(File[g.chart]) - Len(h) + 1

StepsLeft(g, h) == Stage(g.step) * Most(g.chart) + Ahead(g, h)

LEMMA StageIs == \A s \in Resets \cup Ingests : Stage(s) \in 1..11
BY DEF Stage, Resets, Ingests

LEMMA MostIs == \A c \in Charts : Len(File[c]) \in Nat /\ Most(c) \in Nat
BY Tries, SencAssumption DEF Most, SencAssumption

LEMMA AheadIs ==
    ASSUME NEW g \in Call, NEW h, g.at = "records" => Len(h) \in 0..Len(File[g.chart])
    PROVE  /\ Ahead(g, h) \in 0..(Most(g.chart) - 1)
           /\ g.at # "ask" => Ahead(g, h) > 0
<1>1. /\ g.n \in 0..(ProbeTries + AwaitTries + 2) /\ g.at \in Places /\ Len(File[g.chart]) \in Nat
      /\ Most(g.chart) = ProbeTries + 2 * AwaitTries + Len(File[g.chart]) + 9
  BY MostIs DEF Call, Most
<1>2. /\ g.at = "probe"   => Ahead(g, h) = AwaitTries + 3 + g.n
      /\ g.at = "launch"  => Ahead(g, h) = AwaitTries + 2
      /\ g.at = "await"   => Ahead(g, h) = g.n + 1
      /\ g.at = "ask"     => Ahead(g, h) = 0
      /\ g.at = "open"    => Ahead(g, h) = Len(File[g.chart]) + 6 + g.n
      /\ g.at = "verify"  => Ahead(g, h) = Len(File[g.chart]) + 3 + g.n
      /\ g.at = "version" => Ahead(g, h) = Len(File[g.chart]) + 2
      /\ g.at = "records" => Ahead(g, h) = Len(File[g.chart]) - Len(h) + 1
  BY DEF Ahead
<1> DEFINE a == Ahead(g, h)
           l == Len(File[g.chart])
           m == Most(g.chart)
           n == g.n
<1>3. /\ n \in Nat /\ n <= ProbeTries + AwaitTries + 2 /\ l \in Nat /\ ProbeTries \in Nat /\ AwaitTries \in Nat
      /\ m = ProbeTries + 2 * AwaitTries + l + 9
  BY <1>1, Tries
<1>4. \/ g.at = "probe" /\ a = AwaitTries + 3 + n
      \/ g.at = "launch" /\ a = AwaitTries + 2
      \/ g.at = "await" /\ a = n + 1
      \/ g.at = "ask" /\ a = 0
      \/ g.at = "open" /\ a = l + 6 + n
      \/ g.at = "verify" /\ a = l + 3 + n
      \/ g.at = "version" /\ a = l + 2
      \/ \E k \in 0..l : a = l - k + 1
  BY <1>1, <1>2 DEF Places
<1> HIDE DEF a, l, m, n
<1>5. a \in 0..(m - 1) /\ (g.at # "ask" => a > 0)
  BY <1>3, <1>4
<1> QED
  BY <1>5 DEF a, m

\* Earlier in the order of stages, whatever is left within each.
LEMMA FewerStages ==
    ASSUME NEW a \in Nat, NEW b \in Nat, NEW m \in Nat, NEW x \in Nat, NEW y \in Nat, b < a, y < m
    PROVE  b * m + y < a * m + x
<1>1. PICK d \in Nat : a = b + 1 + d
  <2>1. a - b - 1 \in Nat /\ a = b + 1 + (a - b - 1)
    OBVIOUS
  <2> QED
    BY <2>1
<1>2. a * m = b * m + m + d * m /\ d * m \in Nat /\ b * m \in Nat
  BY <1>1
<1> QED
  BY <1>2

\* The records ingested are of the chart.
LEMMA RoomIs ==
    ASSUME IInv, gui \in Call
    PROVE  gui.at = "records" => Len(got) \in 0..Len(File[gui.chart])
<1> SUFFICES ASSUME gui.at = "records" PROVE Len(got) \in 0..Len(File[gui.chart])
  OBVIOUS
<1>1. /\ conn # Closed /\ conn.limit <= Length(gui.chart, conn.sends) /\ conn.sends = "chart"
      /\ conn.pos = 3 + 2 * Len(got) /\ conn.pos <= conn.limit
  BY DEF IInv, Streamed, Streams, TypeOK
<1>2. Len(got) \in Nat /\ conn.limit \in Nat /\ Len(File[gui.chart]) \in Nat
  BY <1>1, MostIs DEF IInv, TypeOK, Conn, Call
<1>3. Length(gui.chart, conn.sends) = 3 + 2 * Len(File[gui.chart])
  BY <1>1 DEF Length
<1> QED
  BY <1>1, <1>2, <1>3

Within(g, h) == StepsLeft(g, h) \in 0..(12 * Most(g.chart))

LEMMA LeftIs ==
    ASSUME NEW g \in Call, NEW h, g.at = "records" => Len(h) \in 0..Len(File[g.chart])
    PROVE  Within(g, h)
<1>1. /\ Stage(g.step) \in 1..11 /\ Most(g.chart) \in Nat
      /\ Ahead(g, h) \in 0..(Most(g.chart) - 1)
  BY StageIs, MostIs, AheadIs DEF Call
<1> DEFINE s == Stage(g.step)
           m == Most(g.chart)
<1>2. s * m + m <= 12 * m /\ s * m \in Nat
  <2> HIDE DEF s, m
  <2>1. PICK d \in Nat : 12 = s + 1 + d
    <3>1. 11 - s \in Nat /\ 12 = s + 1 + (11 - s)
      BY <1>1 DEF s
    <3> QED
      BY <3>1
  <2>2. m \in Nat /\ s \in Nat
    BY <1>1 DEF s, m
  <2>3. 12 * m = s * m + m + d * m /\ d * m \in Nat /\ s * m \in Nat
    BY <2>1, <2>2
  <2> QED
    BY <2>2, <2>3
<1> QED
  BY <1>1, <1>2 DEF StepsLeft, Within

\* The call returns, or has fewer steps left to take.
Fewer == \/ gui' = Idle
         \/ /\ gui' \in Call /\ gui'.chart = gui.chart /\ Within(gui', got')
            /\ StepsLeft(gui', got') < StepsLeft(gui, got)

LEMMA IsFewer ==
    ASSUME IInv, gui \in Call, NEW g \in Call, gui' = g, g.chart = gui.chart,
           g.at = "records" => Len(got') \in 0..Len(File[g.chart]),
           \/ Stage(g.step) < Stage(gui.step)
           \/ g.step = gui.step /\ Ahead(g, got') < Ahead(gui, got)
    PROVE  Fewer
<1>1. /\ Ahead(gui, got) \in 0..(Most(gui.chart) - 1) /\ Stage(gui.step) \in 1..11
      /\ Ahead(g, got') \in 0..(Most(g.chart) - 1) /\ Stage(g.step) \in 1..11
      /\ Most(gui.chart) \in Nat /\ Within(g, got')
  BY AheadIs, RoomIs, LeftIs, StageIs, MostIs DEF Call
<1>2. CASE Stage(g.step) < Stage(gui.step)
  <2>1. Stage(g.step) * Most(gui.chart) + Ahead(g, got') < Stage(gui.step) * Most(gui.chart) + Ahead(gui, got)
    <3>1. /\ Stage(gui.step) \in Nat /\ Stage(g.step) \in Nat /\ Most(gui.chart) \in Nat
          /\ Ahead(gui, got) \in Nat /\ Ahead(g, got') \in Nat /\ Ahead(g, got') < Most(gui.chart)
      BY <1>1
    <3> QED
      BY <1>2, <3>1, FewerStages
  <2> QED
    BY <1>1, <2>1 DEF Fewer, StepsLeft
<1>3. CASE g.step = gui.step /\ Ahead(g, got') < Ahead(gui, got)
  <2>1. Stage(gui.step) * Most(gui.chart) \in Nat
    BY <1>1
  <2> QED
    BY <1>1, <1>3, <2>1 DEF Fewer, StepsLeft
<1> QED
  BY <1>2, <1>3

LEMMA AtFewer ==
    ASSUME IInv, gui \in Call, NEW p \in Places \ {"records"}, NEW n \in 0..(ProbeTries + AwaitTries + 2),
           GoOn(At(p, n)), Ahead(At(p, n), got') < Ahead(gui, got)
    PROVE  Fewer
<1>1. /\ At(p, n) \in Call /\ At(p, n).chart = gui.chart /\ At(p, n).step = gui.step
      /\ At(p, n).at = p /\ gui' = At(p, n)
  BY AtIs DEF Same, GoOn
<1> QED
  BY <1>1, IsFewer

LEMMA AheadAt ==
    ASSUME gui \in Call, NEW n \in 0..(ProbeTries + AwaitTries + 2), NEW h
    PROVE  /\ Ahead(At("probe", n), h) = AwaitTries + 3 + n
           /\ Ahead(At("launch", n), h) = AwaitTries + 2
           /\ Ahead(At("await", n), h) = n + 1
           /\ Ahead(At("open", n), h) = Len(File[gui.chart]) + 6 + n
           /\ Ahead(At("verify", n), h) = Len(File[gui.chart]) + 3 + n
           /\ Ahead(At("version", n), h) = Len(File[gui.chart]) + 2
<1>1. \A p \in Places : At(p, n).at = p /\ At(p, n).n = n /\ At(p, n).chart = gui.chart
  BY AtIs DEF Same
<1>2. {"probe", "launch", "await", "open", "verify", "version"} \subseteq Places
  BY DEF Places
<1> HIDE DEF At
<1> QED
  BY <1>1, <1>2 DEF Ahead

LEMMA AfterFewer ==
    ASSUME IInv, gui \in Call, gui.at \in {"probe", "launch", "await"}, NEW g \in {gui, Undue(gui)},
           GoOn(AfterReset(g))
    PROVE  Fewer
<1>1. /\ g \in Call /\ g.chart = gui.chart /\ g.step = gui.step /\ gui.step \in Resets /\ key \in Texts
      /\ gui # Idle
  BY UndueIs, NotIdle DEF IInv, Placed, TypeOK, Texts
<1>2. AfterReset(g) \in Call /\ AfterReset(g).chart = gui.chart
  BY <1>1, AfterIs DEF Same
<1>3. \/ gui.step = "begin" /\ AfterReset(g).at = "ask" /\ AfterReset(g).step = "begin"
      \/ /\ AfterReset(g).at = "open"
         /\ \/ gui.step = "begin" /\ AfterReset(g).step \in {"full", "try"}
            \/ gui.step = "reset1" /\ AfterReset(g).step = "afterReset"
            \/ gui.step = "reset2" /\ AfterReset(g).step = "hinted"
            \/ gui.step = "again" /\ AfterReset(g).step = "headAgain"
  BY <1>1, AfterIs
<1>4. PICK h \in Call : h = AfterReset(g) /\ gui' = h /\ h.chart = gui.chart
  BY <1>2 DEF GoOn
<1>5. h.at # "records"
  BY <1>3, <1>4
<1>6. CASE gui.step = "begin" /\ h.at = "ask" /\ h.step = "begin"
  <2>1. Ahead(h, got') = 0 /\ Ahead(gui, got) > 0
    BY <1>6, AheadIs, RoomIs DEF Ahead
  <2> QED
    BY <1>4, <1>5, <1>6, <2>1, IsFewer
<1>7. CASE \/ gui.step = "begin" /\ h.step \in {"full", "try"}
           \/ gui.step = "reset1" /\ h.step = "afterReset"
           \/ gui.step = "reset2" /\ h.step = "hinted"
           \/ gui.step = "again" /\ h.step = "headAgain"
  <2>1. Stage(h.step) < Stage(gui.step)
    BY <1>7 DEF Stage
  <2> QED
    BY <1>4, <1>5, <2>1, IsFewer
<1> QED
  BY <1>3, <1>4, <1>6, <1>7

LEMMA IngestFewer ==
    ASSUME IInv, gui \in Call, NEW s \in Ingests, NEW k \in Texts, GoOn(Ingest(gui, s, k)),
           Stage(s) < Stage(gui.step)
    PROVE  Fewer
<1>1. /\ Ingest(gui, s, k) \in Call /\ Ingest(gui, s, k).chart = gui.chart /\ Ingest(gui, s, k).step = s
      /\ Ingest(gui, s, k).at # "records" /\ gui' = Ingest(gui, s, k)
  BY IngestIs, CallIsDraft DEF Same, GoOn
<1> QED
  BY <1>1, IsFewer

LEMMA ResetFewer ==
    ASSUME IInv, gui \in Call, NEW s \in Resets, GoOn(Reset(gui, s)), Stage(s) < Stage(gui.step)
    PROVE  Fewer
<1>1. /\ Reset(gui, s) \in Call /\ Reset(gui, s).chart = gui.chart /\ Reset(gui, s).step = s
      /\ Reset(gui, s).at # "records" /\ gui' = Reset(gui, s)
  BY ResetIs, CallIsDraft DEF Same, GoOn
<1> QED
  BY <1>1, IsFewer

\* Whatever a call of ingestHeader or ingest200 returns, its caller does not repeat it
\* for the same reason.
LEMMA IngestedFewer ==
    ASSUME IInv, gui \in Call, gui.at \in {"open"} \cup Streams, NEW res, Ingested(res)
    PROVE  Fewer
<1> DEFINE s == gui.step
           ok == res = "NO_ERROR"
<1>1. key \in Texts /\ gui.senc \in Texts
  BY DEF IInv, TypeOK, Texts, Call
<1>2. \/ s \in {"try", "quiet", "afterReset", "hinted"} /\ KeyValid
      \/ s = "try" /\ GoOn(Ingest(gui, "quiet", gui.senc))
      \/ s = "quiet" /\ GoOn(Reset(gui, "reset1"))
      \/ s = "afterReset" /\ GoOn(Reset(gui, "reset2"))
      \/ s = "head" /\ GoOn(Reset(gui, "again"))
      \/ s = "full" /\ GoOn(ValidateKey(gui))
      \/ \E b \in BOOLEAN, d \in {got, <<>>} : Return(b, d)
  BY DEF Ingested
<1>3. CASE s \in {"try", "quiet", "afterReset", "hinted"} /\ KeyValid
  <2>1. PICK i \in {"head", "fullAgain"} : GoOn(Ingest(gui, i, key))
    BY <1>3 DEF KeyValid
  <2>2. i \in Ingests /\ Stage(i) < Stage(gui.step)
    BY <1>3 DEF Stage, Ingests
  <2> QED
    BY <1>1, <2>1, <2>2, IngestFewer
<1>4. CASE s = "try" /\ GoOn(Ingest(gui, "quiet", gui.senc))
  <2>1. "quiet" \in Ingests /\ Stage("quiet") < Stage(gui.step)
    BY <1>4 DEF Stage, Ingests
  <2> QED
    BY <1>1, <1>4, <2>1, IngestFewer
<1>5. CASE \/ s = "quiet" /\ GoOn(Reset(gui, "reset1"))
           \/ s = "afterReset" /\ GoOn(Reset(gui, "reset2"))
           \/ s = "head" /\ GoOn(Reset(gui, "again"))
  <2>1. PICK r \in Resets : GoOn(Reset(gui, r)) /\ Stage(r) < Stage(gui.step)
    BY <1>5 DEF Stage, Resets
  <2> QED
    BY <2>1, ResetFewer
<1>6. CASE s = "full" /\ GoOn(ValidateKey(gui))
  <2> DEFINE h == ValidateKey(gui)
  <2>1. gui \in Draft
    BY CallIsDraft
  <2>2. /\ h \in Call /\ Same(h, gui)
        /\ \/ h.at = "ask" /\ h.step = gui.step
           \/ h.at = "open" /\ h.step = "try"
    BY <1>1, <2>1, ValidateIs
  <2> HIDE DEF h
  <2>3. h.chart = gui.chart /\ gui' = h
    BY <1>6, <2>2 DEF Same, GoOn, h
  <2>4. CASE h.at = "ask" /\ h.step = gui.step
    <3>1. Ahead(h, got') = 0 /\ Ahead(gui, got) > 0
      BY <2>4, AheadIs, RoomIs DEF Ahead, Streams
    <3> QED
      BY <2>2, <2>3, <2>4, <3>1, IsFewer
  <2>5. CASE h.at = "open" /\ h.step = "try"
    <3>1. Stage(h.step) < Stage(gui.step)
      BY <1>6, <2>5 DEF Stage
    <3> QED
      BY <2>2, <2>3, <2>5, <3>1, IsFewer
  <2> QED
    BY <2>2, <2>4, <2>5
<1>7. CASE \E b \in BOOLEAN, d \in {got, <<>>} : Return(b, d)
  BY <1>7 DEF Return, Fewer
<1> QED
  BY <1>2, <1>3, <1>4, <1>5, <1>6, <1>7

LEMMA ResetStepsFewer ==
    ASSUME IInv, gui \in Call, Probe \/ LaunchFails \/ Await \/ \E p \in Procs : Launch(p)
    PROVE  Fewer
<1> DEFINE N == 0..(ProbeTries + AwaitTries + 2)
<1>1. gui.n \in N /\ 0 \in N /\ AwaitTries \in N /\ {"probe", "launch", "await"} \subseteq Places \ {"records"}
  BY Tries DEF Call, Places
<1>2. \/ gui.at \in {"probe", "launch", "await"} /\ \E g \in {gui, Undue(gui)} : GoOn(AfterReset(g))
      \/ gui.at = "probe" /\ gui.n > 1 /\ GoOn(At("probe", gui.n - 1))
      \/ gui.at = "probe" /\ GoOn(At("launch", 0))
      \/ gui.at = "launch" /\ GoOn(At("await", AwaitTries))
      \/ gui.at = "await" /\ gui.n > 1 /\ GoOn(At("await", gui.n - 1))
  BY DEF Probe, LaunchFails, Await, Launch
<1>3. /\ gui.at = "probe"  => Ahead(gui, got) = AwaitTries + 3 + gui.n
      /\ gui.at = "launch" => Ahead(gui, got) = AwaitTries + 2
      /\ gui.at = "await"  => Ahead(gui, got) = gui.n + 1
  BY DEF Ahead
<1>4. CASE gui.at \in {"probe", "launch", "await"} /\ \E g \in {gui, Undue(gui)} : GoOn(AfterReset(g))
  BY <1>4, AfterFewer
<1>5. CASE gui.at = "probe" /\ gui.n > 1 /\ GoOn(At("probe", gui.n - 1))
  <2>1. gui.n - 1 \in N
    BY <1>1, <1>5, Tries
  <2>2. Ahead(At("probe", gui.n - 1), got') < Ahead(gui, got)
    BY <1>1, <1>3, <1>5, <2>1, AheadAt, Tries
  <2> QED
    BY <1>1, <1>5, <2>1, <2>2, AtFewer
<1>6. CASE gui.at = "probe" /\ GoOn(At("launch", 0))
  <2>1. Ahead(At("launch", 0), got') < Ahead(gui, got)
    BY <1>1, <1>3, <1>6, AheadAt, Tries
  <2> QED
    BY <1>1, <1>6, <2>1, AtFewer
<1>7. CASE gui.at = "launch" /\ GoOn(At("await", AwaitTries))
  <2>1. Ahead(At("await", AwaitTries), got') < Ahead(gui, got)
    BY <1>1, <1>3, <1>7, AheadAt, Tries
  <2> QED
    BY <1>1, <1>7, <2>1, AtFewer
<1>8. CASE gui.at = "await" /\ gui.n > 1 /\ GoOn(At("await", gui.n - 1))
  <2>1. gui.n - 1 \in N
    BY <1>1, <1>8, Tries
  <2>2. Ahead(At("await", gui.n - 1), got') < Ahead(gui, got)
    BY <1>1, <1>3, <1>8, <2>1, AheadAt, Tries
  <2> QED
    BY <1>1, <1>8, <2>1, <2>2, AtFewer
<1> QED
  BY <1>2, <1>4, <1>5, <1>6, <1>7, <1>8

LEMMA AskFewer == ASSUME IInv, gui \in Call, NEW k \in Keys \cup {Invalid}, Ask(k) PROVE Fewer
<1>1. gui.at = "ask" /\ GoOn(Ingest(gui, "try", k)) /\ k \in Texts /\ "try" \in Ingests
  BY DEF Ask, Texts, Ingests
<1>2. gui.step \in {"begin", "full"}
  BY <1>1, NotIdle DEF IInv, Placed
<1>3. Stage("try") < Stage(gui.step)
  BY <1>2 DEF Stage
<1> QED
  BY <1>1, <1>3, IngestFewer

LEMMA OpenStreamFewer == ASSUME IInv, gui \in Call, OpenStream PROVE Fewer
<1> DEFINE N == 0..(ProbeTries + AwaitTries + 2)
<1>1. gui.at = "open" /\ 1 \in N /\ 2 \in N /\ {"open", "verify"} \subseteq Places \ {"records"}
  BY Tries DEF OpenStream, Places
<1>2. \/ GoOn(At("verify", 2))
      \/ gui.n = 2 /\ GoOn(At("open", 1))
      \/ Ingested("SENCFILE_NOT_FOUND")
  BY DEF OpenStream
<1>3. Ahead(gui, got) = Len(File[gui.chart]) + 6 + gui.n /\ gui.n \in Nat /\ Len(File[gui.chart]) \in Nat
  BY <1>1, MostIs DEF Ahead, Call
<1>4. CASE GoOn(At("verify", 2))
  <2>1. Ahead(At("verify", 2), got') < Ahead(gui, got)
    BY <1>1, <1>3, AheadAt
  <2> QED
    BY <1>1, <1>4, <2>1, AtFewer
<1>5. CASE gui.n = 2 /\ GoOn(At("open", 1))
  <2>1. Ahead(At("open", 1), got') < Ahead(gui, got)
    BY <1>1, <1>3, <1>5, AheadAt
  <2> QED
    BY <1>1, <1>5, <2>1, AtFewer
<1>6. CASE Ingested("SENCFILE_NOT_FOUND")
  BY <1>1, <1>6, IngestedFewer
<1> QED
  BY <1>2, <1>4, <1>5, <1>6

LEMMA VerifyFewer ==
    ASSUME IInv, gui \in Call, VerifyBase \/ VerifyPlain \/ VerifyVersion
    PROVE  Fewer
<1> DEFINE N == 0..(ProbeTries + AwaitTries + 2)
<1>1. /\ gui.at \in {"verify", "version"} /\ gui.at \in {"open"} \cup Streams
      /\ {0, 1} \subseteq N /\ {"verify", "version"} \subseteq Places \ {"records"}
  BY Tries DEF VerifyBase, VerifyPlain, VerifyVersion, Places, Streams
<1>2. \/ \E res \in {"SENC_CORRUPT", "SIGNATURE_FAILURE"} : Ingested(res)
      \/ gui.at = "verify" /\ gui.n > 0 /\ gui.n = 2 /\ GoOn(At("verify", 1))
      \/ gui.at = "verify" /\ GoOn(At("version", 0))
      \/ gui.at = "verify" /\ gui.n > 0 /\ GoOn(At("verify", 0))
      \/ gui.at = "version" /\ UNCHANGED got /\ GoOn(At("records", 0))
  BY DEF VerifyBase, VerifyPlain, VerifyVersion
<1>3. /\ gui.at = "verify"  => Ahead(gui, got) = Len(File[gui.chart]) + 3 + gui.n
      /\ gui.at = "version" => Ahead(gui, got) = Len(File[gui.chart]) + 2
      /\ gui.n \in Nat /\ Len(File[gui.chart]) \in Nat
  BY MostIs DEF Ahead, Call
<1>4. CASE \E res \in {"SENC_CORRUPT", "SIGNATURE_FAILURE"} : Ingested(res)
  BY <1>1, <1>4, IngestedFewer
<1>5. CASE gui.at = "verify" /\ gui.n > 0 /\ gui.n = 2 /\ GoOn(At("verify", 1))
  <2>1. Ahead(At("verify", 1), got') < Ahead(gui, got)
    BY <1>1, <1>3, <1>5, AheadAt
  <2> QED
    BY <1>1, <1>5, <2>1, AtFewer
<1>6. CASE gui.at = "verify" /\ GoOn(At("version", 0))
  <2>1. Ahead(At("version", 0), got') < Ahead(gui, got)
    BY <1>1, <1>3, <1>6, AheadAt
  <2> QED
    BY <1>1, <1>6, <2>1, AtFewer
<1>7. CASE gui.at = "verify" /\ gui.n > 0 /\ GoOn(At("verify", 0))
  <2>1. Ahead(At("verify", 0), got') < Ahead(gui, got)
    BY <1>1, <1>3, <1>7, AheadAt
  <2> QED
    BY <1>1, <1>7, <2>1, AtFewer
<1>8. CASE gui.at = "version" /\ UNCHANGED got /\ GoOn(At("records", 0))
  <2>1. "records" \in Places /\ got' = <<>> /\ Len(got') = 0
    BY <1>8 DEF Places, IInv, Placed
  <2>2. /\ At("records", 0) \in Call /\ At("records", 0).chart = gui.chart
        /\ At("records", 0).step = gui.step /\ At("records", 0).at = "records" /\ gui' = At("records", 0)
    BY <1>1, <1>8, <2>1, AtIs DEF Same, GoOn
  <2>3. PICK h \in Call : h = At("records", 0)
    BY <2>2
  <2>4. Ahead(h, got') = Len(File[gui.chart]) - Len(got') + 1
    BY <2>2, <2>3 DEF Ahead
  <2>5. Ahead(h, got') < Ahead(gui, got) /\ Len(got') \in 0..Len(File[gui.chart])
    BY <1>3, <1>8, <2>1, <2>4
  <2> QED
    BY <2>2, <2>3, <2>5, IsFewer
<1> QED
  BY <1>2, <1>4, <1>5, <1>6, <1>7, <1>8

LEMMA NextRecordFewer == ASSUME IInv, gui \in Call, NextRecord PROVE Fewer
<1>1. /\ gui.at = "records" /\ gui.at \in {"open"} \cup Streams
      /\ Ahead(gui, got) = Len(File[gui.chart]) - Len(got) + 1
  BY DEF NextRecord, Streams, Ahead
<1>2. CASE Ingested("NO_ERROR")
  BY <1>1, <1>2, IngestedFewer
<1>3. CASE 2 \in Reads(2) /\ got' = Append(got, <<gui.chart, Number>>) /\ GoOn(gui)
  <2>1. /\ conn # Closed /\ conn.limit <= 3 + 2 * Len(File[gui.chart])
        /\ conn.pos = 3 + 2 * Len(got) /\ conn.limit \in Nat /\ conn.pos <= conn.limit
        /\ Len(got) \in Nat /\ Len(File[gui.chart]) \in Nat
    BY <1>1, MostIs DEF IInv, Streamed, Streams, TypeOK, Conn, Length, Call
  <2>2. conn.pos + 2 <= conn.limit
    BY <1>3, <2>1 DEF Reads
  <2>3. Len(got') = Len(got) + 1
    BY <1>3 DEF IInv, TypeOK
  <2>4. Len(got') \in 0..Len(File[gui.chart])
    BY <2>1, <2>2, <2>3
  <2>5. Ahead(gui, got') < Ahead(gui, got)
    BY <1>1, <2>1, <2>3 DEF Ahead
  <2>6. gui' = gui
    BY <1>3 DEF GoOn
  <2> QED
    BY <2>4, <2>5, <2>6, IsFewer
<1> QED
  BY <1>2, <1>3 DEF NextRecord

\* What a call of Init still has to do at most gets less with each of its own steps, and
\* is not changed by what the servers do meanwhile.
Bounded ==
    gui # Idle =>
        /\ Within(gui, got)
        /\ GuiStep => gui' = Idle \/ (Within(gui', got') /\ StepsLeft(gui', got') < StepsLeft(gui, got))
        /\ ~GuiStep => gui' = Idle \/ (gui'.chart = gui.chart /\ StepsLeft(gui', got') = StepsLeft(gui, got))

LEMMA NextBounded == IInv /\ [Next]_vars => [Bounded]_vars
<1> SUFFICES ASSUME IInv, Next, gui # Idle PROVE Bounded
  BY DEF Bounded
<1>1. gui \in Call /\ Within(gui, got)
  <2>1. gui \in Call
    BY OfGui DEF IInv, TypeOK
  <2> QED
    BY <2>1, RoomIs, LeftIs
<1>2. ASSUME GuiStep PROVE Fewer
  BY <1>1, <1>2, ResetStepsFewer, AskFewer, OpenStreamFewer, VerifyFewer, NextRecordFewer DEF GuiStep
<1>3. ASSUME NEW p \in Procs, Ready(p) \/ Stall(p) \/ Recover(p) \/ Die(p)
      PROVE  gui'.chart = gui.chart /\ StepsLeft(gui', got') = StepsLeft(gui, got)
  <2>1. gui' \in {gui, Undue(gui)} /\ got' = got
    BY <1>3 DEF Ready, Stall, Recover, Die, Upset, Stream
  <2>2. /\ gui'.at = gui.at /\ gui'.chart = gui.chart /\ gui'.step = gui.step /\ gui'.n = gui.n
    BY <1>1, <2>1, UndueIs
  <2>3. Ahead(gui', got') = Ahead(gui, got)
    BY <2>1, <2>2 DEF Ahead
  <2> QED
    BY <2>2, <2>3 DEF StepsLeft
<1>4. ASSUME Quit \/ Crash PROVE gui' = Idle
  BY <1>4 DEF Quit, Crash, Session
<1>5. ~ \E c \in Charts, full \in BOOLEAN : Open(c, full)
  BY DEF Open
<1> QED
  BY <1>1, <1>2, <1>3, <1>4, <1>5 DEF Next, Bounded, Fewer

\* A call of Init returns after a number of steps of its own that the constants give,
\* twelve times Most at the most, whatever the servers do: the retries of
\* validate_SENC_server, validateUserKey, BuildRAZFromSENCFile and of the reads are
\* bounded together.  That it returns takes no more than that its thread runs.
THEOREM CallsAreBounded == Spec => [][Bounded]_vars
<1>1. []IInv /\ [][Next]_vars => [][Bounded]_vars
  <2>1. IInv /\ [Next]_vars => [Bounded]_vars
    BY NextBounded
  <2> QED
    BY <2>1, PTL
<1> QED
  BY <1>1, Invariance, PTL DEF Spec
=============================================================================
