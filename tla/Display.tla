------------------------------- MODULE Display -------------------------------
(***************************************************************************)
(* What a chart shows of its objects, as the mariner's settings change:     *)
(* OpenCPN tells its settings by messages (oesenc_pi::SetPluginMessage), a  *)
(* chart in memory keeps for each object what the conditional symbology has *)
(* decided, and a rendering (RenderRegionViewOnGL, RenderRegionView) must    *)
(* find out that this is out of date by the state hash of OpenCPN's own      *)
(* presentation library.                                                    *)
(*                                                                          *)
(* OpenCPN is external: it has canvases with settings of their own and some *)
(* that are common to all, sends those of a canvas, and the common ones if  *)
(* they have changed, before it renders that canvas, and its hash tells the *)
(* settings apart.  The look-up tables are external as well: they give an    *)
(* object a display priority in each style it may be drawn in, and one       *)
(* category.  Left out: soundings, lights, texts and the objects of meta     *)
(* data, which have switches of their own, and the zoom modifier.            *)
(***************************************************************************)
EXTENDS S52Symbols, FiniteSetsExt

CONSTANTS
    Objs,        \* the objects of a chart
    Charts,      \* the contents it may have
    Edges,       \* edges shared by lines and boundaries
    Canvases, NoCanvas,
    Views,       \* settings of a canvas
    Globals,     \* settings common to all: the mariner's depths, the classes not shown
    Scales,      \* denominators of a scale
    Windows,     \* sets of objects that may be in sight
    NoHash

Categories == {"DISPLAYBASE", "STANDARD", "OTHER", "MARINERS_STANDARD"}
Styles     == {"SIMPLIFIED", "PAPER_CHART", "LINES", "PLAIN_BOUNDARIES", "SYMBOLIZED_BOUNDARIES"}
Priorities == 0..9

View == [cat : Categories, sym : {"SIMPLIFIED", "PAPER_CHART"},
         bnd : {"PLAIN_BOUNDARIES", "SYMBOLIZED_BOUNDARIES"}, useSCAMIN : BOOLEAN]

\* The styles an object of each geometry may be drawn in.
StylesOf(o) == CASE o.geo = "point" -> {"SIMPLIFIED", "PAPER_CHART"}
                 [] o.geo = "line"  -> {"LINES"}
                 [] o.geo = "area"  -> {"PLAIN_BOUNDARIES", "SYMBOLIZED_BOUNDARIES"}

ASSUME DisplayAssumption ==
    /\ Views \subseteq View /\ Views # {} /\ Globals # {}
    /\ \A g \in Globals : g.contour \in Nat \ {0} /\ g.deep \in Nat /\ g.hidden \subseteq Classes
    /\ \A c \in Charts : c \in [Objs -> [class : Classes, geo : Geos, disc : Categories, scamin : Nat,
                                        prio : [Styles -> Priorities], edges : SUBSET Edges,
                                        valsou : Int, watlev : Int, catobs : Int, catwrk : Int, cleared : BOOLEAN,
                                        valdco : Int, quapos : Int, qualty : Int, drval1 : Int, drval2 : Int, under : SUBSET Under]]
    /\ \A c \in Charts, x \in Objs :
          /\ Cardinality(c[x].under) <= 1 /\ c[x].valdco < Far
          /\ c[x].geo = "point" => c[x].edges = {}
          /\ c[x].geo = "area" => c[x].prio["PLAIN_BOUNDARIES"] = c[x].prio["SYMBOLIZED_BOUNDARIES"]
    /\ NoHash \notin Views \X Globals /\ NoCanvas \notin Canvases
    /\ Scales \subseteq Nat /\ (\A scale \in Scales : scale <= Far) /\ Windows \subseteq SUBSET Objs

VARIABLES
    canvas,     \* OpenCPN: the settings of each canvas
    common,     \* and those common to all
    reconfig,   \* these have changed since the last message
    told,       \* the canvas of the last message
    plib,       \* ps52plib: the settings as the plugin has them
    obj,        \* the chart: its objects
    raz,        \* razRules: an object is linked to its rules in a style
    hash,       \* m_plib_state_hash
    next,       \* m_next_safe_cnt
    stray,      \* objects for which a variable that is never set holds a low accuracy
    linesSet,   \* m_bLinePrioritySet
    cache,      \* bCS_Added, CSrules, m_DisplayCat, Scamin of each object
    edge,       \* the priority of each edge
    shown       \* the last rendering, until something changes

opencpn == <<canvas, common, reconfig>>
chart   == <<obj, raz, hash, next, stray, linesSet, cache, edge>>
vars    == <<opencpn, told, plib, chart, shown>>

Cache == [added : BOOLEAN, rules : SUBSET STRING, dcat : Categories, scamin : Nat]

TypeOK ==
    /\ canvas \in [Canvases -> Views]
    /\ common \in Globals
    /\ reconfig \in BOOLEAN
    /\ told \in Canvases \cup {NoCanvas}
    /\ plib \in [view : Views, common : Globals]
    /\ obj \in Charts
    /\ raz \subseteq Objs \X Styles
    /\ \A x \in Objs : \E s \in StylesOf(obj[x]) : <<x, s>> \in raz
    /\ hash \in (Views \X Globals) \cup {NoHash}
    /\ next \in Int
    /\ stray \subseteq Objs
    /\ linesSet \in BOOLEAN
    /\ DOMAIN cache = Objs
    /\ \A x \in Objs : /\ cache[x].added \in BOOLEAN /\ cache[x].dcat \in Categories
                       /\ cache[x].scamin \in {obj[x].scamin, Far}
    /\ edge \in [Edges -> Priorities]

-----------------------------------------------------------------------------
\* Loading a chart

StyleIn(o, v) == CASE o.geo = "point" -> v.sym
                   [] o.geo = "line"  -> "LINES"
                   [] o.geo = "area"  -> v.bnd

\* m_DPRI: by the tables for the style in use when the chart was loaded; of lines
\* and areas it is the same in every style.
LinePriority(o) == IF o.geo = "line" THEN o.prio["LINES"] ELSE o.prio["PLAIN_BOUNDARIES"]

MutLoaded(c, v) ==
    [obj |-> c, raz |-> {<<x, StyleIn(c[x], v)>> : x \in {y \in Objs : c[y].geo # "line"}},
     cache |-> [x \in Objs |-> [added |-> FALSE, rules |-> {}, dcat |-> c[x].disc, scamin |-> c[x].scamin]]]

Loaded(c, v) ==
    [obj |-> c, raz |-> {<<x, StyleIn(c[x], v)>> : x \in Objs},
     cache |-> [x \in Objs |-> [added |-> FALSE, rules |-> {}, dcat |-> c[x].disc, scamin |-> c[x].scamin]]]

Load(c) ==
    /\ LET new == Loaded(c, plib.view)
       IN  obj' = new.obj /\ raz' = new.raz /\ cache' = new.cache
    /\ hash' = NoHash /\ next' = Far /\ stray' = {} /\ linesSet' = FALSE
    /\ edge' = [e \in Edges |-> 0]
    /\ shown' = {}
    /\ UNCHANGED <<opencpn, told, plib>>

-----------------------------------------------------------------------------
\* OpenCPN's settings, and its messages

ChangeCanvas(c, v) ==
    /\ canvas[c] # v
    /\ canvas' = [canvas EXCEPT ![c] = v]
    /\ told' = NoCanvas /\ shown' = {}
    /\ UNCHANGED <<common, reconfig, plib, chart>>

ChangeCommon(g) ==
    /\ common # g
    /\ common' = g /\ reconfig' = TRUE
    /\ told' = NoCanvas /\ shown' = {}
    /\ UNCHANGED <<canvas, plib, chart>>

\* SetPluginMessage
Message(c) ==
    /\ told # c
    /\ told' = c
    /\ plib' = [view |-> canvas[c], common |-> IF reconfig THEN common ELSE plib.common]
    /\ reconfig' = FALSE /\ shown' = {}
    /\ UNCHANGED <<canvas, common, chart>>

-----------------------------------------------------------------------------
\* UpdateLUPs

\* The objects of one list of razRules.
InList(r, i, s) == {x \in Objs : <<x, s>> \in r /\ obj[x].prio[s] = i}

\* A list that is bare gets the objects of its counterpart, each at the priority it
\* has in the new style.
MutFill(r, i, s, other) == r

Fill(r, i, s, other) ==
    IF InList(r, i, s) # {} /\ InList(r, i, other) = {}
      THEN r \cup {<<x, other>> : x \in InList(r, i, s)}
      ELSE r

FillAll(r, i) ==
    LET a == Fill(r, i, "SIMPLIFIED", "PAPER_CHART")
        b == Fill(a, i, "PAPER_CHART", "SIMPLIFIED")
        c == Fill(b, i, "PLAIN_BOUNDARIES", "SYMBOLIZED_BOUNDARIES")
    IN  Fill(c, i, "SYMBOLIZED_BOUNDARIES", "PLAIN_BOUNDARIES")

Relinked(r) ==
    LET upTo[i \in -1..9] == IF i = -1 THEN r ELSE FillAll(upTo[i - 1], i)
    IN  upTo[9]

\* Conditional symbology is to be found anew, for every object.  Scamin stays.
Cleared(x, k) == [added |-> FALSE, rules |-> {}, dcat |-> obj[x].disc, scamin |-> k.scamin]

-----------------------------------------------------------------------------
\* SetSafetyContour

Contours == {obj[x].valdco : x \in {y \in Objs : obj[y].class = "DEPCNT"}} \ {0}

MutSafetyContour(g) ==
    LET deeper == {d \in Contours : d > g.contour}
    IN  IF deeper = {} THEN Far ELSE Min(deeper)

SafetyContour(g) ==
    LET deeper == {d \in Contours : d >= g.contour}
    IN  IF deeper = {} \/ (deeper # {} /\ Min(deeper) > g.deep) THEN Far ELSE Min(deeper)

-----------------------------------------------------------------------------
\* GetAndAddCSRules, once for an object until it is cleared

\* What the procedures go by besides the object and the mariner's depths.
Basis == [contour |-> next, stray |-> stray]

Procedure(x, g, n) == Symbols(obj[x], g, n.contour, x \in n.stray)

\* Whatever the variable holds when the procedures are run again.
Strays == SUBSET {x \in Objs : ReadsUnset(obj[x])}

Evaluate(x, k, n) ==
    IF k.added \/ ~HasCS(obj[x]) THEN k
    ELSE LET cs == Procedure(x, plib.common, n)
         IN  [added  |-> TRUE, rules |-> cs.sym,
              dcat   |-> IF cs.base THEN "DISPLAYBASE" ELSE k.dcat,
              scamin |-> IF cs.far THEN Far ELSE k.scamin]

Drawing(x, k) == IF HasCS(obj[x]) THEN k.rules ELSE Fixed

-----------------------------------------------------------------------------
\* SetLinePriorities

IsBoundary(x, r) == /\ obj[x].geo \in {"line", "area"}
                    /\ <<x, StyleIn(obj[x], plib.view)>> \in r

\* What cannot be seen in the category does not count.
Counts(x) == \/ plib.view.cat \in {"OTHER", "MARINERS_STANDARD"}
             \/ obj[x].disc = "DISPLAYBASE"
             \/ plib.view.cat = "STANDARD" /\ obj[x].disc = "STANDARD"
             \/ Mutable(obj[x])

EvaluateLines(k, r, n) ==
    [x \in Objs |-> IF IsBoundary(x, r) /\ Counts(x) THEN Evaluate(x, k[x], n) ELSE k[x]]

HasLine(x, k) == \E i \in Drawing(x, k) : IsLine(i)

\* The last one in the order of the priorities has the edge.
MutPrioritized(k, r) ==
    LET having(e) == {x \in Objs : IsBoundary(x, r) /\ Counts(x) /\ HasLine(x, k[x]) /\ e \in obj[x].edges}
    IN  [e \in Edges |-> Max({edge[e]} \cup {LinePriority(obj[x]) : x \in having(e)})]

Prioritized(k, r) ==
    LET having(e) == {x \in Objs : IsBoundary(x, r) /\ Counts(x) /\ HasLine(x, k[x]) /\ e \in obj[x].edges}
    IN  [e \in Edges |-> IF having(e) = {} THEN edge[e] ELSE Max({LinePriority(obj[x]) : x \in having(e)})]

-----------------------------------------------------------------------------
\* ObjectRenderCheckCat

InCategory(x, dcat, v, g) ==
    \/ dcat = "DISPLAYBASE"
    \/ v.cat = "STANDARD" /\ dcat = "STANDARD"
    \/ v.cat = "OTHER" /\ dcat \in {"STANDARD", "OTHER"}
    \/ v.cat = "MARINERS_STANDARD" /\ obj[x].class \notin g.hidden

\* SCAMIN is not applied to what the tables have in DISPLAYBASE, nor to group 1; nor, if
\* the mariner chooses the classes, to what has been moved to DISPLAYBASE.
InScale(x, dcat, scamin, v, scale) ==
    \/ ~v.useSCAMIN
    \/ v.cat = "MARINERS_STANDARD" /\ dcat = "DISPLAYBASE"
    \/ obj[x].disc = "DISPLAYBASE" \/ obj[x].prio[StyleIn(obj[x], v)] = 1
    \/ scale <= scamin

CheckCat(x, k, scale) ==
    InCategory(x, k.dcat, plib.view, plib.common) /\ InScale(x, k.dcat, k.scamin, plib.view, scale)

\* ObjectRenderCheckRules: an object that may be moved is given the chance.
MutCheckRules(x, k, scale, n) ==
    [seen |-> CheckCat(x, k, scale), k |-> IF CheckCat(x, k, scale) THEN Evaluate(x, k, n) ELSE k]

CheckRules(x, k, scale, n) ==
    LET moved == IF Mutable(obj[x]) THEN Evaluate(x, k, n) ELSE k
    IN  CASE CheckCat(x, k, scale)  -> [seen |-> TRUE, k |-> Evaluate(x, k, n)]
          [] ~CheckCat(x, k, scale) -> [seen |-> CheckCat(x, moved, scale), k |-> moved]

-----------------------------------------------------------------------------
\* RenderRegionViewOnGL, RenderRegionView, of a canvas of which the plugin has been
\* told, and of the objects in sight.

Present == <<canvas[told], common>>

MutIsStale == hash = NoHash

IsStale == hash # Present

Render(scale, window, anew) ==
    LET r  == IF IsStale THEN Relinked(raz) ELSE raz
        n  == IF IsStale THEN [contour |-> SafetyContour(plib.common), stray |-> anew] ELSE Basis
        k0 == IF IsStale THEN [x \in Objs |-> Cleared(x, cache[x])] ELSE cache
        set == linesSet /\ ~IsStale
        k1 == IF set THEN k0 ELSE EvaluateLines(k0, r, n)
        es == IF set THEN edge ELSE Prioritized(k1, r)
        inSight(x) == x \in window /\ <<x, StyleIn(obj[x], plib.view)>> \in r
        check == [x \in Objs |-> IF inSight(x) THEN CheckRules(x, k1[x], scale, n)
                                               ELSE [seen |-> FALSE, k |-> k1[x]]]
        seen == {x \in Objs : check[x].seen}
    IN  /\ told # NoCanvas
        /\ raz' = r /\ next' = n.contour /\ stray' = n.stray /\ hash' = Present /\ linesSet' = TRUE
        /\ cache' = [x \in Objs |-> check[x].k] /\ edge' = es
        /\ shown' = {[scale |-> scale, window |-> window,
                      drawn |-> {<<x, Drawing(x, check[x].k)>> : x \in seen}]}
        /\ UNCHANGED <<opencpn, told, plib, obj>>

-----------------------------------------------------------------------------
Init ==
    /\ canvas \in [Canvases -> Views] /\ common \in Globals
    /\ reconfig = FALSE /\ told = NoCanvas
    /\ plib \in [view : Views, common : {common}]
    /\ \E c \in Charts : LET new == Loaded(c, plib.view)
                         IN  obj = new.obj /\ raz = new.raz /\ cache = new.cache
    /\ hash = NoHash /\ next = Far /\ stray = {} /\ linesSet = FALSE
    /\ edge = [e \in Edges |-> 0]
    /\ shown = {}

Next ==
    \/ \E c \in Charts : Load(c)
    \/ \E c \in Canvases, v \in Views : ChangeCanvas(c, v)
    \/ \E g \in Globals : ChangeCommon(g)
    \/ \E c \in Canvases : Message(c)
    \/ \E scale \in Scales, window \in Windows, anew \in Strays : Render(scale, window, anew)

Spec == Init /\ [][Next]_vars

-----------------------------------------------------------------------------
\* Properties, of what has been drawn in the canvas that was last told of

IsDrawn(p, x) == \E d \in p.drawn : d[1] = x

Linked(x) == <<x, StyleIn(obj[x], canvas[told])>> \in raz

Now(x) == Procedure(x, common, [contour |-> SafetyContour(common), stray |-> stray])

\* What an object is drawn with, and whether it is, is what OpenCPN's settings of
\* this moment make of it, whatever settings, canvases and windows came before
\* (UpdateLUPs, bCS_Added, the state hash).  Not of contours that SCAMIN hides: one
\* that has been the safety contour keeps a scale without limit (DEPCNT02).
SymbolIsCurrent(p, x) == \A d \in p.drawn : d[1] = x => d[2] = IF HasCS(obj[x]) THEN Now(x).sym ELSE Fixed

CategoryNow(x) == IF HasCS(obj[x]) /\ Now(x).base THEN "DISPLAYBASE" ELSE obj[x].disc
ScaminNow(x)   == IF HasCS(obj[x]) /\ Now(x).far THEN Far ELSE obj[x].scamin
FitsNow(x, scale) == InScale(x, CategoryNow(x), ScaminNow(x), canvas[told], scale)

SeenIsCurrent(p, x) ==
    \/ IsDrawn(p, x) <=> InCategory(x, CategoryNow(x), canvas[told], common) /\ FitsNow(x, p.scale)
    \/ obj[x].class = "DEPCNT" /\ ~FitsNow(x, p.scale)

DrawnIsCurrent ==
    \A p \in shown : \A x \in p.window : Linked(x) => SymbolIsCurrent(p, x) /\ SeenIsCurrent(p, x)

\* After a change of style every object has its symbol in the new one (UpdateLUPs:
\* "to ensure all symbology is present iff needed"), the priorities of both being
\* the same.
AllLinked == \A p \in shown : \A x \in p.window : Linked(x)

\* A sounding above the safety contour, in waters that are below it: drawn as an
\* isolated danger whatever the category and the classes switched off, unless it dries or
\* is hidden by SCAMIN (_UDWHAZ03, "put in IMO category DISPLAYBASE").  An obstruction
\* that is a line has no symbol, but is drawn as a line, unless its accuracy is poor.
IsolatedDanger(x) ==
    /\ obj[x].class \in {"OBSTRN", "UWTROC", "WRECKS"} /\ ~obj[x].cleared /\ ~ReadsUnset(obj[x])
    /\ obj[x].valsou <= common.contour
    /\ \E a \in obj[x].under : a.drval1 >= common.contour

Marked(x, drawn) ==
    \/ "ISODGR51" \in drawn \/ obj[x].watlev \in {1, 2}
    \/ obj[x].geo = "line" /\ obj[x].class # "WRECKS" /\ "dotted" \in drawn

DangerDrawn(p, x) == \E d \in p.drawn : d[1] = x /\ Marked(x, d[2])

DangerShown ==
    \A p \in shown : \A x \in p.window :
        /\ IsolatedDanger(x)
        /\ canvas[told].useSCAMIN /\ canvas[told].cat # "MARINERS_STANDARD" => p.scale <= obj[x].scamin
        => DangerDrawn(p, x)

\* The contour of the safety depth, or the next deeper one that is no deeper than
\* the deep contour, is drawn as the safety contour in every category and at every
\* scale, and no other one is (DEPCNT02, "must be shown under all circumstances").
\* One with a QUAPOS of 1, 10 or 11 is not drawn at all.
Highlighted(p, x) == \E d \in p.drawn : d[1] = x /\ d[2] \cap {"SAFECN", "SAFECD"} # {}

NextDeeper(x) ==
    LET depth == obj[x].valdco
    IN  /\ depth >= common.contour
        /\ depth = common.contour \/ depth <= common.deep
        /\ \A y \in Objs : obj[y].class = "DEPCNT" /\ obj[y].valdco >= common.contour => obj[y].valdco >= depth

SafetyContourShown ==
    \A p \in shown : \A x \in p.window :
        obj[x].class = "DEPCNT" /\ obj[x].quapos \in {0} \cup 2..9
            => (Highlighted(p, x) <=> NextDeeper(x))

\* An edge of a line or boundary that is drawn is drawn by the object of the highest
\* priority: it does not vanish because it was given, now or under earlier settings, to one
\* that is not drawn (SetLinePriorities).  Except for an object of a mutable
\* class, a class switched off by the mariner, or one hidden by SCAMIN, which all keep
\* the edge.
DrawsLine(p, x) == \E d \in p.drawn : d[1] = x /\ \E i \in d[2] : IsLine(i)

EdgesDrawn ==
    \A p \in shown : \A x \in Objs : \A e \in obj[x].edges :
        LET on == {y \in Objs : e \in obj[y].edges}
        IN  /\ on \subseteq p.window /\ DrawsLine(p, x)
            /\ canvas[told].cat # "MARINERS_STANDARD" /\ ~canvas[told].useSCAMIN
            /\ \A y \in on : Mutable(obj[y]) => IsDrawn(p, y)
            => \E y \in on : DrawsLine(p, y) /\ LinePriority(obj[y]) = edge[e]

\* "According to S52 specs, SCAMIN must not apply to GROUP1 objects, Meta Objects or
\* DisplayCategoryBase objects" (s52plib.cpp 10827): nor to the dangers that have been
\* moved to DISPLAYBASE.
DangerAtAllScales ==
    \A p \in shown : \A x \in p.window : IsolatedDanger(x) => DangerDrawn(p, x)
=============================================================================
