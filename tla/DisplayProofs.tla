--------------------------- MODULE DisplayProofs ---------------------------
(***************************************************************************)
(* For every chart, every number of canvases and all settings: what a       *)
(* rendering draws of an object is what OpenCPN's settings of that moment   *)
(* make of it.  The argument is about one object at a time: what is kept of *)
(* it is either cleared or what the settings named by the chart's hash make *)
(* of it, and a rendering either clears it or finds the hash right.         *)
(*                                                                          *)
(* From there: every object is linked in every style from the first         *)
(* rendering on, the dangers and the safety contour are drawn, and every    *)
(* edge is given to an object that is drawn.                                *)
(***************************************************************************)
EXTENDS Display, WellFoundedInduction, TLAPS

\* What is kept of object x is right for the depths g and the safety contour n.
Good(x, k, g, n) ==
    /\ k.added \in BOOLEAN
    /\ k.scamin = obj[x].scamin \/ (obj[x].class = "DEPCNT" /\ k.scamin = Far)
    /\ ~k.added => k.dcat = obj[x].disc
    /\ k.added => /\ HasCS(obj[x])
                  /\ k.rules = Procedure(x, g, n).sym
                  /\ k.dcat = IF Procedure(x, g, n).base THEN "DISPLAYBASE" ELSE obj[x].disc
                  /\ Procedure(x, g, n).far => k.scamin = Far

Typed == /\ canvas \in [Canvases -> Views] /\ common \in Globals
         /\ told \in Canvases \cup {NoCanvas} /\ reconfig \in BOOLEAN
         /\ obj \in Charts

Informed == /\ ~reconfig => plib.common = common
            /\ told # NoCanvas => ~reconfig /\ plib.view = canvas[told]

Coherent == /\ \A x \in Objs : Good(x, cache[x], hash[2], Basis)
            /\ hash = NoHash => \A x \in Objs : ~cache[x].added
            /\ hash # NoHash => next = SafetyContour(hash[2])

IInv == Typed /\ Informed /\ Coherent /\ DrawnIsCurrent

-----------------------------------------------------------------------------
\* Only contours are freed of their scale (DEPCNT02).
LEMMA OnlyContours ==
    ASSUME NEW o, NEW g, NEW n, NEW low, o.class \in Classes, HasCS(o), Symbols(o, g, n, low).far
    PROVE  o.class = "DEPCNT"
<1>1. CASE o.class \in {"OBSTRN", "UWTROC"}
  BY <1>1 DEF Symbols, OBSTRN04
<1>2. CASE o.class = "WRECKS"
  BY <1>2 DEF Symbols, WRECKS02
<1>3. CASE o.class \in {"DEPARE", "DRGARE"}
  BY <1>3 DEF Symbols, DEPARE01
<1>4. CASE o.class = "COALNE"
  BY <1>4 DEF Symbols, QUALIN01
<1> QED
  BY <1>1, <1>2, <1>3, <1>4 DEF Classes, HasCS

\* Only objects of the mutable classes are moved to DISPLAYBASE (m_bcategory_mutable).
LEMMA OnlyMutable ==
    ASSUME NEW o, NEW g, NEW n, NEW low, o.class \in Classes, HasCS(o), Symbols(o, g, n, low).base
    PROVE  Mutable(o)
<1>1. CASE o.class \in {"DEPARE", "DRGARE"}
  BY <1>1 DEF Symbols, DEPARE01
<1>2. CASE o.class = "COALNE"
  BY <1>2 DEF Symbols, QUALIN01
<1> QED
  BY <1>1, <1>2 DEF Classes, HasCS, Mutable

\* Evaluate keeps what is right, and leaves nothing to be found.
LEMMA EvaluateGood ==
    ASSUME NEW x, NEW k, NEW n, obj[x].class \in Classes, Good(x, k, plib.common, n)
    PROVE  /\ Good(x, Evaluate(x, k, n), plib.common, n)
           /\ HasCS(obj[x]) => Evaluate(x, k, n).added
<1>1. CASE k.added \/ ~HasCS(obj[x])
  BY <1>1 DEF Evaluate, Good
<1>2. CASE ~k.added /\ HasCS(obj[x])
  <2> DEFINE cs == Procedure(x, plib.common, n)
  <2>1. Evaluate(x, k, n) = [added  |-> TRUE, rules |-> cs.sym,
                             dcat   |-> IF cs.base THEN "DISPLAYBASE" ELSE k.dcat,
                             scamin |-> IF cs.far THEN Far ELSE k.scamin]
    BY <1>2 DEF Evaluate
  <2>2. cs.far => obj[x].class = "DEPCNT"
    BY <1>2, OnlyContours DEF Procedure
  <2> HIDE DEF cs
  <2>3. /\ Evaluate(x, k, n).added = TRUE /\ Evaluate(x, k, n).rules = cs.sym
        /\ Evaluate(x, k, n).dcat = IF cs.base THEN "DISPLAYBASE" ELSE k.dcat
        /\ Evaluate(x, k, n).scamin = IF cs.far THEN Far ELSE k.scamin
    BY <2>1
  <2> QED
    BY <1>2, <2>2, <2>3 DEF Good, cs
<1> QED
  BY <1>1, <1>2 DEF Good

LEMMA ClearedGood ==
    ASSUME NEW x, NEW k, NEW g, NEW n,
           k.scamin = obj[x].scamin \/ (obj[x].class = "DEPCNT" /\ k.scamin = Far)
    PROVE  Good(x, Cleared(x, k), g, n)
  BY DEF Good, Cleared

\* No scale is beyond Far.
LEMMA WithinFar ==
    ASSUME NEW x, NEW d, NEW v, NEW scale, scale <= Far
    PROVE  InScale(x, d, Far, v, scale)
  BY DEF InScale

\* What is in DISPLAYBASE is in every category, and not hidden more than in another.
LEMMA BaseInEvery ==
    ASSUME NEW x, NEW v, NEW g, NEW d, InCategory(x, d, v, g)
    PROVE  InCategory(x, "DISPLAYBASE", v, g)
  BY DEF InCategory

LEMMA BaseFits ==
    ASSUME NEW x, NEW v, NEW d, NEW scamin, NEW scale, InScale(x, d, scamin, v, scale)
    PROVE  InScale(x, "DISPLAYBASE", scamin, v, scale)
  BY DEF InScale

\* The category and the scale that an object has, for the depths g and the safety contour n.
Base(x, g, n)   == HasCS(obj[x]) /\ Procedure(x, g, n).base
Beyond(x, g, n) == HasCS(obj[x]) /\ Procedure(x, g, n).far
Cat(x, g, n)    == IF Base(x, g, n) THEN "DISPLAYBASE" ELSE obj[x].disc
Fits(x, g, n, v, scale) ==
    InScale(x, Cat(x, g, n), IF Beyond(x, g, n) THEN Far ELSE obj[x].scamin, v, scale)

\* Whatever has been evaluated, or need not be, has the category and the scale of now.
LEMMA UpToDate ==
    ASSUME NEW x, NEW j, NEW n, NEW scale, scale <= Far, obj[x].class \in Classes,
           Good(x, j, plib.common, n),
           HasCS(obj[x]) => j.added \/ (~Base(x, plib.common, n) /\ ~Beyond(x, plib.common, n))
    PROVE  \/ CheckCat(x, j, scale) <=> /\ InCategory(x, Cat(x, plib.common, n), plib.view, plib.common)
                                        /\ Fits(x, plib.common, n, plib.view, scale)
           \/ obj[x].class = "DEPCNT" /\ ~Fits(x, plib.common, n, plib.view, scale)
<1>1. j.dcat = Cat(x, plib.common, n)
  BY DEF Good, Cat, Base
<1>2. Beyond(x, plib.common, n) => j.scamin = Far
  BY DEF Good, Beyond
<1>3. j.scamin = obj[x].scamin \/ (obj[x].class = "DEPCNT" /\ j.scamin = Far)
  BY DEF Good
<1>4. CheckCat(x, j, scale) <=> /\ InCategory(x, Cat(x, plib.common, n), plib.view, plib.common)
                                /\ InScale(x, Cat(x, plib.common, n), j.scamin, plib.view, scale)
  BY <1>1 DEF CheckCat
<1>5. CASE j.scamin = IF Beyond(x, plib.common, n) THEN Far ELSE obj[x].scamin
  BY <1>4, <1>5 DEF Fits
<1>6. CASE j.scamin # IF Beyond(x, plib.common, n) THEN Far ELSE obj[x].scamin
  <2>1. obj[x].class = "DEPCNT" /\ ~Beyond(x, plib.common, n) /\ j.scamin = Far
    BY <1>2, <1>3, <1>6
  <2>2. CASE Fits(x, plib.common, n, plib.view, scale)
    <3>1. InScale(x, Cat(x, plib.common, n), Far, plib.view, scale)
      BY WithinFar
    <3> QED
      BY <2>1, <2>2, <3>1, <1>4
  <2> QED
    BY <2>1, <2>2
<1> QED
  BY <1>5, <1>6

LEMMA MovedGood ==
    ASSUME NEW x, NEW k, NEW n, NEW scale, scale <= Far, obj[x].class \in Classes,
           plib.view \in Views, Good(x, k, plib.common, n), CheckCat(x, k, scale)
    PROVE  \/ /\ InCategory(x, Cat(x, plib.common, n), plib.view, plib.common)
              /\ Fits(x, plib.common, n, plib.view, scale)
           \/ obj[x].class = "DEPCNT" /\ ~Fits(x, plib.common, n, plib.view, scale)
<1>1. InCategory(x, k.dcat, plib.view, plib.common) /\ InScale(x, k.dcat, k.scamin, plib.view, scale)
  BY DEF CheckCat
<1>2. k.dcat = Cat(x, plib.common, n) \/ Cat(x, plib.common, n) = "DISPLAYBASE"
  BY DEF Good, Cat, Base
<1>3. /\ InCategory(x, Cat(x, plib.common, n), plib.view, plib.common)
      /\ InScale(x, Cat(x, plib.common, n), k.scamin, plib.view, scale)
  BY <1>1, <1>2, BaseInEvery, BaseFits
<1>4. InScale(x, Cat(x, plib.common, n), Far, plib.view, scale)
  BY WithinFar
<1>5. CASE Beyond(x, plib.common, n)
  BY <1>3, <1>4, <1>5 DEF Fits
<1>6. CASE ~Beyond(x, plib.common, n)
  <2>1. k.scamin = obj[x].scamin \/ obj[x].class = "DEPCNT"
    BY DEF Good
  <2>2. Fits(x, plib.common, n, plib.view, scale) <=> InScale(x, Cat(x, plib.common, n), obj[x].scamin, plib.view, scale)
    BY <1>6 DEF Fits
  <2> QED
    BY <1>1, <1>3, <2>1, <2>2
<1> QED
  BY <1>5, <1>6

\* An object that has been checked: it is seen if the settings have it seen, and then
\* what is kept of it is up to date.
LEMMA CheckRulesGood ==
    ASSUME NEW x, NEW k, NEW n, NEW scale, scale <= Far, obj[x].class \in Classes,
           plib.view \in Views, Good(x, k, plib.common, n)
    PROVE  /\ Good(x, CheckRules(x, k, scale, n).k, plib.common, n)
           /\ CheckRules(x, k, scale, n).seen /\ HasCS(obj[x]) => CheckRules(x, k, scale, n).k.added
           /\ \/ CheckRules(x, k, scale, n).seen <=>
                     /\ InCategory(x, Cat(x, plib.common, n), plib.view, plib.common)
                     /\ Fits(x, plib.common, n, plib.view, scale)
              \/ obj[x].class = "DEPCNT" /\ ~Fits(x, plib.common, n, plib.view, scale)
<1> DEFINE e     == Evaluate(x, k, n)
           moved == IF Mutable(obj[x]) THEN e ELSE k
           c     == CheckRules(x, k, scale, n)
<1>1. Good(x, e, plib.common, n) /\ (HasCS(obj[x]) => e.added)
  BY EvaluateGood
<1>2. Good(x, moved, plib.common, n)
  BY <1>1
<1>3. CASE CheckCat(x, k, scale)
  <2>1. c = [seen |-> TRUE, k |-> e]
    BY <1>3 DEF CheckRules
  <2>2. c.seen = TRUE /\ c.k = e
    BY <2>1
  <2> QED
    BY <1>1, <1>3, <2>2, MovedGood
<1>4. CASE ~CheckCat(x, k, scale)
  <2>1. c = [seen |-> CheckCat(x, moved, scale), k |-> moved]
    BY <1>4 DEF CheckRules
  <2>2. c.seen = CheckCat(x, moved, scale) /\ c.k = moved
    BY <2>1
  <2>3. HasCS(obj[x]) => moved.added \/ (~Base(x, plib.common, n) /\ ~Beyond(x, plib.common, n))
    <3>1. Base(x, plib.common, n) => Mutable(obj[x])
      BY OnlyMutable DEF Base, Procedure
    <3>2. Beyond(x, plib.common, n) => Mutable(obj[x])
      BY OnlyContours DEF Beyond, Mutable, Procedure
    <3> QED
      BY <1>1, <3>1, <3>2
  <2>4. \/ CheckCat(x, moved, scale) <=>
               /\ InCategory(x, Cat(x, plib.common, n), plib.view, plib.common)
               /\ Fits(x, plib.common, n, plib.view, scale)
        \/ obj[x].class = "DEPCNT" /\ ~Fits(x, plib.common, n, plib.view, scale)
    <3> HIDE DEF moved
    <3> QED
      BY <1>2, <2>3, UpToDate
  <2>5. CheckCat(x, moved, scale) /\ HasCS(obj[x]) => moved.added
    BY <1>1, <1>4
  <2> HIDE DEF c, moved
  <2> QED
    BY <1>2, <2>2, <2>4, <2>5 DEF c
<1> QED
  BY <1>3, <1>4

-----------------------------------------------------------------------------
\* The objects are of the modelled classes.
LEMMA Classed ==
    ASSUME Typed
    PROVE  \A x \in Objs : obj[x].class \in Classes
  BY DisplayAssumption DEF Typed

LEMMA InitIInv == Init => IInv
<1> SUFFICES ASSUME Init PROVE IInv
  OBVIOUS
<1>1. PICK c \in Charts : /\ obj = Loaded(c, plib.view).obj
                          /\ cache = Loaded(c, plib.view).cache
  BY DEF Init
<1>2. obj = c /\ cache = [x \in Objs |-> [added |-> FALSE, rules |-> {}, dcat |-> c[x].disc, scamin |-> c[x].scamin]]
  BY <1>1 DEF Loaded
<1>3. Typed /\ Informed
  BY <1>2 DEF Init, Typed, Informed
<1>4. \A x \in Objs : Good(x, cache[x], hash[2], Basis) /\ ~cache[x].added
  BY <1>2 DEF Good
<1>5. DrawnIsCurrent
  BY DEF Init, DrawnIsCurrent
<1> QED
  BY <1>3, <1>4, <1>5 DEF IInv, Coherent, Init

LEMMA LoadKeeps ==
    ASSUME IInv, NEW c \in Charts, Load(c)
    PROVE  IInv'
<1>1. obj' = c /\ cache' = [x \in Objs |-> [added |-> FALSE, rules |-> {}, dcat |-> c[x].disc, scamin |-> c[x].scamin]]
  BY DEF Load, Loaded
<1>2. hash' = NoHash /\ shown' = {} /\ UNCHANGED <<canvas, common, reconfig, told, plib>>
  BY DEF Load, opencpn
<1>3. Typed' /\ Informed'
  BY <1>1, <1>2 DEF IInv, Typed, Informed
<1>4. \A x \in Objs : Good(x, cache[x], hash[2], Basis)' /\ ~cache'[x].added
  BY <1>1 DEF Good
<1>5. DrawnIsCurrent'
  BY <1>2 DEF DrawnIsCurrent
<1> QED
  BY <1>2, <1>3, <1>4, <1>5 DEF IInv, Coherent

\* What is kept of the chart does not depend on what the canvases are set to.
LEMMA ChartKept ==
    ASSUME Coherent, UNCHANGED chart, shown' = {}
    PROVE  Coherent' /\ DrawnIsCurrent'
<1>1. obj' = obj /\ cache' = cache /\ hash' = hash /\ next' = next /\ stray' = stray
  BY DEF chart
<1>2. \A x \in Objs : Good(x, cache[x], hash[2], Basis)'
  BY <1>1 DEF Coherent, Good, Basis, Procedure
<1>3. hash' # NoHash => next' = SafetyContour(hash[2])'
  BY <1>1 DEF Coherent, SafetyContour, Contours
<1> QED
  BY <1>1, <1>2, <1>3 DEF Coherent, DrawnIsCurrent

LEMMA ChangeCanvasKeeps ==
    ASSUME IInv, NEW c \in Canvases, NEW v \in Views, ChangeCanvas(c, v)
    PROVE  IInv'
<1>1. Typed' /\ Informed'
  BY DisplayAssumption DEF IInv, Typed, Informed, ChangeCanvas, chart
<1>2. Coherent' /\ DrawnIsCurrent'
  BY ChartKept DEF IInv, ChangeCanvas
<1> QED
  BY <1>1, <1>2 DEF IInv

LEMMA ChangeCommonKeeps ==
    ASSUME IInv, NEW g \in Globals, ChangeCommon(g)
    PROVE  IInv'
<1>1. Typed' /\ Informed'
  BY DisplayAssumption DEF IInv, Typed, Informed, ChangeCommon, chart
<1>2. Coherent' /\ DrawnIsCurrent'
  BY ChartKept DEF IInv, ChangeCommon
<1> QED
  BY <1>1, <1>2 DEF IInv

LEMMA MessageKeeps ==
    ASSUME IInv, NEW c \in Canvases, Message(c)
    PROVE  IInv'
<1>1. plib'.view = canvas[c] /\ plib'.common = (IF reconfig THEN common ELSE plib.common)
  BY DEF Message
<1>2. told' = c /\ reconfig' = FALSE /\ UNCHANGED <<canvas, common, obj>>
  BY DEF Message, chart
<1>3. Typed' /\ Informed'
  BY <1>1, <1>2 DEF IInv, Typed, Informed
<1>4. Coherent' /\ DrawnIsCurrent'
  BY ChartKept DEF IInv, Message
<1> QED
  BY <1>3, <1>4 DEF IInv

-----------------------------------------------------------------------------
\* A rendering, of a canvas that the plugin has been told of.  What is kept of an
\* object before it is checked (k1) is right, whether the hash was found to have changed
\* or not; what is kept and drawn afterwards is then right as well.
LEMMA RenderKeeps ==
    ASSUME IInv, NEW scale \in Scales, NEW window \in Windows, NEW anew \in Strays, Render(scale, window, anew)
    PROVE  IInv'
<1> DEFINE r  == IF IsStale THEN Relinked(raz) ELSE raz
           n  == IF IsStale THEN [contour |-> SafetyContour(plib.common), stray |-> anew] ELSE Basis
           k0 == IF IsStale THEN [x \in Objs |-> Cleared(x, cache[x])] ELSE cache
           set == linesSet /\ ~IsStale
           k1 == IF set THEN k0 ELSE EvaluateLines(k0, r, n)
           inSight(x) == x \in window /\ <<x, StyleIn(obj[x], plib.view)>> \in r
           check == [x \in Objs |-> IF inSight(x) THEN CheckRules(x, k1[x], scale, n)
                                                  ELSE [seen |-> FALSE, k |-> k1[x]]]
           seen == {x \in Objs : check[x].seen}
           drawn == {<<x, Drawing(x, check[x].k)>> : x \in seen}
<1>1. /\ told # NoCanvas
      /\ raz' = r /\ next' = n.contour /\ stray' = n.stray /\ hash' = Present
      /\ cache' = [x \in Objs |-> check[x].k]
      /\ shown' = {[scale |-> scale, window |-> window, drawn |-> drawn]}
      /\ UNCHANGED <<opencpn, told, plib, obj>>
  BY DEF Render
<1>2. UNCHANGED <<canvas, common, reconfig, told, plib, obj>>
  BY <1>1 DEF opencpn
<1>3. plib.view = canvas[told] /\ plib.common = common /\ told \in Canvases
  BY <1>1 DEF IInv, Informed, Typed
<1>4. Present # NoHash /\ Present[2] = common /\ plib.view \in Views
  BY <1>3, DisplayAssumption DEF IInv, Typed, Present
<1>5. n = [contour |-> SafetyContour(common), stray |-> n.stray] /\ Basis' = n
  <2>1. CASE IsStale
    BY <1>1, <1>3, <2>1 DEF Basis
  <2>2. CASE ~IsStale
    BY <1>1, <1>4, <2>2 DEF IsStale, IInv, Coherent, Basis
  <2> QED
    BY <2>1, <2>2
<1>6. \A x \in Objs : Good(x, k0[x], plib.common, n)
  <2>1. CASE IsStale
    <3>1. \A x \in Objs : k0[x] = Cleared(x, cache[x])
      BY <2>1
    <3>2. \A x \in Objs : cache[x].scamin = obj[x].scamin \/ (obj[x].class = "DEPCNT" /\ cache[x].scamin = Far)
      BY DEF IInv, Coherent, Good
    <3> QED
      BY <3>1, <3>2, ClearedGood
  <2>2. CASE ~IsStale
    <3>1. k0 = cache /\ n = Basis /\ hash[2] = plib.common
      BY <1>3, <1>4, <2>2 DEF IsStale
    <3> QED
      BY <3>1 DEF IInv, Coherent
  <2> QED
    BY <2>1, <2>2
<1>7. \A x \in Objs : obj[x].class \in Classes
  BY Classed DEF IInv
<1>8. \A x \in Objs : Good(x, k1[x], plib.common, n)
  <2> HIDE DEF k0, r, n
  <2>1. CASE set
    BY <1>6, <2>1
  <2>2. CASE ~set
    <3>1. k1 = EvaluateLines(k0, r, n)
      BY <2>2
    <3> HIDE DEF k1
    <3>2. \A x \in Objs : k1[x] = Evaluate(x, k0[x], n) \/ k1[x] = k0[x]
      BY <3>1 DEF EvaluateLines
    <3> QED
      BY <1>6, <1>7, <3>2, EvaluateGood
  <2> QED
    BY <2>1, <2>2
<1> HIDE DEF n, k0, set, k1
<1>9. scale <= Far /\ window \subseteq Objs
  BY DisplayAssumption
<1>10. \A x \in Objs : IF inSight(x) THEN check[x] = CheckRules(x, k1[x], scale, n)
                                     ELSE check[x].k = k1[x] /\ check[x].seen = FALSE
  OBVIOUS
<1> HIDE DEF check
<1>11. \A x \in Objs : Good(x, check[x].k, plib.common, n)
  <2> TAKE x \in Objs
  <2>1. CASE inSight(x)
    BY <1>4, <1>7, <1>8, <1>9, <1>10, <2>1, CheckRulesGood
  <2>2. CASE ~inSight(x)
    BY <1>8, <1>10, <2>2
  <2> QED
    BY <2>1, <2>2
<1>12. ASSUME NEW x \in Objs, inSight(x)
       PROVE  /\ check[x].seen /\ HasCS(obj[x]) => check[x].k.rules = Procedure(x, plib.common, n).sym
              /\ \/ check[x].seen <=> /\ InCategory(x, Cat(x, plib.common, n), plib.view, plib.common)
                                      /\ Fits(x, plib.common, n, plib.view, scale)
                 \/ obj[x].class = "DEPCNT" /\ ~Fits(x, plib.common, n, plib.view, scale)
  <2>1. check[x] = CheckRules(x, k1[x], scale, n)
    BY <1>10, <1>12
  <2>2. check[x].seen /\ HasCS(obj[x]) => check[x].k.added
    BY <2>1, <1>4, <1>7, <1>8, <1>9, CheckRulesGood
  <2>3. \/ check[x].seen <=> /\ InCategory(x, Cat(x, plib.common, n), plib.view, plib.common)
                             /\ Fits(x, plib.common, n, plib.view, scale)
        \/ obj[x].class = "DEPCNT" /\ ~Fits(x, plib.common, n, plib.view, scale)
    BY <2>1, <1>4, <1>7, <1>8, <1>9, CheckRulesGood
  <2>4. check[x].seen /\ HasCS(obj[x]) => check[x].k.rules = Procedure(x, plib.common, n).sym
    BY <2>2, <1>11 DEF Good
  <2> QED
    BY <2>3, <2>4
<1>13. Typed' /\ Informed'
  BY <1>2 DEF IInv, Typed, Informed
<1>14. Coherent'
  <2>1. \A x \in Objs : Good(x, cache[x], hash[2], Basis)'
    <3>1. hash'[2] = plib.common /\ Basis' = n /\ obj' = obj
      BY <1>1, <1>2, <1>3, <1>4, <1>5
    <3>2. \A x \in Objs : cache'[x] = check[x].k
      BY <1>1
    <3> QED
      BY <1>11, <3>1, <3>2 DEF Good, Procedure
  <2>2. next' = SafetyContour(hash[2])'
    BY <1>1, <1>2, <1>4, <1>5 DEF SafetyContour, Contours
  <2>3. hash' # NoHash
    BY <1>1, <1>4
  <2> QED
    BY <2>1, <2>2, <2>3 DEF Coherent
<1>15. ASSUME NEW x \in Objs
       PROVE  /\ Now(x)' = Procedure(x, plib.common, n)
              /\ CategoryNow(x)' = Cat(x, plib.common, n)
              /\ InCategory(x, CategoryNow(x), canvas[told], common)'
                    <=> InCategory(x, Cat(x, plib.common, n), plib.view, plib.common)
              /\ FitsNow(x, scale)' <=> Fits(x, plib.common, n, plib.view, scale)
              /\ Linked(x)' <=> <<x, StyleIn(obj[x], plib.view)>> \in r
  <2>1. Now(x)' = Procedure(x, plib.common, n)
    BY <1>1, <1>2, <1>3, <1>5 DEF Now, Procedure, SafetyContour, Contours
  <2>2. CategoryNow(x)' = Cat(x, plib.common, n)
    BY <1>2, <2>1 DEF CategoryNow, Cat, Base
  <2>3. ScaminNow(x)' = IF Beyond(x, plib.common, n) THEN Far ELSE obj[x].scamin
    BY <1>2, <2>1 DEF ScaminNow, Beyond
  <2>4. InCategory(x, CategoryNow(x), canvas[told], common)'
           <=> InCategory(x, Cat(x, plib.common, n), plib.view, plib.common)
    BY <1>2, <1>3, <2>2 DEF InCategory
  <2>5. FitsNow(x, scale)' <=> Fits(x, plib.common, n, plib.view, scale)
    BY <1>2, <1>3, <2>2, <2>3 DEF FitsNow, InScale, Fits
  <2>6. Linked(x)' <=> <<x, StyleIn(obj[x], plib.view)>> \in r
    BY <1>1, <1>2, <1>3 DEF Linked
  <2> QED
    BY <2>1, <2>2, <2>4, <2>5, <2>6
<1>16. DrawnIsCurrent'
  <2>1. \A x \in Objs : \A d \in drawn : d[1] = x => check[x].seen /\ d[2] = Drawing(x, check[x].k)
    OBVIOUS
  <2>2. \A x \in Objs : check[x].seen => \E d \in drawn : d[1] = x
    <3> TAKE x \in Objs
    <3> HAVE check[x].seen
    <3> WITNESS <<x, Drawing(x, check[x].k)>> \in drawn
    <3> QED
      OBVIOUS
  <2> HIDE DEF drawn, r
  <2>3. PICK p : p = [scale |-> scale, window |-> window, drawn |-> drawn]
    OBVIOUS
  <2>4. p.window = window /\ p.scale = scale /\ p.drawn = drawn
    BY <2>3
  <2>5. ASSUME NEW x \in window, Linked(x)'
        PROVE  SymbolIsCurrent(p, x)' /\ SeenIsCurrent(p, x)'
    <3>1. x \in Objs /\ inSight(x)
      BY <1>9, <1>15, <2>5
    <3>2. SymbolIsCurrent(p, x)'
      <4>1. \A d \in drawn : d[1] = x => d[2] = IF HasCS(obj[x]) THEN Procedure(x, plib.common, n).sym ELSE Fixed
        BY <1>12, <2>1, <3>1 DEF Drawing
      <4> QED
        BY <4>1, <1>2, <1>15, <2>4, <3>1 DEF SymbolIsCurrent
    <3>3. (\E d \in drawn : d[1] = x) <=> check[x].seen
      BY <2>1, <2>2, <3>1
    <3>4. SeenIsCurrent(p, x)'
      BY <1>2, <1>12, <1>15, <2>4, <3>1, <3>3 DEF SeenIsCurrent, IsDrawn
    <3> QED
      BY <3>2, <3>4
  <2>6. shown' = {p}
    BY <1>1, <2>3 DEF drawn
  <2> QED
    BY <2>4, <2>5, <2>6 DEF DrawnIsCurrent
<1> QED
  BY <1>13, <1>14, <1>16 DEF IInv

-----------------------------------------------------------------------------
LEMMA NextIInv == IInv /\ [Next]_vars => IInv'
<1> SUFFICES ASSUME IInv, [Next]_vars PROVE IInv'
  OBVIOUS
<1>1. CASE Next
  BY <1>1, LoadKeeps, ChangeCanvasKeeps, ChangeCommonKeeps, MessageKeeps, RenderKeeps DEF Next
<1>2. CASE UNCHANGED vars
  <2>1. UNCHANGED <<canvas, common, reconfig, told, plib, obj, raz, hash, next, stray, cache, shown>>
    BY <1>2 DEF vars, opencpn, chart
  <2>2. Typed' /\ Informed'
    BY <2>1 DEF IInv, Typed, Informed
  <2>3. Coherent'
    <3>1. \A x \in Objs : Good(x, cache[x], hash[2], Basis)'
      BY <2>1 DEF IInv, Coherent, Good, Basis, Procedure
    <3>2. hash' # NoHash => next' = SafetyContour(hash[2])'
      BY <2>1 DEF IInv, Coherent, SafetyContour, Contours
    <3> QED
      BY <2>1, <3>1, <3>2 DEF IInv, Coherent
  <2>4. DrawnIsCurrent'
    <3>1. ASSUME NEW x PROVE Now(x)' = Now(x)
      BY <2>1 DEF Now, Procedure, SafetyContour, Contours
    <3>2. ASSUME NEW x, NEW p PROVE SymbolIsCurrent(p, x)' <=> SymbolIsCurrent(p, x)
      BY <2>1, <3>1 DEF SymbolIsCurrent
    <3>3. ASSUME NEW x PROVE /\ CategoryNow(x)' = CategoryNow(x) /\ ScaminNow(x)' = ScaminNow(x)
                             /\ Linked(x)' <=> Linked(x)
      BY <2>1, <3>1 DEF CategoryNow, ScaminNow, Linked
    <3>4. ASSUME NEW x, NEW scale
          PROVE  /\ FitsNow(x, scale)' <=> FitsNow(x, scale)
                 /\ InCategory(x, CategoryNow(x), canvas[told], common)'
                       <=> InCategory(x, CategoryNow(x), canvas[told], common)
      <4>1. FitsNow(x, scale)' <=> FitsNow(x, scale)
        BY <2>1, <3>3 DEF FitsNow, InScale
      <4>2. InCategory(x, CategoryNow(x), canvas[told], common)'
               <=> InCategory(x, CategoryNow(x), canvas[told], common)
        BY <2>1, <3>3 DEF InCategory
      <4> QED
        BY <4>1, <4>2
    <3>5. ASSUME NEW x, NEW p PROVE SeenIsCurrent(p, x)' <=> SeenIsCurrent(p, x)
      BY <2>1, <3>4 DEF SeenIsCurrent, IsDrawn
    <3> QED
      BY <2>1, <3>2, <3>3, <3>5 DEF IInv, DrawnIsCurrent
  <2> QED
    BY <2>2, <2>3, <2>4 DEF IInv
<1> QED
  BY <1>1, <1>2

LEMMA Invariance == Spec => []IInv
  BY InitIInv, NextIInv, PTL DEF Spec

-----------------------------------------------------------------------------
\* Whatever was rendered before, of whichever canvas and under whichever settings, an
\* object that is linked is drawn with the symbol, and only then, that the settings of
\* this moment give it (UpdateLUPs, GetAndAddCSRules, the comparison of the state hash
\* in RenderRegionViewOnGL).
THEOREM PictureIsCurrent == Spec => []DrawnIsCurrent
<1>1. IInv => DrawnIsCurrent
  BY DEF IInv
<1> QED
  BY <1>1, Invariance, PTL

-----------------------------------------------------------------------------
\* Least and greatest.  The natural numbers are well-founded, so that a failure for some
\* number has a least one.
LEMMA LeastNatural ==
    ASSUME NEW S, S \subseteq Nat, S # {}
    PROVE  \E m \in S : \A k \in S : m <= k
<1>1. PICK m \in S : \A k \in S : <<k, m>> \notin OpToRel(<, Nat)
  BY WFMin, NatLessThanWellFounded
<1>2. \A k \in S : ~(k < m)
  BY <1>1 DEF OpToRel
<1> QED
  BY <1>2

LEMMA GreatestPriority ==
    ASSUME NEW S, S \subseteq Priorities, S # {}
    PROVE  Max(S) \in S /\ \A p \in S : p <= Max(S)
<1> DEFINE T == {9 - p : p \in S}
<1>1. T \subseteq Nat /\ T # {}
  <2>1. \A p \in S : 9 - p \in Nat
    BY DEF Priorities
  <2> QED
    BY <2>1
<1>2. PICK m \in T : \A k \in T : m <= k
  BY <1>1, LeastNatural
<1>3. PICK p \in S : m = 9 - p
  BY <1>2
<1>4. \A q \in S : p >= q
  BY <1>2, <1>3 DEF Priorities
<1> QED
  BY <1>3, <1>4 DEF Max, Priorities

LEMMA LeastDepth ==
    ASSUME NEW S, S \subseteq Nat, S # {}
    PROVE  Min(S) \in S /\ \A d \in S : Min(S) <= d
BY LeastNatural DEF Min

\* The lists after each priority.
LEMMA RelinkedIs ==
    ASSUME NEW r
    PROVE  \E f : /\ f[-1] = r /\ f[9] = Relinked(r)
                  /\ \A i \in 0..9 : f[i] = FillAll(f[i - 1], i)
<1> DEFINE g0 == FillAll(r, 0)
           g1 == FillAll(g0, 1)
           g2 == FillAll(g1, 2)
           g3 == FillAll(g2, 3)
           g4 == FillAll(g3, 4)
           g5 == FillAll(g4, 5)
           g6 == FillAll(g5, 6)
           g7 == FillAll(g6, 7)
           g8 == FillAll(g7, 8)
           g9 == FillAll(g8, 9)
           g == [i \in -1..9 |-> CASE i = -1 -> r [] i = 0 -> g0 [] i = 1 -> g1 [] i = 2 -> g2 [] i = 3 -> g3
                                   [] i = 4 -> g4 [] i = 5 -> g5 [] i = 6 -> g6 [] i = 7 -> g7 [] i = 8 -> g8 [] i = 9 -> g9]
           Step(h) == [i \in -1..9 |-> IF i = -1 THEN r ELSE FillAll(h[i - 1], i)]
           f == CHOOSE h : h = Step(h)
<1>1. g = Step(g)
  <2> HIDE DEF g0, g1, g2, g3, g4, g5, g6, g7, g8, g9
  <2>1. /\ g[-1] = r /\ g[0] = g0 /\ g[1] = g1 /\ g[2] = g2 /\ g[3] = g3 /\ g[4] = g4 /\ g[5] = g5
        /\ g[6] = g6 /\ g[7] = g7 /\ g[8] = g8 /\ g[9] = g9
    OBVIOUS
  <2> HIDE DEF g
  <2>2. \A i \in -1..9 : g[i] = IF i = -1 THEN r ELSE FillAll(g[i - 1], i)
    <3> TAKE i \in -1..9
    <3>1. i \in {-1, 0, 1, 2, 3, 4, 5, 6, 7, 8, 9}
      OBVIOUS
    <3> QED
      BY <2>1, <3>1 DEF g0, g1, g2, g3, g4, g5, g6, g7, g8, g9
  <2>3. g = [i \in -1..9 |-> g[i]]
    BY DEF g
  <2> QED
    BY <2>2, <2>3
<1> HIDE DEF g
<1>2. f = Step(f)
  BY <1>1
<1>3. Relinked(r) = f[9]
  BY DEF Relinked
<1> HIDE DEF f
<1>4. f[-1] = r /\ \A i \in 0..9 : f[i] = FillAll(f[i - 1], i)
  BY <1>2
<1> QED
  BY <1>3, <1>4

-----------------------------------------------------------------------------
\* The objects of a chart.
LEMMA OfObj ==
    ASSUME Typed, NEW x \in Objs
    PROVE  /\ obj[x].class \in Classes /\ obj[x].geo \in Geos /\ obj[x].disc \in Categories
           /\ obj[x].scamin \in Nat /\ obj[x].prio \in [Styles -> Priorities] /\ obj[x].edges \subseteq Edges
           /\ obj[x].valdco \in Int /\ obj[x].valdco < Far
           /\ obj[x].geo = "point" => obj[x].edges = {}
           /\ obj[x].geo = "area" => obj[x].prio["PLAIN_BOUNDARIES"] = obj[x].prio["SYMBOLIZED_BOUNDARIES"]
<1>1. obj \in Charts
  BY DEF Typed
<1>2. obj[x] \in [class : Classes, geo : Geos, disc : Categories, scamin : Nat,
                  prio : [Styles -> Priorities], edges : SUBSET Edges,
                  valsou : Int, watlev : Int, catobs : Int, catwrk : Int, cleared : BOOLEAN,
                  valdco : Int, quapos : Int, qualty : Int, drval1 : Int, drval2 : Int, under : SUBSET Under]
  BY <1>1, DisplayAssumption
<1> QED
  BY <1>1, <1>2, DisplayAssumption

LEMMA OfView ==
    ASSUME NEW v \in Views
    PROVE  /\ v.cat \in Categories /\ v.useSCAMIN \in BOOLEAN
           /\ v.sym \in {"SIMPLIFIED", "PAPER_CHART"}
           /\ v.bnd \in {"PLAIN_BOUNDARIES", "SYMBOLIZED_BOUNDARIES"}
BY DisplayAssumption DEF View

LEMMA StyleOf ==
    ASSUME Typed, NEW x \in Objs, NEW v \in Views
    PROVE  StyleIn(obj[x], v) \in StylesOf(obj[x]) /\ StylesOf(obj[x]) \subseteq Styles
BY OfObj, OfView DEF StyleIn, StylesOf, Styles, Geos

LEMMA LineOf ==
    ASSUME Typed, NEW x \in Objs
    PROVE  LinePriority(obj[x]) \in Priorities
BY OfObj DEF LinePriority, Styles

\* What a list lacks is added, and nothing is taken away.
LEMMA Filled ==
    ASSUME NEW r, NEW i, NEW s, NEW other, NEW y, NEW t
    PROVE  <<y, t>> \in Fill(r, i, s, other)
              <=> <<y, t>> \in r \/ (t = other /\ y \in InList(r, i, s) /\ InList(r, i, other) = {})
BY DEF Fill

LEMMA FillGrows ==
    ASSUME NEW r, r \subseteq Objs \X Styles, NEW i, NEW s, NEW other \in Styles
    PROVE  r \subseteq Fill(r, i, s, other) /\ Fill(r, i, s, other) \subseteq Objs \X Styles
<1>1. InList(r, i, s) \subseteq Objs
  BY DEF InList
<1>2. {<<x, other>> : x \in InList(r, i, s)} \subseteq Objs \X Styles
  BY <1>1
<1> QED
  BY <1>2 DEF Fill

LEMMA FillAllGrows ==
    ASSUME NEW r, r \subseteq Objs \X Styles, NEW i
    PROVE  r \subseteq FillAll(r, i) /\ FillAll(r, i) \subseteq Objs \X Styles
<1> DEFINE a == Fill(r, i, "SIMPLIFIED", "PAPER_CHART")
           b == Fill(a, i, "PAPER_CHART", "SIMPLIFIED")
           c == Fill(b, i, "PLAIN_BOUNDARIES", "SYMBOLIZED_BOUNDARIES")
           d == Fill(c, i, "SYMBOLIZED_BOUNDARIES", "PLAIN_BOUNDARIES")
<1>0. {"SIMPLIFIED", "PAPER_CHART", "PLAIN_BOUNDARIES", "SYMBOLIZED_BOUNDARIES"} \subseteq Styles
  BY DEF Styles
<1>1. r \subseteq a /\ a \subseteq Objs \X Styles
  BY <1>0, FillGrows
<1> HIDE DEF a
<1>2. a \subseteq b /\ b \subseteq Objs \X Styles
  BY <1>0, <1>1, FillGrows
<1> HIDE DEF b
<1>3. b \subseteq c /\ c \subseteq Objs \X Styles
  BY <1>0, <1>2, FillGrows
<1> HIDE DEF c
<1>4. c \subseteq d /\ d \subseteq Objs \X Styles
  BY <1>0, <1>3, FillGrows
<1> HIDE DEF d
<1>5. FillAll(r, i) = d
  BY DEF FillAll, a, b, c, d
<1> QED
  BY <1>1, <1>2, <1>3, <1>4, <1>5

LEMMA RelinkedGrows ==
    ASSUME NEW r, r \subseteq Objs \X Styles
    PROVE  r \subseteq Relinked(r) /\ Relinked(r) \subseteq Objs \X Styles
<1>1. PICK f : f[-1] = r /\ f[9] = Relinked(r) /\ \A i \in 0..9 : f[i] = FillAll(f[i - 1], i)
  BY RelinkedIs
<1> DEFINE Within(i) == r \subseteq f[i] /\ f[i] \subseteq Objs \X Styles
           bad == {i \in 0..9 : ~Within(i)}
<1>2. ASSUME bad # {} PROVE FALSE
  <2>1. PICK m \in bad : \A k \in bad : m <= k
    BY <1>2, LeastNatural
  <2>2. Within(m - 1)
    <3>1. CASE m = 0
      BY <1>1, <3>1
    <3>2. CASE m # 0
      <4>1. m - 1 \in 0..9 /\ ~(m <= m - 1)
        BY <3>2
      <4> QED
        BY <2>1, <4>1
    <3> QED
      BY <3>1, <3>2
  <2>3. f[m] = FillAll(f[m - 1], m)
    BY <1>1
  <2>4. Within(m)
    BY <2>2, <2>3, FillAllGrows
  <2> QED
    BY <2>4
<1>3. Within(9)
  BY <1>2
<1> QED
  BY <1>1, <1>3

-----------------------------------------------------------------------------
\* The types of what is kept. `Good' says it of the cache, but for its domain.
LEMMA OfCache ==
    ASSUME Typed, NEW x \in Objs, NEW k, NEW g, NEW n, Good(x, k, g, n)
    PROVE  k.added \in BOOLEAN /\ k.dcat \in Categories /\ k.scamin \in {obj[x].scamin, Far}
BY OfObj DEF Good, Categories

LEMMA ContourOf ==
    ASSUME Typed, NEW g \in Globals
    PROVE  /\ SafetyContour(g) \in Int
           /\ \A d \in Contours : d \in Int /\ d < Far
           /\ SafetyContour(g) # Far =>
                 /\ SafetyContour(g) \in Contours
                 /\ g.contour <= SafetyContour(g) /\ SafetyContour(g) <= g.deep
                 /\ \A d \in Contours : d >= g.contour => SafetyContour(g) <= d
<1> DEFINE deeper == {d \in Contours : d >= g.contour}
<1>1. \A d \in Contours : d \in Int /\ d < Far
  BY OfObj DEF Contours
<1>2. deeper \subseteq Nat
  BY <1>1, DisplayAssumption
<1>3. Far \in Int
  BY DEF Far
<1>4. CASE deeper = {} \/ (deeper # {} /\ Min(deeper) > g.deep)
  BY <1>1, <1>3, <1>4 DEF SafetyContour
<1>5. CASE ~(deeper = {} \/ (deeper # {} /\ Min(deeper) > g.deep))
  <2>1. SafetyContour(g) = Min(deeper)
    BY <1>5 DEF SafetyContour
  <2>2. Min(deeper) \in deeper /\ \A d \in deeper : Min(deeper) <= d
    BY <1>2, <1>5, LeastDepth
  <2>3. Min(deeper) <= g.deep
    <3>1. Min(deeper) \in Nat /\ g.deep \in Nat /\ ~(Min(deeper) > g.deep)
      BY <1>2, <1>5, <2>2, DisplayAssumption
    <3> HIDE DEF deeper
    <3> QED
      BY <3>1
  <2> HIDE DEF deeper
  <2>4. SafetyContour(g) \in deeper /\ SafetyContour(g) <= g.deep /\ \A d \in deeper : SafetyContour(g) <= d
    BY <2>1, <2>2, <2>3
  <2>5. SafetyContour(g) \in Int
    BY <1>1, <2>4 DEF deeper
  <2> QED
    BY <1>1, <2>4, <2>5 DEF deeper
<1> QED
  BY <1>4, <1>5

-----------------------------------------------------------------------------
LEMMA InitTyped == Init => TypeOK
<1> SUFFICES ASSUME Init PROVE TypeOK
  OBVIOUS
<1>1. IInv
  BY InitIInv
<1>2. PICK c \in Charts : obj = c /\ raz = {<<x, StyleIn(c[x], plib.view)>> : x \in Objs}
                          /\ cache = [x \in Objs |-> [added |-> FALSE, rules |-> {}, dcat |-> c[x].disc, scamin |-> c[x].scamin]]
  BY DEF Init, Loaded
<1>3. plib \in [view : Views, common : Globals]
  BY DEF Init
<1>4. \A x \in Objs : StyleIn(obj[x], plib.view) \in StylesOf(obj[x]) /\ StyleIn(obj[x], plib.view) \in Styles
  BY <1>1, <1>3, StyleOf DEF IInv
<1>5. \A x \in Objs : /\ cache[x].added \in BOOLEAN /\ cache[x].dcat \in Categories
                      /\ cache[x].scamin \in {obj[x].scamin, Far}
  BY <1>1, OfCache DEF IInv, Coherent
<1>6. raz \subseteq Objs \X Styles /\ \A x \in Objs : \E s \in StylesOf(obj[x]) : <<x, s>> \in raz
  BY <1>2, <1>4
<1>7. next \in Int /\ stray \subseteq Objs /\ edge \in [Edges -> Priorities]
  BY DEF Init, Far, Priorities
<1> QED
  BY <1>1, <1>2, <1>3, <1>5, <1>6, <1>7 DEF IInv, Typed, Init, TypeOK

LEMMA RenderTyped ==
    ASSUME IInv, IInv', TypeOK, NEW scale \in Scales, NEW window \in Windows, NEW anew \in Strays, Render(scale, window, anew)
    PROVE  TypeOK'
<1> DEFINE r  == IF IsStale THEN Relinked(raz) ELSE raz
           n  == IF IsStale THEN [contour |-> SafetyContour(plib.common), stray |-> anew] ELSE Basis
           k0 == IF IsStale THEN [x \in Objs |-> Cleared(x, cache[x])] ELSE cache
           set == linesSet /\ ~IsStale
           k1 == IF set THEN k0 ELSE EvaluateLines(k0, r, n)
           inSight(x) == x \in window /\ <<x, StyleIn(obj[x], plib.view)>> \in r
           check == [x \in Objs |-> IF inSight(x) THEN CheckRules(x, k1[x], scale, n)
                                                  ELSE [seen |-> FALSE, k |-> k1[x]]]
<1>1. /\ told # NoCanvas
        /\ raz' = r /\ next' = n.contour /\ stray' = n.stray /\ hash' = Present /\ linesSet' = TRUE
      /\ edge' = IF set THEN edge ELSE Prioritized(k1, r)
      /\ cache' = [x \in Objs |-> check[x].k]
      /\ UNCHANGED <<opencpn, told, plib, obj>>
  BY DEF Render
<1>2. raz \subseteq r /\ r \subseteq Objs \X Styles
  BY RelinkedGrows DEF TypeOK
<1>3. n.contour \in Int /\ n.stray \subseteq Objs
  BY ContourOf DEF TypeOK, IInv, Strays, Basis
<1> HIDE DEF r, n, k0, k1, check, set
<1>4. edge' \in [Edges -> Priorities]
  <2>1. CASE edge' = edge
    BY <2>1 DEF TypeOK
  <2>2. CASE edge' = Prioritized(k1, r)
    <3> DEFINE having(e) == {x \in Objs : IsBoundary(x, r) /\ Counts(x) /\ HasLine(x, k1[x]) /\ e \in obj[x].edges}
               on(e) == {LinePriority(obj[x]) : x \in having(e)}
    <3>1. edge' = [e \in Edges |-> IF having(e) = {} THEN edge[e] ELSE Max(on(e))]
      BY <2>2 DEF Prioritized
    <3>2. ASSUME NEW e \in Edges, having(e) # {} PROVE Max(on(e)) \in Priorities
      <4>1. on(e) \subseteq Priorities
        BY LineOf DEF IInv
      <4>2. on(e) # {}
        BY <3>2
      <4> QED
        BY <4>1, <4>2, GreatestPriority
    <3> HIDE DEF having, on
    <3> QED
      BY <3>1, <3>2 DEF TypeOK
  <2> QED
    BY <1>1, <2>1, <2>2
<1>5. /\ canvas' = canvas /\ common' = common /\ reconfig' = reconfig /\ told' = told /\ plib' = plib /\ obj' = obj
      /\ raz' = r /\ next' = n.contour /\ stray' = n.stray /\ linesSet' = TRUE
  BY <1>1 DEF opencpn
<1>6. hash' \in Views \X Globals
  BY <1>1 DEF Present, TypeOK
<1>7. DOMAIN cache' = Objs
  BY <1>1
<1>8. \A x \in Objs : /\ cache'[x].added \in BOOLEAN /\ cache'[x].dcat \in Categories
                      /\ cache'[x].scamin \in {obj'[x].scamin, Far}
  <2> TAKE x \in Objs
  <2>1. Good(x, cache[x], hash[2], Basis)'
    BY DEF IInv, Coherent
  <2>2. obj[x].disc \in Categories
    BY OfObj DEF IInv
  <2> QED
    BY <1>5, <2>1, <2>2 DEF Good, Categories
<1>9. \A x \in Objs : \E s \in StylesOf(obj'[x]) : <<x, s>> \in raz'
  BY <1>2, <1>5 DEF TypeOK
<1> QED
  BY <1>2, <1>3, <1>4, <1>5, <1>6, <1>7, <1>8, <1>9 DEF TypeOK

LEMMA NextTyped == IInv /\ IInv' /\ TypeOK /\ [Next]_vars => TypeOK'
<1> SUFFICES ASSUME IInv, IInv', TypeOK, [Next]_vars PROVE TypeOK'
  OBVIOUS
<1>1. CASE \E c \in Charts : Load(c)
  <2>1. PICK c \in Charts : Load(c)
    BY <1>1
  <2>2. /\ obj' = c /\ raz' = {<<x, StyleIn(c[x], plib.view)>> : x \in Objs}
        /\ cache' = [x \in Objs |-> [added |-> FALSE, rules |-> {}, dcat |-> c[x].disc, scamin |-> c[x].scamin]]
        /\ hash' = NoHash /\ next' = Far /\ stray' = {} /\ linesSet' = FALSE /\ edge' = [e \in Edges |-> 0]
        /\ UNCHANGED <<canvas, common, reconfig, told, plib>>
    BY <2>1 DEF Load, Loaded, opencpn
  <2>3. \A x \in Objs : StyleIn(c[x], plib.view) \in StylesOf(c[x]) /\ StyleIn(c[x], plib.view) \in Styles
    <3>1. plib.view \in Views
      BY DEF TypeOK
    <3>2. \A x \in Objs : c[x].geo \in Geos
      BY DisplayAssumption
    <3> QED
      BY <3>1, <3>2, OfView DEF StyleIn, StylesOf, Styles, Geos
  <2>4. raz' \subseteq Objs \X Styles /\ \A x \in Objs : \E s \in StylesOf(obj'[x]) : <<x, s>> \in raz'
    BY <2>2, <2>3
  <2>5. \A x \in Objs : c[x].disc \in Categories /\ c[x].scamin \in Nat
    BY DisplayAssumption
  <2>6. /\ DOMAIN cache' = Objs
        /\ \A x \in Objs : /\ cache'[x].added \in BOOLEAN /\ cache'[x].dcat \in Categories
                           /\ cache'[x].scamin \in {obj'[x].scamin, Far}
    BY <2>2, <2>5
  <2>7. next' \in Int /\ stray' \subseteq Objs /\ edge' \in [Edges -> Priorities]
    BY <2>2 DEF Far, Priorities
  <2> QED
    BY <2>2, <2>4, <2>6, <2>7 DEF TypeOK
<1>2. CASE \E scale \in Scales, window \in Windows, anew \in Strays : Render(scale, window, anew)
  BY <1>2, RenderTyped
<1>3. CASE \/ \E c \in Canvases, v \in Views : ChangeCanvas(c, v)
           \/ \E g \in Globals : ChangeCommon(g)
           \/ \E c \in Canvases : Message(c)
           \/ UNCHANGED vars
  <2>1. UNCHANGED <<obj, raz, hash, next, stray, linesSet, cache, edge>>
    BY <1>3 DEF ChangeCanvas, ChangeCommon, Message, chart, vars
  <2>2. /\ canvas' \in [Canvases -> Views] /\ common' \in Globals /\ told' \in Canvases \cup {NoCanvas}
        /\ reconfig' \in BOOLEAN
    BY DEF IInv, Typed
  <2>3. plib' \in [view : Views, common : Globals]
    <3>1. CASE plib' = plib
      BY <3>1 DEF TypeOK
    <3>2. CASE \E c \in Canvases : Message(c)
      BY <3>2 DEF Message, TypeOK
    <3> QED
      BY <1>3, <3>1, <3>2 DEF ChangeCanvas, ChangeCommon, vars
  <2> QED
    BY <2>1, <2>2, <2>3 DEF TypeOK
<1> QED
  BY <1>1, <1>2, <1>3 DEF Next

\* Of every state: the types of the settings, of the lists and of what is kept
\* (Init to SetLinePriorities).
THEOREM TypeCorrect == Spec => []TypeOK
<1>1. Init => IInv /\ TypeOK
  BY InitIInv, InitTyped
<1>2. []IInv /\ TypeOK /\ [][Next]_vars => []TypeOK
  <2>1. IInv /\ IInv' /\ TypeOK /\ [Next]_vars => TypeOK'
    BY NextTyped
  <2> QED
    BY <2>1, PTL
<1> QED
  BY <1>1, <1>2, Invariance, PTL DEF Spec

-----------------------------------------------------------------------------
\* Styles.  In the tables a point has one priority, whichever symbols are chosen.
SamePriorities ==
    \A c \in Charts, x \in Objs :
        c[x].geo = "point" => c[x].prio["SIMPLIFIED"] = c[x].prio["PAPER_CHART"]

InAll(r) == \A x \in Objs : \A s \in StylesOf(obj[x]) : <<x, s>> \in r

\* A chart is loaded for one style, and has every style from the first rendering on.
Stylish == IF hash = NoHash THEN \E v \in Views : raz = {<<x, StyleIn(obj[x], v)>> : x \in Objs}
                            ELSE InAll(raz)

\* The priority of an object whatever its style.
Level(x) == obj[x].prio[CHOOSE s \in StylesOf(obj[x]) : TRUE]

LEMMA OneLevel ==
    ASSUME SamePriorities, Typed, NEW x \in Objs
    PROVE  Level(x) \in Priorities /\ \A s \in StylesOf(obj[x]) : obj[x].prio[s] = Level(x)
<1>1. \A s, t \in StylesOf(obj[x]) : obj[x].prio[s] = obj[x].prio[t]
  BY OfObj DEF SamePriorities, Typed, StylesOf, Geos
<1>2. StylesOf(obj[x]) # {} /\ StylesOf(obj[x]) \subseteq Styles
  BY OfObj DEF StylesOf, Geos, Styles
<1>3. (CHOOSE s \in StylesOf(obj[x]) : TRUE) \in StylesOf(obj[x])
  BY <1>2
<1> QED
  BY <1>1, <1>2, <1>3, OfObj DEF Level

\* What the lists hold of a chart loaded for the view v when they have been filled up
\* to priority i.
UpTo(r, v, i) ==
    \A x, s : <<x, s>> \in r <=> /\ x \in Objs /\ s \in StylesOf(obj[x])
                                 /\ s = StyleIn(obj[x], v) \/ Level(x) <= i

\* A list that lacks the objects of its counterpart gets them: of the styles s and t, q
\* has the objects X in the style w, and in the other one those of lower priority.
Fillable(q, i, s, t, w, X) ==
    /\ s # t /\ w \in {s, t} /\ X \subseteq Objs
    /\ \A x \in X : obj[x].prio[s] = obj[x].prio[t]
    /\ \A x : <<x, w>> \in q <=> x \in X
    /\ \A x, o : o \in {s, t} \ {w} /\ <<x, o>> \in q => x \in X /\ obj[x].prio[o] # i

PairIs(q, r, i, s, t, X) ==
    \A x, u : <<x, u>> \in r <=> <<x, u>> \in q \/ (u \in {s, t} /\ x \in X /\ obj[x].prio[s] = i)

LEMMA PairFilled ==
    ASSUME NEW q, NEW i, NEW s, NEW t, NEW w, NEW X, Fillable(q, i, s, t, w, X)
    PROVE  PairIs(q, Fill(Fill(q, i, s, t), i, t, s), i, s, t, X)
<1> USE DEF Fillable
<1> DEFINE In(r, x, u) == <<x, u>> \in r
           Has(r, u) == \E x \in Objs : In(r, x, u) /\ obj[x].prio[u] = i
           a == Fill(q, i, s, t)
           b == Fill(a, i, t, s)
<1>1. ASSUME NEW r, NEW g, NEW h, NEW x, NEW u
      PROVE  In(Fill(r, i, g, h), x, u)
                <=> In(r, x, u) \/ (u = h /\ x \in Objs /\ In(r, x, g) /\ obj[x].prio[g] = i /\ ~Has(r, h))
  <2>1. InList(r, i, h) = {} <=> ~Has(r, h)
    BY DEF InList
  <2>2. x \in InList(r, i, g) <=> x \in Objs /\ In(r, x, g) /\ obj[x].prio[g] = i
    BY DEF InList
  <2> QED
    BY <2>1, <2>2, Filled
<1>2. \A x : In(q, x, w) <=> x \in X
  OBVIOUS
<1>3. \A x, o : o \in {s, t} \ {w} /\ In(q, x, o) => x \in X /\ obj[x].prio[o] # i
  OBVIOUS
<1>4. \A o \in {s, t} \ {w} : ~Has(q, o)
  BY <1>3
<1>5. \A x \in X : x \in Objs /\ obj[x].prio[s] = obj[x].prio[t]
  OBVIOUS
<1> HIDE DEF In, Has
<1>6. CASE w = s
  <2>1. ASSUME NEW x, NEW u
        PROVE  In(a, x, u) <=> In(q, x, u) \/ (u = t /\ x \in X /\ obj[x].prio[s] = i)
    <3>1. In(a, x, u) <=> In(q, x, u) \/ (u = t /\ x \in Objs /\ In(q, x, s) /\ obj[x].prio[s] = i /\ ~Has(q, t))
      BY <1>1
    <3> QED
      BY <1>2, <1>4, <1>5, <1>6, <3>1
  <2>2. ASSUME NEW x, NEW u PROVE In(b, x, u) <=> In(a, x, u)
    <3>1. In(b, x, u) <=> In(a, x, u) \/ (u = s /\ x \in Objs /\ In(a, x, t) /\ obj[x].prio[t] = i /\ ~Has(a, s))
      BY <1>1
    <3>2. ASSUME x \in Objs, In(a, x, t), obj[x].prio[t] = i PROVE In(a, x, s)
      <4>1. In(q, x, t) \/ x \in X
        BY <2>1, <3>2
      <4>2. x \in X
        BY <1>3, <1>6, <4>1
      <4> QED
        BY <1>2, <1>6, <2>1, <4>2
    <3> QED
      BY <3>1, <3>2
  <2>3. ASSUME NEW x, NEW u
        PROVE  In(b, x, u) <=> In(q, x, u) \/ (u \in {s, t} /\ x \in X /\ obj[x].prio[s] = i)
    BY <1>2, <1>6, <2>1, <2>2
  <2> QED
    BY <2>3 DEF In, PairIs
<1>7. CASE w = t
  <2>1. ASSUME NEW x, NEW u PROVE In(a, x, u) <=> In(q, x, u)
    <3>1. In(a, x, u) <=> In(q, x, u) \/ (u = t /\ x \in Objs /\ In(q, x, s) /\ obj[x].prio[s] = i /\ ~Has(q, t))
      BY <1>1
    <3> QED
      BY <1>2, <1>3, <1>5, <1>7, <3>1
  <2>2. ~Has(a, s)
    BY <1>4, <1>7, <2>1 DEF Has
  <2>3. ASSUME NEW x, NEW u
        PROVE  In(b, x, u) <=> In(q, x, u) \/ (u \in {s, t} /\ x \in X /\ obj[x].prio[s] = i)
    <3>1. In(b, x, u) <=> In(a, x, u) \/ (u = s /\ x \in Objs /\ In(a, x, t) /\ obj[x].prio[t] = i /\ ~Has(a, s))
      BY <1>1
    <3> QED
      BY <1>2, <1>5, <1>7, <2>1, <2>2, <3>1
  <2> QED
    BY <2>3 DEF In, PairIs
<1> QED
  BY <1>6, <1>7

LEMMA FillAllIs ==
    ASSUME SamePriorities, Typed, NEW v \in Views, NEW i \in Priorities, NEW r, UpTo(r, v, i - 1)
    PROVE  UpTo(FillAll(r, i), v, i)
<1> DEFINE points == {"SIMPLIFIED", "PAPER_CHART"}
           areas  == {"PLAIN_BOUNDARIES", "SYMBOLIZED_BOUNDARIES"}
           X == {x \in Objs : StylesOf(obj[x]) = points}
           Y == {x \in Objs : StylesOf(obj[x]) = areas}
           b == Fill(Fill(r, i, "SIMPLIFIED", "PAPER_CHART"), i, "PAPER_CHART", "SIMPLIFIED")
           d == Fill(Fill(b, i, "PLAIN_BOUNDARIES", "SYMBOLIZED_BOUNDARIES"),
                     i, "SYMBOLIZED_BOUNDARIES", "PLAIN_BOUNDARIES")
<1>1. \A x \in Objs : /\ Level(x) \in 0..9 /\ \A s \in StylesOf(obj[x]) : obj[x].prio[s] = Level(x)
                      /\ StylesOf(obj[x]) = points \/ StylesOf(obj[x]) = areas \/ StylesOf(obj[x]) = {"LINES"}
                      /\ StyleIn(obj[x], v) \in StylesOf(obj[x])
  BY OneLevel, OfObj, StyleOf DEF StylesOf, Geos, Priorities
<1>2. /\ \A x \in X : StyleIn(obj[x], v) = v.sym
      /\ \A x \in Y : StyleIn(obj[x], v) = v.bnd
  BY OfObj DEF StylesOf, StyleIn, Geos
<1>3. v.sym \in points /\ v.bnd \in areas
  BY OfView
<1>4. \A x, s : <<x, s>> \in r <=> /\ x \in Objs /\ s \in StylesOf(obj[x])
                                   /\ s = StyleIn(obj[x], v) \/ Level(x) <= i - 1
  BY DEF UpTo
<1>5. i \in 0..9
  BY DEF Priorities
<1>6. \A x, u : <<x, u>> \in b <=> <<x, u>> \in r \/ (u \in points /\ x \in X /\ Level(x) = i)
  <2>1. \A x \in X : obj[x].prio["SIMPLIFIED"] = Level(x) /\ obj[x].prio["PAPER_CHART"] = Level(x) /\ Level(x) \in 0..9
    BY <1>1
  <2>2. \A x, s : s \in points /\ <<x, s>> \in r => x \in X
    BY <1>1, <1>4
  <2>3. \A x : <<x, v.sym>> \in r <=> x \in X
    BY <1>1, <1>2, <1>3, <1>4, <2>2
  <2>4. \A x, o : o \in points \ {v.sym} /\ <<x, o>> \in r => x \in X /\ Level(x) # i
    BY <1>2, <1>4, <1>5, <2>1, <2>2
  <2>5. \A x, o : o \in points \ {v.sym} /\ <<x, o>> \in r => x \in X /\ obj[x].prio[o] # i
    BY <2>1, <2>4
  <2>6. X \in SUBSET Objs
    OBVIOUS
  <2> HIDE DEF X, b
  <2>7. \A x, u : <<x, u>> \in b <=> <<x, u>> \in r \/ (u \in points /\ x \in X /\ obj[x].prio["SIMPLIFIED"] = i)
    <3>1. Fillable(r, i, "SIMPLIFIED", "PAPER_CHART", v.sym, X)
      BY <1>3, <2>1, <2>3, <2>5, <2>6 DEF Fillable
    <3>2. PairIs(r, b, i, "SIMPLIFIED", "PAPER_CHART", X)
      BY <3>1, PairFilled DEF b
    <3> QED
      BY <3>2 DEF PairIs
  <2> QED
    BY <2>1, <2>7
<1>7. \A x, u : <<x, u>> \in d <=> <<x, u>> \in b \/ (u \in areas /\ x \in Y /\ Level(x) = i)
  <2>1. \A x \in Y : obj[x].prio["PLAIN_BOUNDARIES"] = Level(x) /\ obj[x].prio["SYMBOLIZED_BOUNDARIES"] = Level(x)
                     /\ Level(x) \in 0..9
    BY <1>1
  <2>2. \A x, s : s \in areas /\ <<x, s>> \in b => x \in Y /\ <<x, s>> \in r
    BY <1>1, <1>4, <1>6
  <2>3. \A x : <<x, v.bnd>> \in b <=> x \in Y
    BY <1>1, <1>2, <1>3, <1>4, <1>6, <2>2
  <2>4. \A x, o : o \in areas \ {v.bnd} /\ <<x, o>> \in b => x \in Y /\ Level(x) # i
    BY <1>2, <1>4, <1>5, <2>1, <2>2
  <2>5. \A x, o : o \in areas \ {v.bnd} /\ <<x, o>> \in b => x \in Y /\ obj[x].prio[o] # i
    BY <2>1, <2>4
  <2>6. Y \in SUBSET Objs
    OBVIOUS
  <2> HIDE DEF Y, b, d
  <2>7. \A x, u : <<x, u>> \in d <=> <<x, u>> \in b \/ (u \in areas /\ x \in Y /\ obj[x].prio["PLAIN_BOUNDARIES"] = i)
    <3>1. Fillable(b, i, "PLAIN_BOUNDARIES", "SYMBOLIZED_BOUNDARIES", v.bnd, Y)
      BY <1>3, <2>1, <2>3, <2>5, <2>6 DEF Fillable
    <3>2. PairIs(b, d, i, "PLAIN_BOUNDARIES", "SYMBOLIZED_BOUNDARIES", Y)
      BY <3>1, PairFilled DEF d
    <3> QED
      BY <3>2 DEF PairIs
  <2> QED
    BY <2>1, <2>7
<1>8. FillAll(r, i) = d
  BY DEF FillAll
<1> HIDE DEF b, d
<1>9. ASSUME NEW x, NEW s
      PROVE  <<x, s>> \in d <=> /\ x \in Objs /\ s \in StylesOf(obj[x])
                                /\ s = StyleIn(obj[x], v) \/ Level(x) <= i
  <2>1. <<x, s>> \in d <=> \/ <<x, s>> \in r
                           \/ s \in points /\ x \in X /\ Level(x) = i
                           \/ s \in areas /\ x \in Y /\ Level(x) = i
    BY <1>6, <1>7
  <2>2. CASE x \in Objs
    <3>1. Level(x) \in 0..9 /\ (Level(x) <= i <=> Level(x) <= i - 1 \/ Level(x) = i)
      BY <1>1, <1>5, <2>2
    <3>2. CASE StylesOf(obj[x]) = {"LINES"}
      BY <1>1, <1>4, <2>1, <2>2, <3>1, <3>2
    <3>3. CASE StylesOf(obj[x]) = points
      BY <1>4, <2>1, <2>2, <3>1, <3>3
    <3>4. CASE StylesOf(obj[x]) = areas
      BY <1>4, <2>1, <2>2, <3>1, <3>4
    <3> QED
      BY <1>1, <2>2, <3>2, <3>3, <3>4
  <2>3. CASE x \notin Objs
    BY <1>4, <2>1, <2>3
  <2> QED
    BY <2>2, <2>3
<1> QED
  BY <1>8, <1>9 DEF UpTo

LEMMA RelinkedAll ==
    ASSUME SamePriorities, Typed, Stylish, raz \subseteq Objs \X Styles
    PROVE  InAll(Relinked(raz))
<1>1. CASE hash # NoHash
  BY <1>1, RelinkedGrows DEF Stylish, InAll
<1>2. CASE hash = NoHash
  <2>1. PICK v \in Views : raz = {<<x, StyleIn(obj[x], v)>> : x \in Objs}
    BY <1>2 DEF Stylish
  <2>2. PICK f : f[-1] = raz /\ f[9] = Relinked(raz) /\ \A i \in 0..9 : f[i] = FillAll(f[i - 1], i)
    BY RelinkedIs
  <2> DEFINE bad == {i \in 0..9 : ~UpTo(f[i], v, i)}
  <2>3. UpTo(f[-1], v, -1)
    <3>1. \A x \in Objs : Level(x) \in 0..9 /\ StyleIn(obj[x], v) \in StylesOf(obj[x])
      BY OneLevel, StyleOf DEF Priorities
    <3> QED
      BY <2>1, <2>2, <3>1 DEF UpTo
  <2>4. ASSUME bad # {} PROVE FALSE
    <3>1. PICK m \in bad : \A k \in bad : m <= k
      BY <2>4, LeastNatural
    <3>2. UpTo(f[m - 1], v, m - 1)
      <4>1. CASE m = 0
        BY <2>3, <4>1
      <4>2. CASE m # 0
        <5>1. m - 1 \in 0..9 /\ ~(m <= m - 1)
          BY <4>2
        <5> QED
          BY <3>1, <5>1
      <4> QED
        BY <4>1, <4>2
    <3>3. f[m] = FillAll(f[m - 1], m) /\ m \in Priorities
      BY <2>2 DEF Priorities
    <3>4. UpTo(f[m], v, m)
      BY <3>2, <3>3, FillAllIs
    <3> QED
      BY <3>4
  <2>5. UpTo(Relinked(raz), v, 9)
    BY <2>2, <2>4
  <2>6. \A x \in Objs : Level(x) <= 9
    BY OneLevel DEF Priorities
  <2> QED
    BY <2>5, <2>6 DEF UpTo, InAll
<1> QED
  BY <1>1, <1>2

-----------------------------------------------------------------------------
\* Edges.  What an object is drawn with under the depths g and the safety contour n,
\* and whether a line or boundary of it, in sight in the view v or not, has edges.
Drawn(x, g, n) == IF HasCS(obj[x]) THEN Procedure(x, g, n).sym ELSE Fixed

Claims(x, v, g, n) ==
    /\ obj[x].geo \in {"line", "area"} /\ <<x, StyleIn(obj[x], v)>> \in raz
    /\ \/ v.cat \in {"OTHER", "MARINERS_STANDARD"}
       \/ obj[x].disc = "DISPLAYBASE"
       \/ v.cat = "STANDARD" /\ obj[x].disc = "STANDARD"
       \/ Mutable(obj[x])
    /\ \E i \in Drawn(x, g, n) : IsLine(i)

Claiming(e) == {x \in Objs : Claims(x, hash[1], hash[2], Basis) /\ e \in obj[x].edges}

\* Each edge is as the settings of the hash have it.
Edged ==
    hash # NoHash =>
        /\ linesSet
        /\ \A e \in Edges : Claiming(e) # {} => edge[e] = Max({LinePriority(obj[x]) : x \in Claiming(e)})

\* A picture is of the settings of this moment.
Pictured ==
    \A p \in shown : /\ told # NoCanvas /\ hash = Present
                     /\ p.window \in Windows /\ p.scale \in Scales

LInv == IInv /\ TypeOK /\ Stylish /\ Edged /\ Pictured

LEMMA InitLInv == Init => LInv
<1> SUFFICES ASSUME Init PROVE LInv
  OBVIOUS
<1>1. IInv /\ TypeOK
  BY InitIInv, InitTyped
<1>2. PICK c \in Charts : obj = Loaded(c, plib.view).obj /\ raz = Loaded(c, plib.view).raz
  BY DEF Init
<1>3. hash = NoHash /\ shown = {}
  BY DEF Init
<1>4. Stylish
  BY <1>1, <1>2, <1>3 DEF Stylish, Loaded, TypeOK
<1> QED
  BY <1>1, <1>3, <1>4 DEF LInv, Edged, Pictured

\* What is kept of the chart does not depend on what the canvases are set to.
LEMMA ChartStays ==
    ASSUME Stylish, Edged, UNCHANGED <<obj, raz, hash, next, stray, linesSet, cache, edge>>
    PROVE  Stylish' /\ Edged'
<1>1. Stylish'
  BY DEF Stylish, InAll
<1>2. \A e : Claiming(e)' = Claiming(e)
  BY DEF Claiming, Claims, Drawn, Basis, Procedure
<1> QED
  BY <1>1, <1>2 DEF Edged

LEMMA LoadLinked ==
    ASSUME LInv, NEW c \in Charts, Load(c)
    PROVE  Stylish' /\ Edged' /\ Pictured'
<1>1. obj' = c /\ raz' = {<<x, StyleIn(c[x], plib.view)>> : x \in Objs} /\ hash' = NoHash /\ shown' = {}
  BY DEF Load, Loaded
<1>2. plib.view \in Views
  BY DEF LInv, TypeOK
<1> QED
  BY <1>1, <1>2 DEF Stylish, Edged, Pictured

\* A rendering under the hash of before leaves lists and edges alone; one under another
\* hash has every object judged anew before it gives out the edges.
LEMMA RenderLinked ==
    ASSUME SamePriorities, LInv, TypeOK', NEW scale \in Scales, NEW window \in Windows, NEW anew \in Strays, Render(scale, window, anew)
    PROVE  Stylish' /\ Edged' /\ Pictured'
<1> DEFINE r  == IF IsStale THEN Relinked(raz) ELSE raz
           n  == IF IsStale THEN [contour |-> SafetyContour(plib.common), stray |-> anew] ELSE Basis
           k0 == IF IsStale THEN [x \in Objs |-> Cleared(x, cache[x])] ELSE cache
           set == linesSet /\ ~IsStale
           k1 == IF set THEN k0 ELSE EvaluateLines(k0, r, n)
           inSight(x) == x \in window /\ <<x, StyleIn(obj[x], plib.view)>> \in r
           check == [x \in Objs |-> IF inSight(x) THEN CheckRules(x, k1[x], scale, n)
                                                  ELSE [seen |-> FALSE, k |-> k1[x]]]
           seen == {x \in Objs : check[x].seen}
           drawn == {<<x, Drawing(x, check[x].k)>> : x \in seen}
<1>1. /\ told # NoCanvas
      /\ raz' = r /\ next' = n.contour /\ stray' = n.stray /\ hash' = Present /\ linesSet' = TRUE
      /\ edge' = IF set THEN edge ELSE Prioritized(k1, r)
      /\ shown' = {[scale |-> scale, window |-> window, drawn |-> drawn]}
      /\ UNCHANGED <<opencpn, told, plib, obj>>
  BY DEF Render
<1>2. UNCHANGED <<canvas, common, reconfig, told, plib, obj>>
  BY <1>1 DEF opencpn
<1>3. plib.view = canvas[told] /\ plib.common = common /\ told \in Canvases
  BY <1>1 DEF LInv, IInv, Informed, Typed
<1>4. hash' = <<plib.view, plib.common>> /\ hash' # NoHash /\ hash'[1] = plib.view /\ hash'[2] = plib.common
  BY <1>1, <1>3, DisplayAssumption DEF LInv, IInv, Typed, Present
<1>5. Pictured'
  <2>1. hash' = Present'
    BY <1>1, <1>2 DEF Present
  <2> HIDE DEF drawn
  <2> QED
    BY <1>1, <1>2, <2>1 DEF Pictured
<1> HIDE DEF check, seen, drawn
<1>6. Stylish'
  <2>1. InAll(r)
    <3>1. CASE IsStale
      BY <3>1, RelinkedAll DEF LInv, IInv, TypeOK
    <3>2. CASE ~IsStale
      <4>1. hash # NoHash
        BY <1>1, <1>4, <3>2 DEF IsStale
      <4> QED
        BY <3>2, <4>1 DEF LInv, Stylish
    <3> QED
      BY <3>1, <3>2
  <2>2. InAll(raz)'
    BY <1>1, <1>2, <2>1 DEF InAll
  <2> QED
    BY <1>4, <2>2 DEF Stylish
<1>7. Edged'
  <2>1. CASE ~IsStale
    <3>1. hash' = hash /\ hash # NoHash /\ raz' = raz /\ next' = next /\ stray' = stray
      BY <1>1, <1>4, <2>1 DEF IsStale, Basis
    <3>2. linesSet /\ edge' = edge
      BY <1>1, <2>1, <3>1 DEF LInv, Edged
    <3>3. \A e : Claiming(e)' = Claiming(e)
      BY <1>2, <3>1 DEF Claiming, Claims, Drawn, Basis, Procedure
    <3> QED
      BY <1>1, <1>2, <3>1, <3>2, <3>3 DEF LInv, Edged
  <2>2. CASE IsStale
    <3>1. edge' = Prioritized(k1, r)
      BY <1>1, <2>2
    <3>2. k1 = EvaluateLines(k0, r, n) /\ \A x \in Objs : k0[x] = Cleared(x, cache[x])
      BY <2>2
    <3>7. Basis' = n
      BY <1>1, <2>2 DEF Basis
    <3> HIDE DEF k0, k1, r, n, set
    <3>3. \A x \in Objs : Good(x, k0[x], plib.common, n)
      <4>1. \A x \in Objs : cache[x].scamin = obj[x].scamin \/ (obj[x].class = "DEPCNT" /\ cache[x].scamin = Far)
        BY DEF LInv, IInv, Coherent, Good
      <4> QED
        BY <3>2, <4>1, ClearedGood
    <3>4. ASSUME NEW x \in Objs, IsBoundary(x, r), Counts(x)
          PROVE  Drawing(x, k1[x]) = Drawn(x, plib.common, n)
      <4>1. k1[x] = Evaluate(x, k0[x], n)
        BY <3>2, <3>4 DEF EvaluateLines
      <4>2. obj[x].class \in Classes
        BY OfObj DEF LInv, IInv
      <4>3. Good(x, k1[x], plib.common, n) /\ (HasCS(obj[x]) => k1[x].added)
        BY <3>3, <4>1, <4>2, EvaluateGood
      <4> QED
        BY <4>3 DEF Good, Drawing, Drawn
    <3> DEFINE having(e) == {x \in Objs : IsBoundary(x, r) /\ Counts(x) /\ HasLine(x, k1[x]) /\ e \in obj[x].edges}
    <3>5. \A e : Claiming(e)' = having(e)
      <4>1. ASSUME NEW x \in Objs
            PROVE  Claims(x, hash[1], hash[2], Basis)' <=> IsBoundary(x, r) /\ Counts(x) /\ HasLine(x, k1[x])
        <5>1. Claims(x, hash[1], hash[2], Basis)'
                 <=> IsBoundary(x, r) /\ Counts(x) /\ \E i \in Drawn(x, plib.common, n) : IsLine(i)
          BY <1>1, <1>2, <1>4, <3>7 DEF Claims, Drawn, IsBoundary, Counts, Procedure
        <5> QED
          BY <3>4, <5>1 DEF HasLine
      <4> QED
        BY <1>2, <4>1 DEF Claiming
    <3>6. \A e \in Edges : having(e) # {} => edge'[e] = Max({LinePriority(obj[x]) : x \in having(e)})
      BY <3>1 DEF Prioritized
    <3> HIDE DEF having
    <3> QED
      BY <1>1, <1>2, <3>5, <3>6 DEF Edged
  <2> QED
    BY <2>1, <2>2
<1> QED
  BY <1>5, <1>6, <1>7

LEMMA NextLInv == ASSUME SamePriorities PROVE LInv /\ IInv' /\ TypeOK' /\ [Next]_vars => LInv'
<1> SUFFICES ASSUME LInv, IInv', TypeOK', [Next]_vars PROVE Stylish' /\ Edged' /\ Pictured'
  BY DEF LInv
<1>1. CASE \E c \in Charts : Load(c)
  BY <1>1, LoadLinked
<1>2. CASE \E scale \in Scales, window \in Windows, anew \in Strays : Render(scale, window, anew)
  BY <1>2, RenderLinked
<1>3. CASE \/ \E c \in Canvases, v \in Views : ChangeCanvas(c, v)
           \/ \E g \in Globals : ChangeCommon(g)
           \/ \E c \in Canvases : Message(c)
  <2>1. UNCHANGED <<obj, raz, hash, next, stray, linesSet, cache, edge>> /\ shown' = {}
    BY <1>3 DEF ChangeCanvas, ChangeCommon, Message, chart
  <2> QED
    BY <2>1, ChartStays DEF LInv, Pictured
<1>4. CASE UNCHANGED vars
  <2>1. UNCHANGED <<obj, raz, hash, next, stray, linesSet, cache, edge, shown, told, canvas, common>>
    BY <1>4 DEF vars, opencpn, chart
  <2> QED
    BY <2>1, ChartStays DEF LInv, Pictured, Present
<1> QED
  BY <1>1, <1>2, <1>3, <1>4 DEF Next

LEMMA LinesInvariance == ASSUME SamePriorities PROVE Spec => []LInv
<1>1. Init => IInv /\ TypeOK /\ LInv
  BY InitLInv DEF LInv
<1>2. LInv /\ [Next]_vars => LInv'
  <2>1. LInv /\ [Next]_vars => IInv'
    BY NextIInv DEF LInv
  <2>2. LInv /\ IInv' /\ [Next]_vars => TypeOK'
    BY NextTyped DEF LInv
  <2> QED
    BY <2>1, <2>2, NextLInv
<1> QED
  BY <1>1, <1>2, PTL DEF Spec

-----------------------------------------------------------------------------
\* What a picture shows.  The settings of the hash are OpenCPN's of this moment, and
\* every object has its symbols in their style.
LEMMA PictureOf ==
    ASSUME LInv, NEW p \in shown
    PROVE  /\ told \in Canvases /\ canvas[told] \in Views /\ common \in Globals
           /\ hash # NoHash /\ hash[1] = canvas[told] /\ hash[2] = common
           /\ Basis = [contour |-> SafetyContour(common), stray |-> stray]
           /\ p.scale <= Far /\ p.window \subseteq Objs
<1>1. told \in Canvases /\ canvas[told] \in Views /\ common \in Globals
  BY DEF LInv, Pictured, IInv, Typed
<1>2. hash = Present /\ p.scale \in Scales /\ p.window \in Windows
  BY DEF LInv, Pictured
<1>3. hash # NoHash
  BY <1>1, <1>2, DisplayAssumption DEF Present
<1> QED
  BY <1>1, <1>2, <1>3, DisplayAssumption DEF LInv, IInv, Coherent, Present, Basis

LEMMA LinkedNow ==
    ASSUME LInv, NEW p \in shown, NEW x \in p.window
    PROVE  Linked(x)
<1>1. InAll(raz) /\ x \in Objs /\ canvas[told] \in Views
  BY PictureOf DEF LInv, Stylish
<1> QED
  BY <1>1, StyleOf DEF LInv, IInv, InAll, Linked

LEMMA DrawnNow ==
    ASSUME LInv, NEW p \in shown, NEW x \in p.window
    PROVE  SymbolIsCurrent(p, x) /\ SeenIsCurrent(p, x)
  BY LinkedNow DEF LInv, IInv, DrawnIsCurrent

-----------------------------------------------------------------------------
\* Dangers.  Whatever depth is given to one without a sounding, it is a danger.
LEMMA DangerNow ==
    ASSUME IInv, NEW x \in Objs, IsolatedDanger(x)
    PROVE  /\ HasCS(obj[x]) /\ Now(x).base /\ ~Now(x).far
           /\ Marked(x, Now(x).sym)
<1> DEFINE o == obj[x]
<1>1. o.geo \in Geos /\ o.valsou \in Int /\ o.valsou <= common.contour /\ common.contour \in Nat \ {0}
  <2>1. obj[x].valsou \in Int
    BY DisplayAssumption DEF IInv, Typed
  <2> QED
    BY <2>1, OfObj, DisplayAssumption DEF IInv, Typed, IsolatedDanger
<1>2. \E a \in o.under : a.drval1 >= common.contour
  BY DEF IsolatedDanger
<1>3. CASE o.class \in {"OBSTRN", "UWTROC"}
  <2> DEFINE s == OBSTRN04(o, common, x \in stray)
  <2>1. ObstructionDepth(o) <= common.contour
    BY <1>1 DEF ObstructionDepth
  <2>2. IsDanger(o, ObstructionDepth(o), common)
    BY <1>2, <2>1 DEF IsDanger
  <2>3. DangerSymbol(o, IsDanger(o, ObstructionDepth(o), common)) = IF o.watlev \notin {1, 2} THEN {"ISODGR51"} ELSE {}
    BY <2>2 DEF DangerSymbol
  <2>4. o.geo = "line" => ~ReadsUnset(o)
    BY DEF IsolatedDanger
  <2>5. /\ s.base /\ ~s.far
        /\ o.watlev \in {1, 2} \/ (o.geo = "line" /\ "dotted" \in s.sym) \/ "ISODGR51" \in s.sym
    BY <1>1, <2>2, <2>3, <2>4 DEF OBSTRN04, ObstructionLine, Geos
  <2>6. Now(x) = s
    BY <1>3 DEF Now, Procedure, Symbols
  <2> QED
    BY <1>3, <2>5, <2>6 DEF HasCS, Marked
<1>4. CASE o.class = "WRECKS"
  <2> DEFINE s == WRECKS02(o, common)
             danger == ~o.cleared /\ IsDanger(o, WreckDepth(o), common)
  <2>1. WreckDepth(o) = Unknown \/ WreckDepth(o) <= common.contour
    <3>1. o.valsou # Unknown => WreckDepth(o) = o.valsou
      BY DEF WreckDepth
    <3>2. o.valsou = Unknown => 2000 <= common.contour
      BY <1>1 DEF Unknown
    <3>3. o.valsou = Unknown => WreckDepth(o) \in {2000, 0, -1500, 1, Unknown}
      BY DEF WreckDepth
    <3> QED
      BY <1>1, <3>1, <3>2, <3>3
  <2>2. danger
    BY <1>2, <2>1 DEF IsDanger, IsolatedDanger
  <2>3. DangerSymbol(o, danger) = IF o.watlev \notin {1, 2} THEN {"ISODGR51"} ELSE {}
    BY <2>2 DEF DangerSymbol
  <2>4. s = [sym  |-> IF o.geo = "point" THEN IF DangerSymbol(o, danger) # {} THEN DangerSymbol(o, danger)
                                                                             ELSE WreckPoint(o, common)
                      ELSE {WreckLine(o, DangerSymbol(o, danger))} \cup DangerSymbol(o, danger) \cup WreckFill(o),
             base |-> danger, far |-> FALSE]
    BY DEF WRECKS02
  <2> HIDE DEF danger, s
  <2>5. s.base /\ ~s.far /\ (o.watlev \in {1, 2} \/ "ISODGR51" \in s.sym)
    BY <2>2, <2>3, <2>4
  <2>6. Now(x) = s
    BY <1>4 DEF Now, Procedure, Symbols, s
  <2> QED
    BY <1>4, <2>5, <2>6 DEF HasCS, Marked
<1> QED
  BY <1>3, <1>4 DEF IsolatedDanger

LEMMA DangersNow == LInv => DangerShown
<1> SUFFICES ASSUME LInv, NEW p \in shown, NEW x \in p.window, IsolatedDanger(x),
                    canvas[told].useSCAMIN /\ canvas[told].cat # "MARINERS_STANDARD" => p.scale <= obj[x].scamin
             PROVE  DangerDrawn(p, x)
  BY DEF DangerShown
<1>1. x \in Objs /\ canvas[told] \in Views /\ IInv
  BY PictureOf DEF LInv
<1>2. CategoryNow(x) = "DISPLAYBASE" /\ ScaminNow(x) = obj[x].scamin
  BY <1>1, DangerNow DEF CategoryNow, ScaminNow
<1>3. InCategory(x, CategoryNow(x), canvas[told], common)
  BY <1>2 DEF InCategory
<1>4. FitsNow(x, p.scale)
  BY <1>1, <1>2, OfView DEF FitsNow, InScale
<1>5. IsDrawn(p, x)
  BY <1>3, <1>4, DrawnNow DEF SeenIsCurrent, IsolatedDanger
<1>6. PICK d \in p.drawn : d[1] = x
  BY <1>5 DEF IsDrawn
<1>7. d[2] = Now(x).sym
  BY <1>1, <1>6, DrawnNow, DangerNow DEF SymbolIsCurrent
<1> QED
  BY <1>1, <1>6, <1>7, DangerNow DEF DangerDrawn

-----------------------------------------------------------------------------
\* Contours.
LEMMA SafeIsNext ==
    ASSUME IInv, NEW x \in Objs, obj[x].class = "DEPCNT"
    PROVE  IsSafetyContour(obj[x], common, SafetyContour(common)) <=> NextDeeper(x)
<1> DEFINE depth  == obj[x].valdco
           deeper == {d \in Contours : d >= common.contour}
<1>1. common \in Globals /\ common.contour \in Nat \ {0} /\ common.deep \in Nat
  BY DisplayAssumption DEF IInv, Typed
<1>2. \A y \in Objs : obj[y].valdco \in Int /\ obj[y].valdco < Far
  BY OfObj DEF IInv
<1>3. \A y \in Objs : obj[y].class = "DEPCNT" /\ obj[y].valdco >= common.contour => obj[y].valdco \in deeper
  BY <1>1, <1>2 DEF Contours
<1>4. \A d \in deeper : d \in Nat /\ d >= common.contour /\ \E y \in Objs : obj[y].class = "DEPCNT" /\ obj[y].valdco = d
  BY <1>1, <1>2 DEF Contours
<1>5. CASE depth = common.contour
  BY <1>1, <1>2, <1>5 DEF IsSafetyContour, NextDeeper
<1>6. ASSUME depth # common.contour, depth = SafetyContour(common) PROVE NextDeeper(x)
  <2>1. /\ common.contour <= depth /\ depth <= common.deep
        /\ \A d \in Contours : d >= common.contour => depth <= d
    BY <1>1, <1>2, <1>6, ContourOf DEF IInv
  <2>2. \A d \in deeper : depth <= d
    BY <2>1
  <2> HIDE DEF deeper
  <2>3. \A y \in Objs : obj[y].class = "DEPCNT" /\ obj[y].valdco >= common.contour => obj[y].valdco >= depth
    BY <1>2, <1>3, <2>2
  <2> QED
    BY <1>1, <1>2, <2>1, <2>3 DEF NextDeeper
<1>7. ASSUME depth # common.contour, NextDeeper(x) PROVE depth = SafetyContour(common)
  <2>1. depth >= common.contour /\ depth <= common.deep /\ depth \in deeper
    BY <1>3, <1>7 DEF NextDeeper
  <2>2. \A d \in deeper : d >= depth
    BY <1>4, <1>7 DEF NextDeeper
  <2>3. deeper \subseteq Nat
    BY <1>4
  <2> HIDE DEF deeper
  <2>4. Min(deeper) \in deeper /\ \A d \in deeper : Min(deeper) <= d
    BY <2>1, <2>3, LeastDepth
  <2>5. Min(deeper) = depth
    BY <1>2, <2>1, <2>2, <2>3, <2>4
  <2>6. deeper # {} /\ ~(Min(deeper) > common.deep)
    BY <1>1, <1>2, <2>1, <2>5
  <2> QED
    BY <2>5, <2>6 DEF SafetyContour, deeper
<1> QED
  BY <1>5, <1>6, <1>7 DEF IsSafetyContour

LEMMA ContoursNow == LInv => SafetyContourShown
<1> SUFFICES ASSUME LInv, NEW p \in shown, NEW x \in p.window,
                    obj[x].class = "DEPCNT", obj[x].quapos \in {0} \cup 2..9
             PROVE  Highlighted(p, x) <=> NextDeeper(x)
  BY DEF SafetyContourShown
<1>1. x \in Objs /\ IInv /\ p.scale <= Far
  BY PictureOf DEF LInv
<1> DEFINE safe == IsSafetyContour(obj[x], common, SafetyContour(common))
<1>2. HasCS(obj[x]) /\ Now(x) = DEPCNT02(obj[x], common, SafetyContour(common))
  BY DEF HasCS, Now, Procedure, Symbols
<1>3. Now(x).base = safe /\ Now(x).far = safe
  BY <1>2 DEF DEPCNT02
<1>4. Now(x).sym \cap {"SAFECN", "SAFECD"} # {} <=> safe
  BY <1>2 DEF DEPCNT02
<1> HIDE DEF safe
<1>5. \A d \in p.drawn : d[1] = x => d[2] = Now(x).sym
  BY <1>2, DrawnNow DEF SymbolIsCurrent
<1>6. ASSUME safe PROVE IsDrawn(p, x)
  <2>1. CategoryNow(x) = "DISPLAYBASE" /\ ScaminNow(x) = Far
    BY <1>2, <1>3, <1>6 DEF CategoryNow, ScaminNow
  <2>2. InCategory(x, CategoryNow(x), canvas[told], common)
    BY <2>1 DEF InCategory
  <2>3. FitsNow(x, p.scale)
    BY <1>1, <2>1, WithinFar DEF FitsNow
  <2> QED
    BY <2>2, <2>3, DrawnNow DEF SeenIsCurrent
<1>7. Highlighted(p, x) <=> safe
  BY <1>4, <1>5, <1>6 DEF Highlighted, IsDrawn
<1> QED
  BY <1>1, <1>7, SafeIsNext DEF safe

-----------------------------------------------------------------------------
\* Edges.  The objects of the chart are not of the category of the mariner's own.
NoMariners == \A c \in Charts, x \in Objs : c[x].disc # "MARINERS_STANDARD"

\* What is drawn with a line claims its edges.
LEMMA DrawnClaims ==
    ASSUME LInv, NEW p \in shown, NEW x \in p.window, DrawsLine(p, x), NEW e \in obj[x].edges
    PROVE  x \in Claiming(e)
<1>1. /\ x \in Objs /\ canvas[told] \in Views
      /\ hash[1] = canvas[told] /\ hash[2] = common
      /\ Basis = [contour |-> SafetyContour(common), stray |-> stray]
  BY PictureOf
<1>2. obj[x].geo \in {"line", "area"} /\ obj[x].class \in Classes /\ obj[x].disc \in Categories
  BY <1>1, OfObj DEF LInv, IInv, Geos
<1>3. PICK d \in p.drawn : d[1] = x /\ \E i \in d[2] : IsLine(i)
  BY DEF DrawsLine
<1>4. d[2] = Drawn(x, common, Basis)
  BY <1>1, <1>3, DrawnNow DEF SymbolIsCurrent, Drawn, Now
<1>5. \/ canvas[told].cat \in {"OTHER", "MARINERS_STANDARD"}
      \/ obj[x].disc = "DISPLAYBASE"
      \/ canvas[told].cat = "STANDARD" /\ obj[x].disc = "STANDARD"
      \/ Mutable(obj[x])
  <2>1. CASE Mutable(obj[x])
    BY <2>1
  <2>2. CASE ~Mutable(obj[x])
    <3>1. InCategory(x, CategoryNow(x), canvas[told], common)
      BY <1>3, <2>2, DrawnNow DEF SeenIsCurrent, IsDrawn, Mutable
    <3>2. CategoryNow(x) = obj[x].disc
      BY <1>2, <2>2, OnlyMutable DEF CategoryNow, Now, Procedure
    <3> QED
      BY <3>1, <3>2 DEF InCategory
  <2> QED
    BY <2>1, <2>2
<1>6. <<x, StyleIn(obj[x], canvas[told])>> \in raz
  BY LinkedNow DEF Linked
<1> QED
  BY <1>1, <1>2, <1>3, <1>4, <1>5, <1>6 DEF Claiming, Claims

\* What claims an edge is drawn, and with a line.
LEMMA ClaimantDrawn ==
    ASSUME NoMariners, LInv, NEW p \in shown, NEW y \in p.window, NEW e, y \in Claiming(e),
           canvas[told].cat # "MARINERS_STANDARD", ~canvas[told].useSCAMIN,
           Mutable(obj[y]) => IsDrawn(p, y)
    PROVE  DrawsLine(p, y)
<1>1. /\ y \in Objs /\ canvas[told] \in Views
      /\ hash[1] = canvas[told] /\ hash[2] = common
      /\ Basis = [contour |-> SafetyContour(common), stray |-> stray]
  BY PictureOf
<1>2. obj[y].class \in Classes /\ obj[y].disc \in Categories /\ obj[y].disc # "MARINERS_STANDARD"
  BY <1>1, OfObj DEF LInv, IInv, NoMariners, Typed
<1>3. /\ \/ canvas[told].cat = "OTHER"
         \/ obj[y].disc = "DISPLAYBASE"
         \/ canvas[told].cat = "STANDARD" /\ obj[y].disc = "STANDARD"
         \/ Mutable(obj[y])
      /\ \E i \in Drawn(y, common, Basis) : IsLine(i)
  BY <1>1 DEF Claiming, Claims
<1>4. IsDrawn(p, y)
  <2>1. CASE Mutable(obj[y])
    BY <2>1
  <2>2. CASE ~Mutable(obj[y])
    <3>1. CategoryNow(y) = obj[y].disc
      BY <1>2, <2>2, OnlyMutable DEF CategoryNow, Now, Procedure
    <3>2. InCategory(y, CategoryNow(y), canvas[told], common)
      BY <1>2, <1>3, <2>2, <3>1 DEF InCategory, Categories
    <3>3. FitsNow(y, p.scale)
      BY DEF FitsNow, InScale
    <3> QED
      BY <3>2, <3>3, DrawnNow DEF SeenIsCurrent
  <2> QED
    BY <2>1, <2>2
<1>5. PICK d \in p.drawn : d[1] = y
  BY <1>4 DEF IsDrawn
<1>6. d[2] = Drawn(y, common, Basis)
  BY <1>1, <1>5, DrawnNow DEF SymbolIsCurrent, Drawn, Now
<1> QED
  BY <1>3, <1>5, <1>6 DEF DrawsLine

LEMMA EdgesNow == ASSUME NoMariners PROVE LInv => EdgesDrawn
<1> SUFFICES ASSUME LInv, NEW p \in shown, NEW x \in Objs, NEW e \in obj[x].edges,
                    {y \in Objs : e \in obj[y].edges} \subseteq p.window, DrawsLine(p, x),
                    canvas[told].cat # "MARINERS_STANDARD", ~canvas[told].useSCAMIN,
                    \A y \in {z \in Objs : e \in obj[z].edges} : Mutable(obj[y]) => IsDrawn(p, y)
             PROVE  \E y \in {z \in Objs : e \in obj[z].edges} : DrawsLine(p, y) /\ LinePriority(obj[y]) = edge[e]
  BY DEF EdgesDrawn
<1>1. x \in p.window /\ x \in Claiming(e)
  BY DrawnClaims
<1>2. e \in Edges /\ hash # NoHash
  BY OfObj, PictureOf DEF LInv, IInv
<1> DEFINE priorities == {LinePriority(obj[y]) : y \in Claiming(e)}
<1>3. edge[e] = Max(priorities)
  BY <1>1, <1>2 DEF LInv, Edged
<1>4. priorities \subseteq Priorities /\ priorities # {}
  <2>1. \A y \in Claiming(e) : y \in Objs
    BY DEF Claiming
  <2> QED
    BY <1>1, <2>1, LineOf DEF LInv, IInv
<1>5. edge[e] \in priorities
  BY <1>3, <1>4, GreatestPriority
<1>6. PICK y \in Claiming(e) : LinePriority(obj[y]) = edge[e]
  BY <1>5
<1>7. y \in {z \in Objs : e \in obj[z].edges}
  BY DEF Claiming
<1>8. DrawsLine(p, y)
  BY <1>7, ClaimantDrawn
<1> QED
  BY <1>6, <1>7, <1>8

-----------------------------------------------------------------------------
\* After a change of style and a rendering every object has its symbol in the new style:
\* a list is filled up priority by priority from that of the other style, so that an
\* object has both from the first rendering on (UpdateLUPs), the tables giving a point
\* one priority whichever symbols are chosen.
THEOREM AllAreLinked == ASSUME SamePriorities PROVE Spec => []AllLinked
<1>1. LInv => AllLinked
  BY LinkedNow DEF AllLinked
<1> QED
  BY <1>1, LinesInvariance, PTL

\* A sounding above the safety contour in deeper waters is drawn as a danger in every
\* category and with any classes switched off, whatever was rendered before, at the scales
\* that SCAMIN leaves to it; an obstruction that is a line of poor accuracy is excepted
\* (_UDWHAZ03).
THEOREM DangersAreShown == ASSUME SamePriorities PROVE Spec => []DangerShown
  BY DangersNow, LinesInvariance, PTL

\* The safety contour is drawn as such in every category and at every scale, and no other
\* contour is (SetSafetyContour, DEPCNT02).
THEOREM SafetyContourIsShown == ASSUME SamePriorities PROVE Spec => []SafetyContourShown
  BY ContoursNow, LinesInvariance, PTL

\* An edge of what is drawn with a line is drawn, by the object that has it: what
\* SetLinePriorities counts at one rendering is what the later ones under the same hash
\* draw, if no object of the chart is of the category of the mariner's own.
THEOREM EdgesAreDrawn == ASSUME SamePriorities, NoMariners PROVE Spec => []EdgesDrawn
  BY EdgesNow, LinesInvariance, PTL
=============================================================================
