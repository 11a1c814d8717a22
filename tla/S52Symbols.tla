----------------------------- MODULE S52Symbols -----------------------------
(***************************************************************************)
(* The conditional symbology procedures of S-52 that decide what a mariner  *)
(* sees of dangers and depths (s52cnsy.cpp), as pure operators: what an     *)
(* object, with the mariner's depths g, is drawn with, and whether it is    *)
(* moved to the category DISPLAYBASE.                                       *)
(*                                                                          *)
(* Depths are whole centimetres.  An instruction is named by its symbol, or *)
(* by its kind where the colour or the width says no more; the sounding is  *)
(* one instruction.  The accuracy symbols of QUAPNT01 (by QUALTY) are left   *)
(* out where they are added to whatever else is drawn; not where they       *)
(* replace it, in the obstructions that are lines.                          *)
(***************************************************************************)
EXTENDS Integers

Unknown == 100000000   \* UNKNOWN, 1e6 metres: an attribute that is not there
Absent  == -9          \* the same for an enumeration
Far     == 100000000   \* 1e6 metres: no contour is as deep; and 1e8, no scale as small

Classes == {"OBSTRN", "UWTROC", "WRECKS", "DEPCNT", "DEPARE", "DRGARE", "COALNE", "ADMARE"}
Geos    == {"point", "line", "area"}

\* Dangers: areas of depth under them (at most one is found, GetAssociatedObjects).
Under == [drval1 : Int, drval2 : Int]

-----------------------------------------------------------------------------
\* _UDWHAZ03: dangers less deep than the safety contour, in waters that are deeper.

IsDanger(o, depth, g) ==
    \/ depth = Unknown
    \/ depth <= g.contour /\ \E a \in o.under : a.drval1 >= g.contour

\* Less deep than the waters around.
Promotes(o, depth, g) ==
    /\ depth # Unknown /\ depth <= g.contour
    /\ \E a \in o.under : depth < a.drval2

DangerSymbol(o, danger) == IF danger /\ o.watlev \notin {1, 2} THEN {"ISODGR51"} ELSE {}

-----------------------------------------------------------------------------
\* OBSTRN04, of obstructions and rocks

\* Without a sounding, by what is said of the water level.
ObstructionDepth(o) ==
    CASE o.valsou # Unknown                 -> o.valsou
      [] o.valsou = Unknown /\ o.catobs = 6 -> 1
      [] o.valsou = Unknown /\ o.catobs # 6 ->
           IF o.watlev = 5 THEN 0 ELSE IF o.watlev = 3 THEN 1 ELSE -1500

Shallow(o) == o.valsou <= 2000

SoundedRock(o) == IF o.watlev \in {4, 5} THEN {"UWTROC04"} ELSE {"DANGER51", "sounding"}

SoundedObstruction(o) ==
    CASE o.watlev \in {1, 2}               -> {"LNDARE01"}
      [] o.watlev = 3                      -> {"DANGER52", "sounding"}
      [] o.watlev \in {4, 5}               -> {"DANGER53", "sounding"}
      [] o.watlev = Absent                 -> {"DANGER01", "sounding"}
      [] o.watlev \notin {Absent} \cup 1..5 -> {"DANGER51", "sounding"}

Rock(o) == CASE o.watlev = 2        -> {"LNDARE01"}
             [] o.watlev = 3        -> {"UWTROC03"}
             [] o.watlev \notin 2..3 -> {"UWTROC04"}

Obstruction(o) == CASE o.watlev \in {1, 2}     -> {"OBSTRN11"}
                    [] o.watlev \in {4, 5}     -> {"OBSTRN03"}
                    [] o.watlev \notin {1, 2, 4, 5} -> {"OBSTRN01"}

ObstructionPoint(o) ==
    IF o.valsou = Unknown THEN IF o.class = "UWTROC" THEN Rock(o) ELSE Obstruction(o)
    ELSE IF ~Shallow(o) THEN {"DANGER52", "sounding"}
    ELSE IF o.class = "UWTROC" THEN SoundedRock(o) ELSE SoundedObstruction(o)

\* A line of poor accuracy: whether it is drawn at all depends on a variable that is read
\* without having been set, since the accuracy symbol is no number (ToLong).
ReadsUnset(o) == o.class \in {"OBSTRN", "UWTROC"} /\ o.geo = "line" /\ o.qualty \in 2..9

UnsureLine(danger, low) == IF ~low THEN {} ELSE IF danger THEN {"LOWACC41"} ELSE {"LOWACC31"}

ObstructionLine(o, danger) ==
    IF danger \/ o.valsou = Unknown THEN {"dotted"}
    ELSE IF Shallow(o) THEN {"dotted", "sounding"} ELSE {"dashed"}

\* Always under water and no foul area: nothing at all.
ObstructionArea(o) ==
    IF o.valsou # Unknown THEN {IF Shallow(o) THEN "dotted" ELSE "dashed", "sounding"}
    ELSE CASE o.watlev = 3      -> IF o.catobs = 6 THEN {"DEPVS", "FOULAR01", "dotted"} ELSE {}
           [] o.watlev \in {1, 2} -> {"CHBRN", "solid"}
           [] o.watlev = 4      -> {"DEPIT", "dashed"}
           [] o.watlev \notin 1..4 -> {"DEPVS", "dotted"}

\* low: what the variable happens to hold is a low accuracy.
OBSTRN04(o, g, low) ==
    LET depth  == ObstructionDepth(o)
        danger == IsDanger(o, depth, g)
        symbol == DangerSymbol(o, danger)
    IN  [sym  |-> CASE o.geo = "point" -> IF symbol # {} THEN symbol ELSE ObstructionPoint(o)
                    [] o.geo = "line"  -> IF ReadsUnset(o) THEN UnsureLine(symbol # {}, low)
                                                           ELSE ObstructionLine(o, symbol # {})
                    [] o.geo = "area"  -> IF symbol # {} THEN symbol \cup {"DEPVS", "FOULAR01", "dotted"}
                                                         ELSE ObstructionArea(o),
         base |-> \/ danger
                  \/ /\ o.class = "UWTROC" /\ o.geo = "point"
                     /\ o.valsou = Unknown \/ Shallow(o)
                     /\ Promotes(o, depth, g),
         far  |-> FALSE]

-----------------------------------------------------------------------------
\* WRECKS02

\* The category of the wreck comes before its water level; of category 3 nothing is
\* known.
WreckDepth(o) ==
    IF o.valsou # Unknown THEN o.valsou
    ELSE IF o.catwrk # Absent
           THEN CASE o.catwrk = 1       -> 2000
                  [] o.catwrk = 2       -> 0
                  [] o.catwrk \in {4, 5} -> -1500
                  [] o.catwrk \notin {1, 2, 4, 5} -> Unknown
           ELSE CASE o.watlev = 3       -> 1
                  [] o.watlev = 5       -> 0
                  [] o.watlev \in {Absent, 1, 2, 4, 6} -> -1500
                  [] o.watlev \notin {Absent} \cup 1..6 -> Unknown

\* Without a sounding, and with the category or the water level missing: nothing.
Wreck(o) ==
    IF o.catwrk = Absent \/ o.watlev = Absent THEN {}
    ELSE IF o.catwrk = 1 /\ o.watlev = 3 THEN {"WRECKS04"}
    ELSE IF o.catwrk = 2 /\ o.watlev = 3 THEN {"WRECKS05"}
    ELSE IF o.catwrk \in {4, 5} \/ o.watlev \in {1, 2, 4, 5} THEN {"WRECKS01"}
    ELSE {"WRECKS05"}

WreckPoint(o, g) ==
    IF o.valsou = Unknown THEN Wreck(o)
    ELSE {IF o.valsou < g.contour THEN "DANGER51" ELSE "DANGER52", "sounding"}
           \cup (IF o.cleared THEN {"WRECKS07"} ELSE {})

WreckLine(o, symbol) ==
    IF o.quapos \in 2..9 THEN "LOWACC41"
    ELSE IF symbol # {} THEN "dotted"
    ELSE IF o.valsou # Unknown THEN IF Shallow(o) THEN "dotted" ELSE "dashed"
    ELSE IF o.watlev \in {1, 2} THEN "solid" ELSE IF o.watlev = 4 THEN "dashed" ELSE "dotted"

WreckFill(o) ==
    IF o.valsou # Unknown THEN IF Shallow(o) THEN {"sounding"} ELSE {}
    ELSE {IF o.watlev \in {1, 2} THEN "CHBRN" ELSE IF o.watlev = 4 THEN "DEPIT" ELSE "DEPVS"}

\* A safe clearance (QUASOU 7) is no danger, whatever the depth.
WRECKS02(o, g) ==
    LET danger == ~o.cleared /\ IsDanger(o, WreckDepth(o), g)
        symbol == DangerSymbol(o, danger)
    IN  [sym  |-> IF o.geo = "point" THEN IF symbol # {} THEN symbol ELSE WreckPoint(o, g)
                  ELSE {WreckLine(o, symbol)} \cup symbol \cup WreckFill(o),
         base |-> danger,
         far  |-> FALSE]

-----------------------------------------------------------------------------
\* DEPCNT02, of depth contours

\* The contour of the safety depth, or the next deeper one of the chart.
IsSafetyContour(o, g, next) == o.valdco = g.contour \/ o.valdco = next

DEPCNT02(o, g, next) ==
    LET safe == IsSafetyContour(o, g, next)
    IN  [sym  |-> CASE o.quapos \in 2..9 -> IF safe THEN {"SAFECD"} ELSE {"dashed"}
                    [] o.quapos = 0      -> IF safe THEN {"SAFECN"} ELSE {"solid"}
                    [] o.quapos \notin {0} \cup 2..9 -> {},
         base |-> safe,
         far  |-> safe]

-----------------------------------------------------------------------------
\* DEPARE01, of depth areas and dredged areas

Reaches(o, depth) == /\ o.drval1 # Unknown /\ o.drval1 >= depth
                     /\ o.drval2 = Unknown \/ o.drval2 > depth

\* Without drval1 it is -1 metre; without drval2, a little more than drval1.
Shade(o, g) ==
    IF o.class = "DRGARE" /\ o.drval1 = Unknown THEN "DEPMD"
    ELSE IF g.twoShades
           THEN IF Reaches(o, g.contour) THEN "DEPDW" ELSE IF Reaches(o, 0) THEN "DEPVS" ELSE "DEPIT"
           ELSE IF Reaches(o, g.deep) THEN "DEPDW"
                ELSE IF Reaches(o, g.contour) THEN "DEPMD"
                ELSE IF Reaches(o, g.shallow) THEN "DEPMS"
                ELSE IF Reaches(o, 0) THEN "DEPVS" ELSE "DEPIT"

DEPARE01(o, g) ==
    [sym  |-> {Shade(o, g)} \cup (IF o.class = "DRGARE" THEN {"DRGARE01", "dashed"} ELSE {}),
     base |-> FALSE,
     far  |-> FALSE]

-----------------------------------------------------------------------------
\* QUALIN01, of coast lines: like a contour, nothing for a position that is known well.

QUALIN01(o) ==
    [sym  |-> IF o.quapos = 0 THEN {"CSTLN"} ELSE IF o.quapos \in 2..9 THEN {"LOWACC21"} ELSE {},
     base |-> FALSE,
     far  |-> FALSE]

-----------------------------------------------------------------------------
\* What the look-up tables of the presentation library name for a class: a procedure
\* or, of an administration area, a boundary.

HasCS(o) == o.class # "ADMARE"

Fixed == {"dashed"}

Symbols(o, g, next, low) ==
    CASE o.class \in {"OBSTRN", "UWTROC"} -> OBSTRN04(o, g, low)
      [] o.class = "WRECKS"               -> WRECKS02(o, g)
      [] o.class = "DEPCNT"               -> DEPCNT02(o, g, next)
      [] o.class \in {"DEPARE", "DRGARE"} -> DEPARE01(o, g)
      [] o.class = "COALNE"               -> QUALIN01(o)

IsLine(instruction) ==
    instruction \in {"dotted", "dashed", "solid", "LOWACC21", "LOWACC31", "LOWACC41", "SAFECD", "SAFECN", "CSTLN"}

\* The classes an object of which may be moved to another category.
Mutable(o) == o.class \in {"OBSTRN", "WRECKS", "DEPCNT", "UWTROC"}
=============================================================================
