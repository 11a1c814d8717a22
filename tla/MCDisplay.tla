----------------------------- MODULE MCDisplay -----------------------------
(***************************************************************************)
(* An instance of Display for TLC: a danger on a depth area, two contours,   *)
(* and an administration area with a boundary on an edge of the first.  The *)
(* danger is one of many, so that the procedures are run on most of their   *)
(* branches.                                                                *)
(***************************************************************************)
EXTENDS Display, TLC

CONSTANTS peril, c5, c10, seabed, border, e1, e2

Plain == [class |-> "ADMARE", geo |-> "area", disc |-> "OTHER", scamin |-> Far,
        prio |-> [s \in Styles |-> 2], edges |-> {},
        valsou |-> Unknown, watlev |-> Absent, catobs |-> Absent, catwrk |-> Absent, cleared |-> FALSE,
        valdco |-> 0, quapos |-> 0, qualty |-> Absent, drval1 |-> Unknown, drval2 |-> Unknown, under |-> {}]

Contour(depth, e) == [Plain EXCEPT !.class = "DEPCNT", !.geo = "line", !.prio = [s \in Styles |-> 5],
                                 !.valdco = depth, !.edges = e, !.scamin = 10]

Rest == (c5     :> [Contour(500, {e1}) EXCEPT !.disc = "STANDARD"]) @@
        (c10    :> [Contour(1000, {e2}) EXCEPT !.quapos = 4]) @@
        (seabed :> [Plain EXCEPT !.class = "DEPARE", !.disc = "DISPLAYBASE", !.prio = [s \in Styles |-> 1],
                               !.drval1 = 500, !.drval2 = 1000]) @@
        (border :> [Plain EXCEPT !.prio = [s \in Styles |-> 7], !.edges = {e1, e2}])

Danger == [Plain EXCEPT !.disc = "OTHER", !.prio = [s \in Styles |-> 4], !.scamin = 10, !.geo = "point"]

In5to10 == {[drval1 |-> 500, drval2 |-> 1000]}

Shoal == [Danger EXCEPT !.class = "OBSTRN", !.geo = "line", !.valsou = 300, !.watlev = 3,
                        !.under = In5to10, !.edges = {e2}]

Dangers ==
    {[Danger EXCEPT !.class = c, !.valsou = 300, !.watlev = w, !.under = In5to10] :
        c \in {"OBSTRN", "UWTROC"}, w \in {1, 3}}
    \cup {[Danger EXCEPT !.class = "OBSTRN", !.geo = "area", !.catobs = 6, !.watlev = 3,
                         !.under = In5to10, !.edges = {e2}],
          Shoal, [Shoal EXCEPT !.qualty = 4],
          [Danger EXCEPT !.class = "OBSTRN", !.watlev = 5],
          [Danger EXCEPT !.class = "WRECKS", !.catwrk = 3, !.watlev = 3, !.under = In5to10],
          [Danger EXCEPT !.class = "WRECKS", !.valsou = 300, !.cleared = TRUE, !.under = In5to10],
          [Danger EXCEPT !.class = "WRECKS", !.valsou = 500, !.catwrk = 2, !.under = In5to10]}

Contents == {(peril :> d) @@ Rest : d \in Dangers}

Settings ==
    {[cat |-> "STANDARD", sym |-> "PAPER_CHART", bnd |-> "PLAIN_BOUNDARIES", useSCAMIN |-> FALSE],
     [cat |-> "DISPLAYBASE", sym |-> "SIMPLIFIED", bnd |-> "PLAIN_BOUNDARIES", useSCAMIN |-> TRUE],
     [cat |-> "OTHER", sym |-> "SIMPLIFIED", bnd |-> "SYMBOLIZED_BOUNDARIES", useSCAMIN |-> FALSE],
     [cat |-> "MARINERS_STANDARD", sym |-> "PAPER_CHART", bnd |-> "SYMBOLIZED_BOUNDARIES", useSCAMIN |-> TRUE]}

Depths == {[contour |-> c, deep |-> 1200, shallow |-> 200, twoShades |-> FALSE, hidden |-> {"OBSTRN", "DEPCNT"}] :
              c \in {500, 700}}

InSight == {Objs, Objs \ {peril}}
=============================================================================
