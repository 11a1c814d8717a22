-------------------------- MODULE MCChartRegistry --------------------------
(***************************************************************************)
(* ChartRegistry on two directories.  In the one, an edition with a licence *)
(* to be shown once, and one with two licences; in the other, the text of   *)
(* the first licence to be shown always, a chart without a Chartinfo, and a  *)
(* Chartinfo that ends with the lines of its licence.                       *)
(***************************************************************************)
EXTENDS ChartRegistry

CONSTANTS d1, d2, f1, f2, t1, t2

Texted(x, y) == [n \in {f1, f2, NoName} |-> IF n = f1 THEN x ELSE IF n = f2 THEN y ELSE NoText]

One(show)  == <<[match |-> NoName, first |-> f1, show |-> show]>>
Localised  == One("once") \o <<[match |-> f2, first |-> f1, show |-> "always"]>>
Unlocalised == One("once") \o <<[match |-> NoName, first |-> f2, show |-> "always"]>>

Once   == [chartinfo |-> TRUE, blocks |-> One("once"), line |-> TRUE, last |-> "other", text |-> Texted(t1, t2)]
Always == [chartinfo |-> TRUE, blocks |-> One("always"), line |-> TRUE, last |-> "other", text |-> Texted(t1, NoText)]
Bare   == [chartinfo |-> FALSE, blocks |-> <<>>, line |-> FALSE, last |-> "other", text |-> Texted(NoText, NoText)]
Two    == [chartinfo |-> TRUE, blocks |-> Localised, line |-> TRUE, last |-> "other", text |-> Texted(t1, t2)]
Twice  == [chartinfo |-> TRUE, blocks |-> Unlocalised, line |-> TRUE, last |-> "other", text |-> Texted(t1, t2)]

EndingWith(e, what) == [e EXCEPT !.last = what]

MCEditions    == [d \in Dirs |-> IF d = d1 THEN {Two, EndingWith(Twice, "chartinfo")}
                                 ELSE {Always, Bare, EndingWith(Once, "show")}]
TwiceEditions == [d \in Dirs |-> IF d = d1 THEN {Twice} ELSE {Once}]
=============================================================================
