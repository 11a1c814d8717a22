----------------------------- MODULE ChartData -----------------------------
(***************************************************************************)
(* What opening a chart promises to OpenCPN, whatever server, keys, pipes   *)
(* and retries it takes: the records given are the first ones of that       *)
(* chart's file, in their order, each once; or nothing is given.  How many  *)
(* of them there are is not promised: a stream that ends early passes for   *)
(* the end of the file (Osenc::ingestHeader, Osenc::ingest200).             *)
(***************************************************************************)
EXTENDS Integers, Sequences

CONSTANTS
    Charts,    \* chart files
    File,      \* what each holds, a sequence of records
    NoChart

VARIABLES
    chart,     \* the chart being opened
    have,      \* the records read so far of the attempt under way
    given      \* what the last opening gave, nothing being a sequence of length 0

Init == chart = NoChart /\ have = <<>> /\ given = <<>>

Begin(c) == /\ chart = NoChart
            /\ chart' = c /\ have' = <<>> /\ given' = <<>>

Take == /\ chart # NoChart
        /\ Len(have) < Len(File[chart])
        /\ have' = Append(have, <<chart, Len(have) + 1>>)
        /\ UNCHANGED <<chart, given>>

\* An attempt is given up, and the next one begins from nothing.
StartOver == /\ chart # NoChart
             /\ have' = <<>>
             /\ UNCHANGED <<chart, given>>

Give == /\ chart # NoChart
        /\ given' \in {have, <<>>}
        /\ chart' = NoChart /\ have' = <<>>

\* OpenCPN is closed, or crashes.
Forget == chart' = NoChart /\ have' = <<>> /\ given' = <<>>

Next == \/ \E c \in Charts : Begin(c)
        \/ Take \/ StartOver \/ Give \/ Forget

Spec == Init /\ [][Next]_<<chart, have, given>>
=============================================================================
