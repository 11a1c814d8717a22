-------------------------- MODULE ChartRegistryProofs --------------------------
(***************************************************************************)
(* For any directories, editions and licences, any number of dialogs within *)
(* dialogs, crashes and restarts: a chart is let through only with its       *)
(* licences accepted, nobody is asked twice, and the list of chart sets is  *)
(* what the user was told.                                                   *)
(***************************************************************************)
EXTENDS ChartRegistry, SequenceTheorems, TLAPS

\* The licence of a block is accepted, if the block names one of its own.
Counts(d, i) == i = 1 \/ Blocks(d)[i].match # NoName
Good(d, i) == Counts(d, i) => Agreed(<<d, Named(Blocks(d)[i])>>)

\* A call has dealt with the blocks before the one it is at, unless the directory was
\* replaced; in a dialog, it asks for the licence that the block names.
Progress(c) ==
    /\ c.dir \in done /\ disk[c.dir] # Gone
    /\ c.i \in 1..(Len(ReadBlocks(disk[c.dir])) + 1)
    /\ c.dir \notin changed => \A i \in 1..(c.i - 1) : Good(c.dir, i)
    /\ c.at = "next" /\ c.i = 1 => c.file = NoName
    /\ c.at = "ask" => /\ c.i <= Len(ReadBlocks(disk[c.dir]))
                       /\ <<c.dir, c.file>> \in DOMAIN eulas
                       /\ Counts(c.dir, c.i) => c.file = Named(ReadBlocks(disk[c.dir])[c.i])

\* The licences to come are in the array, and always shown.
IsAlways(p) == p \in DOMAIN eulas /\ eulas[p].policy = "always"
Pending(l) == (\A p \in l.todo : IsAlways(p)) /\ (l.at = "loadAsk" => IsAlways(<<l.dir, l.file>>))

Stacked ==
    \A k \in 1..Len(stack) :
        /\ stack[k] \in Call => Progress(stack[k])
        /\ stack[k] \in Loading => Pending(stack[k])

\* What has ever been accepted is what the array says, and no configuration says more.
Recorded(f) == \A p \in DOMAIN f : f[p].once => p \in ever

Kept ==
    /\ ever \subseteq DOMAIN eulas
    /\ \A p \in DOMAIN eulas : p \in ever <=> eulas[p].once
    /\ Recorded(conf.eulas) /\ Recorded(confFile.eulas)

\* What a licence says of this session is so.
InSession ==
    \A p \in DOMAIN eulas : eulas[p].session => p[1] \in done /\ (p[1] \notin changed => Text(p) \in agreed)

List == info \subseteq seen /\ (infoShown => told = info)

\* A call that is over, and in which nothing was rejected, has dealt with everything.
Idle(d) == \A k \in 1..Len(stack) : stack[k] \in Call => stack[k].dir # d

Complete(d) ==
    /\ disk[d] # Gone
    /\ \A i \in 1..Len(ReadBlocks(disk[d])) : Good(d, i)
    /\ ReadLine(disk[d]) => d \in info

Processed == ~rejected => \A d \in done \ changed : Idle(d) => Complete(d)

\* The type invariant in two parts.
Typed ==
    /\ disk \in [Dirs -> (UNION {Editions[d] : d \in Dirs}) \cup {Gone}]
    /\ \A d \in Dirs : disk[d] \in Editions[d] \cup {Gone}
    /\ core \subseteq Dirs /\ info \subseteq Dirs /\ told \subseteq info
    /\ ByPath(eulas, Licence)
    /\ ByPath(conf.eulas, Entry) /\ conf.info \subseteq Dirs
    /\ ByPath(confFile.eulas, Entry) /\ confFile.info \subseteq Dirs
    /\ agreed \subseteq Texts \cup {NoText}
    /\ rejected \in BOOLEAN /\ infoShown \in BOOLEAN
    /\ done \subseteq Dirs /\ changed \subseteq Dirs /\ seen \subseteq Dirs /\ ever \subseteq Paths
    /\ passed \in [dir : Dirs \cup {NoDir}, full : BOOLEAN]

StackOK ==
    /\ stack \in Seq(Call \cup Loading)
    /\ \A k \in 1..Len(stack) : stack[k] \in Loading => Len(stack) = 1
    /\ \A k, l \in 1..Len(stack) : stack[k].dir = stack[l].dir => k = l

IInv ==
    /\ TypeOK /\ Stacked /\ Kept /\ InSession /\ List /\ Processed
    /\ OpenedIsAccepted /\ SetsTold

-----------------------------------------------------------------------------
\* Sequences used as stacks

LEMMA Pushed ==
    ASSUME NEW S, NEW s \in Seq(S), NEW x \in S
    PROVE  /\ <<x>> \o s \in Seq(S) /\ <<x>> \o s # <<>> /\ Head(<<x>> \o s) = x
           /\ Len(<<x>> \o s) = Len(s) + 1 /\ (<<x>> \o s)[1] = x
           /\ \A k \in 1..Len(s) : (<<x>> \o s)[k + 1] = s[k]
<1>1. <<x>> \in Seq(S) /\ Len(<<x>>) = 1 /\ <<x>>[1] = x
  OBVIOUS
<1>2. /\ <<x>> \o s \in Seq(S) /\ Len(<<x>> \o s) = 1 + Len(s)
      /\ \A i \in 1..(1 + Len(s)) : (<<x>> \o s)[i] = IF i <= 1 THEN <<x>>[i] ELSE s[i - 1]
  BY <1>1, ConcatProperties
<1>3. Len(s) \in Nat
  BY LenProperties
<1>4. (<<x>> \o s)[1] = x
  BY <1>1, <1>2, <1>3
<1>5. \A k \in 1..Len(s) : (<<x>> \o s)[k + 1] = s[k]
  <2> TAKE k \in 1..Len(s)
  <2>1. k \in Nat /\ k + 1 \in 1..(1 + Len(s)) /\ ~(k + 1 <= 1) /\ (k + 1) - 1 = k
    BY <1>3
  <2> QED
    BY <2>1, <1>2
<1>6. <<x>> \o s # <<>>
  BY <1>2, <1>3
<1>7. Head(<<x>> \o s) = x
  BY <1>2, <1>4, <1>6
<1> QED
  BY <1>2, <1>3, <1>4, <1>5, <1>6, <1>7

LEMMA Popped ==
    ASSUME NEW S, NEW s \in Seq(S), s # <<>>
    PROVE  /\ Head(s) \in S /\ Head(s) = s[1] /\ 1 \in 1..Len(s)
           /\ Tail(s) \in Seq(S) /\ Len(s) \in Nat /\ Len(Tail(s)) = Len(s) - 1
           /\ \A k \in 1..Len(Tail(s)) : k + 1 \in 1..Len(s) /\ Tail(s)[k] = s[k + 1]
<1>1. Len(s) \in Nat /\ Len(s) >= 1
  BY EmptySeq, LenProperties
<1> QED
  BY <1>1, HeadTailProperties

LEMMA Replaced ==
    ASSUME NEW S, NEW s \in Seq(S), s # <<>>, NEW x \in S
    PROVE  /\ <<x>> \o Tail(s) \in Seq(S) /\ <<x>> \o Tail(s) # <<>> /\ Head(<<x>> \o Tail(s)) = x
           /\ Len(<<x>> \o Tail(s)) = Len(s) /\ (<<x>> \o Tail(s))[1] = x
           /\ \A k \in 1..Len(s) : k = 1 \/ (<<x>> \o Tail(s))[k] = s[k]
<1>1. Tail(s) \in Seq(S) /\ Len(s) \in Nat \ {0} /\ Len(Tail(s)) = Len(s) - 1
  BY Popped, EmptySeq
<1>2. \A k \in 1..Len(s) : k = 1 \/ (<<x>> \o Tail(s))[k] = s[k]
  <2> SUFFICES ASSUME NEW k \in 1..Len(s), k # 1 PROVE (<<x>> \o Tail(s))[k] = s[k]
    OBVIOUS
  <2>1. k - 1 \in 1..Len(Tail(s)) /\ (k - 1) + 1 = k
    BY <1>1
  <2>2. (<<x>> \o Tail(s))[(k - 1) + 1] = Tail(s)[k - 1]
    BY <1>1, <2>1, Pushed
  <2>3. Tail(s)[k - 1] = s[(k - 1) + 1]
    BY <2>1, Popped
  <2> QED
    BY <2>1, <2>2, <2>3
<1>3. Len(<<x>> \o Tail(s)) = (Len(s) - 1) + 1
  BY <1>1, Pushed
<1> QED
  BY <1>1, <1>2, <1>3, Pushed

-----------------------------------------------------------------------------
\* What the parts of the invariant say of the call on top

LEMMA OfTop ==
    ASSUME TypeOK, Stacked, stack # <<>>
    PROVE  /\ Top = stack[1] /\ Top \in Call \cup Loading /\ 1 \in 1..Len(stack) /\ Len(stack) \in Nat
           /\ Top \in Call => Progress(Top)
           /\ Top \in Loading => Pending(Top) /\ Len(stack) = 1
<1>1. stack \in Seq(Call \cup Loading)
  BY DEF TypeOK
<1>2. Top = stack[1] /\ Top \in Call \cup Loading /\ 1 \in 1..Len(stack) /\ Len(stack) \in Nat
  BY <1>1, Popped DEF Top
<1> QED
  BY <1>2 DEF TypeOK, Stacked

LEMMA Kinds ==
    ASSUME NEW c
    PROVE  /\ c \in Call => c.at \in {"next", "ask"} /\ c \notin Loading
           /\ c \in Loading => c.at \in {"load", "loadAsk"} /\ c \notin Call
BY DEF Call, Loading

LEMMA EditionAt ==
    ASSUME TypeOK, NEW d \in Dirs, disk[d] # Gone
    PROVE  /\ disk[d] \in Edition /\ disk[d] \in Editions[d]
           /\ ReadBlocks(disk[d]) \in Seq(Block) /\ Blocks(d) = ReadBlocks(disk[d])
           /\ Len(ReadBlocks(disk[d])) \in Nat
           /\ \A i \in 1..Len(ReadBlocks(disk[d])) : ReadBlocks(disk[d])[i] \in Block
           /\ disk[d].chartinfo \in BOOLEAN /\ ReadLine(disk[d]) \in BOOLEAN
<1>1. disk[d] \in Editions[d] /\ disk[d] \in Edition
  BY RegistryAssumption DEF TypeOK
<1>2. /\ disk[d].blocks \in Seq(Block) /\ disk[d].chartinfo \in BOOLEAN /\ disk[d].line \in BOOLEAN
      /\ disk[d].last \in {"show", "chartinfo", "other"}
  BY <1>1 DEF Edition
<1>3. SubSeq(disk[d].blocks, 1, Len(disk[d].blocks) - 1) \in Seq(Block)
  <2>1. Len(disk[d].blocks) \in Nat /\ \A i \in 1..(Len(disk[d].blocks) - 1) : disk[d].blocks[i] \in Block
    BY <1>2, LenProperties, ElementOfSeq
  <2> QED
    BY <2>1, SubSeqProperties
<1>4. ReadBlocks(disk[d]) \in Seq(Block)
  BY <1>2, <1>3 DEF ReadBlocks
<1>5. /\ Len(ReadBlocks(disk[d])) \in Nat
      /\ \A i \in 1..Len(ReadBlocks(disk[d])) : ReadBlocks(disk[d])[i] \in Block
  BY <1>4, LenProperties, ElementOfSeq
<1> QED
  BY <1>1, <1>2, <1>4, <1>5 DEF Blocks, ReadLine

LEMMA OfText ==
    ASSUME TypeOK, NEW p \in Paths
    PROVE  Text(p) \in Texts \cup {NoText}
<1>1. p[1] \in Dirs /\ p[2] \in Names \cup {NoName}
  BY DEF Paths
<1>2. disk[p[1]] # Gone => disk[p[1]].text \in [Names \cup {NoName} -> Texts \cup {NoText}]
  BY <1>1, EditionAt DEF Edition
<1> QED
  BY <1>1, <1>2 DEF Text

-----------------------------------------------------------------------------
\* What a step keeps

LEMMA Split == (TypeOK <=> Typed /\ StackOK) /\ (TypeOK' <=> Typed' /\ StackOK')
BY DEF TypeOK, Typed, StackOK

\* Acceptances only accumulate within a session.
Grows ==
    /\ agreed \subseteq agreed' /\ ever \subseteq ever' /\ done \subseteq done'
    /\ \A p \in DOMAIN eulas : p \in DOMAIN eulas' /\ eulas'[p].policy = eulas[p].policy

LEMMA GoodStays ==
    ASSUME Grows, NEW d, NEW i, disk'[d] = disk[d], Good(d, i)
    PROVE  Good(d, i)'
<1>1. Blocks(d)' = Blocks(d)
  BY DEF Blocks
<1>2. ASSUME Agreed(<<d, Named(Blocks(d)[i])>>)
      PROVE  Agreed(<<d, Named(Blocks(d)[i])>>)'
  <2> DEFINE p == <<d, Named(Blocks(d)[i])>>
  <2>1. p' = p /\ p[1] = d
    BY <1>1
  <2>2. Text(p)' = Text(p)
    BY <2>1 DEF Text
  <2> HIDE DEF p
  <2>3. Agreed(p)
    BY <1>2 DEF p
  <2>4. Agreed(p)'
    BY <2>1, <2>2, <2>3 DEF Agreed, Grows
  <2> QED
    BY <2>4 DEF p
<1>3. Counts(d, i)' <=> Counts(d, i)
  BY <1>1 DEF Counts
<1> QED
  BY <1>2, <1>3 DEF Good

LEMMA ProgressStays ==
    ASSUME Grows, disk' = disk, changed' = changed, NEW c, Progress(c)
    PROVE  Progress(c)'
<1>1. \A i \in 1..(c.i - 1) : Good(c.dir, i) => Good(c.dir, i)'
  BY GoodStays
<1>2. Counts(c.dir, c.i)' <=> Counts(c.dir, c.i)
  BY DEF Counts, Blocks
<1> QED
  BY <1>1, <1>2 DEF Progress, Grows

LEMMA PendingStays ==
    ASSUME Grows, NEW l, Pending(l)
    PROVE  Pending(l)'
BY DEF Pending, IsAlways, Grows

LEMMA SameStack ==
    ASSUME StackOK, Stacked, Grows, disk' = disk, changed' = changed, stack' = stack
    PROVE  StackOK' /\ Stacked'
<1>1. StackOK'
  BY DEF StackOK
<1>2. Stacked'
  BY ProgressStays, PendingStays DEF Stacked
<1> QED
  BY <1>1, <1>2

\* A call is begun within the dialog of another, or alone.
LEMMA PushedStack ==
    ASSUME StackOK, Stacked, Grows, disk' = disk, changed' = changed,
           NEW c \in Call, Progress(c)', Idle(c.dir), \A k \in 1..Len(stack) : stack[k] \in Call,
           stack' = <<c>> \o stack
    PROVE  StackOK' /\ Stacked'
<1>1. stack \in Seq(Call \cup Loading) /\ Len(stack) \in Nat
  BY LenProperties DEF StackOK
<1>2. /\ stack' \in Seq(Call \cup Loading) /\ Len(stack') = Len(stack) + 1 /\ stack'[1] = c
      /\ \A k \in 1..Len(stack) : stack'[k + 1] = stack[k]
  BY <1>1, Pushed
<1>3. \A k \in 1..Len(stack') : k # 1 => k - 1 \in 1..Len(stack) /\ stack'[k] = stack[k - 1]
  BY <1>1, <1>2
<1>4. ASSUME NEW k \in 1..Len(stack'), NEW x, x = stack'[k]
      PROVE  x \in Call /\ Progress(x)'
  <2>1. CASE k = 1
    BY <2>1, <1>2, <1>4
  <2>2. CASE k # 1
    <3>1. k - 1 \in 1..Len(stack) /\ x = stack[k - 1] /\ x \in Call
      BY <2>2, <1>3, <1>4
    <3>2. Progress(x)
      BY <3>1 DEF Stacked
    <3> QED
      BY <3>1, <3>2, ProgressStays
  <2> QED
    BY <2>1, <2>2
<1>5. Stacked'
  BY <1>4, Kinds DEF Stacked
<1>6. ASSUME NEW k \in 1..Len(stack'), NEW l \in 1..Len(stack'), stack'[k].dir = stack'[l].dir
      PROVE  k = l
  <2>1. CASE k = 1 /\ l # 1
    BY <1>2, <1>3, <1>6, <2>1 DEF Idle
  <2>2. CASE k # 1 /\ l = 1
    BY <1>2, <1>3, <1>6, <2>2 DEF Idle
  <2>3. CASE k # 1 /\ l # 1
    <3>1. k - 1 = l - 1
      BY <1>3, <1>6, <2>3 DEF StackOK
    <3>2. k \in Nat /\ l \in Nat
      BY <1>1, <1>2
    <3> QED
      BY <3>1, <3>2
  <2> QED
    BY <2>1, <2>2, <2>3
<1>7. StackOK'
  BY <1>2, <1>4, <1>6, Kinds DEF StackOK
<1> QED
  BY <1>5, <1>7

\* The call on top goes on.
LEMMA ReplacedStack ==
    ASSUME StackOK, Stacked, Grows, disk' = disk, changed' = changed, stack # <<>>,
           NEW c \in Call \cup Loading, c \in Call => Progress(c)', c \in Loading => Pending(c)' /\ Len(stack) = 1,
           c.dir = Top.dir \/ Len(stack) = 1,
           stack' = <<c>> \o Tail(stack)
    PROVE  /\ StackOK' /\ Stacked'
           /\ c \in Call /\ c.dir = Top.dir => \A d : Idle(d)' => Idle(d)
<1>1. stack \in Seq(Call \cup Loading) /\ Top = stack[1] /\ 1 \in 1..Len(stack)
  BY Popped DEF StackOK, Top
<1>2. /\ stack' \in Seq(Call \cup Loading) /\ Len(stack') = Len(stack) /\ stack'[1] = c
      /\ \A k \in 1..Len(stack) : k = 1 \/ stack'[k] = stack[k]
  BY <1>1, Replaced
<1>3. Stacked'
  <2>1. ASSUME NEW k \in 1..Len(stack), NEW x, x = stack'[k]
        PROVE  (x \in Call => Progress(x)') /\ (x \in Loading => Pending(x)')
    <3>1. CASE k = 1
      BY <3>1, <1>2, <2>1
    <3>2. CASE k # 1
      BY <3>2, <1>2, <2>1, ProgressStays, PendingStays DEF Stacked
    <3> QED
      BY <3>1, <3>2
  <2> QED
    BY <2>1, <1>2 DEF Stacked
<1>4. \A k \in 1..Len(stack') : stack'[k] \in Loading => Len(stack') = 1
  BY <1>2 DEF StackOK
<1>5. \A k, l \in 1..Len(stack') : stack'[k].dir = stack'[l].dir => k = l
  <2>1. CASE Len(stack) = 1
    <3>1. \A k, l \in 1..1 : k = l
      OBVIOUS
    <3>2. 1..Len(stack') = 1..1
      BY <2>1, <1>2
    <3> QED
      BY <3>1, <3>2
  <2>2. CASE c.dir = Top.dir
    <3>1. \A k \in 1..Len(stack) : stack'[k].dir = stack[k].dir
      BY <2>2, <1>1, <1>2
    <3> QED
      BY <3>1, <1>2 DEF StackOK
  <2> QED
    BY <2>1, <2>2
<1>6. c \in Call /\ c.dir = Top.dir => \A d : Idle(d)' => Idle(d)
  BY <1>1, <1>2 DEF Idle
<1> QED
  BY <1>2, <1>3, <1>4, <1>5, <1>6 DEF StackOK

\* The call on top ends.
LEMMA PoppedStack ==
    ASSUME StackOK, Stacked, Grows, disk' = disk, changed' = changed, stack # <<>>, stack' = Tail(stack)
    PROVE  /\ StackOK' /\ Stacked'
           /\ \A d : d # Top.dir /\ Idle(d)' => Idle(d)
<1>1. stack \in Seq(Call \cup Loading) /\ Top = stack[1]
  BY Popped DEF StackOK, Top
<1>2. /\ stack' \in Seq(Call \cup Loading) /\ Len(stack) \in Nat /\ Len(stack') = Len(stack) - 1
      /\ \A k \in 1..Len(stack') : k + 1 \in 1..Len(stack) /\ stack'[k] = stack[k + 1]
  BY <1>1, Popped
<1>3. \A k \in 1..Len(stack') : stack'[k] \notin Loading
  BY <1>2 DEF StackOK
<1>4. Stacked'
  <2>1. ASSUME NEW k \in 1..Len(stack'), NEW x \in Call, x = stack'[k]
        PROVE  Progress(x)'
    <3>1. k + 1 \in 1..Len(stack) /\ x = stack[k + 1]
      BY <1>2, <2>1
    <3>2. Progress(x)
      BY <3>1 DEF Stacked
    <3> QED
      BY <3>2, ProgressStays
  <2> QED
    BY <1>3, <2>1 DEF Stacked
<1>5. \A k, l \in 1..Len(stack') : stack'[k].dir = stack'[l].dir => k = l
  BY <1>2 DEF StackOK
<1>6. ASSUME NEW d, d # Top.dir, Idle(d)'
      PROVE  Idle(d)
  <2> SUFFICES ASSUME NEW k \in 1..Len(stack), stack[k] \in Call, stack[k].dir = d PROVE FALSE
    BY DEF Idle
  <2>1. k # 1
    BY <1>1, <1>6
  <2>2. k - 1 \in 1..Len(stack') /\ (k - 1) + 1 = k
    BY <2>1, <1>2
  <2>3. stack'[k - 1] = stack[k]
    BY <2>2, <1>2
  <2> QED
    BY <2>2, <2>3, <1>6 DEF Idle
<1> QED
  BY <1>2, <1>3, <1>4, <1>5, <1>6 DEF StackOK

LEMMA ProcessedStays ==
    ASSUME Processed, Grows, disk' = disk, changed' = changed, info \subseteq info', rejected => rejected',
           \A d \in done' \ changed : Idle(d)' => (d \in done /\ Idle(d)) \/ Complete(d)'
    PROVE  Processed'
<1> SUFFICES ASSUME ~rejected', NEW d \in done' \ changed, Idle(d)' PROVE Complete(d)'
  BY DEF Processed
<1>1. CASE Complete(d)'
  BY <1>1
<1>2. CASE d \in done /\ Idle(d)
  <2>1. Complete(d)
    BY <1>2 DEF Processed
  <2>2. \A i \in 1..Len(ReadBlocks(disk[d])) : Good(d, i)'
    BY <2>1, GoodStays DEF Complete
  <2> QED
    BY <2>1, <2>2 DEF Complete
<1> QED
  BY <1>1, <1>2

LEMMA InSessionStays ==
    ASSUME InSession, disk' = disk, changed' = changed, eulas' = eulas, done \subseteq done', agreed \subseteq agreed'
    PROVE  InSession'
BY DEF InSession, Text

LEMMA NobodyPassed ==
    ASSUME passed' = Nobody, told' \subseteq seen'
    PROVE  OpenedIsAccepted' /\ SetsTold'
BY DEF OpenedIsAccepted, SetsTold, Nobody

LEMMA OfNobody == Nobody \in [dir : Dirs \cup {NoDir}, full : BOOLEAN]
BY DEF Nobody

LEMMA SavedFits ==
    ASSUME TypeOK, Kept
    PROVE  /\ ByPath(Saved.eulas, Entry) /\ Saved.info \subseteq Dirs
           /\ DOMAIN Saved.eulas = DOMAIN eulas
           /\ \A p \in DOMAIN eulas : p \in ever <=> Saved.eulas[p].once
<1>1. /\ Saved.eulas = [p \in DOMAIN eulas |-> [policy |-> eulas[p].policy, once |-> eulas[p].once]]
      /\ Saved.info = info
  BY DEF Saved
<1>2. \A p \in DOMAIN eulas : eulas[p].policy \in Shows /\ eulas[p].once \in BOOLEAN
  BY DEF TypeOK, ByPath, Licence
<1>3. \A p \in DOMAIN eulas : Saved.eulas[p] \in Entry /\ Saved.eulas[p].once = eulas[p].once
  BY <1>1, <1>2 DEF Entry
<1> QED
  BY <1>1, <1>3 DEF TypeOK, ByPath, Kept

\* Steps that concern the configuration and OpenCPN's list only.
LEMMA Quiet ==
    ASSUME IInv, UNCHANGED <<disk, eulas, info, agreed, rejected, done, infoShown, stack, told, ghosts>>,
           core' \subseteq Dirs, passed' = passed \/ passed' = Nobody,
           ByPath(conf'.eulas, Entry), conf'.info \subseteq Dirs, Recorded(conf'.eulas),
           ByPath(confFile'.eulas, Entry), confFile'.info \subseteq Dirs, Recorded(confFile'.eulas)
    PROVE  IInv'
<1> USE DEF ghosts
<1>1. Typed /\ StackOK /\ Stacked /\ Kept /\ InSession /\ List /\ Processed /\ OpenedIsAccepted /\ SetsTold
  BY Split DEF IInv
<1>2. Grows
  BY DEF Grows
<1>3. Typed'
  BY <1>1, OfNobody DEF Typed
<1>4. StackOK' /\ Stacked'
  BY <1>1, <1>2, SameStack
<1>5. Kept'
  BY <1>1 DEF Kept, Recorded
<1>6. InSession' /\ List'
  BY <1>1, InSessionStays DEF List
<1>7. Processed'
  BY <1>1, <1>2, ProcessedStays DEF Idle
<1>8. OpenedIsAccepted' /\ SetsTold'
  <2>1. told' \subseteq seen'
    BY <1>1 DEF SetsTold
  <2>2. CASE passed' = Nobody
    BY <2>1, <2>2, NobodyPassed
  <2>3. CASE passed' = passed
    BY <1>1, <2>3 DEF OpenedIsAccepted, SetsTold, Agreed, Text, Blocks
  <2> QED
    BY <2>2, <2>3
<1> QED
  BY <1>3, <1>4, <1>5, <1>6, <1>7, <1>8, Split DEF IInv

LEMMA ConfFits ==
    ASSUME IInv
    PROVE  /\ ByPath(conf.eulas, Entry) /\ conf.info \subseteq Dirs /\ Recorded(conf.eulas)
           /\ ByPath(confFile.eulas, Entry) /\ confFile.info \subseteq Dirs /\ Recorded(confFile.eulas)
           /\ ByPath(Saved.eulas, Entry) /\ Saved.info \subseteq Dirs /\ Recorded(Saved.eulas)
BY SavedFits DEF IInv, TypeOK, Kept, Recorded

LEMMA SaveConfigStep == ASSUME IInv, SaveConfig PROVE IInv'
BY Quiet, ConfFits DEF SaveConfig, IInv, TypeOK

LEMMA FlushStep == ASSUME IInv, Flush PROVE IInv'
BY Quiet, ConfFits DEF Flush, IInv, TypeOK

LEMMA UnlistStep == ASSUME IInv, NEW d \in Dirs, Unlist(d) PROVE IInv'
<1>1. core' \subseteq Dirs
  BY DEF Unlist, IInv, TypeOK
<1> QED
  BY <1>1, Quiet, ConfFits DEF Unlist, saved

LEMMA StutterStep == ASSUME IInv, UNCHANGED vars PROVE IInv'
<1>1. core' \subseteq Dirs
  BY DEF vars, IInv, TypeOK
<1> QED
  BY <1>1, Quiet, ConfFits DEF vars, saved

-----------------------------------------------------------------------------
\* The start, and the licences that are always shown

LEMMA Started ==
    ASSUME IInv, NEW f, ByPath(f.eulas, Entry), f.info \subseteq Dirs,
           ever' \subseteq DOMAIN f.eulas, \A p \in DOMAIN f.eulas : p \in ever' <=> f.eulas[p].once,
           Start(f)
    PROVE  IInv'
<1>1. Typed /\ disk' = disk /\ core' = core
  BY Split DEF IInv, Start
<1>2. /\ DOMAIN eulas' = DOMAIN f.eulas
      /\ \A p \in DOMAIN f.eulas :
            eulas'[p] = [policy |-> f.eulas[p].policy, once |-> f.eulas[p].once, session |-> FALSE]
  BY DEF Start, LoadedEulas
<1>2a. ASSUME NEW p \in DOMAIN f.eulas
       PROVE  /\ eulas'[p].policy = f.eulas[p].policy /\ eulas'[p].once = f.eulas[p].once
              /\ eulas'[p].session = FALSE
  <2>1. eulas'[p] = [policy |-> f.eulas[p].policy, once |-> f.eulas[p].once, session |-> FALSE]
    BY <1>2
  <2> QED
    BY <2>1
<1>3. ByPath(eulas', Licence)
  <2>1. \A p \in DOMAIN f.eulas : f.eulas[p].policy \in Shows /\ f.eulas[p].once \in BOOLEAN
    BY DEF ByPath, Entry
  <2>2. ASSUME NEW p \in DOMAIN f.eulas
        PROVE  eulas'[p] \in Licence
    <3>1. eulas'[p] = [policy |-> f.eulas[p].policy, once |-> f.eulas[p].once, session |-> FALSE]
      BY <1>2
    <3> QED
      BY <2>1, <3>1 DEF Licence
  <2> QED
    BY <1>2, <2>2 DEF ByPath
<1>4. ever' \subseteq Paths
  BY DEF ByPath
<1>5. Typed'
  <2>1. info' \subseteq Dirs /\ seen' \subseteq Dirs /\ told' = {} /\ done' = {} /\ changed' = {} /\ agreed' = {}
    BY DEF Start, Scrubbed, InPlace
  <2>2. conf' = f /\ confFile' = f /\ passed' = Nobody /\ rejected' = FALSE /\ infoShown' = FALSE
    BY DEF Start
  <2> QED
    BY <1>1, <1>3, <1>4, <2>1, <2>2, OfNobody DEF Typed
<1> DEFINE x == Going({p \in DOMAIN eulas' : eulas'[p].policy = "always"})
<1>6. x \in Loading /\ x.todo = {p \in DOMAIN eulas' : eulas'[p].policy = "always"} /\ x.at = "load"
  BY <1>3 DEF Loading, ByPath, Going
<1>7. stack' = <<x>>
  BY DEF Start
<1> HIDE DEF x
<1>8. stack' \in Seq(Call \cup Loading) /\ Len(stack') = 1 /\ stack'[1] = x
  BY <1>6, <1>7
<1>9. StackOK'
  <2>1. \A k, l \in 1..1 : k = l
    OBVIOUS
  <2> QED
    BY <1>8, <2>1 DEF StackOK
<1>10. Stacked'
  <2>1. ASSUME NEW k \in 1..Len(stack'), NEW y, y = stack'[k]
        PROVE  y \notin Call /\ Pending(y)'
    <3>1. y = x
      BY <1>8, <2>1
    <3> QED
      BY <1>6, <3>1, Kinds DEF Pending, IsAlways
  <2> QED
    BY <2>1 DEF Stacked
<1>11. Kept'
  <2>1. \A p \in DOMAIN eulas' : eulas'[p].once = f.eulas[p].once
    BY <1>2, <1>2a
  <2> QED
    BY <1>2, <2>1 DEF Kept, Recorded, Start
<1>12. InSession'
  BY <1>2, <1>2a DEF InSession
<1>13. List' /\ told' \subseteq seen'
  BY DEF List, Start, Scrubbed, InPlace
<1>14. Processed'
  BY DEF Processed, Start
<1>15. OpenedIsAccepted' /\ SetsTold'
  BY <1>13, NobodyPassed DEF Start
<1> QED
  BY <1>5, <1>9, <1>10, <1>11, <1>12, <1>13, <1>14, <1>15, Split DEF IInv

LEMMA QuitStep == ASSUME IInv, Quit PROVE IInv'
<1>1. /\ ByPath(Saved.eulas, Entry) /\ Saved.info \subseteq Dirs
      /\ DOMAIN Saved.eulas = DOMAIN eulas
      /\ \A p \in DOMAIN eulas : p \in ever <=> Saved.eulas[p].once
      /\ ever \subseteq DOMAIN eulas
  BY SavedFits DEF IInv, Kept
<1>2. ever' = ever /\ Start(Saved)
  BY DEF Quit
<1>3. /\ ever' \subseteq DOMAIN Saved.eulas
      /\ \A p \in DOMAIN Saved.eulas : p \in ever' <=> Saved.eulas[p].once
  BY <1>1, <1>2
<1> QED
  BY <1>1, <1>2, <1>3, Started

LEMMA CrashStep == ASSUME IInv, Crash PROVE IInv'
<1>1. ByPath(confFile.eulas, Entry) /\ confFile.info \subseteq Dirs /\ Recorded(confFile.eulas)
  BY ConfFits
<1>2. ever' = {p \in ever : p \in DOMAIN confFile.eulas /\ confFile.eulas[p].once} /\ Start(confFile)
  BY DEF Crash
<1>3. /\ ever' \subseteq DOMAIN confFile.eulas
      /\ \A p \in DOMAIN confFile.eulas : p \in ever' <=> confFile.eulas[p].once
  BY <1>1, <1>2 DEF Recorded
<1> QED
  BY <1>1, <1>2, <1>3, Started

\* A licence that is always shown is alone on the stack.
LEMMA LoneStack ==
    ASSUME NEW c \in Loading, Pending(c)', stack' = <<c>>
    PROVE  StackOK' /\ Stacked' /\ \A d : Idle(d)'
<1>1. stack' \in Seq(Call \cup Loading) /\ Len(stack') = 1 /\ stack'[1] = c
  OBVIOUS
<1>2. \A k, l \in 1..1 : k = l
  OBVIOUS
<1>3. ASSUME NEW k \in 1..Len(stack'), NEW x, x = stack'[k]
      PROVE  x = c
  BY <1>1, <1>3
<1> QED
  BY <1>1, <1>2, <1>3, Kinds DEF StackOK, Stacked, Idle

LEMMA EmptyStack ==
    ASSUME stack' = <<>>
    PROVE  StackOK' /\ Stacked' /\ \A d : Idle(d)'
<1>1. stack' \in Seq(Call \cup Loading) /\ Len(stack') = 0
  OBVIOUS
<1>2. 1..0 = {}
  OBVIOUS
<1> QED
  BY <1>1, <1>2 DEF StackOK, Stacked, Idle

\* With a licence that is always shown on top, no call is under way.
LEMMA LoadingIsIdle ==
    ASSUME StackOK, Stacked, stack # <<>>, Top \in Loading
    PROVE  /\ Pending(Top) /\ \A d : Idle(d)
           /\ Top.todo \subseteq Paths /\ Top.dir \in Dirs \cup {NoDir} /\ Top.file \in Names \cup {NoName}
           /\ Top = [at |-> Top.at, dir |-> Top.dir, file |-> Top.file, todo |-> Top.todo]
<1>1. stack \in Seq(Call \cup Loading) /\ Top = stack[1] /\ 1 \in 1..Len(stack)
  BY Popped DEF StackOK, Top
<1>2. Len(stack) = 1 /\ Pending(Top)
  BY <1>1 DEF StackOK, Stacked
<1>3. \A k \in 1..Len(stack) : stack[k] \in Loading
  BY <1>1, <1>2
<1> QED
  BY <1>2, <1>3, Kinds DEF Loading, Idle

\* Steps of ShowAlwaysEULAs change but agreed, rejected and the stack.
LEMMA LoadingStep ==
    ASSUME IInv, \A d : Idle(d),
           UNCHANGED <<disk, core, eulas, info, saved, done, infoShown, told, ghosts>>,
           passed' = Nobody, agreed \subseteq agreed', agreed' \subseteq Texts \cup {NoText},
           rejected' = rejected \/ rejected' = TRUE, StackOK', Stacked'
    PROVE  IInv'
<1> USE DEF ghosts, saved
<1>1. Typed /\ Kept /\ InSession /\ List /\ Processed /\ SetsTold
  BY Split DEF IInv
<1>2. Grows
  BY DEF Grows
<1>3. Typed'
  BY <1>1, OfNobody DEF Typed
<1>4. Kept' /\ InSession' /\ List'
  BY <1>1, InSessionStays DEF Kept, Recorded, List
<1>5. Processed'
  BY <1>1, <1>2, ProcessedStays DEF Typed
<1>6. told' \subseteq seen'
  BY <1>1 DEF SetsTold
<1> QED
  BY <1>3, <1>4, <1>5, <1>6, NobodyPassed, Split DEF IInv

LEMMA OfRuns ==
    ASSUME IInv, NEW a, Runs(a)
    PROVE  /\ stack # <<>> /\ Top.at = a /\ StackOK /\ Stacked /\ Typed
           /\ a \in {"load", "loadAsk"} => Top \in Loading
           /\ a \in {"next", "ask"} => Top \in Call /\ Progress(Top)
<1>1. stack # <<>> /\ Top.at = a /\ StackOK /\ Stacked /\ Typed
  BY Split DEF IInv, Runs
<1>2. Top \in Call \cup Loading /\ (Top \in Call => Progress(Top))
  BY <1>1, OfTop DEF IInv
<1> QED
  BY <1>1, <1>2, Kinds

LEMMA LoadNextStep == ASSUME IInv, LoadNext PROVE IInv'
<1>1. stack # <<>> /\ Top.at = "load" /\ Top \in Loading /\ StackOK /\ Stacked
  BY OfRuns DEF LoadNext
<1>2. /\ Pending(Top) /\ \A d : Idle(d)
      /\ Top = [at |-> "load", dir |-> Top.dir, file |-> Top.file, todo |-> Top.todo]
      /\ Top.todo \subseteq Paths /\ Top.dir \in Dirs \cup {NoDir} /\ Top.file \in Names \cup {NoName}
  BY <1>1, LoadingIsIdle
<1>3. eulas' = eulas
  BY DEF LoadNext
<1>4. StackOK' /\ Stacked'
  <2>1. CASE stack' = <<>>
    BY <2>1, EmptyStack
  <2>2. ASSUME NEW p \in Top.todo,
               stack' = IF Text(p) \in agreed THEN <<Going(Top.todo \ {p})>>
                        ELSE <<[at |-> "loadAsk", dir |-> p[1], file |-> p[2], todo |-> Top.todo \ {p}]>>
        PROVE  StackOK' /\ Stacked'
    <3>1. p = <<p[1], p[2]>> /\ p[1] \in Dirs /\ p[2] \in Names \cup {NoName} /\ IsAlways(p)
      BY <1>2 DEF Paths, Pending
    <3> DEFINE x == Going(Top.todo \ {p})
               y == [at |-> "loadAsk", dir |-> p[1], file |-> p[2], todo |-> Top.todo \ {p}]
    <3>4. /\ x \in Loading /\ x.at = "load" /\ x.todo \subseteq Top.todo
          /\ y \in Loading /\ y.todo \subseteq Top.todo /\ <<y.dir, y.file>> = p
      BY <1>2, <3>1 DEF Loading, Going
    <3>5. stack' = <<x>> \/ stack' = <<y>>
      BY <2>2
    <3> HIDE DEF x, y
    <3>6. \A q \in Top.todo : IsAlways(q)'
      BY <1>2, <1>3 DEF Pending, IsAlways
    <3>7. ASSUME NEW c \in {x, y}, NEW d, d = c PROVE Pending(d)'
      BY <3>4, <3>6, <3>7 DEF Pending
    <3>8. ASSUME NEW c \in Loading, c \in {x, y}, stack' = <<c>> PROVE StackOK' /\ Stacked'
      BY <3>7, <3>8, LoneStack
    <3> QED
      BY <3>4, <3>5, <3>8
  <2> QED
    BY <2>1, <2>2 DEF LoadNext
<1> QED
  BY <1>2, <1>4, LoadingStep DEF LoadNext, IInv, TypeOK

LEMMA LoadAcceptStep == ASSUME IInv, LoadAccept PROVE IInv'
<1>1. stack # <<>> /\ Top.at = "loadAsk" /\ Top \in Loading /\ StackOK /\ Stacked
  BY OfRuns DEF LoadAccept
<1>2. /\ Pending(Top) /\ \A d : Idle(d)
      /\ Top = [at |-> "loadAsk", dir |-> Top.dir, file |-> Top.file, todo |-> Top.todo]
      /\ Top.todo \subseteq Paths
  BY <1>1, LoadingIsIdle
<1>3. Text(TopPath) \in Texts \cup {NoText}
  <2>1. TopPath \in DOMAIN eulas
    BY <1>1, <1>2 DEF Pending, IsAlways, TopPath
  <2> QED
    BY <2>1, OfText DEF IInv, TypeOK, ByPath
<1>4. StackOK' /\ Stacked'
  <2>1. ASSUME NEW x, x = Going(Top.todo)
        PROVE  x \in Loading /\ Pending(x)'
    <3>1. x \in Loading /\ x.at = "load" /\ x.todo = Top.todo
      BY <1>2, <2>1 DEF Loading, Going
    <3>2. \A q \in x.todo : IsAlways(q)'
      BY <1>2, <3>1 DEF Pending, IsAlways, LoadAccept
    <3> QED
      BY <3>1, <3>2 DEF Pending
  <2>2. stack' = <<Going(Top.todo)>>
    BY DEF LoadAccept
  <2> QED
    BY <2>1, <2>2, LoneStack
<1>5. agreed' \subseteq Texts \cup {NoText} /\ agreed \subseteq agreed'
  BY <1>3 DEF LoadAccept, IInv, TypeOK
<1> QED
  BY <1>2, <1>4, <1>5, LoadingStep DEF LoadAccept

LEMMA LoadRejectStep == ASSUME IInv, LoadReject PROVE IInv'
<1>1. \A d : Idle(d)
  BY OfRuns, LoadingIsIdle DEF LoadReject
<1>2. StackOK' /\ Stacked'
  BY EmptyStack DEF LoadReject
<1> QED
  BY <1>1, <1>2, LoadingStep DEF LoadReject, IInv, TypeOK

-----------------------------------------------------------------------------
\* A chart is let through

LEMMA PassedFits ==
    ASSUME Typed, List, SetsTold, Grows, disk' = disk, changed' = changed,
           NEW d \in Dirs, NEW full \in BOOLEAN, NEW shown \in BOOLEAN,
           info \subseteq info', info' \subseteq info \cup {d},
           LetThrough(d, full, info', shown),
           shown => infoShown /\ info' = info,
           d \notin changed /\ (\A k \in 1..Len(stack') : stack'[k].dir # d) => Complete(d)'
    PROVE  /\ OpenedIsAccepted' /\ SetsTold' /\ List'
           /\ told' \subseteq info' /\ seen' \subseteq Dirs /\ infoShown' \in BOOLEAN
           /\ passed' \in [dir : Dirs \cup {NoDir}, full : BOOLEAN]
<1>1. /\ passed' = [dir |-> d, full |-> full] /\ passed'.dir = d /\ passed'.full = full
      /\ seen' = seen \cup {d}
      /\ infoShown' = (shown \/ (full /\ ~shown /\ info' # {}))
      /\ told' = IF full /\ ~shown /\ info' # {} THEN info' ELSE told
  BY DEF LetThrough
<1>2. passed' \in [dir : Dirs \cup {NoDir}, full : BOOLEAN] /\ seen' \subseteq Dirs /\ infoShown' \in BOOLEAN
  BY <1>1 DEF Typed
<1>3. told' \subseteq info' /\ told' \subseteq seen' /\ info' \subseteq seen'
  BY <1>1 DEF Typed, List, SetsTold
<1>4. List'
  BY <1>1, <1>3 DEF List
<1>5. OpenedIsAccepted'
  <2> SUFFICES ASSUME d \notin changed, \A k \in 1..Len(stack') : stack'[k].dir # d,
                      NEW i \in 1..Len(Blocks(d)')
               PROVE  Good(d, i)'
    BY <1>1 DEF OpenedIsAccepted, Good, Counts
  <2> QED
    BY DEF Complete, Blocks
<1>6. SetsTold'
  <2> SUFFICES ASSUME full, d \notin changed, ReadLine(disk[d]), \A k \in 1..Len(stack') : stack'[k].dir # d
               PROVE  d \in told'
    BY <1>1, <1>3 DEF SetsTold
  <2>1. d \in info'
    BY DEF Complete
  <2> QED
    BY <1>1, <2>1 DEF List
<1> QED
  BY <1>2, <1>3, <1>4, <1>5, <1>6

LEMMA OpenStep == ASSUME IInv, NEW d \in Dirs, NEW full \in BOOLEAN, Open(d, full) PROVE IInv'
<1> USE DEF saved
<1>1. Typed /\ StackOK /\ Stacked /\ Kept /\ InSession /\ List /\ Processed /\ SetsTold
  BY Split DEF IInv
<1>2. disk[d] # Gone /\ core' \subseteq Dirs
  BY <1>1 DEF Open, Typed
<1>3. CASE rejected /\ passed' = Nobody /\ UNCHANGED <<done, stack, infoShown, told, seen>>
  BY <1>2, <1>3, Quiet, ConfFits DEF Open, ghosts
<1>4. CASE /\ ~rejected /\ (d \in done \/ ~disk[d].chartinfo)
           /\ LetThrough(d, full, info, infoShown)
           /\ UNCHANGED <<done, stack>>
  <2>1. /\ UNCHANGED <<disk, core, eulas, info, conf, confFile, agreed, rejected, ever, changed, done, stack>>
        /\ LetThrough(d, full, info', infoShown)
    BY <1>4 DEF Open
  <2>2. Grows
    BY <2>1 DEF Grows
  <2>3. d \notin changed /\ (\A k \in 1..Len(stack') : stack'[k].dir # d) => Complete(d)'
    <3> SUFFICES ASSUME d \notin changed, \A k \in 1..Len(stack) : stack[k].dir # d
                 PROVE  Complete(d)'
      BY <2>1
    <3>1. CASE d \in done
      <4>1. Complete(d)
        BY <1>1, <1>4, <3>1 DEF Processed, Idle
      <4>2. \A i \in 1..Len(ReadBlocks(disk[d])) : Good(d, i)'
        BY <4>1, <2>1, <2>2, GoodStays DEF Complete
      <4> QED
        BY <4>1, <4>2, <2>1 DEF Complete
    <3>2. CASE ~disk[d].chartinfo
      <4>1. ReadBlocks(disk[d]) = <<>> /\ ~ReadLine(disk[d])
        BY <1>2, <3>2, EditionAt, RegistryAssumption DEF IInv, ReadBlocks, ReadLine
      <4>2. 1..Len(ReadBlocks(disk[d])) = {}
        BY <4>1
      <4> QED
        BY <1>2, <4>1, <4>2, <2>1 DEF Complete
    <3> QED
      BY <1>4, <3>1, <3>2
  <2>4. infoShown \in BOOLEAN
    BY <1>1 DEF Typed
  <2>5. /\ OpenedIsAccepted' /\ SetsTold' /\ List'
        /\ told' \subseteq info' /\ seen' \subseteq Dirs /\ infoShown' \in BOOLEAN
        /\ passed' \in [dir : Dirs \cup {NoDir}, full : BOOLEAN]
    BY <1>1, <2>1, <2>2, <2>3, <2>4, PassedFits
  <2>6. Typed'
    BY <1>1, <2>1, <2>5 DEF Typed
  <2>7. StackOK' /\ Stacked'
    BY <1>1, <2>1, <2>2, SameStack
  <2>8. Kept' /\ InSession'
    BY <1>1, <2>1, InSessionStays DEF Kept, Recorded
  <2>9. Processed'
    BY <1>1, <2>1, <2>2, ProcessedStays DEF Idle
  <2> QED
    BY <2>5, <2>6, <2>7, <2>8, <2>9, Split DEF IInv
<1>5. CASE /\ ~rejected /\ d \notin done /\ disk[d].chartinfo
           /\ Entered(d)
           /\ stack' = <<[at |-> "next", dir |-> d, full |-> full, i |-> 1, file |-> NoName]>> \o stack
           /\ passed' = Nobody
           /\ UNCHANGED <<infoShown, told, seen>>
  <2>1. /\ UNCHANGED <<disk, core, eulas, info, conf, confFile, agreed, rejected, ever, changed, infoShown, told, seen>>
        /\ done' = done \cup {d}
    BY <1>5 DEF Open, Entered
  <2>2. Grows
    BY <2>1 DEF Grows
  <2> DEFINE c == [at |-> "next", dir |-> d, full |-> full, i |-> 1, file |-> NoName]
  <2>3. c \in Call /\ c.dir = d /\ c.i = 1 /\ c.at = "next" /\ c.file = NoName
    BY DEF Call
  <2>4. stack' = <<c>> \o stack
    BY <1>5
  <2> HIDE DEF c
  <2>5. \A k \in 1..Len(stack) : stack[k] \in Call
    <3>1. CASE stack = <<>>
      BY <3>1
    <3>2. CASE stack # <<>> /\ Top.at = "ask"
      <4>1. Top = stack[1] /\ Top \in Call \cup Loading /\ 1 \in 1..Len(stack)
        BY <3>2, OfTop DEF IInv
      <4>2. stack[1] \notin Loading
        BY <3>2, <4>1, Kinds
      <4>3. \A k \in 1..Len(stack) : stack[k] \notin Loading
        BY <1>1, <4>1, <4>2 DEF StackOK
      <4> QED
        BY <1>1, <4>3, ElementOfSeq DEF StackOK
    <3> QED
      BY <3>1, <3>2 DEF Open, Free, Runs
  <2>6. Idle(d)
    BY <1>1, <1>5 DEF Stacked, Progress, Idle
  <2>7. ASSUME NEW x, x = c
        PROVE  Progress(x)'
    <3>1. Len(ReadBlocks(disk[d])) \in Nat
      BY <1>2, EditionAt DEF IInv
    <3>2. 1 \in 1..(Len(ReadBlocks(disk[d])) + 1) /\ 1..(1 - 1) = {}
      BY <3>1
    <3> QED
      BY <1>2, <2>1, <2>3, <2>7, <3>2 DEF Progress
  <2>8. StackOK' /\ Stacked'
    BY <1>1, <2>1, <2>2, <2>3, <2>4, <2>5, <2>6, <2>7, PushedStack
  <2>9. Typed'
    BY <1>1, <1>5, <2>1, OfNobody DEF Typed
  <2>10. Kept' /\ InSession' /\ List'
    BY <1>1, <2>1, InSessionStays DEF Kept, Recorded, List
  <2>11. \A e \in done' \ changed : Idle(e)' => e \in done /\ Idle(e)
    <3>1. stack \in Seq(Call \cup Loading) /\ Len(stack) \in Nat
      BY <1>1, LenProperties DEF StackOK
    <3>2. Len(stack') = Len(stack) + 1 /\ stack'[1] = c /\ \A k \in 1..Len(stack) : stack'[k + 1] = stack[k]
      BY <2>3, <2>4, <3>1, Pushed
    <3>3. 1 \in 1..Len(stack') /\ \A k \in 1..Len(stack) : k + 1 \in 1..Len(stack')
      BY <3>1, <3>2
    <3>4. ~Idle(d)'
      BY <2>3, <3>2, <3>3 DEF Idle
    <3>5. \A e : Idle(e)' => Idle(e)
      BY <3>2, <3>3 DEF Idle
    <3> QED
      BY <2>1, <3>4, <3>5
  <2>12. Processed'
    BY <1>1, <2>1, <2>2, <2>11, ProcessedStays
  <2>13. OpenedIsAccepted' /\ SetsTold'
    <3>1. told' \subseteq seen'
      BY <1>1, <2>1 DEF SetsTold
    <3> QED
      BY <1>5, <3>1, NobodyPassed
  <2> QED
    BY <2>8, <2>9, <2>10, <2>12, <2>13, Split DEF IInv
<1> QED
  BY <1>3, <1>4, <1>5 DEF Open

-----------------------------------------------------------------------------
\* Licences

LEMMA MetFits ==
    ASSUME ByPath(eulas, Licence), NEW p \in Paths, NEW show \in Shows
    PROVE  /\ ByPath(Met(p, show), Licence)
           /\ DOMAIN Met(p, show) = DOMAIN eulas \cup {p}
           /\ \A q \in DOMAIN eulas : Met(p, show)[q] = eulas[q]
           /\ p \notin DOMAIN eulas => Met(p, show)[p].once = FALSE /\ Met(p, show)[p].session = FALSE
<1>1. CASE p \in DOMAIN eulas
  BY <1>1 DEF Met
<1>2. CASE p \notin DOMAIN eulas
  <2> DEFINE new == [policy |-> show, once |-> FALSE, session |-> FALSE]
  <2>1. new \in Licence /\ new.once = FALSE /\ new.session = FALSE
    BY DEF Licence
  <2> HIDE DEF new
  <2>2. Met(p, show) = [q \in DOMAIN eulas \cup {p} |-> IF q = p THEN new ELSE eulas[q]]
    BY <1>2 DEF Met, new
  <2>3. /\ DOMAIN Met(p, show) = DOMAIN eulas \cup {p} /\ Met(p, show)[p] = new
        /\ \A q \in DOMAIN eulas : Met(p, show)[q] = eulas[q]
    BY <1>2, <2>2
  <2> QED
    BY <2>1, <2>3 DEF ByPath
<1> QED
  BY <1>1, <1>2

LEMMA AcceptedFits ==
    ASSUME NEW es, ByPath(es, Licence), NEW p \in DOMAIN es
    PROVE  /\ ByPath(Accepted(es, p), Licence)
           /\ DOMAIN Accepted(es, p) = DOMAIN es
           /\ Accepted(es, p)[p].policy = es[p].policy /\ Accepted(es, p)[p].once = TRUE
           /\ \A q \in DOMAIN es : q # p => Accepted(es, p)[q] = es[q]
<1>1. es[p] \in Licence
  BY DEF ByPath
<1> DEFINE new == [policy |-> es[p].policy, once |-> TRUE, session |-> TRUE]
<1>2. new \in Licence /\ new.policy = es[p].policy /\ new.once = TRUE
  BY <1>1 DEF Licence
<1>4. Accepted(es, p) = [es EXCEPT ![p] = new]
  BY DEF Accepted
<1> HIDE DEF new
<1>5. /\ DOMAIN Accepted(es, p) = DOMAIN es /\ Accepted(es, p)[p] = new
      /\ \A q \in DOMAIN es : q # p => Accepted(es, p)[q] = es[q]
  BY <1>4
<1> QED
  BY <1>2, <1>5 DEF ByPath

\* A licence that is met, and perhaps accepted, and the call goes on.
LEMMA LicenceStep ==
    ASSUME IInv, UNCHANGED <<disk, core, info, saved, rejected, done, infoShown, told, changed, seen>>,
           passed' = Nobody, Grows, ByPath(eulas', Licence),
           agreed' \subseteq Texts \cup {NoText}, ever' \subseteq Paths,
           Kept', InSession', StackOK', Stacked', \A d : Idle(d)' => Idle(d)
    PROVE  IInv'
<1> USE DEF saved
<1>1. Typed /\ List /\ Processed /\ SetsTold
  BY Split DEF IInv
<1>2. Typed'
  BY <1>1, OfNobody DEF Typed
<1>3. Processed'
  BY <1>1, ProcessedStays
<1>4. told' \subseteq seen' /\ List'
  BY <1>1 DEF SetsTold, List
<1> QED
  BY <1>2, <1>3, <1>4, NobodyPassed, Split DEF IInv

\* The call on top, and the block it is at.
LEMMA OfCall ==
    ASSUME IInv, Top \in Call, Progress(Top)
    PROVE  /\ Top.dir \in Dirs /\ Top.full \in BOOLEAN /\ Top.i \in Nat \ {0} /\ Top.file \in Names \cup {NoName}
           /\ disk[Top.dir] # Gone /\ Len(ReadBlocks(disk[Top.dir])) \in Nat
           /\ Blocks(Top.dir) = ReadBlocks(disk[Top.dir])
           /\ \A at \in {"next", "ask"}, i \in Nat, file \in Names \cup {NoName} :
                 Goes(at, i, file) \in Call /\ Goes(at, i, file).dir = Top.dir
                 /\ Goes(at, i, file).at = at /\ Goes(at, i, file).i = i /\ Goes(at, i, file).file = file
<1>1. Top.dir \in Dirs /\ Top.full \in BOOLEAN /\ Top.i \in Nat /\ Top.file \in Names \cup {NoName}
  BY DEF Call
<1>2. disk[Top.dir] # Gone
  BY DEF Progress
<1>3. Len(ReadBlocks(disk[Top.dir])) \in Nat /\ Blocks(Top.dir) = ReadBlocks(disk[Top.dir])
  BY <1>1, <1>2, EditionAt DEF IInv
<1>4. Top.i # 0
  BY <1>3 DEF Progress
<1> QED
  BY <1>1, <1>2, <1>3, <1>4 DEF Goes, Call

\* A call whose licence is settled goes on to the next block.
LEMMA Settled ==
    ASSUME IInv, NEW t \in Call, t = Top, Progress(t), t.i <= Len(ReadBlocks(disk[t.dir])),
           Grows, disk' = disk, changed' = changed,
           NEW file \in Names \cup {NoName}, t.dir \notin changed => Good(t.dir, t.i)',
           NEW c, c = Goes("next", t.i + 1, file)
    PROVE  c \in Call /\ c.dir = t.dir /\ Progress(c)'
<1>1. t.dir \in Dirs /\ t.i \in Nat \ {0} /\ disk[t.dir] # Gone /\ Len(ReadBlocks(disk[t.dir])) \in Nat
  BY OfCall
<1>2. c \in Call /\ c.dir = t.dir /\ c.at = "next" /\ c.i = t.i + 1
  <2>1. t.i + 1 \in Nat
    BY <1>1
  <2> QED
    BY <2>1, OfCall
<1>3. t.dir \notin changed => \A j \in 1..(c.i - 1) : Good(c.dir, j)'
  <2>1. t.dir \notin changed => \A j \in 1..(t.i - 1) : Good(t.dir, j)'
    BY GoodStays DEF Progress
  <2>2. \A j \in 1..(c.i - 1) : j \in 1..(t.i - 1) \/ j = t.i
    BY <1>1, <1>2
  <2> QED
    BY <1>2, <2>1, <2>2
<1>4. c.i \in 1..(Len(ReadBlocks(disk[t.dir])) + 1) /\ c.i # 1
  BY <1>1, <1>2
<1>5. t.dir \in done'
  BY DEF Progress, Grows
<1> QED
  BY <1>1, <1>2, <1>3, <1>4, <1>5 DEF Progress

\* What a block's licence is, and what becomes of the array when it is met.
LEMMA OfBlock ==
    ASSUME IInv, NEW t \in Call, t = Top, Progress(t), t.at = "next", t.i <= Len(ReadBlocks(disk[t.dir])),
           NEW b, b = ReadBlocks(disk[t.dir])[t.i], NEW file, file = FileOf(b, t.file)
    PROVE  /\ file \in Names \cup {NoName} /\ <<t.dir, file>> \in Paths /\ b.show \in Shows
           /\ Counts(t.dir, t.i) => file = Named(b)
           /\ b = Blocks(t.dir)[t.i]
<1>1. /\ t.dir \in Dirs /\ t.i \in Nat \ {0} /\ t.file \in Names \cup {NoName} /\ disk[t.dir] # Gone
      /\ Len(ReadBlocks(disk[t.dir])) \in Nat /\ Blocks(t.dir) = ReadBlocks(disk[t.dir])
  BY OfCall
<1>2. b \in Block
  <2>1. t.i \in 1..Len(ReadBlocks(disk[t.dir]))
    BY <1>1
  <2> QED
    BY <1>1, <2>1, EditionAt DEF IInv
<1>3. file \in Names \cup {NoName} /\ b.show \in Shows
  BY <1>1, <1>2 DEF FileOf, Block
<1>4. Counts(t.dir, t.i) => file = Named(b)
  BY <1>1 DEF Counts, Named, FileOf, Progress
<1> QED
  BY <1>1, <1>3, <1>4 DEF Paths

LEMMA KeptMet ==
    ASSUME Kept, InSession, NEW p, ever' = ever, UNCHANGED <<conf, confFile, done, changed, agreed, disk>>,
           DOMAIN eulas' = DOMAIN eulas \cup {p}, \A q \in DOMAIN eulas : eulas'[q] = eulas[q],
           p \notin DOMAIN eulas => eulas'[p].once = FALSE /\ eulas'[p].session = FALSE
    PROVE  Kept' /\ InSession' /\ Grows
<1>1. Kept'
  BY DEF Kept, Recorded
<1>2. InSession'
  BY DEF InSession, Text
<1>3. Grows
  BY DEF Grows
<1> QED
  BY <1>1, <1>2, <1>3

LEMMA KeptAccepted ==
    ASSUME Kept, InSession, NEW p, ever' = ever \cup {p}, UNCHANGED <<conf, confFile, done, changed, disk>>,
           p[1] \in done, agreed \subseteq agreed', Text(p) \in agreed',
           DOMAIN eulas' = DOMAIN eulas \cup {p},
           \A q \in DOMAIN eulas : q # p => eulas'[q] = eulas[q],
           p \in DOMAIN eulas => eulas'[p].policy = eulas[p].policy,
           eulas'[p].once = TRUE
    PROVE  Kept' /\ InSession' /\ Grows
<1>1. Kept'
  BY DEF Kept, Recorded
<1>2. InSession'
  <2> SUFFICES ASSUME NEW q \in DOMAIN eulas', eulas'[q].session
               PROVE  q[1] \in done /\ (q[1] \notin changed => Text(q) \in agreed')
    BY DEF InSession, Text
  <2>1. CASE q = p
    BY <2>1
  <2>2. CASE q # p
    BY <2>2 DEF InSession
  <2> QED
    BY <2>1, <2>2
<1>3. Grows
  BY DEF Grows
<1> QED
  BY <1>1, <1>2, <1>3

LEMMA NextBlockStep == ASSUME IInv, NextBlock PROVE IInv'
<1> USE DEF saved
<1>1. PICK t : t = Top
  OBVIOUS
<1>2. /\ stack # <<>> /\ t.at = "next" /\ t \in Call /\ Progress(t)
      /\ StackOK /\ Stacked /\ Typed /\ Kept /\ InSession
  BY <1>1, OfRuns DEF NextBlock, IInv
<1>3. t.i <= Len(ReadBlocks(disk[t.dir]))
  BY <1>1 DEF NextBlock
<1>4. PICK b, file, p : b = ReadBlocks(disk[t.dir])[t.i] /\ file = FileOf(b, t.file) /\ p = <<t.dir, file>>
  OBVIOUS
<1>5. /\ file \in Names \cup {NoName} /\ p \in Paths /\ b.show \in Shows
      /\ Counts(t.dir, t.i) => file = Named(b)
      /\ b = Blocks(t.dir)[t.i]
  BY <1>1, <1>2, <1>3, <1>4, OfBlock
<1>6. PICK es : es = Met(p, b.show)
  OBVIOUS
<1>7. /\ ByPath(es, Licence) /\ DOMAIN es = DOMAIN eulas \cup {p}
      /\ \A q \in DOMAIN eulas : es[q] = eulas[q]
      /\ p \notin DOMAIN eulas => es[p].once = FALSE /\ es[p].session = FALSE
  BY <1>2, <1>5, <1>6, MetFits DEF Typed
<1>8. PICK on, ask : on = Goes("next", t.i + 1, file) /\ ask = Goes("ask", t.i, file)
  OBVIOUS
<1>9. /\ UNCHANGED <<disk, core, info, conf, confFile, agreed, rejected, done, infoShown, told, changed, seen>>
      /\ passed' = Nobody
      /\ \/ ~Required(es[p]) /\ eulas' = es /\ stack' = <<on>> \o Tail(stack) /\ ever' = ever
         \/ /\ Required(es[p]) /\ Text(p) \in agreed
            /\ eulas' = Accepted(es, p) /\ stack' = <<on>> \o Tail(stack) /\ ever' = ever \cup {p}
         \/ /\ Required(es[p]) /\ Text(p) \notin agreed
            /\ eulas' = es /\ ever' = ever /\ stack' = <<ask>> \o Tail(stack)
  BY <1>1, <1>4, <1>6, <1>8 DEF NextBlock
<1>10. /\ t.dir \in Dirs /\ t.i \in Nat \ {0} /\ disk[t.dir] # Gone /\ Len(ReadBlocks(disk[t.dir])) \in Nat
       /\ ask \in Call /\ ask.dir = t.dir /\ ask.at = "ask" /\ ask.i = t.i /\ ask.file = file
  BY <1>1, <1>2, <1>5, <1>8, OfCall
<1>11. Good(t.dir, t.i)' <=> (Counts(t.dir, t.i) => Agreed(<<t.dir, Named(b)>>)')
  BY <1>5, <1>9 DEF Good, Counts, Blocks
\* The licence is settled, or asked for.
<1>12. ASSUME Grows, ByPath(eulas', Licence), ever' \subseteq Paths, Kept', InSession',
              \/ stack' = <<on>> \o Tail(stack) /\ (t.dir \notin changed => Good(t.dir, t.i)')
              \/ stack' = <<ask>> \o Tail(stack) /\ p \in DOMAIN eulas'
       PROVE  IInv'
  <2>1. CASE stack' = <<on>> \o Tail(stack) /\ (t.dir \notin changed => Good(t.dir, t.i)')
    <3>1. on \in Call /\ on.dir = t.dir /\ Progress(on)'
      BY <1>1, <1>2, <1>3, <1>5, <1>8, <1>9, <1>12, <2>1, Settled
    <3>2. StackOK' /\ Stacked' /\ \A d : Idle(d)' => Idle(d)
      BY <1>1, <1>2, <1>9, <1>12, <2>1, <3>1, Kinds, ReplacedStack
    <3> QED
      BY <1>2, <1>9, <1>12, <3>2, LicenceStep DEF Typed
  <2>2. CASE stack' = <<ask>> \o Tail(stack) /\ p \in DOMAIN eulas'
    <3>1. Progress(ask)'
      <4>1. t.dir \notin changed => \A j \in 1..(t.i - 1) : Good(t.dir, j)'
        BY <1>2, <1>9, <1>12, GoodStays DEF Progress
      <4>2. Counts(t.dir, t.i)' <=> Counts(t.dir, t.i)
        BY <1>9 DEF Counts, Blocks
      <4>3. t.i \in 1..(Len(ReadBlocks(disk[t.dir])) + 1)
        BY <1>2 DEF Progress
      <4>4. t.dir \in done
        BY <1>2 DEF Progress
      <4> QED
        BY <1>3, <1>4, <1>5, <1>9, <1>10, <2>2, <4>1, <4>2, <4>3, <4>4 DEF Progress
    <3>2. StackOK' /\ Stacked' /\ \A d : Idle(d)' => Idle(d)
      BY <1>1, <1>2, <1>9, <1>10, <1>12, <2>2, <3>1, Kinds, ReplacedStack
    <3> QED
      BY <1>2, <1>9, <1>12, <3>2, LicenceStep DEF Typed
  <2> QED
    BY <1>12, <2>1, <2>2
<1>13. CASE ~Required(es[p]) /\ eulas' = es /\ stack' = <<on>> \o Tail(stack) /\ ever' = ever
  <2>1. Kept' /\ InSession' /\ Grows
    BY <1>2, <1>7, <1>9, <1>13, KeptMet
  <2>2. t.dir \notin changed => Agreed(p)'
    <3> SUFFICES ASSUME t.dir \notin changed PROVE Text(p) \in agreed \/ es[p].policy = "never" \/ (es[p].policy = "once" /\ p \in ever)
      BY <1>7, <1>9, <1>13 DEF Agreed, Text
    <3>1. es[p].policy \in Shows /\ es[p].once \in BOOLEAN /\ es[p].session \in BOOLEAN
      BY <1>7 DEF ByPath, Licence
    <3>2. CASE es[p].policy = "once"
      <4>1. es[p].once
        BY <1>13, <3>1, <3>2 DEF Required
      <4> QED
        BY <1>2, <1>7, <3>2, <4>1 DEF Kept
    <3>3. CASE es[p].policy = "always"
      <4>1. es[p].session
        BY <1>13, <3>1, <3>3 DEF Required
      <4>2. p[1] = t.dir
        BY <1>4
      <4> QED
        BY <1>2, <1>7, <4>1, <4>2 DEF InSession
    <3> QED
      BY <3>1, <3>2, <3>3 DEF Shows
  <2>3. t.dir \notin changed => Good(t.dir, t.i)'
    BY <1>4, <1>5, <1>11, <2>2
  <2> QED
    BY <1>2, <1>7, <1>12, <1>13, <2>1, <2>3 DEF Typed
<1>14. CASE /\ Required(es[p]) /\ Text(p) \in agreed
            /\ eulas' = Accepted(es, p) /\ stack' = <<on>> \o Tail(stack) /\ ever' = ever \cup {p}
  <2>1. /\ ByPath(eulas', Licence) /\ DOMAIN eulas' = DOMAIN es
        /\ eulas'[p].policy = es[p].policy /\ eulas'[p].once = TRUE
        /\ \A q \in DOMAIN es : q # p => eulas'[q] = es[q]
    BY <1>7, <1>14, AcceptedFits
  <2>2. p[1] \in done
    BY <1>2, <1>4 DEF Progress
  <2>3. Kept' /\ InSession' /\ Grows
    BY <1>2, <1>7, <1>9, <1>14, <2>1, <2>2, KeptAccepted
  <2>4. Agreed(p)'
    BY <1>9, <1>14 DEF Agreed, Text
  <2>5. Good(t.dir, t.i)'
    BY <1>4, <1>5, <1>11, <2>4
  <2>6. ever' \subseteq Paths
    BY <1>2, <1>5, <1>14 DEF Typed
  <2> QED
    BY <1>12, <1>14, <2>1, <2>3, <2>5, <2>6
<1>15. CASE /\ Required(es[p]) /\ Text(p) \notin agreed
            /\ eulas' = es /\ ever' = ever /\ stack' = <<ask>> \o Tail(stack)
  <2>1. Kept' /\ InSession' /\ Grows
    BY <1>2, <1>7, <1>9, <1>15, KeptMet
  <2> QED
    BY <1>2, <1>7, <1>12, <1>15, <2>1 DEF Typed
<1> QED
  BY <1>9, <1>13, <1>14, <1>15

LEMMA AcceptStep == ASSUME IInv, Accept PROVE IInv'
<1> USE DEF saved
<1>1. PICK t : t = Top
  OBVIOUS
<1>2. /\ stack # <<>> /\ t.at = "ask" /\ t \in Call /\ Progress(t)
      /\ StackOK /\ Stacked /\ Typed /\ Kept /\ InSession
  BY <1>1, OfRuns DEF Accept, IInv
<1>3. PICK p, on : p = <<t.dir, t.file>> /\ on = Goes("next", t.i + 1, t.file)
  OBVIOUS
<1>4. /\ UNCHANGED <<disk, core, info, conf, confFile, rejected, done, infoShown, told, changed, seen>>
      /\ passed' = Nobody /\ agreed' = agreed \cup {Text(p)} /\ ever' = ever \cup {p}
      /\ eulas' = Accepted(eulas, p) /\ stack' = <<on>> \o Tail(stack)
  BY <1>1, <1>3 DEF Accept, TopPath
<1>5. /\ p \in DOMAIN eulas /\ p[1] \in done /\ t.i <= Len(ReadBlocks(disk[t.dir]))
      /\ Counts(t.dir, t.i) => t.file = Named(ReadBlocks(disk[t.dir])[t.i])
      /\ t.dir \in Dirs /\ t.file \in Names \cup {NoName} /\ p \in Paths
      /\ Blocks(t.dir) = ReadBlocks(disk[t.dir])
  BY <1>1, <1>2, <1>3, OfCall DEF Progress, Paths
<1>6. /\ ByPath(eulas', Licence) /\ DOMAIN eulas' = DOMAIN eulas
      /\ eulas'[p].policy = eulas[p].policy /\ eulas'[p].once = TRUE
      /\ \A q \in DOMAIN eulas : q # p => eulas'[q] = eulas[q]
  <2>1. ByPath(eulas, Licence)
    BY <1>2 DEF Typed
  <2>2. /\ ByPath(Accepted(eulas, p), Licence) /\ DOMAIN Accepted(eulas, p) = DOMAIN eulas
        /\ Accepted(eulas, p)[p].policy = eulas[p].policy /\ Accepted(eulas, p)[p].once = TRUE
        /\ \A q \in DOMAIN eulas : q # p => Accepted(eulas, p)[q] = eulas[q]
    BY <1>5, <2>1, AcceptedFits
  <2> QED
    BY <1>4, <2>2
<1>7. Kept' /\ InSession' /\ Grows
  BY <1>2, <1>4, <1>5, <1>6, KeptAccepted
<1>8. Good(t.dir, t.i)'
  <2>1. Agreed(p)'
    BY <1>4 DEF Agreed, Text
  <2>2. Good(t.dir, t.i)' <=> (Counts(t.dir, t.i) => Agreed(<<t.dir, Named(ReadBlocks(disk[t.dir])[t.i])>>)')
    BY <1>4, <1>5 DEF Good, Counts, Blocks
  <2>3. ASSUME NEW q, q = <<t.dir, Named(ReadBlocks(disk[t.dir])[t.i])>>, Counts(t.dir, t.i)
        PROVE  q = p
    BY <1>3, <1>5, <2>3
  <2> QED
    BY <1>4, <2>1, <2>2, <2>3
<1>9. on \in Call /\ on.dir = t.dir /\ Progress(on)'
  BY <1>1, <1>2, <1>3, <1>4, <1>5, <1>7, <1>8, Settled
<1>10. StackOK' /\ Stacked' /\ \A d : Idle(d)' => Idle(d)
  BY <1>1, <1>2, <1>4, <1>7, <1>9, Kinds, ReplacedStack
<1>11. agreed' \subseteq Texts \cup {NoText} /\ ever' \subseteq Paths
  BY <1>2, <1>4, <1>5, OfText DEF Typed, IInv
<1> QED
  BY <1>4, <1>6, <1>7, <1>10, <1>11, LicenceStep

LEMMA RejectStep == ASSUME IInv, Reject PROVE IInv'
<1> USE DEF saved, ghosts
<1>1. stack # <<>> /\ StackOK /\ Stacked /\ Typed /\ Kept /\ InSession /\ List /\ SetsTold
  BY OfRuns DEF Reject, IInv
<1>2. /\ UNCHANGED <<disk, core, eulas, info, conf, confFile, agreed, done, infoShown, told, ever, changed, seen>>
      /\ rejected' = TRUE /\ stack' = Tail(stack) /\ passed' = Nobody
  BY DEF Reject
<1>3. Grows
  BY <1>2 DEF Grows
<1>4. Typed'
  BY <1>1, <1>2, OfNobody DEF Typed
<1>5. StackOK' /\ Stacked'
  BY <1>1, <1>2, <1>3, PoppedStack
<1>6. Kept' /\ InSession' /\ List'
  BY <1>1, <1>2, InSessionStays DEF Kept, Recorded, List
<1>7. Processed'
  BY <1>2 DEF Processed
<1>8. told' \subseteq seen'
  BY <1>1, <1>2 DEF SetsTold
<1> QED
  BY <1>2, <1>4, <1>5, <1>6, <1>7, <1>8, NobodyPassed, Split DEF IInv

LEMMA EndStep == ASSUME IInv, EndOfChartinfo PROVE IInv'
<1> USE DEF saved
<1>1. PICK t : t = Top
  OBVIOUS
<1>2. /\ stack # <<>> /\ t \in Call /\ Progress(t)
      /\ StackOK /\ Stacked /\ Typed /\ Kept /\ InSession /\ List /\ Processed /\ SetsTold
  BY <1>1, OfRuns DEF EndOfChartinfo, IInv
<1>3. PICK new : new = (ReadLine(disk[t.dir]) /\ t.dir \notin info)
  OBVIOUS
<1>4. /\ UNCHANGED <<disk, core, eulas, conf, confFile, agreed, rejected, done, ever, changed>>
      /\ info' = (IF new THEN info \cup {t.dir} ELSE info) /\ stack' = Tail(stack)
      /\ LetThrough(t.dir, t.full, info', ShownAgain(new))
      /\ t.i > Len(ReadBlocks(disk[t.dir]))
  BY <1>1, <1>3 DEF EndOfChartinfo
<1>5. t.dir \in Dirs /\ t.full \in BOOLEAN /\ disk[t.dir] # Gone /\ Len(ReadBlocks(disk[t.dir])) \in Nat
  BY <1>1, <1>2, OfCall
<1>6. Grows
  BY <1>4 DEF Grows
<1>7. info \subseteq info' /\ info' \subseteq info \cup {t.dir} /\ (ReadLine(disk[t.dir]) => t.dir \in info')
  BY <1>3, <1>4
<1>8. t.dir \notin changed => Complete(t.dir)'
  <2> SUFFICES ASSUME t.dir \notin changed PROVE Complete(t.dir)'
    OBVIOUS
  <2>1. t.i = Len(ReadBlocks(disk[t.dir])) + 1
    BY <1>2, <1>4, <1>5 DEF Progress
  <2>2. \A i \in 1..Len(ReadBlocks(disk[t.dir])) : Good(t.dir, i)
    BY <1>2, <1>5, <2>1 DEF Progress
  <2>3. \A i \in 1..Len(ReadBlocks(disk[t.dir])) : Good(t.dir, i)'
    BY <1>4, <1>6, <2>2, GoodStays
  <2> QED
    BY <1>4, <1>5, <1>7, <2>3 DEF Complete
<1>9. /\ OpenedIsAccepted' /\ SetsTold' /\ List'
      /\ told' \subseteq info' /\ seen' \subseteq Dirs /\ infoShown' \in BOOLEAN
      /\ passed' \in [dir : Dirs \cup {NoDir}, full : BOOLEAN]
  <2>1. ShownAgain(new) \in BOOLEAN /\ (ShownAgain(new) => infoShown /\ info' = info)
    BY <1>2, <1>3, <1>4 DEF ShownAgain, Typed
  <2> QED
    BY <1>2, <1>4, <1>5, <1>6, <1>7, <1>8, <2>1, PassedFits
<1>10. Typed'
  BY <1>2, <1>4, <1>5, <1>7, <1>9 DEF Typed
<1>11. StackOK' /\ Stacked' /\ \A d : d # t.dir /\ Idle(d)' => Idle(d)
  BY <1>1, <1>2, <1>4, <1>6, PoppedStack
<1>12. Kept' /\ InSession'
  BY <1>2, <1>4, InSessionStays DEF Kept, Recorded
<1>13. Processed'
  <2>1. \A d \in done' \ changed : Idle(d)' => (d \in done /\ Idle(d)) \/ Complete(d)'
    <3> TAKE d \in done' \ changed
    <3>1. CASE d = t.dir
      BY <1>8, <3>1
    <3>2. CASE d # t.dir
      BY <1>4, <1>11, <3>2
    <3> QED
      BY <3>1, <3>2
  <2> QED
    BY <1>2, <1>4, <1>6, <1>7, <2>1, ProcessedStays
<1> QED
  BY <1>9, <1>10, <1>11, <1>12, <1>13, Split DEF IInv

-----------------------------------------------------------------------------
\* The directories, while no call is under way

LEMMA DirectoryStep ==
    ASSUME IInv, stack = <<>>, NEW d \in Dirs, NEW e \in Editions[d] \cup {Gone},
           UNCHANGED <<eulas, info, saved, agreed, rejected, done, infoShown, stack, told, ever, seen>>,
           core' \subseteq Dirs, passed' = Nobody,
           disk' = [disk EXCEPT ![d] = e],
           changed' = IF d \in done THEN changed \cup {d} ELSE changed
    PROVE  IInv'
<1> USE DEF saved
<1>1. Typed /\ Kept /\ InSession /\ List /\ Processed /\ SetsTold
  BY Split DEF IInv
<1>2. /\ disk' \in [Dirs -> (UNION {Editions[x] : x \in Dirs}) \cup {Gone}]
      /\ disk'[d] = e /\ \A x \in Dirs : x # d => disk'[x] = disk[x]
  <2>1. disk \in [Dirs -> (UNION {Editions[x] : x \in Dirs}) \cup {Gone}]
    BY <1>1 DEF Typed
  <2>2. e \in (UNION {Editions[x] : x \in Dirs}) \cup {Gone}
    OBVIOUS
  <2> QED
    BY <2>1, <2>2
<1>3. Typed'
  <2>1. \A x \in Dirs : disk'[x] \in Editions[x] \cup {Gone}
    BY <1>1, <1>2 DEF Typed
  <2>2. changed' \subseteq Dirs
    BY <1>1 DEF Typed
  <2> QED
    BY <1>1, <1>2, <2>1, <2>2, OfNobody DEF Typed
<1>4. StackOK' /\ Stacked' /\ \A x : Idle(x) /\ Idle(x)'
  <2>1. stack' = <<>>
    OBVIOUS
  <2>2. 1..Len(stack) = {}
    OBVIOUS
  <2> QED
    BY <2>1, <2>2, EmptyStack DEF Idle
<1>5. Kept' /\ List'
  BY <1>1 DEF Kept, Recorded, List
<1>6. \A x \in done \ changed' : x \in Dirs /\ x \notin changed /\ x # d
  BY <1>1 DEF Typed
<1>7. InSession'
  <2> SUFFICES ASSUME NEW p \in DOMAIN eulas, eulas[p].session
               PROVE  p[1] \in done /\ (p[1] \notin changed' => Text(p)' \in agreed)
    BY DEF InSession
  <2>1. p[1] \in done /\ (p[1] \notin changed => Text(p) \in agreed)
    BY <1>1 DEF InSession
  <2>2. p[1] \notin changed' => Text(p)' = Text(p)
    BY <1>2, <1>6, <2>1 DEF Text
  <2> QED
    BY <1>6, <2>1, <2>2
<1>8. Grows
  BY DEF Grows
<1>9. Processed'
  <2> SUFFICES ASSUME ~rejected, NEW x \in done \ changed' PROVE Complete(x)'
    BY DEF Processed
  <2>1. x \in Dirs /\ disk'[x] = disk[x] /\ Complete(x)
    BY <1>1, <1>2, <1>4, <1>6 DEF Processed
  <2>2. \A i \in 1..Len(ReadBlocks(disk[x])) : Good(x, i)'
    BY <1>8, <2>1, GoodStays DEF Complete
  <2> QED
    BY <2>1, <2>2 DEF Complete
<1>10. told' \subseteq seen'
  BY <1>1 DEF SetsTold
<1> QED
  BY <1>3, <1>4, <1>5, <1>7, <1>9, <1>10, NobodyPassed, Split DEF IInv

LEMMA InstallStep == ASSUME IInv, NEW d \in Dirs, NEW e \in Editions[d], Install(d, e) PROVE IInv'
<1>1. core' \subseteq Dirs
  BY DEF Install, IInv, TypeOK
<1> QED
  BY <1>1, DirectoryStep DEF Install, Free

LEMMA RemoveStep == ASSUME IInv, NEW d \in Dirs, Remove(d) PROVE IInv'
<1>1. core' \subseteq Dirs
  BY DEF Remove, IInv, TypeOK
<1> QED
  BY <1>1, DirectoryStep DEF Remove, Free

-----------------------------------------------------------------------------
\* The invariant

LEMMA InitIInv == Init => IInv
<1> SUFFICES ASSUME Init PROVE IInv
  OBVIOUS
<1>1. stack = <<>> /\ 1..Len(stack) = {}
  BY DEF Init
<1>2. /\ LoadedEulas(NoLicence) = [p \in {} |-> [policy |-> "never", once |-> FALSE, session |-> FALSE]]
      /\ DOMAIN LoadedEulas(NoLicence) = {} /\ DOMAIN NoLicence = {}
  BY DEF LoadedEulas, NoLicence
<1>3. Typed
  <2>1. disk \in [Dirs -> (UNION {Editions[x] : x \in Dirs}) \cup {Gone}] /\ \A d \in Dirs : disk[d] \in Editions[d]
    BY DEF Init
  <2>2. ByPath(eulas, Licence) /\ ByPath(conf.eulas, Entry) /\ ByPath(confFile.eulas, Entry)
    BY <1>2 DEF Init, ByPath
  <2> QED
    BY <2>1, <2>2, OfNobody DEF Init, Typed
<1>4. StackOK /\ Stacked
  <2>1. stack \in Seq(Call \cup Loading)
    BY <1>1
  <2> QED
    BY <1>1, <2>1 DEF StackOK, Stacked
<1>5. Kept /\ InSession
  BY <1>2 DEF Init, Kept, InSession, Recorded
<1>6. List /\ Processed
  BY DEF Init, List, Processed
<1>7. OpenedIsAccepted /\ SetsTold
  BY DEF Init, Nobody, OpenedIsAccepted, SetsTold
<1> QED
  BY <1>3, <1>4, <1>5, <1>6, <1>7, Split DEF IInv

LEMMA NextIInv == ASSUME IInv, [Next]_vars PROVE IInv'
<1>1. CASE \E d \in Dirs, full \in BOOLEAN : Open(d, full)
  BY <1>1, OpenStep
<1>2. CASE NextBlock \/ Accept \/ Reject \/ EndOfChartinfo
  BY <1>2, NextBlockStep, AcceptStep, RejectStep, EndStep
<1>3. CASE SaveConfig \/ Flush
  BY <1>3, SaveConfigStep, FlushStep
<1>4. CASE LoadNext \/ LoadAccept \/ LoadReject
  BY <1>4, LoadNextStep, LoadAcceptStep, LoadRejectStep
<1>5. CASE Quit \/ Crash
  BY <1>5, QuitStep, CrashStep
<1>6. CASE \E d \in Dirs : Remove(d) \/ Unlist(d) \/ \E e \in Editions[d] : Install(d, e)
  BY <1>6, RemoveStep, UnlistStep, InstallStep
<1>7. CASE UNCHANGED vars
  BY <1>7, StutterStep
<1> QED
  BY <1>1, <1>2, <1>3, <1>4, <1>5, <1>6, <1>7 DEF Next

LEMMA SpecIInv == Spec => []IInv
<1>1. IInv /\ [Next]_vars => IInv'
  BY NextIInv
<1> QED
  BY InitIInv, <1>1, PTL DEF Spec

\* The type invariant of the registry, however many dialogs are open within each other.
THEOREM TypeCorrect == Spec => []TypeOK
<1>1. IInv => TypeOK
  BY DEF IInv
<1> QED
  BY SpecIInv, <1>1, PTL

\* A chart is let through only if the licences of its directory have been accepted
\* (processChartinfo, ShowEULA).
THEOREM LicencesAreAccepted == Spec => []OpenedIsAccepted
<1>1. IInv => OpenedIsAccepted
  BY DEF IInv
<1> QED
  BY SpecIInv, <1>1, PTL

\* The user is told of the chart set that is loaded, and of none that was gone before
\* the session (showChartinfoDialog, ScrubChartinfoList).
THEOREM SetsAreTold == Spec => []SetsTold
<1>1. IInv => SetsTold
  BY DEF IInv
<1> QED
  BY SpecIInv, <1>1, PTL

-----------------------------------------------------------------------------
\* Nobody is asked twice

Answered(p) == Text(p) \in agreed \/ (eulas'[p].policy = "once" /\ p \in ever)

LEMMA NotAsking ==
    ASSUME stack' = stack \/ (stack' # <<>> => Head(stack').at \notin {"ask", "loadAsk"})
           \/ Runs("ask") \/ Runs("loadAsk")
    PROVE  ~Asks
BY DEF Asks, Top, Runs

LEMMA NextBlockAsks ==
    ASSUME IInv, NextBlock, Asks
    PROVE  ~Answered(<<Head(stack').dir, Head(stack').file>>)
<1>1. PICK t : t = Top
  OBVIOUS
<1>2. /\ stack # <<>> /\ t.at = "next" /\ t \in Call /\ Progress(t)
      /\ StackOK /\ Typed /\ Kept
  BY <1>1, OfRuns DEF NextBlock, IInv
<1>3. PICK b, file, p : b = ReadBlocks(disk[t.dir])[t.i] /\ file = FileOf(b, t.file) /\ p = <<t.dir, file>>
  OBVIOUS
<1>4. file \in Names \cup {NoName} /\ p \in Paths /\ b.show \in Shows
  <2>1. t.i <= Len(ReadBlocks(disk[t.dir]))
    BY <1>1 DEF NextBlock
  <2> QED
    BY <1>1, <1>2, <1>3, <2>1, OfBlock
<1>5. PICK es : es = Met(p, b.show)
  OBVIOUS
<1>6. /\ DOMAIN es = DOMAIN eulas \cup {p} /\ \A q \in DOMAIN eulas : es[q] = eulas[q]
      /\ p \notin DOMAIN eulas => es[p].once = FALSE
  BY <1>2, <1>4, <1>5, MetFits DEF Typed
<1>7. PICK on, ask : on = Goes("next", t.i + 1, file) /\ ask = Goes("ask", t.i, file)
  OBVIOUS
<1>8. t.i \in Nat /\ t.i + 1 \in Nat
  BY <1>2 DEF Call
<1>9. /\ on \in Call /\ on.at = "next"
      /\ ask \in Call /\ ask.at = "ask" /\ ask.dir = t.dir /\ ask.file = file
  BY <1>1, <1>2, <1>4, <1>7, <1>8, OfCall
<1>10. \/ stack' = <<on>> \o Tail(stack)
       \/ stack' = <<ask>> \o Tail(stack) /\ eulas' = es /\ Required(es[p]) /\ Text(p) \notin agreed
  BY <1>1, <1>3, <1>5, <1>7 DEF NextBlock
<1>11. \A c \in Call : Head(<<c>> \o Tail(stack)) = c
  BY <1>2, Replaced DEF StackOK
<1>12. Head(stack') = ask /\ eulas' = es /\ Required(es[p]) /\ Text(p) \notin agreed
  BY <1>9, <1>10, <1>11 DEF Asks
<1>13. <<Head(stack').dir, Head(stack').file>> = p
  BY <1>3, <1>9, <1>12
<1>14. es[p].policy = "once" => p \notin ever
  BY <1>2, <1>6, <1>12 DEF Required, Kept
<1> QED
  BY <1>12, <1>13, <1>14 DEF Answered

LEMMA LoadNextAsks ==
    ASSUME IInv, LoadNext, Asks
    PROVE  ~Answered(<<Head(stack').dir, Head(stack').file>>)
<1>1. stack # <<>> /\ Top \in Loading /\ Pending(Top) /\ Top.todo \subseteq Paths
  BY OfRuns, LoadingIsIdle DEF LoadNext
<1>2. stack' # <<>> /\ eulas' = eulas
  BY DEF Asks, LoadNext
<1>3. PICK p \in Top.todo :
        stack' = IF Text(p) \in agreed THEN <<Going(Top.todo \ {p})>>
                 ELSE <<[at |-> "loadAsk", dir |-> p[1], file |-> p[2], todo |-> Top.todo \ {p}]>>
  BY <1>2 DEF LoadNext
<1>4. IsAlways(p) /\ p = <<p[1], p[2]>>
  BY <1>1 DEF Pending, Paths
<1>5. CASE Text(p) \in agreed
  BY <1>3, <1>5 DEF Asks, Going
<1>6. CASE Text(p) \notin agreed
  <2>1. Head(stack').dir = p[1] /\ Head(stack').file = p[2]
    BY <1>3, <1>6
  <2> QED
    BY <1>2, <1>4, <1>6, <2>1 DEF Answered, IsAlways
<1> QED
  BY <1>5, <1>6

LEMMA AsksFresh ==
    ASSUME IInv, [Next]_vars, Asks
    PROVE  ~Answered(<<Head(stack').dir, Head(stack').file>>)
<1>1. ASSUME NEW d \in Dirs, NEW full \in BOOLEAN, Open(d, full)
      PROVE  FALSE
  <2>1. CASE stack' = stack
    BY <2>1, NotAsking
  <2>2. CASE stack' = <<[at |-> "next", dir |-> d, full |-> full, i |-> 1, file |-> NoName]>> \o stack
    <3>1. [at |-> "next", dir |-> d, full |-> full, i |-> 1, file |-> NoName] \in Call
      BY DEF Call
    <3>2. Head(stack').at = "next"
      BY <2>2, <3>1, Pushed DEF IInv, TypeOK
    <3> QED
      BY <3>2, NotAsking
  <2> QED
    BY <1>1, <2>1, <2>2 DEF Open
<1>2. CASE NextBlock
  BY <1>2, NextBlockAsks
<1>3. CASE Accept \/ Reject \/ LoadAccept \/ LoadReject
  BY <1>3, NotAsking DEF Accept, Reject, LoadAccept, LoadReject
<1>4. ASSUME EndOfChartinfo
      PROVE  FALSE
  <2>1. stack # <<>> /\ stack' = Tail(stack)
    BY <1>4 DEF EndOfChartinfo, Runs
  <2>2. Len(stack) \in Nat /\ Len(stack') = Len(stack) - 1
    BY <2>1, Popped DEF IInv, TypeOK
  <2> QED
    BY <2>2 DEF Asks
<1>5. CASE SaveConfig \/ Flush \/ UNCHANGED vars
  BY <1>5, NotAsking DEF SaveConfig, Flush, vars
<1>6. CASE LoadNext
  BY <1>6, LoadNextAsks
<1>7. ASSUME Quit \/ Crash
      PROVE  FALSE
  <2>1. PICK f : Start(f)
    BY <1>7 DEF Quit, Crash
  <2>2. Head(stack').at = "load"
    BY <2>1 DEF Start, Going
  <2> QED
    BY <2>2, NotAsking
<1>8. CASE \E d \in Dirs : Remove(d) \/ Unlist(d) \/ \E e \in Editions[d] : Install(d, e)
  BY <1>8, NotAsking DEF Remove, Unlist, Install
<1> QED
  BY <1>1, <1>2, <1>3, <1>4, <1>5, <1>6, <1>7, <1>8 DEF Next

\* The user is asked for no text accepted in this session, nor for a licence to be shown
\* once that was ever accepted and saved (LoadConfig, SaveConfig, ShowEULA).
THEOREM NobodyIsAskedTwice == Spec => AskedOnce
<1>1. IInv /\ [Next]_vars =>
        [Asks => LET p == <<Head(stack').dir, Head(stack').file>>
                 IN  Text(p) \notin agreed /\ (eulas'[p].policy = "once" => p \notin ever)]_vars
  BY AsksFresh DEF Answered
<1> QED
  BY SpecIInv, <1>1, PTL DEF Spec, AskedOnce
=============================================================================
