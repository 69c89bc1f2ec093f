-------------------------- MODULE HelperLaunchProofs --------------------------
(***************************************************************************)
(* Theorems about a helper, whatever its command line, its call, its pipe  *)
(* and its environment: HelperLaunch for every value of its constants.     *)
(* First come the two processes; then oddjob_parse_args, the transfer of   *)
(* the arguments and the helper's reply; and the theorems at the end.      *)
(***************************************************************************)
EXTENDS HelperLaunch, SequenceTheorems, FiniteSetTheorems, WellFoundedInduction, TLAPS

(***************************************************************************)
(* The inductive invariant: where the parent is says where the child is.   *)
(***************************************************************************)
Places == {"absent", "collect", "announce", "stat", "fork", "wait",
           "exec", "applier", "exit", "ended", "crashed"}

Alone   == {"collect", "announce", "stat", "fork"}
Leaving == {"exit", "ended", "crashed"}

Lockstep ==
  /\ pc \in [Processes -> Places]
  /\ pc["parent"] \in Alone \cup Leaving \cup {"wait"}
  /\ pc["parent"] \in Alone => pc["child"] = "absent"
  /\ pc["parent"] = "wait" => pc["child"] \in {"exec", "applier"} \cup Leaving
  /\ pc["parent"] \in Leaving => pc["child"] \in {"absent", "ended", "crashed"}

\* The result of the parent is there once it leaves, and a child that is not
\* there has executed nothing.
Traced ==
  /\ code \in [Processes -> (0 .. 2) \cup {None}]
  /\ pc["parent"] \notin Leaving => code["parent"] = None
  /\ code["parent"] = InvalidInvocation => pc["child"] = "absent"
  /\ pc["child"] = "absent" => ran = None

Inv == Lockstep /\ Traced

LEMMA InitInv == LaunchInit => Inv
  BY DEF LaunchInit, Inv, Lockstep, Traced, Processes, Places, Alone, Leaving,
         InvalidInvocation

(***************************************************************************)
(* The steps of the parent and of the child, one by one.                   *)
(***************************************************************************)
LEMMA ParentStep ==
  ASSUME Inv, Parent
  PROVE  Inv'
<1> USE HelperAssumption
    DEF Inv, Lockstep, Traced, Processes, Places, Alone, Leaving, Step, Leave,
        Failure, InvalidInvocation
<1>1. CASE Collect BY <1>1 DEF Collect
<1>2. CASE Announce BY <1>2 DEF Announce
<1>3. CASE Stat BY <1>3 DEF Stat
<1>4. CASE ForkFails BY <1>4 DEF ForkFails, Result
<1>5. CASE Fork BY <1>5 DEF Fork
<1>6. CASE Wait BY <1>6 DEF Wait, Result
<1>7. CASE Exit("parent") BY <1>7 DEF Exit
<1>8. CASE FreeOverrun BY <1>8 DEF FreeOverrun
<1>. QED BY <1>1, <1>2, <1>3, <1>4, <1>5, <1>6, <1>7, <1>8 DEF Parent

LEMMA ChildStep ==
  ASSUME Inv, Child
  PROVE  Inv'
<1> USE HelperAssumption
    DEF Inv, Lockstep, Traced, Processes, Places, Alone, Leaving, Step, Leave,
        Failure, InvalidInvocation
<1>1. CASE Exec BY <1>1 DEF Exec
<1>2. CASE ExecFails BY <1>2 DEF ExecFails, Result
<1>3. CASE ApplierEnds BY <1>3 DEF ApplierEnds
<1>4. CASE Exit("child") BY <1>4 DEF Exit
<1>. QED BY <1>1, <1>2, <1>3, <1>4 DEF Child

\* Nothing before the helper runs, and nothing it reads or writes, moves
\* either process.
LEMMA OthersStandStill ==
  ASSUME \/ WriteMeant \/ WriteAtRandom \/ StartOver \/ Launch \/ Writer \/ Reader
         \/ ApplierWrites \/ ApplierReplaced \/ UNCHANGED launchVars
  PROVE  UNCHANGED <<pc, code, ran>>
<1> USE DEF vars
<1>1. CASE WriteMeant \/ WriteAtRandom \/ StartOver
  BY <1>1 DEF WriteMeant, WriteAtRandom, StartOver, Configuring
<1>2. CASE Launch BY <1>2 DEF Launch
<1>3. CASE Writer BY <1>3 DEF Writer, WriteDone, WriteFails, Write
<1>4. CASE Reader BY <1>4 DEF Reader, ReadPart, ReadEnd, EndOfInput
<1>5. CASE ApplierWrites \/ ApplierReplaced \/ UNCHANGED launchVars
  BY <1>5 DEF ApplierWrites, ApplierReplaced, launchVars
<1>. QED BY <1>1, <1>2, <1>3, <1>4, <1>5

\* The invariant holds, whatever the helper is given.
THEOREM Invariance == LaunchSpec => []Inv
<1>1. Inv /\ [LaunchNext]_launchVars => Inv'
  <2> SUFFICES ASSUME Inv, [LaunchNext]_launchVars PROVE Inv' OBVIOUS
  <2>1. CASE Parent BY <2>1, ParentStep
  <2>2. CASE Child BY <2>2, ChildStep
  <2>3. CASE UNCHANGED <<pc, code, ran>>
    BY <2>3 DEF Inv, Lockstep, Traced
  <2>. QED BY <2>1, <2>2, <2>3, OthersStandStill DEF LaunchNext, Helper, Next
<1>. QED BY InitInv, <1>1, PTL DEF LaunchSpec

(***************************************************************************)
(* Recursion over a sequence.                                              *)
(***************************************************************************)
LEMMA UpTo ==
  ASSUME NEW m \in Nat, NEW I, 0 \in I, \A n \in 1 .. m : n - 1 \in I => n \in I
  PROVE  0 .. m \subseteq I
<1>. SUFFICES ASSUME (0 .. m) \ I # {} PROVE FALSE OBVIOUS
<1>1. PICK n \in (0 .. m) \ I : \A k \in (0 .. m) \ I : ~(<<k, n>> \in OpToRel(<, Nat))
  <2>1. (0 .. m) \ I \in SUBSET Nat OBVIOUS
  <2>. QED BY <2>1, NatLessThanWellFounded, WFMin
<1>2. n \in 1 .. m
  <2>1. n \in 0 .. m /\ n # 0 OBVIOUS
  <2>. QED BY <2>1
<1>3. n - 1 \in 0 .. m /\ n - 1 \in Nat /\ n \in Nat /\ n - 1 < n BY <1>2
<1>4. <<n - 1, n>> \in OpToRel(<, Nat) BY <1>3 DEF OpToRel
<1>. QED BY <1>1, <1>2, <1>3, <1>4

FoldsTo(f, base, step, s) ==
  f[0] = base /\ \A n \in 1 .. Len(s) : f[n] = step[<<f[n - 1], s[n]>>]

LEMMA FoldExists ==
  ASSUME NEW S, NEW B, NEW base \in S, NEW step \in [S \X B -> S], NEW s \in Seq(B)
  PROVE  \E f \in [0 .. Len(s) -> S] : FoldsTo(f, base, step, s)
<1> DEFINE F(m, f) == \A n \in 0 .. m : f[n] = IF n = 0 THEN base ELSE step[<<f[n - 1], s[n]>>]
           I == {m \in 0 .. Len(s) : \E f \in [0 .. m -> S] : F(m, f)}
<1>1. Len(s) \in Nat /\ \A n \in 1 .. Len(s) : s[n] \in B OBVIOUS
<1>2. 0 \in I
  <2>1. [n \in 0 .. 0 |-> base] \in [0 .. 0 -> S] /\ F(0, [n \in 0 .. 0 |-> base]) OBVIOUS
  <2>2. 0 \in 0 .. Len(s) BY <1>1
  <2>. HIDE DEF F
  <2>. QED BY <2>1, <2>2
<1>3. ASSUME NEW m \in 1 .. Len(s), m - 1 \in I PROVE m \in I
  <2>1. PICK f \in [0 .. m - 1 -> S] : F(m - 1, f) BY <1>3
  <2> DEFINE g == [n \in 0 .. m |-> IF n = m THEN step[<<f[m - 1], s[m]>>] ELSE f[n]]
  <2>2. f[m - 1] \in S /\ s[m] \in B BY <1>1
  <2>3. step[<<f[m - 1], s[m]>>] \in S BY <2>2
  <2>4. \A n \in 0 .. m : n = m \/ n \in 0 .. m - 1 BY <1>1
  <2>5. g \in [0 .. m -> S] BY <2>3, <2>4
  <2>6. ASSUME NEW n \in 0 .. m
        PROVE  g[n] = IF n = 0 THEN base ELSE step[<<g[n - 1], s[n]>>]
    <3>1. CASE n = m
      <4>1. n # 0 /\ n - 1 \in 0 .. m /\ n - 1 # m BY <3>1
      <4>2. g[n - 1] = f[n - 1] BY <4>1
      <4>. QED BY <3>1, <4>1, <4>2
    <3>2. CASE n # m /\ n # 0
      <4>1. n - 1 \in 0 .. m /\ n - 1 # m /\ n \in 0 .. m - 1 BY <3>2
      <4>2. g[n - 1] = f[n - 1] /\ g[n] = f[n] BY <3>2, <4>1
      <4>. QED BY <2>1, <3>2, <4>1, <4>2
    <3>3. CASE n # m /\ n = 0
      <4>1. n \in 0 .. m - 1 BY <3>3
      <4>2. g[n] = f[n] BY <3>3
      <4>. QED BY <2>1, <3>3, <4>1, <4>2
    <3>. QED BY <3>1, <3>2, <3>3
  <2>. HIDE DEF g
  <2>7. F(m, g) BY <2>6
  <2>. HIDE DEF F
  <2>. QED BY <2>5, <2>7
<1>4. 0 .. Len(s) \subseteq I
  <2>. HIDE DEF I
  <2>. QED BY <1>1, <1>2, <1>3, UpTo
<1>5. Len(s) \in I BY <1>1, <1>4
<1>6. PICK f \in [0 .. Len(s) -> S] : F(Len(s), f) BY <1>5
<1>7. 0 \in 0 .. Len(s) /\ \A n \in 1 .. Len(s) : n # 0 /\ n \in 0 .. Len(s) BY <1>1
<1>8. f[0] = base BY <1>6, <1>7
<1>9. \A n \in 1 .. Len(s) : f[n] = step[<<f[n - 1], s[n]>>] BY <1>6, <1>7
<1>. QED BY <1>8, <1>9 DEF FoldsTo

Extends(u, t, c) ==
  Len(u) = Len(t) + 1 /\ u[Len(t) + 1] = c /\ \A n \in 1 .. Len(t) : u[n] = t[n]

LEMMA FoldsAppend ==
  ASSUME NEW base, NEW step, NEW t, Len(t) \in Nat, NEW c, NEW u, Extends(u, t, c),
         NEW f, NEW g, FoldsTo(f, base, step, t), FoldsTo(g, base, step, u)
  PROVE  g[Len(t) + 1] = step[<<f[Len(t)], c>>]
<1> DEFINE I == {n \in 0 .. Len(t) : g[n] = f[n]}
<1>1. /\ Len(t) \in Nat /\ Len(u) = Len(t) + 1 /\ u[Len(t) + 1] = c
      /\ \A n \in 1 .. Len(t) : u[n] = t[n] /\ n \in 1 .. Len(u) /\ n - 1 \in 0 .. Len(t)
      /\ Len(t) + 1 \in 1 .. Len(u)
  BY DEF Extends
<1>2. g[0] = base /\ \A n \in 1 .. Len(u) : g[n] = step[<<g[n - 1], u[n]>>]
  BY DEF FoldsTo
<1>3. f[0] = base /\ \A n \in 1 .. Len(t) : f[n] = step[<<f[n - 1], t[n]>>]
  BY DEF FoldsTo
<1>4. 0 \in I BY <1>1, <1>2, <1>3
<1>5. ASSUME NEW n \in 1 .. Len(t), n - 1 \in I PROVE n \in I
  <2>1. g[n] = step[<<g[n - 1], u[n]>>] BY <1>1, <1>2
  <2>2. f[n] = step[<<f[n - 1], t[n]>>] BY <1>3
  <2>3. g[n - 1] = f[n - 1] /\ u[n] = t[n] /\ n \in 0 .. Len(t) BY <1>1, <1>5
  <2>. QED BY <2>1, <2>2, <2>3
<1>6. 0 .. Len(t) \subseteq I
  <2>. HIDE DEF I
  <2>. QED BY <1>1, <1>4, <1>5, UpTo
<1>7. g[Len(t)] = f[Len(t)]
  <2>1. Len(t) \in 0 .. Len(t) BY <1>1
  <2>. QED BY <1>6, <2>1
<1>8. g[Len(t) + 1] = step[<<g[Len(t) + 1 - 1], u[Len(t) + 1]>>] BY <1>1, <1>2
<1>9. Len(t) + 1 - 1 = Len(t)
  <2>1. \A n \in Nat : n + 1 - 1 = n OBVIOUS
  <2>. QED BY ONLY <2>1, Len(t) \in Nat
<1>10. u[Len(t) + 1] = c BY <1>1
<1>. QED BY ONLY <1>7, <1>8, <1>9, <1>10, Zenon

(***************************************************************************)
(* oddjob_parse_args, a character at a time.                               *)
(***************************************************************************)
Cells  == Characters \cup {NUL}
States == [buffer : Seq(Cells), single : BOOLEAN, double : BOOLEAN, escape : BOOLEAN]

LEMMA ScanTypes ==
  ASSUME NEW s \in States, NEW c \in Characters
  PROVE  Scan(s, c) \in States
<1>1. /\ Backslash \in Cells /\ Single \in Cells /\ Double \in Cells /\ Blank \in Cells
      /\ NUL \in Cells /\ c \in Cells
  BY DEF Cells, Characters, Special
<1>2. /\ s.buffer \in Seq(Cells) /\ s.single \in BOOLEAN /\ s.double \in BOOLEAN
      /\ s.escape \in BOOLEAN
      /\ s = [buffer |-> s.buffer, single |-> s.single, double |-> s.double,
              escape |-> s.escape]
  BY DEF States
<1>3. \A d \in Cells : Put(s, d) \in States /\ Literal(s, d) \in States
  <2>. SUFFICES ASSUME NEW d \in Cells PROVE Put(s, d) \in States /\ Literal(s, d) \in States
    OBVIOUS
  <2>1. Append(s.buffer, d) \in Seq(Cells) BY <1>2, AppendProperties
  <2>2. Put(s, d) \in States BY <1>2, <2>1 DEF Put, States
  <2>3. Literal(s, d) \in States BY <2>2 DEF Literal, States
  <2>. QED BY <2>2, <2>3
<1>4. /\ \A v \in BOOLEAN : [s EXCEPT !.single = v] \in States
      /\ \A v \in BOOLEAN : [s EXCEPT !.double = v] \in States
      /\ \A v \in BOOLEAN : [s EXCEPT !.escape = v] \in States
  BY <1>2 DEF States
<1>5. ScanBackslash(s) \in States BY <1>1, <1>3, <1>4 DEF ScanBackslash
<1>6. ScanSingle(s) \in States BY <1>1, <1>3, <1>4 DEF ScanSingle
<1>7. ScanDouble(s) \in States BY <1>1, <1>3, <1>4 DEF ScanDouble
<1>8. ScanBlank(s) \in States BY <1>1, <1>3 DEF ScanBlank
<1>9. Put(s, c) \in States BY <1>1, <1>3
<1>. QED BY <1>5, <1>6, <1>7, <1>8, <1>9 DEF Scan

ScanStep == [x \in States \X Characters |-> Scan(x[1], x[2])]

LEMMA ScanStepIs ==
  /\ Start \in States /\ ScanStep \in [States \X Characters -> States]
  /\ \A s \in States, c \in Characters : ScanStep[<<s, c>>] = Scan(s, c)
<1>1. << >> \in Seq(Cells) BY EmptySeq
<1>2. Start \in States BY <1>1 DEF Start, States
<1>3. \A x \in States \X Characters : Scan(x[1], x[2]) \in States BY ScanTypes
<1>. QED BY <1>2, <1>3 DEF ScanStep

LEMMA ScannedLineFolds ==
  ASSUME NEW l \in Seq(Characters)
  PROVE  \E f \in [0 .. Len(l) -> States] :
           FoldsTo(f, Start, ScanStep, l) /\ f[Len(l)] = Scanned(l)
<1> DEFINE E(f) == f = [n \in 0 .. Len(l) |-> IF n = 0 THEN Start ELSE Scan(f[n - 1], l[n])]
           g == CHOOSE f : E(f)
<1>1. /\ Len(l) \in Nat /\ \A n \in 1 .. Len(l) : l[n] \in Characters /\ n - 1 \in 0 .. Len(l)
      /\ \A n \in 0 .. Len(l) : n = 0 \/ n \in 1 .. Len(l)
      /\ Len(l) \in 0 .. Len(l) /\ 0 \in 0 .. Len(l)
      /\ \A n \in 1 .. Len(l) : n # 0 /\ n \in 0 .. Len(l)
  OBVIOUS
<1>2. Start \in States /\ ScanStep \in [States \X Characters -> States]
      /\ \A x \in States, c \in Characters : ScanStep[<<x, c>>] = Scan(x, c)
  BY ScanStepIs
<1>3. PICK f \in [0 .. Len(l) -> States] : FoldsTo(f, Start, ScanStep, l)
  BY <1>2, FoldExists
<1>4. f[0] = Start /\ \A n \in 1 .. Len(l) : f[n] = ScanStep[<<f[n - 1], l[n]>>]
  BY <1>3 DEF FoldsTo
<1>5. \A n \in 1 .. Len(l) : ScanStep[<<f[n - 1], l[n]>>] = Scan(f[n - 1], l[n])
  BY <1>1, <1>2
<1>6. E(f)
  <2>1. \A n \in 0 .. Len(l) : f[n] = IF n = 0 THEN Start ELSE Scan(f[n - 1], l[n])
    BY <1>1, <1>4, <1>5
  <2>. QED BY <2>1
<1>7. E(g)
  <2>. HIDE DEF E
  <2>. QED BY <1>6
<1>8. Scanned(l) = g[Len(l)] BY DEF Scanned
<1>. HIDE DEF g
<1>9. g[0] = Start /\ \A n \in 1 .. Len(l) : g[n] = Scan(g[n - 1], l[n])
  BY <1>1, <1>7
<1> DEFINE I == {n \in 0 .. Len(l) : g[n] = f[n]}
<1>10. 0 \in I BY <1>1, <1>4, <1>9
<1>11. \A n \in 1 .. Len(l) : n - 1 \in I => n \in I BY <1>1, <1>4, <1>5, <1>9
<1>12. 0 .. Len(l) \subseteq I
  <2>. HIDE DEF I
  <2>. QED BY <1>1, <1>10, <1>11, UpTo
<1>13. g[Len(l)] = f[Len(l)] BY <1>1, <1>12
<1>. QED BY <1>3, <1>8, <1>13

LEMMA ScannedLine ==
  /\ Scanned(<< >>) = Start
  /\ \A l \in Seq(Characters) : Scanned(l) \in States
  /\ \A l \in Seq(Characters), c \in Characters :
       Scanned(Append(l, c)) = Scan(Scanned(l), c)
<1>1. Start \in States /\ \A x \in States, c \in Characters : ScanStep[<<x, c>>] = Scan(x, c)
  BY ScanStepIs
<1>a. \A t, c, u, f, g :
        /\ Len(t) \in Nat /\ Extends(u, t, c)
        /\ FoldsTo(f, Start, ScanStep, t) /\ FoldsTo(g, Start, ScanStep, u)
        => g[Len(t) + 1] = ScanStep[<<f[Len(t)], c>>]
  BY FoldsAppend
<1>2. Scanned(<< >>) = Start
  <2>1. << >> \in Seq(Characters) /\ Len(<< >>) = 0 BY EmptySeq
  <2>2. PICK f \in [0 .. 0 -> States] :
          FoldsTo(f, Start, ScanStep, << >>) /\ f[0] = Scanned(<< >>)
    BY <2>1, ScannedLineFolds
  <2>. QED BY <2>2 DEF FoldsTo
<1>3. ASSUME NEW l \in Seq(Characters) PROVE Scanned(l) \in States
  <2>1. PICK f \in [0 .. Len(l) -> States] :
          FoldsTo(f, Start, ScanStep, l) /\ f[Len(l)] = Scanned(l)
    BY ScannedLineFolds
  <2>2. Len(l) \in 0 .. Len(l) OBVIOUS
  <2>. QED BY <2>1, <2>2
<1>4. ASSUME NEW l \in Seq(Characters), NEW c \in Characters
      PROVE  Scanned(Append(l, c)) = Scan(Scanned(l), c)
  <2> DEFINE u == Append(l, c)
  <2>1. u \in Seq(Characters) /\ Len(u) = Len(l) + 1 /\ Extends(u, l, c) /\ Len(l) \in Nat
    BY DEF Extends
  <2>. HIDE DEF u
  <2>2. PICK f \in [0 .. Len(l) -> States] :
          FoldsTo(f, Start, ScanStep, l) /\ f[Len(l)] = Scanned(l)
    BY ScannedLineFolds
  <2>3. PICK g \in [0 .. Len(u) -> States] :
          FoldsTo(g, Start, ScanStep, u) /\ g[Len(u)] = Scanned(u)
    BY <2>1, ScannedLineFolds
  <2>4. g[Len(l) + 1] = ScanStep[<<f[Len(l)], c>>]
    BY <2>1, <2>2, <2>3, <1>a, Zenon
  <2>5. ScanStep[<<f[Len(l)], c>>] = Scan(Scanned(l), c)
    BY <1>1, <1>3, <2>2
  <2>. QED BY <2>1, <2>3, <2>4, <2>5 DEF u
<1>. QED BY <1>2, <1>3, <1>4

(***************************************************************************)
(* The words of the buffer, a character at a time.                         *)
(***************************************************************************)
Takes == [words : Seq(Seq(Cells)), word : Seq(Cells)]

LEMMA TakeTypes ==
  ASSUME NEW t \in Takes, NEW c \in Cells
  PROVE  Take(t, c) \in Takes
<1>1. t.words \in Seq(Seq(Cells)) /\ t.word \in Seq(Cells) BY DEF Takes
<1>2. /\ Append(t.word, c) \in Seq(Cells) /\ Append(t.words, t.word) \in Seq(Seq(Cells))
      /\ << >> \in Seq(Cells)
  BY <1>1, AppendProperties, EmptySeq
<1>3. [t EXCEPT !.word = Append(@, c)] \in Takes BY <1>1, <1>2 DEF Takes
<1>4. [words |-> Append(t.words, t.word), word |-> << >>] \in Takes BY <1>2 DEF Takes
<1>. QED BY <1>3, <1>4 DEF Take

TakeStep == [x \in Takes \X Cells |-> Take(x[1], x[2])]

LEMMA TakeStepIs ==
  /\ NoWords \in Takes /\ TakeStep \in [Takes \X Cells -> Takes]
  /\ \A t \in Takes, c \in Cells : TakeStep[<<t, c>>] = Take(t, c)
<1>1. << >> \in Seq(Cells) /\ << >> \in Seq(Seq(Cells)) BY EmptySeq
<1>2. NoWords \in Takes BY <1>1 DEF NoWords, Takes
<1>3. \A x \in Takes \X Cells : Take(x[1], x[2]) \in Takes BY TakeTypes
<1>. QED BY <1>2, <1>3 DEF TakeStep

LEMMA TakenBufferFolds ==
  ASSUME NEW l \in Seq(Cells)
  PROVE  \E f \in [0 .. Len(l) -> Takes] :
           FoldsTo(f, NoWords, TakeStep, l) /\ f[Len(l)] = Taken(l)
<1> DEFINE E(f) == f = [n \in 0 .. Len(l) |-> IF n = 0 THEN NoWords ELSE Take(f[n - 1], l[n])]
           g == CHOOSE f : E(f)
<1>1. /\ Len(l) \in Nat /\ \A n \in 1 .. Len(l) : l[n] \in Cells /\ n - 1 \in 0 .. Len(l)
      /\ \A n \in 0 .. Len(l) : n = 0 \/ n \in 1 .. Len(l)
      /\ Len(l) \in 0 .. Len(l) /\ 0 \in 0 .. Len(l)
      /\ \A n \in 1 .. Len(l) : n # 0 /\ n \in 0 .. Len(l)
  OBVIOUS
<1>2. NoWords \in Takes /\ TakeStep \in [Takes \X Cells -> Takes]
      /\ \A x \in Takes, c \in Cells : TakeStep[<<x, c>>] = Take(x, c)
  BY TakeStepIs
<1>3. PICK f \in [0 .. Len(l) -> Takes] : FoldsTo(f, NoWords, TakeStep, l)
  BY <1>2, FoldExists
<1>4. f[0] = NoWords /\ \A n \in 1 .. Len(l) : f[n] = TakeStep[<<f[n - 1], l[n]>>]
  BY <1>3 DEF FoldsTo
<1>5. \A n \in 1 .. Len(l) : TakeStep[<<f[n - 1], l[n]>>] = Take(f[n - 1], l[n])
  BY <1>1, <1>2
<1>6. E(f)
  <2>1. \A n \in 0 .. Len(l) : f[n] = IF n = 0 THEN NoWords ELSE Take(f[n - 1], l[n])
    BY <1>1, <1>4, <1>5
  <2>. QED BY <2>1
<1>7. E(g)
  <2>. HIDE DEF E
  <2>. QED BY <1>6
<1>8. Taken(l) = g[Len(l)] BY DEF Taken
<1>. HIDE DEF g
<1>9. g[0] = NoWords /\ \A n \in 1 .. Len(l) : g[n] = Take(g[n - 1], l[n])
  BY <1>1, <1>7
<1> DEFINE I == {n \in 0 .. Len(l) : g[n] = f[n]}
<1>10. 0 \in I BY <1>1, <1>4, <1>9
<1>11. \A n \in 1 .. Len(l) : n - 1 \in I => n \in I BY <1>1, <1>4, <1>5, <1>9
<1>12. 0 .. Len(l) \subseteq I
  <2>. HIDE DEF I
  <2>. QED BY <1>1, <1>10, <1>11, UpTo
<1>13. g[Len(l)] = f[Len(l)] BY <1>1, <1>12
<1>. QED BY <1>3, <1>8, <1>13

LEMMA TakenBuffer ==
  /\ Taken(<< >>) = NoWords
  /\ \A l \in Seq(Cells) : Taken(l) \in Takes
  /\ \A l \in Seq(Cells), c \in Cells :
       Taken(Append(l, c)) = Take(Taken(l), c)
<1>1. NoWords \in Takes /\ \A x \in Takes, c \in Cells : TakeStep[<<x, c>>] = Take(x, c)
  BY TakeStepIs
<1>a. \A t, c, u, f, g :
        /\ Len(t) \in Nat /\ Extends(u, t, c)
        /\ FoldsTo(f, NoWords, TakeStep, t) /\ FoldsTo(g, NoWords, TakeStep, u)
        => g[Len(t) + 1] = TakeStep[<<f[Len(t)], c>>]
  BY FoldsAppend
<1>2. Taken(<< >>) = NoWords
  <2>1. << >> \in Seq(Cells) /\ Len(<< >>) = 0 BY EmptySeq
  <2>2. PICK f \in [0 .. 0 -> Takes] :
          FoldsTo(f, NoWords, TakeStep, << >>) /\ f[0] = Taken(<< >>)
    BY <2>1, TakenBufferFolds
  <2>. QED BY <2>2 DEF FoldsTo
<1>3. ASSUME NEW l \in Seq(Cells) PROVE Taken(l) \in Takes
  <2>1. PICK f \in [0 .. Len(l) -> Takes] :
          FoldsTo(f, NoWords, TakeStep, l) /\ f[Len(l)] = Taken(l)
    BY TakenBufferFolds
  <2>2. Len(l) \in 0 .. Len(l) OBVIOUS
  <2>. QED BY <2>1, <2>2
<1>4. ASSUME NEW l \in Seq(Cells), NEW c \in Cells
      PROVE  Taken(Append(l, c)) = Take(Taken(l), c)
  <2> DEFINE u == Append(l, c)
  <2>1. u \in Seq(Cells) /\ Len(u) = Len(l) + 1 /\ Extends(u, l, c) /\ Len(l) \in Nat
    BY DEF Extends
  <2>. HIDE DEF u
  <2>2. PICK f \in [0 .. Len(l) -> Takes] :
          FoldsTo(f, NoWords, TakeStep, l) /\ f[Len(l)] = Taken(l)
    BY TakenBufferFolds
  <2>3. PICK g \in [0 .. Len(u) -> Takes] :
          FoldsTo(g, NoWords, TakeStep, u) /\ g[Len(u)] = Taken(u)
    BY <2>1, TakenBufferFolds
  <2>4. g[Len(l) + 1] = TakeStep[<<f[Len(l)], c>>]
    BY <2>1, <2>2, <2>3, <1>a, Zenon
  <2>5. TakeStep[<<f[Len(l)], c>>] = Take(Taken(l), c)
    BY <1>1, <1>3, <2>2
  <2>. QED BY <2>1, <2>3, <2>4, <2>5 DEF u
<1>. QED BY <1>2, <1>3, <1>4

(***************************************************************************)
(* The words that are meant, one at a time.                                *)
(***************************************************************************)
Words == Seq(Seq(Characters))

MeantStep == [x \in Words \X Seq(Characters) |-> MeantWord(x[1], x[2])]

LEMMA MeantStepIs ==
  /\ << >> \in Words /\ MeantStep \in [Words \X Seq(Characters) -> Words]
  /\ \A m \in Words, w \in Seq(Characters) : MeantStep[<<m, w>>] = MeantWord(m, w)
<1>1. << >> \in Words BY EmptySeq DEF Words
<1>2. \A m \in Words, w \in Seq(Characters) : MeantWord(m, w) \in Words
  BY AppendProperties DEF Words, MeantWord
<1>3. \A x \in Words \X Seq(Characters) : MeantWord(x[1], x[2]) \in Words BY <1>2
<1>. QED BY <1>1, <1>3 DEF MeantStep

LEMMA MeantListFolds ==
  ASSUME NEW l \in Seq(Seq(Characters))
  PROVE  \E f \in [0 .. Len(l) -> Words] :
           FoldsTo(f, << >>, MeantStep, l) /\ f[Len(l)] = MeantWords(l)
<1> DEFINE E(f) == f = [n \in 0 .. Len(l) |-> IF n = 0 THEN << >> ELSE MeantWord(f[n - 1], l[n])]
           g == CHOOSE f : E(f)
<1>1. /\ Len(l) \in Nat /\ \A n \in 1 .. Len(l) : l[n] \in Seq(Characters) /\ n - 1 \in 0 .. Len(l)
      /\ \A n \in 0 .. Len(l) : n = 0 \/ n \in 1 .. Len(l)
      /\ Len(l) \in 0 .. Len(l) /\ 0 \in 0 .. Len(l)
      /\ \A n \in 1 .. Len(l) : n # 0 /\ n \in 0 .. Len(l)
  OBVIOUS
<1>2. << >> \in Words /\ MeantStep \in [Words \X Seq(Characters) -> Words]
      /\ \A x \in Words, c \in Seq(Characters) : MeantStep[<<x, c>>] = MeantWord(x, c)
  BY MeantStepIs
<1>3. PICK f \in [0 .. Len(l) -> Words] : FoldsTo(f, << >>, MeantStep, l)
  BY <1>2, FoldExists
<1>4. f[0] = << >> /\ \A n \in 1 .. Len(l) : f[n] = MeantStep[<<f[n - 1], l[n]>>]
  BY <1>3 DEF FoldsTo
<1>5. \A n \in 1 .. Len(l) : MeantStep[<<f[n - 1], l[n]>>] = MeantWord(f[n - 1], l[n])
  BY <1>1, <1>2
<1>6. E(f)
  <2>1. \A n \in 0 .. Len(l) : f[n] = IF n = 0 THEN << >> ELSE MeantWord(f[n - 1], l[n])
    BY <1>1, <1>4, <1>5
  <2>. QED BY <2>1
<1>7. E(g)
  <2>. HIDE DEF E
  <2>. QED BY <1>6
<1>8. MeantWords(l) = g[Len(l)] BY DEF MeantWords
<1>. HIDE DEF g
<1>9. g[0] = << >> /\ \A n \in 1 .. Len(l) : g[n] = MeantWord(g[n - 1], l[n])
  BY <1>1, <1>7
<1> DEFINE I == {n \in 0 .. Len(l) : g[n] = f[n]}
<1>10. 0 \in I BY <1>1, <1>4, <1>9
<1>11. \A n \in 1 .. Len(l) : n - 1 \in I => n \in I BY <1>1, <1>4, <1>5, <1>9
<1>12. 0 .. Len(l) \subseteq I
  <2>. HIDE DEF I
  <2>. QED BY <1>1, <1>10, <1>11, UpTo
<1>13. g[Len(l)] = f[Len(l)] BY <1>1, <1>12
<1>. QED BY <1>3, <1>8, <1>13

LEMMA MeantList ==
  /\ MeantWords(<< >>) = << >>
  /\ \A l \in Seq(Seq(Characters)) : MeantWords(l) \in Words
  /\ \A l \in Seq(Seq(Characters)), c \in Seq(Characters) :
       MeantWords(Append(l, c)) = MeantWord(MeantWords(l), c)
<1>1. << >> \in Words /\ \A x \in Words, c \in Seq(Characters) : MeantStep[<<x, c>>] = MeantWord(x, c)
  BY MeantStepIs
<1>a. \A t, c, u, f, g :
        /\ Len(t) \in Nat /\ Extends(u, t, c)
        /\ FoldsTo(f, << >>, MeantStep, t) /\ FoldsTo(g, << >>, MeantStep, u)
        => g[Len(t) + 1] = MeantStep[<<f[Len(t)], c>>]
  BY FoldsAppend
<1>2. MeantWords(<< >>) = << >>
  <2>1. << >> \in Seq(Seq(Characters)) /\ Len(<< >>) = 0 BY EmptySeq
  <2>2. PICK f \in [0 .. 0 -> Words] :
          FoldsTo(f, << >>, MeantStep, << >>) /\ f[0] = MeantWords(<< >>)
    BY <2>1, MeantListFolds
  <2>. QED BY <2>2 DEF FoldsTo
<1>3. ASSUME NEW l \in Seq(Seq(Characters)) PROVE MeantWords(l) \in Words
  <2>1. PICK f \in [0 .. Len(l) -> Words] :
          FoldsTo(f, << >>, MeantStep, l) /\ f[Len(l)] = MeantWords(l)
    BY MeantListFolds
  <2>2. Len(l) \in 0 .. Len(l) OBVIOUS
  <2>. QED BY <2>1, <2>2
<1>4. ASSUME NEW l \in Seq(Seq(Characters)), NEW c \in Seq(Characters)
      PROVE  MeantWords(Append(l, c)) = MeantWord(MeantWords(l), c)
  <2> DEFINE u == Append(l, c)
  <2>1. u \in Seq(Seq(Characters)) /\ Len(u) = Len(l) + 1 /\ Extends(u, l, c) /\ Len(l) \in Nat
    BY DEF Extends
  <2>. HIDE DEF u
  <2>2. PICK f \in [0 .. Len(l) -> Words] :
          FoldsTo(f, << >>, MeantStep, l) /\ f[Len(l)] = MeantWords(l)
    BY MeantListFolds
  <2>3. PICK g \in [0 .. Len(u) -> Words] :
          FoldsTo(g, << >>, MeantStep, u) /\ g[Len(u)] = MeantWords(u)
    BY <2>1, MeantListFolds
  <2>4. g[Len(l) + 1] = MeantStep[<<f[Len(l)], c>>]
    BY <2>1, <2>2, <2>3, <1>a, Zenon
  <2>5. MeantStep[<<f[Len(l)], c>>] = MeantWord(MeantWords(l), c)
    BY <1>1, <1>3, <2>2
  <2>. QED BY <2>1, <2>3, <2>4, <2>5 DEF u
<1>. QED BY <1>2, <1>3, <1>4

(***************************************************************************)
(* What one character does to the state of the scan.                       *)
(***************************************************************************)
LEMMA StateTypes ==
  ASSUME NEW s \in States
  PROVE  s.single \in BOOLEAN /\ s.double \in BOOLEAN /\ s.escape \in BOOLEAN
BY DEF States

LEMMA ExceptState ==
  ASSUME NEW s \in States
  PROVE  /\ \A c : Put(s, c).buffer = Append(s.buffer, c) /\ Put(s, c).single = s.single
                   /\ Put(s, c).double = s.double /\ Put(s, c).escape = s.escape
         /\ \A c : Literal(s, c).buffer = Append(s.buffer, c) /\ Literal(s, c).single = s.single
                   /\ Literal(s, c).double = s.double /\ ~Literal(s, c).escape
BY DEF States, Put, Literal

BackslashRead(s, t) ==
  /\ (t.single <=> s.single) /\ (t.double <=> s.double)
  /\ t.escape <=> ~s.escape /\ ~s.single /\ ~s.double
  /\ s.escape \/ s.single \/ s.double => t.buffer = Append(s.buffer, Backslash)
  /\ ~(s.escape \/ s.single \/ s.double) => t.buffer = s.buffer

LEMMA ScanBackslashIs ==
  ASSUME NEW s \in States, NEW t, t = Scan(s, Backslash)
  PROVE  BackslashRead(s, t)
<1>1. t = ScanBackslash(s) BY DEF Scan, Single, Backslash, Double, Blank
<1>2. CASE s.escape \/ s.single \/ s.double
  <2>1. t = Literal(s, Backslash) BY <1>1, <1>2 DEF ScanBackslash
  <2>2. /\ t.buffer = Append(s.buffer, Backslash) /\ (t.single <=> s.single)
        /\ (t.double <=> s.double) /\ ~t.escape
    BY <2>1, ExceptState
  <2>. QED BY <1>2, <2>2 DEF BackslashRead
<1>3. CASE ~(s.escape \/ s.single \/ s.double)
  BY <1>1, <1>3 DEF ScanBackslash, States, BackslashRead
<1>. QED BY <1>2, <1>3 DEF BackslashRead

SingleRead(s, t) ==
  /\ (t.double <=> s.double)
  /\ s.single => ~t.single /\ t.buffer = s.buffer /\ (t.escape <=> s.escape)
  /\ ~s.single /\ (s.escape \/ s.double) =>
       ~t.single /\ t.buffer = Append(s.buffer, Single) /\ ~t.escape
  /\ ~s.single /\ ~s.escape /\ ~s.double =>
       t.single /\ t.buffer = s.buffer /\ ~t.escape

LEMMA ScanSingleIs ==
  ASSUME NEW s \in States, NEW t, t = Scan(s, Single)
  PROVE  SingleRead(s, t)
<1>1. t = ScanSingle(s) BY DEF Scan, Single, Backslash, Double, Blank
<1>2. CASE ~s.single /\ (s.escape \/ s.double)
  BY <1>1, <1>2, ExceptState DEF ScanSingle, SingleRead
<1>3. CASE ~(~s.single /\ (s.escape \/ s.double))
  BY <1>1, <1>3 DEF ScanSingle, States, SingleRead
<1>. QED BY <1>2, <1>3 DEF SingleRead

DoubleRead(s, t) ==
  /\ (t.single <=> s.single)
  /\ s.double => ~t.double /\ t.buffer = s.buffer /\ (t.escape <=> s.escape)
  /\ ~s.double /\ (s.escape \/ s.single) =>
       ~t.double /\ t.buffer = Append(s.buffer, Double) /\ ~t.escape
  /\ ~s.double /\ ~s.escape /\ ~s.single =>
       t.double /\ t.buffer = s.buffer /\ ~t.escape

LEMMA ScanDoubleIs ==
  ASSUME NEW s \in States, NEW t, t = Scan(s, Double)
  PROVE  DoubleRead(s, t)
<1>1. t = ScanDouble(s) BY DEF Scan, Single, Backslash, Double, Blank
<1>2. CASE ~s.double /\ (s.escape \/ s.single)
  BY <1>1, <1>2, ExceptState DEF ScanDouble, DoubleRead
<1>3. CASE ~(~s.double /\ (s.escape \/ s.single))
  BY <1>1, <1>3 DEF ScanDouble, States, DoubleRead
<1>. QED BY <1>2, <1>3 DEF DoubleRead

BlankRead(s, t) ==
  /\ (t.single <=> s.single) /\ (t.double <=> s.double) /\ (t.escape <=> s.escape)
  /\ s.escape \/ s.single \/ s.double => t.buffer = Append(s.buffer, Blank)
  /\ ~(s.escape \/ s.single \/ s.double) => t.buffer = Append(s.buffer, NUL)

LEMMA ScanBlankIs ==
  ASSUME NEW s \in States, NEW t, t = Scan(s, Blank)
  PROVE  BlankRead(s, t)
<1>1. t = ScanBlank(s) BY DEF Scan, Single, Backslash, Double, Blank
<1>. QED BY <1>1, ExceptState DEF ScanBlank, BlankRead

LetterRead(s, t, c) ==
  /\ (t.single <=> s.single) /\ (t.double <=> s.double) /\ (t.escape <=> s.escape)
  /\ t.buffer = Append(s.buffer, c)

LEMMA ScanLetterIs ==
  ASSUME NEW s \in States, NEW c \in Letters, NEW t, t = Scan(s, c)
  PROVE  LetterRead(s, t, c)
<1>1. c # Backslash /\ c # Single /\ c # Double /\ c # Blank BY LettersAssumption
<1>2. t = Put(s, c) BY <1>1 DEF Scan
<1>. QED BY <1>2, ExceptState DEF LetterRead

LEMMA CharactersAre ==
  /\ Characters \subseteq Cells /\ NUL \in Cells /\ NUL \notin Characters
  /\ Backslash \in Characters /\ Single \in Characters /\ Double \in Characters
  /\ Blank \in Characters
  /\ \A c \in Characters :
       c \in Letters \/ c = Backslash \/ c = Single \/ c = Double \/ c = Blank
<1>1. NUL # Backslash /\ NUL # Single /\ NUL # Double /\ NUL # Blank
  BY DEF NUL, Backslash, Single, Double, Blank
<1>2. NUL \notin Letters BY LettersAssumption
<1>. QED BY <1>1, <1>2 DEF Characters, Special, Cells

(***************************************************************************)
(* A character written in one of its ways puts itself into the buffer.     *)
(***************************************************************************)
Clean(s, b) == s.buffer = b /\ ~s.single /\ ~s.double /\ ~s.escape

LEMMA CleanScan ==
  ASSUME NEW s \in States, NEW b, Clean(s, b), NEW c \in Characters
  PROVE  /\ c \in Letters => Clean(Scan(s, c), Append(b, c))
         /\ c \in Special => Clean(Scan(Scan(s, Backslash), c), Append(b, c))
         /\ c # Single => Clean(Scan(Scan(Scan(s, Single), c), Single), Append(b, c))
         /\ c # Double => Clean(Scan(Scan(Scan(s, Double), c), Double), Append(b, c))
<1>1. c \in Letters \/ c = Backslash \/ c = Single \/ c = Double \/ c = Blank
  BY CharactersAre
<1>2. c \in Letters => Clean(Scan(s, c), Append(b, c)) BY ScanLetterIs DEF Clean, LetterRead
<1>3. c \in Special => Clean(Scan(Scan(s, Backslash), c), Append(b, c))
  <2> DEFINE t == Scan(s, Backslash)
             u == Scan(t, c)
  <2>1. t \in States BY ScanTypes, CharactersAre
  <2>2. t.buffer = b /\ ~t.single /\ ~t.double /\ t.escape BY ScanBackslashIs DEF Clean, BackslashRead
  <2>. HIDE DEF t
  <2>3. CASE c = Backslash
    <3>1. u.buffer = Append(b, c) /\ ~u.single /\ ~u.double /\ ~u.escape
      BY <2>1, <2>2, <2>3, ScanBackslashIs DEF BackslashRead
    <3>. QED BY <3>1 DEF Clean, t
  <2>4. CASE c = Single
    <3>1. u.buffer = Append(b, c) /\ ~u.single /\ ~u.double /\ ~u.escape
      BY <2>1, <2>2, <2>4, ScanSingleIs DEF SingleRead
    <3>. QED BY <3>1 DEF Clean, t
  <2>5. CASE c = Double
    <3>1. u.buffer = Append(b, c) /\ ~u.single /\ ~u.double /\ ~u.escape
      BY <2>1, <2>2, <2>5, ScanDoubleIs DEF DoubleRead
    <3>. QED BY <3>1 DEF Clean, t
  <2>. QED BY <2>3, <2>4, <2>5 DEF Special, t
<1>4. c # Single => Clean(Scan(Scan(Scan(s, Single), c), Single), Append(b, c))
  <2>. SUFFICES ASSUME c # Single
                PROVE  Clean(Scan(Scan(Scan(s, Single), c), Single), Append(b, c))
    OBVIOUS
  <2> DEFINE t == Scan(s, Single)
             u == Scan(t, c)
  <2>1. t \in States BY ScanTypes, CharactersAre
  <2>2. t.buffer = b /\ t.single /\ ~t.double /\ ~t.escape BY ScanSingleIs DEF Clean, SingleRead
  <2>. HIDE DEF t
  <2>3. u \in States BY <2>1, ScanTypes
  <2>4. u.buffer = Append(b, c) /\ u.single /\ ~u.double /\ ~u.escape
    <3>1. CASE c \in Letters BY <2>1, <2>2, <3>1, ScanLetterIs DEF LetterRead
    <3>2. CASE c = Backslash BY <2>1, <2>2, <3>2, ScanBackslashIs DEF BackslashRead
    <3>3. CASE c = Double BY <2>1, <2>2, <3>3, ScanDoubleIs DEF DoubleRead
    <3>4. CASE c = Blank BY <2>1, <2>2, <3>4, ScanBlankIs DEF BlankRead
    <3>. QED BY <1>1, <3>1, <3>2, <3>3, <3>4
  <2>. HIDE DEF u
  <2>5. Clean(Scan(u, Single), Append(b, c)) BY <2>3, <2>4, ScanSingleIs DEF Clean, SingleRead
  <2>. QED BY <2>5 DEF t, u
<1>5. c # Double => Clean(Scan(Scan(Scan(s, Double), c), Double), Append(b, c))
  <2>. SUFFICES ASSUME c # Double
                PROVE  Clean(Scan(Scan(Scan(s, Double), c), Double), Append(b, c))
    OBVIOUS
  <2> DEFINE t == Scan(s, Double)
             u == Scan(t, c)
  <2>1. t \in States BY ScanTypes, CharactersAre
  <2>2. t.buffer = b /\ ~t.single /\ t.double /\ ~t.escape BY ScanDoubleIs DEF Clean, DoubleRead
  <2>. HIDE DEF t
  <2>3. u \in States BY <2>1, ScanTypes
  <2>4. u.buffer = Append(b, c) /\ ~u.single /\ u.double /\ ~u.escape
    <3>1. CASE c \in Letters BY <2>1, <2>2, <3>1, ScanLetterIs DEF LetterRead
    <3>2. CASE c = Backslash BY <2>1, <2>2, <3>2, ScanBackslashIs DEF BackslashRead
    <3>3. CASE c = Single BY <2>1, <2>2, <3>3, ScanSingleIs DEF SingleRead
    <3>4. CASE c = Blank BY <2>1, <2>2, <3>4, ScanBlankIs DEF BlankRead
    <3>. QED BY <1>1, <3>1, <3>2, <3>3, <3>4
  <2>. HIDE DEF u
  <2>5. Clean(Scan(u, Double), Append(b, c)) BY <2>3, <2>4, ScanDoubleIs DEF Clean, DoubleRead
  <2>. QED BY <2>5 DEF t, u
<1>. QED BY <1>2, <1>3, <1>4, <1>5

LEMMA WrittenWay ==
  ASSUME NEW l \in Seq(Characters), NEW b, Clean(Scanned(l), b), NEW c \in Characters,
         NEW w \in Ways(c)
  PROVE  l \o w \in Seq(Characters) /\ Clean(Scanned(l \o w), Append(b, c))
<1>0. Scanned(l) \in States BY ScannedLine
<1>1. \A m \in Seq(Characters), x \in Characters :
        Append(m, x) \in Seq(Characters) /\ Scanned(Append(m, x)) = Scan(Scanned(m), x)
  BY ScannedLine, AppendProperties
<1>2. \A x : l \o <<x>> = Append(l, x)
  OBVIOUS
<1>3. \A x, y : l \o <<x, y>> = Append(Append(l, x), y)
  OBVIOUS
<1>4. \A x, y, z : l \o <<x, y, z>> = Append(Append(Append(l, x), y), z)
  OBVIOUS
<1>5. \/ w = <<c>> /\ c \in Letters
      \/ w = <<Backslash, c>> /\ c \in Special
      \/ w = <<Single, c, Single>> /\ c # Single
      \/ w = <<Double, c, Double>> /\ c # Double
  BY DEF Ways
<1>6. CASE w = <<c>> /\ c \in Letters BY <1>0, <1>1, <1>2, <1>6, CleanScan
<1>7. CASE w = <<Backslash, c>> /\ c \in Special
  <2> DEFINE m == Append(l, Backslash)
  <2>1. Backslash \in Characters BY CharactersAre
  <2>2. m \in Seq(Characters) /\ Scanned(m) = Scan(Scanned(l), Backslash) BY <1>1, <2>1
  <2>3. l \o w = Append(m, c) BY <1>3, <1>7
  <2>. HIDE DEF m
  <2>4. Append(m, c) \in Seq(Characters) /\ Scanned(Append(m, c)) = Scan(Scanned(m), c)
    BY <1>1, <2>2
  <2>5. Clean(Scan(Scan(Scanned(l), Backslash), c), Append(b, c)) BY <1>0, <1>7, CleanScan
  <2>. QED BY <2>2, <2>3, <2>4, <2>5
<1>8. CASE w = <<Single, c, Single>> /\ c # Single
  <2> DEFINE m == Append(l, Single)
             n == Append(m, c)
  <2>1. Single \in Characters BY CharactersAre
  <2>2. m \in Seq(Characters) /\ Scanned(m) = Scan(Scanned(l), Single) BY <1>1, <2>1
  <2>3. l \o w = Append(n, Single) BY <1>4, <1>8
  <2>. HIDE DEF m
  <2>4. n \in Seq(Characters) /\ Scanned(n) = Scan(Scanned(m), c) BY <1>1, <2>2
  <2>. HIDE DEF n
  <2>5. /\ Append(n, Single) \in Seq(Characters)
        /\ Scanned(Append(n, Single)) = Scan(Scanned(n), Single)
    BY <1>1, <2>1, <2>4
  <2>6. Clean(Scan(Scan(Scan(Scanned(l), Single), c), Single), Append(b, c))
    BY <1>0, <1>8, CleanScan
  <2>. QED BY <2>2, <2>3, <2>4, <2>5, <2>6
<1>9. CASE w = <<Double, c, Double>> /\ c # Double
  <2> DEFINE m == Append(l, Double)
             n == Append(m, c)
  <2>1. Double \in Characters BY CharactersAre
  <2>2. m \in Seq(Characters) /\ Scanned(m) = Scan(Scanned(l), Double) BY <1>1, <2>1
  <2>3. l \o w = Append(n, Double) BY <1>4, <1>9
  <2>. HIDE DEF m
  <2>4. n \in Seq(Characters) /\ Scanned(n) = Scan(Scanned(m), c) BY <1>1, <2>2
  <2>. HIDE DEF n
  <2>5. /\ Append(n, Double) \in Seq(Characters)
        /\ Scanned(Append(n, Double)) = Scan(Scanned(n), Double)
    BY <1>1, <2>1, <2>4
  <2>6. Clean(Scan(Scan(Scan(Scanned(l), Double), c), Double), Append(b, c))
    BY <1>0, <1>9, CleanScan
  <2>. QED BY <2>2, <2>3, <2>4, <2>5, <2>6
<1>. QED BY <1>5, <1>6, <1>7, <1>8, <1>9

\* What holds for the empty sequence, and for every sequence with one more
\* element, holds for all.
LEMMA Grown ==
  ASSUME NEW S, NEW I, << >> \in I, \A q \in Seq(S), c \in S : q \in I => Append(q, c) \in I,
         NEW r \in Seq(S)
  PROVE  r \in I
<1> DEFINE J == {n \in 0 .. Len(r) : SubSeq(r, 1, n) \in I}
<1>1. Len(r) \in Nat /\ \A n \in 1 .. Len(r) : r[n] \in S OBVIOUS
<1>2. 0 \in J
  <2>1. SubSeq(r, 1, 0) = << >> BY SubSeqEmpty
  <2>2. 0 \in 0 .. Len(r) BY <1>1
  <2>. QED BY <2>1, <2>2
<1>3. ASSUME NEW n \in 1 .. Len(r), n - 1 \in J PROVE n \in J
  <2>1. SubSeq(r, 1, n - 1) \in Seq(S) BY <1>1
  <2>2. SubSeq(r, 1, n) = Append(SubSeq(r, 1, n - 1), r[n])
    BY <1>1
  <2>3. Append(SubSeq(r, 1, n - 1), r[n]) \in I BY <1>1, <1>3, <2>1
  <2>4. n \in 0 .. Len(r) BY <1>1
  <2>. QED BY <2>2, <2>3, <2>4
<1>4. 0 .. Len(r) \subseteq J
  <2>. HIDE DEF J
  <2>. QED BY <1>1, <1>2, <1>3, UpTo
<1>5. SubSeq(r, 1, Len(r)) \in I BY <1>1, <1>4
<1>. QED BY <1>5, SubSeqFull

Appended(s, t, x) == Append(s \o t, x) = s \o Append(t, x)

LEMMA AppendBehind ==
  ASSUME NEW S, NEW s \in Seq(S), NEW t \in Seq(S), NEW x \in S
  PROVE  Appended(s, t, x)
BY DEF Appended

(***************************************************************************)
(* The words of a buffer.                                                  *)
(***************************************************************************)
LEMMA TakeIs ==
  ASSUME NEW t \in Takes, NEW c \in Cells
  PROVE  /\ Take(t, c) \in Takes
         /\ c # NUL => Take(t, c).words = t.words /\ Take(t, c).word = Append(t.word, c)
         /\ c = NUL => /\ Take(t, c).words = IF t.word = << >> THEN t.words
                                             ELSE Append(t.words, t.word)
                       /\ Take(t, c).word = << >>
<1>1. c # NUL => Take(t, c).words = t.words /\ Take(t, c).word = Append(t.word, c)
  BY DEF Take, Takes
<1>2. c = NUL => /\ Take(t, c).words = IF t.word = << >> THEN t.words
                                       ELSE Append(t.words, t.word)
                 /\ Take(t, c).word = << >>
  <2>1. CASE t.word = << >> BY <2>1 DEF Take
  <2>2. CASE t.word # << >> BY <2>2 DEF Take
  <2>. QED BY <2>1, <2>2
<1>. QED BY <1>1, <1>2, TakeTypes

LEMMA TakenTypes ==
  ASSUME NEW b \in Seq(Cells)
  PROVE  /\ Taken(b) \in Takes /\ Taken(b).words \in Seq(Seq(Cells))
         /\ Taken(b).word \in Seq(Cells) /\ Split(b) \in Seq(Seq(Cells))
<1>1. Taken(b) \in Takes BY TakenBuffer
<1>2. Take(Taken(b), NUL) \in Takes BY <1>1, TakeTypes, CharactersAre
<1>. QED BY <1>1, <1>2 DEF Takes, Split

\* The words in front of a NUL and those behind it.
LEMMA TakenBehind ==
  ASSUME NEW a \in Seq(Cells), NEW b \in Seq(Cells)
  PROVE  /\ Taken(Append(a, NUL) \o b).words = Split(a) \o Taken(b).words
         /\ Taken(Append(a, NUL) \o b).word = Taken(b).word
<1> DEFINE z == Append(a, NUL)
           I == {q \in Seq(Cells) : /\ Taken(z \o q).words = Split(a) \o Taken(q).words
                                    /\ Taken(z \o q).word = Taken(q).word}
<1>1. z \in Seq(Cells) BY CharactersAre, AppendProperties
<1>2. Taken(z) = Take(Taken(a), NUL) BY TakenBuffer, CharactersAre
<1>3. Taken(z).words = Split(a) /\ Taken(z).word = << >>
  BY <1>2, TakenTypes, TakeIs, CharactersAre DEF Split
<1>4. << >> \in I
  <2>1. z \o << >> = z BY <1>1, ConcatEmptySeq
  <2>2. Taken(<< >>).words = << >> /\ Taken(<< >>).word = << >>
    BY TakenBuffer DEF NoWords
  <2>3. Split(a) \o << >> = Split(a) BY TakenTypes, ConcatEmptySeq
  <2>4. << >> \in Seq(Cells) BY EmptySeq
  <2>. HIDE DEF z
  <2>. QED BY <1>3, <2>1, <2>2, <2>3, <2>4
<1>. HIDE DEF z
<1>5. ASSUME NEW q \in Seq(Cells), NEW c \in Cells, q \in I PROVE Append(q, c) \in I
  <2> DEFINE u == z \o q
  <2>1. u \in Seq(Cells) /\ Append(q, c) \in Seq(Cells) BY <1>1, ConcatProperties, AppendProperties
  <2>2. z \o Append(q, c) = Append(u, c) BY <1>1
  <2>3. Taken(u).words = Split(a) \o Taken(q).words /\ Taken(u).word = Taken(q).word
    BY <1>5
  <2>. HIDE DEF u
  <2>4. Taken(Append(u, c)) = Take(Taken(u), c) BY <2>1, TakenBuffer
  <2>5. Taken(Append(q, c)) = Take(Taken(q), c) BY TakenBuffer
  <2>6. Taken(u) \in Takes /\ Taken(q) \in Takes BY <2>1, TakenBuffer
  <2>7. /\ Taken(Append(u, c)).words = Split(a) \o Taken(Append(q, c)).words
        /\ Taken(Append(u, c)).word = Taken(Append(q, c)).word
    <3>0. \A t \in Takes :
            /\ c # NUL => Take(t, c).words = t.words /\ Take(t, c).word = Append(t.word, c)
            /\ c = NUL => /\ Take(t, c).words = IF t.word = << >> THEN t.words
                                                ELSE Append(t.words, t.word)
                          /\ Take(t, c).word = << >>
      BY TakeIs
    <3>1. CASE c # NUL
      <4>1. Taken(Append(u, c)).words = Taken(u).words /\ Taken(Append(q, c)).words = Taken(q).words
        BY <2>4, <2>5, <2>6, <3>0, <3>1
      <4>2. /\ Taken(Append(u, c)).word = Append(Taken(u).word, c)
            /\ Taken(Append(q, c)).word = Append(Taken(q).word, c)
        BY <2>4, <2>5, <2>6, <3>0, <3>1
      <4>. QED BY <2>3, <4>1, <4>2
    <3>2. CASE c = NUL
      <4>1. /\ Taken(Append(u, c)).words = IF Taken(q).word = << >> THEN Taken(u).words
                                           ELSE Append(Taken(u).words, Taken(q).word)
            /\ Taken(Append(q, c)).words = IF Taken(q).word = << >> THEN Taken(q).words
                                           ELSE Append(Taken(q).words, Taken(q).word)
            /\ Taken(Append(u, c)).word = << >> /\ Taken(Append(q, c)).word = << >>
        BY <2>3, <2>4, <2>5, <2>6, <3>0, <3>2
      <4>2. Append(Split(a) \o Taken(q).words, Taken(q).word)
              = Split(a) \o Append(Taken(q).words, Taken(q).word)
        <5> DEFINE p == Split(a)
                   w == Taken(q).words
                   x == Taken(q).word
                   Texts == Seq(Cells)
        <5>1. p \in Seq(Texts) /\ w \in Seq(Texts) /\ x \in Texts BY TakenTypes
        <5>. HIDE DEF p, w, x, Texts
        <5>2. Appended(p, w, x) BY <5>1, AppendBehind
        <5>. QED BY <5>2 DEF p, w, x, Appended
      <4>. QED BY <2>3, <4>1, <4>2
    <3>. QED BY <3>1, <3>2
  <2>. QED BY <2>1, <2>2, <2>7
<1>6. b \in I
  <2>. HIDE DEF I
  <2>. QED BY <1>4, <1>5, Grown
<1>. QED BY <1>6 DEF z

LEMMA SplitBehind ==
  ASSUME NEW a \in Seq(Cells), NEW b \in Seq(Cells)
  PROVE  Split(Append(a, NUL) \o b) = Split(a) \o Split(b)
<1> DEFINE u == Taken(Append(a, NUL) \o b)
           t == Taken(b)
           p == Split(a)
           Texts == Seq(Cells)
<1>1. Append(a, NUL) \o b \in Seq(Cells) BY CharactersAre, AppendProperties, ConcatProperties
<1>2. /\ u \in Takes /\ t \in Takes /\ u.words = p \o t.words /\ u.word = t.word
      /\ p \in Seq(Texts) /\ t.words \in Seq(Texts) /\ t.word \in Texts
  BY <1>1, TakenTypes, TakenBehind
<1>3. Split(Append(a, NUL) \o b) = Take(u, NUL).words /\ Split(b) = Take(t, NUL).words
  BY DEF Split
<1>. HIDE DEF u, t, p, Texts
<1>4. /\ Take(u, NUL).words = IF u.word = << >> THEN u.words ELSE Append(u.words, u.word)
      /\ Take(t, NUL).words = IF t.word = << >> THEN t.words ELSE Append(t.words, t.word)
  BY <1>2, TakeIs, CharactersAre
<1>5. Appended(p, t.words, t.word) BY <1>2, AppendBehind
<1>. QED BY <1>2, <1>3, <1>4, <1>5 DEF p, Appended

(***************************************************************************)
(* A scan that begins with text in the buffer.                             *)
(***************************************************************************)
Beyond(a, s, t) == /\ t.buffer = a \o s.buffer /\ (t.single <=> s.single)
                   /\ (t.double <=> s.double) /\ (t.escape <=> s.escape)

LEMMA ScanBeyond ==
  ASSUME NEW a \in Seq(Cells), NEW s \in States, NEW t \in States, Beyond(a, s, t),
         NEW c \in Characters
  PROVE  Beyond(a, Scan(s, c), Scan(t, c))
<1> DEFINE u == Scan(s, c)
           v == Scan(t, c)
<1>1. \A x \in Cells : a \o Append(s.buffer, x) = Append(a \o s.buffer, x)
  <2>1. s.buffer \in Seq(Cells) BY DEF States
  <2>. QED BY <2>1
<1>2. u \in States /\ v \in States BY ScanTypes
<1>. HIDE DEF u, v
<1>3. CASE c \in Letters
  <2>1. LetterRead(s, u, c) /\ LetterRead(t, v, c) BY <1>3, ScanLetterIs DEF u, v
  <2>. QED BY <1>1, <1>3, <2>1, CharactersAre DEF Beyond, LetterRead, u, v
<1>4. CASE c = Backslash
  <2>1. BackslashRead(s, u) /\ BackslashRead(t, v) BY <1>4, ScanBackslashIs DEF u, v
  <2>. QED BY <1>1, <1>4, <2>1, CharactersAre DEF Beyond, BackslashRead, u, v
<1>5. CASE c = Single
  <2>1. SingleRead(s, u) /\ SingleRead(t, v) BY <1>5, ScanSingleIs DEF u, v
  <2>. QED BY <1>1, <1>5, <2>1, CharactersAre DEF Beyond, SingleRead, u, v
<1>6. CASE c = Double
  <2>1. DoubleRead(s, u) /\ DoubleRead(t, v) BY <1>6, ScanDoubleIs DEF u, v
  <2>. QED BY <1>1, <1>6, <2>1, CharactersAre DEF Beyond, DoubleRead, u, v
<1>7. CASE c = Blank
  <2>1. BlankRead(s, u) /\ BlankRead(t, v) BY <1>7, ScanBlankIs DEF u, v
  <2>. QED BY <1>1, <1>7, <2>1, CharactersAre DEF Beyond, BlankRead, u, v
<1>. QED BY <1>3, <1>4, <1>5, <1>6, <1>7, CharactersAre

LEMMA ScannedBeyond ==
  ASSUME NEW p \in Seq(Characters), NEW a \in Seq(Cells), Clean(Scanned(p), a),
         NEW r \in Seq(Characters)
  PROVE  Beyond(a, Scanned(r), Scanned(p \o r))
<1> DEFINE I == {q \in Seq(Characters) : Beyond(a, Scanned(q), Scanned(p \o q))}
<1>1. << >> \in I
  <2>1. << >> \in Seq(Characters) /\ p \o << >> = p BY EmptySeq, ConcatEmptySeq
  <2>2. /\ Scanned(<< >>).buffer = << >> /\ ~Scanned(<< >>).single
        /\ ~Scanned(<< >>).double /\ ~Scanned(<< >>).escape
    BY ScannedLine DEF Start
  <2>3. a \o << >> = a BY ConcatEmptySeq
  <2>4. Beyond(a, Scanned(<< >>), Scanned(p)) BY <2>2, <2>3 DEF Beyond, Clean
  <2>. QED BY <2>1, <2>4
<1>2. ASSUME NEW q \in Seq(Characters), NEW c \in Characters, q \in I PROVE Append(q, c) \in I
  <2>1. /\ p \o q \in Seq(Characters) /\ Append(q, c) \in Seq(Characters)
        /\ p \o Append(q, c) = Append(p \o q, c)
    OBVIOUS
  <2>2. Scanned(q) \in States /\ Scanned(p \o q) \in States BY <2>1, ScannedLine
  <2>3. Beyond(a, Scanned(q), Scanned(p \o q)) BY <1>2
  <2>4. Beyond(a, Scan(Scanned(q), c), Scan(Scanned(p \o q), c)) BY <2>2, <2>3, ScanBeyond
  <2>5. /\ Scanned(Append(q, c)) = Scan(Scanned(q), c)
        /\ Scanned(Append(p \o q, c)) = Scan(Scanned(p \o q), c)
    BY <2>1, ScannedLine
  <2>. QED BY <2>1, <2>4, <2>5
<1>3. r \in I
  <2>. HIDE DEF I
  <2>. QED BY <1>1, <1>2, Grown
<1>. QED BY <1>3

(***************************************************************************)
(* What is parsed.                                                         *)
(***************************************************************************)
LEMMA ParseIs ==
  ASSUME NEW l \in Seq(Characters)
  PROVE  /\ ParseArgs(l).error = NoError <=>
              ~Scanned(l).single /\ ~Scanned(l).double /\ ~Scanned(l).escape
         /\ ParseArgs(l) = [error |-> ParseArgs(l).error,
                            argv  |-> IF ParseArgs(l).error = NoError
                                      THEN Split(Scanned(l).buffer) ELSE << >>]
<1> DEFINE e == Scanned(l)
           error == IF e.double THEN "Unmatched \""
                    ELSE IF e.single THEN "Unmatched '"
                    ELSE IF e.escape THEN "Attempt to escape end-of-command"
                    ELSE NoError
<1>1. ParseArgs(l) = [error |-> error, argv |-> IF error = NoError THEN Split(e.buffer) ELSE << >>]
  BY DEF ParseArgs
<1>2. error = NoError <=> ~e.single /\ ~e.double /\ ~e.escape
  BY LettersAssumption
<1>. HIDE DEF error
<1>3. ParseArgs(l).error = error BY <1>1
<1>4. ParseArgs(l) = [error |-> ParseArgs(l).error,
                      argv  |-> IF ParseArgs(l).error = NoError THEN Split(e.buffer) ELSE << >>]
  BY <1>1, <1>3, Zenon
<1>5. ParseArgs(l).error = NoError <=> ~e.single /\ ~e.double /\ ~e.escape
  BY <1>2, <1>3
<1>. QED BY <1>4, <1>5

LEMMA SameError ==
  ASSUME NEW l, NEW m, Scanned(l).single <=> Scanned(m).single,
         Scanned(l).double <=> Scanned(m).double, Scanned(l).escape <=> Scanned(m).escape
  PROVE  ParseArgs(l).error = ParseArgs(m).error
<1> DEFINE Error(e) == IF e.double THEN "Unmatched \""
                       ELSE IF e.single THEN "Unmatched '"
                       ELSE IF e.escape THEN "Attempt to escape end-of-command"
                       ELSE NoError
<1>1. ParseArgs(l).error = Error(Scanned(l)) /\ ParseArgs(m).error = Error(Scanned(m))
  BY DEF ParseArgs
<1>2. Error(Scanned(l)) = Error(Scanned(m))
  OBVIOUS
<1>. HIDE DEF Error
<1>. QED BY <1>1, <1>2

LEMMA SumOfPartsHolds ==
  ASSUME NEW l \in Seq(Characters)
  PROVE  SumOfParts(l)
<1>. SUFFICES ASSUME NEW i \in DOMAIN l, l[i] = Blank,
                     ParseArgs(SubSeq(l, 1, i - 1)).error = NoError
              PROVE  ParseArgs(l) =
                       [error |-> ParseArgs(SubSeq(l, i + 1, Len(l))).error,
                        argv  |-> IF ParseArgs(SubSeq(l, i + 1, Len(l))).error = NoError
                                  THEN ParseArgs(SubSeq(l, 1, i - 1)).argv
                                         \o ParseArgs(SubSeq(l, i + 1, Len(l))).argv
                                  ELSE << >>]
  BY DEF SumOfParts
<1> DEFINE p == SubSeq(l, 1, i - 1)
           q == Append(p, Blank)
           r == SubSeq(l, i + 1, Len(l))
           b == Scanned(p).buffer
           z == Append(b, NUL)
<1>1. p \in Seq(Characters) /\ r \in Seq(Characters) /\ q \in Seq(Characters)
  <2>1. p \in Seq(Characters) /\ r \in Seq(Characters) OBVIOUS
  <2>. HIDE DEF p
  <2>. QED BY <2>1, CharactersAre, AppendProperties
<1>2. l = q \o r
  <2>1. q = SubSeq(l, 1, i) OBVIOUS
  <2>2. l = SubSeq(l, 1, i) \o SubSeq(l, i + 1, Len(l))
    <3>1. /\ 1 \in 1 .. Len(l) + 1 /\ i \in 1 - 1 .. Len(l) /\ Len(l) \in i .. Len(l)
      OBVIOUS
    <3>. QED BY <3>1, ConcatAdjacentSubSeq, SubSeqFull
  <2>. QED BY <2>1, <2>2
<1>. HIDE DEF p, r
<1>3. Scanned(p) \in States /\ b \in Seq(Cells) /\ Clean(Scanned(p), b)
  <2>1. ParseArgs(p).error = NoError BY DEF p
  <2>. QED BY <1>1, <2>1, ScannedLine, ParseIs DEF Clean, States
<1>4. z \in Seq(Cells) /\ Clean(Scanned(q), z)
  <2>1. Scanned(q) = Scan(Scanned(p), Blank) BY <1>1, ScannedLine, CharactersAre
  <2>2. BlankRead(Scanned(p), Scanned(q)) BY <1>3, <2>1, ScanBlankIs
  <2>3. z \in Seq(Cells) BY <1>3, CharactersAre, AppendProperties
  <2>. QED BY <1>3, <2>2, <2>3 DEF BlankRead, Clean
<1>. HIDE DEF q
<1>5. Beyond(z, Scanned(r), Scanned(l)) BY <1>1, <1>2, <1>4, ScannedBeyond
<1>6. ParseArgs(l).error = ParseArgs(r).error BY <1>5, SameError DEF Beyond
<1>7. ParseArgs(p).argv = Split(b) /\ ParseArgs(p).error = NoError
  <2>1. ParseArgs(p).error = NoError BY DEF p
  <2>. QED BY <1>1, <2>1, ParseIs
<1>8. ParseArgs(r).error = NoError => ParseArgs(r).argv = Split(Scanned(r).buffer)
  BY <1>1, ParseIs
<1>9. Split(Scanned(l).buffer) = Split(b) \o Split(Scanned(r).buffer)
  <2> DEFINE c == Scanned(r).buffer
  <2>1. c \in Seq(Cells) BY <1>1, ScannedLine DEF States
  <2>2. Scanned(l).buffer = z \o c BY <1>5 DEF Beyond
  <2>. HIDE DEF c
  <2>. QED BY <1>3, <2>1, <2>2, SplitBehind DEF c
<1>10. ParseArgs(l) = [error |-> ParseArgs(l).error,
                       argv  |-> IF ParseArgs(l).error = NoError
                                 THEN Split(Scanned(l).buffer) ELSE << >>]
  BY ParseIs
<1>11. ParseArgs(l) =
         [error |-> ParseArgs(r).error,
          argv  |-> IF ParseArgs(r).error = NoError THEN ParseArgs(p).argv \o ParseArgs(r).argv
                    ELSE << >>]
  BY <1>6, <1>7, <1>8, <1>9, <1>10
<1>. QED BY <1>11 DEF p, r

(***************************************************************************)
(* A line that spells words, and one that has begun.                       *)
(***************************************************************************)
SpellsIn(b, l, f, w) ==
  /\ b \in Seq(Cells) /\ Clean(Scanned(l), b)
  /\ Taken(b).words = MeantWords(f) /\ Taken(b).word = w

Spells(l, f, w) == \E b : SpellsIn(b, l, f, w)

LEMMA SpellsNothing == Spells(<< >>, << >>, << >>)
<1>1. Clean(Scanned(<< >>), << >>) BY ScannedLine DEF Start, Clean
<1>2. Taken(<< >>).words = << >> /\ Taken(<< >>).word = << >> BY TakenBuffer DEF NoWords
<1>3. MeantWords(<< >>) = << >> BY MeantList
<1>4. << >> \in Seq(Cells) BY EmptySeq
<1>5. SpellsIn(<< >>, << >>, << >>, << >>) BY <1>1, <1>2, <1>3, <1>4 DEF SpellsIn
<1>. QED BY <1>5 DEF Spells

LEMMA SpellsCharacter ==
  ASSUME NEW l \in Seq(Characters), NEW f, NEW w, Spells(l, f, w),
         NEW c \in Characters, NEW way \in Ways(c)
  PROVE  l \o way \in Seq(Characters) /\ Spells(l \o way, f, Append(w, c))
<1>1. PICK b : SpellsIn(b, l, f, w) BY DEF Spells
<1>2. b \in Seq(Cells) /\ c \in Cells /\ c # NUL BY <1>1, CharactersAre DEF SpellsIn
<1>3. l \o way \in Seq(Characters) /\ Clean(Scanned(l \o way), Append(b, c))
  BY <1>1, WrittenWay DEF SpellsIn
<1>4. Taken(Append(b, c)) = Take(Taken(b), c) /\ Taken(b) \in Takes BY <1>2, TakenBuffer
<1>5. /\ Take(Taken(b), c).words = Taken(b).words
      /\ Take(Taken(b), c).word = Append(Taken(b).word, c)
  BY <1>2, <1>4, TakeIs
<1>6. Append(b, c) \in Seq(Cells) BY <1>2, AppendProperties
<1>7. SpellsIn(Append(b, c), l \o way, f, Append(w, c))
  BY <1>1, <1>3, <1>4, <1>5, <1>6 DEF SpellsIn
<1>. QED BY <1>3, <1>7 DEF Spells

LEMMA SpellsBlank ==
  ASSUME NEW l \in Seq(Characters), NEW f \in Words, NEW w \in Seq(Characters), Spells(l, f, w)
  PROVE  Spells(Append(l, Blank), Append(f, w), << >>)
<1>1. PICK b : SpellsIn(b, l, f, w) BY DEF Spells
<1> DEFINE d == Append(b, NUL)
<1>2. b \in Seq(Cells) /\ d \in Seq(Cells) /\ Clean(Scanned(l), b)
      /\ Taken(b).words = MeantWords(f) /\ Taken(b).word = w
  <2>1. b \in Seq(Cells) BY <1>1 DEF SpellsIn
  <2>. QED BY <1>1, <2>1, CharactersAre, AppendProperties DEF SpellsIn
<1>3. Clean(Scanned(Append(l, Blank)), d)
  <2>1. Scanned(Append(l, Blank)) = Scan(Scanned(l), Blank) /\ Scanned(l) \in States
    BY ScannedLine, CharactersAre
  <2>2. BlankRead(Scanned(l), Scanned(Append(l, Blank))) BY <2>1, ScanBlankIs
  <2>. QED BY <1>2, <2>2 DEF BlankRead, Clean
<1>. HIDE DEF d
<1>4. Taken(d) = Take(Taken(b), NUL) /\ Taken(b) \in Takes BY <1>2, TakenBuffer, CharactersAre DEF d
<1>5. /\ Taken(d).words = IF w = << >> THEN MeantWords(f) ELSE Append(MeantWords(f), w)
      /\ Taken(d).word = << >>
  <2>1. /\ Take(Taken(b), NUL).words = IF Taken(b).word = << >> THEN Taken(b).words
                                       ELSE Append(Taken(b).words, Taken(b).word)
        /\ Take(Taken(b), NUL).word = << >>
    BY <1>4, TakeIs, CharactersAre
  <2>. QED BY <1>2, <1>4, <2>1
<1>6. MeantWords(Append(f, w)) = MeantWord(MeantWords(f), w) BY MeantList DEF Words
<1>7. Taken(d).words = MeantWords(Append(f, w)) BY <1>5, <1>6 DEF MeantWord
<1>8. SpellsIn(d, Append(l, Blank), Append(f, w), << >>)
  BY <1>2, <1>3, <1>5, <1>7 DEF SpellsIn
<1>. QED BY <1>8 DEF Spells

LEMMA SpellsParse ==
  ASSUME NEW l \in Seq(Characters), NEW f \in Words, NEW w \in Seq(Characters), Spells(l, f, w)
  PROVE  ParseArgs(l) = [error |-> NoError, argv |-> MeantWords(Append(f, w))]
<1>1. PICK b : SpellsIn(b, l, f, w) BY DEF Spells
<1>2. Scanned(l).buffer = b /\ ParseArgs(l).error = NoError
  BY <1>1, ParseIs DEF SpellsIn, Clean
<1>3. Split(b) = Take(Taken(b), NUL).words BY DEF Split
<1>4. Taken(b) \in Takes BY <1>1, TakenBuffer DEF SpellsIn
<1>5. Split(b) = IF w = << >> THEN MeantWords(f) ELSE Append(MeantWords(f), w)
  BY <1>1, <1>3, <1>4, TakeIs, CharactersAre DEF SpellsIn
<1>6. MeantWords(Append(f, w)) = MeantWord(MeantWords(f), w) BY MeantList DEF Words
<1>7. Split(b) = MeantWords(Append(f, w)) BY <1>5, <1>6 DEF MeantWord
<1>. QED BY <1>2, <1>7, ParseIs

(***************************************************************************)
(* The configuration as it is written.                                     *)
(***************************************************************************)
Written ==
  /\ line \in Seq(Characters)
  /\ stage = "configure" => wanted = None
  /\ words # None /\ stage = "configure" =>
       \E f \in Words, w \in Seq(Characters) : words = Append(f, w) /\ Spells(line, f, w)

LEMMA WrittenParses == Written => ParsesAsMeant
<1>. SUFFICES ASSUME Written PROVE ParsesAsMeant OBVIOUS
<1>1. SumOfParts(line) BY SumOfPartsHolds DEF Written
<1>2. words # None /\ stage = "configure" =>
        ParseArgs(line) = [error |-> NoError, argv |-> MeantWords(words)]
  BY SpellsParse DEF Written
<1>. QED BY <1>1, <1>2 DEF ParsesAsMeant

Replaced(S, u, n, v) ==
  /\ [u EXCEPT ![n] = v] \in Seq(S) /\ Len([u EXCEPT ![n] = v]) = Len(u)
  /\ \A i \in 1 .. Len(u) : [u EXCEPT ![n] = v][i] = IF i = n THEN v ELSE u[i]

LEMMA ReplacedOne ==
  ASSUME NEW S, NEW u \in Seq(S), NEW n \in 1 .. Len(u), NEW v \in S
  PROVE  Replaced(S, u, n, v)
BY DEF Replaced

EndsIn(u, f, v) == [u EXCEPT ![Len(u)] = v] = Append(f, v)

LEMMA LastWord ==
  ASSUME NEW S, NEW f \in Seq(S), NEW w \in S, NEW v \in S,
         NEW u \in Seq(S), u = Append(f, w)
  PROVE  EndsIn(u, f, v)
<1> DEFINE t == [u EXCEPT ![Len(u)] = v]
           z == Append(f, v)
<1>1. u \in Seq(S) /\ Len(u) = Len(f) + 1 /\ Len(f) \in Nat /\ Len(u) \in 1 .. Len(u)
      /\ \A i \in 1 .. Len(f) : u[i] = f[i]
  OBVIOUS
<1>2. /\ t \in Seq(S) /\ Len(t) = Len(u)
      /\ \A i \in 1 .. Len(u) : t[i] = IF i = Len(u) THEN v ELSE u[i]
  <2>1. Replaced(S, u, Len(u), v) BY <1>1, ReplacedOne
  <2>. QED BY <2>1 DEF Replaced
<1>3. /\ z \in Seq(S) /\ Len(z) = Len(f) + 1
      /\ \A i \in 1 .. Len(f) : z[i] = f[i]
      /\ z[Len(f) + 1] = v
  OBVIOUS
<1>. HIDE DEF t, z
<1>4. \A i \in 1 .. Len(t) : t[i] = z[i]
  <2>1. \A i \in 1 .. Len(t) : i = Len(f) + 1 \/ i \in 1 .. Len(f) BY <1>1, <1>2
  <2>. QED BY <1>1, <1>2, <1>3, <2>1
<1>5. t = z BY <1>1, <1>2, <1>3, <1>4, SeqEqual
<1>. QED BY <1>5 DEF EndsIn, t, z

LEMMA WrittenNothing ==
  ASSUME line = << >>, words = << << >> >>, wanted = None
  PROVE  Written
<1>1. << >> \in Seq(Characters) /\ << >> \in Words BY EmptySeq DEF Words
<1>2. words = Append(<< >>, << >>) OBVIOUS
<1>. QED BY <1>1, <1>2, SpellsNothing DEF Written

LEMMA WrittenStep ==
  ASSUME Written, LaunchNext
  PROVE  Written'
<1>1. CASE WriteMeant
  <2>1. stage = "configure" /\ words # None /\ stage' = stage /\ wanted' = wanted
    BY <1>1 DEF WriteMeant, Configuring
  <2>2. PICK f \in Words, w \in Seq(Characters) : words = Append(f, w) /\ Spells(line, f, w)
    BY <2>1 DEF Written
  <2>3. ASSUME NEW c \in Characters, NEW way \in Ways(c), line' = line \o way,
               words' = [words EXCEPT ![Len(words)] = Append(@, c)]
        PROVE  Written'
    <3>1. words' = Append(f, Append(w, c))
      <4>1. words[Len(words)] = w BY <2>2 DEF Words
      <4>2. words' = [words EXCEPT ![Len(words)] = Append(w, c)] BY <2>3, <4>1
      <4>3. Append(w, c) \in Seq(Characters) BY AppendProperties
      <4>4. EndsIn(words, f, Append(w, c))
        <5>1. words \in Seq(Seq(Characters)) BY <2>2, AppendProperties DEF Words
        <5>. QED BY <2>2, <4>3, <5>1, LastWord DEF Words
      <4>. QED BY <4>2, <4>4 DEF EndsIn
    <3>2. line' \in Seq(Characters) /\ Spells(line', f, Append(w, c))
      BY <2>2, <2>3, SpellsCharacter DEF Written
    <3>3. Append(w, c) \in Seq(Characters) BY AppendProperties
    <3>. QED BY <2>1, <3>1, <3>2, <3>3 DEF Written
  <2>4. ASSUME line' = Append(line, Blank), words' = Append(words, << >>) PROVE Written'
    <3>1. line' \in Seq(Characters) BY <2>4, CharactersAre, AppendProperties DEF Written
    <3>2. Spells(line', words, << >>) BY <2>2, <2>4, SpellsBlank DEF Written
    <3>3. words \in Words /\ << >> \in Seq(Characters) BY <2>2, AppendProperties, EmptySeq DEF Words
    <3>. QED BY <2>1, <2>4, <3>1, <3>2, <3>3 DEF Written
  <2>. QED BY <1>1, <2>3, <2>4 DEF WriteMeant
<1>2. CASE WriteAtRandom
  <2>1. words' = None /\ wanted' = wanted /\ stage' = stage
    BY <1>2 DEF WriteAtRandom, Configuring
  <2>2. line' \in Seq(Characters) BY <1>2, AppendProperties DEF WriteAtRandom, Written
  <2>. QED BY <2>1, <2>2 DEF Written
<1>3. CASE StartOver
  <2>1. line' = << >> /\ words' = << << >> >> /\ wanted' = None /\ stage' = stage
    BY <1>3 DEF StartOver, Configuring, Written
  <2>2. << >> \in Seq(Characters) /\ << >> \in Words BY EmptySeq DEF Words
  <2>3. words' = Append(<< >>, << >>) BY <2>1
  <2>. QED BY <2>1, <2>2, <2>3, SpellsNothing DEF Written
<1>4. CASE Launch
  <2>1. line' = << >> /\ words' = None /\ stage' = "transfer" BY <1>4 DEF Launch
  <2>. QED BY <2>1, EmptySeq DEF Written
<1>5. CASE UNCHANGED configuration /\ (stage' # "configure" \/ stage' = stage)
  BY <1>5 DEF Written, configuration
<1>6. Writer => UNCHANGED configuration /\ stage' = stage
  BY DEF Writer, Write, WriteDone, WriteFails
<1>7. Reader => UNCHANGED configuration /\ (stage' = stage \/ stage' = "run")
  BY DEF Reader, ReadPart, ReadEnd, EndOfInput
<1>8. Helper => UNCHANGED configuration /\ stage' = stage BY DEF Helper
<1>. QED BY <1>1, <1>2, <1>3, <1>4, <1>5, <1>6, <1>7, <1>8 DEF LaunchNext

(***************************************************************************)
(* What retry_write writes: the lines one after the other.                 *)
(***************************************************************************)
Bytes == NameLetters \cup {LineEnd}
Texts == Seq(Bytes)

StreamOf(c) == FlattenSeq([i \in DOMAIN c |-> Append(c[i], LineEnd)])

\* Where the lines end in the stream.
Ends(off, c, st) ==
  /\ off \in [0 .. Len(c) -> Nat] /\ off[0] = 0 /\ off[Len(c)] = Len(st)
  /\ st \in Texts
  /\ \A k \in 0 .. Len(c) : off[k] <= Len(st)
  /\ \A k \in 1 .. Len(c) :
       /\ off[k] = off[k - 1] + Len(c[k]) + 1 /\ st[off[k]] = LineEnd
       /\ \A j \in 1 .. Len(c[k]) : st[off[k - 1] + j] = c[k][j]

Joined(g, s) ==
  /\ g[0] = << >>
  /\ \A n \in 1 .. Len(s) : g[n] = g[n - 1] \o s[n]

LEMMA JoinExists ==
  ASSUME NEW s \in Seq(Texts)
  PROVE  \E g \in [0 .. Len(s) -> Texts] : Joined(g, s)
<1> DEFINE step == [x \in Texts \X Texts |-> x[1] \o x[2]]
           none == << >>
<1>1. \A a, b \in Texts : a \o b \in Texts BY ConcatProperties DEF Texts
<1>2. none \in Texts BY EmptySeq DEF Texts
<1>3. step \in [Texts \X Texts -> Texts] /\ \A a, b \in Texts : step[<<a, b>>] = a \o b BY <1>1
<1>. HIDE DEF step, none
<1>4. PICK g \in [0 .. Len(s) -> Texts] : FoldsTo(g, none, step, s)
  BY <1>2, <1>3, FoldExists
<1>5. \A n \in 1 .. Len(s) : g[n - 1] \in Texts /\ s[n] \in Texts OBVIOUS
<1>6. g[0] = none /\ \A n \in 1 .. Len(s) : g[n] = step[<<g[n - 1], s[n]>>]
  BY <1>4 DEF FoldsTo
<1>7. \A n \in 1 .. Len(s) : g[n] = g[n - 1] \o s[n] BY <1>3, <1>5, <1>6
<1>. QED BY <1>6, <1>7 DEF Joined, none

LEMMA FlattenIs ==
  ASSUME NEW s \in Seq(Texts), NEW g \in [0 .. Len(s) -> Texts], Joined(g, s)
  PROVE  FlattenSeq(s) = g[Len(s)]
<1>1. Len(s) \in Nat OBVIOUS
<1>2. CASE Len(s) = 0
  <2>1. s = << >> BY <1>2, EmptySeq
  <2>2. FlattenSeq(s) = s BY <1>2 DEF FlattenSeq
  <2>. QED BY <1>2, <2>1, <2>2 DEF Joined
<1>3. CASE Len(s) # 0
  <2> DEFINE E(f) == f = [i \in 1 .. Len(s) |-> IF i = 1 THEN s[i] ELSE f[i - 1] \o s[i]]
             h == CHOOSE f : E(f)
             d == [i \in 1 .. Len(s) |-> g[i]]
  <2>1. FlattenSeq(s) = h[Len(s)] BY <1>3 DEF FlattenSeq
  <2>2. g[0] = << >> /\ \A n \in 1 .. Len(s) : g[n] = g[n - 1] \o s[n] BY DEF Joined
  <2>3. 1 \in 1 .. Len(s) /\ \A n \in 1 .. Len(s) : s[n] \in Texts BY <1>1, <1>3
  <2>4. g[1] = s[1]
    <3>1. g[1] = g[1 - 1] \o s[1] BY <2>2, <2>3
    <3>2. g[1] = << >> \o s[1]
      <4>1. 1 - 1 = 0 OBVIOUS
      <4>2. g[0] = << >> BY <2>2
      <4>. QED BY ONLY <3>1, <4>1, <4>2, Zenon
    <3>. QED BY <2>3, <3>2, ConcatEmptySeq DEF Texts
  <2>5. E(d)
    <3>1. ASSUME NEW i \in 1 .. Len(s)
          PROVE  d[i] = IF i = 1 THEN s[i] ELSE d[i - 1] \o s[i]
      <4>1. CASE i = 1 BY <2>4, <4>1
      <4>2. CASE i # 1
        <5>1. i - 1 \in 1 .. Len(s) BY <4>2
        <5>. QED BY <2>2, <4>2, <5>1
      <4>. QED BY <4>1, <4>2
    <3>. QED BY <3>1
  <2>6. E(h)
    <3>. HIDE DEF E, d
    <3>. QED BY <2>5
  <2>. HIDE DEF h, d
  <2>7. \A i \in 1 .. Len(s) : h[i] = IF i = 1 THEN s[i] ELSE h[i - 1] \o s[i] BY <2>6
  <2> DEFINE I == {n \in 0 .. Len(s) : n = 0 \/ h[n] = g[n]}
  <2>8. 0 \in I BY <1>1
  <2>9. ASSUME NEW n \in 1 .. Len(s), n - 1 \in I PROVE n \in I
    <3>1. CASE n = 1 BY <2>3, <2>4, <2>7, <3>1
    <3>2. CASE n # 1
      <4>1. h[n - 1] = g[n - 1] /\ n \in 0 .. Len(s) BY <2>9, <3>2
      <4>2. h[n] = h[n - 1] \o s[n] BY <2>7, <3>2
      <4>. QED BY <2>2, <4>1, <4>2
    <3>. QED BY <3>1, <3>2
  <2>10. 0 .. Len(s) \subseteq I
    <3>. HIDE DEF I
    <3>. QED BY <1>1, <2>8, <2>9, UpTo
  <2>11. h[Len(s)] = g[Len(s)] BY <1>1, <1>3, <2>10
  <2>. QED BY <2>1, <2>11
<1>. QED BY <1>2, <1>3

LEMMA JoinedPrefixes ==
  ASSUME NEW s \in Seq(Texts), NEW g \in [0 .. Len(s) -> Texts], Joined(g, s)
  PROVE  \A k \in 0 .. Len(s) :
           /\ Len(g[k]) <= Len(g[Len(s)])
           /\ \A j \in 1 .. Len(g[k]) : g[Len(s)][j] = g[k][j]
<1>1. Len(s) \in Nat /\ 0 \in 0 .. Len(s) /\ Len(s) \in 0 .. Len(s) OBVIOUS
<1> DEFINE P(k, n) == /\ Len(g[k]) <= Len(g[n])
                      /\ \A j \in 1 .. Len(g[k]) : g[n][j] = g[k][j]
           I == {n \in 0 .. Len(s) : \A k \in 0 .. n : P(k, n)}
<1>2. \A n \in 0 .. Len(s) : Len(g[n]) \in Nat BY DEF Texts
<1>3. \A n \in 0 .. Len(s) : P(n, n) BY <1>2
<1>4. 0 \in I
  <2>1. \A k \in 0 .. 0 : k = 0 OBVIOUS
  <2>. HIDE DEF P
  <2>. QED BY <1>1, <1>3, <2>1
<1>5. ASSUME NEW n \in 1 .. Len(s), n - 1 \in I PROVE n \in I
  <2>1. n - 1 \in 0 .. Len(s) /\ n \in 0 .. Len(s) /\ g[n - 1] \in Texts /\ s[n] \in Texts
    BY <1>1
  <2>2. g[n] = g[n - 1] \o s[n] BY DEF Joined
  <2>3. /\ Len(g[n]) = Len(g[n - 1]) + Len(s[n])
        /\ \A j \in 1 .. Len(g[n - 1]) : g[n][j] = g[n - 1][j]
    BY <2>1, <2>2, ConcatProperties DEF Texts
  <2>4. Len(s[n]) \in Nat BY <2>1 DEF Texts
  <2>5. ASSUME NEW k \in 0 .. n PROVE P(k, n)
    <3>1. CASE k = n BY <1>3, <2>1, <3>1
    <3>2. CASE k # n
      <4>1. k \in 0 .. n - 1 /\ k \in 0 .. Len(s) BY <3>2
      <4>2. P(k, n - 1) BY <1>5, <4>1
      <4>3. Len(g[k]) \in Nat /\ Len(g[n - 1]) \in Nat BY <1>2, <2>1, <4>1
      <4>4. Len(g[k]) <= Len(g[n])
        <5>1. Len(g[k]) <= Len(g[n - 1]) BY <4>2
        <5>2. Len(g[n]) = Len(g[n - 1]) + Len(s[n]) BY <2>3
        <5>3. \A a, b, d, e \in Nat : a <= b /\ e = b + d => a <= e OBVIOUS
        <5>4. Len(g[n]) \in Nat BY <1>2, <2>1
        <5>. HIDE DEF P, I
        <5>. QED BY ONLY <2>4, <4>3, <5>1, <5>2, <5>3, <5>4
      <4>5. \A j \in 1 .. Len(g[k]) : g[n][j] = g[k][j] BY <2>3, <4>2, <4>3
      <4>. QED BY <4>4, <4>5
    <3>. QED BY <3>1, <3>2
  <2>. HIDE DEF P
  <2>. QED BY <2>1, <2>5
<1>6. 0 .. Len(s) \subseteq I
  <2>. HIDE DEF I
  <2>. QED BY <1>1, <1>4, <1>5, UpTo
<1>7. Len(s) \in I BY <1>1, <1>6
<1>. QED BY <1>7

LEMMA EndsExist ==
  ASSUME NEW c \in Seq(Seq(NameLetters))
  PROVE  \E off : Ends(off, c, StreamOf(c))
<1> DEFINE s == [i \in DOMAIN c |-> Append(c[i], LineEnd)]
<1>0. /\ Len(c) \in Nat /\ DOMAIN c = 1 .. Len(c)
      /\ \A k \in 1 .. Len(c) : c[k] \in Seq(NameLetters) /\ c[k] \in Seq(Bytes)
      /\ LineEnd \in Bytes
  BY DEF Bytes
<1>1. \A k \in 1 .. Len(c) :
        /\ Append(c[k], LineEnd) \in Texts /\ Len(Append(c[k], LineEnd)) = Len(c[k]) + 1
        /\ Append(c[k], LineEnd)[Len(c[k]) + 1] = LineEnd
        /\ \A j \in 1 .. Len(c[k]) : Append(c[k], LineEnd)[j] = c[k][j]
        /\ Len(c[k]) \in Nat
  BY <1>0, AppendProperties DEF Texts
<1>2. s \in Seq(Texts) /\ Len(s) = Len(c) /\ \A k \in 1 .. Len(c) : s[k] = Append(c[k], LineEnd)
  BY <1>0, <1>1
<1>3. StreamOf(c) = FlattenSeq(s) BY DEF StreamOf
<1>. HIDE DEF s
<1>4. PICK g \in [0 .. Len(s) -> Texts] : Joined(g, s) BY <1>2, JoinExists
<1>5. StreamOf(c) = g[Len(c)] BY <1>2, <1>3, <1>4, FlattenIs
<1> DEFINE off == [k \in 0 .. Len(c) |-> Len(g[k])]
           st == g[Len(c)]
<1>6. \A k \in 0 .. Len(c) : g[k] \in Texts /\ Len(g[k]) \in Nat
  <2>1. \A k \in 0 .. Len(c) : k \in 0 .. Len(s) BY <1>2
  <2>2. \A k \in 0 .. Len(c) : g[k] \in Texts BY <1>4, <2>1
  <2>3. \A t \in Texts : Len(t) \in Nat BY DEF Texts
  <2>. QED BY <2>2, <2>3
<1>7. \A k \in 0 .. Len(c) :
        Len(g[k]) <= Len(st) /\ \A j \in 1 .. Len(g[k]) : st[j] = g[k][j]
  <2>1. Len(s) = Len(c) BY <1>2
  <2>2. \A k \in 0 .. Len(s) :
          Len(g[k]) <= Len(g[Len(s)]) /\ \A j \in 1 .. Len(g[k]) : g[Len(s)][j] = g[k][j]
    BY <1>2, <1>4, JoinedPrefixes
  <2>. QED BY <2>1, <2>2
<1>8. off \in [0 .. Len(c) -> Nat] /\ \A k \in 0 .. Len(c) : off[k] = Len(g[k])
  BY <1>6
<1>9. off[0] = 0 /\ off[Len(c)] = Len(st) /\ st \in Texts
  <2>1. g[0] = << >> BY <1>4 DEF Joined
  <2>. QED BY <1>0, <1>6, <1>8, <2>1
<1>10. \A k \in 0 .. Len(c) : off[k] <= Len(st) BY <1>7, <1>8
<1>. HIDE DEF off, st
<1>11. ASSUME NEW k \in 1 .. Len(c)
       PROVE  /\ off[k] = off[k - 1] + Len(c[k]) + 1 /\ st[off[k]] = LineEnd
              /\ \A j \in 1 .. Len(c[k]) : st[off[k - 1] + j] = c[k][j]
  <2> DEFINE a == g[k - 1]
             x == Append(c[k], LineEnd)
  <2>1. k - 1 \in 0 .. Len(c) /\ k \in 0 .. Len(c) BY <1>0
  <2>2. g[k] = a \o x BY <1>2, <1>4 DEF Joined
  <2>3. a \in Texts /\ x \in Texts /\ Len(a) \in Nat BY <1>1, <1>6, <2>1
  <2>4. /\ Len(x) = Len(c[k]) + 1 /\ x[Len(c[k]) + 1] = LineEnd
        /\ \A j \in 1 .. Len(c[k]) : x[j] = c[k][j] /\ Len(c[k]) \in Nat
        /\ Len(c[k]) \in Nat
    BY <1>1
  <2>5. off[k - 1] = Len(a) /\ off[k] = Len(g[k]) BY <1>8, <2>1
  <2>. HIDE DEF a, x
  <2>6. /\ Len(g[k]) = Len(a) + Len(x)
        /\ \A j \in 1 .. Len(x) : g[k][Len(a) + j] = x[j]
    BY <2>2, <2>3, ConcatProperties DEF Texts
  <2>7. \A j \in 1 .. Len(x) : st[Len(a) + j] = x[j]
    <3>1. \A j \in 1 .. Len(x) : Len(a) + j \in 1 .. Len(g[k]) BY <2>3, <2>4, <2>6
    <3>. QED BY <1>7, <2>1, <2>6, <3>1
  <2>8. off[k] = off[k - 1] + Len(c[k]) + 1 BY <2>3, <2>4, <2>5, <2>6
  <2>9. st[off[k]] = LineEnd
    <3>1. Len(x) \in 1 .. Len(x) /\ off[k] = Len(a) + Len(x) BY <2>4, <2>5, <2>6
    <3>. QED BY <2>4, <2>7, <3>1
  <2>10. \A j \in 1 .. Len(c[k]) : st[off[k - 1] + j] = c[k][j] BY <2>4, <2>5, <2>7
  <2>. QED BY <2>8, <2>9, <2>10
<1>12. Ends(off, c, st) BY <1>8, <1>9, <1>10, <1>11 DEF Ends
<1>. QED BY <1>5, <1>12 DEF st

(***************************************************************************)
(* The stream between the two: lines that were read, a line that has       *)
(* begun, what is in the pipe, and how much of the stream was written.     *)
(***************************************************************************)
Cut(off, c, st, ls, t, p, n) ==
  /\ Ends(off, c, st)
  /\ ls \in Seq(Names) /\ t \in Seq(NameLetters) /\ p \in Texts /\ n \in Nat
  /\ Len(ls) <= Len(c) /\ \A i \in 1 .. Len(ls) : ls[i] = c[i]
  /\ off[Len(ls)] + Len(t) + Len(p) = n /\ n <= Len(st)
  /\ \A j \in 1 .. Len(t) : t[j] = st[off[Len(ls)] + j]
  /\ \A j \in 1 .. Len(p) : p[j] = st[off[Len(ls)] + Len(t) + j]

CutTyped(off, c, st, ls, t, p, n) ==
  /\ Len(c) \in Nat /\ Len(st) \in Nat /\ Len(ls) \in Nat /\ Len(t) \in Nat
  /\ Len(p) \in Nat /\ n \in Nat /\ off[Len(ls)] \in Nat
  /\ Len(ls) \in 0 .. Len(c) /\ off[Len(c)] = Len(st)
  /\ off[Len(ls)] + Len(t) + Len(p) = n /\ n <= Len(st)

LEMMA CutTypes ==
  ASSUME NEW off, NEW c \in Seq(Names), NEW st, NEW ls, NEW t, NEW p, NEW n,
         Cut(off, c, st, ls, t, p, n)
  PROVE  CutTyped(off, c, st, ls, t, p, n)
<1>1. Len(c) \in Nat /\ Len(ls) \in Nat /\ Len(t) \in Nat BY DEF Cut
<1>2. Len(p) \in Nat BY DEF Cut, Texts
<1>3. Len(st) \in Nat BY DEF Cut, Ends, Texts
<1>4. Len(ls) \in 0 .. Len(c) BY <1>1 DEF Cut
<1>5. off[Len(ls)] \in Nat BY <1>4 DEF Cut, Ends
<1>. QED BY <1>1, <1>2, <1>3, <1>4, <1>5 DEF Cut, Ends, CutTyped

LEMMA CutWritten ==
  ASSUME NEW off, NEW c \in Seq(Names), NEW st, NEW ls, NEW t, NEW p, NEW n,
         Cut(off, c, st, ls, t, p, n), NEW i \in Nat, n + i <= Len(st)
  PROVE  Cut(off, c, st, ls, t, p \o SubSeq(st, n + 1, n + i), n + i)
<1> DEFINE w == SubSeq(st, n + 1, n + i)
           q == p \o w
           o == off[Len(ls)] + Len(t)
<1>1. st \in Texts /\ p \in Texts BY DEF Cut, Ends
<1>2. /\ n \in Nat /\ Len(st) \in Nat /\ o \in Nat /\ o + Len(p) = n /\ Len(p) \in Nat
  <2>1. CutTyped(off, c, st, ls, t, p, n) BY CutTypes
  <2>. QED BY <2>1 DEF CutTyped
<1>3. w \in Texts /\ Len(w) = i /\ \A j \in 1 .. i : w[j] = st[n + j]
  <2>1. \A j \in n + 1 .. n + i : st[j] \in Bytes BY <1>1, <1>2 DEF Texts
  <2>2. n + 1 \in Int /\ n + i \in Int BY <1>2
  <2>3. /\ w \in Texts /\ Len(w) = IF n + 1 <= n + i THEN n + i - (n + 1) + 1 ELSE 0
        /\ \A j \in 1 .. n + i - (n + 1) + 1 : w[j] = st[n + 1 + j - 1]
    BY <1>1, <1>2, <2>1, <2>2 DEF Texts
  <2>4. n + i - (n + 1) + 1 = i /\ \A j \in 1 .. i : n + 1 + j - 1 = n + j BY <1>2
  <2>. HIDE DEF w
  <2>. QED BY <1>2, <2>3, <2>4
<1>. HIDE DEF w
<1>4. /\ q \in Texts /\ Len(q) = Len(p) + i
      /\ \A j \in 1 .. Len(p) + i : q[j] = IF j <= Len(p) THEN p[j] ELSE w[j - Len(p)]
  BY <1>1, <1>3, ConcatProperties DEF Texts
<1>. HIDE DEF q
<1>5. \A j \in 1 .. Len(q) : q[j] = st[o + j]
  <2>. SUFFICES ASSUME NEW j \in 1 .. Len(p) + i PROVE q[j] = st[o + j] BY <1>4
  <2>1. CASE j <= Len(p)
    <3>1. j \in 1 .. Len(p) /\ q[j] = p[j] BY <1>2, <1>4, <2>1
    <3>. QED BY <3>1 DEF Cut
  <2>2. CASE ~(j <= Len(p))
    <3>1. j - Len(p) \in 1 .. i /\ n + (j - Len(p)) = o + j
      <4>. HIDE DEF o
      <4>. QED BY <1>2, <2>2
    <3>. QED BY <1>3, <1>4, <2>2, <3>1
  <2>. QED BY <2>1, <2>2
<1>6. n + i \in Nat /\ o + Len(q) = n + i
  <2>. HIDE DEF o
  <2>. QED BY <1>2, <1>4
<1>. QED BY <1>4, <1>5, <1>6 DEF Cut, q, w

LEMMA CutPart ==
  ASSUME NEW off, NEW c \in Seq(Names), NEW st, NEW ls, NEW t, NEW p, NEW n,
         Cut(off, c, st, ls, t, p, n), NEW m \in 1 .. Len(p),
         \A j \in 1 .. m : p[j] # LineEnd
  PROVE  Cut(off, c, st, ls, t \o SubSeq(p, 1, m), SubSeq(p, m + 1, Len(p)), n)
<1> DEFINE h == SubSeq(p, 1, m)
           u == t \o h
           q == SubSeq(p, m + 1, Len(p))
           o == off[Len(ls)]
<1>1. /\ p \in Seq(Bytes) /\ Len(p) \in Nat /\ m \in Nat /\ o \in Nat /\ n \in Nat
      /\ o + Len(t) + Len(p) = n /\ Len(t) \in Nat /\ t \in Seq(NameLetters)
  <2>1. CutTyped(off, c, st, ls, t, p, n) BY CutTypes
  <2>. QED BY <2>1 DEF CutTyped, Cut, Texts
<1>2. /\ h \in Seq(NameLetters) /\ Len(h) = m /\ \A j \in 1 .. m : h[j] = p[j]
  <2>1. \A j \in 1 .. m : p[j] \in NameLetters BY <1>1 DEF Bytes
  <2>. QED BY <1>1, <2>1
<1>3. /\ q \in Texts /\ Len(q) = Len(p) - m /\ \A j \in 1 .. Len(p) - m : q[j] = p[m + j]
  BY <1>1 DEF Texts
<1>. HIDE DEF h, q
<1>4. /\ u \in Seq(NameLetters) /\ Len(u) = Len(t) + m
      /\ \A j \in 1 .. Len(t) + m : u[j] = IF j <= Len(t) THEN t[j] ELSE h[j - Len(t)]
  BY <1>1, <1>2, ConcatProperties
<1>. HIDE DEF u
<1>5. \A j \in 1 .. Len(u) : u[j] = st[o + j]
  <2>. SUFFICES ASSUME NEW j \in 1 .. Len(t) + m PROVE u[j] = st[o + j] BY <1>4
  <2>1. CASE j <= Len(t)
    <3>1. j \in 1 .. Len(t) /\ u[j] = t[j] BY <1>1, <1>4, <2>1
    <3>. QED BY <3>1 DEF Cut
  <2>2. CASE ~(j <= Len(t))
    <3>1. /\ j - Len(t) \in 1 .. m /\ j - Len(t) \in 1 .. Len(p)
          /\ o + Len(t) + (j - Len(t)) = o + j
      BY <1>1, <2>2
    <3>2. u[j] = p[j - Len(t)] BY <1>2, <1>4, <2>2, <3>1
    <3>3. p[j - Len(t)] = st[o + Len(t) + (j - Len(t))] BY <3>1 DEF Cut
    <3>. QED BY <3>1, <3>2, <3>3
  <2>. QED BY <2>1, <2>2
<1>6. \A j \in 1 .. Len(q) : q[j] = st[o + Len(u) + j]
  <2>. SUFFICES ASSUME NEW j \in 1 .. Len(p) - m PROVE q[j] = st[o + Len(u) + j] BY <1>3
  <2>1. m + j \in 1 .. Len(p) /\ o + Len(t) + (m + j) = o + Len(u) + j BY <1>1, <1>4
  <2>2. p[m + j] = st[o + Len(t) + (m + j)] BY <2>1 DEF Cut
  <2>. QED BY <1>3, <2>1, <2>2
<1>7. o + Len(u) + Len(q) = n BY <1>1, <1>3, <1>4
<1>. QED BY <1>3, <1>4, <1>5, <1>6, <1>7 DEF Cut, u, h, q

\* A line end in what was read is that of the first line not yet there.
LEMMA CutLine ==
  ASSUME NEW off, NEW c \in Seq(Names), NEW st, NEW ls, NEW t, NEW p, NEW n,
         Cut(off, c, st, ls, t, p, n), NEW m \in 1 .. Len(p), p[m] = LineEnd,
         \A j \in 1 .. m - 1 : p[j] # LineEnd
  PROVE  Cut(off, c, st, Append(ls, Front(t \o SubSeq(p, 1, m))), << >>,
             SubSeq(p, m + 1, Len(p)), n)
<1> DEFINE k == Len(ls)
           o == off[k]
           x == c[k + 1]
           e == off[k + 1]
           h == SubSeq(p, 1, m)
           u == t \o h
           v == Front(u)
           q == SubSeq(p, m + 1, Len(p))
           us == Append(ls, v)
<1>1. /\ p \in Seq(Bytes) /\ Len(p) \in Nat /\ m \in Nat /\ o \in Nat /\ n \in Nat
      /\ o + Len(t) + Len(p) = n /\ Len(t) \in Nat /\ t \in Seq(NameLetters)
      /\ Len(st) \in Nat /\ n <= Len(st) /\ off[Len(c)] = Len(st)
      /\ k \in 0 .. Len(c) /\ Len(c) \in Nat /\ k \in Nat
  <2>1. CutTyped(off, c, st, ls, t, p, n) BY CutTypes
  <2>. QED BY <2>1 DEF CutTyped, Cut, Texts
<1>2. k + 1 \in 1 .. Len(c)
  <2>1. o < Len(st) BY <1>1
  <2>2. k # Len(c) BY <1>1, <2>1
  <2>. QED BY <1>1, <2>2
<1>3. /\ e = o + Len(x) + 1 /\ st[e] = LineEnd
      /\ \A j \in 1 .. Len(x) : st[o + j] = x[j]
      /\ e \in Nat
  <2>1. Ends(off, c, st) BY DEF Cut
  <2>2. k + 1 - 1 = k /\ k + 1 \in 0 .. Len(c) BY <1>1, <1>2
  <2>3. /\ off[k + 1] = off[k + 1 - 1] + Len(c[k + 1]) + 1 /\ st[off[k + 1]] = LineEnd
        /\ \A j \in 1 .. Len(c[k + 1]) : st[off[k + 1 - 1] + j] = c[k + 1][j]
    BY <1>2, <2>1 DEF Ends
  <2>4. off[k + 1] \in Nat BY <2>1, <2>2 DEF Ends
  <2>. QED BY <2>2, <2>3, <2>4
<1>4. x \in Names /\ x \in Seq(NameLetters) /\ Len(x) \in Nat
      /\ \A j \in 1 .. Len(x) : x[j] # LineEnd
  <2>1. x \in Names BY <1>2
  <2>2. x \in Seq(NameLetters) BY <2>1, EmptySeq, LaunchAssumption DEF Names
  <2>. QED BY <2>1, <2>2, LaunchAssumption
<1>. HIDE DEF x, k, o, e
\* The character m is at the end of the line.
<1>5. \A j \in 1 .. Len(t) : st[o + j] = t[j] /\ t[j] # LineEnd
  BY <1>1, LaunchAssumption DEF Cut, k, o
<1>6. \A j \in 1 .. m : p[j] = st[o + Len(t) + j] BY <1>1 DEF Cut, k, o
<1>7. Len(x) + 1 = Len(t) + m
  <2>1. CASE Len(x) + 1 <= Len(t)
    <3>1. Len(x) + 1 \in 1 .. Len(t) /\ o + (Len(x) + 1) = e BY <1>1, <1>3, <1>4, <2>1
    <3>. QED BY <1>3, <1>5, <3>1
  <2>2. CASE Len(x) + 1 > Len(t) /\ Len(x) + 1 < Len(t) + m
    <3>1. Len(x) + 1 - Len(t) \in 1 .. m - 1 /\ Len(x) + 1 - Len(t) \in 1 .. m
          /\ o + Len(t) + (Len(x) + 1 - Len(t)) = e
      BY <1>1, <1>3, <1>4, <2>2
    <3>2. p[Len(x) + 1 - Len(t)] = LineEnd BY <1>3, <1>6, <3>1
    <3>. QED BY <3>1, <3>2
  <2>3. CASE Len(x) + 1 > Len(t) + m
    <3>1. Len(t) + m \in 1 .. Len(x) /\ o + (Len(t) + m) = o + Len(t) + m BY <1>1, <1>4, <2>3
    <3>2. st[o + (Len(t) + m)] = x[Len(t) + m] BY <1>3, <3>1
    <3>3. p[m] = st[o + Len(t) + m]
      <4>1. m \in 1 .. m BY <1>1
      <4>. QED BY <1>6, <4>1
    <3>. QED BY <1>4, <3>1, <3>2, <3>3
  <2>4. \A a, b, d \in Nat :
          a + 1 <= b \/ (a + 1 > b /\ a + 1 < b + d) \/ a + 1 > b + d \/ a + 1 = b + d
    OBVIOUS
  <2>5. Len(x) \in Nat /\ Len(t) \in Nat /\ m \in Nat BY <1>1, <1>4
  <2>. QED BY ONLY <2>1, <2>2, <2>3, <2>4, <2>5
\* What was read is the line.
<1>8. /\ h \in Texts /\ Len(h) = m /\ \A j \in 1 .. m : h[j] = p[j]
      /\ q \in Texts /\ Len(q) = Len(p) - m /\ \A j \in 1 .. Len(p) - m : q[j] = p[m + j]
  BY <1>1 DEF Texts
<1>9. t \in Texts BY <1>1, SeqMonotonic DEF Texts, Bytes
<1>. HIDE DEF h, q
<1>10. /\ u \in Texts /\ Len(u) = Len(t) + m
       /\ \A j \in 1 .. Len(t) + m : u[j] = IF j <= Len(t) THEN t[j] ELSE h[j - Len(t)]
  <2>1. t \in Seq(Bytes) /\ h \in Seq(Bytes) /\ Len(h) = m BY <1>8, <1>9 DEF Texts
  <2>2. /\ u \in Seq(Bytes) /\ Len(u) = Len(t) + Len(h)
        /\ \A j \in 1 .. Len(t) + Len(h) : u[j] = IF j <= Len(t) THEN t[j] ELSE h[j - Len(t)]
    BY <2>1, ConcatProperties
  <2>. HIDE DEF u
  <2>. QED BY <2>1, <2>2 DEF Texts
<1>. HIDE DEF u
<1>11. v \in Texts /\ Len(v) = Len(x) /\ \A j \in 1 .. Len(x) : v[j] = u[j]
  <2>1. Len(u) - 1 = Len(x) BY <1>1, <1>4, <1>7, <1>10
  <2>2. u \in Seq(Bytes) /\ Len(x) \in 0 .. Len(u) BY <1>1, <1>4, <1>7, <1>10 DEF Texts
  <2>3. v = SubSeq(u, 1, Len(x)) BY <2>1 DEF Front
  <2>. QED BY <1>4, <2>2, <2>3 DEF Texts
<1>. HIDE DEF v
<1>12. v = x
  <2>1. x \in Texts BY <1>4, SeqMonotonic DEF Texts, Bytes
  <2>2. ASSUME NEW j \in 1 .. Len(x) PROVE u[j] = x[j]
    <3>1. st[o + j] = x[j] BY <1>3
    <3>2. CASE j <= Len(t)
      <4>1. j \in 1 .. Len(t) /\ j \in 1 .. Len(t) + m BY <1>1, <1>4, <1>7, <3>2
      <4>. QED BY <1>5, <1>10, <3>1, <3>2, <4>1
    <3>3. CASE ~(j <= Len(t))
      <4>1. /\ j \in 1 .. Len(t) + m /\ j - Len(t) \in 1 .. m
            /\ o + Len(t) + (j - Len(t)) = o + j
        BY <1>1, <1>4, <1>7, <3>3
      <4>2. u[j] = p[j - Len(t)] BY <1>8, <1>10, <3>3, <4>1
      <4>3. p[j - Len(t)] = st[o + Len(t) + (j - Len(t))] BY <1>6, <4>1
      <4>. QED BY <3>1, <4>1, <4>2, <4>3
    <3>. QED BY <3>2, <3>3
  <2>3. \A j \in 1 .. Len(v) : v[j] = x[j] BY <1>11, <2>2
  <2>. QED BY <1>11, <2>1, <2>3, SeqEqual DEF Texts
\* So are the lines.
<1>13. /\ us \in Seq(Names) /\ Len(us) = k + 1 /\ us[k + 1] = x
       /\ \A j \in 1 .. k : us[j] = ls[j]
  <2>1. ls \in Seq(Names) BY DEF Cut
  <2>. QED BY <1>4, <1>12, <2>1, AppendProperties DEF k
<1>. HIDE DEF us
<1>14. \A j \in 1 .. k + 1 : us[j] = c[j]
  <2>1. \A j \in 1 .. k : ls[j] = c[j] BY DEF Cut, k
  <2>2. \A j \in 1 .. k + 1 : j \in 1 .. k \/ j = k + 1 BY <1>1
  <2>. QED BY <1>13, <2>1, <2>2 DEF x
<1>15. e = o + Len(t) + m
  <2>1. \A a, b, d, f \in Nat : a + 1 = b + d => f + a + 1 = f + b + d OBVIOUS
  <2>2. Len(x) \in Nat /\ Len(t) \in Nat /\ m \in Nat /\ o \in Nat BY <1>1, <1>4
  <2>3. e = o + Len(x) + 1 BY <1>3
  <2>. QED BY ONLY <1>7, <2>1, <2>2, <2>3
<1>16. \A j \in 1 .. Len(q) : q[j] = st[e + 0 + j]
  <2>. SUFFICES ASSUME NEW j \in 1 .. Len(p) - m PROVE q[j] = st[e + 0 + j] BY <1>8
  <2>1. m + j \in 1 .. Len(p) /\ o + Len(t) + (m + j) = e + 0 + j
    BY <1>1, <1>15
  <2>2. p[m + j] = st[o + Len(t) + (m + j)] BY <2>1 DEF Cut, k, o
  <2>. QED BY <1>8, <2>1, <2>2
<1>17. e + 0 + Len(q) = n BY <1>1, <1>8, <1>15
<1>18. << >> \in Seq(NameLetters) /\ Len(<< >>) = 0 BY EmptySeq
<1>19. Ends(off, c, st) BY DEF Cut
<1>20. k + 1 <= Len(c) BY <1>2
<1>21. Cut(off, c, st, us, << >>, q, n)
  <2>1. \A j \in 1 .. Len(<< >>) : << >>[j] = st[off[Len(us)] + j] BY <1>18
  <2>. QED BY <1>1, <1>8, <1>13, <1>14, <1>16, <1>17, <1>18, <1>19, <1>20, <2>1 DEF Cut, e
<1>. QED BY <1>21 DEF us, v, u, h, q

\* At the end of the input: all of the lines and nothing behind them when the
\* whole stream was written, and what begins the next line otherwise.
Begins(t, c, k) == k < Len(c) /\ IsPrefix(t, c[k + 1]) /\ t \in Users

Ended(c, st, ls, t, n) ==
  /\ n = Len(st) => ls = c /\ t = << >>
  /\ IsPrefix(ls, c)
  /\ t # << >> => Begins(t, c, Len(ls))

LEMMA CutEnd ==
  ASSUME NEW off, NEW c \in Seq(Names), NEW st, NEW ls, NEW t, NEW p, NEW n,
         Cut(off, c, st, ls, t, p, n), p = << >>
  PROVE  Ended(c, st, ls, t, n)
<1> DEFINE k == Len(ls)
           o == off[k]
           x == c[k + 1]
<1>1. /\ o \in Nat /\ n \in Nat /\ Len(t) \in Nat /\ o + Len(t) = n
      /\ t \in Seq(NameLetters) /\ ls \in Seq(Names)
      /\ Len(st) \in Nat /\ n <= Len(st) /\ off[Len(c)] = Len(st)
      /\ k \in 0 .. Len(c) /\ Len(c) \in Nat /\ k \in Nat
  <2>1. CutTyped(off, c, st, ls, t, p, n) BY CutTypes
  <2>2. Len(p) = 0 OBVIOUS
  <2>. QED BY <2>1, <2>2 DEF CutTyped, Cut
<1>2. ASSUME k < Len(c)
      PROVE  /\ Len(t) <= Len(x) /\ \A j \in 1 .. Len(t) : t[j] = x[j]
             /\ x \in Names /\ x \in Seq(NameLetters) /\ o + Len(t) < Len(st)
  <2>1. k + 1 \in 1 .. Len(c) /\ k + 1 - 1 = k /\ k + 1 \in 0 .. Len(c) BY <1>1, <1>2
  <2>2. Ends(off, c, st) BY DEF Cut
  <2>3. /\ off[k + 1] = off[k + 1 - 1] + Len(c[k + 1]) + 1 /\ st[off[k + 1]] = LineEnd
        /\ \A j \in 1 .. Len(c[k + 1]) : st[off[k + 1 - 1] + j] = c[k + 1][j]
        /\ off[k + 1] <= Len(st)
    BY <2>1, <2>2 DEF Ends
  <2>4. x \in Names BY <2>1
  <2>5. x \in Seq(NameLetters) BY <2>4, EmptySeq, LaunchAssumption DEF Names
  <2>6. /\ off[k + 1] = o + Len(x) + 1 /\ st[off[k + 1]] = LineEnd
        /\ \A j \in 1 .. Len(x) : st[o + j] = x[j]
        /\ Len(x) \in Nat
    BY <2>1, <2>3, <2>5
  <2>7. \A j \in 1 .. Len(t) : st[o + j] = t[j] /\ t[j] # LineEnd
    BY <1>1, LaunchAssumption DEF Cut
  <2>. HIDE DEF x
  <2>8. Len(t) <= Len(x)
    <3>. SUFFICES ASSUME ~(Len(t) <= Len(x)) PROVE FALSE OBVIOUS
    <3> DEFINE e == off[k + 1]
    <3>0. o \in Nat /\ Len(t) \in Nat BY <1>1
    <3>. HIDE DEF o, e
    <3>1. Len(x) + 1 \in 1 .. Len(t) /\ o + (Len(x) + 1) = e BY <2>6, <3>0 DEF e
    <3>. QED BY <2>6, <2>7, <3>1 DEF e
  <2>9. \A j \in 1 .. Len(t) : t[j] = x[j] BY <1>1, <2>6, <2>7, <2>8
  <2>10. o + Len(t) < Len(st)
    <3>1. off[k + 1] <= Len(st) BY <2>3
    <3>. QED BY <1>1, <2>6, <2>8, <3>1
  <2>. QED BY <2>4, <2>5, <2>8, <2>9, <2>10
<1>3. IsPrefix(ls, c)
  <2>1. \A j \in 1 .. k : ls[j] = c[j] BY DEF Cut
  <2>2. SubSeq(ls, 1, k) = SubSeq(c, 1, k) BY <1>1, <2>1
  <2>. QED BY <1>1, <2>2 DEF IsPrefix
<1>4. ASSUME n = Len(st) PROVE ls = c /\ t = << >>
  <2>1. ~(k < Len(c)) BY <1>1, <1>2, <1>4
  <2>2. k = Len(c) BY <1>1, <2>1
  <2>3. \A j \in 1 .. Len(ls) : ls[j] = c[j] BY DEF Cut
  <2>4. ls = c BY <1>1, <2>2, <2>3, SeqEqual
  <2>5. Len(t) = 0
    <3>1. o = Len(st) BY <1>1, <2>2
    <3>. QED BY <1>1, <1>4, <3>1
  <2>. QED BY <1>1, <2>4, <2>5, EmptySeq
<1>5. ASSUME t # << >> PROVE Begins(t, c, k)
  <2>1. Len(t) # 0 BY <1>1, <1>5, EmptySeq
  <2>2. k < Len(c)
    <3>1. CASE k = Len(c)
      <4>1. o = Len(st) BY <1>1, <3>1
      <4>. QED BY <1>1, <2>1, <4>1
    <3>. QED BY <1>1, <3>1
  <2>3. /\ Len(t) <= Len(x) /\ \A j \in 1 .. Len(t) : t[j] = x[j]
        /\ x \in Names /\ x \in Seq(NameLetters)
    BY <1>2, <2>2
  <2>. HIDE DEF x
  <2>4. SubSeq(x, 1, Len(t)) = t BY <1>1, <2>3
  <2>5. SubSeq(t, 1, Len(t)) = t BY <1>1
  <2>6. IsPrefix(t, x) BY <2>3, <2>4, <2>5 DEF IsPrefix
  <2>7. x # << >> /\ Len(t) \in 1 .. Len(x) BY <1>1, <2>1, <2>3
  <2>8. x \in Users BY <2>3, <2>7, LaunchAssumption DEF Names
  <2>9. t \in Users BY <2>4, <2>7, <2>8, LaunchAssumption
  <2>. QED BY <2>2, <2>6, <2>9 DEF Begins, x
<1>. QED BY <1>3, <1>4, <1>5 DEF Ended

(***************************************************************************)
(* What retry_write and fgets take.                                        *)
(***************************************************************************)
LEMMA MinOfNats ==
  ASSUME NEW S \in SUBSET Nat, S # {}
  PROVE  Min(S) \in S /\ \A y \in S : Min(S) <= y
<1>1. PICK x \in S : \A y \in S : ~(<<y, x>> \in OpToRel(<, Nat))
  BY NatLessThanWellFounded, WFMin
<1>2. \A y \in S : x <= y
  <2>. SUFFICES ASSUME NEW y \in S PROVE x <= y OBVIOUS
  <2>1. x \in Nat /\ y \in Nat BY <1>1
  <2>2. ~(y < x) BY <1>1, <2>1 DEF OpToRel
  <2>. QED BY <2>1, <2>2
<1>. QED BY <1>2 DEF Min

\* Some of the pipe, with no line end but at its end.
Got(p, r, m) ==
  /\ r = SubSeq(p, 1, m) /\ Len(r) = m
  /\ \A j \in 1 .. m - 1 : p[j] # LineEnd
  /\ HasLineEnd(r) <=> p[m] = LineEnd

LEMMA FgetsIs ==
  ASSUME pipe \in Texts, CanRead
  PROVE  \E m \in 1 .. Len(pipe) : Got(pipe, Fgets, m)
<1> DEFINE l == IF HasLineEnd(pipe) THEN UpToLineEnd(pipe) ELSE pipe
           P(k) == /\ l = SubSeq(pipe, 1, k) /\ Len(l) = k
                   /\ \A j \in 1 .. k - 1 : pipe[j] # LineEnd
<1>1. pipe \in Seq(Bytes) /\ Len(pipe) \in Nat BY DEF Texts
<1>2. \E k \in 1 .. Len(pipe) : P(k)
  <2>1. CASE HasLineEnd(pipe)
    <3> DEFINE S == {i \in DOMAIN pipe : pipe[i] = LineEnd}
               k == Min(S)
    <3>1. S \in SUBSET Nat /\ S # {} BY <1>1, <2>1 DEF HasLineEnd, Contains
    <3>2. k \in S /\ \A y \in S : k <= y
      <4>. HIDE DEF S
      <4>. QED BY <3>1, MinOfNats
    <3>3. l = SubSeq(pipe, 1, k) BY <2>1 DEF UpToLineEnd
    <3>. HIDE DEF k
    <3>4. k \in 1 .. Len(pipe) BY <1>1, <3>2
    <3>5. Len(SubSeq(pipe, 1, k)) = k BY <1>1, <3>4
    <3>6. \A j \in 1 .. k - 1 : pipe[j] # LineEnd
      <4>1. ASSUME NEW j \in 1 .. k - 1, pipe[j] = LineEnd PROVE FALSE
        <5>1. j \in S BY <1>1, <3>4, <4>1
        <5>. QED BY <3>2, <3>4, <5>1
      <4>. QED BY <4>1
    <3>. HIDE DEF l
    <3>. QED BY <3>3, <3>4, <3>5, <3>6
  <2>2. CASE ~HasLineEnd(pipe)
    <3>1. Len(pipe) \in 1 .. Len(pipe)
      <4>1. CASE Len(pipe) >= Chunk BY <1>1, <4>1, LaunchAssumption
      <4>2. CASE pipe # << >> BY <1>1, <4>2, EmptySeq
      <4>. QED BY <2>2, <4>1, <4>2 DEF CanRead
    <3>2. l = pipe BY <2>2
    <3>3. l = SubSeq(pipe, 1, Len(pipe)) BY <1>1, <3>2
    <3>4. \A j \in 1 .. Len(pipe) - 1 : pipe[j] # LineEnd
      BY <1>1, <2>2 DEF HasLineEnd, Contains
    <3>. HIDE DEF l
    <3>. QED BY <3>1, <3>2, <3>3, <3>4
  <2>. QED BY <2>1, <2>2
<1>3. PICK k \in 1 .. Len(pipe) : P(k) BY <1>2
<1> DEFINE m == Min({k, Chunk})
<1>4. Fgets = SubSeq(l, 1, m) BY <1>3 DEF Fgets
<1>5. m \in 1 .. k
  <2>1. k \in Nat /\ Chunk \in Nat /\ k >= 1 /\ Chunk >= 1 BY <1>1, LaunchAssumption
  <2> DEFINE S == {k, Chunk}
  <2>2. S \in SUBSET Nat /\ S # {} BY <2>1
  <2>3. m \in S /\ \A y \in S : m <= y
    <3>1. m = Min(S) OBVIOUS
    <3>. HIDE DEF S, m
    <3>. QED BY <2>2, <3>1, MinOfNats
  <2>. HIDE DEF m
  <2>. QED BY <2>1, <2>3
<1>. HIDE DEF m
<1>6. SubSeq(l, 1, m) = SubSeq(pipe, 1, m)
  <2>1. l = SubSeq(pipe, 1, k) BY <1>3
  <2>. HIDE DEF l, P
  <2>2. k \in 1 .. Len(pipe) /\ m \in 1 .. k /\ k \in Nat /\ m \in Nat BY <1>1, <1>5
  <2>3. l \in Seq(Bytes) /\ Len(l) = k /\ \A i \in 1 .. k : l[i] = pipe[i] BY <1>1, <2>1, <2>2
  <2>4. m \in 1 .. Len(pipe) BY <1>1, <2>2
  <2>5. /\ SubSeq(l, 1, m) \in Seq(Bytes) /\ Len(SubSeq(l, 1, m)) = m
        /\ \A i \in 1 .. m : SubSeq(l, 1, m)[i] = l[i]
    BY <2>2, <2>3
  <2>6. /\ SubSeq(pipe, 1, m) \in Seq(Bytes) /\ Len(SubSeq(pipe, 1, m)) = m
        /\ \A i \in 1 .. m : SubSeq(pipe, 1, m)[i] = pipe[i]
    BY <1>1, <2>4
  <2>7. \A i \in 1 .. m : i \in 1 .. k BY <2>2
  <2>8. \A i \in 1 .. m : SubSeq(l, 1, m)[i] = SubSeq(pipe, 1, m)[i]
    BY <2>3, <2>5, <2>6, <2>7
  <2> DEFINE x == SubSeq(l, 1, m)
             y == SubSeq(pipe, 1, m)
  <2>9. x \in Seq(Bytes) /\ y \in Seq(Bytes) /\ Len(x) = Len(y) /\ \A i \in 1 .. Len(x) : x[i] = y[i]
    BY <2>5, <2>6, <2>8
  <2>. HIDE DEF x, y
  <2>10. x = y BY <2>9, SeqEqual
  <2>. QED BY <2>10 DEF x, y
<1>7. m \in 1 .. Len(pipe) /\ m - 1 <= k - 1 BY <1>1, <1>5
<1>8. \A j \in 1 .. m - 1 : pipe[j] # LineEnd
  <2>1. \A j \in 1 .. m - 1 : j \in 1 .. k - 1 BY <1>1, <1>5
  <2>. QED BY <1>3, <2>1
<1>9. Fgets = SubSeq(pipe, 1, m) BY <1>4, <1>6
<1>10. Len(Fgets) = m /\ \A i \in 1 .. m : Fgets[i] = pipe[i] BY <1>1, <1>7, <1>9
<1>11. HasLineEnd(Fgets) <=> pipe[m] = LineEnd
  <2>1. \A i \in 1 .. m : i = m \/ i \in 1 .. m - 1 BY <1>5
  <2>2. m \in 1 .. m BY <1>5
  <2>3. HasLineEnd(Fgets) <=> \E i \in 1 .. m : Fgets[i] = LineEnd
    BY <1>10 DEF HasLineEnd, Contains
  <2>. HIDE DEF l, P
  <2>. QED BY <1>8, <1>10, <2>1, <2>2, <2>3
<1>. HIDE DEF l, P
<1>. QED BY <1>7, <1>8, <1>9, <1>10, <1>11 DEF Got

LEMMA RoomIs ==
  ASSUME pipe \in Texts, Len(pipe) <= PipeSize, Len(Stream) \in Nat, sent \in Nat,
         sent <= Len(Stream), NEW n \in 1 .. Room
  PROVE  n \in Nat /\ sent + n <= Len(Stream) /\ Len(pipe) + n <= PipeSize
<1> DEFINE a == PipeSize - Len(pipe)
           b == Len(Stream) - sent
           S == {a, b}
<1>1. a \in Nat /\ b \in Nat /\ Len(pipe) \in Nat BY LaunchAssumption DEF Texts
<1>2. S \in SUBSET Nat /\ S # {} /\ a \in S /\ b \in S BY <1>1
<1>3. Room = Min(S) BY DEF Room
<1>4. Room \in S /\ \A y \in S : Room <= y
  <2>. HIDE DEF S
  <2>. QED BY <1>2, <1>3, MinOfNats
<1>5. Room <= a /\ Room <= b /\ Room \in Nat BY <1>2, <1>4
<1>6. n \in Nat /\ n <= a /\ n <= b
  <2>. HIDE DEF a, b
  <2>. QED BY <1>1, <1>5
<1>. QED BY <1>1, <1>6, LaunchAssumption

(***************************************************************************)
(* The invariant of the transfer.                                          *)
(***************************************************************************)
Cutting(ls, t, p, n) == \E off : Cut(off, call, Stream, ls, t, p, n)

NothingSent ==
  /\ call = << >> /\ sent = 0 /\ pipe = << >> /\ thisline = << >> /\ lines = << >>
  /\ ~closed /\ ~broken

Transferred ==
  /\ call \in Seq(Names)
  /\ stage \in {"configure", "transfer", "run"}
  /\ stage # "run" => rest = None
  /\ stage = "configure" => NothingSent
  /\ stage = "transfer" =>
       /\ Cutting(lines, thisline, pipe, sent) /\ Len(pipe) <= PipeSize
       /\ closed /\ ~broken => sent = Len(Stream)
  /\ stage = "run" => Delivered /\ lines \in Seq(Names) /\ rest \in Users \cup {None}

LEMMA NamesAre == Names \subseteq Seq(NameLetters)
  BY EmptySeq, LaunchAssumption DEF Names

LEMMA StreamIs == Stream = StreamOf(call)
  BY DEF Stream, StreamOf

LEMMA CutNothing ==
  ASSUME NEW c \in Seq(Names)
  PROVE  \E off : Cut(off, c, StreamOf(c), << >>, << >>, << >>, 0)
<1>1. c \in Seq(Seq(NameLetters)) BY NamesAre, SeqMonotonic
<1>2. PICK off : Ends(off, c, StreamOf(c)) BY <1>1, EndsExist
<1>3. << >> \in Seq(Names) /\ << >> \in Seq(NameLetters) /\ << >> \in Texts /\ Len(<< >>) = 0
  BY EmptySeq DEF Texts
<1>4. Len(c) \in Nat /\ off[0] = 0 /\ Len(StreamOf(c)) \in Nat BY <1>2 DEF Ends, Texts
<1>5. off[Len(<< >>)] + Len(<< >>) + Len(<< >>) = 0 BY <1>3, <1>4
<1>6. Len(<< >>) <= Len(c) /\ 0 <= Len(StreamOf(c)) BY <1>3, <1>4
<1>7. \A j \in 1 .. Len(<< >>) : FALSE BY <1>3
<1>. QED BY <1>2, <1>3, <1>5, <1>6, <1>7 DEF Cut

LEMMA TransferredFirst ==
  ASSUME NothingSent, stage = "configure", rest = None
  PROVE  Transferred
<1>1. << >> \in Seq(Names) BY EmptySeq
<1>. QED BY <1>1 DEF NothingSent, Transferred

LEMMA LaunchTransfers ==
  ASSUME Transferred, Launch
  PROVE  Transferred'
<1>1. stage = "configure" /\ NothingSent /\ rest = None BY DEF Launch, Transferred
<1>2. /\ stage' = "transfer" /\ lines' = << >> /\ thisline' = << >> /\ pipe' = << >>
      /\ sent' = 0 /\ ~closed' /\ ~broken' /\ rest' = None
  BY <1>1 DEF Launch, NothingSent
<1>3. call' \in Seq(Names)
  <2>1. call' \in BoundedSeq(Names, MaxLines) BY DEF Launch
  <2>. QED BY <2>1, HelperAssumption DEF BoundedSeq, SeqOf
<1>4. Stream' = StreamOf(call') BY DEF Stream, StreamOf
<1>5. \E off : Cut(off, call', Stream', << >>, << >>, << >>, 0) BY <1>3, <1>4, CutNothing
<1>6. Cutting(lines, thisline, pipe, sent)' BY <1>2, <1>5 DEF Cutting
<1>7. Len(pipe') = 0 /\ Len(pipe') <= PipeSize BY <1>2, EmptySeq, LaunchAssumption
<1>. QED BY <1>2, <1>3, <1>6, <1>7 DEF Transferred

\* In the transfer, and the call is no other.
LEMMA Transferring ==
  ASSUME Transferred, stage = "transfer", call' = call
  PROVE  /\ Stream' = Stream /\ call \in Seq(Names) /\ pipe \in Texts
         /\ Len(pipe) \in Nat /\ Len(pipe) <= PipeSize /\ rest = None
         /\ Len(Stream) \in Nat /\ sent \in Nat /\ sent <= Len(Stream)
         /\ \E off : Cut(off, call, Stream, lines, thisline, pipe, sent)
<1>1. Stream' = Stream BY DEF Stream
<1>2. call \in Seq(Names) /\ Len(pipe) <= PipeSize /\ rest = None BY DEF Transferred
<1>3. PICK off : Cut(off, call, Stream, lines, thisline, pipe, sent)
  BY DEF Transferred, Cutting
<1>4. CutTyped(off, call, Stream, lines, thisline, pipe, sent) BY <1>2, <1>3, CutTypes
<1>5. pipe \in Texts BY <1>3 DEF Cut
<1>. QED BY <1>1, <1>2, <1>3, <1>4, <1>5 DEF CutTyped

\* What is written comes on top of what was in the pipe.
LEMMA WrittenLength ==
  ASSUME NEW c \in Seq(Names), NEW off, NEW st, NEW ls, NEW t, NEW p, NEW q,
         NEW s \in Nat, NEW n \in Nat,
         Cut(off, c, st, ls, t, p, s), Cut(off, c, st, ls, t, q, s + n)
  PROVE  Len(q) = Len(p) + n
<1>1. CutTyped(off, c, st, ls, t, p, s) BY CutTypes
<1>2. CutTyped(off, c, st, ls, t, q, s + n) BY CutTypes
<1> DEFINE a == off[Len(ls)]
           b == Len(t)
           d == Len(p)
           e == Len(q)
<1>3. /\ a \in Nat /\ b \in Nat /\ d \in Nat /\ e \in Nat /\ n \in Nat /\ s \in Nat
      /\ a + b + d = s /\ a + b + e = s + n
  BY <1>1, <1>2 DEF CutTyped
<1>. HIDE DEF a, b, d, e
<1>4. e = d + n BY ONLY <1>3
<1>. QED BY <1>4 DEF d, e

LEMMA WriteTransfers ==
  ASSUME Transferred, NEW n \in 1 .. Room, Write(n)
  PROVE  Transferred'
<1>1. /\ stage = "transfer" /\ call' = call /\ stage' = stage /\ lines' = lines
      /\ thisline' = thisline /\ rest' = rest /\ closed' = closed /\ broken' = broken
      /\ ~closed
      /\ pipe' = pipe \o SubSeq(Stream, sent + 1, sent + n) /\ sent' = sent + n
  BY DEF Write, vars, given
<1>2. /\ Stream' = Stream /\ call \in Seq(Names) /\ pipe \in Texts
      /\ Len(pipe) \in Nat /\ Len(pipe) <= PipeSize /\ rest = None
      /\ Len(Stream) \in Nat /\ sent \in Nat /\ sent <= Len(Stream)
  BY <1>1, Transferring
<1>3. PICK off : Cut(off, call, Stream, lines, thisline, pipe, sent) BY <1>1, Transferring
<1>4. n \in Nat /\ sent + n <= Len(Stream) /\ Len(pipe) + n <= PipeSize BY <1>2, RoomIs
<1>5. Cut(off, call, Stream, lines, thisline, pipe \o SubSeq(Stream, sent + 1, sent + n), sent + n)
  BY <1>2, <1>3, <1>4, CutWritten
<1>6. Cutting(lines, thisline, pipe, sent)' BY <1>1, <1>2, <1>5 DEF Cutting
<1>7. Len(pipe') = Len(pipe) + n BY <1>1, <1>2, <1>3, <1>4, <1>5, WrittenLength
<1>. QED BY <1>1, <1>2, <1>4, <1>6, <1>7 DEF Transferred

LEMMA WriterTransfers ==
  ASSUME Transferred, WriteDone \/ WriteFails
  PROVE  Transferred'
<1>1. /\ stage = "transfer" /\ call' = call /\ stage' = stage /\ lines' = lines
      /\ thisline' = thisline /\ rest' = rest /\ pipe' = pipe /\ sent' = sent
      /\ broken' \/ sent = Len(Stream)
  BY DEF WriteDone, WriteFails, vars, given
<1>2. Stream' = Stream /\ call \in Seq(Names) /\ rest = None /\ Len(pipe) <= PipeSize
  BY <1>1, Transferring
<1>3. Cutting(lines, thisline, pipe, sent) BY <1>1 DEF Transferred
<1>4. Cutting(lines, thisline, pipe, sent)' BY <1>1, <1>2, <1>3 DEF Cutting
<1>. QED BY <1>1, <1>2, <1>4 DEF Transferred

LEMMA PartTransfers ==
  ASSUME Transferred, ReadPart
  PROVE  Transferred'
<1>1. /\ stage = "transfer" /\ call' = call /\ stage' = stage /\ lines' = lines
      /\ rest' = rest /\ sent' = sent /\ closed' = closed /\ broken' = broken
      /\ CanRead /\ ~HasLineEnd(Fgets)
      /\ thisline' = thisline \o Fgets /\ pipe' = SubSeq(pipe, Len(Fgets) + 1, Len(pipe))
  BY DEF ReadPart, vars, given
<1>2. /\ Stream' = Stream /\ call \in Seq(Names) /\ pipe \in Texts
      /\ Len(pipe) \in Nat /\ Len(pipe) <= PipeSize /\ rest = None
  BY <1>1, Transferring
<1>3. PICK off : Cut(off, call, Stream, lines, thisline, pipe, sent) BY <1>1, Transferring
<1>4. PICK m \in 1 .. Len(pipe) : Got(pipe, Fgets, m) BY <1>1, <1>2, FgetsIs
<1>5. Fgets = SubSeq(pipe, 1, m) /\ Len(Fgets) = m /\ \A j \in 1 .. m : pipe[j] # LineEnd
  <2>1. \A j \in 1 .. m : j = m \/ j \in 1 .. m - 1 BY <1>2
  <2>. QED BY <1>1, <1>4, <2>1 DEF Got
<1>6. Cut(off, call, Stream, lines, thisline \o SubSeq(pipe, 1, m), SubSeq(pipe, m + 1, Len(pipe)), sent)
  BY <1>2, <1>3, <1>5, CutPart
<1>7. Cutting(lines, thisline, pipe, sent)' BY <1>1, <1>2, <1>5, <1>6 DEF Cutting
<1>8. Len(pipe') <= PipeSize
  <2>1. Len(pipe') = Len(pipe) - m BY <1>1, <1>2, <1>5 DEF Texts
  <2>. QED BY <1>2, <2>1, LaunchAssumption
<1>9. closed' /\ ~broken' => sent' = Len(Stream') BY <1>1, <1>2 DEF Transferred
<1>. QED BY <1>1, <1>2, <1>7, <1>8, <1>9 DEF Transferred

LEMMA LineTransfers ==
  ASSUME Transferred, ReadEnd
  PROVE  Transferred'
<1>1. /\ stage = "transfer" /\ call' = call /\ stage' = stage
      /\ rest' = rest /\ sent' = sent /\ closed' = closed /\ broken' = broken
      /\ CanRead /\ HasLineEnd(Fgets) /\ lines' = Append(lines, Front(thisline \o Fgets))
      /\ thisline' = << >> /\ pipe' = SubSeq(pipe, Len(Fgets) + 1, Len(pipe))
  BY DEF ReadEnd
<1>2. /\ Stream' = Stream /\ call \in Seq(Names) /\ pipe \in Texts
      /\ Len(pipe) \in Nat /\ Len(pipe) <= PipeSize /\ rest = None
  BY <1>1, Transferring
<1>3. PICK off : Cut(off, call, Stream, lines, thisline, pipe, sent) BY <1>1, Transferring
<1>4. PICK m \in 1 .. Len(pipe) : Got(pipe, Fgets, m) BY <1>1, <1>2, FgetsIs
<1>5. /\ Fgets = SubSeq(pipe, 1, m) /\ Len(Fgets) = m /\ pipe[m] = LineEnd
      /\ \A j \in 1 .. m - 1 : pipe[j] # LineEnd
  BY <1>1, <1>4 DEF Got
<1>6. Cut(off, call, Stream, Append(lines, Front(thisline \o SubSeq(pipe, 1, m))), << >>,
          SubSeq(pipe, m + 1, Len(pipe)), sent)
  BY <1>2, <1>3, <1>5, CutLine
<1>7. Cutting(lines, thisline, pipe, sent)' BY <1>1, <1>2, <1>5, <1>6 DEF Cutting
<1>8. Len(pipe') <= PipeSize
  <2>1. Len(pipe') = Len(pipe) - m BY <1>1, <1>2, <1>5 DEF Texts
  <2>. QED BY <1>2, <2>1, LaunchAssumption
<1>9. closed' /\ ~broken' => sent' = Len(Stream') BY <1>1, <1>2 DEF Transferred
<1>. QED BY <1>1, <1>2, <1>7, <1>8, <1>9 DEF Transferred

LEMMA EndTransfers ==
  ASSUME Transferred, EndOfInput
  PROVE  Transferred'
<1>1. /\ stage = "transfer" /\ call' = call /\ stage' = "run" /\ lines' = lines
      /\ broken' = broken /\ closed /\ pipe = << >>
      /\ rest' = IF thisline = << >> THEN None ELSE thisline
  BY DEF EndOfInput
<1>2. call \in Seq(Names) /\ (~broken => sent = Len(Stream)) BY <1>1 DEF Transferred
<1>3. PICK off : Cut(off, call, Stream, lines, thisline, pipe, sent) BY <1>1, Transferring
<1>4. Ended(call, Stream, lines, thisline, sent) BY <1>1, <1>2, <1>3, CutEnd
<1>5. lines \in Seq(Names) BY <1>3 DEF Cut
<1>6. ~broken' => lines' = call' /\ rest' = None BY <1>1, <1>2, <1>4 DEF Ended
<1>7. IsPrefix(lines', call') BY <1>1, <1>4 DEF Ended
<1>8. rest' # None => /\ Len(lines') < Len(call') /\ IsPrefix(rest', call'[Len(lines') + 1])
                      /\ rest' \in Users
  BY <1>1, <1>4 DEF Ended, Begins
<1>9. Delivered' BY <1>6, <1>7, <1>8 DEF Delivered
<1>. QED BY <1>1, <1>2, <1>5, <1>8, <1>9 DEF Transferred

LEMMA NextKeepsGiven ==
  ASSUME Next
  PROVE  UNCHANGED given
BY DEF Next, Parent, Child, Collect, Announce, Stat, ForkFails, Fork, Wait, Exit, FreeOverrun,
       Exec, ExecFails, ApplierEnds, ApplierWrites, ApplierReplaced

LEMMA TransferredKept ==
  ASSUME Transferred, UNCHANGED <<lines, rest, stage, transfer>>
  PROVE  Transferred'
<1>1. Stream' = Stream BY DEF Stream, transfer
<1>2. Cutting(lines, thisline, pipe, sent)' <=> Cutting(lines, thisline, pipe, sent)
  BY <1>1 DEF Cutting, transfer
<1>3. NothingSent' <=> NothingSent BY DEF NothingSent, transfer
<1>4. Delivered' <=> Delivered BY DEF Delivered, transfer
<1>. QED BY <1>1, <1>2, <1>3, <1>4 DEF Transferred, transfer

LEMMA TransferredStep ==
  ASSUME Transferred, LaunchNext
  PROVE  Transferred'
<1>1. CASE WriteMeant \/ WriteAtRandom \/ StartOver
  BY <1>1, TransferredKept DEF WriteMeant, WriteAtRandom, StartOver, Configuring, vars, given
<1>2. CASE Launch BY <1>2, LaunchTransfers
<1>3. CASE Writer BY <1>3, WriteTransfers, WriterTransfers DEF Writer
<1>4. CASE Reader BY <1>4, PartTransfers, LineTransfers, EndTransfers DEF Reader
<1>5. CASE Helper BY <1>5, NextKeepsGiven, TransferredKept DEF Helper, given
<1>. QED BY <1>1, <1>2, <1>3, <1>4, <1>5 DEF LaunchNext

(***************************************************************************)
(* Counting messages.                                                      *)
(***************************************************************************)
Outputs == {"message", "output"}

MessagesIn(s) == Cardinality({i \in DOMAIN s : s[i] = "message"})

LEMMA MessagesInNothing == MessagesIn(<< >>) = 0
<1>1. {i \in DOMAIN << >> : << >>[i] = "message"} = {} OBVIOUS
<1>. QED BY <1>1, FS_EmptySet DEF MessagesIn

LEMMA OneMore ==
  ASSUME NEW s \in Seq(Outputs), NEW x \in Outputs
  PROVE  /\ Append(s, x) \in Seq(Outputs) /\ MessagesIn(s) \in Nat
         /\ MessagesIn(Append(s, x)) = MessagesIn(s) + (IF x = "message" THEN 1 ELSE 0)
         /\ Last(Append(s, x)) = x
<1> DEFINE u == Append(s, x)
           S == {i \in DOMAIN s : s[i] = "message"}
           T == {i \in DOMAIN u : u[i] = "message"}
<1>1. /\ u \in Seq(Outputs) /\ Len(u) = Len(s) + 1 /\ u[Len(s) + 1] = x
      /\ \A i \in 1 .. Len(s) : u[i] = s[i]
      /\ Len(s) \in Nat /\ DOMAIN s = 1 .. Len(s) /\ DOMAIN u = 1 .. Len(u)
  BY AppendProperties
<1>2. IsFiniteSet(S) /\ Cardinality(S) \in Nat
  <2>1. IsFiniteSet(1 .. Len(s)) BY <1>1, FS_Interval
  <2>2. S \subseteq 1 .. Len(s) BY <1>1
  <2>. QED BY <2>1, <2>2, FS_Subset, FS_CardinalityType
<1>. HIDE DEF u
<1>3. T = IF x = "message" THEN S \cup {Len(s) + 1} ELSE S
  <2>1. \A i \in 1 .. Len(u) : i = Len(s) + 1 \/ i \in 1 .. Len(s) BY <1>1
  <2>2. \A i \in 1 .. Len(s) : i \in 1 .. Len(u) BY <1>1
  <2>3. Len(s) + 1 \in 1 .. Len(u) BY <1>1
  <2>. QED BY <1>1, <2>1, <2>2, <2>3
<1>4. Len(s) + 1 \notin S BY <1>1
<1>. HIDE DEF S, T
<1>5. Cardinality(S \cup {Len(s) + 1}) = Cardinality(S) + 1 BY <1>2, <1>4, FS_AddElement
<1>6. MessagesIn(s) = Cardinality(S) /\ MessagesIn(u) = Cardinality(T) BY DEF MessagesIn, S, T
<1>7. MessagesIn(u) = MessagesIn(s) + (IF x = "message" THEN 1 ELSE 0)
  BY <1>2, <1>3, <1>5, <1>6
<1>8. Last(u) = x BY <1>1 DEF Last
<1>. QED BY <1>1, <1>2, <1>6, <1>7, <1>8 DEF u

\* What exit writes out.
Flushed(s, t, b) ==
  /\ t \in Seq(Outputs) /\ MessagesIn(s) \in Nat
  /\ MessagesIn(t) = MessagesIn(s) + b
  /\ b = 1 => Last(t) = "message"
  /\ b = 0 => t = s

LEMMA FlushIs ==
  ASSUME NEW s \in Seq(Outputs), NEW b \in 0 .. 1
  PROVE  Flushed(s, s \o [n \in 1 .. b |-> "message"], b)
<1>1. MessagesIn(s) \in Nat BY OneMore DEF Outputs
<1>2. CASE b = 0
  <2>1. [n \in 1 .. b |-> "message"] = << >> BY <1>2
  <2>2. s \o << >> = s BY ConcatEmptySeq
  <2>. QED BY <1>1, <1>2, <2>1, <2>2 DEF Flushed
<1>3. CASE b = 1
  <2> DEFINE m == [n \in 1 .. b |-> "message"]
             t == s \o m
             u == Append(s, "message")
  <2>1. m \in Seq(Outputs) /\ Len(m) = 1 /\ m[1] = "message" BY <1>3 DEF Outputs
  <2>. HIDE DEF m
  <2>2. /\ t \in Seq(Outputs) /\ Len(t) = Len(s) + 1 /\ Len(s) \in Nat
        /\ \A i \in 1 .. Len(s) + 1 : t[i] = IF i <= Len(s) THEN s[i] ELSE m[i - Len(s)]
    <3>1. /\ t \in Seq(Outputs) /\ Len(t) = Len(s) + Len(m)
          /\ \A i \in 1 .. Len(s) + Len(m) : t[i] = IF i <= Len(s) THEN s[i] ELSE m[i - Len(s)]
      BY <2>1, ConcatProperties
    <3>2. Len(s) \in Nat OBVIOUS
    <3>. HIDE DEF t
    <3>. QED BY <2>1, <3>1, <3>2
  <2>3. "message" \in Outputs BY DEF Outputs
  <2>4. /\ u \in Seq(Outputs) /\ Len(u) = Len(s) + 1 /\ u[Len(s) + 1] = "message"
        /\ \A i \in 1 .. Len(s) : u[i] = s[i]
    BY <2>3, AppendProperties
  <2>5. u \in Seq(Outputs) /\ MessagesIn(u) = MessagesIn(s) + 1 /\ Last(u) = "message"
    BY <2>3, OneMore
  <2>. HIDE DEF t, u
  <2>6. \A i \in 1 .. Len(t) : t[i] = u[i]
    <3>. SUFFICES ASSUME NEW i \in 1 .. Len(s) + 1 PROVE t[i] = u[i] BY <2>2
    <3>1. CASE i <= Len(s)
      <4>1. i \in 1 .. Len(s) BY <2>2, <3>1
      <4>. QED BY <2>2, <2>4, <3>1, <4>1
    <3>2. CASE ~(i <= Len(s))
      <4>1. i = Len(s) + 1 /\ i - Len(s) = 1 BY <2>2, <3>2
      <4>. QED BY <2>1, <2>2, <2>4, <3>2, <4>1
    <3>. QED BY <3>1, <3>2
  <2>7. t = u BY <2>2, <2>4, <2>6, SeqEqual
  <2>8. Flushed(s, t, b) BY <1>1, <1>3, <2>5, <2>7 DEF Flushed
  <2>. QED BY <2>8 DEF t, m
<1>. QED BY <1>2, <1>3

(***************************************************************************)
(* The helper itself: what it was asked, and what it has said.             *)
(***************************************************************************)
Environment ==
  /\ quiet \in BOOLEAN /\ force \in BOOLEAN
  /\ account \in [Users -> Accounts] /\ applier \in Files
  /\ sigchld \in {"default", "ignored"}

Asked ==
  /\ stage # "run" => pc["parent"] = "collect"
  /\ pc["parent"] = "collect" => user = None
  /\ pc["parent"] # "collect" /\ ~Accepted =>
       user = None /\ pc["parent"] \in Leaving /\ pc["child"] = "absent"
  /\ pc["parent"] # "collect" /\ Accepted => user = Requested
  /\ ran # None => Accepted /\ ran = [user |-> user, force |-> force]

ParentHolds ==
  ~quiet /\ (pc["parent"] \in {"stat", "fork", "wait"} \/ (pc["parent"] = "exit" /\ Accepted))

ChildHolds == ~quiet /\ pc["child"] \in {"exec", "exit"}

ParentSaid == ~quiet /\ pc["parent"] = "ended" /\ Accepted
ChildSaid  == ~quiet /\ pc["child"] = "ended" /\ code["child"] = Failure

Said ==
  /\ buffered \in [Processes -> 0 .. 1]
  /\ buffered["parent"] = (IF ParentHolds THEN 1 ELSE 0)
  /\ buffered["child"] = (IF ChildHolds THEN 1 ELSE 0)
  /\ pc["child"] \in {"absent", "exec", "applier", "crashed"} => code["child"] = None
  /\ pc["child"] = "exit" => code["child"] = Failure
  /\ code["child"] \in {None, Failure}
  /\ stdout \in Seq(Outputs)
  /\ MessagesIn(stdout) = (IF ParentSaid THEN 1 ELSE 0) + (IF ChildSaid THEN 1 ELSE 0)
  /\ ParentSaid => Last(stdout) = "message"

LEMMA GivenAsked ==
  ASSUME UNCHANGED given
  PROVE  /\ Accepted' <=> Accepted
         /\ Requested' = Requested /\ quiet' = quiet /\ force' = force
BY DEF given, Accepted, Requested, Arguments

LEMMA ParentAsks ==
  ASSUME Inv, Asked, stage = "run", stage' = stage, Parent
  PROVE  Asked'
<1>1. UNCHANGED given
  BY DEF Parent, Collect, Announce, Stat, ForkFails, Fork, Wait, Exit, FreeOverrun
<1>2. (Accepted' <=> Accepted) /\ Requested' = Requested /\ force' = force
  BY <1>1, GivenAsked
<1> USE HelperAssumption DEF Inv, Lockstep, Traced, Processes, Places, Alone, Leaving, Asked, Step, Leave
<1>3. CASE Collect BY <1>2, <1>3 DEF Collect
<1>4. CASE Announce BY <1>2, <1>4 DEF Announce
<1>5. CASE Stat BY <1>2, <1>5 DEF Stat
<1>6. CASE ForkFails BY <1>2, <1>6 DEF ForkFails
<1>7. CASE Fork BY <1>2, <1>7 DEF Fork
<1>8. CASE Wait BY <1>2, <1>8 DEF Wait
<1>9. CASE Exit("parent") BY <1>2, <1>9 DEF Exit
<1>10. CASE FreeOverrun BY <1>2, <1>10 DEF FreeOverrun
<1>. QED BY <1>3, <1>4, <1>5, <1>6, <1>7, <1>8, <1>9, <1>10 DEF Parent

LEMMA ChildAsks ==
  ASSUME Inv, Asked, stage = "run", stage' = stage, Child \/ ApplierWrites \/ ApplierReplaced
  PROVE  Asked'
<1>1. UNCHANGED given
  BY DEF Child, Exec, ExecFails, ApplierEnds, Exit, ApplierWrites, ApplierReplaced
<1>2. (Accepted' <=> Accepted) /\ Requested' = Requested /\ force' = force
  BY <1>1, GivenAsked
<1> USE HelperAssumption DEF Inv, Lockstep, Traced, Processes, Places, Alone, Leaving, Asked, Step, Leave
<1>3. CASE Exec BY <1>2, <1>3 DEF Exec
<1>4. CASE ExecFails BY <1>2, <1>4 DEF ExecFails
<1>5. CASE ApplierEnds BY <1>2, <1>5 DEF ApplierEnds
<1>6. CASE Exit("child") BY <1>2, <1>6 DEF Exit
<1>7. CASE ApplierWrites BY <1>2, <1>7 DEF ApplierWrites
<1>8. CASE ApplierReplaced BY <1>2, <1>8 DEF ApplierReplaced
<1>. QED BY <1>3, <1>4, <1>5, <1>6, <1>7, <1>8 DEF Child

\* A rest behind other lines makes two arguments.
LEMMA OverrunRefused ==
  ASSUME lines \in Seq(Names), Overrun
  PROVE  ~Accepted
<1>1. Len(lines) \in Nat /\ Len(lines) # 0 BY EmptySeq DEF Overrun
<1>2. Len(Arguments) = Len(lines) + 1 BY DEF Arguments, Overrun
<1>3. Len(Arguments) # 0 /\ Len(Arguments) # 1 BY <1>1, <1>2
<1>. QED BY <1>3 DEF Accepted

LEMMA ParentSays ==
  ASSUME Inv, Asked, Said, quiet \in BOOLEAN, lines \in Seq(Names), Parent
  PROVE  Said'
<1>1. UNCHANGED given
  BY DEF Parent, Collect, Announce, Stat, ForkFails, Fork, Wait, Exit, FreeOverrun
<1>2. (Accepted' <=> Accepted) /\ quiet' = quiet
  BY <1>1, GivenAsked
<1> USE HelperAssumption DEF Inv, Lockstep, Traced, Processes, Places, Alone, Leaving, Asked,
    Step, Leave, ParentHolds, ChildHolds, ParentSaid, ChildSaid, Said
<1>3. CASE Collect BY <1>2, <1>3 DEF Collect
<1>4. CASE Announce BY <1>2, <1>4 DEF Announce
<1>5. CASE Stat BY <1>2, <1>5 DEF Stat
<1>6. CASE ForkFails BY <1>2, <1>6 DEF ForkFails
<1>7. CASE Fork BY <1>2, <1>7 DEF Fork
<1>8. CASE Wait BY <1>2, <1>8 DEF Wait
<1>9. CASE Exit("parent")
  <2>1. Flushed(stdout, stdout', buffered["parent"])
    <3>1. stdout \in Seq(Outputs) /\ buffered["parent"] \in 0 .. 1 OBVIOUS
    <3>2. stdout' = stdout \o [n \in 1 .. buffered["parent"] |-> "message"] BY <1>9 DEF Exit
    <3>. QED BY ONLY <3>1, <3>2, FlushIs
  <2>2. /\ pc' = [pc EXCEPT !["parent"] = "ended"] /\ code' = code /\ pc["parent"] = "exit"
        /\ buffered' = [buffered EXCEPT !["parent"] = 0]
    BY <1>9 DEF Exit
  <2>3. /\ stdout' \in Seq(Outputs) /\ MessagesIn(stdout) \in Nat
        /\ MessagesIn(stdout') = MessagesIn(stdout) + buffered["parent"]
        /\ buffered["parent"] = 1 => Last(stdout') = "message"
    BY <2>1 DEF Flushed
  <2>. QED BY <1>2, <2>2, <2>3
<1>10. CASE FreeOverrun BY <1>2, <1>10, OverrunRefused DEF FreeOverrun
<1>. QED BY <1>3, <1>4, <1>5, <1>6, <1>7, <1>8, <1>9, <1>10 DEF Parent

LEMMA ChildSays ==
  ASSUME Inv, Asked, Said, quiet \in BOOLEAN, Child \/ ApplierWrites \/ ApplierReplaced
  PROVE  Said'
<1>1. UNCHANGED given
  BY DEF Child, Exec, ExecFails, ApplierEnds, Exit, ApplierWrites, ApplierReplaced
<1>2. (Accepted' <=> Accepted) /\ quiet' = quiet
  BY <1>1, GivenAsked
<1> USE HelperAssumption DEF Inv, Lockstep, Traced, Processes, Places, Alone, Leaving, Asked,
    Step, Leave, ParentHolds, ChildHolds, ParentSaid, ChildSaid, Said
<1>3. CASE Exec BY <1>2, <1>3 DEF Exec
<1>4. CASE ExecFails BY <1>2, <1>4 DEF ExecFails, Result, Failure
<1>5. CASE ApplierEnds BY <1>2, <1>5 DEF ApplierEnds, Failure
<1>6. CASE Exit("child")
  <2>1. Flushed(stdout, stdout', buffered["child"])
    <3>1. stdout \in Seq(Outputs) /\ buffered["child"] \in 0 .. 1 OBVIOUS
    <3>2. stdout' = stdout \o [n \in 1 .. buffered["child"] |-> "message"] BY <1>6 DEF Exit
    <3>. QED BY ONLY <3>1, <3>2, FlushIs
  <2>2. /\ pc' = [pc EXCEPT !["child"] = "ended"] /\ code' = code /\ pc["child"] = "exit"
        /\ buffered' = [buffered EXCEPT !["child"] = 0]
    BY <1>6 DEF Exit
  <2>3. /\ stdout' \in Seq(Outputs) /\ MessagesIn(stdout) \in Nat
        /\ MessagesIn(stdout') = MessagesIn(stdout) + buffered["child"]
        /\ buffered["child"] = 1 => Last(stdout') = "message"
    BY <2>1 DEF Flushed
  <2>. QED BY <1>2, <2>2, <2>3
<1>7. CASE ApplierWrites
  <2>1. stdout' = Append(stdout, "output") /\ "output" \in Outputs /\ stdout \in Seq(Outputs)
    BY <1>7 DEF ApplierWrites, Outputs
  <2>2. stdout' \in Seq(Outputs) /\ MessagesIn(stdout') = MessagesIn(stdout) + 0
        /\ MessagesIn(stdout) \in Nat
    BY ONLY <2>1, OneMore
  <2>3. UNCHANGED <<pc, code, buffered>> /\ pc["child"] = "applier" BY <1>7 DEF ApplierWrites
  <2>. QED BY <1>2, <2>2, <2>3
<1>8. CASE ApplierReplaced BY <1>2, <1>8 DEF ApplierReplaced
<1>. QED BY <1>3, <1>4, <1>5, <1>6, <1>7, <1>8 DEF Child

(***************************************************************************)
(* All of it together, and the theorems.                                   *)
(***************************************************************************)
\* The options are those of the command line.
Configured ==
  stage # "configure" /\ wanted # None => force = wanted.force

LaunchInv == Inv /\ Written /\ Transferred /\ Environment /\ Asked /\ Said /\ Configured

LEMMA InitSaid ==
  ASSUME LaunchInit
  PROVE  Said
<1>1. << >> \in Seq(Outputs) /\ MessagesIn(<< >>) = 0 BY EmptySeq, MessagesInNothing
<1>. QED BY <1>1 DEF LaunchInit, Said, ParentHolds, ChildHolds, ParentSaid, ChildSaid, Processes

LEMMA InitLaunchInv == LaunchInit => LaunchInv
<1>. SUFFICES ASSUME LaunchInit PROVE LaunchInv OBVIOUS
<1>1. Inv BY InitInv
<1>2. Written BY WrittenNothing DEF LaunchInit
<1>3. Transferred BY TransferredFirst DEF LaunchInit, NothingSent
<1>4. Environment BY DEF LaunchInit, Environment, Accounts, Files
<1>5. Asked BY DEF LaunchInit, Asked
<1>6. Said BY InitSaid
<1>7. Configured BY DEF LaunchInit, Configured
<1>. QED BY <1>1, <1>2, <1>3, <1>4, <1>5, <1>6, <1>7 DEF LaunchInv

LEMMA EnvironmentStep ==
  ASSUME Environment, LaunchNext
  PROVE  Environment'
<1>1. CASE Launch
  <2>1. /\ quiet' \in BOOLEAN /\ force' \in BOOLEAN BY <1>1 DEF Launch, Says
  <2>2. account' \in [Users -> Accounts] BY <1>1 DEF Launch
  <2>3. applier' \in Files /\ sigchld' \in {"default", "ignored"} BY <1>1 DEF Launch
  <2>. QED BY <2>1, <2>2, <2>3 DEF Environment
<1>2. CASE WriteMeant \/ WriteAtRandom \/ StartOver
  BY <1>2 DEF WriteMeant, WriteAtRandom, StartOver, Configuring, vars, given, Environment
<1>3. CASE Writer BY <1>3 DEF Writer, Write, WriteDone, WriteFails, vars, given, Environment
<1>4. CASE Reader
  BY <1>4 DEF Reader, ReadPart, ReadEnd, EndOfInput, vars, given, Environment
<1>5. CASE Helper
  <2>1. Next /\ UNCHANGED given BY <1>5, NextKeepsGiven DEF Helper
  <2>2. applier' \in Files
    BY <2>1 DEF Next, Parent, Child, Collect, Announce, Stat, ForkFails, Fork, Wait, Exit,
       FreeOverrun, Exec, ExecFails, ApplierEnds, ApplierWrites, ApplierReplaced, Environment
  <2>. QED BY <2>1, <2>2 DEF Environment, given
<1>. QED BY <1>1, <1>2, <1>3, <1>4, <1>5 DEF LaunchNext

LEMMA ConfiguredStep ==
  ASSUME Written, Configured, LaunchNext
  PROVE  Configured'
<1>1. CASE Launch
  <2>1. CASE words = None BY <1>1, <2>1 DEF Launch, Configured
  <2>2. CASE words # None
    <3>1. ParsesAsMeant BY WrittenParses
    <3>2. ParseArgs(line).argv = MeantWords(words)
      <4>1. ParseArgs(line) = [error |-> NoError, argv |-> MeantWords(words)]
        BY <1>1, <2>2, <3>1 DEF ParsesAsMeant, Launch
      <4>. QED BY <4>1
    <3>3. force' = Says(MeantWords(words), ForceWord) BY <1>1, <3>2 DEF Launch
    <3>4. wanted'.force = Says(MeantWords(words), ForceWord) BY <1>1, <2>2 DEF Launch
    <3>. QED BY <3>3, <3>4 DEF Configured
  <2>. QED BY <2>1, <2>2
<1>2. CASE WriteMeant \/ WriteAtRandom \/ StartOver
  BY <1>2 DEF WriteMeant, WriteAtRandom, StartOver, Configuring, Configured
<1>3. CASE Writer
  BY <1>3 DEF Writer, Write, WriteDone, WriteFails, vars, given, configuration, Configured
<1>4. CASE Reader
  BY <1>4 DEF Reader, ReadPart, ReadEnd, EndOfInput, vars, given, configuration, Configured
<1>5. CASE Helper
  BY <1>5, NextKeepsGiven DEF Helper, given, configuration, Configured
<1>. QED BY <1>1, <1>2, <1>3, <1>4, <1>5 DEF LaunchNext

\* Before it runs, the helper has been asked nothing and says nothing.
LEMMA BeforeAsked ==
  ASSUME Inv, Asked, stage # "run",
         stage' # "configure" \/ stage = "configure",
         UNCHANGED <<user, pc, ran>>
  PROVE  Asked'
BY DEF Inv, Lockstep, Traced, Alone, Leaving, Asked

LEMMA BeforeSaid ==
  ASSUME Inv, Asked, Said, stage # "run", UNCHANGED <<pc, code, buffered, stdout>>
  PROVE  Said'
BY DEF Inv, Lockstep, Traced, Alone, Leaving, Asked, Said, ParentHolds, ChildHolds,
       ParentSaid, ChildSaid, Failure

LEMMA LaunchInvStep ==
  ASSUME LaunchInv, [LaunchNext]_launchVars
  PROVE  LaunchInv'
<1>. USE DEF LaunchInv
<1>1. CASE UNCHANGED launchVars
  <2>1. UNCHANGED <<given, applier, user, pc, code, buffered, stdout, ran, stage, line, words,
                    wanted, call, sent, pipe, closed, broken, thisline>>
    BY <1>1 DEF launchVars, vars, configuration, transfer
  <2>2. Inv' BY <2>1 DEF Inv, Lockstep, Traced
  <2>3. Written' BY <2>1 DEF Written
  <2>4. Transferred' BY <2>1, TransferredKept DEF given, transfer
  <2>5. Environment' BY <2>1 DEF Environment, given
  <2>6. (Accepted' <=> Accepted) /\ Requested' = Requested /\ quiet' = quiet /\ force' = force
    BY <2>1, GivenAsked
  <2>7. Asked' BY <2>1, <2>6 DEF Asked
  <2>8. Said' BY <2>1, <2>6 DEF Said, ParentHolds, ChildHolds, ParentSaid, ChildSaid
  <2>9. Configured' BY <2>1, <2>6 DEF Configured
  <2>. QED BY <2>2, <2>3, <2>4, <2>5, <2>7, <2>8, <2>9
<1>2. CASE LaunchNext
  <2>1. Written' /\ Transferred' /\ Environment' /\ Configured'
    BY <1>2, WrittenStep, TransferredStep, EnvironmentStep, ConfiguredStep
  <2>2. CASE Helper
    <3>1. Next /\ stage = "run" /\ stage' = stage BY <2>2 DEF Helper
    <3>2. lines \in Seq(Names) /\ quiet \in BOOLEAN BY <3>1 DEF Transferred, Environment
    <3>3. CASE Parent
      BY <3>1, <3>2, <3>3, <2>1, ParentStep, ParentAsks, ParentSays
    <3>4. CASE Child
      BY <3>1, <3>2, <3>4, <2>1, ChildStep, ChildAsks, ChildSays
    <3>5. CASE ApplierWrites \/ ApplierReplaced
      <4>1. Inv' BY <3>5, OthersStandStill DEF Inv, Lockstep, Traced
      <4>. QED BY <3>1, <3>2, <3>5, <2>1, <4>1, ChildAsks, ChildSays
    <3>. QED BY <3>1, <3>3, <3>4, <3>5 DEF Next
  <2>3. CASE WriteMeant \/ WriteAtRandom \/ StartOver \/ Launch \/ Writer \/ Reader
    <3>1. UNCHANGED <<pc, code, ran>> BY <2>3, OthersStandStill
    <3>2. Inv' BY <3>1 DEF Inv, Lockstep, Traced
    <3>3. /\ stage # "run" /\ UNCHANGED <<user, buffered, stdout>>
          /\ stage' # "configure" \/ stage = "configure"
      BY <2>3 DEF WriteMeant, WriteAtRandom, StartOver, Configuring, Launch, Writer, Write,
         WriteDone, WriteFails, Reader, ReadPart, ReadEnd, EndOfInput, vars, given
    <3>4. Asked' BY <3>1, <3>3, BeforeAsked
    <3>5. Said' BY <3>1, <3>3, BeforeSaid
    <3>. QED BY <2>1, <3>2, <3>4, <3>5
  <2>. QED BY <1>2, <2>2, <2>3 DEF LaunchNext
<1>. QED BY <1>1, <1>2

\* The invariant of the launch holds, whatever is configured and called.
THEOREM LaunchInvariance == LaunchSpec => []LaunchInv
BY InitLaunchInv, LaunchInvStep, PTL DEF LaunchSpec

\* What an accepted call asks for.
LEMMA RequestedIs ==
  ASSUME lines \in Seq(Names), rest \in Users \cup {None}, Accepted
  PROVE  /\ Arguments \in Seq(Names) /\ Requested \in Users \cup {NoUser}
         /\ Arguments = << >> \/ Arguments = <<Requested>>
         /\ Arguments = << >> => Requested = NoUser
<1>1. Arguments \in Seq(Names)
  <2>1. rest # None => rest \in Names BY DEF Names
  <2>. QED BY <2>1, AppendProperties DEF Arguments
<1>2. CASE Len(Arguments) = 0
  <2>1. Arguments = << >> BY <1>1, <1>2, EmptySeq
  <2>. QED BY <1>1, <2>1 DEF Requested
<1>3. CASE Len(Arguments) = 1 /\ Arguments[1] # Empty
  <2>1. Arguments # << >>
    <3>1. \A a : a = << >> => Len(a) = 0 OBVIOUS
    <3>2. Len(Arguments) # 0
      <4>1. Len(Arguments) = 1 BY <1>3
      <4>. QED BY ONLY <4>1
    <3>. QED BY ONLY <3>1, <3>2, Zenon
  <2>2. Arguments[1] \in Names BY <1>1, <1>3
  <2>3. Requested = Arguments[1] /\ Requested \in Users BY <1>3, <2>1, <2>2 DEF Requested, Names
  <2>4. Arguments = <<Arguments[1]>>
    <3> DEFINE a == Arguments
               b == <<Arguments[1]>>
    <3>1. b \in Seq(Names) /\ Len(b) = 1 /\ b[1] = a[1] BY <2>2
    <3>2. a \in Seq(Names) /\ Len(a) = 1 BY <1>1, <1>3
    <3>. HIDE DEF a, b
    <3>3. \A i \in 1 .. Len(a) : a[i] = b[i] BY <3>1, <3>2
    <3>4. a = b BY <3>1, <3>2, <3>3, SeqEqual
    <3>. QED BY <3>4 DEF a, b
  <2>. QED BY <1>1, <2>1, <2>3, <2>4
<1>. QED BY <1>2, <1>3 DEF Accepted

\* Where the helper has done anything, what it was given is there.
LEMMA AskedWith ==
  ASSUME LaunchInv, pc["parent"] # "collect"
  PROVE  /\ stage = "run" /\ Delivered
         /\ lines \in Seq(Names) /\ rest \in Users \cup {None}
BY DEF LaunchInv, Asked, Transferred

LEMMA RanWith ==
  ASSUME LaunchInv, ran # None
  PROVE  /\ pc["parent"] # "collect" /\ Accepted /\ user = Requested
         /\ ran = [user |-> user, force |-> force]
BY DEF LaunchInv, Inv, Lockstep, Traced, Alone, Leaving, Asked

(***************************************************************************)
(* The theorems.                                                           *)
(***************************************************************************)
\* When the parent of apply_gpo has its result, and when the helper has ended
\* for oddjobd to send the reply, no applier is at work.
THEOREM NoApplierLeftInvariant == LaunchSpec => []NoApplierLeft
<1>1. Inv => NoApplierLeft BY DEF Inv, Lockstep, Leaving, NoApplierLeft
<1>. QED BY Invariance, <1>1, PTL

\* HANDLER_INVALID_INVOCATION is returned only where main or gpupdate gives up
\* before the fork.
THEOREM NoTraceInvariant == LaunchSpec => []InvalidLeavesNoTrace
<1>1. Inv => InvalidLeavesNoTrace BY DEF Inv, Traced, InvalidLeavesNoTrace
<1>. QED BY Invariance, <1>1, PTL

\* oddjob_parse_args gives every list of words back that was written in any
\* mixture of the ways of quoting, and a blank outside of quotes separates.
THEOREM ParsesAsMeantInvariant == LaunchSpec => []ParsesAsMeant
<1>1. LaunchInv => ParsesAsMeant BY WrittenParses DEF LaunchInv
<1>. QED BY LaunchInvariance, <1>1, PTL

\* What oddjob_collect_args returns is what the call names, however retry_write
\* and fgets cut the stream, for every length of a chunk and of the pipe.
THEOREM DeliveredInvariant == LaunchSpec => []Delivered
<1>1. LaunchInv => Delivered BY DEF LaunchInv, Transferred, Delivered
<1>. QED BY LaunchInvariance, <1>1, PTL

\* With nothing that fgets would take and something left to write, there is
\* room: the pipe is not smaller than a chunk.
LEMMA RoomLeft ==
  ASSUME pipe \in Texts, Len(pipe) < Chunk, Len(Stream) \in Nat, sent \in Nat,
         sent < Len(Stream)
  PROVE  Room > 0
<1> DEFINE a == PipeSize - Len(pipe)
           b == Len(Stream) - sent
           S == {a, b}
<1>1. a \in Nat \ {0} /\ b \in Nat \ {0}
  <2>1. Len(pipe) \in Nat BY DEF Texts
  <2>2. PipeSize \in Nat /\ Chunk \in Nat /\ PipeSize >= Chunk BY LaunchAssumption
  <2>. QED BY <2>1, <2>2
<1>2. S \in SUBSET Nat /\ S # {} /\ \A y \in S : y \in Nat \ {0} BY <1>1
<1>3. Room = Min(S) BY DEF Room
<1>4. Room \in S
  <2>. HIDE DEF S
  <2>. QED BY <1>2, <1>3, MinOfNats
<1>5. Room \in Nat \ {0}
  <2>. HIDE DEF S
  <2>. QED BY <1>2, <1>4
<1>. QED BY <1>5

\* The writer of the arguments and fgets never wait for each other, for names of
\* any length and any pipe that holds a chunk.
THEOREM NeitherWaitsInvariant == LaunchSpec => []NeitherWaits
<1>1. LaunchInv => NeitherWaits
  <2>. SUFFICES ASSUME LaunchInv, stage = "transfer", ~CanRead, ~(closed /\ pipe = << >>)
                PROVE  ~closed /\ (Room > 0 \/ sent = Len(Stream))
    BY DEF NeitherWaits
  <2>1. ~closed /\ ~(Len(pipe) >= Chunk) BY DEF CanRead
  <2>2. PICK off : Cut(off, call, Stream, lines, thisline, pipe, sent)
    BY DEF LaunchInv, Transferred, Cutting
  <2>3. call \in Seq(Names) BY DEF LaunchInv, Transferred
  <2>4. CutTyped(off, call, Stream, lines, thisline, pipe, sent) BY <2>2, <2>3, CutTypes
  <2>5. pipe \in Texts BY <2>2 DEF Cut
  <2>6. /\ Len(pipe) \in Nat /\ Chunk \in Nat /\ Len(Stream) \in Nat /\ sent \in Nat
        /\ sent <= Len(Stream)
    BY <2>4, LaunchAssumption DEF CutTyped
  <2>7. Len(pipe) < Chunk /\ (sent < Len(Stream) \/ sent = Len(Stream)) BY <2>1, <2>6
  <2>. QED BY <2>1, <2>5, <2>6, <2>7, RoomLeft
<1>. QED BY LaunchInvariance, <1>1, PTL

\* What is left, in numbers: w to write, r in the pipe, e for the open end.
LEMMA CountsDown ==
  ASSUME NEW w \in Nat, NEW r \in Nat, NEW e \in {0, 1}
  PROVE  /\ \A n \in Nat \ {0} : n <= w =>
              2 * (w - n) + (r + n) + e \in 0 .. (2 * w + r + e) - 1
         /\ \A m \in Nat \ {0} : m <= r =>
              2 * w + (r - m) + e \in 0 .. (2 * w + r + e) - 1
         /\ e = 1 => 2 * w + r + 0 \in 0 .. (2 * w + r + e) - 1
OBVIOUS

LEMMA WriteCounts ==
  ASSUME Transferred, NEW n \in 1 .. Room, Write(n)
  PROVE  Unfinished' \in 0 .. Unfinished - 1
<1>1. /\ stage = "transfer" /\ call' = call /\ closed' = closed
      /\ lines' = lines /\ thisline' = thisline /\ sent' = sent + n /\ stage' = "transfer"
  BY DEF Write, vars, given
<1>2. /\ Stream' = Stream /\ call \in Seq(Names) /\ pipe \in Texts
      /\ Len(pipe) \in Nat /\ Len(pipe) <= PipeSize
      /\ Len(Stream) \in Nat /\ sent \in Nat /\ sent <= Len(Stream)
  BY <1>1, Transferring
<1>3. n \in Nat \ {0} /\ sent + n <= Len(Stream) BY <1>2, RoomIs
<1>4. Len(pipe') = Len(pipe) + n
  <2>1. PICK off : Cut(off, call, Stream, lines, thisline, pipe, sent) BY <1>1, Transferring
  <2>2. Cut(off, call, Stream, lines, thisline, pipe \o SubSeq(Stream, sent + 1, sent + n), sent + n)
    BY <1>2, <1>3, <2>1, CutWritten
  <2>3. pipe' = pipe \o SubSeq(Stream, sent + 1, sent + n) BY DEF Write
  <2>. QED BY <1>2, <1>3, <2>1, <2>2, <2>3, WrittenLength
<1> DEFINE e == IF closed THEN 0 ELSE 1
           w == Len(Stream) - sent
<1>5. w \in Nat /\ e \in {0, 1} /\ n <= w /\ Len(Stream') - sent' = w - n
  BY <1>1, <1>2, <1>3
<1>6. Unfinished = 2 * w + Len(pipe) + e /\ Unfinished' = 2 * (w - n) + (Len(pipe) + n) + e
  BY <1>1, <1>4, <1>5 DEF Unfinished
<1>. HIDE DEF e, w
<1>. QED BY <1>2, <1>3, <1>5, <1>6, CountsDown

LEMMA CloseCounts ==
  ASSUME Transferred, WriteDone \/ WriteFails
  PROVE  Unfinished' \in 0 .. Unfinished - 1
<1>1. /\ stage = "transfer" /\ call' = call /\ pipe' = pipe /\ sent' = sent
      /\ ~closed /\ closed'
  BY DEF WriteDone, WriteFails
<1>2. /\ Stream' = Stream /\ Len(pipe) \in Nat
      /\ Len(Stream) \in Nat /\ sent \in Nat /\ sent <= Len(Stream)
  BY <1>1, Transferring
<1> DEFINE w == Len(Stream) - sent
<1>3. w \in Nat BY <1>2
<1>4. Unfinished = 2 * w + Len(pipe) + 1 /\ Unfinished' = 2 * w + Len(pipe) + 0
  BY <1>1, <1>2 DEF Unfinished
<1>. HIDE DEF w
<1>. QED BY <1>2, <1>3, <1>4, CountsDown

LEMMA ReadCounts ==
  ASSUME Transferred, ReadPart \/ ReadEnd
  PROVE  Unfinished' \in 0 .. Unfinished - 1
<1>1. /\ stage = "transfer" /\ call' = call /\ sent' = sent /\ closed' = closed
      /\ CanRead /\ pipe' = SubSeq(pipe, Len(Fgets) + 1, Len(pipe))
  BY DEF ReadPart, ReadEnd
<1>2. /\ Stream' = Stream /\ pipe \in Texts /\ Len(pipe) \in Nat
      /\ Len(Stream) \in Nat /\ sent \in Nat /\ sent <= Len(Stream)
  BY <1>1, Transferring
<1>3. PICK m \in 1 .. Len(pipe) : Got(pipe, Fgets, m) BY <1>1, <1>2, FgetsIs
<1>4. Len(Fgets) = m /\ m \in Nat \ {0} /\ m <= Len(pipe) BY <1>2, <1>3 DEF Got
<1>5. Len(pipe') = Len(pipe) - m BY <1>1, <1>2, <1>4 DEF Texts
<1> DEFINE e == IF closed THEN 0 ELSE 1
           w == Len(Stream) - sent
<1>6. w \in Nat /\ e \in {0, 1} BY <1>2
<1>7. Unfinished = 2 * w + Len(pipe) + e /\ Unfinished' = 2 * w + (Len(pipe) - m) + e
  BY <1>1, <1>2, <1>5 DEF Unfinished
<1>. HIDE DEF e, w
<1>. QED BY <1>2, <1>4, <1>6, <1>7, CountsDown

\* Every step of the transfer, also one of retry_write that fails, brings its end
\* nearer by a number that cannot fall below zero.
THEOREM EachStepCountsTheorem == LaunchSpec => EachStepCounts
<1>1. ASSUME LaunchInv, [LaunchNext]_launchVars
      PROVE  [stage = "transfer" /\ stage' = "transfer" =>
                Unfinished' \in 0 .. Unfinished - 1]_launchVars
  <2>. SUFFICES ASSUME LaunchNext, stage = "transfer", stage' = "transfer",
                       launchVars' # launchVars
                PROVE  Unfinished' \in 0 .. Unfinished - 1
    BY <1>1
  <2>1. Transferred BY <1>1 DEF LaunchInv
  <2>2. CASE WriteMeant \/ WriteAtRandom \/ StartOver
    BY <2>2 DEF WriteMeant, WriteAtRandom, StartOver, Configuring
  <2>3. CASE Launch BY <2>3 DEF Launch
  <2>4. CASE Writer BY <2>1, <2>4, WriteCounts, CloseCounts DEF Writer
  <2>5. CASE Reader BY <2>1, <2>5, ReadCounts DEF Reader, EndOfInput
  <2>6. CASE Helper BY <2>6 DEF Helper
  <2>. QED BY <2>2, <2>3, <2>4, <2>5, <2>6 DEF LaunchNext
<1>. QED BY LaunchInvariance, <1>1, PTL DEF LaunchSpec, EachStepCounts

\* The reply holds the message of gpupdate once and last, or twice when the
\* child wrote its copy of the buffer too, and never when it is quiet.
THEOREM ReplyTextInvariant == LaunchSpec => []ReplyText
<1>1. LaunchInv => ReplyText
  <2>. SUFFICES ASSUME LaunchInv PROVE ReplyText OBVIOUS
  <2>1. Messages = MessagesIn(stdout) BY DEF Messages, MessagesIn
  <2>. QED BY <2>1 DEF LaunchInv, Environment, Said, ParentSaid, ChildSaid, ReplyText, Answered
<1>. QED BY LaunchInvariance, <1>1, PTL

\* The variables of the helper keep their types: no user but one that the call
\* could name, no exit code but the three.
THEOREM HelperTypeInvariant == LaunchSpec => []TypeOK
<1>1. LaunchInv => TypeOK
  <2>. SUFFICES ASSUME LaunchInv PROVE TypeOK OBVIOUS
  <2>1. /\ quiet \in BOOLEAN /\ force \in BOOLEAN /\ account \in [Users -> Accounts]
        /\ applier \in Files /\ sigchld \in {"default", "ignored"}
        /\ pc \in [Processes -> {"absent", "collect", "announce", "stat", "fork", "wait",
                                 "exec", "applier", "exit", "ended", "crashed"}]
        /\ code \in [Processes -> (0 .. 2) \cup {None}]
        /\ buffered \in [Processes -> 0 .. 1] /\ stdout \in Seq({"message", "output"})
    BY DEF LaunchInv, Environment, Inv, Lockstep, Traced, Places, Said, Outputs
  <2>2. lines \in Seq(Names) /\ rest \in Users \cup {None}
    <3>1. CASE stage = "configure"
      BY <3>1, EmptySeq DEF LaunchInv, Transferred, NothingSent
    <3>2. CASE stage = "transfer"
      <4>1. \E off : Cut(off, call, Stream, lines, thisline, pipe, sent)
        BY <3>2 DEF LaunchInv, Transferred, Cutting
      <4>2. rest = None BY <3>2 DEF LaunchInv, Transferred
      <4>. QED BY <4>1, <4>2 DEF Cut
    <3>3. CASE stage = "run" BY <3>3 DEF LaunchInv, Transferred
    <3>. QED BY <3>1, <3>2, <3>3 DEF LaunchInv, Transferred
  <2>3. user \in Users \cup {NoUser, None}
    <3>1. CASE pc["parent"] = "collect" BY <3>1 DEF LaunchInv, Asked
    <3>2. CASE pc["parent"] # "collect" /\ ~Accepted BY <3>2 DEF LaunchInv, Asked
    <3>3. CASE pc["parent"] # "collect" /\ Accepted
      <4>1. user = Requested BY <3>3 DEF LaunchInv, Asked
      <4>. QED BY <3>3, <4>1, AskedWith, RequestedIs
    <3>. QED BY <3>1, <3>2, <3>3
  <2>4. ran \in [user : Users \cup {NoUser}, force : BOOLEAN] \cup {None}
    <3>. SUFFICES ASSUME ran # None PROVE ran \in [user : Users \cup {NoUser}, force : BOOLEAN]
      OBVIOUS
    <3>1. user \in Users \cup {NoUser} BY RanWith, AskedWith, RequestedIs
    <3>. QED BY <2>1, <3>1, RanWith
  <2>. QED BY <2>1, <2>2, <2>3, <2>4 DEF TypeOK, Names
<1>. QED BY LaunchInvariance, <1>1, PTL

\* The applier is run with the options of the configured command line and for
\* the user of the call, from the first character of the one and the first
\* byte of the other to execl.
THEOREM RunsAsConfiguredInvariant == LaunchSpec => []RunsAsConfigured
<1>1. LaunchInv => RunsAsConfigured
  <2>. SUFFICES ASSUME LaunchInv, ran # None, ~broken
                PROVE  /\ wanted # None => ran.force = wanted.force
                       /\ call = << >> \/ call = <<ran.user>>
                       /\ call = << >> => ran.user = NoUser
    BY DEF RunsAsConfigured
  <2>1. /\ pc["parent"] # "collect" /\ Accepted /\ user = Requested
        /\ ran = [user |-> user, force |-> force]
    BY RanWith
  <2>2. /\ stage = "run" /\ Delivered /\ lines \in Seq(Names) /\ rest \in Users \cup {None}
    BY <2>1, AskedWith
  <2>3. Arguments = call BY <2>2 DEF Delivered, Arguments
  <2>4. ran.user = Requested BY <2>1
  <2>5. call = << >> \/ call = <<ran.user>> BY <2>1, <2>2, <2>3, <2>4, RequestedIs
  <2>6. call = << >> => ran.user = NoUser BY <2>1, <2>2, <2>3, <2>4, RequestedIs
  <2>7. wanted # None => ran.force = wanted.force
    <3>1. ran.force = force BY <2>1
    <3>2. wanted # None => force = wanted.force BY <2>2 DEF LaunchInv, Configured
    <3>. QED BY ONLY <3>1, <3>2, Zenon
  <2>. QED BY <2>5, <2>6, <2>7
<1>. QED BY LaunchInvariance, <1>1, PTL
=============================================================================
