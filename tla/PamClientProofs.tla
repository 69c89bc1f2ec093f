---------------------------- MODULE PamClientProofs ----------------------------
(***************************************************************************)
(* Theorems about PamClient, for every number of hooks, every option and   *)
(* every width of an int.                                                  *)
(***************************************************************************)
EXTENDS PamClient, TLAPS

(***************************************************************************)
(* The arithmetic of the timeout.                                          *)
(***************************************************************************)
LEMMA ModRange ==
  ASSUME NEW a \in Int, NEW m \in Nat \ {0}
  PROVE  a % m \in 0 .. m - 1
OBVIOUS

LEMMA ModSmall ==
  ASSUME NEW m \in Nat \ {0}, NEW a \in 0 .. m - 1
  PROVE  a % m = a
OBVIOUS

\* A number of any size becomes an int.
LEMMA WrappedIsInt ==
  ASSUME NEW n \in Int
  PROVE  Wrapped(n) \in -IntMax - 1 .. IntMax
<1> DEFINE m == 2 * (IntMax + 1)
<1>1. IntMax \in Nat \ {0} BY ClientAssumption
<1>2. m \in Nat \ {0} BY <1>1
<1>3. n + IntMax + 1 \in Int BY <1>1
<1>4. (n + IntMax + 1) % m \in 0 .. m - 1 BY <1>2, <1>3, ModRange
<1> HIDE DEF m
<1>5. ((n + IntMax + 1) % m) - (IntMax + 1) \in -IntMax - 1 .. IntMax
  BY <1>1, <1>4 DEF m
<1>. QED BY <1>5 DEF Wrapped, m

\* One that is an int stays as it is.
LEMMA WrappedKeeps ==
  ASSUME NEW n \in 0 .. IntMax
  PROVE  Wrapped(n) = n
<1> DEFINE m == 2 * (IntMax + 1)
<1>1. IntMax \in Nat \ {0} BY ClientAssumption
<1>2. m \in Nat \ {0} BY <1>1
<1>3. n + IntMax + 1 \in 0 .. m - 1 BY <1>1
<1>4. (n + IntMax + 1) % m = n + IntMax + 1 BY <1>2, <1>3, ModSmall
<1> HIDE DEF m
<1>5. ((n + IntMax + 1) % m) - (IntMax + 1) = n
  BY <1>1, <1>4
<1>. QED BY <1>5 DEF Wrapped, m

(***************************************************************************)
(* The inductive invariant, in parts.                                      *)
(***************************************************************************)
Waiting == {"send", "wait", "drop"}
Before  == {"lookup", "check", "connect"}

\* Types, but for the bound of the references.
Shape ==
  /\ option \in Options \cup {None}
  /\ ruid \in Uids /\ euid \in Uids /\ account \in Uids \cup {None}
  /\ entry \in 0 .. MaxGrowth
  /\ hook \in 0 .. MaxHooks
  /\ pc \in {"idle", "lookup", "check", "connect", "send", "wait", "drop", "aborted"}
  /\ growth \in 0 .. MaxGrowth
  /\ timeout \in -IntMax - 1 .. IntMax
  /\ refs \in Int
  /\ link \in {"alive", "dead", None}
  /\ bus \in {"up", "down"}
  /\ request \in [Hooks -> {"none", "sent", "running", "done", "unheard", "refused"}]
  /\ shown \in [Hooks -> {"nothing", "reply", "error"}]

\* Every hook keeps one reference at most, and one more while it calls.
Counted ==
  /\ refs >= 0
  /\ refs <= hook + (IF pc = "idle" THEN 0 ELSE IF pc \in Before THEN -1 ELSE 1)
  /\ pc = "idle" \/ hook >= 1
  /\ pc \in Waiting => refs >= 2
  /\ link = None <=> refs = 0

\* A request that is still at work was given up, or is being waited for.
Announced ==
  /\ \A h \in Hooks : h > hook => request[h] = "none"
  /\ \A h \in Hooks : AtWork(h) => shown[h] = "error" \/ (h = hook /\ pc = "wait")

\* The timeout is that of the option, and only an illegal one aborts.
Computed ==
  /\ pc # "idle" => timeout = Milliseconds
  /\ pc = "aborted" => ~LegalTimeout

Inv == Shape /\ Counted /\ Announced /\ Computed

LEMMA MillisecondsIsInt ==
  ASSUME Shape
  PROVE  Milliseconds \in -IntMax - 1 .. IntMax
<1>1. IntMax \in Nat \ {0} BY ClientAssumption
<1>2. CASE option = None
  BY <1>1, <1>2 DEF Milliseconds
<1>3. CASE option # None
  <2>1. option \in -IntMax - 1 .. IntMax BY <1>3, ClientAssumption DEF Shape
  <2>2. option * 1000 \in Int BY <1>1, <2>1
  <2>. QED BY <1>3, <2>2, WrappedIsInt DEF Milliseconds
<1>. QED BY <1>2, <1>3

LEMMA InitInv == Init => Inv
<1> SUFFICES ASSUME Init PROVE Inv OBVIOUS
<1> USE ClientAssumption
<1>1. Shape BY DEF Init, Shape, Before, Waiting
<1>2. Counted BY DEF Init, Counted, Before, Waiting
<1>3. Announced BY DEF Init, Announced, AtWork
<1>4. Computed BY DEF Init, Computed
<1>. QED BY <1>1, <1>2, <1>3, <1>4 DEF Inv

(***************************************************************************)
(* The steps, part by part.                                                *)
(***************************************************************************)
LEMMA ShapeStep ==
  ASSUME Inv, [Next]_vars
  PROVE  Shape'
<1> USE DEF Inv, Shape, Show, Before, Waiting, given, libdbus, control, Goto
<1>a. MaxHooks \in Nat /\ MaxGrowth \in Nat /\ None \notin {"alive", "dead"}
  BY ClientAssumption
<1>1. CASE CallHook BY <1>1, <1>a, MillisecondsIsInt DEF CallHook
<1>2. CASE Grow BY <1>2, <1>a DEF Grow
<1>3. CASE LookUpFails BY <1>3 DEF LookUpFails
<1>4. CASE LookUp BY <1>4 DEF LookUp
<1>5. CASE Check BY <1>5 DEF Check
<1>6. CASE Connect BY <1>6, <1>a DEF Connect
<1>7. CASE ConnectFails BY <1>7 DEF ConnectFails
<1>8. CASE Send BY <1>8 DEF Send
<1>9. CASE SendOnDead BY <1>9 DEF SendOnDead
<1>10. CASE SendRejected BY <1>10 DEF SendRejected
<1>11. CASE Receive BY <1>11 DEF Receive
<1>12. CASE GiveUp BY <1>12 DEF GiveUp
<1>13. CASE Drop BY <1>13, <1>a DEF Drop
<1>14. CASE Refuse BY <1>14, <1>a DEF Refuse, Refused, Undelivered
<1>15. CASE BusDown BY <1>15, <1>a DEF BusDown, Refused, Undelivered
<1>16. CASE BusUp BY <1>16, <1>a DEF BusUp
<1>17. ASSUME NEW h \in Hooks, StartHelper(h) PROVE Shape'
  BY <1>17 DEF StartHelper, Becomes
<1>18. ASSUME NEW h \in Hooks, FinishHelper(h) PROVE Shape'
  BY <1>18 DEF FinishHelper, Becomes
<1>19. CASE UNCHANGED vars BY <1>19 DEF vars
<1>. QED
  BY <1>1, <1>2, <1>3, <1>4, <1>5, <1>6, <1>7, <1>8, <1>9, <1>10,
     <1>11, <1>12, <1>13, <1>14, <1>15, <1>16, <1>17, <1>18, <1>19 DEF Next, Module

LEMMA CountedStep ==
  ASSUME Inv, [Next]_vars
  PROVE  Counted'
<1> USE DEF Inv, Shape, Counted, Show, Before, Waiting, given, libdbus, control, Goto
<1>a. MaxHooks \in Nat /\ MaxGrowth \in Nat /\ None \notin {"alive", "dead"}
  BY ClientAssumption
<1>1. CASE CallHook BY <1>1, <1>a DEF CallHook
<1>2. CASE Grow BY <1>2, <1>a DEF Grow
<1>3. CASE LookUpFails BY <1>3 DEF LookUpFails
<1>4. CASE LookUp BY <1>4 DEF LookUp
<1>5. CASE Check BY <1>5 DEF Check
<1>6. CASE Connect BY <1>6, <1>a DEF Connect
<1>7. CASE ConnectFails BY <1>7 DEF ConnectFails
<1>8. CASE Send BY <1>8 DEF Send
<1>9. CASE SendOnDead BY <1>9 DEF SendOnDead
<1>10. CASE SendRejected BY <1>10 DEF SendRejected
<1>11. CASE Receive BY <1>11 DEF Receive
<1>12. CASE GiveUp BY <1>12 DEF GiveUp
<1>13. CASE Drop BY <1>13, <1>a DEF Drop
<1>14. CASE Refuse BY <1>14, <1>a DEF Refuse, Refused, Undelivered
<1>15. CASE BusDown BY <1>15, <1>a DEF BusDown, Refused, Undelivered
<1>16. CASE BusUp BY <1>16, <1>a DEF BusUp
<1>17. ASSUME NEW h \in Hooks, StartHelper(h) PROVE Counted'
  BY <1>17 DEF StartHelper, Becomes
<1>18. ASSUME NEW h \in Hooks, FinishHelper(h) PROVE Counted'
  BY <1>18 DEF FinishHelper, Becomes
<1>19. CASE UNCHANGED vars BY <1>19 DEF vars
<1>. QED
  BY <1>1, <1>2, <1>3, <1>4, <1>5, <1>6, <1>7, <1>8, <1>9, <1>10,
     <1>11, <1>12, <1>13, <1>14, <1>15, <1>16, <1>17, <1>18, <1>19 DEF Next, Module

LEMMA AnnouncedStep ==
  ASSUME Inv, [Next]_vars
  PROVE  Announced'
<1> USE DEF Inv, Shape, Announced, AtWork, Show, Before, Waiting, Hooks,
           given, libdbus, control, Goto
<1>a. MaxHooks \in Nat /\ MaxGrowth \in Nat /\ None \notin {"alive", "dead"}
  BY ClientAssumption
<1>1. CASE CallHook BY <1>1, <1>a DEF CallHook
<1>2. CASE Grow BY <1>2, <1>a DEF Grow
<1>3. CASE LookUpFails BY <1>3 DEF LookUpFails
<1>4. CASE LookUp BY <1>4 DEF LookUp
<1>5. CASE Check BY <1>5 DEF Check
<1>6. CASE Connect BY <1>6, <1>a DEF Connect
<1>7. CASE ConnectFails BY <1>7 DEF ConnectFails
<1>8. CASE Send BY <1>8 DEF Send
<1>9. CASE SendOnDead BY <1>9 DEF SendOnDead
<1>10. CASE SendRejected BY <1>10 DEF SendRejected
<1>11. CASE Receive BY <1>11 DEF Receive
<1>12. CASE GiveUp BY <1>12 DEF GiveUp
<1>13. CASE Drop BY <1>13, <1>a DEF Drop
<1>14. CASE Refuse BY <1>14, <1>a DEF Refuse, Refused, Undelivered
<1>15. CASE BusDown BY <1>15, <1>a DEF BusDown, Refused, Undelivered
<1>16. CASE BusUp BY <1>16, <1>a DEF BusUp
<1>17. ASSUME NEW h \in Hooks, StartHelper(h) PROVE Announced'
  BY <1>17 DEF StartHelper, Becomes
<1>18. ASSUME NEW h \in Hooks, FinishHelper(h) PROVE Announced'
  BY <1>18 DEF FinishHelper, Becomes
<1>19. CASE UNCHANGED vars BY <1>19 DEF vars
<1>. QED
  BY <1>1, <1>2, <1>3, <1>4, <1>5, <1>6, <1>7, <1>8, <1>9, <1>10,
     <1>11, <1>12, <1>13, <1>14, <1>15, <1>16, <1>17, <1>18, <1>19 DEF Next, Module

LEMMA ComputedStep ==
  ASSUME Inv, [Next]_vars
  PROVE  Computed'
<1> USE DEF Inv, Shape, Computed, Show, LegalTimeout, Milliseconds,
           given, libdbus, control, Goto
<1>a. MaxHooks \in Nat /\ MaxGrowth \in Nat /\ None \notin {"alive", "dead"}
  BY ClientAssumption
<1>1. CASE CallHook BY <1>1, <1>a DEF CallHook
<1>2. CASE Grow BY <1>2, <1>a DEF Grow
<1>3. CASE LookUpFails BY <1>3 DEF LookUpFails
<1>4. CASE LookUp BY <1>4 DEF LookUp
<1>5. CASE Check BY <1>5 DEF Check
<1>6. CASE Connect BY <1>6, <1>a DEF Connect
<1>7. CASE ConnectFails BY <1>7 DEF ConnectFails
<1>8. CASE Send BY <1>8 DEF Send
<1>9. CASE SendOnDead BY <1>9 DEF SendOnDead
<1>10. CASE SendRejected BY <1>10 DEF SendRejected
<1>11. CASE Receive BY <1>11 DEF Receive
<1>12. CASE GiveUp BY <1>12 DEF GiveUp
<1>13. CASE Drop BY <1>13, <1>a DEF Drop
<1>14. CASE Refuse BY <1>14, <1>a DEF Refuse, Refused, Undelivered
<1>15. CASE BusDown BY <1>15, <1>a DEF BusDown, Refused, Undelivered
<1>16. CASE BusUp BY <1>16, <1>a DEF BusUp
<1>17. ASSUME NEW h \in Hooks, StartHelper(h) PROVE Computed'
  BY <1>17 DEF StartHelper, Becomes
<1>18. ASSUME NEW h \in Hooks, FinishHelper(h) PROVE Computed'
  BY <1>18 DEF FinishHelper, Becomes
<1>19. CASE UNCHANGED vars BY <1>19 DEF vars
<1>. QED
  BY <1>1, <1>2, <1>3, <1>4, <1>5, <1>6, <1>7, <1>8, <1>9, <1>10,
     <1>11, <1>12, <1>13, <1>14, <1>15, <1>16, <1>17, <1>18, <1>19 DEF Next, Module

LEMMA InvInvariant == Spec => []Inv
<1>1. Inv /\ [Next]_vars => Inv'
  BY ShapeStep, CountedStep, AnnouncedStep, ComputedStep DEF Inv
<1>. QED BY InitInv, <1>1, PTL DEF Spec

(***************************************************************************)
(* The theorems.                                                           *)
(***************************************************************************)
\* The types hold, the int of the timeout and the number of references among
\* them, for every option and every number of hooks.
THEOREM ClientTypes == Spec => []TypeOK
<1>1. Inv => TypeOK
  <2> SUFFICES ASSUME Inv PROVE TypeOK OBVIOUS
  <2>1. hook \in 0 .. MaxHooks /\ refs \in Int /\ MaxHooks \in Nat
    BY ClientAssumption DEF Inv, Shape
  <2>0. refs <= hook + 1 /\ (hook = 0 => refs <= 0)
    BY <2>1 DEF Inv, Counted
  <2>2. refs >= 0 BY DEF Inv, Counted
  <2>3. refs \in 0 .. 2 * MaxHooks
    BY <2>0, <2>1, <2>2
  <2>. QED BY <2>3 DEF Inv, Shape, TypeOK, Before, Waiting
<1>. QED BY <1>1, InvInvariant, PTL

\* Two updates of one login overlap only after the user was told that the
\* module gave the earlier one up.
THEOREM OneUpdateInvariant == Spec => []OneUpdateAtATime
<1>1. Inv => OneUpdateAtATime
  BY DEF Inv, Shape, Announced, OneUpdateAtATime, AtWork, Hooks
<1>. QED BY <1>1, InvInvariant, PTL

\* The module ends the login process for no option in the range that fits.
THEOREM NoAbortInvariant == Spec => []NoAbortInRange
<1>1. Inv => NoAbortInRange
  <2> SUFFICES ASSUME Inv, pc = "aborted", option \in 0 .. IntMax \div 1000 \/ option = None
               PROVE  FALSE
    BY DEF NoAbortInRange
  <2>1. timeout = Milliseconds /\ ~(timeout >= -1)
    BY DEF Inv, Computed, LegalTimeout
  <2>2. CASE option = None BY <2>1, <2>2 DEF Milliseconds
  <2>3. CASE option # None
    <3>1. IntMax \in Nat \ {0} BY ClientAssumption
    <3>2. option \in Nat /\ option * 1000 <= IntMax BY <2>3, <3>1
    <3>3. option * 1000 \in 0 .. IntMax BY <3>1, <3>2
    <3>4. Milliseconds = option * 1000
      BY <2>3, <3>3, WrappedKeeps DEF Milliseconds
    <3>. QED BY <2>1, <3>2, <3>4
  <2>. QED BY <2>2, <2>3
<1>. QED BY <1>1, InvInvariant, PTL

\* The last reference to the shared connection is never dropped, however many
\* hooks are called and however often the bus goes away.
THEOREM ReferencesInvariant == Spec => []ReferencesKept
<1>1. Inv => ReferencesKept
  BY DEF Inv, Shape, Counted, ReferencesKept, Before, Waiting
<1>. QED BY <1>1, InvInvariant, PTL
=============================================================================
