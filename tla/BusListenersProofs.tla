------------------------ MODULE BusListenersProofs --------------------------
(***************************************************************************)
(* Proofs about BusListeners, in layers: what a layer needs of the ones    *)
(* below it is an invariant by then, so that each is short.                *)
(*   1. Shape      types, and what the program counter says of the data   *)
(*   2. Placement  where a call can be                                     *)
(*   3. RefsExact  the reference counts, and with them TypeOK              *)
(*   4. Routing    names, watches, exit policy                             *)
(***************************************************************************)
EXTENDS BusListeners, FiniteSetTheorems, TLAPS

(***************************************************************************)
(* Layer 1.                                                                *)
(***************************************************************************)
\* TypeOK, but for the reference counts: that they never go below zero is
\* layer 3.
Typed ==
  /\ status \in Statuses
  /\ timeout \in Timeouts
  /\ services \in SUBSET Services
  /\ conn \in [Services -> ConnOrNone]
  /\ pc \in PCs
  /\ todo \in SUBSET Services
  /\ target \in Services \cup {None}
  /\ fresh \in ConnOrNone
  /\ attempt \in 0 .. FastAttempts + 1
  /\ pause \in {"none", "fast", "full"}
  /\ refs \in [Conns -> Int]
  /\ wire \in [Conns -> BOOLEAN]
  /\ open \in [Conns -> BOOLEAN]
  /\ exitOn \in [Conns -> BOOLEAN]
  /\ attached \in [Conns -> BOOLEAN]
  /\ inbox \in [Conns -> Seq(Calls \cup {Disconnected})]
  /\ bus \in {"up", "down"}
  /\ owner \in [Services -> Conns \cup {None, Foreign}]
  /\ call \in [Calls -> {"new", "sent", "answered", "lost"}]
  /\ holder \in [Calls -> ConnOrNone]

\* service_connect runs for a target without a connection, holds one only
\* while it binds it, and is called for a name outside the array or from the
\* loop of reconnect_if_needed.
Control ==
  /\ \A s \in Services : s \notin services => conn[s] = None
  /\ pc \in {"connect", "bind"} <=> target # None
  /\ pc = "bind" <=> fresh # None
  /\ target # None => conn[target] = None
  /\ todo \subseteq services
  /\ pc \in {"idle", "select"} => todo = {}
  /\ target # None /\ target \notin services => todo = {}

Shape == Typed /\ Control

LEMMA ShapeInit == Init => Shape
BY ConstantsAssumption DEF Init, Shape, Typed, Control, Statuses, PCs, ConnOrNone

LEMMA ShapeStep == Shape /\ [Next]_vars => Shape'
<1> SUFFICES ASSUME Shape, [Next]_vars PROVE Shape'
  OBVIOUS
<1> USE ConstantsAssumption
       DEF Shape, Typed, Control, Statuses, PCs, ConnOrNone,
           ctxVars, pcVars, connVars, busVars, callVars
<1>1. CASE ConnectFail
  BY <1>1 DEF ConnectFail
<1>2. CASE \E k \in Conns : ConnectOpen(k)
  BY <1>2 DEF ConnectOpen, ExitPolicy
<1>3. CASE BindOk
  BY <1>3 DEF BindOk, ConnectReturn
<1>4. CASE BindFail
  BY <1>4 DEF BindFail, ConnectReturn, Disconnect, Unwatch, Close, Unref,
              Dropped, LoseCalls
<1>5. CASE LoopReturn
  BY <1>5 DEF LoopReturn
<1>6. CASE \E s \in Services : ReconnectSkip(s)
  BY <1>6 DEF ReconnectSkip
<1>7. CASE \E s \in Services : ReconnectService(s)
  BY <1>7 DEF ReconnectService, StartConnect, Disconnect, Unwatch, Close,
              Unref, Dropped, LoseCalls
<1>8. CASE \E s \in Services : DispatchDone(s)
  BY <1>8 DEF DispatchDone, NullChecked
<1>9. CASE \E s \in Services : DispatchDisconnected(s)
  BY <1>9 DEF DispatchDisconnected, Dispatching
<1>10. CASE \E s \in Services : DispatchAnswer(s)
  BY <1>10 DEF DispatchAnswer, Dispatching, SendReply
<1>11. CASE \E s \in Services : DispatchKeep(s)
  BY <1>11 DEF DispatchKeep, Dispatching
<1>12. CASE MainIterate \/ SelectReturns
  BY <1>12 DEF MainIterate, SelectReturns, Idle
<1>13. CASE ReconnectIfNeeded
  BY <1>13 DEF ReconnectIfNeeded, Idle
<1>14. CASE ListenersFree
  <2> DEFINE K == ServiceConns
  <2> HIDE DEF K
  <2>1. /\ Disconnect(K) /\ Idle /\ UNCHANGED <<timeout, pcVars, bus, holder>>
        /\ conn' = [s \in Services |-> None] /\ services' = {} /\ status' = "freed"
    BY <1>14 DEF ListenersFree, K
  <2> QED
    BY <2>1 DEF Idle, Disconnect, Unwatch, Close, Unref, Dropped, LoseCalls
<1>15. CASE \E s \in Services : AddService(s)
  BY <1>15 DEF AddService, Idle, StartConnect
<1>16. CASE \E s \in Services : RemoveService(s)
  <2>1. PICK s \in Services : RemoveService(s)
    BY <1>16
  <2>2. status' \in Statuses
    BY <2>1 DEF RemoveService
  <2> QED
    BY <2>1, <2>2 DEF RemoveService, Idle, Disconnect, Unwatch, Close, Unref,
                      Dropped, LoseCalls
<1>17. CASE \E t \in Timeouts : SetReconnectTimeout(t)
  <2>1. PICK t \in Timeouts : SetReconnectTimeout(t)
    BY <1>17
  <2>2. exitOn' \in [Conns -> BOOLEAN]
    <3>1. (t <= 0) \in BOOLEAN
      OBVIOUS
    <3> QED
      BY <2>1, <3>1, Zenon DEF SetReconnectTimeout
  <2> QED
    BY <2>1, <2>2 DEF SetReconnectTimeout, Idle, NullChecked
<1>18. CASE \E x \in Calls : Reply(x)
  BY <1>18 DEF Reply, SendReply
<1>19. CASE BusDown
  BY <1>19 DEF BusDown
<1>20. CASE BusUp
  BY <1>20 DEF BusUp
<1>21. CASE \E k \in Conns : Notice(k)
  BY <1>21 DEF Notice
<1>22. CASE \E s \in Services : ForeignAcquire(s) \/ ForeignRelease(s)
  <2>1. owner' \in [Services -> Conns \cup {None, Foreign}]
    BY <1>22 DEF ForeignAcquire, ForeignRelease
  <2> QED
    BY <1>22, <2>1 DEF ForeignAcquire, ForeignRelease
<1>23. CASE \E x \in Calls, s \in Services : SendCall(x, s)
  BY <1>23 DEF SendCall
<1>24. CASE UNCHANGED vars
  BY <1>24 DEF vars
<1> QED
  BY <1>1, <1>2, <1>3, <1>4, <1>5, <1>6, <1>7, <1>8, <1>9, <1>10, <1>11,
     <1>12, <1>13, <1>14, <1>15, <1>16, <1>17, <1>18, <1>19, <1>20, <1>21,
     <1>22, <1>23, <1>24
     DEF Next, Loop, Program, Environment

\* The values of a running system are of their types, and service_connect is
\* entered, left and resumed as its callers expect.
THEOREM ShapeInvariant == Spec => []Shape
BY ShapeInit, ShapeStep, PTL DEF Spec

(***************************************************************************)
(* Layer 2.                                                                *)
(***************************************************************************)
\* A call is in one place: one position of one inbox, or one holder.
Placement ==
  /\ \A k \in Conns : \A i \in 1 .. Len(inbox[k]) :
       inbox[k][i] \in Calls =>
         call[inbox[k][i]] # "new" /\ holder[inbox[k][i]] = None
  /\ \A k, l \in Conns : \A i \in 1 .. Len(inbox[k]), j \in 1 .. Len(inbox[l]) :
       inbox[k][i] = inbox[l][j] /\ inbox[k][i] \in Calls => k = l /\ i = j
  /\ \A x \in Calls : holder[x] # None => call[x] # "new"

LEMMA PlacementInit == Init => Placement
BY DEF Init, Placement

\* Taking the first message, or none, leaves what was placed in place.
LEMMA PlacementStep == Shape /\ Placement /\ [Next]_vars => Placement'
<1> SUFFICES ASSUME Shape, Placement, [Next]_vars PROVE Placement'
  OBVIOUS
<1> DEFINE M == Calls \cup {Disconnected}
<1>t. /\ inbox \in [Conns -> Seq(M)]
      /\ call \in [Calls -> {"new", "sent", "answered", "lost"}]
      /\ holder \in [Calls -> ConnOrNone] /\ conn \in [Services -> ConnOrNone]
      /\ owner \in [Services -> Conns \cup {None, Foreign}]
  BY DEF Shape, Typed
<1>n. None \notin Conns /\ Disconnected \notin Calls
  BY ConstantsAssumption
\* Steps that queue nothing, forget no holder and only settle calls.
<1>q. ASSUME UNCHANGED holder,
             \A k \in Conns : inbox'[k] = inbox[k] \/ inbox'[k] = <<>>,
             \A x \in Calls : call'[x] = "new" => call[x] = "new"
      PROVE  Placement'
  BY <1>q, <1>t DEF Placement
<1>d. ASSUME NEW K, Close(K)
      PROVE  /\ \A k \in Conns : inbox'[k] = inbox[k] \/ inbox'[k] = <<>>
             /\ \A x \in Calls : call'[x] = "new" => call[x] = "new"
  BY <1>d, <1>t DEF Close, LoseCalls
\* A dispatch takes the first message of one inbox.
<1>p. ASSUME NEW s \in Services, Dispatching(s)
      PROVE  /\ conn[s] \in Conns /\ Len(inbox[conn[s]]) >= 1
             /\ Head(inbox[conn[s]]) = inbox[conn[s]][1]
             /\ \A i \in 1 .. Len(inbox'[conn[s]]) :
                  /\ i + 1 \in 1 .. Len(inbox[conn[s]])
                  /\ inbox'[conn[s]][i] = inbox[conn[s]][i + 1]
             /\ \A k \in Conns : k # conn[s] => inbox'[k] = inbox[k]
  <2> DEFINE q == inbox[conn[s]]
  <2>1. conn[s] \in Conns /\ q \in Seq(M) /\ q # <<>>
    BY <1>p, <1>t DEF Dispatching, ConnOrNone
  <2>2. inbox' = [inbox EXCEPT ![conn[s]] = Tail(q)]
    BY <1>p DEF Dispatching
  <2>3. inbox'[conn[s]] = Tail(q) /\ \A k \in Conns : k # conn[s] => inbox'[k] = inbox[k]
    BY <2>1, <2>2, <1>t
  <2> HIDE DEF q
  <2>4. /\ Len(q) >= 1 /\ Head(q) = q[1]
        /\ \A i \in 1 .. Len(Tail(q)) : i + 1 \in 1 .. Len(q) /\ Tail(q)[i] = q[i + 1]
    BY <2>1
  <2> QED
    BY <2>1, <2>3, <2>4 DEF q
\* What is left is placed as before, and only the message taken may get a
\* holder.
<1>r. ASSUME NEW s \in Services, Dispatching(s),
             \A x \in Calls : call'[x] = "new" => call[x] = "new",
             \A x \in Calls : holder'[x] # holder[x] => x = inbox[conn[s]][1]
      PROVE  Placement'
  <2> DEFINE c == conn[s]
             J(k, i) == IF k = c THEN i + 1 ELSE i
  <2>1. \A k \in Conns : \A i \in 1 .. Len(inbox'[k]) :
          J(k, i) \in 1 .. Len(inbox[k]) /\ inbox'[k][i] = inbox[k][J(k, i)]
    BY <1>r, <1>p
  <2>2. \A k \in Conns : \A i, j \in Nat : J(k, i) = J(k, j) => i = j
    OBVIOUS
  <2>3. \A k \in Conns : \A i \in 1 .. Len(inbox'[k]) : k = c => J(k, i) # 1
    OBVIOUS
  <2>4. c \in Conns /\ 1 \in 1 .. Len(inbox[c])
    <3>1. inbox[c] \in Seq(M)
      BY <1>r, <1>p, <1>t
    <3> QED
      BY <3>1, <1>r, <1>p
  <2>5. \A k \in Conns : \A i \in 1 .. Len(inbox'[k]) : i \in Nat
    OBVIOUS
  <2> HIDE DEF J, c
  <2>6. \A k \in Conns : \A i \in 1 .. Len(inbox'[k]) :
          inbox'[k][i] \in Calls => inbox'[k][i] # inbox[c][1]
    BY <2>1, <2>3, <2>4 DEF Placement
  <2>7. \A k \in Conns : \A i \in 1 .. Len(inbox'[k]) :
          inbox'[k][i] \in Calls =>
            call'[inbox'[k][i]] # "new" /\ holder'[inbox'[k][i]] = None
    BY <2>1, <2>6, <1>r, SMTT(20) DEF Placement, c
  <2>8. \A k, l \in Conns : \A i \in 1 .. Len(inbox'[k]), j \in 1 .. Len(inbox'[l]) :
          inbox'[k][i] = inbox'[l][j] /\ inbox'[k][i] \in Calls => k = l /\ i = j
    <3>1. ASSUME NEW k \in Conns, NEW l \in Conns,
                 NEW i \in 1 .. Len(inbox'[k]), NEW j \in 1 .. Len(inbox'[l]),
                 inbox'[k][i] = inbox'[l][j], inbox'[k][i] \in Calls
          PROVE  k = l /\ i = j
      <4>1. k = l /\ J(k, i) = J(l, j)
        <5>1. /\ J(k, i) \in 1 .. Len(inbox[k]) /\ inbox'[k][i] = inbox[k][J(k, i)]
              /\ J(l, j) \in 1 .. Len(inbox[l]) /\ inbox'[l][j] = inbox[l][J(l, j)]
          BY <2>1, <3>1
        <5> DEFINE a == J(k, i)
                   b == J(l, j)
        <5>2. /\ a \in 1 .. Len(inbox[k]) /\ b \in 1 .. Len(inbox[l])
              /\ inbox[k][a] = inbox[l][b] /\ inbox[k][a] \in Calls
          BY <5>1, <3>1
        <5> HIDE DEF a, b
        <5>3. k = l /\ a = b
          BY <5>2, <3>1 DEF Placement
        <5> QED
          BY <5>3 DEF a, b
      <4> QED
        BY <4>1, <2>2, <2>5
    <3> QED
      BY <3>1
  <2>9. \A x \in Calls : holder'[x] # None => call'[x] # "new"
    BY <2>4, <1>r DEF Placement, c
  <2> QED
    BY <2>7, <2>8, <2>9 DEF Placement
<1>1. CASE \E s \in Services : DispatchDisconnected(s) \/ DispatchAnswer(s)
  <2>1. PICK s \in Services : DispatchDisconnected(s) \/ DispatchAnswer(s)
    BY <1>1
  <2>2. /\ Dispatching(s) /\ UNCHANGED holder
        /\ \A x \in Calls : call'[x] = "new" => call[x] = "new"
    BY <2>1, <1>t DEF DispatchDisconnected, DispatchAnswer, SendReply, callVars
  <2> QED
    BY <2>2, <1>r
<1>2. CASE \E s \in Services : DispatchKeep(s)
  <2>1. PICK s \in Services : DispatchKeep(s)
    BY <1>2
  <2> DEFINE x == inbox[conn[s]][1]
  <2>2. /\ Dispatching(s) /\ UNCHANGED call /\ x \in Calls
        /\ holder' = [holder EXCEPT ![x] = conn[s]]
    BY <2>1, <1>p, <1>t DEF DispatchKeep
  <2>3. \A y \in Calls : holder'[y] # holder[y] => y = x
    BY <2>2, <1>t
  <2> QED
    BY <2>2, <2>3, <1>r
<1>4. CASE \E k \in Conns : Notice(k)
  <2>1. PICK n \in Conns : Notice(n)
    BY <1>4
  <2>2. UNCHANGED <<call, holder>> /\ inbox' = [inbox EXCEPT ![n] = Append(@, Disconnected)]
    BY <2>1 DEF Notice, callVars
  <2>3. \A k \in Conns : \A i \in 1 .. Len(inbox'[k]) :
          inbox'[k][i] \in Calls => i \in 1 .. Len(inbox[k]) /\ inbox'[k][i] = inbox[k][i]
    BY <2>2, <1>t, <1>n
  <2> QED
    BY <2>2, <2>3, <1>t, SMTT(20) DEF Placement
<1>5. CASE \E x \in Calls, s \in Services : SendCall(x, s)
  <2>1. PICK x \in Calls, s \in Services : SendCall(x, s)
    BY <1>5
  <2> DEFINE n == owner[s]
  <2>2. /\ n \in Conns /\ UNCHANGED holder /\ call[x] = "new"
        /\ call' = [call EXCEPT ![x] = "sent"]
        /\ inbox' = [inbox EXCEPT ![n] = Append(@, x)]
    BY <2>1 DEF SendCall
  <2>3. \A k \in Conns : \A i \in 1 .. Len(inbox'[k]) :
          \/ i \in 1 .. Len(inbox[k]) /\ inbox'[k][i] = inbox[k][i]
          \/ k = n /\ i = Len(inbox[k]) + 1 /\ inbox'[k][i] = x
    BY <2>2, <1>t
  <2>4. \A k \in Conns : \A i \in 1 .. Len(inbox[k]) : inbox[k][i] # x
    BY <2>2, <1>t DEF Placement
  <2>5. holder[x] = None
    BY <2>2 DEF Placement
  <2> QED
    BY <2>2, <2>3, <2>4, <2>5, <1>t DEF Placement
<1>6. CASE \E x \in Calls : Reply(x)
  <2>1. PICK x \in Calls : Reply(x)
    BY <1>6
  <2>2. /\ UNCHANGED inbox /\ holder' = [holder EXCEPT ![x] = None]
        /\ \A y \in Calls : call'[y] = "new" => call[y] = "new"
    BY <2>1, <1>t DEF Reply, SendReply
  <2> QED
    BY <2>2, <1>t DEF Placement
<1>7. CASE \/ BindFail \/ ListenersFree
           \/ \E s \in Services : ReconnectService(s) \/ RemoveService(s)
  <2>1. UNCHANGED holder /\ \E K : Close(K)
    BY <1>7 DEF BindFail, ListenersFree, ReconnectService, RemoveService, Disconnect
  <2> QED
    BY <2>1, <1>d, <1>q
<1>8. CASE BusDown
  BY <1>8, <1>q, <1>t DEF BusDown
<1>9. CASE \/ ConnectFail \/ BindOk \/ LoopReturn \/ MainIterate \/ SelectReturns
           \/ ReconnectIfNeeded \/ BusUp \/ UNCHANGED vars
           \/ \E k \in Conns : ConnectOpen(k)
           \/ \E t \in Timeouts : SetReconnectTimeout(t)
           \/ \E s \in Services :
                \/ ReconnectSkip(s) \/ DispatchDone(s) \/ AddService(s)
                \/ ForeignAcquire(s) \/ ForeignRelease(s)
  <2>1. UNCHANGED <<inbox, call, holder>>
    BY <1>9 DEF ConnectFail, BindOk, LoopReturn, MainIterate, SelectReturns, ReconnectIfNeeded,
       BusUp, ConnectOpen, SetReconnectTimeout, ReconnectSkip, DispatchDone,
       AddService, ForeignAcquire, ForeignRelease, vars, connVars, callVars
  <2> QED
    BY <2>1, <1>q
<1> QED
  BY <1>1, <1>2, <1>4, <1>5, <1>6, <1>7, <1>8, <1>9
     DEF Next, Loop, Program, Environment

\* A call is worked on once: it is queued at one place, or kept by one handler.
THEOREM PlacementInvariant == Spec => []Placement
<1>1. Shape /\ Placement /\ [Next]_vars => Placement'
  BY PlacementStep
<1> QED
  BY <1>1, PlacementInit, ShapeInvariant, PTL DEF Spec

(***************************************************************************)
(* Layer 3.                                                                *)
(***************************************************************************)
LEMMA KeptCount ==
  ASSUME Typed, NEW k \in Conns
  PROVE  IsFiniteSet(KeptFrom(k)) /\ Cardinality(KeptFrom(k)) \in Nat
<1>1. IsFiniteSet(KeptFrom(k))
  BY ConstantsAssumption, FS_Subset DEF KeptFrom
<1> QED
  BY <1>1, FS_CardinalityType

LEMMA RefsInit == Init => RefsExact
<1> SUFFICES ASSUME Init PROVE RefsExact
  OBVIOUS
<1>1. ServiceConns = {} /\ \A k \in Conns : KeptFrom(k) = {}
  BY ConstantsAssumption DEF Init, ServiceConns, KeptFrom
<1>2. \A k \in Conns : Cardinality(KeptFrom(k)) = 0
  BY <1>1, FS_EmptySet
<1> QED
  BY <1>1, <1>2, ConstantsAssumption DEF Init, RefsExact, Indicator

\* Closing the connection of a service takes it, and nothing else, out of
\* those the services use.
LEMMA ServiceConnsWithout ==
  ASSUME Typed, RefsExact, NEW s \in services,
         \/ services' = services /\ conn' = [conn EXCEPT ![s] = None]
         \/ services' = services \ {s} /\ conn' = [conn EXCEPT ![s] = None]
  PROVE  /\ ServiceConns' = ServiceConns \ ({conn[s]} \ {None})
         /\ \A t, u \in services' : conn'[t] = conn'[u] /\ conn'[t] # None => t = u
<1>1. /\ services \subseteq Services /\ conn \in [Services -> ConnOrNone]
      /\ \A t, u \in services : conn[t] = conn[u] /\ conn[t] # None => t = u
  BY DEF Typed, RefsExact
<1>2. /\ conn'[s] = None /\ services' \subseteq services
      /\ \A t \in services : t # s => conn'[t] = conn[t] /\ t \in services'
  BY <1>1
<1>3. \A t, u \in services' : conn'[t] = conn'[u] /\ conn'[t] # None => t = u
  BY <1>1, <1>2
<1>4. \A k : k \in ServiceConns' <=> k \in ServiceConns /\ k # conn[s]
  <2>1. ServiceConns' = {conn'[t] : t \in services'} \ {None}
    BY DEF ServiceConns
  <2> QED
    BY <1>1, <1>2, <2>1 DEF ServiceConns
<1> QED
  BY <1>3, <1>4 DEF ServiceConns

LEMMA RefsStep == Shape /\ Placement /\ RefsExact /\ [Next]_vars => RefsExact'
<1> SUFFICES ASSUME Shape, Placement, RefsExact, [Next]_vars PROVE RefsExact'
  OBVIOUS
<1>t. /\ refs \in [Conns -> Int] /\ holder \in [Calls -> ConnOrNone]
      /\ conn \in [Services -> ConnOrNone] /\ fresh \in ConnOrNone
      /\ services \subseteq Services /\ inbox \in [Conns -> Seq(Calls \cup {Disconnected})]
      /\ None \notin Conns /\ ServiceConns \subseteq Conns
  BY ConstantsAssumption DEF Shape, Typed, ServiceConns, ConnOrNone
<1>c. \A k \in Conns : Cardinality(KeptFrom(k)) \in Nat
  BY KeptCount DEF Shape
\* The services, service_connect and the counts change, the kept calls do not.
<1>u. UNCHANGED holder => \A k \in Conns : KeptFrom(k)' = KeptFrom(k)
  BY DEF KeptFrom
\* One handler takes or drops one message.
<1>s. ASSUME NEW c \in Conns, NEW d \in {-1, 1},
             UNCHANGED <<conn, services, fresh>>, ServiceConns' = ServiceConns,
             \A k \in Conns : refs'[k] = IF k = c THEN refs[k] + d ELSE refs[k],
             Cardinality(KeptFrom(c)') = Cardinality(KeptFrom(c)) + d,
             \A k \in Conns : k # c => KeptFrom(k)' = KeptFrom(k)
      PROVE  RefsExact'
  <2>1. ASSUME NEW k \in Conns
        PROVE  refs'[k] = Indicator(k \in ServiceConns') + Indicator(k = fresh')
                          + Cardinality(KeptFrom(k)')
    <3>1. refs[k] = Indicator(k \in ServiceConns) + Indicator(k = fresh)
                    + Cardinality(KeptFrom(k))
      BY DEF RefsExact
    <3>2. /\ Indicator(k \in ServiceConns) \in Int /\ Indicator(k = fresh) \in Int
          /\ Cardinality(KeptFrom(k)) \in Int
      BY <1>c DEF Indicator
    <3>3. CASE k = c
      BY <3>1, <3>2, <3>3, <1>s
    <3>4. CASE k # c
      BY <3>1, <3>4, <1>s
    <3> QED
      BY <3>3, <3>4
  <2> QED
    BY <2>1, <1>s DEF RefsExact
<1>1. CASE \E k \in Conns : ConnectOpen(k)
  <2>1. PICK k \in Conns : ConnectOpen(k)
    BY <1>1
  <2>2. /\ pc = "connect" /\ refs[k] = 0 /\ refs' = [refs EXCEPT ![k] = 1] /\ fresh' = k
        /\ UNCHANGED <<holder, conn, services>>
    BY <2>1 DEF ConnectOpen, ctxVars, callVars
  <2>3. fresh = None /\ ServiceConns' = ServiceConns
    BY <2>2 DEF Shape, Control, ServiceConns
  <2>4. k \notin ServiceConns /\ Cardinality(KeptFrom(k)) = 0
    BY <2>2, <1>c DEF RefsExact, Indicator
  <2>5. \A l \in Conns : Cardinality(KeptFrom(l)') = Cardinality(KeptFrom(l))
    BY <2>2, <1>u
  <2>6. \A l \in Conns : refs'[l] = IF l = k THEN 1 ELSE refs[l]
    BY <2>2, <1>t
  <2>7. \A l \in Conns :
          refs'[l] = Indicator(l \in ServiceConns') + Indicator(l = fresh')
                     + Cardinality(KeptFrom(l)')
    <3> SUFFICES ASSUME NEW l \in Conns
                 PROVE  refs'[l] = Indicator(l \in ServiceConns') + Indicator(l = fresh')
                                   + Cardinality(KeptFrom(l)')
      OBVIOUS
    <3>1. CASE l = k
      BY <3>1, <2>2, <2>3, <2>4, <2>5, <2>6 DEF Indicator
    <3>2. CASE l # k
      <4>1. l # fresh /\ l # fresh'
        BY <3>2, <2>2, <2>3, <1>t
      <4>2. refs[l] = Indicator(l \in ServiceConns) + Indicator(l = fresh)
                      + Cardinality(KeptFrom(l))
        BY DEF RefsExact
      <4> QED
        BY <3>2, <4>1, <4>2, <2>3, <2>5, <2>6 DEF Indicator
    <3> QED
      BY <3>1, <3>2
  <2> QED
    BY <2>2, <2>3, <2>4, <2>7 DEF RefsExact
<1>2. CASE BindOk
  <2>1. /\ pc = "bind" /\ fresh' = None /\ services' = services \cup {target}
        /\ conn' = [conn EXCEPT ![target] = fresh] /\ UNCHANGED <<refs, holder>>
    BY <1>2 DEF BindOk, ConnectReturn, callVars
  <2>2. fresh \in Conns /\ target \in Services /\ conn[target] = None
    BY <2>1, <1>t DEF Shape, Control, Typed, ConnOrNone
  <2>3. ServiceConns' = ServiceConns \cup {fresh}
    BY <2>1, <2>2, <1>t DEF ServiceConns
  <2>4. \A s, t \in services' : conn'[s] = conn'[t] /\ conn'[s] # None => s = t
    BY <2>1, <2>2, <1>t DEF RefsExact, ServiceConns
  <2> QED
    BY <2>1, <2>2, <2>3, <2>4, <1>t, <1>c, <1>u DEF RefsExact, Indicator
<1>3. CASE BindFail
  <2>1. /\ pc = "bind" /\ fresh' = None /\ UNCHANGED <<holder, conn, services>>
        /\ refs' = [k \in Conns |-> IF k \in {fresh} THEN refs[k] - 1 ELSE refs[k]]
    BY <1>3 DEF BindFail, ConnectReturn, Disconnect, Unref, Dropped, ctxVars
  <2>2. fresh \in Conns /\ ServiceConns' = ServiceConns
    BY <2>1, <1>t DEF Shape, Control, ConnOrNone, ServiceConns
  <2> QED
    BY <2>1, <2>2, <1>t, <1>c, <1>u DEF RefsExact, Indicator
<1>4. CASE \E s \in Services : ReconnectService(s) \/ RemoveService(s)
  <2>1. PICK s \in Services : ReconnectService(s) \/ RemoveService(s)
    BY <1>4
  <2>2. s \in services
    BY <2>1 DEF ReconnectService, RemoveService, Shape, Control
  <2>3. /\ \/ services' = services /\ conn' = [conn EXCEPT ![s] = None]
           \/ services' = services \ {s} /\ conn' = [conn EXCEPT ![s] = None]
        /\ UNCHANGED <<holder, fresh>>
        /\ refs' = [k \in Conns |-> IF k \in {conn[s]} \ {None} THEN refs[k] - 1 ELSE refs[k]]
    BY <2>1 DEF ReconnectService, RemoveService, StartConnect, Disconnect, Unref,
                Dropped, pcVars
  <2>4. /\ ServiceConns' = ServiceConns \ ({conn[s]} \ {None})
        /\ \A t, u \in services' : conn'[t] = conn'[u] /\ conn'[t] # None => t = u
    BY <2>2, <2>3, ServiceConnsWithout DEF Shape
  <2>5. conn[s] # None => conn[s] \in ServiceConns
    BY <2>2 DEF ServiceConns
  <2> QED
    BY <2>3, <2>4, <2>5, <1>t, <1>c, <1>u DEF RefsExact, Indicator
<1>5. CASE ListenersFree
  <2>1. /\ UNCHANGED <<holder, fresh>> /\ services' = {}
        /\ refs' = [k \in Conns |-> IF k \in ServiceConns THEN refs[k] - 1 ELSE refs[k]]
    BY <1>5 DEF ListenersFree, Disconnect, Unref, Dropped, pcVars
  <2>2. ServiceConns' = {}
    BY <2>1 DEF ServiceConns
  <2> QED
    BY <2>1, <2>2, <1>t, <1>c, <1>u DEF RefsExact, Indicator
<1>6. CASE \E s \in Services : DispatchKeep(s)
  <2>1. PICK s \in Services : DispatchKeep(s)
    BY <1>6
  <2>a. conn[s] \in Conns
    BY <2>1, <1>t DEF DispatchKeep, Dispatching, ConnOrNone
  <2>b. PICK c \in Conns, x \in Calls : c = conn[s] /\ x = Head(inbox[c])
    BY <2>1, <2>a DEF DispatchKeep
  <2>2. /\ c \in Conns /\ inbox[c] # <<>> /\ x \in Calls
        /\ holder' = [holder EXCEPT ![x] = c] /\ refs' = [refs EXCEPT ![c] = @ + 1]
        /\ UNCHANGED <<conn, services, fresh>>
    BY <2>1, <2>b DEF DispatchKeep, Dispatching, ctxVars, pcVars
  <2>3. holder[x] = None
    <3>1. 1 \in 1 .. Len(inbox[c]) /\ inbox[c][1] = x
      <4>1. inbox[c] \in Seq(Calls \cup {Disconnected}) /\ inbox[c] # <<>>
        BY <2>2, <1>t
      <4> QED
        BY <4>1, <2>b
    <3> QED
      BY <3>1, <2>2 DEF Placement
  <2>4. /\ KeptFrom(c)' = KeptFrom(c) \cup {x} /\ x \notin KeptFrom(c)
        /\ \A k \in Conns : k # c => KeptFrom(k)' = KeptFrom(k)
    BY <2>2, <2>3, <1>t DEF KeptFrom
  <2>5. Cardinality(KeptFrom(c)') = Cardinality(KeptFrom(c)) + 1
    BY <2>2, <2>4, KeptCount, FS_AddElement DEF Shape
  <2>6. ServiceConns' = ServiceConns
    BY <2>2 DEF ServiceConns
  <2>7. \A k \in Conns : refs'[k] = IF k = c THEN refs[k] + 1 ELSE refs[k]
    BY <2>2, <1>t
  <2> QED
    BY <2>2, <2>4, <2>5, <2>6, <2>7, <1>s
<1>7. CASE \E x \in Calls : Reply(x)
  <2>1. PICK x \in Calls : Reply(x)
    BY <1>7
  <2>a. PICK c \in Conns : c = holder[x]
    BY <2>1, <1>t DEF Reply, ConnOrNone
  <2>2. /\ c \in Conns /\ holder' = [holder EXCEPT ![x] = None]
        /\ refs' = [refs EXCEPT ![c] = @ - 1] /\ UNCHANGED <<conn, services, fresh>>
    BY <2>1, <2>a DEF Reply, ctxVars, pcVars
  <2>4. /\ KeptFrom(c)' = KeptFrom(c) \ {x} /\ x \in KeptFrom(c)
        /\ \A k \in Conns : k # c => KeptFrom(k)' = KeptFrom(k)
    BY <2>2, <2>a, <1>t DEF KeptFrom
  <2>5. Cardinality(KeptFrom(c)') = Cardinality(KeptFrom(c)) - 1
    BY <2>2, <2>4, KeptCount, FS_RemoveElement DEF Shape
  <2>6. ServiceConns' = ServiceConns
    BY <2>2 DEF ServiceConns
  <2>7. \A k \in Conns : refs'[k] = IF k = c THEN refs[k] - 1 ELSE refs[k]
    BY <2>2, <1>t
  <2> QED
    BY <2>2, <2>4, <2>5, <2>6, <2>7, <1>s
<1>8. CASE \/ ConnectFail \/ LoopReturn \/ MainIterate \/ SelectReturns \/ ReconnectIfNeeded
           \/ BusDown \/ BusUp \/ UNCHANGED vars
           \/ \E k \in Conns : Notice(k)
           \/ \E t \in Timeouts : SetReconnectTimeout(t)
           \/ \E s \in Services :
                \/ ReconnectSkip(s) \/ DispatchDone(s) \/ AddService(s)
                \/ DispatchDisconnected(s) \/ DispatchAnswer(s)
                \/ ForeignAcquire(s) \/ ForeignRelease(s)
           \/ \E x \in Calls, s \in Services : SendCall(x, s)
  <2>1. UNCHANGED <<refs, holder, conn, services, fresh>>
    BY <1>8 DEF ConnectFail, LoopReturn, MainIterate, SelectReturns, ReconnectIfNeeded, BusDown,
       BusUp, Notice, SetReconnectTimeout, ReconnectSkip, DispatchDone,
       AddService, StartConnect, DispatchDisconnected, DispatchAnswer,
       Dispatching, ForeignAcquire, ForeignRelease, SendCall, vars, ctxVars,
       pcVars, connVars, callVars
  <2>2. ServiceConns' = ServiceConns /\ \A k \in Conns : KeptFrom(k)' = KeptFrom(k)
    BY <2>1, <1>u DEF ServiceConns
  <2> QED
    BY <2>1, <2>2 DEF RefsExact
<1> QED
  BY <1>1, <1>2, <1>3, <1>4, <1>5, <1>6, <1>7, <1>8
     DEF Next, Loop, Program, Environment

\* Every reference libdbus counts has exactly one holder that will drop it.
THEOREM RefsExactInvariant == Spec => []RefsExact
<1>1. Shape /\ Placement /\ RefsExact /\ [Next]_vars => RefsExact'
  BY RefsStep
<1> QED
  BY <1>1, RefsInit, ShapeInvariant, PlacementInvariant, PTL DEF Spec

\* The program's values are of their types; in particular no reference is
\* dropped that was not taken.
THEOREM TypeInvariant == Spec => []TypeOK
<1>1. Shape /\ RefsExact => TypeOK
  <2> SUFFICES ASSUME Shape, RefsExact PROVE TypeOK
    OBVIOUS
  <2>1. ASSUME NEW k \in Conns PROVE refs[k] \in Nat
    <3>1. Cardinality(KeptFrom(k)) \in Nat
      BY KeptCount DEF Shape
    <3> QED
      BY <3>1 DEF RefsExact, Indicator
  <2> QED
    BY <2>1 DEF Shape, Typed, TypeOK
<1> QED
  BY <1>1, ShapeInvariant, RefsExactInvariant, PTL

(***************************************************************************)
(* Layer 4.                                                                *)
(***************************************************************************)
\* Only the connections in use are alive.
WiresUsed == \A k \in Conns : wire[k] => k = fresh \/ k \in ServiceConns

Routing == NameRouted /\ AttachedExact /\ ExitPolicyUniform /\ WiresUsed

LEMMA RoutingInit == Init => Routing
BY ConstantsAssumption
   DEF Init, Routing, NameRouted, AttachedExact, ExitPolicyUniform, WiresUsed,
       ServiceConns

LEMMA RoutingStep == Shape /\ RefsExact /\ Routing /\ [Next]_vars => Routing'
<1> SUFFICES ASSUME Shape, RefsExact, Routing, [Next]_vars PROVE Routing'
  OBVIOUS
<1>t. /\ refs \in [Conns -> Int] /\ timeout \in Int
      /\ wire \in [Conns -> BOOLEAN] /\ attached \in [Conns -> BOOLEAN]
      /\ exitOn \in [Conns -> BOOLEAN]
      /\ conn \in [Services -> ConnOrNone] /\ fresh \in ConnOrNone
      /\ owner \in [Services -> Conns \cup {None, Foreign}]
      /\ services \subseteq Services /\ ServiceConns \subseteq Conns
      /\ None \notin Conns /\ Foreign \notin Conns /\ None # Foreign
  BY ConstantsAssumption DEF Shape, Typed, ServiceConns, ConnOrNone
<1>v. \A s \in Services : conn[s] # None => s \in services /\ conn[s] \in ServiceConns
  BY <1>t DEF Shape, Control, ServiceConns
<1> USE DEF Routing, NameRouted, AttachedExact, ExitPolicyUniform, WiresUsed
<1>1. CASE \E k \in Conns : ConnectOpen(k)
  <2>1. PICK k \in Conns : ConnectOpen(k)
    BY <1>1
  <2>2. /\ pc = "connect" /\ refs[k] = 0 /\ fresh' = k
        /\ wire' = [wire EXCEPT ![k] = TRUE]
        /\ exitOn' = [exitOn EXCEPT ![k] = (timeout <= 0)]
        /\ UNCHANGED <<conn, services, timeout, owner, attached>>
    BY <2>1 DEF ConnectOpen, ExitPolicy, ctxVars, busVars
  <2>3. fresh = None /\ ServiceConns' = ServiceConns
    BY <2>2 DEF Shape, Control, ServiceConns
  <2>4. k \notin ServiceConns
    BY <2>2, KeptCount DEF RefsExact, Indicator, Shape
  <2>5. NameRouted' /\ AttachedExact' /\ WiresUsed'
    BY <2>2, <2>3, <2>4, <1>t, <1>v
  <2>6. ExitPolicyUniform'
    <3>1. SUFFICES ASSUME NEW j \in Conns, j = fresh' \/ j \in ServiceConns'
                   PROVE  exitOn'[j] <=> timeout' <= 0
      BY Zenon
    <3>2. DOMAIN exitOn = Conns /\ timeout' = timeout
      BY <2>2, <1>t
    <3>3. CASE j = k
      BY <2>2, <3>2, <3>3, Zenon
    <3>4. CASE j # k
      <4>1. j \in ServiceConns /\ exitOn'[j] = exitOn[j]
        BY <2>2, <2>3, <3>1, <3>2, <3>4, Zenon
      <4> QED
        BY <3>2, <4>1, Zenon
    <3> QED
      BY <3>3, <3>4
  <2> QED
    BY <2>5, <2>6
<1>2. CASE BindOk
  <2>1. /\ pc = "bind" /\ fresh' = None /\ services' = services \cup {target}
        /\ conn' = [conn EXCEPT ![target] = fresh] /\ wire[fresh]
        /\ owner' = [owner EXCEPT ![target] = fresh]
        /\ attached' = [attached EXCEPT ![fresh] = TRUE]
        /\ UNCHANGED <<timeout, wire, exitOn>>
    BY <1>2 DEF BindOk, ConnectReturn
  <2>2. fresh \in Conns /\ target \in Services /\ conn[target] = None
    BY <2>1, <1>t DEF Shape, Control, Typed, ConnOrNone
  <2>3. ServiceConns' = ServiceConns \cup {fresh}
    BY <2>1, <2>2, <1>t DEF ServiceConns
  <2> QED
    BY <2>1, <2>2, <2>3, <1>t, <1>v
<1>3. CASE BindFail
  <2>1. /\ pc = "bind" /\ fresh' = None /\ UNCHANGED <<conn, services, timeout, exitOn>>
        /\ Unwatch({fresh}) /\ Close({fresh})
    BY <1>3 DEF BindFail, ConnectReturn, Disconnect, ctxVars
  <2>2. fresh \in Conns /\ fresh \notin ServiceConns /\ ServiceConns' = ServiceConns
    BY <2>1, <1>t DEF Shape, Control, ConnOrNone, ServiceConns, RefsExact
  <2> QED
    BY <2>1, <2>2, <1>t, <1>v DEF Unwatch, Close
<1>4. CASE \E s \in Services : ReconnectService(s) \/ RemoveService(s)
  <2>1. PICK s \in Services : ReconnectService(s) \/ RemoveService(s)
    BY <1>4
  <2>2. s \in services
    BY <2>1 DEF ReconnectService, RemoveService, Shape, Control
  <2>3. /\ \/ services' = services /\ conn' = [conn EXCEPT ![s] = None]
           \/ services' = services \ {s} /\ conn' = [conn EXCEPT ![s] = None]
        /\ UNCHANGED <<fresh, timeout, exitOn>>
        /\ Unwatch({conn[s]} \ {None}) /\ Close({conn[s]} \ {None})
    BY <2>1 DEF ReconnectService, RemoveService, StartConnect, Disconnect, pcVars
  <2>4. ServiceConns' = ServiceConns \ ({conn[s]} \ {None})
    BY <2>2, <2>3, ServiceConnsWithout DEF Shape
  <2>5. \A t \in Services : t # s /\ conn[t] # None => conn[t] # conn[s]
    BY <2>2, <1>v DEF RefsExact
  <2>6. NameRouted'
    <3> SUFFICES ASSUME NEW t \in Services
                 PROVE  /\ conn'[t] # None /\ wire'[conn'[t]] => owner'[t] = conn'[t]
                        /\ owner'[t] \in Conns =>
                             conn'[t] = owner'[t] /\ wire'[owner'[t]]
      OBVIOUS
    <3>1. /\ owner'[t] = IF owner[t] \in {conn[s]} \ {None} THEN None ELSE owner[t]
          /\ \A k \in Conns : wire'[k] <=> wire[k] /\ k \notin {conn[s]} \ {None}
      BY <2>3 DEF Close
    <3>2. CASE t = s
      BY <3>1, <3>2, <2>2, <2>3, <1>t
    <3>3. CASE t # s
      <4>1. conn'[t] = conn[t] /\ (conn[t] # None => conn[t] # conn[s])
        BY <3>3, <2>2, <2>3, <2>5, <1>t
      <4> QED
        BY <4>1, <3>1, <1>t, <1>v
    <3> QED
      BY <3>2, <3>3
  <2>7. WiresUsed'
    BY <2>3, <2>4, <1>t DEF Close
  <2>8. AttachedExact'
    <3>1. \A k \in Conns : attached'[k] <=> attached[k] /\ k \notin {conn[s]} \ {None}
      BY <2>3 DEF Unwatch
    <3> QED
      BY <3>1, <2>4
  <2>9. ExitPolicyUniform'
    BY <2>3, <2>4, Zenon
  <2> QED
    BY <2>6, <2>7, <2>8, <2>9
<1>5. CASE ListenersFree
  <2>1. /\ services' = {} /\ conn' = [s \in Services |-> None]
        /\ UNCHANGED <<fresh, timeout, exitOn>>
        /\ Unwatch(ServiceConns) /\ Close(ServiceConns)
    BY <1>5 DEF ListenersFree, Disconnect, pcVars
  <2>2. ServiceConns' = {}
    BY <2>1 DEF ServiceConns
  <2>3. NameRouted' /\ AttachedExact' /\ WiresUsed'
    BY <2>1, <2>2, <1>t, <1>v DEF Unwatch, Close
  <2>4. ExitPolicyUniform'
    BY <2>1, <2>2, Zenon
  <2> QED
    BY <2>3, <2>4
<1>6. CASE \E t \in Timeouts : SetReconnectTimeout(t)
  <2>1. PICK t \in Timeouts : SetReconnectTimeout(t)
    BY <1>6
  <2>2. /\ timeout' = t /\ pc = "idle" /\ UNCHANGED <<services, conn, fresh, wire, owner, attached>>
        /\ exitOn' = [k \in Conns |-> IF k \in ServiceConns THEN t <= 0 ELSE exitOn[k]]
    BY <2>1 DEF SetReconnectTimeout, Idle, pcVars, busVars
  <2>3. fresh = None /\ ServiceConns' = ServiceConns
    BY <2>2 DEF Shape, Control, ServiceConns
  <2>4. NameRouted' /\ AttachedExact' /\ WiresUsed'
    BY <2>2, <2>3
  <2>5. ExitPolicyUniform'
    BY <2>2, <2>3, <1>t, Zenon
  <2> QED
    BY <2>4, <2>5
<1>7. CASE BusDown
  <2>1. /\ UNCHANGED <<services, conn, fresh, timeout, exitOn, attached>>
        /\ wire' = [k \in Conns |-> FALSE] /\ owner' = [s \in Services |-> None]
    BY <1>7 DEF BusDown, ctxVars, pcVars
  <2>2. ServiceConns' = ServiceConns
    BY <2>1 DEF ServiceConns
  <2>3. NameRouted' /\ WiresUsed'
    <3>1. /\ \A k \in Conns : ~ wire'[k]
          /\ \A s \in Services : owner'[s] = None /\ conn'[s] \in Conns \cup {None}
      BY <2>1, <1>t DEF ConnOrNone
    <3> QED
      BY <3>1, <1>t
  <2>4. AttachedExact' /\ ExitPolicyUniform'
    BY <2>1, <2>2, Zenon
  <2> QED
    BY <2>3, <2>4
<1>8. CASE \E s \in Services : ForeignAcquire(s) \/ ForeignRelease(s)
  <2>1. PICK s \in Services : ForeignAcquire(s) \/ ForeignRelease(s)
    BY <1>8
  <2>2. /\ owner[s] \notin Conns /\ owner' = [owner EXCEPT ![s] = owner'[s]]
        /\ owner'[s] \notin Conns
        /\ UNCHANGED <<services, conn, fresh, timeout, exitOn, attached, wire>>
    BY <2>1, <1>t DEF ForeignAcquire, ForeignRelease, ctxVars, pcVars, connVars
  <2>3. ServiceConns' = ServiceConns
    BY <2>2 DEF ServiceConns
  <2>4. NameRouted' /\ WiresUsed'
    <3>1. ~ (conn[s] # None /\ wire[conn[s]])
      BY <2>2, <1>t, <1>v
    <3>2. \A t \in Services : t # s => owner'[t] = owner[t]
      BY <2>2, <1>t
    <3> QED
      BY <3>1, <3>2, <2>2, <2>3, Zenon
  <2>5. AttachedExact' /\ ExitPolicyUniform'
    BY <2>2, <2>3, Zenon
  <2> QED
    BY <2>4, <2>5
<1>9. CASE \/ ConnectFail \/ LoopReturn \/ MainIterate \/ SelectReturns \/ ReconnectIfNeeded
           \/ BusUp \/ UNCHANGED vars
           \/ \E k \in Conns : Notice(k)
           \/ \E x \in Calls : Reply(x)
           \/ \E s \in Services :
                \/ ReconnectSkip(s) \/ DispatchDone(s) \/ AddService(s)
                \/ DispatchDisconnected(s) \/ DispatchAnswer(s) \/ DispatchKeep(s)
           \/ \E x \in Calls, s \in Services : SendCall(x, s)
  <2>1. UNCHANGED <<services, conn, fresh, timeout, exitOn, attached, wire, owner>>
    BY <1>9 DEF ConnectFail, LoopReturn, MainIterate, SelectReturns, ReconnectIfNeeded, BusUp,
       Notice, Reply, ReconnectSkip, DispatchDone, AddService, StartConnect,
       DispatchDisconnected, DispatchAnswer, DispatchKeep, SendCall, vars,
       ctxVars, pcVars, connVars, busVars
  <2>2. ServiceConns' = ServiceConns
    BY <2>1 DEF ServiceConns
  <2> QED
    BY <2>1, <2>2
<1> QED
  BY <1>1, <1>2, <1>3, <1>4, <1>5, <1>6, <1>7, <1>8, <1>9
     DEF Next, Loop, Program, Environment

LEMMA RoutingInvariant == Spec => []Routing
<1>1. Shape /\ RefsExact /\ Routing /\ [Next]_vars => Routing'
  BY RoutingStep
<1> QED
  BY <1>1, RoutingInit, ShapeInvariant, RefsExactInvariant, PTL DEF Spec

\* A living connection owns the name of its service, and no name of ours is
\* left on a connection that is not the present one.
THEOREM NameRoutedInvariant == Spec => []NameRouted
<1>1. Routing => NameRouted
  BY DEF Routing
<1> QED
  BY <1>1, RoutingInvariant, PTL

\* The main loop watches exactly the connections of the services.
THEOREM AttachedExactInvariant == Spec => []AttachedExact
<1>1. Routing => AttachedExact
  BY DEF Routing
<1> QED
  BY <1>1, RoutingInvariant, PTL

\* Every connection in use follows the present reconnect timeout.
THEOREM ExitPolicyInvariant == Spec => []ExitPolicyUniform
<1>1. Routing => ExitPolicyUniform
  BY DEF Routing
<1> QED
  BY <1>1, RoutingInvariant, PTL

\* With a positive timeout no Disconnected signal ends the process.
THEOREM SurvivalTheorem == Spec => SurvivesBusLoss
<1>1. Shape /\ Routing /\ [Next]_vars =>
        [status = "running" /\ timeout > 0 /\ pc # "idle" => status' # "exited"]_vars
  <2> SUFFICES ASSUME Shape, Routing, Next, status = "running", timeout > 0,
                      pc # "idle"
               PROVE  status' # "exited"
    OBVIOUS
  <2>1. CASE \E s \in Services : DispatchDisconnected(s)
    <3>1. PICK s \in Services : DispatchDisconnected(s)
      BY <2>1
    <3>2. conn[s] \in Conns /\ conn[s] \in ServiceConns
      <4>1. s \in services /\ conn[s] # None /\ conn[s] \in ConnOrNone
        BY <3>1 DEF DispatchDisconnected, Dispatching, Shape, Control, Typed
      <4> QED
        BY <4>1 DEF ServiceConns, ConnOrNone
    <3>3. ~ (timeout <= 0)
      BY ConstantsAssumption DEF Shape, Typed
    <3>4. ~ exitOn[conn[s]]
      BY <3>2, <3>3, Zenon DEF Routing, ExitPolicyUniform
    <3> QED
      BY <3>1, <3>4 DEF DispatchDisconnected
  <2>2. CASE \/ ConnectFail \/ BindOk \/ BindFail \/ LoopReturn \/ BusDown \/ BusUp
             \/ \E k \in Conns : ConnectOpen(k) \/ Notice(k)
             \/ \E s \in Services :
                  \/ ReconnectSkip(s) \/ ReconnectService(s) \/ DispatchAnswer(s)
                  \/ DispatchKeep(s) \/ ForeignAcquire(s) \/ ForeignRelease(s)
             \/ \E x \in Calls, s \in Services : SendCall(x, s)
    <3>1. UNCHANGED status
      BY <2>2 DEF ConnectFail, BindOk, BindFail, LoopReturn, BusDown, BusUp,
         ConnectOpen, Notice, ReconnectSkip, ReconnectService, DispatchAnswer,
         DispatchKeep, ForeignAcquire, ForeignRelease, SendCall, ctxVars
    <3> QED
      BY <3>1
  <2>3. CASE \E s \in Services : DispatchDone(s)
    BY <2>3 DEF DispatchDone, NullChecked
  <2>4. CASE Program
    BY <2>4 DEF Program, MainIterate, SelectReturns, ReconnectIfNeeded, ListenersFree, AddService,
       RemoveService, SetReconnectTimeout, Reply, Idle, ctxVars
  <2> QED
    BY <2>1, <2>2, <2>3, <2>4 DEF Next, Loop, Environment
<1> QED
  BY <1>1, ShapeInvariant, RoutingInvariant, PTL DEF Spec, SurvivesBusLoss

(***************************************************************************)
(* Layer 5.                                                                *)
(***************************************************************************)
LEMMA NoCallForgottenStep ==
  Shape /\ Placement /\ Routing /\ NoCallForgotten /\ [Next]_vars => NoCallForgotten'
<1> SUFFICES ASSUME Shape, Placement, Routing, NoCallForgotten, [Next]_vars
             PROVE  NoCallForgotten'
  OBVIOUS
<1>t. /\ inbox \in [Conns -> Seq(Calls \cup {Disconnected})]
      /\ call \in [Calls -> {"new", "sent", "answered", "lost"}]
      /\ holder \in [Calls -> ConnOrNone] /\ conn \in [Services -> ConnOrNone]
      /\ owner \in [Services -> Conns \cup {None, Foreign}]
      /\ wire \in [Conns -> BOOLEAN]
      /\ None \notin Conns /\ Disconnected \notin Calls
  BY ConstantsAssumption DEF Shape, Typed
\* Nothing is taken from where it was, and no wire is cut.
<1>q. ASSUME UNCHANGED holder,
             \A x \in Calls : call'[x] = "sent" => call[x] = "sent",
             \A k \in Conns : wire[k] => wire'[k],
             \A k \in Conns : \A i \in 1 .. Len(inbox[k]) :
               i \in 1 .. Len(inbox'[k]) /\ inbox'[k][i] = inbox[k][i]
      PROVE  NoCallForgotten'
  BY <1>q DEF NoCallForgotten, CameOn
\* The bus speaks for what a closed connection had.
<1>d. ASSUME NEW K, Close(K), UNCHANGED holder PROVE NoCallForgotten'
  <2> SUFFICES ASSUME NEW x \in Calls, call'[x] = "sent"
               PROVE  \E k \in Conns : wire'[k] /\ CameOn(x, k)'
    BY DEF NoCallForgotten
  <2>1. call[x] = "sent" /\ \A k \in K : ~ CameOn(x, k)
    BY <1>d, <1>t DEF Close, LoseCalls
  <2>2. PICK k \in Conns : wire[k] /\ CameOn(x, k)
    BY <2>1 DEF NoCallForgotten
  <2>3. k \notin K
    BY <2>1, <2>2
  <2>4. wire'[k] /\ inbox'[k] = inbox[k]
    BY <2>2, <2>3, <1>d DEF Close
  <2> QED
    BY <2>2, <2>4, <1>d DEF CameOn
\* A dispatch answers or keeps the call it takes.
<1>p. ASSUME NEW s \in Services, Dispatching(s), UNCHANGED wire,
             \A x \in Calls : call'[x] = "sent" => call[x] = "sent",
             \A x \in Calls : x # inbox[conn[s]][1] => holder'[x] = holder[x],
             \A x \in Calls : x = inbox[conn[s]][1] /\ wire[conn[s]] =>
               call'[x] # "sent" \/ holder'[x] = conn[s]
      PROVE  NoCallForgotten'
  <2>1. PICK c \in Conns : c = conn[s]
    BY <1>p, <1>t DEF Dispatching, ConnOrNone
  <2>2. inbox[c] \in Seq(Calls \cup {Disconnected}) /\ inbox[c] # <<>>
    BY <1>p, <1>t, <2>1 DEF Dispatching
  <2>3. inbox' = [inbox EXCEPT ![c] = Tail(inbox[c])]
    BY <1>p, <2>1 DEF Dispatching
  <2>4. /\ \A k \in Conns : k # c => inbox'[k] = inbox[k]
        /\ inbox'[c] = Tail(inbox[c])
    BY <2>3, <1>t
  <2>5. \A i \in 2 .. Len(inbox[c]) :
          i - 1 \in 1 .. Len(inbox'[c]) /\ inbox'[c][i - 1] = inbox[c][i]
    BY <2>2, <2>4
  <2>6. 1 \in 1 .. Len(inbox[c])
    BY <2>2
  <2> SUFFICES ASSUME NEW x \in Calls, call'[x] = "sent"
               PROVE  \E k \in Conns : wire'[k] /\ CameOn(x, k)'
    BY DEF NoCallForgotten
  <2>7. PICK k \in Conns : wire[k] /\ CameOn(x, k)
    BY <1>p DEF NoCallForgotten
  <2>8. CASE x = inbox[c][1]
    <3>1. k = c
      <4>1. holder[x] # k
        BY <2>6, <2>8, <1>t DEF Placement
      <4>2. PICK i \in 1 .. Len(inbox[k]) : inbox[k][i] = inbox[c][1]
        BY <4>1, <2>7, <2>8 DEF CameOn
      <4> QED
        BY <4>2, <2>6, <2>8 DEF Placement
    <3>2. holder'[x] = c
      BY <3>1, <2>1, <2>7, <2>8, <1>p
    <3> QED
      BY <3>1, <3>2, <2>7, <1>p DEF CameOn
  <2>9. CASE x # inbox[c][1]
    <3>1. holder'[x] = holder[x]
      BY <2>9, <2>1, <1>p
    <3>2. CASE holder[x] = k
      BY <3>1, <3>2, <2>7, <1>p DEF CameOn
    <3>3. ASSUME NEW i \in 1 .. Len(inbox[k]), inbox[k][i] = x
          PROVE  \E j \in 1 .. Len(inbox'[k]) : inbox'[k][j] = x
      <4>1. CASE k # c
        BY <4>1, <3>3, <2>4
      <4>2. CASE k = c
        <5>1. i \in 2 .. Len(inbox[c])
          BY <4>2, <3>3, <2>9, <2>2
        <5> QED
          BY <5>1, <4>2, <3>3, <2>5
      <4> QED
        BY <4>1, <4>2
    <3> QED
      BY <3>2, <3>3, <2>7, <1>p DEF CameOn
  <2> QED
    BY <2>8, <2>9
<1>h. ASSUME NEW s \in Services, Dispatching(s)
      PROVE  Head(inbox[conn[s]]) = inbox[conn[s]][1]
  BY <1>h, <1>t DEF Dispatching, ConnOrNone
<1>1. CASE \E s \in Services : DispatchDisconnected(s)
  <2>1. PICK s \in Services : DispatchDisconnected(s)
    BY <1>1
  <2>2. Dispatching(s) /\ UNCHANGED <<wire, call, holder>> /\ Head(inbox[conn[s]]) \notin Calls
    BY <2>1, <1>t DEF DispatchDisconnected, callVars
  <2> QED
    BY <2>2, <1>h, <1>p
<1>2. CASE \E s \in Services : DispatchAnswer(s)
  <2>1. PICK s \in Services : DispatchAnswer(s)
    BY <1>2
  <2>2. Dispatching(s) /\ UNCHANGED <<wire, holder>> /\ SendReply(inbox[conn[s]][1], conn[s])
    BY <2>1, <1>h DEF DispatchAnswer
  <2>3. \A x \in Calls :
          /\ call'[x] = "sent" => call[x] = "sent"
          /\ x = inbox[conn[s]][1] /\ wire[conn[s]] => call'[x] # "sent"
    BY <2>2, <1>t DEF SendReply
  <2> QED
    BY <2>2, <2>3, <1>p
<1>3. CASE \E s \in Services : DispatchKeep(s)
  <2>1. PICK s \in Services : DispatchKeep(s)
    BY <1>3
  <2>2. /\ Dispatching(s) /\ UNCHANGED <<wire, call>>
        /\ holder' = [holder EXCEPT ![inbox[conn[s]][1]] = conn[s]]
    BY <2>1, <1>h DEF DispatchKeep
  <2> QED
    BY <2>2, <1>t, <1>p
<1>4. CASE \E x \in Calls : Reply(x)
  <2>1. PICK x \in Calls : Reply(x)
    BY <1>4
  <2>2. /\ holder[x] # None /\ SendReply(x, holder[x])
        /\ holder' = [holder EXCEPT ![x] = None] /\ UNCHANGED <<wire, inbox>>
    BY <2>1 DEF Reply
  <2>3. call'[x] # "sent"
    <3>1. call[x] = "sent" => wire[holder[x]]
      BY <2>2 DEF NoCallForgotten, CameOn, Placement
    <3> QED
      BY <3>1, <2>2, <1>t DEF SendReply
  <2>4. \A y \in Calls : y # x => call'[y] = call[y] /\ holder'[y] = holder[y]
    BY <2>2, <1>t DEF SendReply
  <2> QED
    BY <2>2, <2>3, <2>4 DEF NoCallForgotten, CameOn
<1>5. CASE \E x \in Calls, s \in Services : SendCall(x, s)
  <2>1. PICK x \in Calls, s \in Services : SendCall(x, s)
    BY <1>5
  <2>2. PICK c \in Conns : c = owner[s]
    BY <2>1 DEF SendCall
  <2>3. /\ UNCHANGED <<holder, wire>> /\ call' = [call EXCEPT ![x] = "sent"]
        /\ inbox' = [inbox EXCEPT ![c] = Append(@, x)]
    BY <2>1, <2>2 DEF SendCall
  <2>4. wire[c]
    BY <2>2 DEF Routing, NameRouted
  <2>5. Len(inbox[c]) + 1 \in 1 .. Len(inbox'[c]) /\ inbox'[c][Len(inbox[c]) + 1] = x
    BY <2>3, <1>t
  <2>6. \A k \in Conns : \A i \in 1 .. Len(inbox[k]) :
          i \in 1 .. Len(inbox'[k]) /\ inbox'[k][i] = inbox[k][i]
    BY <2>3, <1>t
  <2>7. \A y \in Calls : y # x => call'[y] = call[y]
    BY <2>3, <1>t
  <2> QED
    BY <2>3, <2>4, <2>5, <2>6, <2>7 DEF NoCallForgotten, CameOn
<1>6. CASE \E k \in Conns : Notice(k)
  <2>1. PICK n \in Conns : Notice(n)
    BY <1>6
  <2>2. UNCHANGED <<holder, wire, call>> /\ inbox' = [inbox EXCEPT ![n] = Append(@, Disconnected)]
    BY <2>1 DEF Notice, callVars
  <2>3. \A k \in Conns : \A i \in 1 .. Len(inbox[k]) :
          i \in 1 .. Len(inbox'[k]) /\ inbox'[k][i] = inbox[k][i]
    BY <2>2, <1>t
  <2> QED
    BY <2>2, <2>3, <1>q
<1>7. CASE \/ BindFail \/ ListenersFree
           \/ \E s \in Services : ReconnectService(s) \/ RemoveService(s)
  <2>1. UNCHANGED holder /\ \E K : Close(K)
    BY <1>7 DEF BindFail, ListenersFree, ReconnectService, RemoveService, Disconnect
  <2> QED
    BY <2>1, <1>d
<1>8. CASE BusDown
  BY <1>8, <1>t DEF BusDown, NoCallForgotten
<1>9. CASE \/ ConnectFail \/ BindOk \/ LoopReturn \/ MainIterate \/ SelectReturns
           \/ ReconnectIfNeeded \/ BusUp \/ UNCHANGED vars
           \/ \E k \in Conns : ConnectOpen(k)
           \/ \E t \in Timeouts : SetReconnectTimeout(t)
           \/ \E s \in Services :
                \/ ReconnectSkip(s) \/ DispatchDone(s) \/ AddService(s)
                \/ ForeignAcquire(s) \/ ForeignRelease(s)
  <2>1. UNCHANGED <<inbox, call, holder>>
    BY <1>9 DEF ConnectFail, BindOk, LoopReturn, MainIterate, SelectReturns, ReconnectIfNeeded,
       BusUp, ConnectOpen, SetReconnectTimeout, ReconnectSkip, DispatchDone,
       AddService, ForeignAcquire, ForeignRelease, vars, connVars, callVars
  <2>2. UNCHANGED wire \/ \E k \in Conns : wire' = [wire EXCEPT ![k] = TRUE]
    BY <1>9 DEF ConnectFail, BindOk, LoopReturn, MainIterate, SelectReturns, ReconnectIfNeeded,
       BusUp, ConnectOpen, SetReconnectTimeout, ReconnectSkip, DispatchDone,
       AddService, ForeignAcquire, ForeignRelease, vars, connVars
  <2>3. \A k \in Conns : wire[k] => wire'[k]
    BY <2>2, <1>t
  <2> QED
    BY <2>1, <2>3, <1>q
<1> QED
  BY <1>1, <1>2, <1>3, <1>4, <1>5, <1>6, <1>7, <1>8, <1>9
     DEF Next, Loop, Program, Environment

\* A call the client waits for is where its answer can still come from.
THEOREM NoCallForgottenInvariant == Spec => []NoCallForgotten
<1>1. Init => NoCallForgotten
  BY DEF Init, NoCallForgotten
<1>2. Shape /\ Placement /\ Routing /\ NoCallForgotten /\ [Next]_vars => NoCallForgotten'
  BY NoCallForgottenStep
<1> QED
  BY <1>1, <1>2, ShapeInvariant, PlacementInvariant, RoutingInvariant, PTL DEF Spec

(***************************************************************************)
(* The pauses of service_connect.                                          *)
(***************************************************************************)
LEMMA FastThenFullStep == Shape /\ FastThenFull /\ [Next]_vars => FastThenFull'
<1> SUFFICES ASSUME Shape, FastThenFull, [Next]_vars PROVE FastThenFull'
  OBVIOUS
<1>t. attempt \in 0 .. FastAttempts + 1 /\ FastAttempts \in Nat
  BY ConstantsAssumption DEF Shape, Typed
<1>1. CASE ConnectFail
  BY <1>1, <1>t DEF ConnectFail, FastThenFull, FastPause, ctxVars
<1>2. CASE (\E s \in Services : AddService(s) \/ ReconnectService(s)) \/ BindOk \/ BindFail
  <2>1. attempt' = 0
    BY <1>2 DEF AddService, ReconnectService, StartConnect, BindOk, BindFail, ConnectReturn
  <2> QED
    BY <2>1 DEF FastThenFull
<1>3. CASE \/ \E k \in Conns : ConnectOpen(k)
           \/ \E s \in Services :
                \/ ReconnectSkip(s) \/ DispatchDone(s) \/ DispatchDisconnected(s)
                \/ DispatchAnswer(s) \/ DispatchKeep(s) \/ RemoveService(s)
           \/ \E t \in Timeouts : SetReconnectTimeout(t)
           \/ ListenersFree \/ LoopReturn \/ MainIterate \/ SelectReturns
           \/ ReconnectIfNeeded
  <2>1. pc' # "connect"
    BY <1>3 DEF ConnectOpen, ReconnectSkip, DispatchDone, DispatchDisconnected,
       DispatchAnswer, DispatchKeep, Dispatching, RemoveService, SetReconnectTimeout,
       ListenersFree, LoopReturn, MainIterate, SelectReturns, ReconnectIfNeeded,
       Idle, pcVars
  <2> QED
    BY <2>1 DEF FastThenFull
<1>4. CASE \/ BusDown \/ BusUp \/ UNCHANGED vars
           \/ \E k \in Conns : Notice(k)
           \/ \E s \in Services : ForeignAcquire(s) \/ ForeignRelease(s)
           \/ \E x \in Calls : Reply(x) \/ \E s \in Services : SendCall(x, s)
  <2>1. UNCHANGED <<pc, attempt, pause, timeout>>
    BY <1>4 DEF BusDown, BusUp, Notice, ForeignAcquire, ForeignRelease, Reply,
       SendCall, vars, ctxVars, pcVars
  <2> QED
    BY <2>1 DEF FastThenFull
<1> QED
  BY <1>1, <1>2, <1>3, <1>4 DEF Next, Loop, Program, Environment

\* Of the pauses of one service_connect just the first FastAttempts are fast,
\* when the full one is longer.
THEOREM FastThenFullInvariant == Spec => []FastThenFull
<1>1. Init => FastThenFull
  BY DEF Init, FastThenFull
<1> QED
  BY <1>1, FastThenFullStep, ShapeInvariant, PTL DEF Spec
=============================================================================
