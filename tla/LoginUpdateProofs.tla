--------------------------- MODULE LoginUpdateProofs ---------------------------
(***************************************************************************)
(* Theorems about LoginUpdate, for any number of hooks and connections.    *)
(***************************************************************************)
EXTENDS LoginUpdate, FiniteSetTheorems, TLAPS

(***************************************************************************)
(* Queues.                                                                 *)
(***************************************************************************)
Entries == Hooks \cup {Disconnected}
Queues  == [Conns -> Seq(Entries)]

\* The entry e is the i-th of the queue of k.
At(q, e, k, i) == i \in 1 .. Len(q[k]) /\ q[k][i] = e

LEMMA AtAppended ==
  ASSUME NEW q \in Queues, NEW k \in Conns, NEW e \in Entries
  PROVE  LET r == [q EXCEPT ![k] = Append(@, e)] IN
         /\ r \in Queues
         /\ \A f \in Entries, c \in Conns, i \in Nat :
              At(r, f, c, i) <=> At(q, f, c, i) \/ (f = e /\ c = k /\ i = Len(q[k]) + 1)
<1> DEFINE r == [q EXCEPT ![k] = Append(@, e)]
<1>1. q[k] \in Seq(Entries) BY DEF Queues
<1>2. r \in Queues BY <1>1 DEF Queues
<1>3. r[k] = Append(q[k], e) /\ \A c \in Conns \ {k} : r[c] = q[c] BY DEF Queues
<1>4. ASSUME NEW f \in Entries, NEW i \in Nat
      PROVE  At(r, f, k, i) <=> At(q, f, k, i) \/ (f = e /\ i = Len(q[k]) + 1)
  BY <1>1, <1>3 DEF At
<1>5. ASSUME NEW f \in Entries, NEW i \in Nat, NEW c \in Conns \ {k}
      PROVE  At(r, f, c, i) <=> At(q, f, c, i)
  BY <1>3 DEF At
<1>. QED BY <1>2, <1>4, <1>5

LEMMA AtTail ==
  ASSUME NEW q \in Queues, NEW k \in Conns, q[k] # << >>
  PROVE  LET r == [q EXCEPT ![k] = Tail(@)] IN
         /\ r \in Queues
         /\ Head(q[k]) \in Entries /\ At(q, Head(q[k]), k, 1)
         /\ \A f \in Entries, i \in Nat :
              At(r, f, k, i) <=> i # 0 /\ At(q, f, k, i + 1)
         /\ \A f \in Entries, c \in Conns \ {k}, i \in Nat :
              At(r, f, c, i) <=> At(q, f, c, i)
<1> DEFINE r == [q EXCEPT ![k] = Tail(@)]
<1>1. q[k] \in Seq(Entries) /\ q[k] # << >> BY DEF Queues
<1>2. r \in Queues BY <1>1 DEF Queues
<1>3. r[k] = Tail(q[k]) /\ \A c \in Conns \ {k} : r[c] = q[c] BY DEF Queues
<1>4. Len(Tail(q[k])) = Len(q[k]) - 1 /\ \A i \in 1 .. Len(q[k]) - 1 : Tail(q[k])[i] = q[k][i + 1]
  BY <1>1
<1>5. ASSUME NEW f \in Entries, NEW i \in Nat
      PROVE  At(r, f, k, i) <=> i # 0 /\ At(q, f, k, i + 1)
  <2> HIDE DEF r
  <2>1. Len(q[k]) \in Nat BY <1>1
  <2>2. i \in 1 .. Len(r[k]) <=> i # 0 /\ i + 1 \in 1 .. Len(q[k]) BY <1>3, <1>4, <2>1
  <2>3. i \in 1 .. Len(r[k]) => r[k][i] = q[k][i + 1] BY <1>3, <1>4, <2>1
  <2>. QED BY <2>2, <2>3 DEF At
<1>6. ASSUME NEW f \in Entries, NEW i \in Nat, NEW c \in Conns \ {k}
      PROVE  At(r, f, c, i) <=> At(q, f, c, i)
  BY <1>3 DEF At
<1>7. Head(q[k]) \in Entries /\ At(q, Head(q[k]), k, 1) BY <1>1 DEF At
<1>. QED BY <1>2, <1>5, <1>6, <1>7

LEMMA AtEmptied ==
  ASSUME NEW q \in Queues, NEW K
  PROVE  LET r == [c \in Conns |-> IF c \in K THEN << >> ELSE q[c]] IN
         /\ r \in Queues
         /\ \A f \in Entries, c \in Conns, i \in Nat :
              At(r, f, c, i) <=> c \notin K /\ At(q, f, c, i)
BY DEF Queues, At

(***************************************************************************)
(* The inductive invariant, in parts.                                      *)
(***************************************************************************)
Typed ==
  /\ hook \in 0 .. MaxHooks
  /\ shown \in [Hooks -> {"nothing", "reply", "error"}]
  /\ fate \in [Hooks -> Fates]
  /\ inbox \in Queues
  /\ holder \in [Hooks -> Conns \cup {None}]
  /\ call \in [Hooks -> {"new", "sent", "answered", "lost"}]
  /\ services \subseteq {Service}
  /\ conn \in [{Service} -> Conns \cup {None}]
  /\ owner \in [{Service} -> Conns \cup {None}]
  /\ target \in {Service, None}

\* The name leads to the connection of the service, and only that one has
\* calls to dispatch.
Homed ==
  \A h \in Hooks, k \in Conns, i \in Nat : At(inbox, h, k, i) => k = conn[Service]

Routed ==
  /\ conn[Service] # None => Service \in services
  /\ at \in {"connect", "bind"} => target = Service /\ conn[Service] = None
  /\ at = "bind" => fresh \in Conns
  /\ owner[Service] # None => owner[Service] = conn[Service]
  /\ Homed

\* A call is in one place, and calls wait in the order they were made.
Placed ==
  /\ \A h \in Hooks, k \in Conns, i \in Nat :
       At(inbox, h, k, i) =>
         fate[h] = "atServer" /\ holder[h] = None /\ call[h] # "answered"
  /\ \A g, h \in Hooks, k \in Conns, i, j \in Nat :
       At(inbox, g, k, i) /\ At(inbox, h, k, j) /\ i < j => g < h
  /\ \A h \in Hooks : holder[h] # None => fate[h] = "atServer" /\ call[h] # "answered"

Begun(h) == fate[h] \in {"done", "unheard"} \/ holder[h] # None
Past(h)  == fate[h] \in {"atServer", "done", "unheard"}

\* What was begun came before what waits at the daemon, and that before what
\* waits at the bus.
Ordered ==
  /\ \A g, h \in Hooks : fate[g] = "atBus" /\ Past(h) => h < g
  /\ \A g, h \in Hooks, k \in Conns, i \in Nat :
       At(inbox, g, k, i) /\ Begun(h) => h < g

\* The hook in progress has not asked before it sends, and none has after it.
Turns ==
  /\ \A h \in Hooks : fate[h] # "none" => h <= hook
  /\ pc \in {"lookup", "check", "connect", "send", "wait"} => hook \in Hooks
  /\ pc \in {"lookup", "check", "connect", "send"} => fate[hook] = "none"

\* A request whose answer can still come was made over the connection there is.
Linked ==
  /\ \A h \in Hooks : fate[h] = "atBus" \/ call[h] = "sent" => link = "alive"
  /\ link = "alive" => bus = "up"
  /\ \A h \in Hooks : shown[h] = "reply" => fate[h] = "done"

Inv == Typed /\ Routed /\ Placed /\ Ordered /\ Turns /\ Linked

USE DEF Hooks

LEMMA InitInv == Init => Inv
<1> SUFFICES ASSUME Init PROVE Inv OBVIOUS
<1> USE LoginAssumption DEF Init, Server!Init, Client!Init
<1>0. inbox = [k \in Conns |-> << >>] OBVIOUS
<1>1. \A e \in Entries, k \in Conns, i \in Nat : ~At(inbox, e, k, i) BY <1>0 DEF At
<1>2. Typed BY DEF Typed, Fates, Queues
<1>3. Routed BY <1>1 DEF Routed, Homed, Entries
<1>4. Placed BY <1>1 DEF Placed, Entries
<1>5. Ordered BY <1>1 DEF Ordered, Past, Begun, Entries
<1>6. Turns BY DEF Turns
<1>7. Linked BY DEF Linked
<1>. QED BY <1>2, <1>3, <1>4, <1>5, <1>6, <1>7 DEF Inv

(***************************************************************************)
(* What the daemon does by itself: it takes calls out of the queues, in    *)
(* order, or all of a connection that it closes.                           *)
(***************************************************************************)
Thinned ==
  \E d \in [Conns -> {0, 1}] : \A h \in Hooks, k \in Conns, i \in Nat :
    At(inbox', h, k, i) => At(inbox, h, k, i + d[k])

CallsKept ==
  /\ call' \in [Hooks -> {"new", "sent", "answered", "lost"}]
  /\ \A h \in Hooks : call'[h] \in {call[h], "lost"}

LEMMA HooksAreEntries == \A h \in Hooks : h \in Entries /\ h # Disconnected
  BY LoginAssumption DEF Entries

LEMMA StillThins ==
  ASSUME Typed, UNCHANGED inbox
  PROVE  Thinned
<1> DEFINE d == [k \in Conns |-> 0]
<1>1. d \in [Conns -> {0, 1}] OBVIOUS
<1>2. \A h \in Hooks, k \in Conns, i \in Nat : At(inbox', h, k, i) => At(inbox, h, k, i + d[k])
  OBVIOUS
<1>. QED BY <1>1, <1>2 DEF Thinned

LEMMA NoticeThins ==
  ASSUME Typed, NEW k \in Conns, inbox' = [inbox EXCEPT ![k] = Append(@, Disconnected)]
  PROVE  Thinned /\ inbox' \in Queues
<1> DEFINE d == [c \in Conns |-> 0]
<1>1. Disconnected \in Entries BY DEF Entries
<1>2. inbox \in Queues BY DEF Typed
<1>3. d \in [Conns -> {0, 1}] OBVIOUS
<1>4. /\ inbox' \in Queues
      /\ \A f \in Entries, c \in Conns, i \in Nat :
           At(inbox', f, c, i) <=> At(inbox, f, c, i)
             \/ (f = Disconnected /\ c = k /\ i = Len(inbox[k]) + 1)
  BY <1>1, <1>2, AtAppended
<1>5. \A h \in Hooks, c \in Conns, i \in Nat : At(inbox', h, c, i) => At(inbox, h, c, i + d[c])
  <2> SUFFICES ASSUME NEW h \in Hooks, NEW c \in Conns, NEW i \in Nat, At(inbox', h, c, i)
               PROVE  At(inbox, h, c, i + d[c])
    OBVIOUS
  <2>1. h \in Entries /\ h # Disconnected BY HooksAreEntries
  <2>2. At(inbox, h, c, i) BY <1>4, <2>1
  <2>. QED BY <2>2
<1>. QED BY <1>3, <1>4, <1>5 DEF Thinned

\* The head of a queue goes.
LEMMA TailThins ==
  ASSUME Typed, NEW k \in Conns, inbox[k] # << >>, inbox' = [inbox EXCEPT ![k] = Tail(@)]
  PROVE  /\ Thinned /\ inbox' \in Queues
         /\ Head(inbox[k]) \in Entries /\ At(inbox, Head(inbox[k]), k, 1)
         /\ \A h \in Hooks, i \in Nat : At(inbox', h, k, i) <=> i # 0 /\ At(inbox, h, k, i + 1)
         /\ \A h \in Hooks, c \in Conns \ {k}, i \in Nat :
              At(inbox', h, c, i) <=> At(inbox, h, c, i)
<1> DEFINE d == [c \in Conns |-> IF c = k THEN 1 ELSE 0]
<1>1. inbox \in Queues BY DEF Typed
<1>2. d \in [Conns -> {0, 1}] OBVIOUS
<1>3. /\ inbox' \in Queues
      /\ Head(inbox[k]) \in Entries /\ At(inbox, Head(inbox[k]), k, 1)
      /\ \A f \in Entries, i \in Nat : At(inbox', f, k, i) <=> i # 0 /\ At(inbox, f, k, i + 1)
      /\ \A f \in Entries, c \in Conns \ {k}, i \in Nat :
           At(inbox', f, c, i) <=> At(inbox, f, c, i)
  BY <1>1, AtTail
<1>4. \A h \in Hooks, c \in Conns, i \in Nat : At(inbox', h, c, i) => At(inbox, h, c, i + d[c])
  <2> SUFFICES ASSUME NEW h \in Hooks, NEW c \in Conns, NEW i \in Nat, At(inbox', h, c, i)
               PROVE  At(inbox, h, c, i + d[c])
    OBVIOUS
  <2>1. h \in Entries BY HooksAreEntries
  <2>2. CASE c = k BY <1>3, <2>1, <2>2
  <2>3. CASE c # k
    <3>1. At(inbox, h, c, i) BY <1>3, <2>1, <2>3
    <3>. QED BY <2>3, <3>1
  <2>. QED BY <2>2, <2>3
<1>. QED BY <1>2, <1>3, <1>4, HooksAreEntries DEF Thinned

\* Closing connections.
LEMMA CloseThins ==
  ASSUME Typed, NEW K, Server!Close(K)
  PROVE  /\ Thinned /\ inbox' \in Queues /\ CallsKept
         /\ \A h \in Hooks, k \in K, i \in Nat : k \in Conns => ~At(inbox', h, k, i)
<1> DEFINE d == [c \in Conns |-> 0]
           r == [c \in Conns |-> IF c \in K THEN << >> ELSE inbox[c]]
<1>1. inbox \in Queues BY DEF Typed
<1>2. d \in [Conns -> {0, 1}] OBVIOUS
<1>3. inbox' = r BY DEF Server!Close
<1>4. /\ inbox' \in Queues
      /\ \A f \in Entries, c \in Conns, i \in Nat :
           At(inbox', f, c, i) <=> c \notin K /\ At(inbox, f, c, i)
  <2>1. /\ r \in Queues
        /\ \A f \in Entries, c \in Conns, i \in Nat :
             At(r, f, c, i) <=> c \notin K /\ At(inbox, f, c, i)
    BY <1>1, AtEmptied
  <2>. HIDE DEF r
  <2>. QED BY <1>3, <2>1
<1>5. \A h \in Hooks, c \in Conns, i \in Nat : At(inbox', h, c, i) => At(inbox, h, c, i + d[c])
  BY <1>4, HooksAreEntries
<1>6. CallsKept
  <2> DEFINE lost == {h \in Hooks : call[h] = "sent" /\ \E k \in K : Server!CameOn(h, k)}
  <2>1. call' = [h \in Hooks |-> IF h \in lost THEN "lost" ELSE call[h]]
    BY DEF Server!Close, Server!LoseCalls
  <2>2. call \in [Hooks -> {"new", "sent", "answered", "lost"}] BY DEF Typed
  <2> HIDE DEF lost
  <2>. QED BY <2>1, <2>2 DEF CallsKept
<1>. QED BY <1>2, <1>4, <1>5, <1>6, HooksAreEntries DEF Thinned

\* While the service keeps its connection, what waits stays on it.
LEMMA HomedKept ==
  ASSUME Homed, Thinned, UNCHANGED conn
  PROVE  Homed'
<1> PICK d \in [Conns -> {0, 1}] :
      \A h \in Hooks, k \in Conns, i \in Nat : At(inbox', h, k, i) => At(inbox, h, k, i + d[k])
  BY DEF Thinned
<1> SUFFICES ASSUME NEW h \in Hooks, NEW k \in Conns, NEW i \in Nat, At(inbox', h, k, i)
             PROVE  k = conn'[Service]
  BY DEF Homed
<1>1. At(inbox, h, k, i + d[k]) /\ i + d[k] \in Nat OBVIOUS
<1>. QED BY <1>1 DEF Homed

\* A service whose connection is closed has nothing left anywhere.
LEMMA HomedClosed ==
  ASSUME Typed, Homed, NEW K, Server!Close(K), {conn[Service]} \ {None} \subseteq K
  PROVE  Homed'
<1> PICK d \in [Conns -> {0, 1}] :
      \A h \in Hooks, k \in Conns, i \in Nat : At(inbox', h, k, i) => At(inbox, h, k, i + d[k])
  BY CloseThins DEF Thinned
<1> SUFFICES ASSUME NEW h \in Hooks, NEW k \in Conns, NEW i \in Nat, At(inbox', h, k, i)
             PROVE  FALSE
  BY DEF Homed
<1>1. At(inbox, h, k, i + d[k]) /\ i + d[k] \in Nat OBVIOUS
<1>2. k \in K BY <1>1, LoginAssumption DEF Homed
<1>. QED BY <1>2, CloseThins

\* The parts of Typed and Routed that the daemon by itself can change.
DaemonTyped ==
  /\ inbox \in Queues
  /\ call \in [Hooks -> {"new", "sent", "answered", "lost"}]
  /\ services \subseteq {Service}
  /\ conn \in [{Service} -> Conns \cup {None}]
  /\ owner \in [{Service} -> Conns \cup {None}]
  /\ target \in {Service, None}

DaemonRouted ==
  /\ conn[Service] # None => Service \in services
  /\ at \in {"connect", "bind"} => target = Service /\ conn[Service] = None
  /\ at = "bind" => fresh \in Conns
  /\ owner[Service] # None => owner[Service] = conn[Service]

LEMMA StillKeeps ==
  ASSUME Typed, Homed, UNCHANGED <<inbox, call>>
  PROVE  Thinned /\ CallsKept /\ inbox' \in Queues
         /\ (UNCHANGED conn => Homed')
<1>1. Thinned BY StillThins
<1>2. CallsKept BY DEF CallsKept, Typed
<1>3. inbox' \in Queues BY DEF Typed
<1>. QED BY <1>1, <1>2, <1>3, HomedKept

LEMMA DaemonStep ==
  ASSUME Typed, Routed, ServerAlone
  PROVE  /\ Thinned /\ CallsKept /\ UNCHANGED <<holder, bus>>
         /\ DaemonTyped' /\ DaemonRouted' /\ Homed'
<1> DEFINE Goal == /\ Thinned /\ CallsKept /\ UNCHANGED <<holder, bus>>
                   /\ DaemonTyped' /\ DaemonRouted' /\ Homed'
<1>a. DaemonTyped /\ DaemonRouted /\ Homed
  BY DEF Typed, DaemonTyped, Routed, DaemonRouted
<1> USE LoginAssumption
    DEF DaemonTyped, DaemonRouted, Server!ctxVars, Server!pcVars, Server!connVars,
        Server!busVars, Server!callVars
<1>1. CASE Server!ConnectFail
  <2>1. UNCHANGED <<inbox, call, conn, holder, bus>> BY <1>1 DEF Server!ConnectFail
  <2>2. CallsKept /\ inbox' \in Queues /\ Thinned /\ Homed' BY <2>1, <1>a, StillKeeps
  <2>3. DaemonTyped' BY <1>1, <1>a, <2>1, <2>2 DEF Server!ConnectFail, CallsKept
  <2>4. DaemonRouted' BY <1>1, <1>a DEF Server!ConnectFail
  <2>. QED BY <2>1, <2>2, <2>3, <2>4
<1>2. CASE Server!LoopReturn
  <2>1. UNCHANGED <<inbox, call, conn, holder, bus>> BY <1>2 DEF Server!LoopReturn
  <2>2. CallsKept /\ inbox' \in Queues /\ Thinned /\ Homed' BY <2>1, <1>a, StillKeeps
  <2>3. DaemonTyped' BY <1>2, <1>a, <2>1, <2>2 DEF Server!LoopReturn, CallsKept
  <2>4. DaemonRouted' BY <1>2, <1>a DEF Server!LoopReturn
  <2>. QED BY <2>1, <2>2, <2>3, <2>4
<1>3. CASE Server!MainIterate
  <2>1. UNCHANGED <<inbox, call, conn, holder, bus>> BY <1>3 DEF Server!MainIterate
  <2>2. CallsKept /\ inbox' \in Queues /\ Thinned /\ Homed' BY <2>1, <1>a, StillKeeps
  <2>3. DaemonTyped' BY <1>3, <1>a, <2>1, <2>2 DEF Server!MainIterate, CallsKept
  <2>4. DaemonRouted' BY <1>3, <1>a DEF Server!MainIterate
  <2>. QED BY <2>1, <2>2, <2>3, <2>4
<1>4. CASE Server!SelectReturns
  <2>1. UNCHANGED <<inbox, call, conn, holder, bus>> BY <1>4 DEF Server!SelectReturns
  <2>2. CallsKept /\ inbox' \in Queues /\ Thinned /\ Homed' BY <2>1, <1>a, StillKeeps
  <2>3. DaemonTyped' BY <1>4, <1>a, <2>1, <2>2 DEF Server!SelectReturns, CallsKept
  <2>4. DaemonRouted' BY <1>4, <1>a DEF Server!SelectReturns
  <2>. QED BY <2>1, <2>2, <2>3, <2>4
<1>5. CASE Server!ReconnectIfNeeded
  <2>1. UNCHANGED <<inbox, call, conn, holder, bus>> BY <1>5 DEF Server!ReconnectIfNeeded
  <2>2. CallsKept /\ inbox' \in Queues /\ Thinned /\ Homed' BY <2>1, <1>a, StillKeeps
  <2>3. DaemonTyped' BY <1>5, <1>a, <2>1, <2>2 DEF Server!ReconnectIfNeeded, CallsKept
  <2>4. DaemonRouted' BY <1>5, <1>a DEF Server!ReconnectIfNeeded
  <2>. QED BY <2>1, <2>2, <2>3, <2>4
<1>6. CASE Server!ReconnectSkip(Service)
  <2>1. UNCHANGED <<inbox, call, conn, holder, bus>> BY <1>6 DEF Server!ReconnectSkip
  <2>2. CallsKept /\ inbox' \in Queues /\ Thinned /\ Homed' BY <2>1, <1>a, StillKeeps
  <2>3. DaemonTyped' BY <1>6, <1>a, <2>1, <2>2 DEF Server!ReconnectSkip, CallsKept
  <2>4. DaemonRouted' BY <1>6, <1>a DEF Server!ReconnectSkip
  <2>. QED BY <2>1, <2>2, <2>3, <2>4
<1>7. CASE Server!DispatchDone(Service)
  <2>1. UNCHANGED <<inbox, call, conn, holder, bus>> BY <1>7 DEF Server!DispatchDone
  <2>2. CallsKept /\ inbox' \in Queues /\ Thinned /\ Homed' BY <2>1, <1>a, StillKeeps
  <2>3. DaemonTyped' BY <1>7, <1>a, <2>1, <2>2 DEF Server!DispatchDone, CallsKept
  <2>4. DaemonRouted' BY <1>7, <1>a DEF Server!DispatchDone
  <2>. QED BY <2>1, <2>2, <2>3, <2>4
<1>8. CASE Server!AddService(Service)
  <2>1. UNCHANGED <<inbox, call, conn, holder, bus>> BY <1>8 DEF Server!AddService, Server!StartConnect
  <2>2. CallsKept /\ inbox' \in Queues /\ Thinned /\ Homed' BY <2>1, <1>a, StillKeeps
  <2>3. DaemonTyped' BY <1>8, <1>a, <2>1, <2>2 DEF Server!AddService, Server!StartConnect, CallsKept
  <2>4. DaemonRouted' BY <1>8, <1>a DEF Server!AddService, Server!StartConnect
  <2>. QED BY <2>1, <2>2, <2>3, <2>4
<1>9. ASSUME NEW k \in Conns, Server!ConnectOpen(k) PROVE Goal
  <2>1. UNCHANGED <<inbox, call, conn, holder, bus>> BY <1>9 DEF Server!ConnectOpen
  <2>2. CallsKept /\ inbox' \in Queues /\ Thinned /\ Homed' BY <2>1, <1>a, StillKeeps
  <2>3. DaemonTyped' BY <1>9, <1>a, <2>1, <2>2 DEF Server!ConnectOpen, CallsKept
  <2>4. DaemonRouted' BY <1>9, <1>a DEF Server!ConnectOpen
  <2>. QED BY <2>1, <2>2, <2>3, <2>4
<1>10. ASSUME NEW t \in Timeouts, Server!SetReconnectTimeout(t) PROVE Goal
  <2>1. UNCHANGED <<inbox, call, conn, holder, bus>> BY <1>10 DEF Server!SetReconnectTimeout
  <2>2. CallsKept /\ inbox' \in Queues /\ Thinned /\ Homed' BY <2>1, <1>a, StillKeeps
  <2>3. DaemonTyped' BY <1>10, <1>a, <2>1, <2>2 DEF Server!SetReconnectTimeout, CallsKept
  <2>4. DaemonRouted' BY <1>10, <1>a DEF Server!SetReconnectTimeout
  <2>. QED BY <2>1, <2>2, <2>3, <2>4
<1>11. CASE Server!BindOk
  <2>1. UNCHANGED <<inbox, call, holder, bus>> BY <1>11 DEF Server!BindOk
  <2>2. CallsKept /\ inbox' \in Queues /\ Thinned BY <2>1, <1>a, StillKeeps
  <2>3. target = Service /\ fresh \in Conns /\ conn[Service] = None
    BY <1>11, <1>a DEF Server!BindOk
  <2>4. Homed' BY <1>a, <2>1, <2>3 DEF Homed
  <2>5. DaemonTyped'
    BY <1>11, <1>a, <2>1, <2>2, <2>3 DEF Server!BindOk, Server!ConnectReturn, CallsKept
  <2>6. DaemonRouted' BY <1>11, <1>a, <2>3 DEF Server!BindOk, Server!ConnectReturn
  <2>. QED BY <2>1, <2>2, <2>4, <2>5, <2>6
<1>12. ASSUME NEW k \in Conns, Server!Notice(k) PROVE Goal
  <2>1. /\ UNCHANGED <<call, conn, holder, bus>>
        /\ inbox' = [inbox EXCEPT ![k] = Append(@, Disconnected)]
    BY <1>12 DEF Server!Notice
  <2>2. inbox' \in Queues /\ Thinned BY <2>1, NoticeThins
  <2>3. CallsKept BY <2>1, <1>a DEF CallsKept
  <2>4. Homed' BY <2>1, <2>2, <1>a, HomedKept
  <2>5. DaemonTyped' BY <1>12, <1>a, <2>1, <2>2 DEF Server!Notice
  <2>6. DaemonRouted' BY <1>12, <1>a DEF Server!Notice
  <2>. QED BY <2>1, <2>2, <2>3, <2>4, <2>5, <2>6
<1>13. CASE Server!DispatchDisconnected(Service)
  <2> USE DEF Server!DispatchDisconnected, Server!Dispatching
  <2>1. /\ UNCHANGED <<call, conn, holder, bus>>
        /\ conn[Service] \in Conns /\ inbox[conn[Service]] # << >>
        /\ inbox' = [inbox EXCEPT ![conn[Service]] = Tail(@)]
    BY <1>13, <1>a
  <2>2. inbox' \in Queues /\ Thinned BY <2>1, TailThins
  <2>3. CallsKept BY <2>1, <1>a DEF CallsKept
  <2>4. Homed' BY <2>1, <2>2, <1>a, HomedKept
  <2>5. DaemonTyped' BY <1>13, <1>a, <2>1, <2>2
  <2>6. DaemonRouted' BY <1>13, <1>a
  <2>. QED BY <2>1, <2>2, <2>3, <2>4, <2>5, <2>6
<1>14. CASE Server!BindFail
  <2> DEFINE K == {fresh}
  <2> USE DEF Server!BindFail, Server!ConnectReturn, Server!Disconnect
  <2>1. Server!Close(K) /\ UNCHANGED <<holder, bus>> BY <1>14
  <2>2. inbox' \in Queues /\ Thinned /\ CallsKept BY <2>1, CloseThins
  <2>3. {conn[Service]} \ {None} \subseteq K BY <1>14, <1>a
  <2>4. Homed' BY <1>a, <2>1, <2>3, HomedClosed
  <2>5. owner' = [s \in {Service} |-> IF owner[s] \in K THEN None ELSE owner[s]]
    BY <2>1 DEF Server!Close
  <2> HIDE DEF K
  <2>6. DaemonTyped' BY <1>14, <1>a, <2>2, <2>5 DEF CallsKept
  <2>7. DaemonRouted' BY <1>14, <1>a, <2>3, <2>5
  <2>. QED BY <2>1, <2>2, <2>4, <2>6, <2>7
<1>15. CASE Server!ReconnectService(Service)
  <2> DEFINE K == {conn[Service]} \ {None}
  <2> USE DEF Server!ReconnectService, Server!StartConnect, Server!Disconnect
  <2>1. Server!Close(K) /\ UNCHANGED <<holder, bus>> BY <1>15
  <2>2. inbox' \in Queues /\ Thinned /\ CallsKept BY <2>1, CloseThins
  <2>3. {conn[Service]} \ {None} \subseteq K BY <1>15, <1>a
  <2>4. Homed' BY <1>a, <2>1, <2>3, HomedClosed
  <2>5. owner' = [s \in {Service} |-> IF owner[s] \in K THEN None ELSE owner[s]]
    BY <2>1 DEF Server!Close
  <2> HIDE DEF K
  <2>6. DaemonTyped' BY <1>15, <1>a, <2>2, <2>5 DEF CallsKept
  <2>7. DaemonRouted' BY <1>15, <1>a, <2>3, <2>5
  <2>. QED BY <2>1, <2>2, <2>4, <2>6, <2>7
<1>16. CASE Server!RemoveService(Service)
  <2> DEFINE K == {conn[Service]} \ {None}
  <2> USE DEF Server!RemoveService, Server!Idle, Server!Disconnect
  <2>1. Server!Close(K) /\ UNCHANGED <<holder, bus>> BY <1>16
  <2>2. inbox' \in Queues /\ Thinned /\ CallsKept BY <2>1, CloseThins
  <2>3. {conn[Service]} \ {None} \subseteq K BY <1>16, <1>a
  <2>4. Homed' BY <1>a, <2>1, <2>3, HomedClosed
  <2>5. owner' = [s \in {Service} |-> IF owner[s] \in K THEN None ELSE owner[s]]
    BY <2>1 DEF Server!Close
  <2> HIDE DEF K
  <2>6. DaemonTyped' BY <1>16, <1>a, <2>2, <2>5 DEF CallsKept
  <2>7. DaemonRouted' BY <1>16, <1>a, <2>3, <2>5
  <2>. QED BY <2>1, <2>2, <2>4, <2>6, <2>7
<1>17. CASE Server!ListenersFree
  <2> DEFINE K == Server!ServiceConns
  <2> USE DEF Server!ListenersFree, Server!Idle, Server!ServiceConns, Server!Disconnect
  <2>1. Server!Close(K) /\ UNCHANGED <<holder, bus>> BY <1>17
  <2>2. inbox' \in Queues /\ Thinned /\ CallsKept BY <2>1, CloseThins
  <2>3. {conn[Service]} \ {None} \subseteq K BY <1>17, <1>a
  <2>4. Homed' BY <1>a, <2>1, <2>3, HomedClosed
  <2>5. owner' = [s \in {Service} |-> IF owner[s] \in K THEN None ELSE owner[s]]
    BY <2>1 DEF Server!Close
  <2> HIDE DEF K
  <2>6. DaemonTyped' BY <1>17, <1>a, <2>2, <2>5 DEF CallsKept
  <2>7. DaemonRouted' BY <1>17, <1>a, <2>3, <2>5
  <2>. QED BY <2>1, <2>2, <2>4, <2>6, <2>7
<1>. QED
  BY <1>1, <1>2, <1>3, <1>4, <1>5, <1>6, <1>7, <1>8, <1>9, <1>10, <1>11, <1>12, <1>13, <1>14, <1>15, <1>16, <1>17 DEF ServerAlone

(***************************************************************************)
(* The invariant, step by step.                                            *)
(***************************************************************************)
\* Fewer calls wait, nothing else happens to a request.
LEMMA ThinningKeeps ==
  ASSUME Placed, Ordered, Thinned, CallsKept, UNCHANGED <<fate, holder>>
  PROVE  Placed' /\ Ordered'
<1> PICK d \in [Conns -> {0, 1}] :
      \A h \in Hooks, k \in Conns, i \in Nat : At(inbox', h, k, i) => At(inbox, h, k, i + d[k])
  BY DEF Thinned
<1>1. \A k \in Conns, i \in Nat : i + d[k] \in Nat OBVIOUS
<1>2. \A h \in Hooks, k \in Conns, i \in Nat :
        At(inbox', h, k, i) => fate[h] = "atServer" /\ holder[h] = None /\ call'[h] # "answered"
  <2>. SUFFICES ASSUME NEW h \in Hooks, NEW k \in Conns, NEW i \in Nat, At(inbox', h, k, i)
                PROVE  fate[h] = "atServer" /\ holder[h] = None /\ call'[h] # "answered"
    OBVIOUS
  <2>1. At(inbox, h, k, i + d[k]) /\ i + d[k] \in Nat BY <1>1
  <2>2. fate[h] = "atServer" /\ holder[h] = None /\ call[h] # "answered" BY <2>1 DEF Placed
  <2>. QED BY <2>2 DEF CallsKept
<1>3. ASSUME NEW g \in Hooks, NEW h \in Hooks, NEW k \in Conns, NEW i \in Nat, NEW j \in Nat,
             At(inbox', g, k, i), At(inbox', h, k, j), i < j
      PROVE  g < h
  <2>1. At(inbox, g, k, i + d[k]) /\ At(inbox, h, k, j + d[k]) BY <1>3
  <2>2. i + d[k] \in Nat /\ j + d[k] \in Nat /\ i + d[k] < j + d[k] BY <1>3, <1>1
  <2>. QED BY <2>1, <2>2 DEF Placed
<1>4. \A h \in Hooks : holder'[h] # None => fate'[h] = "atServer" /\ call'[h] # "answered"
  BY DEF Placed, CallsKept
<1>5. Placed' BY <1>2, <1>3, <1>4 DEF Placed
<1>6. \A g, h \in Hooks, k \in Conns, i \in Nat :
        At(inbox', g, k, i) /\ Begun(h) => h < g
  BY <1>1 DEF Ordered
<1>7. \A g, h \in Hooks : fate'[g] = "atBus" /\ Past(h)' => h < g
  BY DEF Ordered, Past
<1>8. \A h \in Hooks : Begun(h)' <=> Begun(h) BY DEF Begun
<1>9. Ordered' BY <1>6, <1>7, <1>8 DEF Ordered
<1>. QED BY <1>5, <1>9

LEMMA ServerStep ==
  ASSUME Inv, ServerAlone
  PROVE  Inv'
<1>1. Thinned /\ CallsKept /\ UNCHANGED <<holder, bus>> /\ DaemonTyped' /\ DaemonRouted' /\ Homed'
  BY DaemonStep DEF Inv
<1>2. UNCHANGED <<fate, hook, pc, shown, link>> BY DEF ServerAlone, clientVars
<1>3. Typed' BY <1>1, <1>2 DEF Inv, Typed, DaemonTyped
<1>4. Routed' BY <1>1 DEF Routed, DaemonRouted
<1>5. Placed' /\ Ordered' BY <1>1, <1>2, ThinningKeeps DEF Inv
<1>6. Turns' BY <1>2 DEF Inv, Turns
<1>7. Linked' BY <1>1, <1>2 DEF Inv, Linked, CallsKept
<1>. QED BY <1>3, <1>4, <1>5, <1>6, <1>7 DEF Inv

\* What the login does by itself.
LEMMA ClientStep ==
  ASSUME Inv, ClientAlone
  PROVE  /\ Inv' /\ UNCHANGED <<serverVars, bus, fate>>
         /\ \A h \in Hooks : shown'[h] = "reply" => shown[h] = "reply"
<1> USE LoginAssumption DEF Client!Goto, Client!Show, Client!given, Client!libdbus
<1>1. UNCHANGED <<serverVars, fate>> BY DEF ClientAlone
<1>2. /\ UNCHANGED bus /\ hook' \in 0 .. MaxHooks
      /\ shown' \in [Hooks -> {"nothing", "reply", "error"}]
      /\ \A h \in Hooks : shown'[h] = "reply" => shown[h] = "reply"
      /\ link = "alive" => link' = "alive"
      /\ link' = "alive" => bus = "up"
      /\ Turns'
  <2> USE DEF Inv, Typed, Turns, Linked
  <2>1. CASE Client!CallHook BY <1>1, <2>1 DEF Client!CallHook
  <2>2. CASE Client!LookUpFails BY <1>1, <2>2 DEF Client!LookUpFails
  <2>3. CASE Client!LookUp BY <1>1, <2>3 DEF Client!LookUp
  <2>4. CASE Client!Check BY <1>1, <2>4 DEF Client!Check
  <2>5. CASE Client!Connect BY <1>1, <2>5 DEF Client!Connect
  <2>6. CASE Client!ConnectFails BY <1>1, <2>6 DEF Client!ConnectFails
  <2>7. CASE Client!SendOnDead BY <1>1, <2>7 DEF Client!SendOnDead
  <2>8. CASE Client!GiveUp BY <1>1, <2>8 DEF Client!GiveUp
  <2>9. CASE Client!Drop BY <1>1, <2>9 DEF Client!Drop
  <2>. QED BY <2>1, <2>2, <2>3, <2>4, <2>5, <2>6, <2>7, <2>8, <2>9 DEF ClientAlone
<1>3. Typed' BY <1>1, <1>2 DEF Inv, Typed, serverVars
<1>4. Routed' BY <1>1 DEF Inv, Routed, Homed, serverVars
<1>5. Placed' /\ Ordered' BY <1>1 DEF Inv, Placed, Ordered, Begun, Past, serverVars
<1>6. Linked' BY <1>1, <1>2 DEF Inv, Linked, serverVars
<1>. QED BY <1>1, <1>2, <1>3, <1>4, <1>5, <1>6 DEF Inv

LEMMA SendStep ==
  ASSUME Inv, Send
  PROVE  Inv'
<1> USE DEF Send, ClientGoto, Becomes, serverVars
<1>1. fate' = [fate EXCEPT ![hook] = "atBus"] /\ hook \in Hooks /\ fate[hook] = "none"
  BY DEF Inv, Turns
<1>2. Typed' BY <1>1 DEF Inv, Typed, Fates
<1>3. Routed' BY DEF Inv, Routed, Homed
<1>4. \A h \in Hooks : h # hook => fate'[h] = fate[h] BY <1>1 DEF Inv, Typed
<1>5. fate'[hook] = "atBus" BY <1>1 DEF Inv, Typed
<1>6. Placed' BY <1>1, <1>4 DEF Inv, Placed
<1>7. Ordered'
  <2>1. ASSUME NEW g \in Hooks, NEW h \in Hooks, fate'[g] = "atBus", Past(h)' PROVE h < g
    <3>1. h # hook /\ Past(h) BY <2>1, <1>4, <1>5 DEF Past
    <3>2. CASE g # hook BY <2>1, <3>1, <3>2, <1>4 DEF Inv, Ordered
    <3>3. CASE g = hook
      <4>1. h <= hook BY <3>1 DEF Inv, Turns, Past
      <4>. QED BY <3>1, <3>3, <4>1
    <3>. QED BY <3>2, <3>3
  <2>2. \A h \in Hooks : Begun(h)' => Begun(h) BY <1>4, <1>5 DEF Begun
  <2>. QED BY <2>1, <2>2 DEF Inv, Ordered
<1>8. Turns' BY <1>1, <1>4, <1>5 DEF Inv, Turns
<1>9. Linked' BY <1>1, <1>4 DEF Inv, Linked
<1>. QED BY <1>2, <1>3, <1>6, <1>7, <1>8, <1>9 DEF Inv

LEMMA ReceiveStep ==
  ASSUME Inv, Receive
  PROVE  Inv'
<1> USE DEF Receive, ClientGoto, serverVars
<1>1. hook \in Hooks BY DEF Inv, Turns
<1>2. Typed' BY <1>1 DEF Inv, Typed
<1>3. Routed' BY DEF Inv, Routed, Homed
<1>4. Placed' /\ Ordered' BY DEF Inv, Placed, Ordered, Begun, Past
<1>5. Turns' BY DEF Inv, Turns
<1>6. Linked' BY <1>1 DEF Inv, Typed, Linked
<1>. QED BY <1>2, <1>3, <1>4, <1>5, <1>6 DEF Inv

\* A call from the bus comes behind those that wait, over the connection of
\* the service.
LEMMA Delivered ==
  ASSUME Typed, Routed, NEW h \in Hooks, Server!SendCall(h, Service)
  PROVE  /\ inbox' \in Queues /\ call[h] = "new" /\ owner[Service] = conn[Service]
         /\ call' = [call EXCEPT ![h] = "sent"]
         /\ UNCHANGED <<services, conn, at, target, fresh, owner, holder>>
         /\ conn[Service] \in Conns
         /\ \E n \in Nat :
              /\ \A f \in Hooks, k \in Conns, i \in Nat :
                   At(inbox', f, k, i)
                     <=> At(inbox, f, k, i) \/ (f = h /\ k = conn[Service] /\ i = n)
              /\ \A f \in Hooks, i \in Nat : At(inbox, f, conn[Service], i) => i < n
<1> DEFINE c == conn[Service]
<1>1. /\ call[h] = "new" /\ call' = [call EXCEPT ![h] = "sent"]
      /\ UNCHANGED <<services, conn, at, target, fresh, owner, holder>>
      /\ owner[Service] \in Conns
      /\ inbox' = [inbox EXCEPT ![owner[Service]] = Append(@, h)]
  BY DEF Server!SendCall, Server!ctxVars, Server!pcVars, Server!busVars
<1>2. owner[Service] = c /\ c \in Conns BY <1>1, LoginAssumption DEF Routed
<1>3. inbox' = [inbox EXCEPT ![c] = Append(@, h)] BY <1>1, <1>2
<1>4. inbox \in Queues /\ h \in Entries BY HooksAreEntries DEF Typed
<1> HIDE DEF c
<1>5. /\ inbox' \in Queues
      /\ \A f \in Entries, k \in Conns, i \in Nat :
           At(inbox', f, k, i) <=> At(inbox, f, k, i) \/ (f = h /\ k = c /\ i = Len(inbox[c]) + 1)
  <2>1. PICK k \in Conns : k = c BY <1>2
  <2>2. inbox' = [inbox EXCEPT ![k] = Append(@, h)] BY <1>3, <2>1
  <2>3. /\ inbox' \in Queues
        /\ \A f \in Entries, b \in Conns, i \in Nat :
             At(inbox', f, b, i) <=> At(inbox, f, b, i) \/ (f = h /\ b = k /\ i = Len(inbox[k]) + 1)
    BY <2>2, <1>4, AtAppended
  <2>. QED BY <2>1, <2>3
<1>6. Len(inbox[c]) + 1 \in Nat BY <1>2, <1>4 DEF Queues
<1>7. \A f \in Hooks, k \in Conns, i \in Nat :
        At(inbox', f, k, i) <=> At(inbox, f, k, i) \/ (f = h /\ k = c /\ i = Len(inbox[c]) + 1)
  BY <1>5, HooksAreEntries
<1>8. \A f \in Hooks, i \in Nat : At(inbox, f, c, i) => i < Len(inbox[c]) + 1
  BY <1>2, <1>4 DEF At, Queues
<1>. QED BY <1>1, <1>2, <1>5, <1>6, <1>7, <1>8 DEF c

\* The bus answers itself when nobody owns the name.
LEMMA ReturnStep ==
  ASSUME Inv, NEW h \in Hooks, fate[h] = "atBus", Becomes(h, "error"), UNCHANGED serverVars,
         UNCHANGED <<clientVars, bus>>
  PROVE  Inv'
<1> USE DEF Becomes, serverVars, clientVars
<1>1. \A g \in Hooks : fate'[g] = IF g = h THEN "error" ELSE fate[g] BY DEF Inv, Typed
<1>2. Typed' BY DEF Inv, Typed, Fates
<1>3. Routed' BY DEF Inv, Routed, Homed
<1>4. Placed' BY <1>1 DEF Inv, Placed
<1>5. Ordered' BY <1>1 DEF Inv, Ordered, Begun, Past
<1>6. Turns' BY <1>1 DEF Inv, Turns
<1>7. Linked' BY <1>1 DEF Inv, Linked
<1>. QED BY <1>2, <1>3, <1>4, <1>5, <1>6, <1>7 DEF Inv

LEMMA CallStep ==
  ASSUME Inv, NEW h \in Hooks, fate[h] = "atBus", First(h), Server!SendCall(h, Service),
         Becomes(h, "atServer"), UNCHANGED <<clientVars, bus>>
  PROVE  Inv'
<1> DEFINE c == conn[Service]
<1>1. /\ inbox' \in Queues /\ call[h] = "new" /\ owner[Service] = c /\ c \in Conns
      /\ call' = [call EXCEPT ![h] = "sent"]
      /\ UNCHANGED <<services, conn, at, target, fresh, owner, holder>>
  BY Delivered DEF Inv
<1>2. PICK n \in Nat :
        /\ \A f \in Hooks, k \in Conns, i \in Nat :
             At(inbox', f, k, i) <=> At(inbox, f, k, i) \/ (f = h /\ k = c /\ i = n)
        /\ \A f \in Hooks, i \in Nat : At(inbox, f, c, i) => i < n
  BY Delivered DEF Inv
<1>3. /\ \A g \in Hooks : fate'[g] = IF g = h THEN "atServer" ELSE fate[g]
      /\ \A g \in Hooks : call'[g] = IF g = h THEN "sent" ELSE call[g]
      /\ fate' \in [Hooks -> Fates]
      /\ call' \in [Hooks -> {"new", "sent", "answered", "lost"}]
  BY <1>1 DEF Becomes, Inv, Typed, Fates
<1>4. UNCHANGED <<hook, pc, shown, link, bus>> BY DEF clientVars
<1> HIDE DEF c
<1>5. Typed' BY <1>1, <1>3, <1>4 DEF Inv, Typed
<1>6. Homed'
  <2>1. \A f \in Hooks, k \in Conns, i \in Nat : At(inbox, f, k, i) => k = c
    BY DEF Inv, Routed, Homed, c
  <2>2. c' = c BY <1>1 DEF c
  <2>. QED BY <1>2, <2>1, <2>2 DEF Homed, c
<1>7. Routed' BY <1>1, <1>6 DEF Inv, Routed
<1>8. holder[h] = None BY DEF Inv, Placed
<1>9. \A g \in Hooks, k \in Conns, i \in Nat : At(inbox, g, k, i) => g < h
  BY DEF Inv, Placed, Ordered, Past
<1>10. Placed'
  <2>1. ASSUME NEW f \in Hooks, NEW k \in Conns, NEW i \in Nat, At(inbox', f, k, i)
        PROVE  fate'[f] = "atServer" /\ holder'[f] = None /\ call'[f] # "answered"
    <3>1. CASE f = h BY <3>1, <1>1, <1>3, <1>8
    <3>2. CASE f # h
      <4>1. At(inbox, f, k, i) BY <2>1, <3>2, <1>2
      <4>. QED BY <4>1, <3>2, <1>1, <1>3 DEF Inv, Placed
    <3>. QED BY <3>1, <3>2
  <2>2. ASSUME NEW f \in Hooks, NEW g \in Hooks, NEW k \in Conns, NEW i \in Nat, NEW j \in Nat,
               At(inbox', f, k, i), At(inbox', g, k, j), i < j
        PROVE  f < g
    <3>1. CASE At(inbox, f, k, i) /\ At(inbox, g, k, j) BY <2>2, <3>1 DEF Inv, Placed
    <3>2. CASE At(inbox, f, k, i) /\ ~At(inbox, g, k, j)
      <4>1. g = h BY <2>2, <3>2, <1>2
      <4>. QED BY <3>2, <4>1, <1>9
    <3>3. CASE ~At(inbox, f, k, i)
      <4>1. k = c /\ i = n BY <2>2, <3>3, <1>2
      <4>2. ~At(inbox, g, k, j) BY <4>1, <2>2, <1>2
      <4>3. j = n BY <4>2, <2>2, <1>2
      <4>. QED BY <4>1, <4>3, <2>2
    <3>. QED BY <3>1, <3>2, <3>3
  <2>3. \A f \in Hooks : holder'[f] # None => fate'[f] = "atServer" /\ call'[f] # "answered"
    BY <1>1, <1>3, <1>8 DEF Inv, Placed
  <2>. QED BY <2>1, <2>2, <2>3 DEF Placed
<1>11. Ordered'
  <2>1. \A f \in Hooks : Begun(f)' => Begun(f) /\ f # h
    BY <1>1, <1>3, <1>8 DEF Begun
  <2>2. \A f \in Hooks : Begun(f) => Past(f) BY DEF Begun, Past, Inv, Placed
  <2>3. ASSUME NEW f \in Hooks, NEW g \in Hooks, fate'[g] = "atBus", Past(f)' PROVE f < g
    <3>1. g # h /\ fate[g] = "atBus" BY <2>3, <1>3
    <3>2. CASE f = h BY <3>1, <3>2 DEF First
    <3>3. CASE f # h
      <4>1. Past(f) BY <2>3, <3>3, <1>3 DEF Past
      <4>. QED BY <3>1, <4>1 DEF Inv, Ordered
    <3>. QED BY <3>2, <3>3
  <2>4. ASSUME NEW f \in Hooks, NEW g \in Hooks, NEW k \in Conns, NEW i \in Nat,
               At(inbox', g, k, i), Begun(f)'
        PROVE  f < g
    <3>1. Begun(f) /\ Past(f) /\ f # h BY <2>1, <2>2, <2>4
    <3>2. CASE g = h BY <3>1, <3>2 DEF Inv, Ordered
    <3>3. CASE g # h
      <4>1. At(inbox, g, k, i) BY <2>4, <3>3, <1>2
      <4>. QED BY <3>1, <4>1 DEF Inv, Ordered
    <3>. QED BY <3>2, <3>3
  <2>. QED BY <2>3, <2>4 DEF Ordered
<1>12. Turns' BY <1>3, <1>4 DEF Inv, Turns
<1>13. Linked' BY <1>3, <1>4 DEF Inv, Linked
<1>. QED BY <1>5, <1>7, <1>10, <1>11, <1>12, <1>13 DEF Inv

\* The daemon takes the call that waits longest.
Foremost == Head(inbox[conn[Service]])

LEMMA DispatchTakesFirst ==
  ASSUME Inv, Server!Dispatching(Service), Foremost \in Hooks
  PROVE  /\ Thinned /\ inbox' \in Queues
         /\ At(inbox, Foremost, conn[Service], 1) /\ conn[Service] \in Conns
         /\ \A h \in Hooks, k \in Conns, i \in Nat : At(inbox', h, k, i) => Foremost < h
         /\ \A h \in Hooks \ {Foremost}, k \in Conns, i \in Nat :
              At(inbox, h, k, i) => \E j \in Nat : At(inbox', h, k, j)
<1> DEFINE c == conn[Service]
<1>1. c \in Conns /\ inbox[c] # << >> /\ inbox' = [inbox EXCEPT ![c] = Tail(@)]
  BY DEF Server!Dispatching, Inv, Typed
<1>2. PICK k \in Conns : k = c BY <1>1
<1>3. Typed BY DEF Inv
<1>4. /\ Thinned /\ inbox' \in Queues
      /\ At(inbox, Head(inbox[k]), k, 1)
      /\ \A h \in Hooks, i \in Nat : At(inbox', h, k, i) <=> i # 0 /\ At(inbox, h, k, i + 1)
      /\ \A h \in Hooks, b \in Conns \ {k}, i \in Nat :
           At(inbox', h, b, i) <=> At(inbox, h, b, i)
  <2>1. inbox[k] # << >> /\ inbox' = [inbox EXCEPT ![k] = Tail(@)] BY <1>1, <1>2
  <2>. QED BY <1>3, <2>1, TailThins
<1>5. PICK x \in Hooks : x = Foremost OBVIOUS
<1>6. At(inbox, x, k, 1) BY <1>2, <1>4, <1>5 DEF Foremost
<1>7. \A h \in Hooks, b \in Conns, i \in Nat : At(inbox, h, b, i) => b = k
  BY <1>2 DEF Inv, Routed, Homed
<1>8. ASSUME NEW h \in Hooks, NEW b \in Conns, NEW i \in Nat, At(inbox', h, b, i)
      PROVE  x < h
  <2>1. CASE b = k
    <3>1. i # 0 /\ At(inbox, h, k, i + 1) BY <1>8, <1>4, <2>1
    <3>2. 1 < i + 1 BY <3>1
    <3>. QED BY <3>1, <3>2, <1>6 DEF Inv, Placed
  <2>2. CASE b # k BY <1>8, <1>4, <1>7, <2>2
  <2>. QED BY <2>1, <2>2
<1>9. ASSUME NEW h \in Hooks \ {x}, NEW b \in Conns, NEW i \in Nat, At(inbox, h, b, i)
      PROVE  \E j \in Nat : At(inbox', h, b, j)
  <2>1. b = k BY <1>7, <1>9
  <2>2. i \in 1 .. Len(inbox[k]) /\ inbox[k][i] = h BY <1>9, <2>1 DEF At
  <2>3. inbox[k][1] = x BY <1>6 DEF At
  <2>4. i # 1 /\ i - 1 \in Nat /\ i - 1 # 0 BY <2>2, <2>3
  <2>5. At(inbox, h, k, (i - 1) + 1) BY <1>9, <2>1, <2>4
  <2>6. At(inbox', h, k, i - 1) BY <1>4, <2>4, <2>5
  <2>. QED BY <2>1, <2>4, <2>6
<1>. QED BY <1>1, <1>2, <1>4, <1>5, <1>6, <1>8, <1>9 DEF Foremost

LEMMA RefuseStep ==
  ASSUME Inv, RefuseCall
  PROVE  Inv' /\ Foremost \in Hooks /\ fate' = [fate EXCEPT ![Foremost] = "error"]
         /\ UNCHANGED <<holder, bus>>
<1>1. /\ Server!Dispatching(Service) /\ Foremost \in Hooks
      /\ Server!SendReply(Foremost, conn[Service])
      /\ fate' = [fate EXCEPT ![Foremost] = "error"]
      /\ UNCHANGED <<hook, pc, shown, link, bus, holder, services, conn, at, target, fresh, owner>>
  BY DEF RefuseCall, Server!DispatchAnswer, Foremost, Becomes, clientVars, Server!ctxVars,
         Server!pcVars, Server!busVars
<1>2. /\ Thinned /\ inbox' \in Queues
      /\ At(inbox, Foremost, conn[Service], 1) /\ conn[Service] \in Conns
      /\ \A h \in Hooks, k \in Conns, i \in Nat : At(inbox', h, k, i) => Foremost < h
  BY <1>1, DispatchTakesFirst
<1>3. PICK x \in Hooks : x = Foremost BY <1>1
<1>4. /\ fate' \in [Hooks -> Fates]
      /\ \A h \in Hooks : fate'[h] = IF h = x THEN "error" ELSE fate[h]
      /\ call' \in [Hooks -> {"new", "sent", "answered", "lost"}]
      /\ \A h \in Hooks : h # x => call'[h] = call[h]
      /\ call'[x] = "sent" => call[x] = "sent"
  BY <1>1, <1>3 DEF Inv, Typed, Fates, Server!SendReply
<1>5. fate[x] = "atServer" /\ holder[x] = None BY <1>2, <1>3 DEF Inv, Placed
<1>6. PICK d \in [Conns -> {0, 1}] :
        \A h \in Hooks, k \in Conns, i \in Nat : At(inbox', h, k, i) => At(inbox, h, k, i + d[k])
  BY <1>2 DEF Thinned
<1>7. \A k \in Conns, i \in Nat : i + d[k] \in Nat OBVIOUS
<1>8. Typed' BY <1>1, <1>2, <1>4 DEF Inv, Typed
<1>9. Routed'
  <2>1. Homed' BY <1>1, <1>2, HomedKept DEF Inv, Routed
  <2>. QED BY <1>1, <2>1 DEF Inv, Routed
<1>10. Placed'
  <2>1. ASSUME NEW h \in Hooks, NEW k \in Conns, NEW i \in Nat, At(inbox', h, k, i)
        PROVE  fate'[h] = "atServer" /\ holder'[h] = None /\ call'[h] # "answered"
    <3>1. h # x BY <2>1, <1>2, <1>3
    <3>2. At(inbox, h, k, i + d[k]) /\ i + d[k] \in Nat BY <2>1, <1>6, <1>7
    <3>. QED BY <3>1, <3>2, <1>1, <1>4 DEF Inv, Placed
  <2>2. ASSUME NEW g \in Hooks, NEW h \in Hooks, NEW k \in Conns, NEW i \in Nat, NEW j \in Nat,
               At(inbox', g, k, i), At(inbox', h, k, j), i < j
        PROVE  g < h
    <3>1. At(inbox, g, k, i + d[k]) /\ At(inbox, h, k, j + d[k]) BY <2>2, <1>6
    <3>2. i + d[k] \in Nat /\ j + d[k] \in Nat /\ i + d[k] < j + d[k] BY <2>2, <1>7
    <3>. QED BY <3>1, <3>2 DEF Inv, Placed
  <2>3. \A h \in Hooks : holder'[h] # None => fate'[h] = "atServer" /\ call'[h] # "answered"
    BY <1>1, <1>4, <1>5 DEF Inv, Placed
  <2>. QED BY <2>1, <2>2, <2>3 DEF Placed
<1>11. Ordered'
  <2>1. \A h \in Hooks : (Begun(h)' => Begun(h)) /\ (Past(h)' => Past(h))
    BY <1>1, <1>4 DEF Begun, Past
  <2>2. \A h \in Hooks : fate'[h] = "atBus" => fate[h] = "atBus" BY <1>4
  <2>3. \A g, h \in Hooks, k \in Conns, i \in Nat : At(inbox', g, k, i) /\ Begun(h)' => h < g
    BY <2>1, <1>6, <1>7 DEF Inv, Ordered
  <2>. QED BY <2>1, <2>2, <2>3 DEF Inv, Ordered
<1>12. Turns' BY <1>1, <1>4, <1>5 DEF Inv, Turns
<1>13. Linked' BY <1>1, <1>4, <1>5 DEF Inv, Linked
<1>. QED BY <1>1, <1>8, <1>9, <1>10, <1>11, <1>12, <1>13 DEF Inv

LEMMA StartStep ==
  ASSUME Inv, StartHelper
  PROVE  Inv' /\ Foremost \in Hooks /\ holder' = [holder EXCEPT ![Foremost] = conn[Service]]
         /\ UNCHANGED <<fate, bus>>
<1>1. /\ Server!Dispatching(Service) /\ Foremost \in Hooks
      /\ holder' = [holder EXCEPT ![Foremost] = conn[Service]]
      /\ UNCHANGED <<hook, pc, shown, link, bus, fate, call, services, conn, at, target, fresh, owner>>
  BY DEF StartHelper, Server!DispatchKeep, Foremost, clientVars, Server!ctxVars,
         Server!pcVars, Server!busVars
<1>2. /\ Thinned /\ inbox' \in Queues
      /\ At(inbox, Foremost, conn[Service], 1) /\ conn[Service] \in Conns
      /\ \A h \in Hooks, k \in Conns, i \in Nat : At(inbox', h, k, i) => Foremost < h
  BY <1>1, DispatchTakesFirst
<1>3. PICK x \in Hooks : x = Foremost BY <1>1
<1>4. /\ holder' \in [Hooks -> Conns \cup {None}]
      /\ \A h \in Hooks : holder'[h] = IF h = x THEN conn[Service] ELSE holder[h]
  BY <1>1, <1>2, <1>3 DEF Inv, Typed
<1>5. fate[x] = "atServer" /\ call[x] # "answered" BY <1>2, <1>3 DEF Inv, Placed
<1>6. PICK d \in [Conns -> {0, 1}] :
        \A h \in Hooks, k \in Conns, i \in Nat : At(inbox', h, k, i) => At(inbox, h, k, i + d[k])
  BY <1>2 DEF Thinned
<1>7. \A k \in Conns, i \in Nat : i + d[k] \in Nat OBVIOUS
<1>8. Typed' BY <1>1, <1>2, <1>4 DEF Inv, Typed
<1>9. Routed'
  <2>1. Homed' BY <1>1, <1>2, HomedKept DEF Inv, Routed
  <2>. QED BY <1>1, <2>1 DEF Inv, Routed
<1>10. Placed'
  <2>1. ASSUME NEW h \in Hooks, NEW k \in Conns, NEW i \in Nat, At(inbox', h, k, i)
        PROVE  fate'[h] = "atServer" /\ holder'[h] = None /\ call'[h] # "answered"
    <3>1. h # x BY <2>1, <1>2, <1>3
    <3>2. At(inbox, h, k, i + d[k]) /\ i + d[k] \in Nat BY <2>1, <1>6, <1>7
    <3>. QED BY <3>1, <3>2, <1>1, <1>4 DEF Inv, Placed
  <2>2. ASSUME NEW g \in Hooks, NEW h \in Hooks, NEW k \in Conns, NEW i \in Nat, NEW j \in Nat,
               At(inbox', g, k, i), At(inbox', h, k, j), i < j
        PROVE  g < h
    <3>1. At(inbox, g, k, i + d[k]) /\ At(inbox, h, k, j + d[k]) BY <2>2, <1>6
    <3>2. i + d[k] \in Nat /\ j + d[k] \in Nat /\ i + d[k] < j + d[k] BY <2>2, <1>7
    <3>. QED BY <3>1, <3>2 DEF Inv, Placed
  <2>3. \A h \in Hooks : holder'[h] # None => fate'[h] = "atServer" /\ call'[h] # "answered"
    BY <1>1, <1>4, <1>5 DEF Inv, Placed
  <2>. QED BY <2>1, <2>2, <2>3 DEF Placed
<1>11. Ordered'
  <2>1. \A h \in Hooks : (Begun(h)' => Begun(h) \/ h = x) /\ (Past(h)' => Past(h))
    BY <1>1, <1>4 DEF Begun, Past
  <2>2. ASSUME NEW g \in Hooks, NEW h \in Hooks, NEW k \in Conns, NEW i \in Nat,
               At(inbox', g, k, i), Begun(h)'
        PROVE  h < g
    <3>1. CASE h = x BY <3>1, <2>2, <1>2, <1>3
    <3>2. CASE h # x BY <3>2, <2>2, <2>1, <1>6, <1>7 DEF Inv, Ordered
    <3>. QED BY <3>1, <3>2
  <2>. QED BY <1>1, <2>1, <2>2 DEF Inv, Ordered
<1>12. Turns' BY <1>1 DEF Inv, Turns
<1>13. Linked' BY <1>1 DEF Inv, Linked
<1>. QED BY <1>1, <1>8, <1>9, <1>10, <1>11, <1>12, <1>13 DEF Inv

\* An answer that came through was given over the connection there is.
LEMMA FinishStep ==
  ASSUME Inv, NEW h \in Hooks, FinishHelper(h)
  PROVE  /\ Inv' /\ holder[h] # None /\ fate[h] = "atServer"
         /\ holder' = [holder EXCEPT ![h] = None]
         /\ \/ fate' = [fate EXCEPT ![h] = "done"] /\ link = "alive"
            \/ fate' = [fate EXCEPT ![h] = "unheard"]
         /\ UNCHANGED <<inbox, bus, link, shown>>
<1>1. /\ holder[h] # None /\ holder' = [holder EXCEPT ![h] = None]
      /\ Server!SendReply(h, holder[h])
      /\ fate' = [fate EXCEPT ![h] = IF call'[h] = "answered" THEN "done" ELSE "unheard"]
      /\ UNCHANGED <<hook, pc, shown, link, bus, inbox, services, conn, at, target, fresh, owner>>
  BY DEF FinishHelper, Server!Reply, Becomes, clientVars, Server!ctxVars, Server!pcVars,
         Server!busVars
<1>2. fate[h] = "atServer" /\ call[h] # "answered" BY <1>1 DEF Inv, Placed
<1>3. /\ call' \in [Hooks -> {"new", "sent", "answered", "lost"}]
      /\ \A g \in Hooks : g # h => call'[g] = call[g]
      /\ call'[h] \in {call[h], "answered"}
      /\ call'[h] = "answered" => call[h] = "sent"
  BY <1>1, <1>2 DEF Inv, Typed, Server!SendReply
<1>4. call'[h] = "answered" => link = "alive" BY <1>3 DEF Inv, Linked
<1>5. /\ fate' \in [Hooks -> Fates]
      /\ \A g \in Hooks : g # h => fate'[g] = fate[g]
      /\ fate'[h] \in {"done", "unheard"}
      /\ holder' \in [Hooks -> Conns \cup {None}]
      /\ \A g \in Hooks : holder'[g] = IF g = h THEN None ELSE holder[g]
  BY <1>1 DEF Inv, Typed, Fates
<1>6. Typed' BY <1>1, <1>3, <1>5 DEF Inv, Typed
<1>7. Routed' BY <1>1 DEF Inv, Routed, Homed
<1>8. \A k \in Conns, i \in Nat : ~At(inbox, h, k, i) BY <1>1 DEF Inv, Placed
<1>9. Placed' BY <1>1, <1>3, <1>5, <1>8 DEF Inv, Placed
<1>10. Ordered'
  <2>1. \A g \in Hooks : (Begun(g)' => Begun(g)) /\ (Past(g)' => Past(g))
    BY <1>1, <1>2, <1>5 DEF Begun, Past
  <2>2. \A g \in Hooks : fate'[g] = "atBus" => fate[g] = "atBus" BY <1>5
  <2>. QED BY <1>1, <2>1, <2>2 DEF Inv, Ordered
<1>11. Turns' BY <1>1, <1>2, <1>5 DEF Inv, Turns
<1>12. Linked' BY <1>1, <1>2, <1>3, <1>5 DEF Inv, Linked
<1>13. Inv' BY <1>6, <1>7, <1>9, <1>10, <1>11, <1>12 DEF Inv
<1>14. CASE call'[h] = "answered" BY <1>1, <1>2, <1>4, <1>13, <1>14
<1>15. CASE call'[h] # "answered" BY <1>1, <1>2, <1>13, <1>15
<1>. QED BY <1>14, <1>15

LEMMA BusDownStep ==
  ASSUME Inv, BusDown
  PROVE  Inv' /\ UNCHANGED <<inbox, holder, shown>>
<1>1. /\ bus' = "down" /\ owner' = [s \in {Service} |-> None]
      /\ call' = [x \in Hooks |-> IF call[x] = "sent" THEN "lost" ELSE call[x]]
      /\ fate' = [h \in Hooks |-> IF fate[h] = "atBus" THEN "error" ELSE fate[h]]
      /\ link' \in {None, "dead"}
      /\ UNCHANGED <<hook, pc, shown, inbox, holder, services, conn, at, target, fresh>>
  BY DEF BusDown, Server!BusDown, Server!ctxVars, Server!pcVars
<1>2. Typed' BY <1>1 DEF Inv, Typed, Fates
<1>3. Routed' BY <1>1 DEF Inv, Routed, Homed
<1>4. Placed' BY <1>1 DEF Inv, Placed
<1>5. Ordered'
  <2>1. \A g \in Hooks : Begun(g)' <=> Begun(g) BY <1>1 DEF Begun
  <2>2. \A g \in Hooks : fate'[g] # "atBus" BY <1>1
  <2>. QED BY <1>1, <2>1, <2>2 DEF Inv, Ordered
<1>6. Turns' BY <1>1 DEF Inv, Turns
<1>7. Linked' BY <1>1, LoginAssumption DEF Inv, Linked
<1>. QED BY <1>1, <1>2, <1>3, <1>4, <1>5, <1>6, <1>7 DEF Inv

LEMMA BusUpStep ==
  ASSUME Inv, BusUp
  PROVE  Inv' /\ UNCHANGED <<inbox, holder, shown, fate>>
<1>1. /\ bus' = "up"
      /\ UNCHANGED <<hook, pc, shown, link, fate, inbox, call, holder, services, conn, at, target,
                     fresh, owner>>
  BY DEF BusUp, Server!BusUp, clientVars, Server!ctxVars, Server!pcVars, Server!connVars,
         Server!callVars
<1>. QED BY <1>1 DEF Inv, Typed, Routed, Homed, Placed, Ordered, Begun, Past, Turns, Linked

LEMMA DeliverStep ==
  ASSUME Inv, NEW h \in Hooks, Deliver(h)
  PROVE  Inv'
<1>1. fate[h] = "atBus" /\ First(h) /\ UNCHANGED <<clientVars, bus>> BY DEF Deliver
<1>2. CASE Becomes(h, "error") /\ UNCHANGED serverVars BY <1>1, <1>2, ReturnStep
<1>3. CASE Server!SendCall(h, Service) /\ Becomes(h, "atServer") BY <1>1, <1>3, CallStep
<1>. QED BY <1>2, <1>3 DEF Deliver

LEMMA StutterStep ==
  ASSUME Inv, UNCHANGED vars
  PROVE  Inv'
BY DEF Inv, Typed, Routed, Homed, Placed, Ordered, Begun, Past, Turns, Linked, vars,
       clientVars, serverVars

LEMMA NextStep ==
  ASSUME Inv, [Next]_vars
  PROVE  Inv'
<1>1. CASE ClientAlone BY <1>1, ClientStep
<1>2. CASE ServerAlone BY <1>2, ServerStep
<1>3. CASE Send BY <1>3, SendStep
<1>4. CASE StartHelper BY <1>4, StartStep
<1>5. CASE RefuseCall BY <1>5, RefuseStep
<1>6. CASE Receive BY <1>6, ReceiveStep
<1>7. CASE BusDown BY <1>7, BusDownStep
<1>8. CASE BusUp BY <1>8, BusUpStep
<1>9. ASSUME NEW h \in Hooks, Deliver(h) PROVE Inv' BY <1>9, DeliverStep
<1>10. ASSUME NEW h \in Hooks, FinishHelper(h) PROVE Inv' BY <1>10, FinishStep
<1>11. CASE UNCHANGED vars BY <1>11, StutterStep
<1>. QED BY <1>1, <1>2, <1>3, <1>4, <1>5, <1>6, <1>7, <1>8, <1>9, <1>10, <1>11 DEF Next

\* The invariant holds, for any number of hooks and of connections.
THEOREM Invariance == Spec => []Inv
<1>1. Inv /\ [Next]_vars => Inv' BY NextStep
<1>. QED BY InitInv, <1>1, PTL DEF Spec

(***************************************************************************)
(* What the state of a request is, read off the server's side.             *)
(***************************************************************************)
LEMMA RequestIs ==
  ASSUME NEW h \in Hooks
  PROVE  /\ fate[h] = "atBus" => Request(h) = "sent"
         /\ fate[h] = "atServer" =>
              Request(h) = IF AtHelper(h) THEN "running"
                           ELSE IF Queued(h) THEN "sent" ELSE "refused"
         /\ fate[h] = "error" => Request(h) = "refused"
         /\ fate[h] \in {"none", "done", "unheard"} => Request(h) = fate[h]
BY DEF Request

LEMMA RequestBecomes ==
  ASSUME NEW h \in Hooks
  PROVE  /\ fate'[h] = "atBus" => Request(h)' = "sent"
         /\ fate'[h] = "atServer" =>
              Request(h)' = IF AtHelper(h)' THEN "running"
                            ELSE IF Queued(h)' THEN "sent" ELSE "refused"
         /\ fate'[h] = "error" => Request(h)' = "refused"
         /\ fate'[h] \in {"none", "done", "unheard"} => Request(h)' = fate'[h]
BY DEF Request

LEMMA QueuedAt ==
  ASSUME NEW h \in Hooks
  PROVE  /\ Queued(h) <=> \E k \in Conns, i \in Nat : At(inbox, h, k, i)
         /\ Queued(h)' <=> \E k \in Conns, i \in Nat : At(inbox', h, k, i)
BY DEF Queued, At

LEMMA RequestSame ==
  ASSUME Typed, NEW h \in Hooks, fate'[h] = fate[h], holder'[h] = holder[h],
         Queued(h)' <=> Queued(h)
  PROVE  Request(h)' = Request(h)
<1>1. AtHelper(h)' <=> AtHelper(h) BY DEF AtHelper
<1>2. fate[h] \in Fates BY DEF Typed
<1>. QED BY <1>1, <1>2, RequestIs, RequestBecomes DEF Fates

(***************************************************************************)
(* The theorems.                                                           *)
(***************************************************************************)
\* The updates of a login start in the order of its hooks, through however
\* many connections the daemon takes their requests.
THEOREM StartedInOrderInvariant == Spec => []StartedInOrder
<1>1. ASSUME Inv PROVE StartedInOrder
  <2> SUFFICES ASSUME NEW g \in Hooks, NEW h \in Hooks, g < h, Started(h), Request(g) = "sent"
               PROVE  FALSE
    BY DEF StartedInOrder
  <2>1. fate[g] \in Fates /\ fate[h] \in Fates BY <1>1 DEF Inv, Typed
  <2>2. \/ fate[g] = "atBus"
        \/ \E k \in Conns, i \in Nat : At(inbox, g, k, i)
    BY <2>1, RequestIs, QueuedAt DEF Fates
  <2>3. Begun(h) /\ Past(h)
    BY <2>1, RequestIs DEF Fates, Started, AtHelper, Begun, Past
  <2>4. h < g BY <1>1, <2>2, <2>3 DEF Inv, Ordered
  <2>5. g \in Nat /\ h \in Nat BY LoginAssumption
  <2>. QED BY <2>4, <2>5
<1>. QED BY Invariance, <1>1, PTL

\* A hook that lost its connection while it waited is told of no success by
\* any later step, of whichever of the two sides.
THEOREM CutOffTheorem == Spec => CutOffForGood
<1>1. ASSUME Inv, [Next]_vars, NEW h \in Hooks, CutOff(h)
      PROVE  shown'[h] # "reply" /\ fate'[h] # "done"
  <2>1. h = hook /\ pc = "wait" /\ link = "dead" /\ fate[h] # "done" /\ shown[h] # "reply"
    BY <1>1 DEF CutOff, Inv, Linked
  <2>2. \A g \in Hooks : fate[g] # "atBus" BY <2>1, <1>1 DEF Inv, Linked
  <2>3. fate \in [Hooks -> Fates] /\ shown \in [Hooks -> {"nothing", "reply", "error"}]
    BY <1>1 DEF Inv, Typed
  <2>4. CASE ClientAlone
    <3>1. UNCHANGED fate /\ (shown'[h] = "reply" => shown[h] = "reply")
      BY <1>1, <2>4, ClientStep DEF serverVars
    <3>. QED BY <2>1, <3>1
  <2>5. CASE ServerAlone BY <2>1, <2>5 DEF ServerAlone, clientVars
  <2>6. CASE Send BY <2>1, <2>6 DEF Send
  <2>7. CASE StartHelper BY <2>1, <2>7 DEF StartHelper, clientVars
  <2>8. CASE RefuseCall
    <3>1. fate' = [fate EXCEPT ![Foremost] = "error"] /\ UNCHANGED shown
      BY <2>8, <1>1, RefuseStep DEF RefuseCall, clientVars
    <3>. QED BY <2>1, <2>3, <3>1
  <2>9. CASE Receive
    <3>1. UNCHANGED fate /\ shown' = [shown EXCEPT ![hook] = "error"]
      BY <2>1, <2>9 DEF Receive
    <3>. QED BY <2>1, <2>3, <3>1
  <2>10. CASE BusDown
    <3>1. /\ fate' = [g \in Hooks |-> IF fate[g] = "atBus" THEN "error" ELSE fate[g]]
          /\ UNCHANGED shown
      BY <2>10 DEF BusDown
    <3>. QED BY <2>1, <3>1
  <2>11. CASE BusUp BY <2>1, <2>11 DEF BusUp, clientVars
  <2>12. ASSUME NEW g \in Hooks, Deliver(g) PROVE shown'[h] # "reply" /\ fate'[h] # "done"
    BY <2>2, <2>12 DEF Deliver
  <2>13. ASSUME NEW g \in Hooks, FinishHelper(g)
         PROVE  shown'[h] # "reply" /\ fate'[h] # "done"
    <3>1. fate' = [fate EXCEPT ![g] = "unheard"] /\ UNCHANGED shown
      BY <1>1, <2>1, <2>13, FinishStep
    <3>. QED BY <2>1, <2>3, <3>1
  <2>14. CASE UNCHANGED vars BY <2>1, <2>14 DEF vars, clientVars
  <2>. QED BY <1>1, <2>4, <2>5, <2>6, <2>7, <2>8, <2>9, <2>10, <2>11, <2>12, <2>13, <2>14
           DEF Next
<1>2. Inv /\ [Next]_vars
        => [\A h \in Hooks : CutOff(h) => shown'[h] # "reply" /\ fate'[h] # "done"]_vars
  BY <1>1
<1>. QED BY Invariance, <1>2, PTL DEF Spec, CutOffForGood

(***************************************************************************)
(* The bus and the daemon are the environment of PamClient.                *)
(***************************************************************************)
\* What PamClient calls the requests.
request == [h \in Hooks |-> Request(h)]

USE DEF Client!Hooks

\* A step of the daemon that leaves every request or loses some.
LEMMA LosingRefines ==
  ASSUME Inv, ServerAlone
  PROVE  Client!Next \/ UNCHANGED Client!vars
<1>1. Thinned /\ UNCHANGED <<holder, bus, fate, clientVars>>
  BY DaemonStep DEF Inv, ServerAlone
<1>2. ASSUME NEW h \in Hooks, Queued(h)' PROVE Queued(h)
  <2>1. PICK d \in [Conns -> {0, 1}] :
          \A g \in Hooks, k \in Conns, i \in Nat : At(inbox', g, k, i) => At(inbox, g, k, i + d[k])
    BY <1>1 DEF Thinned
  <2>2. PICK k \in Conns, i \in Nat : At(inbox', h, k, i) BY <1>2, QueuedAt
  <2>3. At(inbox, h, k, i + d[k]) /\ i + d[k] \in Nat BY <2>1, <2>2
  <2>. QED BY <2>3, QueuedAt
<1> DEFINE lost == {h \in Hooks : Request(h) = "sent" /\ Request(h)' = "refused"}
<1>3. ASSUME NEW h \in Hooks PROVE Request(h)' = IF h \in lost THEN "refused" ELSE Request(h)
  <2>1. fate[h] \in Fates /\ fate'[h] = fate[h] /\ (AtHelper(h)' <=> AtHelper(h))
    BY <1>1 DEF Inv, Typed, AtHelper
  <2>. QED BY <2>1, <1>2, RequestIs, RequestBecomes DEF Fates
<1>4. request' = [h \in Hooks |-> IF h \in lost THEN "refused" ELSE request[h]]
  BY <1>3 DEF request
<1>5. lost \in SUBSET {h \in Hooks : request[h] = "sent"} BY DEF request
<1> HIDE DEF lost
<1>6. CASE lost = {}
  <2>1. request' = request BY <1>4, <1>6 DEF request
  <2>. QED BY <1>1, <2>1 DEF Client!vars, Client!given, Client!control, Client!libdbus,
                             clientVars, request
<1>7. CASE lost # {}
  <2>1. Client!Refuse
    BY <1>1, <1>4, <1>5, <1>7
    DEF Client!Refuse, Client!Refused, Client!Undelivered, Client!given, Client!control,
        Client!libdbus, clientVars, request
  <2>. QED BY <2>1 DEF Client!Next
<1>. QED BY <1>6, <1>7

\* A step that changes one request and leaves the others.
Moves(h, to) == request' = [request EXCEPT ![h] = to]

LEMMA OneMoves ==
  ASSUME Typed, NEW h \in Hooks, NEW to, Request(h)' = to,
         \A g \in Hooks \ {h} :
           fate'[g] = fate[g] /\ holder'[g] = holder[g] /\ (Queued(g)' <=> Queued(g))
  PROVE  Moves(h, to)
<1>1. \A g \in Hooks \ {h} : Request(g)' = Request(g) BY RequestSame
<1>. QED BY <1>1 DEF Moves, request

LEMMA SendRefines ==
  ASSUME Inv, Send
  PROVE  Client!Next
<1>1. fate' = [fate EXCEPT ![hook] = "atBus"] /\ hook \in Hooks
  BY DEF Inv, Turns, Send, Becomes
<1>2. UNCHANGED <<inbox, holder>> BY DEF Send, serverVars
<1>3. \A g \in Hooks : Queued(g)' <=> Queued(g) BY <1>2, QueuedAt
<1>4. Typed /\ fate'[hook] = "atBus" /\ \A g \in Hooks \ {hook} : fate'[g] = fate[g]
  BY <1>1 DEF Inv, Typed
<1>5. PICK h \in Hooks : h = hook BY <1>1
<1>6. Request(h)' = "sent" BY <1>4, <1>5, RequestBecomes
<1>7. Moves(h, "sent") BY <1>2, <1>3, <1>4, <1>5, <1>6, OneMoves
<1>8. Client!Send
  BY <1>5, <1>7 DEF Moves, request, Send, ClientGoto, Client!Send, Client!Goto,
     Client!LegalTimeout, Client!given, Client!libdbus
<1>. QED BY <1>8 DEF Client!Next, Client!Module

\* A request that is refused, for PamClient by its environment.
LEMMA RefusingRefines ==
  ASSUME NEW h \in Hooks, Request(h) = "sent", Moves(h, "refused"), UNCHANGED <<clientVars, bus>>
  PROVE  Client!Next
<1>1. {h} \in SUBSET Client!Undelivered /\ {h} # {} BY DEF Client!Undelivered, request
<1>2. Client!Refused({h}) BY DEF Client!Refused, Moves, request
<1>3. Client!Refuse
  BY <1>1, <1>2 DEF Client!Refuse, Client!given, Client!control, Client!libdbus, clientVars
<1>. QED BY <1>3 DEF Client!Next

LEMMA DeliverRefines ==
  ASSUME Inv, NEW h \in Hooks, Deliver(h)
  PROVE  Client!Next \/ UNCHANGED Client!vars
<1>1. Typed /\ fate[h] = "atBus" /\ UNCHANGED <<clientVars, bus>> /\ Request(h) = "sent"
  BY RequestIs DEF Deliver, Inv
<1>2. CASE Becomes(h, "error") /\ UNCHANGED serverVars
  <2>1. /\ \A g \in Hooks : Queued(g)' <=> Queued(g)
        /\ UNCHANGED holder
    BY <1>2, QueuedAt DEF serverVars
  <2>2. fate'[h] = "error" /\ \A g \in Hooks \ {h} : fate'[g] = fate[g]
    BY <1>1, <1>2 DEF Becomes, Typed
  <2>3. Moves(h, "refused") BY <1>1, <2>1, <2>2, OneMoves, RequestBecomes
  <2>. QED BY <1>1, <2>3, RefusingRefines
<1>3. CASE Server!SendCall(h, Service) /\ Becomes(h, "atServer")
  <2>1. Routed BY DEF Inv
  <2>2. UNCHANGED holder /\ conn[Service] \in Conns BY <1>1, <1>3, <2>1, Delivered
  <2>3. PICK n \in Nat : \A f \in Hooks, k \in Conns, i \in Nat :
          At(inbox', f, k, i) <=> At(inbox, f, k, i) \/ (f = h /\ k = conn[Service] /\ i = n)
    BY <1>1, <1>3, <2>1, Delivered
  <2>4. \A g \in Hooks \ {h} : Queued(g)' <=> Queued(g) BY <2>3, QueuedAt
  <2>5. Queued(h)' BY <2>2, <2>3, QueuedAt
  <2>6. ~AtHelper(h)' BY <1>1, <2>2 DEF AtHelper, Inv, Placed
  <2>7. fate'[h] = "atServer" /\ \A g \in Hooks \ {h} : fate'[g] = fate[g]
    BY <1>1, <1>3 DEF Becomes, Typed
  <2>8. Request(h)' = "sent" BY <2>5, <2>6, <2>7, RequestBecomes
  <2>9. Moves(h, "sent") BY <1>1, <2>2, <2>4, <2>7, <2>8, OneMoves
  <2>10. request' = request BY <1>1, <2>9 DEF Moves, request
  <2>. QED BY <1>1, <2>10 DEF Client!vars, Client!given, Client!control, Client!libdbus,
                              clientVars, request
<1>. QED BY <1>2, <1>3 DEF Deliver

\* The call that waits longest is waiting, and nobody else leaves.
LEMMA ForemostLeaves ==
  ASSUME Inv, Server!Dispatching(Service), Foremost \in Hooks
  PROVE  /\ Queued(Foremost) /\ Request(Foremost) = "sent"
         /\ \A g \in Hooks \ {Foremost} : Queued(g)' <=> Queued(g)
<1>1. PICK x \in Hooks : x = Foremost OBVIOUS
<1>2. /\ Thinned
      /\ At(inbox, x, conn[Service], 1) /\ conn[Service] \in Conns
      /\ \A h \in Hooks, k \in Conns, i \in Nat : At(inbox', h, k, i) => x < h
      /\ \A h \in Hooks \ {x}, k \in Conns, i \in Nat :
              At(inbox, h, k, i) => \E j \in Nat : At(inbox', h, k, j)
  BY <1>1, DispatchTakesFirst
<1>3. PICK d \in [Conns -> {0, 1}] :
        \A h \in Hooks, k \in Conns, i \in Nat : At(inbox', h, k, i) => At(inbox, h, k, i + d[k])
  BY <1>2 DEF Thinned
<1>4. \A k \in Conns, i \in Nat : i + d[k] \in Nat OBVIOUS
<1>5. Queued(x) BY <1>2, QueuedAt
<1>7. fate[x] = "atServer" /\ holder[x] = None BY <1>2 DEF Inv, Placed
<1>8. Request(x) = "sent" BY <1>5, <1>7, RequestIs DEF AtHelper
<1>9. ASSUME NEW g \in Hooks \ {x} PROVE Queued(g)' <=> Queued(g)
  <2>1. ASSUME Queued(g) PROVE Queued(g)'
    <3>1. PICK k \in Conns, i \in Nat : At(inbox, g, k, i) BY <2>1, QueuedAt
    <3>. QED BY <3>1, <1>2, QueuedAt
  <2>2. ASSUME Queued(g)' PROVE Queued(g)
    <3>1. PICK k \in Conns, i \in Nat : At(inbox', g, k, i) BY <2>2, QueuedAt
    <3>. QED BY <3>1, <1>3, <1>4, QueuedAt
  <2>. QED BY <2>1, <2>2
<1>. QED BY <1>1, <1>5, <1>8, <1>9

LEMMA RefuseRefines ==
  ASSUME Inv, RefuseCall
  PROVE  Client!Next
<1>1. PICK x \in Hooks : x = Foremost BY RefuseStep
<1>2. /\ fate' = [fate EXCEPT ![x] = "error"] /\ UNCHANGED <<holder, bus, clientVars>>
      /\ Server!Dispatching(Service)
  BY <1>1, RefuseStep DEF RefuseCall, Server!DispatchAnswer
<1>3. Request(x) = "sent" /\ \A g \in Hooks \ {x} : Queued(g)' <=> Queued(g)
  BY <1>1, <1>2, ForemostLeaves
<1>4. Typed /\ fate'[x] = "error" /\ \A g \in Hooks \ {x} : fate'[g] = fate[g]
  BY <1>2 DEF Inv, Typed
<1>5. Moves(x, "refused") BY <1>2, <1>3, <1>4, OneMoves, RequestBecomes
<1>. QED BY <1>2, <1>3, <1>5, RefusingRefines

LEMMA StartRefines ==
  ASSUME Inv, StartHelper
  PROVE  Client!Next
<1>1. PICK x \in Hooks : x = Foremost BY StartStep
<1>2. /\ holder' = [holder EXCEPT ![x] = conn[Service]] /\ UNCHANGED <<fate, bus, clientVars>>
      /\ Server!Dispatching(Service)
  BY <1>1, StartStep DEF StartHelper, Server!DispatchKeep
<1>3. Request(x) = "sent" /\ \A g \in Hooks \ {x} : Queued(g)' <=> Queued(g)
  BY <1>1, <1>2, ForemostLeaves
<1>4. conn[Service] \in Conns /\ fate[x] = "atServer"
  BY <1>1, <1>2, DispatchTakesFirst DEF Inv, Placed
<1>5. AtHelper(x)' /\ \A g \in Hooks \ {x} : holder'[g] = holder[g]
  BY <1>2, <1>4, LoginAssumption DEF Inv, Typed, AtHelper
<1>6. Request(x)' = "running" BY <1>2, <1>4, <1>5, RequestBecomes
<1>7. Moves(x, "running") BY <1>2, <1>3, <1>5, <1>6, OneMoves DEF Inv
<1>8. Client!StartHelper(x)
  BY <1>2, <1>3, <1>7 DEF Client!StartHelper, Client!Becomes, Moves, request, Client!given,
     Client!control, Client!libdbus, clientVars
<1>. QED BY <1>8 DEF Client!Next

LEMMA FinishRefines ==
  ASSUME Inv, NEW h \in Hooks, FinishHelper(h)
  PROVE  Client!Next
<1>1. /\ holder[h] # None /\ fate[h] = "atServer" /\ holder' = [holder EXCEPT ![h] = None]
      /\ \/ fate' = [fate EXCEPT ![h] = "done"] /\ link = "alive"
         \/ fate' = [fate EXCEPT ![h] = "unheard"]
      /\ UNCHANGED <<inbox, bus, clientVars>>
  BY FinishStep DEF FinishHelper
<1>2. Request(h) = "running" BY <1>1, RequestIs DEF AtHelper
<1>3. /\ \A g \in Hooks : Queued(g)' <=> Queued(g)
      /\ \A g \in Hooks \ {h} : fate'[g] = fate[g] /\ holder'[g] = holder[g]
  BY <1>1, QueuedAt DEF Inv, Typed
<1>4. \/ link = "alive" /\ Request(h)' = "done"
      \/ Request(h)' = "unheard"
  <2>1. \/ link = "alive" /\ fate'[h] = "done"
        \/ fate'[h] = "unheard"
    BY <1>1 DEF Inv, Typed
  <2>. QED BY <2>1, RequestBecomes
<1>5. \/ link = "alive" /\ Moves(h, "done")
      \/ Moves(h, "unheard")
  BY <1>3, <1>4, OneMoves DEF Inv
<1>6. Client!FinishHelper(h)
  BY <1>1, <1>2, <1>5 DEF Client!FinishHelper, Client!Becomes, Moves, request, Client!given,
     Client!control, Client!libdbus, clientVars
<1>. QED BY <1>6 DEF Client!Next

\* Every answer to a waiting hook is one that PamClient knows; for the call
\* lost at the daemon it is that of giving up.
LEMMA ReceiveRefines ==
  ASSUME Inv, Receive
  PROVE  Client!Next
<1>1. hook \in Hooks /\ pc = "wait" BY DEF Inv, Turns, Receive
<1>2. UNCHANGED <<fate, inbox, holder>> BY DEF Receive, serverVars
<1>3. \A g \in Hooks : Request(g)' = Request(g)
  BY <1>2, RequestSame, QueuedAt DEF Inv
<1>4. request' = request BY <1>3 DEF request
<1>5. fate[hook] = "done" => request[hook] = "done"
  BY <1>1, RequestIs DEF request
<1> USE DEF ClientGoto, Client!Goto, Client!Show, Client!given, Client!libdbus, request
<1>6. CASE shown' = [shown EXCEPT ![hook] = "reply"] /\ fate[hook] = "done"
  <2>1. Client!Receive BY <1>1, <1>4, <1>5, <1>6 DEF Receive, Client!Receive
  <2>. QED BY <2>1 DEF Client!Next, Client!Module
<1>7. CASE shown' = [shown EXCEPT ![hook] = "error"]
  <2>1. Client!GiveUp BY <1>1, <1>4, <1>7 DEF Receive, Client!GiveUp
  <2>. QED BY <2>1 DEF Client!Next, Client!Module
<1>. QED BY <1>6, <1>7 DEF Receive

\* What the bus had not passed on is lost with it, nothing else.
LEMMA BusDownRefines ==
  ASSUME Inv, BusDown
  PROVE  Client!Next
<1>1. /\ fate' = [g \in Hooks |-> IF fate[g] = "atBus" THEN "error" ELSE fate[g]]
      /\ UNCHANGED <<inbox, holder>>
  BY BusDownStep DEF BusDown
<1> DEFINE lost == {h \in Hooks : fate[h] = "atBus"}
<1>2. ASSUME NEW h \in Hooks PROVE Request(h)' = IF h \in lost THEN "refused" ELSE Request(h)
  <2>1. CASE h \in lost BY <1>1, <2>1, RequestBecomes
  <2>2. CASE h \notin lost BY <1>1, <2>2, RequestSame, QueuedAt DEF Inv
  <2>. QED BY <2>1, <2>2
<1>3. lost \in SUBSET Client!Undelivered BY RequestIs DEF Client!Undelivered, request
<1>4. Client!Refused(lost) BY <1>2 DEF Client!Refused, request
<1> HIDE DEF lost
<1>5. Client!BusDown
  BY <1>3, <1>4 DEF BusDown, Server!BusDown, Client!BusDown, Client!given, Client!control
<1>. QED BY <1>5 DEF Client!Next

LEMMA BusUpRefines ==
  ASSUME Inv, BusUp
  PROVE  Client!Next
<1>1. UNCHANGED <<fate, inbox, holder>> BY BusUpStep
<1>2. \A g \in Hooks : Request(g)' = Request(g)
  BY <1>1, RequestSame, QueuedAt DEF Inv
<1>3. request' = request BY <1>2 DEF request
<1>4. Client!BusUp
  BY <1>3 DEF BusUp, Server!BusUp, clientVars, Client!BusUp, Client!given, Client!control,
     Client!libdbus, request
<1>. QED BY <1>4 DEF Client!Next

LEMMA StutterRefines ==
  ASSUME Inv, UNCHANGED vars
  PROVE  UNCHANGED Client!vars
<1>1. \A g \in Hooks : Request(g)' = Request(g)
  BY RequestSame, QueuedAt DEF Inv, vars, serverVars
<1>2. request' = request BY <1>1 DEF request
<1>. QED BY <1>2 DEF vars, clientVars, Client!vars, Client!given, Client!control,
            Client!libdbus, request

\* Whatever the bus and the daemon do to the requests of a login, PamClient
\* allows its environment to do: what is proved of PamClient holds in the
\* composition.
THEOREM ImplementsClientTheorem == Spec => ImplementsClient
<1>1. Init => Client!Init BY DEF Init
<1>2. ASSUME Inv, [Next]_vars PROVE [Client!Next]_(Client!vars)
  <2>1. CASE ClientAlone BY <2>1 DEF ClientAlone, Client!Next, Client!Module
  <2>2. CASE ServerAlone BY <1>2, <2>2, LosingRefines
  <2>3. CASE Send BY <1>2, <2>3, SendRefines
  <2>4. CASE StartHelper BY <1>2, <2>4, StartRefines
  <2>5. CASE RefuseCall BY <1>2, <2>5, RefuseRefines
  <2>6. CASE Receive BY <1>2, <2>6, ReceiveRefines
  <2>7. CASE BusDown BY <1>2, <2>7, BusDownRefines
  <2>8. CASE BusUp BY <1>2, <2>8, BusUpRefines
  <2>9. ASSUME NEW h \in Hooks, Deliver(h) PROVE [Client!Next]_(Client!vars)
    BY <1>2, <2>9, DeliverRefines
  <2>10. ASSUME NEW h \in Hooks, FinishHelper(h) PROVE [Client!Next]_(Client!vars)
    BY <1>2, <2>10, FinishRefines
  <2>11. CASE UNCHANGED vars BY <1>2, <2>11, StutterRefines
  <2>. QED BY <1>2, <2>1, <2>2, <2>3, <2>4, <2>5, <2>6, <2>7, <2>8, <2>9, <2>10, <2>11
           DEF Next
<1>. QED BY Invariance, <1>1, <1>2, PTL DEF Spec, ImplementsClient, Client!Spec

(***************************************************************************)
(* The daemon of the composition is that of BusListeners, so that what was *)
(* proved of it alone is true of it here.  Daemon and Login are the two    *)
(* components again, with their theorems.                                  *)
(***************************************************************************)
Daemon == INSTANCE BusListenersProofs
            WITH timeout <- reconnect, pc <- at, refs <- count,
                 Services <- {Service}, Calls <- Hooks

Login == INSTANCE PamClientProofs WITH request <- [h \in Hooks |-> Request(h)]

\* No step of the composition does to the daemon what the daemon alone, with
\* any clients and any owners of names, would not allow.
THEOREM ImplementsServerTheorem == Spec => ImplementsServer
<1>1. Init => Server!Init BY DEF Init
<1>2. ASSUME [Next]_vars PROVE [Server!Next]_(Server!vars)
  <2>. USE DEF Server!vars, Server!ctxVars, Server!pcVars, Server!connVars, Server!busVars,
               Server!callVars, serverVars
  <2>1. CASE ClientAlone
    <3>1. UNCHANGED bus
      BY <2>1 DEF ClientAlone, Client!CallHook, Client!LookUpFails, Client!LookUp,
         Client!Check, Client!Connect, Client!ConnectFails, Client!SendOnDead,
         Client!GiveUp, Client!Drop
    <3>2. UNCHANGED serverVars BY <2>1 DEF ClientAlone
    <3>. QED BY <3>1, <3>2
  <2>2. CASE ServerAlone
    BY <2>2 DEF ServerAlone, Server!Next, Server!Loop, Server!Program, Server!Environment
  <2>3. CASE Send BY <2>3 DEF Send
  <2>4. CASE StartHelper BY <2>4 DEF StartHelper, Server!Next, Server!Loop
  <2>5. CASE RefuseCall BY <2>5 DEF RefuseCall, Server!Next, Server!Loop
  <2>6. CASE Receive BY <2>6 DEF Receive
  <2>7. CASE BusDown BY <2>7 DEF BusDown, Server!Next, Server!Environment
  <2>8. CASE BusUp BY <2>8 DEF BusUp, Server!Next, Server!Environment
  <2>9. ASSUME NEW h \in Hooks, Deliver(h) PROVE [Server!Next]_(Server!vars)
    BY <2>9 DEF Deliver, Server!Next, Server!Environment
  <2>10. ASSUME NEW h \in Hooks, FinishHelper(h) PROVE [Server!Next]_(Server!vars)
    BY <2>10 DEF FinishHelper, Server!Next, Server!Program
  <2>11. CASE UNCHANGED vars BY <2>11 DEF vars
  <2>. QED
    BY <1>2, <2>1, <2>2, <2>3, <2>4, <2>5, <2>6, <2>7, <2>8, <2>9, <2>10, <2>11 DEF Next
<1>. QED BY <1>1, <1>2, PTL DEF Spec, ImplementsServer, Server!Spec

\* An instance of the proofs speaks of the same daemon as the instance of the model.
LEMMA SameServer == Server!Spec <=> Daemon!Spec
<1>1. Server!Init <=> Daemon!Init BY DEF Server!Init, Daemon!Init
<1>2. [Server!Next]_(Server!vars) <=> [Daemon!Next]_(Daemon!vars)
  BY DEF
         Server!Idle, Server!ServiceConns, Server!StillConnected, Server!KeptFrom,
         Server!CameOn, Server!LoseCalls, Server!Unwatch, Server!Close, Server!Dropped,
         Server!Unref, Server!Disconnect, Server!NullChecked, Server!StartConnect,
         Server!FastPause, Server!ConnectFail, Server!ExitPolicy, Server!ConnectOpen,
         Server!ConnectReturn, Server!BindOk, Server!BindFail, Server!AddService,
         Server!RemoveService, Server!SetReconnectTimeout, Server!ListenersFree,
         Server!ReconnectIfNeeded, Server!ReconnectSkip, Server!ReconnectService,
         Server!MainIterate, Server!SelectReturns, Server!LoopReturn,
         Server!DispatchDone, Server!Dispatching, Server!DispatchDisconnected,
         Server!SendReply, Server!DispatchAnswer, Server!DispatchKeep, Server!Reply,
         Server!BusDown, Server!BusUp, Server!Notice, Server!ForeignAcquire,
         Server!ForeignRelease, Server!SendCall, Server!Loop, Server!Program,
         Server!Environment, Server!Next, Server!vars, Server!ctxVars, Server!pcVars,
         Server!connVars, Server!busVars, Server!callVars, Daemon!Idle,
         Daemon!ServiceConns, Daemon!StillConnected, Daemon!KeptFrom, Daemon!CameOn,
         Daemon!LoseCalls, Daemon!Unwatch, Daemon!Close, Daemon!Dropped, Daemon!Unref,
         Daemon!Disconnect, Daemon!NullChecked, Daemon!StartConnect, Daemon!FastPause,
         Daemon!ConnectFail, Daemon!ExitPolicy, Daemon!ConnectOpen,
         Daemon!ConnectReturn, Daemon!BindOk, Daemon!BindFail, Daemon!AddService,
         Daemon!RemoveService, Daemon!SetReconnectTimeout, Daemon!ListenersFree,
         Daemon!ReconnectIfNeeded, Daemon!ReconnectSkip, Daemon!ReconnectService,
         Daemon!MainIterate, Daemon!SelectReturns, Daemon!LoopReturn,
         Daemon!DispatchDone, Daemon!Dispatching, Daemon!DispatchDisconnected,
         Daemon!SendReply, Daemon!DispatchAnswer, Daemon!DispatchKeep, Daemon!Reply,
         Daemon!BusDown, Daemon!BusUp, Daemon!Notice, Daemon!ForeignAcquire,
         Daemon!ForeignRelease, Daemon!SendCall, Daemon!Loop, Daemon!Program,
         Daemon!Environment, Daemon!Next, Daemon!vars, Daemon!ctxVars, Daemon!pcVars,
         Daemon!connVars, Daemon!busVars, Daemon!callVars
<1>. QED BY <1>1, <1>2, PTL DEF Server!Spec, Daemon!Spec

LEMMA DaemonAssumption == Daemon!ConstantsAssumption
<1>1. IsFiniteSet({Service}) /\ IsFiniteSet(Hooks)
  <2>1. IsFiniteSet({Service}) BY FS_Singleton
  <2>2. 1 \in Int /\ MaxHooks \in Int BY LoginAssumption
  <2>3. IsFiniteSet(1 .. MaxHooks) BY <2>2, FS_Interval
  <2>4. Hooks = 1 .. MaxHooks BY DEF Hooks
  <2>. QED BY <2>1, <2>3, <2>4
<1>2. Daemon!IsFiniteSet({Service}) /\ Daemon!IsFiniteSet(Hooks)
  BY <1>1 DEF IsFiniteSet, Daemon!IsFiniteSet
<1>. QED BY <1>2, LoginAssumption DEF Daemon!ConstantsAssumption

DaemonRight ==
  /\ Server!RefsExact /\ Server!NameRouted /\ Server!AttachedExact
  /\ Server!ExitPolicyUniform /\ Server!NoCallForgotten

\* The references to connections, the names on the bus, the watches of the main
\* loop, the exit policy and the calls are right in a daemon that serves a login:
\* what was proved of it for any clients holds for these.
THEOREM DaemonRightInvariant == Spec => []DaemonRight
<1>1. /\ Server!NameRouted <=> Daemon!NameRouted
      /\ Server!AttachedExact <=> Daemon!AttachedExact
      /\ Server!ExitPolicyUniform <=> Daemon!ExitPolicyUniform
      /\ Server!NoCallForgotten <=> Daemon!NoCallForgotten
  BY DEF Server!NameRouted, Server!AttachedExact, Server!ExitPolicyUniform,
         Server!NoCallForgotten, Server!CameOn, Server!ServiceConns,
         Daemon!NameRouted, Daemon!AttachedExact, Daemon!ExitPolicyUniform,
         Daemon!NoCallForgotten, Daemon!CameOn, Daemon!ServiceConns
<1>2. Server!RefsExact <=> Daemon!RefsExact
  BY DEF Server!RefsExact, Server!ServiceConns, Server!KeptFrom, Server!Indicator,
         Server!Cardinality, Server!IsFiniteSet,
         Daemon!RefsExact, Daemon!ServiceConns, Daemon!KeptFrom, Daemon!Indicator,
         Daemon!Cardinality, Daemon!IsFiniteSet
<1>3. /\ Daemon!Spec => []Daemon!NameRouted
      /\ Daemon!Spec => []Daemon!AttachedExact
      /\ Daemon!Spec => []Daemon!ExitPolicyUniform
      /\ Daemon!Spec => []Daemon!NoCallForgotten
      /\ Daemon!Spec => []Daemon!RefsExact
  BY DaemonAssumption, Daemon!NameRoutedInvariant, Daemon!AttachedExactInvariant,
     Daemon!ExitPolicyInvariant, Daemon!NoCallForgottenInvariant, Daemon!RefsExactInvariant
<1>. QED
  BY ImplementsServerTheorem, SameServer, <1>1, <1>2, <1>3, PTL DEF ImplementsServer, DaemonRight

LoginRight ==
  /\ Client!TypeOK /\ Client!OneUpdateAtATime /\ Client!NoAbortInRange
  /\ Client!ReferencesKept

LEMMA SameClient == Client!Spec <=> Login!Spec
<1>1. Client!Init <=> Login!Init BY DEF Client!Init, Client!Hooks, Login!Init, Login!Hooks
<1>2. [Client!Next]_(Client!vars) <=> [Login!Next]_(Login!vars)
  BY DEF
         Client!Goto, Client!Wrapped, Client!Milliseconds, Client!CallHook,
         Client!Grow, Client!LookUpFails, Client!LookUp, Client!IsOther, Client!Check,
         Client!Show, Client!Connect, Client!ConnectFails, Client!LegalTimeout,
         Client!Send, Client!SendOnDead, Client!SendRejected, Client!Receive,
         Client!GiveUp, Client!Drop, Client!Module, Client!Becomes, Client!StartHelper,
         Client!FinishHelper, Client!Undelivered, Client!Refused, Client!Refuse,
         Client!BusDown, Client!BusUp, Client!Next, Client!Hooks, Client!given,
         Client!control, Client!libdbus, Client!vars, Login!Goto, Login!Wrapped,
         Login!Milliseconds, Login!CallHook, Login!Grow, Login!LookUpFails,
         Login!LookUp, Login!IsOther, Login!Check, Login!Show, Login!Connect,
         Login!ConnectFails, Login!LegalTimeout, Login!Send, Login!SendOnDead,
         Login!SendRejected, Login!Receive, Login!GiveUp, Login!Drop, Login!Module,
         Login!Becomes, Login!StartHelper, Login!FinishHelper, Login!Undelivered,
         Login!Refused, Login!Refuse, Login!BusDown, Login!BusUp, Login!Next,
         Login!Hooks, Login!given, Login!control, Login!libdbus, Login!vars
<1>. QED BY <1>1, <1>2, PTL DEF Client!Spec, Login!Spec

LEMMA LoginsAssumption == Login!ClientAssumption
BY LoginAssumption DEF Login!ClientAssumption

\* So is the login: however the daemon serves its hooks, it never has two updates
\* at work without having given the first up, a timeout in range does not end it,
\* and it keeps the references to its connection.
THEOREM LoginRightInvariant == Spec => []LoginRight
<1>1. /\ Client!TypeOK <=> Login!TypeOK
      /\ Client!OneUpdateAtATime <=> Login!OneUpdateAtATime
      /\ Client!NoAbortInRange <=> Login!NoAbortInRange
      /\ Client!ReferencesKept <=> Login!ReferencesKept
  BY DEF Client!TypeOK, Client!OneUpdateAtATime, Client!NoAbortInRange,
         Client!ReferencesKept, Client!AtWork, Client!Hooks,
         Login!TypeOK, Login!OneUpdateAtATime, Login!NoAbortInRange,
         Login!ReferencesKept, Login!AtWork, Login!Hooks
<1>2. /\ Login!Spec => []Login!TypeOK
      /\ Login!Spec => []Login!OneUpdateAtATime
      /\ Login!Spec => []Login!NoAbortInRange
      /\ Login!Spec => []Login!ReferencesKept
  BY LoginsAssumption, Login!ClientTypes, Login!OneUpdateInvariant,
     Login!NoAbortInvariant, Login!ReferencesInvariant
<1>. QED
  BY ImplementsClientTheorem, SameClient, <1>1, <1>2, PTL DEF ImplementsClient, LoginRight

(***************************************************************************)
(* Nobody waits in vain.                                                   *)
(***************************************************************************)
\* A hook waits for a request that it made; a request that got to the daemon
\* is a call whose caller still expects an answer or was told there is none,
\* and when the helper's answer was not heard, was told.
Owed ==
  /\ pc = "wait" => fate[hook] # "none"
  /\ \A h \in Hooks : fate[h] = "atServer" => call[h] \in {"sent", "lost"}
  /\ \A h \in Hooks : fate[h] = "unheard" => call[h] = "lost"

LEMMA OwedInit == Init => Owed
BY DEF Init, Client!Init, Owed

LEMMA OwedStep ==
  ASSUME Inv, Owed, Server!NoCallForgotten, [Next]_vars
  PROVE  Owed'
<1>t. /\ fate \in [Hooks -> Fates] /\ call \in [Hooks -> {"new", "sent", "answered", "lost"}]
      /\ hook' = hook /\ pc = "wait" => hook \in Hooks
  BY DEF Inv, Typed, Turns
<1>1. CASE ClientAlone
  <2>1. UNCHANGED <<call, fate>> BY <1>1 DEF ClientAlone, serverVars
  <2>2. pc' # "wait"
    BY <1>1 DEF ClientAlone, Client!Goto, Client!CallHook, Client!LookUpFails, Client!LookUp,
       Client!Check, Client!Connect, Client!ConnectFails, Client!SendOnDead,
       Client!GiveUp, Client!Drop
  <2>. QED BY <2>1, <2>2 DEF Owed
<1>2. CASE ServerAlone
  <2>1. CallsKept BY <1>2, DaemonStep DEF Inv
  <2>2. UNCHANGED <<fate, hook, pc>> BY <1>2 DEF ServerAlone, clientVars
  <2>. QED BY <2>1, <2>2 DEF Owed, CallsKept
<1>3. CASE Send
  <2>1. fate' = [fate EXCEPT ![hook] = "atBus"] /\ UNCHANGED <<hook, call>> /\ hook \in Hooks
    BY <1>3 DEF Send, Becomes, ClientGoto, serverVars, Inv, Turns
  <2>. QED BY <2>1, <1>t DEF Owed
<1>4. CASE StartHelper
  <2>1. UNCHANGED <<fate, call, hook, pc>>
    BY <1>4 DEF StartHelper, clientVars, Server!DispatchKeep
  <2>. QED BY <2>1 DEF Owed
<1>5. CASE RefuseCall
  <2>1. Foremost \in Hooks /\ fate' = [fate EXCEPT ![Foremost] = "error"] BY <1>5, RefuseStep
  <2>2. Server!SendReply(Foremost, conn[Service]) /\ UNCHANGED <<hook, pc>>
    BY <1>5 DEF RefuseCall, Server!DispatchAnswer, Foremost, clientVars
  <2>3. \A h \in Hooks \ {Foremost} : call'[h] = call[h] /\ fate'[h] = fate[h]
    BY <2>1, <2>2, <1>t DEF Server!SendReply
  <2>4. fate'[Foremost] = "error" BY <2>1, <1>t
  <2>. QED BY <2>2, <2>3, <2>4, <1>t DEF Owed
<1>6. CASE Receive
  <2>1. UNCHANGED <<call, fate>> /\ pc' = "drop" BY <1>6 DEF Receive, ClientGoto, serverVars
  <2>. QED BY <2>1 DEF Owed
<1>7. CASE BusDown
  <2>1. /\ call' = [x \in Hooks |-> IF call[x] = "sent" THEN "lost" ELSE call[x]]
        /\ fate' = [h \in Hooks |-> IF fate[h] = "atBus" THEN "error" ELSE fate[h]]
        /\ UNCHANGED <<hook, pc>>
    BY <1>7 DEF BusDown, Server!BusDown
  <2>. QED BY <2>1, <1>t DEF Owed
<1>8. CASE BusUp
  <2>1. UNCHANGED <<fate, call, hook, pc>>
    BY <1>8 DEF BusUp, Server!BusUp, clientVars, Server!callVars
  <2>. QED BY <2>1 DEF Owed
<1>9. ASSUME NEW h \in Hooks, Deliver(h) PROVE Owed'
  <2>1. UNCHANGED <<hook, pc>> BY <1>9 DEF Deliver, clientVars
  <2>2. \/ fate' = [fate EXCEPT ![h] = "error"] /\ call' = call
        \/ fate' = [fate EXCEPT ![h] = "atServer"] /\ call' = [call EXCEPT ![h] = "sent"]
    BY <1>9 DEF Deliver, Becomes, serverVars, Server!SendCall
  <2>. QED BY <2>1, <2>2, <1>t DEF Owed
<1>10. ASSUME NEW h \in Hooks, FinishHelper(h) PROVE Owed'
  <2>1. /\ holder[h] # None /\ fate[h] = "atServer" /\ UNCHANGED <<hook, pc>>
        /\ fate' = [fate EXCEPT ![h] = IF call'[h] = "answered" THEN "done" ELSE "unheard"]
        /\ Server!SendReply(h, holder[h])
    BY <1>10, FinishStep DEF FinishHelper, Becomes, clientVars, Server!Reply
  <2>2. /\ \A g \in Hooks \ {h} : fate'[g] = fate[g] /\ call'[g] = call[g]
        /\ fate'[h] \in {"done", "unheard"}
        /\ fate'[h] = "unheard" => call'[h] # "answered"
    BY <2>1, <1>t DEF Server!SendReply
  <2>3. fate'[h] = "unheard" => call'[h] = "lost"
    <3>1. SUFFICES ASSUME call'[h] # "answered" PROVE call'[h] = "lost" BY <2>2
    <3>2. call[h] = "sent" => wire[holder[h]]
      <4>1. SUFFICES ASSUME call[h] = "sent" PROVE wire[holder[h]] OBVIOUS
      <4>2. PICK k \in Conns : wire[k] /\ Server!CameOn(h, k)
        BY <4>1 DEF Server!NoCallForgotten
      <4>3. ~\E i \in 1 .. Len(inbox[k]) : inbox[k][i] = h
        <5>1. \A i \in Nat : ~At(inbox, h, k, i) BY <2>1 DEF Inv, Placed
        <5>. QED BY <5>1 DEF At
      <4>. QED BY <4>2, <4>3 DEF Server!CameOn
    <3>3. call'[h] = IF wire[holder[h]] /\ call[h] = "sent" THEN "answered" ELSE call[h]
      BY <2>1, <1>t DEF Server!SendReply
    <3>4. call[h] \in {"sent", "lost"} BY <2>1 DEF Owed
    <3>. QED BY <3>1, <3>2, <3>3, <3>4
  <2>4. UNCHANGED hook /\ (pc' = "wait" => fate'[hook] # "none")
    BY <2>1, <2>2, <1>t DEF Owed
  <2>. QED BY <2>2, <2>3, <2>4 DEF Owed
<1>11. CASE UNCHANGED vars BY <1>11 DEF Owed, vars, clientVars, serverVars
<1>. QED BY <1>1, <1>2, <1>3, <1>4, <1>5, <1>6, <1>7, <1>8, <1>9, <1>10, <1>11 DEF Next

\* A login that waits on a living connection waits for a bus or a daemon that
\* can still answer, or has an answer to read: for every number of hooks and
\* of connections, whatever was lost and opened again.
THEOREM SomebodyAnswersInvariant == Spec => []SomebodyAnswers
<1>1. Inv /\ Owed /\ Server!NoCallForgotten /\ [Next]_vars => Owed' BY OwedStep
<1>2. Inv /\ Owed /\ Server!NoCallForgotten => SomebodyAnswers
  <2>. SUFFICES ASSUME Inv, Owed, Server!NoCallForgotten, pc = "wait", link = "alive"
                PROVE  \/ fate[hook] = "atBus" /\ bus = "up"
                       \/ \E k \in Conns : wire[k] /\ Server!CameOn(hook, k)
                       \/ NewsIsThere(hook)
    BY DEF SomebodyAnswers
  <2>1. hook \in Hooks /\ fate[hook] \in Fates \ {"none"} BY DEF Inv, Typed, Turns, Owed
  <2>2. CASE fate[hook] = "atBus" BY <2>2 DEF Inv, Linked
  <2>3. CASE fate[hook] = "atServer"
    BY <2>1, <2>3 DEF Owed, Server!NoCallForgotten, NewsIsThere
  <2>4. CASE fate[hook] = "unheard" BY <2>1, <2>4 DEF Owed, NewsIsThere
  <2>. QED BY <2>1, <2>2, <2>3, <2>4 DEF Fates, NewsIsThere
<1>3. DaemonRight => Server!NoCallForgotten BY DEF DaemonRight
<1>. QED BY Invariance, DaemonRightInvariant, OwedInit, <1>1, <1>2, <1>3, PTL DEF Spec
=============================================================================
