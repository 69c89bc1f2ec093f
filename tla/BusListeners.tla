---------------------------- MODULE BusListeners ----------------------------
(***************************************************************************)
(* The server side of src/src/oddjob_dbus.c: the private bus connection    *)
(* that stands behind every well-known service name, how it is opened,     *)
(* bound, attached to the main loop, lost, closed and opened again, and    *)
(* the references that messages being worked on hold to it.                *)
(*                                                                         *)
(* The daemon is one thread: "pc" says which library call it is inside,    *)
(* and "idle" is the embedding program between two calls.  The bus daemon, *)
(* libdbus and the clients are the environment and interleave with it.     *)
(* The order of ctx->services is abstracted: a loop over the array visits  *)
(* the services of "todo" in any order.                                    *)
(***************************************************************************)
EXTENDS Integers, Sequences, FiniteSets

CONSTANTS
  Services,      \* well-known names the daemon may offer
  Conns,         \* DBusConnection objects; a freed one can be allocated again
  Calls,         \* method calls the clients make, each of them once
  Timeouts,      \* values given to oddjob_dbus_listeners_set_reconnect_timeout
  FastTimeout,   \* DEFAULT_FAST_RECONNECT_TIMEOUT
  FastAttempts,  \* DEFAULT_FAST_RECONNECT_ATTEMPTS
  FatalChecks,   \* libdbus aborts when it is handed a NULL connection
  None,          \* the NULL pointer, and "nobody"
  Foreign,       \* some other process on the bus
  Disconnected   \* the signal org.freedesktop.DBus.Local.Disconnected

ASSUME ConstantsAssumption ==
  /\ IsFiniteSet(Services) /\ IsFiniteSet(Calls)
  /\ Timeouts \subseteq Int /\ 0 \in Timeouts
  /\ FastTimeout \in Nat /\ FastAttempts \in Nat
  /\ FatalChecks \in BOOLEAN
  /\ None \notin Conns \cup Services /\ Foreign \notin Conns
  /\ None # Foreign
  /\ Disconnected \notin Calls

VARIABLES
  status,    \* "running", or how the process or its context ended
  timeout,   \* ctx->reconnect_timeout
  services,  \* the names in ctx->services
  conn,      \* srv->conn of each of them
  pc,        \* the library call in progress
  todo,      \* what the loop of that call has still to visit
  target,    \* srv in service_connect
  fresh,     \* conn in service_connect, not yet stored in srv->conn
  attempt,   \* attempt in service_connect, saturating above FastAttempts
  pause,     \* what the last failed attempt slept: "none", "fast" or "full"
  refs,      \* libdbus: reference count of a connection, 0 when it is freed
  wire,      \* the socket to the bus is alive
  open,      \* libdbus: dbus_connection_get_is_connected
  exitOn,    \* libdbus: exit_on_disconnect
  attached,  \* our watch and timeout functions are set on it
  inbox,     \* libdbus: messages received and not yet dispatched
  bus,       \* "up" or "down"
  owner,     \* the bus daemon's table of name owners
  call,      \* what the client knows of its call
  holder     \* the connection of the duplicated message kept for the call

ctxVars  == <<status, timeout, services, conn>>
pcVars   == <<pc, todo, target, fresh, attempt, pause>>
connVars == <<refs, wire, open, exitOn, attached, inbox>>
busVars  == <<bus, owner>>
callVars == <<call, holder>>
vars == <<ctxVars, pcVars, connVars, busVars, callVars>>

ConnOrNone == Conns \cup {None}
Statuses   == {"running", "exited", "aborted", "undefined", "freed"}
PCs        == {"idle", "select", "dispatch", "reconnect", "connect", "bind"}

TypeOK ==
  /\ status \in Statuses
  /\ timeout \in Timeouts
  /\ services \in SUBSET Services
  /\ conn \in [Services -> ConnOrNone]
  /\ pc \in PCs
  /\ todo \in SUBSET Services
  /\ target \in Services \cup {None}
  /\ fresh \in ConnOrNone
  /\ attempt \in 0 .. FastAttempts + 1
  /\ pause \in {"none", "fast", "full"}
  /\ refs \in [Conns -> Nat]
  /\ wire \in [Conns -> BOOLEAN]
  /\ open \in [Conns -> BOOLEAN]
  /\ exitOn \in [Conns -> BOOLEAN]
  /\ attached \in [Conns -> BOOLEAN]
  /\ inbox \in [Conns -> Seq(Calls \cup {Disconnected})]
  /\ bus \in {"up", "down"}
  /\ owner \in [Services -> Conns \cup {None, Foreign}]
  /\ call \in [Calls -> {"new", "sent", "answered", "lost"}]
  /\ holder \in [Calls -> ConnOrNone]

Init ==
  /\ status = "running" /\ timeout = 0 /\ services = {}
  /\ conn = [s \in Services |-> None]
  /\ pc = "idle" /\ todo = {} /\ target = None /\ fresh = None
  /\ attempt = 0 /\ pause = "none"
  /\ refs = [k \in Conns |-> 0]
  /\ wire = [k \in Conns |-> FALSE]
  /\ open = [k \in Conns |-> FALSE]
  /\ exitOn = [k \in Conns |-> FALSE]
  /\ attached = [k \in Conns |-> FALSE]
  /\ inbox = [k \in Conns |-> <<>>]
  /\ bus \in {"up", "down"}
  /\ owner = [s \in Services |-> None]
  /\ call = [x \in Calls |-> "new"]
  /\ holder = [x \in Calls |-> None]

(***************************************************************************)
(* Helpers.                                                                *)
(***************************************************************************)
Idle == status = "running" /\ pc = "idle"

\* The connections behind the services of the array.
ServiceConns == {conn[s] : s \in services} \ {None}

\* The test of reconnect_if_needed.
NothingLost(s) == conn[s] # None => open[conn[s]]  \* mutant for Recovers
StillConnected(s) == conn[s] # None /\ open[conn[s]]

\* The calls whose duplicated message holds k.
KeptFrom(k) == {x \in Calls : holder[x] = k}

\* A call that came in on k: still queued there, or kept by its handler.
CameOn(x, k) == holder[x] = k \/ \E i \in 1 .. Len(inbox[k]) : inbox[k][i] = x

\* The bus answers NoReply to the callers whose callee has gone.
LoseCalls(K) ==
  call' = [x \in Calls |->
             IF call[x] = "sent" /\ \E k \in K : CameOn(x, k)
               THEN "lost" ELSE call[x]]

\* mainloop_disconnect: libdbus forgets our watch and timeout functions.
UnwatchForgotten(K) == UNCHANGED attached        \* mutant for AttachedExact
Unwatch(K) == attached' = [k \in Conns |-> attached[k] /\ k \notin K]

\* oddjob_dbus_unbind and the close: the bus forgets the connection.
CloseForgotten(K) == UNCHANGED <<owner, wire, open, inbox, call>>
                                                 \* mutant for NameRouted
Close(K) ==
  /\ owner' = [s \in Services |-> IF owner[s] \in K THEN None ELSE owner[s]]
  /\ wire' = [k \in Conns |-> wire[k] /\ k \notin K]
  /\ open' = [k \in Conns |-> open[k] /\ k \notin K]
  /\ inbox' = [k \in Conns |-> IF k \in K THEN <<>> ELSE inbox[k]]
  /\ LoseCalls(K)

Dropped(K, n) == refs' = [k \in Conns |-> IF k \in K THEN refs[k] - n ELSE refs[k]]
Unref(K) == Dropped(K, 1)

\* service_disconnect, and oddjob_dbus_connection_close for a connection that
\* is not attached yet.  K holds the connections being closed.
Disconnect(K) == Unwatch(K) /\ Close(K) /\ Unref(K) /\ UNCHANGED exitOn

\* libdbus is handed a NULL connection: it warns and, unless told otherwise,
\* aborts the process.
NullChecked == status' = IF FatalChecks THEN "aborted" ELSE status

(***************************************************************************)
(* service_connect, for a service being added or one already in the array. *)
(***************************************************************************)
StartConnect(s) ==
  /\ pc' = "connect" /\ target' = s /\ attempt' = 0 /\ pause' = "none"
  /\ UNCHANGED fresh

FastOnceMore == attempt <= FastAttempts /\ timeout > FastTimeout
                                                 \* mutant for FastThenFull
FastPause == attempt < FastAttempts /\ timeout > FastTimeout

\* The attempt fails, or what it returns is already disconnected again and
\* is discarded: sleep, and try again.
ConnectFail ==
  /\ status = "running" /\ pc = "connect"
  /\ bus = "down"
  /\ pause' = IF FastPause THEN "fast" ELSE "full"
  /\ attempt' = IF attempt > FastAttempts THEN attempt ELSE attempt + 1
  /\ UNCHANGED <<ctxVars, pc, todo, target, fresh, connVars, busVars, callVars>>

\* dbus_bus_get_private leaves exit_on_disconnect set, service_connect sets
\* the policy of the context.
LibraryPolicy == TRUE                            \* mutant for ExitPolicyUniform
ExitPolicy == timeout <= 0

ConnectOpen(k) ==
  /\ status = "running" /\ pc = "connect"
  /\ bus = "up" /\ refs[k] = 0
  /\ refs' = [refs EXCEPT ![k] = 1]
  /\ wire' = [wire EXCEPT ![k] = TRUE]
  /\ open' = [open EXCEPT ![k] = TRUE]
  /\ exitOn' = [exitOn EXCEPT ![k] = ExitPolicy]
  /\ pc' = "bind" /\ fresh' = k
  /\ UNCHANGED <<ctxVars, todo, target, attempt, pause, attached, inbox,
                 busVars, callVars>>

\* Back to the loop of reconnect_if_needed, or to the program that was
\* adding the service.
ConnectReturn ==
  /\ pc' = IF target \in services THEN "reconnect" ELSE "idle"
  /\ target' = None /\ fresh' = None /\ attempt' = 0 /\ pause' = "none"

BindOk ==
  /\ status = "running" /\ pc = "bind"
  /\ wire[fresh] /\ owner[target] = None
  /\ owner' = [owner EXCEPT ![target] = fresh]
  /\ attached' = [attached EXCEPT ![fresh] = TRUE]
  /\ conn' = [conn EXCEPT ![target] = fresh]
  /\ services' = services \cup {target}
  /\ ConnectReturn
  /\ UNCHANGED <<status, timeout, todo, refs, wire, open, exitOn, inbox, bus,
                 callVars>>

\* Another owner has the name, or the bus went away meanwhile.
BindFail ==
  /\ status = "running" /\ pc = "bind"
  /\ ~wire[fresh] \/ owner[target] # None
  /\ Disconnect({fresh})
  /\ ConnectReturn
  /\ UNCHANGED <<ctxVars, todo, bus, holder>>

(***************************************************************************)
(* The calls of the embedding program.                                     *)
(***************************************************************************)
AddService(s) ==
  /\ Idle /\ s \notin services
  /\ StartConnect(s)
  /\ UNCHANGED <<ctxVars, todo, connVars, busVars, callVars>>

\* The service part of oddjob_dbus_listeners_remove_method.  With exactly
\* one service the array is emptied.  With several, the array is resized by
\* the object count of a service (lines 1123-1126): for the last one the
\* size wraps and the process exits, for another one the array is replaced
\* under the pointer that is then written through.
RemoveService(s) ==
  /\ Idle /\ s \in services
  /\ Disconnect({conn[s]} \ {None})
  /\ conn' = [conn EXCEPT ![s] = None]
  /\ services' = services \ {s}
  /\ IF services = {s}
       THEN UNCHANGED status
       ELSE status' \in {"exited", "undefined"}
  /\ UNCHANGED <<timeout, pcVars, bus, holder>>

\* Mutant for SurvivesBusLoss: open connections keep their old policy.
SetFutureTimeout(t) ==
  /\ Idle /\ timeout' = t
  /\ UNCHANGED <<status, services, conn, pcVars, connVars, busVars, callVars>>

SetReconnectTimeout(t) ==
  /\ Idle
  /\ timeout' = t
  /\ exitOn' = [k \in Conns |-> IF k \in ServiceConns THEN t <= 0 ELSE exitOn[k]]
  /\ IF \E s \in services : conn[s] = None
       THEN NullChecked ELSE UNCHANGED status
  /\ UNCHANGED <<services, conn, pcVars, refs, wire, open, attached, inbox,
                 busVars, callVars>>

ListenersFree ==
  /\ Idle
  /\ Disconnect(ServiceConns)
  /\ conn' = [s \in Services |-> None]
  /\ services' = {}
  /\ status' = "freed"
  /\ UNCHANGED <<timeout, pcVars, bus, holder>>

ReconnectIfNeeded ==
  /\ Idle
  /\ pc' = "reconnect" /\ todo' = services
  /\ UNCHANGED <<ctxVars, target, fresh, attempt, pause, connVars, busVars,
                 callVars>>

ReconnectSkip(s) ==
  /\ status = "running" /\ pc = "reconnect" /\ s \in todo
  /\ StillConnected(s)
  /\ todo' = todo \ {s}
  /\ UNCHANGED <<ctxVars, pc, target, fresh, attempt, pause, connVars,
                 busVars, callVars>>

ReconnectService(s) ==
  /\ status = "running" /\ pc = "reconnect" /\ s \in todo
  /\ ~StillConnected(s)
  /\ Disconnect({conn[s]} \ {None})
  /\ conn' = [conn EXCEPT ![s] = None]
  /\ StartConnect(s)
  /\ todo' = todo \ {s}
  /\ UNCHANGED <<status, timeout, services, bus, holder>>

\* oddjob_dbus_main_iterate: one mainloop_iterate, then a dispatch loop per
\* service.
MainIterate ==
  /\ Idle
  /\ pc' = "select"
  /\ UNCHANGED <<ctxVars, todo, target, fresh, attempt, pause, connVars,
                 busVars, callVars>>

\* The sockets of the services that select finds readable have been read by
\* then; what the program itself waits for may end it just as well.
SelectReturns ==
  /\ status = "running" /\ pc = "select"
  /\ \A k \in Conns : attached[k] /\ open[k] => wire[k]
  /\ pc' = "dispatch" /\ todo' = services
  /\ UNCHANGED <<ctxVars, target, fresh, attempt, pause, connVars, busVars,
                 callVars>>

\* Something came in for a service: without it, select need not return.
Ready == \E k \in Conns : attached[k] /\ inbox[k] # <<>>

LoopReturn ==
  /\ status = "running" /\ pc \in {"dispatch", "reconnect"} /\ todo = {}
  /\ pc' = "idle"
  /\ UNCHANGED <<ctxVars, todo, target, fresh, attempt, pause, connVars,
                 busVars, callVars>>

(***************************************************************************)
(* Dispatch of the messages of one service.                                *)
(***************************************************************************)
\* No data remains (and nothing is left to flush).
DispatchDone(s) ==
  /\ status = "running" /\ pc = "dispatch" /\ s \in todo
  /\ IF conn[s] = None
       THEN NullChecked
       ELSE inbox[conn[s]] = <<>> /\ UNCHANGED status
  /\ todo' = todo \ {s}
  /\ UNCHANGED <<timeout, services, conn, pc, target, fresh, attempt, pause,
                 connVars, busVars, callVars>>

Dispatching(s) ==
  /\ status = "running" /\ pc = "dispatch" /\ s \in todo
  /\ conn[s] # None /\ inbox[conn[s]] # <<>>
  /\ inbox' = [inbox EXCEPT ![conn[s]] = Tail(@)]

\* The filter leaves the signal alone and libdbus acts on its policy.
DispatchDisconnected(s) ==
  /\ Dispatching(s) /\ Head(inbox[conn[s]]) = Disconnected
  /\ status' = IF exitOn[conn[s]] THEN "exited" ELSE status
  /\ UNCHANGED <<timeout, services, conn, pcVars, refs, wire, open, exitOn,
                 attached, busVars, callVars>>

\* The client gets what is sent for its call as long as the connection the
\* call came on is alive; libdbus drops the rest.
SendReply(x, k) ==
  call' = [call EXCEPT ![x] = IF wire[k] /\ @ = "sent" THEN "answered" ELSE @]

\* The filter refuses the call, or the handler answers before it returns:
\* the references taken for the message are dropped again.
DispatchAnswer(s) ==
  /\ Dispatching(s) /\ Head(inbox[conn[s]]) \in Calls
  /\ SendReply(Head(inbox[conn[s]]), conn[s])
  /\ UNCHANGED <<ctxVars, pcVars, refs, wire, open, exitOn, attached,
                 busVars, holder>>

\* The handler keeps oddjob_dbus_message_dup of the message, with its own
\* reference to the connection, and answers later.
DispatchKeepUncounted(s) ==                      \* mutant for RefsExact
  /\ Dispatching(s) /\ Head(inbox[conn[s]]) \in Calls
  /\ holder' = [holder EXCEPT ![Head(inbox[conn[s]])] = conn[s]]
  /\ UNCHANGED <<ctxVars, pcVars, refs, wire, open, exitOn, attached, busVars,
                 call>>

DispatchForget(s) ==                             \* mutant for the calls
  /\ Dispatching(s) /\ Head(inbox[conn[s]]) \in Calls
  /\ UNCHANGED <<ctxVars, pcVars, refs, wire, open, exitOn, attached, busVars,
                 callVars>>

DispatchKeep(s) ==
  /\ Dispatching(s) /\ Head(inbox[conn[s]]) \in Calls
  /\ holder' = [holder EXCEPT ![Head(inbox[conn[s]])] = conn[s]]
  /\ refs' = [refs EXCEPT ![conn[s]] = @ + 1]
  /\ UNCHANGED <<ctxVars, pcVars, wire, open, exitOn, attached, busVars, call>>

\* The helper behind a kept message is done, as the program finds itself or
\* is told by the main loop: send, and free the message.
Reply(x) ==
  /\ status \in {"running", "freed"} /\ pc \in {"idle", "select"}
  /\ holder[x] # None
  /\ SendReply(x, holder[x])
  /\ refs' = [refs EXCEPT ![holder[x]] = @ - 1]
  /\ holder' = [holder EXCEPT ![x] = None]
  /\ UNCHANGED <<ctxVars, pcVars, wire, open, exitOn, attached, inbox, busVars>>

(***************************************************************************)
(* The bus, libdbus' reading of the sockets, other processes, clients.     *)
(***************************************************************************)
BusDown ==
  /\ bus = "up"
  /\ bus' = "down"
  /\ wire' = [k \in Conns |-> FALSE]
  /\ owner' = [s \in Services |-> None]
  /\ call' = [x \in Calls |-> IF call[x] = "sent" THEN "lost" ELSE call[x]]
  /\ UNCHANGED <<ctxVars, pcVars, refs, open, exitOn, attached, inbox, holder>>

BusUp ==
  /\ bus = "down"
  /\ bus' = "up"
  /\ UNCHANGED <<ctxVars, pcVars, connVars, owner, callVars>>

\* libdbus reads end of file, in the main loop or while its messages are
\* dispatched, and queues the signal behind what it had read.
Notice(k) ==
  /\ status = "running" /\ open[k] /\ ~wire[k]
  /\ \/ pc = "select" /\ attached[k]
     \/ pc = "dispatch" /\ \E s \in todo : conn[s] = k
  /\ open' = [open EXCEPT ![k] = FALSE]
  /\ inbox' = [inbox EXCEPT ![k] = Append(@, Disconnected)]
  /\ UNCHANGED <<ctxVars, pcVars, refs, wire, exitOn, attached, busVars,
                 callVars>>

ForeignAcquire(s) ==
  /\ bus = "up" /\ owner[s] = None
  /\ owner' = [owner EXCEPT ![s] = Foreign]
  /\ UNCHANGED <<ctxVars, pcVars, connVars, bus, callVars>>

ForeignRelease(s) ==
  /\ owner[s] = Foreign
  /\ owner' = [owner EXCEPT ![s] = None]
  /\ UNCHANGED <<ctxVars, pcVars, connVars, bus, callVars>>

SendCall(x, s) ==
  /\ call[x] = "new" /\ owner[s] \in Conns
  /\ call' = [call EXCEPT ![x] = "sent"]
  /\ inbox' = [inbox EXCEPT ![owner[s]] = Append(@, x)]
  /\ UNCHANGED <<ctxVars, pcVars, refs, wire, open, exitOn, attached, busVars,
                 holder>>

Loop ==
  \/ ConnectFail \/ BindOk \/ BindFail \/ LoopReturn
  \/ \E k \in Conns : ConnectOpen(k)
  \/ \E s \in Services :
       \/ ReconnectSkip(s) \/ ReconnectService(s)
       \/ DispatchDone(s) \/ DispatchDisconnected(s)
       \/ DispatchAnswer(s) \/ DispatchKeep(s)

Program ==
  \/ MainIterate \/ SelectReturns \/ ReconnectIfNeeded \/ ListenersFree
  \/ \E s \in Services : AddService(s) \/ RemoveService(s)
  \/ \E t \in Timeouts : SetReconnectTimeout(t)
  \/ \E x \in Calls : Reply(x)

Environment ==
  \/ BusDown \/ BusUp
  \/ \E k \in Conns : Notice(k)
  \/ \E s \in Services : ForeignAcquire(s) \/ ForeignRelease(s)
  \/ \E x \in Calls, s \in Services : SendCall(x, s)

Next == Loop \/ Program \/ Environment

Spec == Init /\ [][Next]_vars

(***************************************************************************)
(* Fairness.  The code between two returns to the program runs on.  The    *)
(* program itself (oddjobd, not in this repository) is taken to be a loop  *)
(* that calls oddjob_dbus_main_iterate and                                 *)
(* oddjob_dbus_listeners_reconnect_if_needed in turn, which is what they   *)
(* are exported for: it is strongly fair to both, and does not iterate     *)
(* with a connection it could have known to be lost.  But select is        *)
(* certain to return only when something is there to be read.  libdbus     *)
(* reads the end of file of a socket it polls, and a helper behind a kept  *)
(* call finishes.                                                          *)
(***************************************************************************)
InTurn == MainIterate => \A s \in services : conn[s] # None => open[conn[s]]

Fairness ==
  /\ WF_vars(Loop)
  /\ \A s \in Services : WF_vars(ReconnectSkip(s)) /\ WF_vars(ReconnectService(s))
  /\ SF_vars(MainIterate) /\ SF_vars(ReconnectIfNeeded)
  /\ WF_vars(SelectReturns /\ Ready)
  /\ \A k \in Conns : WF_vars(Notice(k))
  /\ \A x \in Calls : SF_vars(Reply(x))

FairSpec == Init /\ [][Next /\ InTurn]_vars /\ Fairness

(***************************************************************************)
(* Safety.                                                                 *)
(***************************************************************************)
Indicator(b) == IF b THEN 1 ELSE 0

\* Every reference libdbus counts has a holder that will drop it: a service,
\* service_connect, or a kept message.  No connection is used after it is
\* freed, none leaks, and none is shared by two services, whatever the order
\* of reconnects, refused names and late replies.
RefsExact ==
  /\ \A k \in Conns :
       refs[k] = Indicator(k \in ServiceConns) + Indicator(k = fresh)
                 + Cardinality(KeptFrom(k))
  /\ \A s, t \in services : conn[s] = conn[t] /\ conn[s] # None => s = t
  /\ fresh \notin ServiceConns

\* A service whose connection is alive owns its name, and a name this process
\* owns is owned by the present connection of that service: reconnecting
\* leaves no name behind on an old connection, where calls would be lost.
NameRouted ==
  \A s \in Services :
    /\ conn[s] # None /\ wire[conn[s]] => owner[s] = conn[s]
    /\ owner[s] \in Conns => conn[s] = owner[s] /\ wire[owner[s]]

\* The main loop watches exactly the connections of the services: the one
\* being opened is not dispatched before it is bound, a closed one never.
AttachedExact ==
  \A k \in Conns : attached[k] <=> k \in ServiceConns

\* Every connection follows the present reconnect timeout: none that was
\* opened before the timeout was set keeps the power to end the process.
ExitPolicyUniform ==
  \A k \in Conns :
    k = fresh \/ k \in ServiceConns => (exitOn[k] <=> timeout <= 0)

\* A call the client waits for is queued on, or was kept from, a connection
\* that can still carry the answer.
NoCallForgotten ==
  \A x \in Calls : call[x] = "sent" => \E k \in Conns : wire[k] /\ CameOn(x, k)

\* "the number of times oddjobd will attempt a fast reconnect, before
\* switching to waiting for the full reconnect timeout" (configure.ac:68):
\* pause n is fast just when n is at most FastAttempts and fast is faster.
FastThenFull ==
  pc = "connect" /\ attempt > 0 =>
    (pause = "fast" <=> attempt <= FastAttempts /\ timeout > FastTimeout)

\* With a positive reconnect timeout the loss of the bus never ends the
\* process: the Disconnected signal of any connection, old or new, is left
\* to oddjob_dbus_listeners_reconnect_if_needed.
SurvivesBusLoss ==
  [][status = "running" /\ timeout > 0 /\ pc # "idle" => status' # "exited"]_vars

(***************************************************************************)
(* Liveness.                                                               *)
(***************************************************************************)
Serving(s) == conn[s] # None /\ owner[s] = conn[s] /\ open[conn[s]]

\* The daemon goes round its loop again and again: something always wakes it.
Awake == []<>(pc = "idle")

Undisturbed(s) ==
  bus = "up" /\ owner[s] # Foreign /\ s \in services /\ status = "running"

\* Once the bus stays up and nobody else takes the name, a registered service
\* is reached under its name again, however often the bus went away before
\* and however often the name was refused, if only the daemon is awake.
Recovers ==
  Awake => \A s \in Services : <>[]Undisturbed(s) => <>[]Serving(s)

\* Every call that reached a service is answered, or its caller is told by
\* the bus that nobody will, for as long as the process lives and is awake.
CallsSettle ==
  Awake => \A x \in Calls :
    call[x] = "sent" ~> call[x] \in {"answered", "lost"} \/ status # "running"

(***************************************************************************)
(* What the comments promise and the code does not keep.                   *)
(***************************************************************************)
\* "if the listener has exactly one service, free it, else just remove this
\* service from its list" (oddjob_dbus.c:1108): removing one of several
\* services leaves the process running and the others served.
RemovalIsLocal ==
  [][status = "running" /\ (\E s \in services : s \notin services')
       /\ services' # {} => status' = "running"]_vars

\* oddjobd "will pause between attempts to reconnect to the system message
\* bus after being disconnected for any reason" (configure.ac:74): after a
\* pause there is another attempt, whether or not anything wakes the daemon.
ReconnectsByItself ==
  \A s \in Services : <>[]Undisturbed(s) => <>[]Serving(s)
=============================================================================
