----------------------------- MODULE LoginUpdate -----------------------------
(***************************************************************************)
(* A login and the daemon that serves it: PamClient on one side of the     *)
(* bus, BusListeners with one service on the other.  Each keeps its own    *)
(* view of a request, and nothing but messages passes between them.  What  *)
(* PamClient takes its environment to do is what BusListeners and the bus  *)
(* do here (ImplementsClient).                                             *)
(***************************************************************************)
EXTENDS Integers, Sequences, FiniteSets

CONSTANTS
  MaxHooks, Options, IntMax, Uids, MaxGrowth,             \* of PamClient
  Service, Conns, Timeouts, FastTimeout, FastAttempts,    \* of BusListeners
  FatalChecks, Foreign, Disconnected,
  None

ASSUME LoginAssumption ==
  /\ MaxHooks \in Nat /\ IntMax \in Nat \ {0} /\ MaxGrowth \in Nat
  /\ Options \subseteq -IntMax - 1 .. IntMax
  /\ Timeouts \subseteq Int /\ 0 \in Timeouts
  /\ FastTimeout \in Nat /\ FastAttempts \in Nat /\ FatalChecks \in BOOLEAN
  /\ None \notin Conns \cup {Service, Foreign} \cup Options \cup Uids
  /\ None \notin {"alive", "dead"}
  /\ Foreign \notin Conns /\ Disconnected \notin 1 .. MaxHooks

Hooks == 1 .. MaxHooks

VARIABLES
  option, ruid, euid, account, entry, hook, pc, growth, timeout, refs, link,
  shown,     \* of PamClient, but for what becomes of a request
  status, reconnect, services, conn, at, todo, target, fresh, attempt, pause,
  count, wire, open, exitOn, attached, inbox, owner, call,
  holder,    \* of BusListeners; reconnect, at and count are its timeout, pc, refs
  bus,       \* common to both
  fate       \* where the request of a hook is, or how it ended

clientVars == <<option, ruid, euid, account, entry, hook, pc, growth, timeout,
                refs, link, shown>>
serverVars == <<status, reconnect, services, conn, at, todo, target, fresh,
                attempt, pause, count, wire, open, exitOn, attached, inbox,
                owner, call, holder>>
vars == <<clientVars, serverVars, bus, fate>>

Fates == {"none", "atBus", "atServer", "done", "unheard", "error"}

(***************************************************************************)
(* What is true of a request, read off the server's side.                  *)
(***************************************************************************)
Queued(h) == \E k \in Conns : \E i \in 1 .. Len(inbox[k]) : inbox[k][i] = h
AtHelper(h) == holder[h] # None

Request(h) ==
  CASE fate[h] = "atBus"    -> "sent"
    [] fate[h] = "atServer" -> IF AtHelper(h) THEN "running"
                               ELSE IF Queued(h) THEN "sent" ELSE "refused"
    [] fate[h] = "error"    -> "refused"
    [] OTHER                -> fate[h]

Client == INSTANCE PamClient WITH request <- [h \in Hooks |-> Request(h)]

Server == INSTANCE BusListeners
            WITH timeout <- reconnect, pc <- at, refs <- count,
                 Services <- {Service}, Calls <- Hooks

\* A login service that runs as root, or as another, and logs somebody else
\* in: the other data PamClient starts from make no difference to the server.
Init ==
  /\ Server!Init /\ fate = [h \in Hooks |-> "none"] /\ Client!Init
  /\ option = None /\ entry = 0 /\ ruid = euid /\ account \notin {ruid, None}

(***************************************************************************)
(* Either side alone.                                                      *)
(***************************************************************************)
ClientAlone ==
  /\ UNCHANGED <<serverVars, fate>>
  /\ \/ Client!CallHook \/ Client!LookUpFails \/ Client!LookUp \/ Client!Check
     \/ Client!Connect \/ Client!ConnectFails \/ Client!SendOnDead
     \/ Client!GiveUp \/ Client!Drop

ServerAlone ==
  /\ UNCHANGED <<clientVars, fate>>
  /\ \/ Server!ConnectFail \/ Server!BindOk \/ Server!BindFail
     \/ Server!LoopReturn \/ Server!MainIterate \/ Server!SelectReturns
     \/ Server!ReconnectIfNeeded \/ Server!ListenersFree
     \/ Server!ReconnectSkip(Service) \/ Server!ReconnectService(Service)
     \/ Server!DispatchDone(Service) \/ Server!DispatchDisconnected(Service)
     \/ Server!AddService(Service) \/ Server!RemoveService(Service)
     \/ \E k \in Conns : Server!ConnectOpen(k) \/ Server!Notice(k)
     \/ \E t \in Timeouts : Server!SetReconnectTimeout(t)

(***************************************************************************)
(* A request on its way, and the answer.                                   *)
(***************************************************************************)
Becomes(h, f) == fate' = [fate EXCEPT ![h] = f]

ClientGoto(l) ==
  pc' = l /\ UNCHANGED <<option, ruid, euid, account, entry, hook, growth,
                         timeout, refs, link>>

Send ==
  /\ pc = "send" /\ Client!LegalTimeout /\ link = "alive"
  /\ Becomes(hook, "atBus")
  /\ ClientGoto("wait") /\ UNCHANGED <<shown, serverVars, bus>>

\* The bus delivers in the order of one sender.  Its policy lets only root
\* own the name, so the owner is the daemon, or there is none.
First(h) == \A g \in Hooks : fate[g] = "atBus" => g >= h

Deliver(h) ==
  /\ bus = "up" /\ fate[h] = "atBus" /\ First(h)
  /\ \/ owner[Service] = None /\ Becomes(h, "error") /\ UNCHANGED serverVars
     \/ Server!SendCall(h, Service) /\ Becomes(h, "atServer")
  /\ UNCHANGED <<clientVars, bus>>

\* The handler of the method has a helper do the work and answers later.
StartHelper ==
  /\ Server!DispatchKeep(Service)
  /\ UNCHANGED <<clientVars, fate>>

RefuseCall ==
  /\ Server!DispatchAnswer(Service)
  /\ Becomes(Head(inbox[conn[Service]]), "error")
  /\ UNCHANGED clientVars

FinishHeard(h) ==                                \* mutant for ImplementsClient
  /\ Server!Reply(h)
  /\ Becomes(h, "done")
  /\ UNCHANGED clientVars

FinishHelper(h) ==
  /\ Server!Reply(h)
  /\ Becomes(h, IF call'[h] = "answered" THEN "done" ELSE "unheard")
  /\ UNCHANGED clientVars

\* The answer, or what the bus says when the daemon's connection has gone.
ReceiveAny ==                                    \* mutant for CutOffForGood
  /\ pc = "wait"
  /\ \E h \in Hooks : fate[h] = "done"
  /\ shown' = [shown EXCEPT ![hook] = "reply"]
  /\ ClientGoto("drop") /\ UNCHANGED <<serverVars, bus, fate>>

Receive ==
  /\ pc = "wait"
  /\ \/ fate[hook] = "done" /\ shown' = [shown EXCEPT ![hook] = "reply"]
     \/ /\ fate[hook] = "error" \/ (call[hook] = "lost" /\ link = "alive")
        /\ shown' = [shown EXCEPT ![hook] = "error"]
  /\ ClientGoto("drop") /\ UNCHANGED <<serverVars, bus, fate>>

BusDown ==
  /\ Server!BusDown
  /\ link' = IF link = None THEN None ELSE "dead"
  /\ fate' = [h \in Hooks |-> IF fate[h] = "atBus" THEN "error" ELSE fate[h]]
  /\ UNCHANGED <<option, ruid, euid, account, entry, hook, pc, growth, timeout,
                 refs, shown>>

BusUp == Server!BusUp /\ UNCHANGED <<clientVars, fate>>

Next ==
  \/ ClientAlone \/ ServerAlone
  \/ Send \/ StartHelper \/ RefuseCall \/ Receive \/ BusDown \/ BusUp
  \/ \E h \in Hooks : Deliver(h) \/ FinishHelper(h)

Spec == Init /\ [][Next]_vars

(***************************************************************************)
(* Properties.                                                             *)
(***************************************************************************)
\* What PamClient takes for granted, the bus and the daemon keep: a request is
\* worked on after it was sent and not after it was refused, an answer that
\* came through was given by its helper on a connection never lost since.
ImplementsClient == Client!Spec

\* The daemon of the composition is the one that was modelled alone: what is
\* true of it for any clients and owners of names is true with these.
ImplementsServer == Server!Spec

\* A login that waits on a living connection waits for somebody: its request is
\* still to be passed on by a bus that runs, or on a connection of the daemon
\* that can carry the answer, or the answer, or the news that none will come,
\* is there, whatever the daemon lost, closed and opened again on the way.
NewsIsThere(h) == fate[h] \in {"done", "error"} \/ call[h] = "lost"

SomebodyAnswers ==
  pc = "wait" /\ link = "alive" =>
    \/ fate[hook] = "atBus" /\ bus = "up"
    \/ \E k \in Conns : wire[k] /\ Server!CameOn(hook, k)
    \/ NewsIsThere(hook)

\* A login cut off from the bus before its answer came is told of no success
\* any more, though its helper may go on, the bus may come back, the daemon
\* reconnect and send that answer, and earlier answers be there.
CutOff(h) == h = hook /\ pc = "wait" /\ link = "dead" /\ fate[h] # "done"

CutOffForGood ==
  [][\A h \in Hooks : CutOff(h) => shown'[h] # "reply" /\ fate'[h] # "done"]_vars

\* The updates of one login are started in the order of its hooks, or not at
\* all: none is left in an old connection of the daemon while a later one is
\* started through a new connection.
Started(h) == Request(h) \in {"running", "done", "unheard"}

StartedInOrder ==
  \A g, h \in Hooks : g < h /\ Started(h) => Request(g) # "sent"
=============================================================================
