------------------------------- MODULE PamClient -------------------------------
(***************************************************************************)
(* src/src/pam_oddjob_gpupdate.c in the process of a login service, with   *)
(* oddjob_dbus_call_method of oddjob_dbus.c under it.  Each account or     *)
(* session hook looks the user up, asks oddjobd for "gpupdatefor" over the *)
(* shared connection of the process, blocks for the answer and shows it.   *)
(* The bus, libdbus and oddjobd with its helpers are the environment: a    *)
(* helper runs on whether or not anybody still waits for it.               *)
(***************************************************************************)
EXTENDS Integers, FiniteSets

CONSTANTS
  MaxHooks,  \* bound: hooks the login service calls
  Options,   \* values of dbus_timeout=
  IntMax,    \* the largest int, 2^31 - 1
  Uids,
  MaxGrowth, \* bound: how often the buffer of getpwnam_r has to grow
  None       \* no such option, no such account, nothing

ASSUME ClientAssumption ==
  /\ MaxHooks \in Nat /\ IntMax \in Nat \ {0} /\ MaxGrowth \in Nat
  /\ Options \subseteq -IntMax - 1 .. IntMax
  /\ None \notin Options \cup Uids /\ None \notin {"alive", "dead"}

Hooks == 1 .. MaxHooks

VARIABLES
  option,     \* the dbus_timeout option of the PAM configuration
  ruid, euid, \* of the login process
  account,    \* the uid of PAM_USER
  entry,      \* growths after which the entry of the account fits the buffer
  hook,       \* hooks called so far; the last is in progress unless pc = "idle"
  pc,
  growth,     \* growths of the buffer so far
  timeout,    \* dbus_timeout in milliseconds
  refs,       \* references of this process to its shared connection
  link,       \* the shared connection: None, "alive" or "dead"
  bus,        \* "up" or "down"
  request,    \* what became of the request of a hook
  shown       \* what a hook showed to the user

given   == <<option, ruid, euid, account, entry>>
control == <<hook, pc, growth, timeout>>
libdbus == <<refs, link>>
vars    == <<given, control, libdbus, bus, request, shown>>

TypeOK ==
  /\ option \in Options \cup {None}
  /\ {ruid, euid} \subseteq Uids /\ account \in Uids \cup {None}
  /\ entry \in 0 .. MaxGrowth
  /\ hook \in 0 .. MaxHooks
  /\ pc \in {"idle", "lookup", "check", "connect", "send", "wait", "drop", "aborted"}
  /\ growth \in 0 .. MaxGrowth
  /\ timeout \in -IntMax - 1 .. IntMax
  /\ refs \in 0 .. 2 * MaxHooks
  /\ link \in {"alive", "dead", None}
  /\ bus \in {"up", "down"}
  /\ request \in [Hooks -> {"none", "sent", "running", "done", "unheard", "refused"}]
  /\ shown \in [Hooks -> {"nothing", "reply", "error"}]

Init ==
  /\ option \in Options \cup {None}
  /\ ruid \in Uids /\ euid \in Uids /\ account \in Uids \cup {None}
  /\ entry \in 0 .. MaxGrowth
  /\ hook = 0 /\ pc = "idle" /\ growth = 0 /\ timeout = -1
  /\ refs = 0 /\ link = None /\ bus = "up"
  /\ request = [h \in Hooks |-> "none"]
  /\ shown = [h \in Hooks |-> "nothing"]

Goto(l) == pc' = l /\ UNCHANGED <<hook, growth, timeout>>

(***************************************************************************)
(* parse_args.  The multiplication leaves the range of int for a value     *)
(* above IntMax / 1000, and wraps in the builds there are.                 *)
(***************************************************************************)
Wrapped(n) == ((n + IntMax + 1) % (2 * (IntMax + 1))) - (IntMax + 1)

MillisecondsOfDefault ==                         \* mutant for NoAbortInRange
  Wrapped((IF option = None THEN -1 ELSE option) * 1000)
Milliseconds == IF option = None THEN -1 ELSE Wrapped(option * 1000)

\* pam_sm_acct_mgmt or pam_sm_open_session; pam_get_user may have no name.
\* pam_sm_close_session does nothing at all.
CallHook ==
  /\ pc = "idle" /\ hook < MaxHooks
  /\ hook' = hook + 1 /\ growth' = 0 /\ timeout' = Milliseconds
  /\ pc' \in {"lookup", "idle"}
  /\ UNCHANGED <<given, libdbus, bus, request, shown>>

(***************************************************************************)
(* The loop around getpwnam_r, which ends without an entry when there is   *)
(* none, when the lookup fails, and when malloc does.                      *)
(***************************************************************************)
Grow ==
  /\ pc = "lookup" /\ growth < entry
  /\ growth' = growth + 1
  /\ UNCHANGED <<given, hook, pc, timeout, libdbus, bus, request, shown>>

LookUpFails ==
  /\ pc = "lookup" /\ Goto("idle")
  /\ UNCHANGED <<given, libdbus, bus, request, shown>>

LookUp ==
  /\ pc = "lookup" /\ growth = entry /\ account # None /\ Goto("check")
  /\ UNCHANGED <<given, libdbus, bus, request, shown>>

\* The check keeps a process that is the user from asking.
IsOther == ruid # account \/ euid # account

Check ==
  /\ pc = "check" /\ Goto(IF IsOther THEN "connect" ELSE "idle")
  /\ UNCHANGED <<given, libdbus, bus, request, shown>>

(***************************************************************************)
(* oddjob_dbus_call_bus_methodv.  The reference dbus_bus_get returns is    *)
(* kept, only the one taken after it is dropped again.                     *)
(***************************************************************************)
Show(s) == shown' = [shown EXCEPT ![hook] = s]

Connect ==
  /\ pc = "connect"
  /\ link # None \/ bus = "up"
  /\ link' = IF link = None THEN "alive" ELSE link
  /\ refs' = refs + 2
  /\ Goto("send")
  /\ UNCHANGED <<given, bus, request, shown>>

ConnectFails ==
  /\ pc = "connect" /\ link = None /\ bus = "down"
  /\ Show("error") /\ Goto("idle")
  /\ UNCHANGED <<given, libdbus, bus, request>>

\* libdbus rejects a negative timeout other than -1: it aborts the process
\* or, when its checks are not fatal, returns no reply and no error.
LegalTimeout == timeout >= -1

Send ==
  /\ pc = "send" /\ LegalTimeout /\ link = "alive"
  /\ request' = [request EXCEPT ![hook] = "sent"]
  /\ Goto("wait")
  /\ UNCHANGED <<given, libdbus, bus, shown>>

SendOnDead ==
  /\ pc = "send" /\ LegalTimeout /\ link = "dead"
  /\ Show("error") /\ Goto("drop")
  /\ UNCHANGED <<given, libdbus, bus, request>>

SendRejected ==
  /\ pc = "send" /\ ~LegalTimeout
  /\ pc' \in {"aborted", "drop"}
  /\ UNCHANGED <<given, hook, growth, timeout, libdbus, bus, request, shown>>

\* The answer of this request and of no earlier one ends the wait, also one
\* that came just before the connection was lost; so do an error reply, the
\* timeout and the loss of the connection.
Receive ==
  /\ pc = "wait"
  /\ \/ request[hook] = "done" /\ Show("reply")
     \/ request[hook] = "refused" /\ Show("error")
  /\ Goto("drop")
  /\ UNCHANGED <<given, libdbus, bus, request>>

Forgo ==                                         \* mutant for OneUpdateAtATime
  /\ pc = "wait"
  /\ Goto("drop")
  /\ UNCHANGED <<given, libdbus, bus, request, shown>>

GiveUpWithTheBus ==                              \* mutant for HookReturns
  /\ pc = "wait" /\ link = "dead"
  /\ Show("error") /\ Goto("drop")
  /\ UNCHANGED <<given, libdbus, bus, request>>

GiveUp ==
  /\ pc = "wait"
  /\ Show("error") /\ Goto("drop")
  /\ UNCHANGED <<given, libdbus, bus, request>>

\* A connection that libdbus found dead is forgotten for the next caller, but
\* not by the oldest versions the code compiles with.
Drop ==
  /\ pc = "drop" /\ Goto("idle")
  /\ \/ refs' = refs - 1 /\ UNCHANGED link
     \/ link = "dead" /\ link' = None /\ refs' = 0
  /\ UNCHANGED <<given, bus, request, shown>>

Module ==
  \/ Grow \/ LookUpFails \/ LookUp \/ Check \/ Connect \/ ConnectFails
  \/ Send \/ SendOnDead \/ SendRejected \/ Receive \/ GiveUp \/ Drop

(***************************************************************************)
(* The bus and the other side.                                             *)
(***************************************************************************)
Becomes(h, from, to) ==
  /\ request[h] = from /\ request' = [request EXCEPT ![h] = to]
  /\ UNCHANGED <<given, control, libdbus, bus, shown>>

StartHelper(h) == Becomes(h, "sent", "running")

\* The answer does not come through when either side has lost its connection.
FinishHelper(h) ==
  \/ link = "alive" /\ Becomes(h, "running", "done")
  \/ Becomes(h, "running", "unheard")

Undelivered == {h \in Hooks : request[h] = "sent"}

Refused(lost) ==
  request' = [h \in Hooks |-> IF h \in lost THEN "refused" ELSE request[h]]

\* No such service, no permission, no such user; or oddjobd has died or lost
\* its connection, with all that it had not read.
Refuse ==
  /\ \E lost \in SUBSET Undelivered : lost # {} /\ Refused(lost)
  /\ UNCHANGED <<given, control, libdbus, bus, shown>>

\* What oddjobd had not read yet is lost with the bus.
BusDown ==
  /\ bus = "up" /\ bus' = "down"
  /\ link' = IF link = None THEN None ELSE "dead"
  /\ \E lost \in SUBSET Undelivered : Refused(lost)
  /\ UNCHANGED <<given, control, refs, shown>>

BusUp ==
  /\ bus = "down" /\ bus' = "up"
  /\ UNCHANGED <<given, control, libdbus, request, shown>>

Next ==
  \/ CallHook \/ Module \/ Refuse \/ BusDown \/ BusUp
  \/ \E h \in Hooks : StartHelper(h) \/ FinishHelper(h)

Spec == Init /\ [][Next]_vars

\* The process runs, which includes libdbus timing out: GiveUp stays enabled
\* while the module waits.  Neither the bus nor oddjobd need do anything.
FairSpec == Spec /\ WF_vars(Module)

(***************************************************************************)
(* Properties.                                                             *)
(***************************************************************************)
AtWork(h) == request[h] \in {"sent", "running"}

\* Two updates of the user are at work at a time only when the hook behind
\* the earlier one has told the user that it gave up: the module never turns
\* its two hooks into two updates at once by itself.
OneUpdateAtATime ==
  \A g, h \in Hooks : g < h /\ AtWork(g) /\ request[h] # "none" => shown[g] = "error"

\* A login process is not ended by this module while the configured timeout
\* is a number of seconds that fits an int in milliseconds, or is missing.
NoAbortInRange ==
  pc = "aborted" => option \notin 0 .. IntMax \div 1000 /\ option # None

\* The last reference to the shared connection is never dropped, which libdbus
\* would abort for, and a call in progress holds one more, however often the
\* bus went away in earlier hooks.
ReferencesKept ==
  /\ link = None <=> refs = 0
  /\ pc \in {"send", "wait", "drop"} => refs >= 2

\* Every hook returns, whatever becomes of the bus, oddjobd and its helpers.
HookReturns == pc # "idle" ~> pc \in {"idle", "aborted"}

\* "for the PAM_USER if the module is running with superuser privileges.
\* Otherwise, it ignores" (pam_oddjob_gpupdate.8.in:12): nobody but root asks.
OnlySuperuser ==
  (\E h \in Hooks : request[h] # "none") => euid = 0
=============================================================================
