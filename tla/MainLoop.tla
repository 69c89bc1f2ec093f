-------------------------------- MODULE MainLoop --------------------------------
(***************************************************************************)
(* src/src/mainloop.c: the lists of descriptors, timeouts and helper       *)
(* processes, one select over them, and the callbacks that change the      *)
(* lists while they are being walked.  The program around the loop, its    *)
(* callbacks, libdbus and the helpers are the environment.  One unit of    *)
(* time is a second.                                                       *)
(***************************************************************************)
EXTENDS Integers, Sequences, FiniteSets, FiniteSetsExt, SequencesExt

CONSTANTS
  Fds,         \* descriptors the program watches
  DWatches,    \* watches of libdbus
  DConns,      \* its connections
  WatchesOf,   \* the watches of each of them, in libdbus' order
  Timers,      \* timeouts of libdbus
  Pids,        \* process ids the kernel hands out
  Intervals,   \* of the timeouts
  MaxBlamed,   \* bound: kinds of events the loop is not made for
  None,        \* the NULL pointer
  Freed        \* a pointer to an element that was freed

ASSUME LoopAssumption ==
  /\ Fds \cap DWatches = {} /\ Pids \cap (Fds \cup DWatches) = {}
  /\ {None, Freed} \cap (Fds \cup DWatches \cup Pids) = {} /\ None # Freed
  /\ \A c \in DConns : WatchesOf[c] \in Seq(DWatches) /\ IsInjective(WatchesOf[c])
  /\ IsFiniteSet(Intervals) /\ Intervals \subseteq Nat
  /\ MaxBlamed \in Nat

VARIABLES
  watches,  \* watch_list
  timers,   \* timeout_list
  pids,     \* pid_list
  pc,       \* where mainloop_iterate is
  useTv, tv,\* what select was told
  bits,     \* what select found ready
  at,       \* wl, or pl, whose callback runs
  next,     \* wlnext, or plnext
  seen,     \* fd # -1: an enabled watch of libdbus was visited
  dwatches, \* the snapshot of the ready ones
  on, armed,\* libdbus: enabled watches and timeouts
  left,     \* the time left of the enabled ones, -1 when it is past
  child,    \* the processes
  calls,    \* how often a descriptor was called back in this iteration
  dropped,  \* descriptors whose watch was removed in this iteration
  blamed    \* events the loop is not made for that have happened

lists   == <<watches, timers, pids>>
libdbus == <<on, armed, left>>
history == <<calls, dropped, blamed>>
vars == <<lists, pc, useTv, tv, bits, at, next, seen, dwatches, libdbus,
          child, history>>

Items == Fds \cup DWatches

\* A callback removes its own element or the next; a lost connection had a
\* second ready watch; a new process has the id of the helper being reaped;
\* time passes a timeout while the loop is not waiting for it.
Events == {"careless", "both ready", "same pid", "overdue"}
Past  == -1
Left  == Past .. Max(Intervals \cup {1})

TypeOK ==
  /\ watches \in Seq(Items) /\ timers \in Seq(Timers) /\ pids \in Seq(Pids)
  /\ pc \in {"program", "select", "failed", "watches", "watch fn", "dwatches", "pids",
             "pid fn", "undefined"}
  /\ useTv \in BOOLEAN /\ tv \in Left
  /\ bits \subseteq Items
  /\ at \in Items \cup Pids \cup {None, Freed} /\ next \in Items \cup Pids \cup {None, Freed}
  /\ seen \in BOOLEAN /\ dwatches \in Seq(DWatches)
  /\ on \subseteq DWatches /\ armed \subseteq Timers /\ left \in [Timers -> Left]
  /\ child \in [Pids -> {"no", "running", "ended"}]
  /\ calls \in [Fds -> Nat] /\ dropped \subseteq Fds
  /\ blamed \subseteq Events
  /\ IsInjective(watches) /\ IsInjective(timers) /\ IsInjective(pids)

Init ==
  /\ watches = <<>> /\ timers = <<>> /\ pids = <<>>
  /\ pc = "program" /\ useTv = FALSE /\ tv = 0 /\ bits = {}
  /\ at = None /\ next = None /\ seen = FALSE /\ dwatches = <<>>
  /\ on = {} /\ armed = {} /\ left = [t \in Timers |-> 0]
  /\ child = [p \in Pids |-> "no"]
  /\ calls = [f \in Fds |-> 0] /\ dropped = {} /\ blamed = {}

(***************************************************************************)
(* The lists: an element is put in front unless it is there.               *)
(***************************************************************************)
AddedAtEnd(list, x) == IF Contains(list, x) THEN list ELSE Append(list, x)
                                                 \* mutant for CalledOnce
AddedTwice(list, x) == <<x>> \o list             \* mutant for TypeOK
Added(list, x) == IF Contains(list, x) THEN list ELSE <<x>> \o list

RemovedHead(list, gone) == IF list = <<>> THEN list ELSE Tail(list)
                                                 \* mutant for HelpersListed

\* What stays keeps its order: the k-th to stay is the one up to which k stay.
Staying(list, gone, i) == Cardinality({j \in 1 .. i : list[j] \notin gone})

Removed(list, gone) ==
  [k \in 1 .. Staying(list, gone, Len(list)) |->
     list[CHOOSE i \in DOMAIN list : list[i] \notin gone /\ Staying(list, gone, i) = k]]

First(list) == IF list = <<>> THEN None ELSE Head(list)
After(list, x) ==
  LET i == SelectInSeq(list, LAMBDA y : y = x)
  IN  IF i \in 1 .. Len(list) - 1 THEN list[i + 1] ELSE None

\* Events that have no effect on another iteration.
Mended ==
  {"careless", "both ready"}
    \cup (IF \E t \in Timers : left[t] = Past THEN {} ELSE {"overdue"})
    \cup (IF \E p \in Pids : child[p] # "no" /\ ~Contains(pids, p) THEN {} ELSE {"same pid"})

\* The events E happen, if any.
Blame(E) ==
  /\ blamed' = blamed \cup E
  /\ Cardinality(blamed') <= MaxBlamed

(***************************************************************************)
(* The program, which also runs in the callbacks, uses mainloop.h.         *)
(***************************************************************************)
ProgramRuns == pc \in {"program", "watch fn", "pid fn"}

AddWatch(f) ==
  /\ ProgramRuns /\ watches' = Added(watches, f)
  /\ UNCHANGED <<timers, pids, pc, useTv, tv, bits, at, next, seen, dwatches,
                 libdbus, child, history>>

\* The pointers of the walk are left to an element that is gone.
RemoveWatch(f) ==
  /\ ProgramRuns /\ Contains(watches, f)
  /\ Blame(IF f \in {at, next} THEN {"careless"} ELSE {})
  /\ watches' = Removed(watches, {f})
  /\ at' = IF at = f THEN Freed ELSE at
  /\ next' = IF next = f THEN Freed ELSE next
  /\ dropped' = IF pc = "watch fn" THEN dropped \cup {f} ELSE {}
  /\ UNCHANGED <<timers, pids, pc, useTv, tv, bits, seen, dwatches,
                 libdbus, child, calls>>

\* A helper is started and registered.
StartHelper(p) ==
  /\ ProgramRuns /\ child[p] = "no"
  /\ Blame(IF Contains(pids, p) THEN {"same pid"} ELSE {})
  /\ child' = [child EXCEPT ![p] = "running"]
  /\ pids' = Added(pids, p)
  /\ UNCHANGED <<watches, timers, pc, useTv, tv, bits, at, next, seen, dwatches,
                 libdbus, calls, dropped>>

\* The program gives a helper up, or waits for it itself.
RemovePid(p) ==
  /\ ProgramRuns /\ Contains(pids, p)
  /\ Blame(IF p \in {at, next} THEN {"careless"} ELSE {})
  /\ pids' = Removed(pids, {p})
  /\ at' = IF at = p THEN Freed ELSE at
  /\ next' = IF next = p THEN Freed ELSE next
  /\ child' = [child EXCEPT ![p] = "no"]
  /\ UNCHANGED <<watches, timers, pc, useTv, tv, bits, seen, dwatches, libdbus,
                 calls, dropped>>

(***************************************************************************)
(* prepare, and select.                                                    *)
(***************************************************************************)
ForgetPids == timers # <<>>                      \* mutant for HelpersReaped
UseTv == pids # <<>> \/ timers # <<>>

Shortest(start, enabled) == Min({start} \cup {left[timers[i]] : i \in enabled})

HelpersInterval ==                               \* mutant for TimeoutsInTime
  IF pids # <<>> THEN 1 ELSE Shortest(0, {i \in DOMAIN timers : timers[i] \in armed})

\* One second if there are helpers, but the first timeout replaces that, and
\* each later one only a longer time.
Interval ==
  LET enabled == {i \in DOMAIN timers : timers[i] \in armed}
      start   == IF 1 \in enabled THEN left[timers[1]]
                 ELSE IF pids # <<>> THEN 1 ELSE 0
  IN  Shortest(start, enabled)

Iterate ==
  /\ pc = "program" /\ pc' = "select"
  /\ useTv' = UseTv /\ tv' = Interval
  /\ blamed' = blamed \ Mended
  /\ UNCHANGED <<lists, bits, at, next, seen, dwatches, libdbus, child, calls,
                 dropped>>

Found(b) ==
  /\ bits' = b
  /\ pc' = "watches" /\ next' = First(watches) /\ seen' = FALSE
  /\ useTv' = FALSE /\ tv' = 0
  /\ UNCHANGED <<lists, at, dwatches, libdbus, child, history>>

SelectReady(b) ==
  /\ pc = "select" /\ ~(useTv /\ tv < 0)
  /\ b # {} /\ b \subseteq ToSet(watches) \cap (Fds \cup on)
  /\ Found(b)

SelectExpires == pc = "select" /\ useTv /\ tv = 0 /\ Found({})

SelectFails ==
  /\ pc = "select" /\ pc' = "failed" /\ useTv' = FALSE /\ tv' = 0
  /\ UNCHANGED <<lists, bits, at, next, seen, dwatches, libdbus, child, history>>

\* EINVAL, for a negative time, and EINTR.
SelectRefused == useTv /\ tv < 0 /\ SelectFails
SelectInterrupted == SelectFails

IterateFails ==
  /\ pc = "failed" /\ pc' = "program"
  /\ UNCHANGED <<lists, useTv, tv, bits, at, next, seen, dwatches, libdbus, child,
                 history>>

(***************************************************************************)
(* handle: the walk over the watches.                                      *)
(***************************************************************************)
Walking == pc = "watches" /\ next # None

VisitDwatch(s) ==
  /\ Walking /\ next \in DWatches
  /\ seen' = s
  /\ dwatches' = IF next \in on \cap bits THEN Append(dwatches, next) ELSE dwatches
  /\ next' = After(watches, next)
  /\ UNCHANGED <<lists, pc, useTv, tv, bits, at, libdbus, child, history>>

VisitDbusReady == VisitDwatch(seen \/ next \in on \cap bits)  \* mutant for TimersServed
VisitDbus == VisitDwatch(seen \/ next \in on)

VisitOddjob ==
  /\ Walking /\ next \in Fds
  /\ next' = After(watches, next)
  /\ IF next \in bits
       THEN /\ pc' = "watch fn" /\ at' = next
            /\ calls' = [calls EXCEPT ![next] = @ + 1]
       ELSE UNCHANGED <<pc, at, calls>>
  /\ UNCHANGED <<lists, useTv, tv, bits, seen, dwatches, libdbus, child,
                 dropped, blamed>>

VisitFreed ==
  /\ pc \in {"watches", "pids"} /\ next = Freed /\ pc' = "undefined"
  /\ UNCHANGED <<lists, useTv, tv, bits, at, next, seen, dwatches, libdbus, child,
                 history>>

\* The callback asks for its watch to be removed, or not.
EndOfWatch(n) ==
  /\ pc = "watch fn"
  /\ \/ pc' = "watches" /\ UNCHANGED <<watches, dropped>>
     \/ at # Freed /\ pc' = "watches"
          /\ watches' = Removed(watches, {at}) /\ dropped' = dropped \cup {at}
     \/ at = Freed /\ pc' = "undefined" /\ UNCHANGED <<watches, dropped>>
  /\ at' = None /\ next' = n
  /\ UNCHANGED <<timers, pids, useTv, tv, bits, seen, dwatches, libdbus,
                 child, calls, blamed>>

WatchFnReturnsLate ==                            \* mutant for NothingFreedUsed
  EndOfWatch(IF Contains(watches', at) THEN After(watches', at) ELSE Freed)
WatchFnReturnsAnew == EndOfWatch(First(watches')) \* mutant for WalksEnd
WatchFnReturns == EndOfWatch(next)

EndWatches ==
  /\ pc = "watches" /\ next = None /\ pc' = "dwatches"
  /\ UNCHANGED <<lists, useTv, tv, bits, at, next, seen, dwatches,
                 libdbus, child, history>>

(***************************************************************************)
(* handle: the ready watches of libdbus, then its timeouts.                *)
(***************************************************************************)
\* libdbus reads and writes, or finds the connection lost and takes all its
\* watches back.
HandleDwatch ==
  /\ pc = "dwatches" /\ dwatches # <<>>
  /\ dwatches' = Tail(dwatches)
  /\ IF ~Contains(watches, Head(dwatches))
       THEN pc' = "undefined" /\ UNCHANGED <<watches, on, blamed>>
       ELSE /\ UNCHANGED pc
            /\ \/ UNCHANGED <<watches, on, blamed>>
               \/ LET lost == UNION {ToSet(WatchesOf[c]) : c \in {d \in DConns :
                                 Contains(WatchesOf[d], Head(dwatches))}}
                  IN  /\ watches' = Removed(watches, lost)
                      /\ on' = on \ lost
                      /\ Blame(IF lost \cap ToSet(dwatches') # {} THEN {"both ready"} ELSE {})
  /\ UNCHANGED <<timers, pids, useTv, tv, bits, at, next, seen, armed,
                 left, child, calls, dropped>>

\* Every enabled timeout is handled, due or not, and libdbus takes it back.
HandleTimers ==
  /\ pc = "dwatches" /\ dwatches = <<>> /\ pc' = "pids" /\ next' = First(pids)
  /\ IF seen
       THEN /\ timers' = Removed(timers, armed)
            /\ left' = [t \in Timers |-> IF t \in armed THEN 0 ELSE left[t]]
            /\ armed' = {}
       ELSE UNCHANGED <<timers, armed, left>>
  /\ bits' = {} /\ seen' = FALSE /\ calls' = [f \in Fds |-> 0] /\ dropped' = {}
  /\ UNCHANGED <<watches, pids, useTv, tv, at, dwatches, on, child, blamed>>

(***************************************************************************)
(* handle: the helpers.                                                    *)
(***************************************************************************)
VisitPid ==
  /\ pc = "pids" /\ next \in Pids
  /\ next' = After(pids, next)
  /\ IF child[next] = "ended"
       THEN pc' = "pid fn" /\ at' = next /\ child' = [child EXCEPT ![next] = "no"]
       ELSE UNCHANGED <<pc, at, child>>
  /\ UNCHANGED <<lists, useTv, tv, bits, seen, dwatches, libdbus, history>>

PidFnReturns ==
  /\ pc = "pid fn" /\ at' = None
  /\ IF at = Freed
       THEN pc' = "undefined" /\ UNCHANGED pids
       ELSE pc' = "pids" /\ pids' = Removed(pids, {at})
  /\ UNCHANGED <<watches, timers, useTv, tv, bits, next, seen, dwatches,
                 libdbus, child, history>>

EndPids ==
  /\ pc = "pids" /\ next = None /\ pc' = "program"
  /\ UNCHANGED <<lists, useTv, tv, bits, at, next, seen, dwatches, libdbus, child,
                 history>>

(***************************************************************************)
(* libdbus between two iterations, the clock and the helpers.              *)
(***************************************************************************)
\* The watches of a connection are added or removed, by mainloop_connect and
\* mainloop_disconnect, a watch toggled, a timeout set or taken back: between
\* two iterations, or because a helper's reply is sent.
LibdbusRuns == pc \in {"program", "pid fn"}

LibdbusKeeps ==
  UNCHANGED <<pids, pc, useTv, tv, bits, at, next, seen, dwatches, child,
              history>>

Attach(c) ==
  /\ LibdbusRuns /\ ToSet(watches) \cap ToSet(WatchesOf[c]) = {}
  /\ watches' = Reverse(WatchesOf[c]) \o watches
  /\ \E enabled \in SUBSET ToSet(WatchesOf[c]) : on' = on \cup enabled
  /\ LibdbusKeeps /\ UNCHANGED <<timers, armed, left>>

Toggle(w) ==
  /\ LibdbusRuns /\ Contains(watches, w)
  /\ on' = IF w \in on THEN on \ {w} ELSE on \cup {w}
  /\ LibdbusKeeps /\ UNCHANGED <<watches, timers, armed, left>>

Detach(c) ==
  /\ LibdbusRuns /\ ToSet(watches) \cap ToSet(WatchesOf[c]) # {}
  /\ watches' = Removed(watches, ToSet(WatchesOf[c]))
  /\ on' = on \ ToSet(WatchesOf[c])
  /\ LibdbusKeeps /\ UNCHANGED <<timers, armed, left>>

SetTimer(t, n) ==
  /\ LibdbusRuns /\ ~Contains(timers, t)
  /\ timers' = Added(timers, t)
  /\ \/ armed' = armed \cup {t} /\ left' = [left EXCEPT ![t] = n]
     \/ UNCHANGED <<armed, left>>
  /\ LibdbusKeeps /\ UNCHANGED <<watches, on>>

\* An answer that is read takes its timeout back, too.
TakeTimer(t) ==
  /\ LibdbusRuns \/ pc = "dwatches"
  /\ Contains(timers, t)
  /\ timers' = Removed(timers, {t})
  /\ armed' = armed \ {t} /\ left' = [left EXCEPT ![t] = 0]
  /\ LibdbusKeeps /\ UNCHANGED <<watches, on>>

Due(t) == t \in armed /\ left[t] = 0

\* Time passes: in select at most what it was told.
Tick ==
  /\ pc # "undefined" /\ (pc = "select" /\ useTv => tv > 0)
  /\ Blame(IF pc # "select" /\ \E t \in Timers : Due(t) THEN {"overdue"} ELSE {})
  /\ left' = [t \in Timers |-> IF t \in armed /\ left[t] # Past
                               THEN left[t] - 1 ELSE left[t]]
  /\ tv' = IF pc = "select" /\ useTv THEN tv - 1 ELSE tv
  /\ UNCHANGED <<lists, pc, useTv, bits, at, next, seen, dwatches, on,
                 armed, child, calls, dropped>>

HelperEnds(p) ==
  /\ child[p] = "running" /\ pc # "undefined"
  /\ child' = [child EXCEPT ![p] = "ended"]
  /\ UNCHANGED <<lists, pc, useTv, tv, bits, at, next, seen, dwatches,
                 libdbus, history>>

\* Nothing is said of a program that used what it had freed.
Anything == pc = "undefined" /\ UNCHANGED vars

Loop ==
  \/ SelectExpires \/ SelectRefused \/ IterateFails
  \/ VisitDbus \/ VisitOddjob \/ VisitFreed \/ WatchFnReturns \/ EndWatches
  \/ HandleDwatch \/ HandleTimers
  \/ VisitPid \/ PidFnReturns \/ EndPids

Program ==
  \/ Iterate
  \/ \E f \in Fds : AddWatch(f) \/ RemoveWatch(f)
  \/ \E p \in Pids : StartHelper(p) \/ RemovePid(p)

Environment ==
  \/ \E b \in SUBSET Items : SelectReady(b)
  \/ SelectInterrupted \/ Tick
  \/ \E p \in Pids : HelperEnds(p)
  \/ \E c \in DConns : Attach(c) \/ Detach(c)
  \/ \E w \in DWatches : Toggle(w)
  \/ \E t \in Timers : TakeTimer(t) \/ \E n \in Intervals : SetTimer(t, n)

Next == Loop \/ Program \/ Environment \/ Anything

Spec == Init /\ [][Next]_vars

\* Time goes on, the program iterates and its callbacks return.
FairSpec == Spec /\ WF_vars(Loop) /\ WF_vars(Iterate) /\ WF_vars(Tick)

(***************************************************************************)
(* Properties.                                                             *)
(***************************************************************************)
\* The walks go on over elements that are there, whatever callbacks add,
\* remove or end: only a callback that takes its own element or the next, and
\* a connection that is lost with two of its watches ready, break them.
NothingFreedUsed == pc = "undefined" => blamed \cap {"careless", "both ready"} # {}

\* In one iteration a descriptor is called back at most once, also when its
\* watch is removed and added again on the way, and each one that was ready
\* is, unless its watch was removed before its turn.
CalledOnce ==
  \A f \in Fds :
    /\ calls[f] <= 1
    /\ pc = "dwatches" /\ f \in bits => calls[f] = 1 \/ f \in dropped

\* Every process that was started stays on the list until it is reaped or given
\* up, if no two of them have one id at a time.
HelpersListed ==
  "same pid" \notin blamed => \A p \in Pids : child[p] # "no" => Contains(pids, p)

\* The time select is told is never negative, for which it fails, as long as
\* no timeout passes outside of it.
TimeoutsInTime == tv < 0 => "overdue" \in blamed

\* The walks over descriptors and helpers end: what is still to be visited grows
\* by no callback, whatever it adds, removes or starts, and an element that the
\* walk went on from does not come before it again.
Remaining(list) ==
  {x \in ToSet(list) : \E i, j \in DOMAIN list :
                         i <= j /\ list[i] = next /\ list[j] = x}

WalksEnd ==
  [][/\ {pc, pc'} \subseteq {"watches", "watch fn"} =>
          /\ Remaining(watches)' \subseteq Remaining(watches)
          /\ next' # next => next \notin Remaining(watches)'
     /\ {pc, pc'} \subseteq {"pids", "pid fn"} =>
          /\ Remaining(pids)' \subseteq Remaining(pids)
          /\ next' # next => next \notin Remaining(pids)']_vars

\* Signals do not interrupt select for ever.
Calm == <>[](pc # "failed")

Broken == pc = "undefined" \/ "overdue" \in blamed

\* A helper that ended is reaped, whatever else the loop is waiting for: the
\* loop needs no descriptor to become ready, and no timeout to pass.
HelpersReaped ==
  Calm => \A p \in Pids :
            child[p] = "ended" ~> child[p] = "no" \/ Broken \/ "same pid" \in blamed

\* An enabled timeout is handled or taken back, as long as libdbus keeps an
\* enabled watch in the loop.
TimersServed ==
  Calm => \A t \in Timers :
            Contains(timers, t) /\ t \in armed
              ~> ~Contains(timers, t) \/ on = {} \/ Broken
=============================================================================
