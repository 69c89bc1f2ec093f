# A TLA+ model of oddjob-gpupdate

oddjob-gpupdate lets a login process ask a privileged daemon, over the D-Bus
system bus, to apply the group policies of a user. The repository holds the PAM
module that asks, the library with which the daemon serves the bus (shared with
oddjobd, whose own main program is not in this repository), and the helper
program the daemon starts for each request. This directory models these parts
in TLA+, alone and composed, checks them with TLC on small instances, and proves
their safety properties and the refinements with TLAPS for every instance.

File names without a directory are under `src/src/`; `src/configure.ac` is one
level above.

## 1. The system

| part | source | state | operations | meets the others by |
|---|---|---|---|---|
| bus listeners | `oddjob_dbus.c` 96-300, 505-590, 1062-1140, 1507-1551 | the context with its array of services, one private connection each, the reconnect timeout, references of kept messages | add and remove a service, connect with retry, bind the name, reconnect, set the timeout, iterate, free | libdbus callbacks, the main loop, the bus daemon |
| method registry and filter | `oddjob_dbus.c` 592-1105 | objects, interfaces and methods of a service | add, replace, remove a method; route and check a message | called by the dispatch of a connection; calls the handlers |
| main loop | `mainloop.c` | global lists of watches, timeouts and helper pids | add and remove an item, select, call back | libdbus watches, `waitpid` |
| gpupdate helper | `gpupdate.c` | its arguments, its stdio buffer, a forked child | read the arguments, look the user up, announce, run the applier, wait | standard input and output and the exit code, which the daemon makes a reply of |
| argument handling | `util.c` | none that outlives a call | parse a command line, write arguments to a pipe, collect and free them | oddjobd writes, the helper reads |
| replies | `oddjob_dbus.c` 1142-1354, 1356-1459 | none that outlives a call | answer a message, repeat the answer as a signal, take a message apart | libdbus; the texts of two buffers |
| buffer | `buffer.c` | an allocation with bytes used up, bytes in use and a NUL | new, append, prepend, consume, clear, free | holds the texts of a reply |
| PAM module and client call | `pam_oddjob_gpupdate.c`, `oddjob_dbus.c` 1356-1470 | options, the shared connection of the process and its references | the hooks, the lookup, the uid check, a blocking call | a method call to the daemon |
| SELinux directories | `selinux.c` | none | create a directory in the right context | no caller in the repository |
| policy and configuration | `*.conf.in`, `gpupdatefor.in`, `gpupdateforme` | none | who may call which method, which helper runs | read by the bus daemon and oddjobd |

A login goes through them in turn: a PAM hook calls `gpupdatefor` over the bus;
the daemon's connection for the name dispatches the call through its filter to
a handler; the handler keeps a copy of the message, starts the helper from its
configured command line and writes the arguments of the call to its standard
input; the helper runs the policy applier and ends; the daemon answers the kept
message with the helper's output; the hook shows it and returns.

### What is hard

* **Order and interleaving.** The bus, libdbus, other owners of the name,
  clients, helpers and the daemon act independently. A `Disconnected` signal is
  dispatched some time after the socket died, behind older calls; a handler
  answers after its service was reconnected; the applier's file can change
  between the `stat` and the `exec`.
* **Lifetime.** A connection is held by its service, by `service_connect` while
  it binds, and by every kept message, and is closed before the last of them
  lets go.
* **Failure of one step.** Opening works and binding does not; `exec` fails and
  the child goes on as a second copy of the program; `waitpid` has no child to
  wait for.
* **Timeouts and retries.** Fast and full pauses between attempts; a client that
  gives up while its helper works on, and asks again from its next hook.
* **Boundaries.** The terminator of a buffer that just fits a block, the
  milliseconds of a timeout, the array of arguments that ends at its last one, a
  line end that falls just behind what one read takes, a full pipe.
* **Two sides of one request.** The login and the daemon each have a connection
  of their own that can be lost and come back; what one believes of a request
  must agree with what the other did with it.
* **Long legal sequences.** Replacing and removing methods must leave no empty
  entry that shadows a later one.

`PROJECT.json` lists these at their lines, each with the properties that would
catch it going wrong or the reason none does. Where the code has no guard, and a
property could hold only by naming the case as an exception, no property is
listed: the case is in the model, and under "Seen while modelling" (section 3).

### What makes each part correct

* Listeners: references are exact; a living connection owns its name; only the
  connections in use are watched; one exit policy for all; the loss of the bus
  is survived, the name comes back, and no call is left waiting for ever.
* Registry: a service is a table from (path, interface, method) to a handler,
  and each message gets one verdict, whatever the arrays went through.
* Helper: it applies what was asked and nothing else, and has no applier left
  when it answers; its exit code says "invalid" only when nothing was run.
* Arguments: quoting can say any word, and the helper gets the words of the
  configuration and the arguments of the call, whole and in order.
* Buffer and replies: a buffer is a text of any bytes, inside its allocation;
  what a handler says reaches the caller as it was said, each text up to the
  first NUL in it and no further, and does not end the daemon, as long as that is
  UTF-8, the buffer was last appended to and the call named an interface.
* Main loop: it uses no list element that is gone, calls each ready descriptor
  once, gives select a time it accepts, and reaps every helper.
* PAM module: it asks once per hook, only on behalf of another user than itself,
  always returns, and never leaves two updates at work without having said that
  it gave the first one up.
* Both sides together: a success that is shown was one; the updates of a login
  start in the order of its hooks.

## 2. The modules

| module | models | kind |
|---|---|---|
| `BusListeners` | the server side of `oddjob_dbus.c` with its environment | specification |
| `BusListenersProofs` | theorems about it | proofs |
| `PamClient` | the PAM module and the client call under it | specification |
| `PamClientProofs` | theorems about it | proofs |
| `LoginUpdate` | a login and the daemon, with the messages between them | composition of `PamClient` and `BusListeners` |
| `LoginUpdateProofs` | theorems about it | proofs |
| `MainLoop` | `mainloop.c` | specification |
| `MainLoopProofs` | theorems about it | proofs |
| `MethodRegistry` | the arrays of a service and the filter | detailed specification |
| `MethodTable` | the table a service promises | abstract specification |
| `MethodRegistryProofs` | theorems about the two | proofs |
| `GpupdateHelper` | `gpupdate.c` and its forked child | specification |
| `CommandLine` | `oddjob_parse_args` | functions |
| `HelperLaunch` | how a helper gets its options and arguments, and then runs | composition of `CommandLine`, the pipe and `GpupdateHelper` |
| `HelperLaunchProofs` | theorems about it | proofs |
| `OddjobBuffer` | the memory of `buffer.c` | detailed specification |
| `TextBuffer` | the text of `buffer.h` | abstract specification |
| `OddjobBufferProofs` | theorems about the two | proofs |
| `Reply` | the answers of a handler and the caller's reading of them | composition over `OddjobBuffer` |
| `ReplyProofs` | theorems about it | proofs |
| `MC...` | the constants TLC needs that a cfg cannot spell | instances |

### BusListeners

The daemon has one thread. `pc` is the library call it is inside (`connect`,
`bind`, `reconnect`, `select`, `dispatch`) and `idle` is the embedding program
between two calls; the loops over `ctx->services` visit the names in `todo`, in
any order. `services`, `conn` and `timeout` are `ctx->services`, `srv->conn` and
`ctx->reconnect_timeout`; `target`, `fresh` and `attempt` are the locals of
`service_connect`. The rest is libdbus (`refs`, `open`, `exitOn`, `attached`,
`inbox`), the socket (`wire`), the bus daemon (`bus`, `owner`) and the clients
(`call`; `holder` is the connection of the kept copy of the message). A
connection object that was freed may be allocated again, as memory is.

| action | code |
|---|---|
| `AddService`, `ConnectFail`, `ConnectOpen`, `BindOk`, `BindFail` | `service_connect` and the part of `add_method` that calls it |
| `RemoveService` | the service part of `remove_method` |
| `ReconnectIfNeeded`, `ReconnectSkip`, `ReconnectService` | `reconnect_if_needed` |
| `SetReconnectTimeout`, `ListenersFree` | the functions of that name |
| `MainIterate`, `SelectReturns`, `DispatchDone`, `DispatchDisconnected`, `DispatchAnswer`, `DispatchKeep` | `oddjob_dbus_main_iterate` and the ends of the filter |
| `Reply` | the response to, and the free of, a copied message |
| `BusDown`, `BusUp`, `Notice`, `ForeignAcquire`, `ForeignRelease`, `SendCall` | the environment |

A failed attempt and a connection that is found dead at once are the same step:
both sleep and try again. Which method a call is for does not matter here; the
filter and the handler either answer before they return (`DispatchAnswer`) or
keep a copy (`DispatchKeep`). What the main loop does inside is `MainLoop`; here
an iteration waits in `select` until the sockets of the services that were
closed have been read, and returns for a message or for some other reason.
`FatalChecks` says whether libdbus ends the process when it is handed a NULL
connection, which is its default and can be switched off by
`DBUS_FATAL_WARNINGS=0`. Only `bus_removal` takes it on; the other runs explore
what comes after such a call, too.

### MainLoop

`watches`, `timers` and `pids` are the three lists, front first. One pass of
`mainloop_iterate` goes through `select`, `watches` (the walk, with `watch fn`
where a callback runs), `dwatches` (the ready watches of libdbus in turn, then
its timeouts) and `pids` (with `pid fn`). `next` is the element the walk saved
before the callback, `at` the one whose callback runs; a removal turns a pointer
to the removed element into `Freed`, and following one ends in `undefined`.
Between and inside the passes the program adds and removes watches, starts
helpers and gives them up; libdbus attaches and detaches a connection with its
watches, enables and disables them, and sets and takes back timeouts; helpers
end and time passes at any moment. The unit of time is a second, and whether a
descriptor is ready for reading or writing is one thing.

| action | code |
|---|---|
| `AddWatch`, `RemoveWatch`, `StartHelper`, `RemovePid` | `mainloop_oddjob_watch_add`, `..._remove`, `mainloop_pid_add`, `..._remove` |
| `Attach`, `Detach`, `Toggle`, `SetTimer`, `TakeTimer` | `watch_dbus_...`, `timeout_dbus_...`, as libdbus calls them |
| `Iterate`; `SelectReady`, `SelectExpires`, `SelectRefused`, `SelectInterrupted`, `IterateFails` | `prepare`; `mainloop_iterate` |
| `VisitDbus`, `VisitOddjob`, `VisitFreed`, `WatchFnReturns`, `EndWatches` | the first loop of `handle` |
| `HandleDwatch`, `HandleTimers` | the second and third |
| `VisitPid`, `PidFnReturns`, `EndPids` | the last |

The loop does not stand every use. Four events break it, and `blamed` remembers
which have happened until they have no effect any more, so that the properties
say what holds without them: a callback removes its own element, or the one
behind it (`careless`); a lost connection had two ready watches (`both ready`,
the second of which is then handled after it was freed); a process gets the id
of the helper whose callback is starting it (`same pid`, and it is never
reaped); and a timeout passes while the loop is not in select (`overdue`, after
which select refuses the negative time, `handle` is not reached, and the
timeout stays what it is).

### MethodRegistry and MethodTable

The three nested arrays are sequences of records; `PutMethod`, `PutInterface`
and `PutObject` find or append at each level, `CutMethod`, `CutInterface` and
`CutObject` remove an entry and what it leaves empty. `Filter` is
`oddjob_dbus_filter` from the kind of the message to the call of the handler:
first object that matches, interface named or guessed, method, and the checks in
the order of the code. `MethodTable` says the same with a set of rows, the order
of registration of the paths, and a list of complaints: a message gets the first
that applies (`Complain`), and a handler runs only for a call it may run for
(`Run`). `Rows` and `Order` are the table that the arrays are. `last` is the
last operation with its verdict, so the refinement holds every answer to the
abstract one. `fnmatch` is the constant relation `Matches`.

### GpupdateHelper

`pc` has a place for the parent and one for the child that `apply_gpo` forks.
When the exec fails the child returns 3 and runs the rest of `gpupdate` and
`main` like its parent; `buffered` is each process' copy of the message that
stdio has not written. `lines` and `rest` are standard input as
`oddjob_collect_args` splits it: a rest without a line end behind other lines
takes the last element of the array, and freeing the arguments then reads behind
it (`FreeOverrun`, which may or may not crash). The applier's file may change at
any time and SIGCHLD may be inherited as ignored, where `waitpid` ends with
`ECHILD` after the child.

### CommandLine and HelperLaunch

`CommandLine` is `oddjob_parse_args`: `Scan` is one turn of its loop over the
characters with the two quoting levels and the escape, `Scanned` the whole loop.
`Take` is one turn of the loop over the buffer it leaves, and `Split` the words
that loop has found at the end, where the zeroes behind the text end the last
one. Both loops are written as recursive functions, which can be proved about.
`Ways` says how a character can be written so that it stands for itself;
`MeantWords` are the words that were written, without those that have no
character; the property compares the two.

`HelperLaunch` has three stages. In `configure` a command line is written, with a
meaning or at random; `Launch` parses it, `main` finds its options, and a call
arrives with some arguments. In `transfer` oddjobd writes the arguments with
`retry_write`, as much at a time as there is room in the pipe or less, and the
helper reads them with `fgets`, which waits for a line end, a full chunk or the
end of the input. `retry_write` tries again when there is no room and gives up on
another error, in the middle of a name maybe (`broken`). In `run` the helper is
`GpupdateHelper`. oddjobd itself, which calls `oddjob_parse_args` and
`retry_write`, is not in the repository: that it writes each argument followed
by a line end is what `oddjob_collect_args` expects of it. A name is a sequence
of `NameLetters`, the line end not among them, since `oddjob_dbus_filter` refuses
an argument with one; `Users` has every beginning of a name too, since that is
what the helper may be left with.

### OddjobBuffer and TextBuffer

`data` is the allocation byte by byte, with `Junk` for what `malloc` leaves. A
text is any sequence of bytes, of which NUL is one: an append takes a pointer and
a length.
`Assured` is `oddjob_buffer_assure_avail` with its rounding up by a block more
than needed. `TextBuffer` is the text alone; it states `Prepend` as what it
promises where it moves the contents, and as what the code does where it writes
over used-up bytes without counting them (`buffer.c` 95-97).

### Reply

A handler fills a buffer by any operations in any order, and then answers with
one of the functions of `oddjob_dbus.c` 1142-1354: output or errors from the
buffer, a text, an error, an introspection text. What is sent is the string at an
address, up to the first NUL in memory from there on (`CStringAt`), and not the
contents by their length: of a buffer the string at its data pointer
(`CString`), of another text that at the pointer to it (`Pointed`). A text with a
NUL in it is thereby cut at the first. Only the output, and only when it is not
empty, is tested before (`MayAbort`), and only the one byte behind its end.
libdbus refuses a string that is not UTF-8: it
aborts, or adds no argument, which the code does not notice. The signal repeats
the arguments when asked for, when the call named an interface. `Heard` is what
`oddjob_dbus_call_bus_methodv` hands its caller of the message.

### PamClient

One login process calls up to `MaxHooks` hooks, one after the other. `pc` is the
place in `send_pam_oddjob_gpupdate_request` and
`oddjob_dbus_call_bus_methodv`; `link` is the shared connection of the process
and `refs` its references; `request[h]` is what became of the request of hook
`h`, which goes on after the hook gave up. `Wrapped` is the arithmetic of an
`int` in the multiplication by 1000. A connection that libdbus found dead is
forgotten when the last call on it ends, so that the next hook opens another, or,
in old versions of libdbus, stays.

### LoginUpdate

`LoginUpdate` instantiates both sides over one bus and adds what passes between
them. The request of a hook is a call of `BusListeners` with the same number;
`fate` says where it is: at the bus, at the daemon, done, done with nobody there
to hear it, refused. `Request` reads what `PamClient` calls the state of a
request off the daemon's inboxes and holders, and `ImplementsClient` says that
the bus and the daemon do nothing that `PamClient` does not expect of its
environment. `ImplementsServer` says the same of the daemon: a login is one of
the clients `BusListeners` allows (proved, not part of the run: section 4). The
one service of the daemon has several connections in turn, of which old ones may
still have messages queued. `StartHelper` is the dispatch of a call that is
kept, `RefuseCall` of one that is answered with an error, `FinishHelper` the
answer when the helper ended, which is heard only if the connection it came in
on and the caller's are both still there. The name can be owned by root only
(`oddjob-gpupdate.conf.in`), so nobody else takes it here.

## 3. The runs

| run | question | bounds | result |
|---|---|---|---|
| `bus_safety` | do references, names, watches, exit policy and calls stay right | 2 services, 4 connections, 2 calls, timeouts 0 and 30, 1 fast attempt; symmetric connections and calls | holds |
| `bus_liveness` | do services come back, are calls settled | 2 services, 3 connections, 1 call | holds |
| `bus_removal` | is removing one of several services local | 2 services, 3 connections, 1 call | violated |
| `bus_refused` | does a service whose name is refused try again by itself | 1 service, 2 connections, no fast attempt | violated |
| `login` | do both sides agree on every request | 1 service, 3 symmetric connections, 2 hooks, 2 uids | holds |
| `mainloop` | what does the loop promise while its lists change under it | 2 descriptors, 1 connection with 2 watches, 1 timeout of 1 or 2 seconds, 2 process ids, 1 kind of breaking event at a time | holds |
| `registry` | do the arrays implement the table | 2 paths with overlapping matches, 2 interfaces, 2 methods, 2 handlers, 2 entries at a time | holds |
| `helper` | does a helper get what it was given, do it, once, and end | 3 names of 1 to 3 characters, chunks of 2, a pipe of 3, calls of up to 2 arguments; command lines of up to 6 characters with a meaning and of up to 4 at random | holds |
| `helper_user` | is the user checked before the applier runs | every standard input of up to 2 lines and a rest, 2 users | violated |
| `buffer` | does the memory implement the text, and the caller read what was said | blocks of 2 bytes, up to 8 bytes in use, texts of up to 3 bytes, with a NUL inside or at the end, or a byte that is no UTF-8 in front of or behind one | holds |
| `pam` | does the module ask rightly, once, and return | 3 hooks, 4 values of the option in a 12 bit `int`, 2 uids | holds |
| `pam_superuser` | does nobody but root ask | 2 hooks | violated |

Why these bounds show the interesting cases:

* Four connections are two services with a present connection each and an old
  one that kept messages hold, or one being bound; two calls let one be queued
  behind another, and be kept from two generations of a connection. With one
  fast attempt both pauses and the change between them occur. Liveness needs
  neither the second call nor a fourth connection: the third is the one being
  bound while two are held. In it no fast attempt is made; the length of a pause
  does not matter there.
* Two descriptors let a callback remove the watch the walk has saved as next, or
  add one in front of it; two watches of one connection can both be ready when
  it is lost; two process ids let one callback run while another entry is saved
  as next. The timeout is as long as the one second that helpers get, so it may
  end before, with or after it, or longer, so that it makes the loop wait longer
  for a helper than that second.
* Two methods at a time are the least that make an interface guess ambiguous and
  a path shadow another; `"exact"` and `"pattern"` both match the path `"here"`.
* In `login` two hooks are the least that have an order; with three connections
  the daemon has its present one and one or two old ones with messages in them.
* Two arguments are one more than the helper accepts. A name of one character
  fits a chunk with its line end, one of two fills it and leaves the line end to
  the next, one of three needs two and is, with its line end, longer than the
  pipe. Six characters hold two quoted letters, or two words with an escape
  between them; the lines at random are all there are up to four characters.
* A block of 2 bytes is shorter than the longest text, so appends cross one and
  two block ends; 8 bytes in use are four blocks. A NUL with bytes behind it,
  appended alone or behind another text, is one in the middle of the output, and
  using the output up in part may put it first.
* A 12 bit `int` overflows at 3 seconds the way a 32 bit one does at 2147484,
  and `-1`, `0`, `2` and `3` are one negative, one boundary, one in range and one
  too large value. Three hooks allow two requests of one login to outlive their
  hooks.

### What the runs show

Types are a theorem of each component (section 4). The runs check `TypeOK` only
where it says more: of the lists of the main loop, that they hold nothing twice,
and of a buffer, that it stays inside its allocation.

Listeners. `RefsExact`: every reference has a holder that will drop it.
`NameRouted`: a living connection owns its name and no name stays behind on an
old one. `AttachedExact`: the main loop watches the connections of the services
and no other. `ExitPolicyUniform` and `SurvivesBusLoss`: with a positive timeout
no `Disconnected` signal, of a new connection or an old one, ends the process.
`NoCallForgotten`: while a caller waits there is a connection that can answer it.
`FastThenFull`: the number of fast attempts is the configured one. `Recovers` and
`CallsSettle` are the two promises a client sees; both need a daemon that is
woken now and then (`Awake`), which `bus_refused` shows not to be a formality.

Main loop. `NothingFreedUsed`, `HelpersListed` and `TimeoutsInTime` name the
events that break them, and that nothing else does. `CalledOnce` holds without
exception, and so does `WalksEnd`: no callback adds to what a walk has still to
visit. `HelpersReaped`: the time limit is there whenever a helper is listed,
whatever timeout, also a longer one, replaces it. `TimersServed`: an enabled
timeout is handled, but only while libdbus keeps an enabled watch in the loop.

Registry. `NamesUnique`, `NoEmptyLevels`, and `ImplementsTable`, the refinement.

Helper. `ParsesAsMeant`: every list of words can be written, in any mixture of
the ways of quoting (letters and blanks are never escaped: `Ways`), and is
parsed back to itself; a blank behind a part that parses separates it from the
rest. `Delivered`: however reads and writes cut the arguments, the helper
collects those of the call, or, when the writer gave up, a beginning of them.
`RunsAsConfigured`: while the writer does not give up, a name never turns into
the computer's policies or another name, and the options are those of the
configuration. `NoApplierLeft`, `InvalidLeavesNoTrace` and `ReplyText` are about
the two processes. `NeitherWaits`: the writer of the arguments and `fgets` never
wait for each other, and `EachStepCounts`: every step of the two leaves less to
do, which is what the end of the transfer rests on without any fairness but that
they go on. `HelperEnds`: neither a full pipe nor arguments nobody wants keep
the helper.

Buffer and replies. `TypeOK` includes that length and offset stay inside the
allocation; `ImplementsText` is the refinement. `ReadsBack`: after an append,
whatever the buffer went through before, the caller reads the number the handler
gave and each text it meant, whole, or exactly up to the first NUL in it
(`Spoken`), and so does whoever gets the signal; the end of the string is never
missed and never that of an earlier text. It is about texts that are UTF-8 as far
as they are sent. `AbortsKnown` names the only answers that can end the daemon.

PAM. `OneUpdateAtATime`, `NoAbortInRange`, `HookReturns`.

Both sides. `ImplementsClient`, the refinement: what `PamClient` assumes of its
environment, the bus and the daemon keep. `SomebodyAnswers`: a hook that waits
on a living connection has its request at a bus that runs, or on a connection of
the daemon that can carry the answer, or has an answer to read; nothing the
daemon loses, closes and opens again leaves it waiting for nobody.
`CutOffForGood`: a hook whose connection was lost before its answer came is told
of no success any more, though the helper goes on and the daemon comes back.
`StartedInOrder`: no update is left in an old connection of the daemon while a
later one starts through a new connection.

### Where the code and its documents differ

* `bus_removal`: `oddjob_dbus.c` 1108 promises to remove one service from the
  list; lines 1123-1126 resize the array by the object count of a service and
  decrement that count, so the process ends or writes to freed memory.
* `bus_refused`: `src/configure.ac` 74 speaks of a pause between attempts to
  reconnect; when the name is refused there is no pause and no next attempt
  until something else wakes the process: the service has no connection, and
  the select of the next iteration nothing to wait for.
* `helper_user`: the comment at `gpupdate.c` 102 wants the user to exist; the
  lookup only logs.
* `pam_superuser`: the manual page says the module asks only with superuser
  privileges; the code refrains only when both uids are the user's.

Seen while modelling, without a document to hold them against: a service left
without a connection is handed to libdbus as NULL by `oddjob_dbus_main_iterate`
and `oddjob_dbus_listeners_set_reconnect_timeout` (`oddjob_dbus.c` 1516, 152);
messages that libdbus read while it waited for something else are not seen by
select; every enabled timeout is handled in every pass, due or not (`mainloop.c`
468-483), and one that passes outside of select makes every later select fail;
the exit status of the applier is dropped (`gpupdate.c` 87-91); an output or
errors with a NUL in them, which a helper may well write, pass the test of
`oddjob_dbus.c` 1274, are sent up to that NUL (1279-1286), and neither the
caller nor the daemon is told; a cleared buffer has length 0 but its string is
the old text, which is sent; `oddjob_buffer_prepend` leaves no NUL behind the
contents, which `oddjob_dbus.c` 1274 aborts for (no caller in the repository
prepends); a text of a helper that is not UTF-8 in front of its first NUL ends
the daemon, or, when the checks of libdbus are not fatal, is left out of the
reply so that the caller takes the errors for the output (1279); a call without
an interface makes the signal one without an interface, which libdbus refuses in
the same way (1235); an escape in a command line stays on until a quote or a
backslash comes, so that blanks behind the escaped letter do not separate
(`util.c` 256); when `retry_write` gives up, the helper takes the part of a name
it got for the whole (`util.c` 58, 209), and when that part is behind other
arguments, reads behind the array of arguments when it frees them; a timeout of
the PAM module that is negative, or whose milliseconds do not fit an `int`, can
reach libdbus as a negative number, which it refuses, and ends the login process
(`pam_oddjob_gpupdate.c` 110); a child that cannot execute the applier writes
the message a second time.

### Fairness

* `BusListeners!FairSpec`. `WF(Loop)`: code between two returns to the program
  runs on; fairness of each visit of `reconnect_if_needed`. `SF(MainIterate)` and
  `SF(ReconnectIfNeeded)`: the program alternates the two for ever, whatever it
  does between, so neither is left out while it is idle again and again, and
  (`InTurn`) it does not iterate with a connection it could have known to be
  lost. This is an assumption on oddjobd, which is not in the repository; the
  header exports the two for that use. `WF(SelectReturns /\ Ready)`: select
  returns when something came in for a service; nothing makes it return
  otherwise, so `Recovers` and `CallsSettle` have `Awake` as a hypothesis. `WF(Notice)`: libdbus reads the end of file of a socket
  it polls. `SF(Reply)`: a helper ends and its answer is sent. Nothing is
  assumed of the bus, other owners or clients: `Recovers` has their good
  behaviour as its hypothesis.
* `MainLoop!FairSpec`. `WF(Loop)`: the code of the loop runs on and its callbacks
  return; `WF(Iterate)`: the program iterates again; `WF(Tick)`: time passes, so
  select expires. Descriptors need never be ready and callbacks may do
  anything. `Calm`, the hypothesis of both properties, leaves out signals that
  interrupt select for ever.
* `HelperLaunch!FairLaunchSpec`. oddjobd gets on with writing and the helper with
  reading, each when it can; both processes of the helper are scheduled and the
  applier ends.
* `PamClient!FairSpec`. The module runs, which includes libdbus' own timeout;
  neither bus nor daemon need ever do anything.

The other specifications have no liveness. `Buffer.cfg` alone turns the check for
deadlock off: there the daemon may have been aborted. In the other runs some
step is always possible, if only of the environment.

## 4. The proofs

### The bus listeners

`BusListenersProofs` proves, from `ConstantsAssumption` alone (finitely many
services and calls, 0 among the timeouts, the special values distinct; any
number of connections), `TypeOK`, every invariant and the action property of
`bus_safety`. `TypeOK`, `NameRouted` and the others are not inductive by
themselves, so the argument goes in layers, each using the ones before as
invariants:

1. `Shape`: the types, with integer reference counts, and what the program
   counter says about the data: `target` and `fresh` exist just inside
   `service_connect`, a target has no connection, `todo` holds services of the
   array.
2. `Placement`: a call is in one place at most, one position of one inbox or one
   holder. Without it, answering one copy could leave another, and a dispatched
   message could be counted twice.
3. `RefsExact`: the counts. It needs 2, since a reference is added for each kept
   call, and 1, since a connection being bound is not yet a service's. With it
   no count goes below zero, which gives `TypeOK`.
4. `Routing`: `NameRouted`, `AttachedExact`, `ExitPolicyUniform`, and that only
   connections in use have a living socket. It needs 3: a connection that
   `ConnectOpen` takes anew has no reference, so it is nobody's, and closing one
   service's connection closes no other's.
5. `NoCallForgotten`, from 1, 2 and 4, and `SurvivesBusLoss`, from 1 and 4: the
   connection that dispatches the signal is a service's, and its policy is that
   of the present timeout.
6. `FastThenFull`, from 1: an attempt is counted only by `ConnectFail`, and the
   timeout does not change inside `service_connect`.

Each layer has one lemma for the initial states and one for a step, with a case
per action.

### The PAM module

`PamClientProofs` proves `TypeOK`, `OneUpdateAtATime`, `NoAbortInRange` and
`ReferencesKept` of `PamClient!Spec` from `ClientAssumption`: any number of
hooks, any options, any width of an `int`. The invariant has four parts. `Shape`
has the types, without the bound of the references. `Counted` is
`ReferencesKept` with `refs <= 2 * hook`, one less pair before a hook connects,
which bounds them. `Announced` says of each hook that is not the one in
progress, or is about to return, that a request of it that is still at work was
announced as given up; `OneUpdateAtATime` follows, since only the last hook can
be in between. `Computed` says that `timeout` is what the option gives; that an
`int` in range is kept by the multiplication is a lemma about `%`, and with it
the option of an aborted process is out of range.

### The helper

`HelperLaunchProofs` proves `TypeOK`, every invariant and the action property of
the `helper` run of `HelperLaunch!LaunchSpec`, from `HelperAssumption`,
`LettersAssumption` and `LaunchAssumption`: names of any length over any
letters, chunks of any size from 1, any pipe at least as large, command lines
and calls of any length. The invariant `LaunchInv` has seven parts.

1. `Lockstep` and `Traced` (together `Inv`): for each place of the parent, where
   the child can be. `NoApplierLeft` alone does not say that the child exists
   while the parent waits for it. The parent has no result before it leaves, and
   a child which does not exist has executed nothing.
2. `Written`: a line that is written with a meaning `Spells` its words: the scan
   of it is outside of quotes and of an escape, and its buffer holds the words
   up to the last, which has begun. `WrittenWay` shows that each way to write a
   character puts just that character into the buffer. `ParsesAsMeant` follows
   (`SpellsParse`). Its second half, that a blank separates, holds of every line:
   a scan which begins with text in the buffer differs from one that begins with
   none only by that text (`ScannedBeyond`), and the words in front of a NUL are
   taken whatever follows it (`SplitBehind`).
3. `Transferred`: the stream of the call is cut in four (`Cut`): the lines that
   were read, the beginning of the next in `thisline`, what is in the pipe, and
   what is still to be written. `Ends` says where in the stream each line ends.
   Then a line end that `fgets` finds is that of the first line not yet read
   (`CutLine`), since no name contains one, and at the end of the input the first
   part is all of the call when the whole stream was written (`CutEnd`). This
   gives `Delivered`. `NeitherWaits` and `EachStepCounts` follow from it too:
   what `fgets` would not take leaves room for a chunk in the pipe, and what it
   takes is never nothing.
4. `Environment`: the types of what the helper is given.
5. `Asked`: `user` is what the arguments request, once they were accepted, and
   what was executed was executed with it.
6. `Said`: which process has the message in its buffer, and how many times it was
   written, from the places of both. This gives `ReplyText`, and with 3 and 5
   `TypeOK`.
7. `Configured`: the option is the one meant. With 3 and 5 it gives
   `RunsAsConfigured`.

`oddjob_parse_args` and the words are functions by recursion over a sequence.
`FoldExists` shows once that such a function exists, and `FoldsAppend` what one
more element does to it; `UpTo` and `Grown` are the inductions, over a number and
over the length of a sequence, from the well-foundedness of `<`.

### The login and the daemon

`LoginUpdateProofs` proves every property of the `login` run, and
`ImplementsServer`, of `LoginUpdate!Spec` from `LoginAssumption`, which asks of
the constants what `PamClient` and `BusListeners` ask of theirs (any number of
hooks and connections). The invariant has six parts, none of which is inductive
alone:

1. `Typed`: the types of what the others speak of.
2. `Routed`: the name leads to the present connection of the service, and only
   that one has calls to dispatch. Without it a call could be taken from a new
   connection while an earlier one waits in an old one.
3. `Placed`: a call is in one position of one queue, or with its helper, or
   nowhere; within a queue calls stand in the order of their hooks; its caller
   has no answer yet.
4. `Ordered`: what was begun is of an earlier hook than what waits at the daemon,
   and that of an earlier one than what is still at the bus.
5. `Turns`: a request belongs to the hook in progress or to an earlier one.
6. `Linked`: while an answer can still come, the connection the login waits on is
   the one it asked over.

The daemon by itself has many steps, but only ever takes entries out of queues
(`Thinned`); `DaemonStep` shows that action by action, and all later steps use
only that. The refinement is then one lemma per action: 2 to 4 give
`StartHelper` and `RefuseCall`, 6 gives `FinishHelper` and with it
`CutOffForGood`, 4 `StartedInOrder`; a closed connection is `Client!Refuse` of
what was queued on it, or a stutter.

`ImplementsServer` needs no invariant: each step is one of the daemon, or leaves
it alone. With the two refinements the theorems about `BusListeners` and
`PamClient` are theorems about the composition: the two modules of proofs are
instantiated (`Daemon`, `Login`), and `DaemonRightInvariant` and
`LoginRightInvariant` cite what they prove. `SomebodyAnswers` rests on one of
these: `NoCallForgotten` of the daemon says where a call is while its caller
waits, `Owed` that a request which got to the daemon is such a call, or one whose
caller was told that it is lost, and `Linked` that the bus runs while the
connection of the login is alive.

### The main loop

`MainLoopProofs` proves every invariant and the action property of the
`mainloop` run of `MainLoop!Spec` from `LoopAssumption` (any number of
descriptors, of watches and timeouts of libdbus, and of helpers). They are not
inductive: what a walk will do depends on the pointers it holds while a callback
changes its list. The invariant adds to the types

1. `Pointers`: the element whose callback runs and the one saved as next are in
   their list, or were freed, and are not the same one;
2. `Reasons`: a pointer to something freed, and a ready watch of libdbus that is
   gone, have an event in `blamed`. This gives `NothingFreedUsed`;
3. `Visits`: what was called back lies behind the walk, what is ready and was not
   lies before it, in the order of the list. Since watches are added in front and
   a removal keeps the order of the others, callbacks cannot move an element past
   the walk. This gives `CalledOnce`, without an exception;
4. `Helpers`: the process whose callback runs has been waited for, so it may
   leave the list. This gives `HelpersListed`;
5. `Times`: an armed timeout is listed, and while the loop is in select it waits
   no longer than any of them has left, so that none passes inside. This gives
   `TimeoutsInTime`.

`WalksEnd` needs the types and 1 alone: in a walk, the list of that walk is only
added to in front, removed from, or gone along (`WatchWalk`, `HelperWalk`), and
none of these brings anything behind the saved pointer (`NothingNew`).

The lemmas under it say where the elements of a list are after `Added` and
`Removed`; `Staying` counts the elements that a removal leaves in front of a
place.

### The buffer

`OddjobBufferProofs` proves `TypeOK` and the refinement `ImplementsText` of
`OddjobBuffer!Spec` from `BufferAssumption`: any block size, any bytes, NUL
among them or not, texts of any length. The invariant is the types with their
arithmetic (the contents and the byte behind them fit the allocation) and that
the contents are bytes, never what `malloc` left: `oddjob_buffer_prepend` writes
over used-up bytes without counting them, and only with the invariant is that a
text of `TextBuffer`. The lemmas follow the functions: `RoundedUp` is the
arithmetic of a block, then what making room, moving and writing do to the
contents.

### The replies

`ReplyProofs` uses that: `ReplySpec => Spec` (`ReplyUsesBuffer`) says that a
handler with its answers does to the buffer what `OddjobBuffer` allows, so what
is proved of the buffer holds here. Of the bytes nothing is assumed but that
some may be no UTF-8. Then `ReadsBack` and `AbortsKnown` need `Ended` (after the
last append, and using up since, a NUL is behind the contents) and that nothing
is sent before there is an answer. `StringIsSpoken` is about memory alone: the
string at an address where a text stands with a NUL behind it is the text, or
what is in front of the first NUL in it. That first NUL exists because there is
the one behind the text (`MinOfNats`, by the well-foundedness of `<`), and lies
no further than that. `CStringIsSpoken` and `PointedIsSpoken` apply it to the
buffer and to the other texts, and `SpeakablePasses` says that libdbus takes
such a string when it is UTF-8. `Says` carries this through the answers, step by
step, to what `ReadsBack` claims.

### The registry

`MethodRegistryProofs` proves `TypeOK`, `NamesUnique`, `NoEmptyLevels` and the
refinement `ImplementsTable` of `MethodRegistry!Spec`, for any names, matches and
messages. The invariant `ObjectsOK` is those three together, level by level:
`MethodsOK` in `InterfacesOK` in `ObjectsOK`. None is inductive alone, since
replacing an entry in place finds the right one only in an array without a name
twice, and a removal that empties an interface must be one that empties its only
entry. Each level has the same lemmas: where a search stops, and what is in the
array after adding and after cutting, as one equivalence (`HasMethod`,
`HasEntry`, `HasRow`). Put together they say that the rows of the table change
by the one triple, and with `PathKnown` (no object is empty) that a path has a
rank exactly while it has a row. For a message the walk is compared place by
place with the sets of rows of `MethodTable`: `ObjectRowsAre`,
`InterfaceRowsAre`, where `GuessIs` shows that one found entry means that one
interface offers the method, and `NoMethodIs`; the verdict follows complaint by
complaint.

### What is only model-checked

Liveness and fairness (`Recovers`, `CallsSettle`, `HelpersReaped`,
`TimersServed`, `HelperEnds`, `HookReturns`) are out of the prover's reach. What
they rest on besides fairness is proved where it is not obvious: that nobody is
left to wait for (`NoCallForgotten`, `SomebodyAnswers`, `NeitherWaits`) and that
the steps are finitely many (`FastThenFull`, `EachStepCounts`, `WalksEnd`).
Every invariant, action property and refinement that a passing run checks is
proved.

## 5. The plan

Done, in this order, the most important behaviour first: `BusListeners` and its
proofs; `MethodTable`/`MethodRegistry`; `GpupdateHelper`;
`TextBuffer`/`OddjobBuffer`; `PamClient`; `MainLoop`; then the compositions
`LoginUpdate`, `HelperLaunch` with `CommandLine`, and `Reply`; then the proofs
about `PamClient`, the two processes of `HelperLaunch`, `LoginUpdate`,
`MainLoop`, `OddjobBuffer`, `Reply`, `MethodRegistry` and the rest of
`HelperLaunch`.

Next, the model:

1. Registration from inside a handler, which moves the arrays under the
   pointers of the dispatch (`oddjob_dbus.c` 1515).
2. The query for the SELinux context of a caller, a blocking call to the bus
   inside the dispatch (`oddjob_dbus.c` 308-405).
3. Who may call which method, from the policy and the configuration.

Next, the proofs: the same for what these add to the model; and that the helper
of `HelperLaunch` implements what a caller of `BusListeners` takes it for.

## 6. Not modelled, and why

* `selinux.c`: one function, without a caller here, of calls into libselinux.
* Who may call which method (the bus policy and the oddjobd configuration): data
  read by programs that are not here; `PamClient` has only that a request may be
  refused.
* The query for the SELinux context of a caller (`oddjob_dbus.c` 308-405), which
  is compiled in by an option: see the plan.
* How the introspection text is put together, syslog, the wording of errors: no
  property tells them apart.
* Running out of memory: the library ends the process when an allocation fails,
  and no property survives the process.
* `oddjob_resize_array`, `oddjob_strdup` and the other helpers of `util.c` do what
  their names say, or end the process.
* Options of the helper that `getopt` does not know, which end it at once, and a
  carriage return in an argument, which ends a line like a line end.
* The command line clients, one `dbus-send` each, and the build.
* In `mainloop.c`, `mainloop_reset_signal_handlers`, and the flags of a
  descriptor beyond being ready.
