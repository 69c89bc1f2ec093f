---------------------------- MODULE MethodRegistry ----------------------------
(***************************************************************************)
(* The methods of one service of oddjob_dbus.c: the arrays of objects,     *)
(* interfaces and methods that oddjob_dbus_listeners_add_method and        *)
(* _remove_method keep, and the way oddjob_dbus_filter walks them for      *)
(* every message.  Which service a message is for is decided by the        *)
(* connection it came on (BusListeners).                                   *)
(***************************************************************************)
EXTENDS Naturals, Sequences, FiniteSets, SequencesExt

CONSTANTS
  Paths,       \* object paths and patterns a method can be registered under
  Interfaces, Methods, Handlers,
  Arities,     \* values of n_arguments
  CalledPaths, \* object paths clients call
  Matches,     \* fnmatch: the pairs <<path registered, path called>> that match
  Messages,    \* what arrives on the connection of the service
  None,        \* the NULL pointer: no interface given, no handler
  MaxMethods   \* bound: entries registered at a time

\* The parts of a message the filter looks at.
MessageFields ==
  [kind : {"call", "other"}, path : CalledPaths,
   interface : Interfaces \cup {None}, member : Methods,
   strings : Nat, clean : BOOLEAN,      \* string arguments, none with CR or LF
   sender : BOOLEAN, user : BOOLEAN]    \* the sender is known, and has a name

ASSUME RegistryAssumption ==
  /\ Matches \subseteq Paths \X CalledPaths
  /\ Messages \subseteq MessageFields
  /\ None \notin Interfaces \cup Handlers
  /\ Arities \subseteq Nat /\ MaxMethods \in Nat

VARIABLES
  objects,  \* srv->objects, each with its interfaces and their methods
  last      \* the last operation, on what, and what that got: for a message
            \* the handler that ran, or the name of the error

vars == <<objects, last>>

MethodEntries  == [method : Methods, n_arguments : Arities, handler : Handlers \cup {None}]
InterfaceItems == [interface : Interfaces, methods : Seq(MethodEntries)]
ObjectItems    == [path : Paths, interfaces : Seq(InterfaceItems)]

Init == objects = <<>> /\ last = <<>>

(***************************************************************************)
(* Searching an array: the index of the first element of that name, or 0.  *)
(***************************************************************************)
MethodAt(ms, m)     == SelectInSeq(ms, LAMBDA e : e.method = m)
InterfaceAt(fs, i)  == SelectInSeq(fs, LAMBDA f : f.interface = i)
ObjectAt(os, p)     == SelectInSeq(os, LAMBDA o : o.path = p)

(***************************************************************************)
(* add_method: find or append at each level, then set the entry.           *)
(***************************************************************************)
PutMethodAgain(ms, e) == Append(ms, e)            \* mutant for NamesUnique

PutMethod(ms, e) ==
  LET j == MethodAt(ms, e.method)
  IN  IF j = 0 THEN Append(ms, e) ELSE [ms EXCEPT ![j] = e]

PutInterface(fs, i, e) ==
  LET j == InterfaceAt(fs, i)
  IN  IF j = 0 THEN Append(fs, [interface |-> i, methods |-> PutMethod(<<>>, e)])
      ELSE [fs EXCEPT ![j].methods = PutMethod(@, e)]

PutObject(os, p, i, e) ==
  LET j == ObjectAt(os, p)
  IN  IF j = 0 THEN Append(os, [path |-> p, interfaces |-> PutInterface(<<>>, i, e)])
      ELSE [os EXCEPT ![j].interfaces = PutInterface(@, i, e)]

(***************************************************************************)
(* remove_method: nothing when any level does not know its name; else the  *)
(* entry goes, and with it each level that it leaves empty.                *)
(***************************************************************************)
CutMethod(ms, m) ==
  LET j == MethodAt(ms, m) IN IF j = 0 THEN ms ELSE RemoveAt(ms, j)

CutInterface(fs, i, m) ==
  LET j == InterfaceAt(fs, i)
      ms == CutMethod(fs[j].methods, m)
  IN  IF j = 0 THEN fs
      ELSE IF ms = <<>> THEN RemoveAt(fs, j) ELSE [fs EXCEPT ![j].methods = ms]

CutObjectKeepEmpty(os, p, i, m) ==               \* mutant for NoEmptyLevels
  LET j == ObjectAt(os, p)
  IN  IF j = 0 THEN os ELSE [os EXCEPT ![j].interfaces = CutInterface(@, i, m)]

CutObject(os, p, i, m) ==
  LET j == ObjectAt(os, p)
      fs == CutInterface(os[j].interfaces, i, m)
  IN  IF j = 0 THEN os
      ELSE IF fs = <<>> THEN RemoveAt(os, j) ELSE [os EXCEPT ![j].interfaces = fs]

(***************************************************************************)
(* The walk of oddjob_dbus_filter.                                         *)
(***************************************************************************)
FirstMatch(os, called) == SelectInSeq(os, LAMBDA o : <<o.path, called>> \in Matches)

\* guess_interface: every entry of that name in any interface counts.
GuessFirst(fs, m) ==                             \* mutant for the refinement
  SelectInSeq(fs, LAMBDA f : MethodAt(f.methods, m) # 0)

GuessInterface(fs, m) ==
  LET named(a) == {b \in DOMAIN fs[a].methods : fs[a].methods[b].method = m}
      found == UNION {{a} \X named(a) : a \in DOMAIN fs}
  IN  IF Cardinality(found) = 1 THEN (CHOOSE ab \in found : TRUE)[1] ELSE 0

ChosenInterface(fs, c) ==
  IF c.interface = None THEN GuessInterface(fs, c.member)
                        ELSE InterfaceAt(fs, c.interface)

\* The checks between finding the entry and calling its handler, in order.
Checked(e, c) ==
  IF e.handler = None THEN "UnimplementedMethod"
  ELSE IF ~c.user THEN "UnknownUser"
  ELSE IF ~c.clean \/ c.strings # e.n_arguments THEN "InvalidCall"
  ELSE e.handler

Routed(c) ==
  LET o == FirstMatch(objects, c.path)
      fs == objects[o].interfaces
      f == ChosenInterface(fs, c)
      j == MethodAt(fs[f].methods, c.member)
  IN  IF o = 0 THEN "NoObject"
      ELSE IF f = 0 THEN "NoInterface"
      ELSE IF j = 0 THEN "NoMethod"
      ELSE Checked(fs[f].methods[j], c)

(***************************************************************************)
(* Actions.                                                                *)
(***************************************************************************)
\* The pairs of object and interface positions, and the entries there.
Entries ==
  UNION {UNION {{<<objects[a].path, objects[a].interfaces[b].interface, e>> :
                   e \in ToSet(objects[a].interfaces[b].methods)} :
                b \in DOMAIN objects[a].interfaces} :
         a \in DOMAIN objects}

AddMethod(p, i, m, n, h) ==
  /\ Cardinality(Entries) < MaxMethods
  /\ objects' = PutObject(objects, p, i, [method |-> m, n_arguments |-> n, handler |-> h])
  /\ last' = <<"add", [path |-> p, interface |-> i, method |-> m,
                       arity |-> n, handler |-> h], "done">>

RemoveMethod(p, i, m) ==
  /\ objects' = CutObject(objects, p, i, m)
  /\ last' = <<"remove", <<p, i, m>>, "done">>

Filter(c) ==
  /\ last' = <<"filter", c,
               IF c.kind # "call" THEN "NotYetHandled"
               ELSE IF ~c.sender THEN "UnknownSender"
               ELSE Routed(c)>>
  /\ UNCHANGED objects

Next ==
  \/ \E p \in Paths, i \in Interfaces, m \in Methods :
       \/ RemoveMethod(p, i, m)
       \/ \E n \in Arities, h \in Handlers \cup {None} : AddMethod(p, i, m, n, h)
  \/ \E c \in Messages : Filter(c)

Spec == Init /\ [][Next]_vars

(***************************************************************************)
(* Properties.                                                             *)
(***************************************************************************)
TypeOK ==
  /\ objects \in Seq(ObjectItems)
  /\ last # <<>> => last[3] \in Handlers \cup
       {"done", "NotYetHandled", "UnknownSender", "NoObject", "NoInterface",
        "NoMethod", "UnimplementedMethod", "UnknownUser", "InvalidCall"}

\* No array holds a name twice: guess_interface would take the second entry
\* for an ambiguity, and remove_method would leave it behind.
NamesUnique ==
  /\ \A a, b \in DOMAIN objects : objects[a].path = objects[b].path => a = b
  /\ \A a \in DOMAIN objects :
       LET fs == objects[a].interfaces
       IN  /\ \A b, c \in DOMAIN fs : fs[b].interface = fs[c].interface => b = c
           /\ \A b \in DOMAIN fs : \A d, e \in DOMAIN fs[b].methods :
                fs[b].methods[d].method = fs[b].methods[e].method => d = e

\* No level is left empty: an object without methods would still take the
\* calls of every later object whose pattern matches the same path.
NoEmptyLevels ==
  \A a \in DOMAIN objects :
    LET fs == objects[a].interfaces
    IN  fs # <<>> /\ \A b \in DOMAIN fs : fs[b].methods # <<>>

RowOf(p, i, e) ==
  [path |-> p, interface |-> i, method |-> e.method,
   arity |-> e.n_arguments, handler |-> e.handler]

Rows  == {RowOf(x[1], x[2], x[3]) : x \in Entries}
Order == [a \in DOMAIN objects |-> objects[a].path]

\* The arrays and the walk are the table and the verdicts of MethodTable,
\* whatever was added, replaced and removed before.
Table == INSTANCE MethodTable WITH table <- Rows, order <- Order

ImplementsTable == Table!Spec
=============================================================================
