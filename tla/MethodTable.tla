----------------------------- MODULE MethodTable -----------------------------
(***************************************************************************)
(* What a service of oddjob_dbus.c promises its embedding program and its  *)
(* clients: a table from (object path, interface, method) to a handler,    *)
(* and one verdict per message.  How the table is laid out in memory is    *)
(* MethodRegistry.                                                         *)
(***************************************************************************)
EXTENDS Naturals, Sequences, SequencesExt

CONSTANTS
  Paths, Interfaces, Methods, Handlers, Arities, Matches, Messages, None

VARIABLES
  table,   \* the rows registered
  order,   \* the paths with a method, the earliest registered first
  last     \* the last operation, on what, and what that got

Init == table = {} /\ order = << >> /\ last = << >>

Row(p, i, m, n, h) ==
  [path |-> p, interface |-> i, method |-> m, arity |-> n, handler |-> h]

IsFor(r, p, i, m) == r.path = p /\ r.interface = i /\ r.method = m

\* Registering a triple again replaces its arity and handler.
Register(p, i, m, n, h) ==
  /\ table' = {r \in table : ~IsFor(r, p, i, m)} \cup {Row(p, i, m, n, h)}
  /\ order' = IF \E r \in table : r.path = p THEN order ELSE Append(order, p)
  /\ last' = <<"add", Row(p, i, m, n, h), "done">>

\* A path loses its rank with its last method.
Unregister(p, i, m) ==
  /\ table' = {r \in table : ~IsFor(r, p, i, m)}
  /\ order' = IF \E r \in table' : r.path = p THEN order ELSE RemoveFirst(order, p)
  /\ last' = <<"remove", <<p, i, m>>, "done">>

\* The rows of the object of a call: of the paths that match, the earliest
\* registered.
ObjectRows(c) ==
  LET first == SelectInSeq(order, LAMBDA q : <<q, c.path>> \in Matches)
  IN  {r \in table : first # 0 /\ r.path = order[first]}

\* Of these, the rows of the interface of the call: the one it names, or else
\* the only one that has the method.
InterfaceRows(rows, c) ==
  LET offering == {r.interface : r \in {r \in rows : r.method = c.member}}
  IN  {r \in rows : IF c.interface = None THEN offering = {r.interface}
                                          ELSE r.interface = c.interface}

MethodRows(c) == {r \in InterfaceRows(ObjectRows(c), c) : r.method = c.member}

\* A handler may run for a call from a known user, in its own arity and free of
\* line ends, for exactly the triple it was registered under.
MayRun(r, c) ==
  /\ c.kind = "call" /\ c.sender /\ c.user /\ c.clean
  /\ r.handler # None /\ c.strings = r.arity

\* What there is to complain about in a message, in the order it is noticed.
Complaints ==
  <<"NotYetHandled", "UnknownSender", "NoObject", "NoInterface", "NoMethod",
    "UnimplementedMethod", "UnknownUser", "InvalidCall">>

Applies(complaint, c) ==
  CASE complaint = "NotYetHandled"       -> c.kind # "call"
    [] complaint = "UnknownSender"       -> ~c.sender
    [] complaint = "NoObject"            -> ObjectRows(c) = {}
    [] complaint = "NoInterface"         -> InterfaceRows(ObjectRows(c), c) = {}
    [] complaint = "NoMethod"            -> MethodRows(c) = {}
    [] complaint = "UnimplementedMethod" -> \A r \in MethodRows(c) : r.handler = None
    [] complaint = "UnknownUser"         -> ~c.user
    [] complaint = "InvalidCall"         -> \A r \in MethodRows(c) : ~MayRun(r, c)

\* A message gets the first complaint that applies.
Complain(c) ==
  /\ \E k \in DOMAIN Complaints :
       /\ last' = <<"filter", c, Complaints[k]>>
       /\ Applies(Complaints[k], c)
       /\ \A j \in 1 .. k - 1 : ~Applies(Complaints[j], c)
  /\ UNCHANGED <<table, order>>

\* A handler runs for a call that it may run for.
Run(h, c) ==
  /\ last' = <<"filter", c, h>>
  /\ \E r \in MethodRows(c) : r.handler = h /\ MayRun(r, c)
  /\ UNCHANGED <<table, order>>

Next ==
  \/ \E p \in Paths, i \in Interfaces, m \in Methods :
       \/ Unregister(p, i, m)
       \/ \E n \in Arities, h \in Handlers \cup {None} : Register(p, i, m, n, h)
  \/ \E c \in Messages : Complain(c) \/ \E h \in Handlers : Run(h, c)

Spec == Init /\ [][Next]_<<table, order, last>>
=============================================================================
