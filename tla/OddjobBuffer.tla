----------------------------- MODULE OddjobBuffer -----------------------------
(***************************************************************************)
(* src/src/buffer.c: an allocation of "size" bytes in which "spare" bytes  *)
(* already used up are followed by "used" bytes of contents, then, if all  *)
(* is well, by a NUL.  The contents are bytes of any value, NULs among     *)
(* them.  oddjob_dbus.c sends what it finds in two such buffers as the     *)
(* strings of a reply.                                                     *)
(***************************************************************************)
EXTENDS Naturals, Sequences

CONSTANTS
  Bytes,    \* what a text is made of; NUL may be one of them
  NUL,
  Junk,     \* what malloc leaves in memory
  Strings,  \* texts that are appended and prepended
  Counts,   \* lengths that are consumed
  Sizes,    \* values of initial_size
  Block,    \* 1024
  MaxUsed   \* bound: bytes in use

ASSUME BufferAssumption ==
  /\ Junk \notin Bytes \cup {NUL}
  /\ Strings \subseteq Seq(Bytes)
  /\ Counts \subseteq Nat /\ Sizes \subseteq Nat
  /\ Block \in Nat \ {0} /\ MaxUsed \in Nat

VARIABLES live, size, spare, used, data

vars == <<live, size, spare, used, data>>

Memory(n) == [0 .. n - 1 -> Bytes \cup {NUL, Junk}]

Init == live = FALSE /\ size = 0 /\ spare = 0 /\ used = 0 /\ data = [i \in {} |-> NUL]

Contents == [i \in 1 .. used |-> data[spare + i - 1]]

\* memcpy and memmove of a text to an offset of the memory m.
Copied(m, at, bs) ==
  [i \in DOMAIN m |-> IF i \in at .. at + Len(bs) - 1 THEN bs[i - at + 1] ELSE m[i]]

New(n) ==
  /\ ~live /\ live' = TRUE
  /\ size' = IF n < Block THEN Block ELSE n
  /\ spare' = 0 /\ used' = 0
  /\ data' = [[i \in 0 .. size' - 1 |-> Junk] EXCEPT ![0] = NUL]

(***************************************************************************)
(* oddjob_buffer_assure_avail: the size, and the memory, in which n more   *)
(* bytes have room.  Only the bytes in use move to a new allocation.       *)
(***************************************************************************)
Blocks(n) == (n + Block - 1) \div Block

Assured(n) ==
  LET need == spare + used + n
  IN  IF need > size THEN (Blocks(need) + 1) * Block ELSE size

AssuredData(n) ==
  IF Assured(n) = size THEN data
  ELSE [i \in 0 .. Assured(n) - 1 |-> IF i < spare + used THEN data[i] ELSE Junk]

\* Mutants: no room is asked for the NUL (TypeOK); it is not written.
AppendTight(bs) ==
  /\ live /\ spare + used + Len(bs) < MaxUsed
  /\ size' = Assured(Len(bs))
  /\ used' = used + Len(bs)
  /\ data' = [Copied(AssuredData(Len(bs)), spare + used, bs)
                EXCEPT ![spare + used + Len(bs)] = NUL]
  /\ UNCHANGED <<live, spare>>

AppendOpen(bs) ==                                \* mutant for ReadsBack
  /\ live /\ spare + used + Len(bs) < MaxUsed
  /\ size' = Assured(Len(bs) + 1)
  /\ used' = used + Len(bs)
  /\ data' = Copied(AssuredData(Len(bs) + 1), spare + used, bs)
  /\ UNCHANGED <<live, spare>>

AppendBytes(bs) ==
  /\ live /\ spare + used + Len(bs) < MaxUsed
  /\ size' = Assured(Len(bs) + 1)
  /\ used' = used + Len(bs)
  /\ data' = [Copied(AssuredData(Len(bs) + 1), spare + used, bs)
                EXCEPT ![spare + used + Len(bs)] = NUL]
  /\ UNCHANGED <<live, spare>>

(***************************************************************************)
(* oddjob_buffer_prepend, over bytes used up or by moving the contents.    *)
(***************************************************************************)
PrependSpare(bs) ==
  /\ live /\ spare > Len(bs)
  /\ data' = Copied(data, spare - Len(bs), bs)
  /\ spare' = spare - Len(bs)
  /\ UNCHANGED <<live, size, used>>

PrependMove(bs) ==
  /\ live /\ spare <= Len(bs) /\ spare + used + Len(bs) < MaxUsed
  /\ size' = Assured(Len(bs) + 1)
  /\ data' = Copied(AssuredData(Len(bs) + 1), spare, bs \o Contents)
  /\ used' = used + Len(bs)
  /\ UNCHANGED <<live, spare>>

Prepend(bs) == PrependSpare(bs) \/ PrependMove(bs)

ConsumeLess(n) ==                                \* mutant for ImplementsText
  /\ live
  /\ used' = IF n < used THEN used - n ELSE 0
  /\ UNCHANGED <<live, size, spare, data>>

Consume(n) ==
  /\ live
  /\ IF n < used
       THEN spare' = spare + n /\ used' = used - n
       ELSE used' = 0 /\ UNCHANGED spare
  /\ UNCHANGED <<live, size, data>>

Clear ==
  /\ live /\ used' = 0
  /\ UNCHANGED <<live, size, spare, data>>

Free ==
  /\ live /\ live' = FALSE
  /\ size' = 0 /\ spare' = 0 /\ used' = 0 /\ data' = [i \in {} |-> NUL]

Next ==
  \/ Clear \/ Free
  \/ \E n \in Sizes : New(n)
  \/ \E bs \in Strings : AppendBytes(bs) \/ Prepend(bs)
  \/ \E n \in Counts : Consume(n)

Spec == Init /\ [][Next]_vars

(***************************************************************************)
(* Properties.                                                             *)
(***************************************************************************)
\* The length and the offset stay inside the allocation, and one byte behind
\* the contents too: reading the NUL there, as oddjob_dbus.c does, is legal
\* after any sequence of growing, using up and moving.
TypeOK ==
  /\ live \in BOOLEAN /\ size \in Nat /\ spare \in Nat /\ used \in Nat
  /\ data \in Memory(size)
  /\ live => spare + used < size

\* The contents are the text of TextBuffer whatever the memory went through.
Text == INSTANCE TextBuffer WITH text <- Contents

ImplementsText == Text!Spec
=============================================================================
