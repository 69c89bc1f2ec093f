-------------------------------- MODULE Reply --------------------------------
(***************************************************************************)
(* What becomes of the answer of a handler of oddjob_dbus.c: a number and  *)
(* the contents of two buffers, a text, an error or an introspection text  *)
(* turn into the message the caller gets and, sometimes, into a signal     *)
(* that repeats it, and oddjob_dbus_call_bus_methodv takes the message     *)
(* apart again.  One of the two buffers is that of OddjobBuffer with all   *)
(* its history, the other holds a plain text.                              *)
(***************************************************************************)
EXTENDS Integers, OddjobBuffer, FiniteSetsExt

CONSTANTS
  Results,  \* result codes
  Texts,    \* what is said otherwise than from the buffer, NULs included
  NotUTF8,  \* bytes no valid text has
  None,     \* nothing sent, a pointer left alone
  Garbage   \* a string of whatever is in memory

ASSUME ReplyAssumption ==
  /\ NotUTF8 \subseteq Bytes /\ Texts \subseteq Seq(Bytes)
  /\ Results \subseteq Int /\ Garbage # None
  /\ None \notin Seq(Bytes) /\ Garbage \notin Seq(Bytes)
  /\ None \notin [kind : {"return", "error", "introspection"}, result : Results \cup {0, -1},
                  out : Seq(Bytes), err : Seq(Bytes) \cup {None}, interface : BOOLEAN]

VARIABLES
  clean,   \* the buffer was only appended to and used up in part
  answer,  \* what the handler has answered, None before
  reply,   \* the message to the caller
  signal,  \* the arguments of the signal to the caller
  daemon   \* "running" or "aborted"

buffer   == <<live, size, spare, used, data>>
messages == <<answer, reply, signal, daemon>>
replyVars == <<buffer, clean, messages>>

ReplyInit ==
  /\ Init /\ clean = TRUE
  /\ answer = None /\ reply = None /\ signal = None /\ daemon = "running"

\* Working on the buffer.  An append makes up for what happened before it.
Fill ==
  /\ daemon = "running" /\ answer = None
  /\ \/ \E n \in Sizes : New(n) /\ clean' = TRUE
     \/ \E bs \in Strings : AppendBytes(bs) /\ clean' = TRUE
     \/ \E bs \in Strings : Prepend(bs) /\ clean' = FALSE
     \/ \E n \in Counts : Consume(n) /\ clean' = (clean /\ (n < used \/ used = 0))
     \/ Clear /\ clean' = (clean /\ used = 0)
     \/ Free /\ clean' = TRUE
  /\ UNCHANGED messages

(***************************************************************************)
(* What is sent is not the contents by their length but the string at an   *)
(* address, which ends at the first NUL that the memory m has from there   *)
(* on.  The test before is made of the output buffer alone, of one byte.   *)
(***************************************************************************)
CStringAt(m, at) ==
  LET nuls == {i \in DOMAIN m : i >= at /\ m[i] = NUL}
  IN  IF nuls = {} \/ \E i \in at .. Min(nuls) - 1 : m[i] = Junk
        THEN Garbage
        ELSE [i \in 1 .. Min(nuls) - at |-> m[at + i - 1]]

CString       == CStringAt(data, spare)
Pointed(text) == CStringAt(Append(text, NUL), 1)

LastByte == data[spare + used - 1]               \* mutant for AbortsKnown
Behind == data[spare + used]

MayAbort  == used > 0 /\ Behind # NUL
MustAbort == used > 0 /\ Behind \notin {NUL, Junk}

(***************************************************************************)
(* Arguments.  libdbus refuses a string that is not UTF-8, and garbage may *)
(* be such a one: it aborts, or adds no argument, which nobody notices.    *)
(***************************************************************************)
IntArg(n)    == [type |-> "int32", val |-> n]
StringArg(s) == [type |-> "string", val |-> s]

Valid(s)   == \A i \in DOMAIN s : s[i] \notin NotUTF8
MayPass(s) == s # Garbage => Valid(s)
MayFail(s) == s # Garbage => ~Valid(s)

Body(r, strings, kept) ==
  <<IntArg(r)>> \o (IF 1 \in kept THEN <<StringArg(strings[1])>> ELSE <<>>)
                \o (IF 2 \in kept THEN <<StringArg(strings[2])>> ELSE <<>>)

Return(body) == [error |-> FALSE, body |-> body]

(***************************************************************************)
(* The reply, and after it the signal: asked for, or the call named no     *)
(* interface, when libdbus refuses to make one.                            *)
(***************************************************************************)
Send(r, strings, interface, also) ==
  \/ \E kept \in SUBSET DOMAIN strings :
       /\ \A i \in DOMAIN strings :
            IF i \in kept THEN MayPass(strings[i]) ELSE MayFail(strings[i])
       /\ reply' = Return(Body(r, strings, kept))
       /\ IF interface
            THEN /\ signal' = IF also THEN Body(r, strings, kept) ELSE None
                 /\ UNCHANGED daemon
            ELSE signal' = None /\ daemon' \in {"running", "aborted"}
  \/ /\ \E i \in DOMAIN strings : MayFail(strings[i])
     /\ daemon' = "aborted" /\ UNCHANGED <<reply, signal>>

Abort == daemon' = "aborted" /\ UNCHANGED <<reply, signal>>

\* What the handler means to say.
Meant(kind, r, out, err, interface) ==
  [kind |-> kind, result |-> r, out |-> out, err |-> err, interface |-> interface]

Answering == daemon = "running" /\ answer = None /\ UNCHANGED <<buffer, clean>>

\* oddjob_dbus_send_message_response_success: the buffer holds the output of
\* the helper, or its errors, and "other" is in the buffer for the rest.
RespondOutput(r, other, interface, also) ==
  /\ Answering /\ live
  /\ answer' = Meant("return", r, Contents, other, interface)
  /\ \/ MayAbort /\ Abort
     \/ ~MustAbort /\ Send(r, <<CString, Pointed(other)>>, interface, also)

RespondErrors(r, other, interface, also) ==
  /\ Answering /\ live
  /\ answer' = Meant("return", r, other, Contents, interface)
  /\ Send(r, <<Pointed(other), CString>>, interface, also)

\* oddjob_dbus_send_message_response_text, also without a text.
RespondText(r, text, interface, also) ==
  /\ Answering
  /\ answer' = Meant("return", r, text, << >>, interface)
  /\ Send(r, <<Pointed(text), << >> >>, interface, also)

\* oddjob_dbus_send_message_response_error and _introspection_text.
RespondError(text) ==
  /\ Answering
  /\ answer' = Meant("error", 0, text, text, TRUE)
  /\ reply' = [error |-> TRUE, body |-> <<StringArg(Pointed(text))>>]
  /\ UNCHANGED <<signal, daemon>>

RespondIntrospection(text) ==
  /\ Answering
  /\ answer' = Meant("introspection", -1, text, None, TRUE)
  /\ reply' = Return(<<StringArg(Pointed(text))>>)
  /\ UNCHANGED <<signal, daemon>>

\* The handler is done with this call.
NextCall ==
  /\ daemon = "running" /\ answer # None
  /\ answer' = None /\ reply' = None /\ signal' = None
  /\ UNCHANGED <<buffer, clean, daemon>>

Respond ==
  \E r \in Results, text \in Texts :
    \/ RespondError(text) \/ RespondIntrospection(text)
    \/ \E interface, also \in BOOLEAN :
         \/ RespondOutput(r, text, interface, also)
         \/ RespondErrors(r, text, interface, also)
         \/ RespondText(r, text, interface, also)

ReplyNext == Fill \/ Respond \/ NextCall

ReplySpec == ReplyInit /\ [][ReplyNext]_replyVars

(***************************************************************************)
(* The caller: oddjob_dbus_message_from_message takes the number from the  *)
(* first argument and every string for an argument, and what the caller    *)
(* did not get leaves its pointers alone.                                  *)
(***************************************************************************)
Result(body) ==
  CASE body = << >> -> 0
    [] body # << >> /\ body[1].type = "int32" -> body[1].val
    [] OTHER -> -1

ArgumentsOf(body) ==
  LET args[n \in 0 .. Len(body)] ==
        CASE n = 0 -> <<>>
          [] n > 0 /\ body[n].type = "string" -> Append(args[n - 1], body[n].val)
          [] OTHER -> args[n - 1]
  IN  args[Len(body)]

ArgumentOr(args, n) == IF n <= Len(args) THEN args[n] ELSE None

\* oddjob_dbus_call_bus_methodv, for which an error is not a message.
Heard ==
  LET args == ArgumentsOf(reply.body) IN
  [ret    |-> IF reply.error THEN -1 ELSE 0,
   result |-> IF reply.error THEN 0 ELSE Result(reply.body),
   output |-> ArgumentOr(args, 1),
   error  |-> ArgumentOr(args, IF reply.error THEN 1 ELSE 2)]

(***************************************************************************)
(* Properties.                                                             *)
(***************************************************************************)
\* What is heard of a text: all of it, or all in front of a NUL in it.
Spoken(heard, text) ==
  \E n \in 0 .. Len(text) :
    /\ heard = SubSeq(text, 1, n)
    /\ \A i \in 1 .. n : text[i] # NUL
    /\ n < Len(text) => text[n + 1] = NUL

\* That much of it is UTF-8.
Speakable(text) ==
  \A i \in DOMAIN text :
    text[i] \in NotUTF8 => \E j \in 1 .. i - 1 : text[j] = NUL

Sound ==
  clean /\ Speakable(answer.out) /\ (answer.err = None \/ Speakable(answer.err))

\* Whatever the buffer went through before it was last appended to, and if a
\* part of it was used up since, the caller reads back the number, the output
\* and the errors of the handler, each text whole or, if it has a NUL in it,
\* up to the first: never more, none for another, no error for a result and no
\* number from a text.  So does whoever gets the signal.  Nobody is told of a
\* text that was cut (oddjob_dbus.c 1274 looks at its end only).
ReadsBack ==
  answer # None /\ reply # None /\ Sound =>
    /\ Heard.ret = IF answer.kind = "error" THEN -1 ELSE 0
    /\ Heard.result = answer.result
    /\ Spoken(Heard.output, answer.out)
    /\ IF answer.err = None THEN Heard.error = None ELSE Spoken(Heard.error, answer.err)
    /\ signal # None => signal = reply.body

\* An answer ends the daemon in three ways only: what it would send is no
\* UTF-8, the call named no interface, or the buffer was last prepended to,
\* cleared or used up, and not appended to since.
AbortsKnown ==
  daemon = "aborted" => ~Sound \/ ~answer.interface
=============================================================================
