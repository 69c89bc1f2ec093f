---------------------------- MODULE HelperLaunch ----------------------------
(***************************************************************************)
(* How a helper comes by its options and its arguments: the configured     *)
(* command line is split by oddjob_parse_args, main takes its options from *)
(* it, and the arguments of the method call come through a pipe, one per   *)
(* line, written by retry_write and read by oddjob_collect_args.  Then the *)
(* helper is that of GpupdateHelper.  oddjobd, which does the first half,  *)
(* is not in this repository, but the functions it calls are.              *)
(***************************************************************************)
EXTENDS GpupdateHelper, CommandLine, FiniteSetsExt

CONSTANTS
  NameLetters, \* the characters of a name
  Program,     \* the path of the helper, a word
  QuietWord,   \* the word "-q"
  ForceWord,   \* the word "-f"
  LineEnd,
  Chunk,       \* what one fgets reads at most: BUFSIZ - 1
  PipeSize,
  MaxQuoted, MaxRaw  \* bounds: characters of a command line

\* oddjob_dbus_filter lets no argument with a line end through.  What begins a
\* name may be one as well, though it need not be known to the system.
ASSUME LaunchAssumption ==
  /\ Chunk \in Nat \ {0} /\ PipeSize \in Nat /\ PipeSize >= Chunk
  /\ LineEnd \notin NameLetters
  /\ Empty = << >> /\ Users \subseteq Seq(NameLetters)
  /\ \A u \in Users : \A n \in 1 .. Len(u) : SubSeq(u, 1, n) \in Users
  /\ None \notin Seq(NameLetters)
  /\ MaxQuoted \in Nat /\ MaxRaw \in Nat

VARIABLES
  stage,    \* "configure", "transfer" or "run"
  line,     \* the command line, as far as it is written
  words,    \* what it is meant to say; None when it is written at random
  wanted,   \* the options it is meant to give, None likewise
  call,     \* the arguments of the method call
  sent,     \* start in retry_write
  pipe,     \* what was written and not yet read
  closed,   \* the writing end is
  broken,   \* retry_write gave up
  thisline  \* in oddjob_collect_args

configuration == <<line, words, wanted>>
transfer      == <<call, sent, pipe, closed, broken, thisline>>
launchVars    == <<vars, stage, configuration, transfer>>

\* Users and the texts on the pipe are sequences of characters here.
Names == Users \cup {Empty}

LaunchInit ==
  /\ stage = "configure"
  /\ line = << >> /\ words = << << >> >> /\ wanted = None
  /\ call = << >> /\ sent = 0 /\ pipe = << >> /\ closed = FALSE
  /\ broken = FALSE /\ thisline = << >>
  /\ lines = << >> /\ rest = None /\ quiet = FALSE /\ force = FALSE
  /\ account = [u \in Users |-> "fine"] /\ applier = "missing"
  /\ sigchld = "default" /\ user = None
  /\ pc = [parent |-> "collect", child |-> "absent"]
  /\ code = [p \in Processes |-> None]
  /\ buffered = [p \in Processes |-> 0] /\ stdout = << >> /\ ran = None

(***************************************************************************)
(* Writing the configuration: with a meaning, every character in one of    *)
(* the ways that keep it, or at random.                                    *)
(***************************************************************************)
Configuring == stage = "configure" /\ UNCHANGED <<vars, stage, wanted, transfer>>

WriteMeant ==
  /\ Configuring /\ words # None
  /\ \/ \E c \in Characters : \E w \in Ways(c) :
          /\ line' = line \o w
          /\ words' = [words EXCEPT ![Len(words)] = Append(@, c)]
     \/ line' = Append(line, Blank) /\ words' = Append(words, << >>)
  /\ Len(line') <= MaxQuoted

WriteAtRandom ==
  /\ Configuring /\ Len(line) < MaxRaw
  /\ \E c \in Characters : line' = Append(line, c)
  /\ words' = None

StartOver ==
  /\ Configuring /\ line # << >>
  /\ line' = << >> /\ words' = << << >> >>

Says(argv, word) == \E i \in 2 .. Len(argv) : argv[i] = word

\* A word without characters is none.
MeantWord(meant, word) == IF word = << >> THEN meant ELSE Append(meant, word)

MeantWords(ws) ==
  LET upTo[n \in 0 .. Len(ws)] ==
        IF n = 0 THEN << >> ELSE MeantWord(upTo[n - 1], ws[n])
  IN  upTo[Len(ws)]

(***************************************************************************)
(* A call arrives: the helper starts, in whatever environment it is, and   *)
(* its main sees the options.  A line with an error starts nothing.        *)
(***************************************************************************)
Launch ==
  /\ stage = "configure"
  /\ LET parsed == ParseArgs(line) IN
       /\ parsed.error = NoError /\ parsed.argv # << >> /\ parsed.argv[1] = Program
       /\ quiet' = Says(parsed.argv, QuietWord) /\ force' = Says(parsed.argv, ForceWord)
  /\ wanted' = IF words = None THEN None
               ELSE [quiet |-> Says(MeantWords(words), QuietWord),
                     force |-> Says(MeantWords(words), ForceWord)]
  /\ stage' = "transfer" /\ line' = << >> /\ words' = None
  /\ call' \in BoundedSeq(Names, MaxLines)
  /\ \E a \in Accounts : account' = [u \in Users |-> a]
  /\ applier' \in Files /\ sigchld' \in {"default", "ignored"}
  /\ UNCHANGED <<lines, rest, user, pc, code, buffered, stdout, ran,
                 sent, pipe, closed, broken, thisline>>

(***************************************************************************)
(* retry_write: it writes what there is room for, tries again when there   *)
(* is none, and gives up when nothing was written or on another error.     *)
(***************************************************************************)
Stream == FlattenSeq([i \in DOMAIN call |-> Append(call[i], LineEnd)])

Room == Min({PipeSize - Len(pipe), Len(Stream) - sent})

WriteSkipping(n) ==                              \* mutant for Delivered
  /\ stage = "transfer" /\ ~closed
  /\ pipe' = pipe \o SubSeq(Stream, 1, n)
  /\ sent' = sent + n
  /\ UNCHANGED <<vars, stage, configuration, call, closed, broken, thisline>>

Write(n) ==
  /\ stage = "transfer" /\ ~closed
  /\ pipe' = pipe \o SubSeq(Stream, sent + 1, sent + n)
  /\ sent' = sent + n
  /\ UNCHANGED <<vars, stage, configuration, call, closed, broken, thisline>>

WriteDone ==
  /\ stage = "transfer" /\ ~closed /\ sent = Len(Stream)
  /\ closed' = TRUE
  /\ UNCHANGED <<vars, stage, configuration, call, sent, pipe, broken, thisline>>

WriteStartsOver ==                               \* mutant for EachStepCounts
  /\ stage = "transfer" /\ ~closed /\ sent < Len(Stream)
  /\ sent' = 0
  /\ UNCHANGED <<vars, stage, configuration, call, pipe, closed, broken, thisline>>

WriteFails ==
  /\ stage = "transfer" /\ ~closed /\ sent < Len(Stream)
  /\ closed' = TRUE /\ broken' = TRUE
  /\ UNCHANGED <<vars, stage, configuration, call, sent, pipe, thisline>>

(***************************************************************************)
(* oddjob_collect_args: fgets takes a line or as much of one as fits.      *)
(***************************************************************************)
HasLineEnd(s) == Contains(s, LineEnd)

UpToLineEnd(s) == SubSeq(s, 1, Min({i \in DOMAIN s : s[i] = LineEnd}))

Fgets ==
  LET l == IF HasLineEnd(pipe) THEN UpToLineEnd(pipe) ELSE pipe
  IN  SubSeq(l, 1, Min({Len(l), Chunk}))

CanReadLine ==                                   \* mutant for NeitherWaits
  HasLineEnd(pipe) \/ (closed /\ pipe # << >>)

CanRead == HasLineEnd(pipe) \/ Len(pipe) >= Chunk \/ (closed /\ pipe # << >>)

ReadPart ==
  /\ stage = "transfer" /\ CanRead /\ ~HasLineEnd(Fgets)
  /\ thisline' = thisline \o Fgets
  /\ pipe' = SubSeq(pipe, Len(Fgets) + 1, Len(pipe))
  /\ UNCHANGED <<vars, stage, configuration, call, sent, closed, broken>>

\* Mutant for HelperEnds: no more is read than the helper has use for.
ReadEndUnlessMany ==
  /\ stage = "transfer" /\ CanRead /\ HasLineEnd(Fgets) /\ lines = << >>
  /\ lines' = Append(lines, Front(thisline \o Fgets))
  /\ thisline' = << >>
  /\ pipe' = SubSeq(pipe, Len(Fgets) + 1, Len(pipe))
  /\ UNCHANGED <<rest, quiet, force, account, sigchld, applier, user, pc, code,
                 buffered, stdout, ran, stage, configuration, call, sent, closed,
                 broken>>

ReadEnd ==
  /\ stage = "transfer" /\ CanRead /\ HasLineEnd(Fgets)
  /\ lines' = Append(lines, Front(thisline \o Fgets))
  /\ thisline' = << >>
  /\ pipe' = SubSeq(pipe, Len(Fgets) + 1, Len(pipe))
  /\ UNCHANGED <<rest, quiet, force, account, sigchld, applier, user, pc, code,
                 buffered, stdout, ran, stage, configuration, call, sent, closed,
                 broken>>

EndOfInput ==
  /\ stage = "transfer" /\ closed /\ pipe = << >>
  /\ rest' = IF thisline = << >> THEN None ELSE thisline
  /\ stage' = "run" /\ thisline' = << >> /\ sent' = 0
  /\ UNCHANGED <<lines, quiet, force, account, sigchld, applier, user, pc, code,
                 buffered, stdout, ran, configuration, call, pipe, closed, broken>>

Writer == WriteDone \/ WriteFails \/ \E n \in 1 .. Room : Write(n)
Reader == ReadPart \/ ReadEnd \/ EndOfInput
Helper == stage = "run" /\ Next /\ UNCHANGED <<stage, configuration, transfer>>

LaunchNext ==
  \/ WriteMeant \/ WriteAtRandom \/ StartOver \/ Launch
  \/ Writer \/ Reader \/ Helper

LaunchSpec == LaunchInit /\ [][LaunchNext]_launchVars

\* oddjobd and the two processes of the helper are scheduled, and an applier
\* ends.  The writer finds room again after the reader has read.
FairLaunchSpec ==
  /\ LaunchSpec /\ WF_launchVars(Writer) /\ WF_launchVars(Reader)
  /\ WF_launchVars(Helper /\ Parent) /\ WF_launchVars(Helper /\ Child)

(***************************************************************************)
(* Properties.                                                             *)
(***************************************************************************)
\* Every list of words, with any mixture of the ways of quoting that Ways has
\* (no letter or blank is escaped), is parsed back to itself, and a blank
\* behind a part that parses without an error separates it from what follows,
\* whether that parses or not.
ParsesAsMeant ==
  /\ words # None /\ stage = "configure" =>
       ParseArgs(line) = [error |-> NoError, argv |-> MeantWords(words)]
  /\ SumOfParts(line)

\* The arguments of the call are what the helper collects, however the writes
\* and the reads cut them and wherever a chunk ends.  When the writer gives
\* up, they are the first of them, the last of these cut short.
Delivered ==
  stage = "run" =>
    /\ ~broken => lines = call /\ rest = None
    /\ IsPrefix(lines, call)
    /\ rest # None => Len(lines) < Len(call) /\ IsPrefix(rest, call[Len(lines) + 1])

\* From the configuration and the call to the applier: it is forced as the
\* command line says, and runs for the user the call names, for the computer
\* when the call names none, and not at all when it says more.
RunsAsConfigured ==
  ran # None /\ ~broken =>
    /\ wanted # None => ran.force = wanted.force
    /\ call = << >> \/ call = <<ran.user>>
    /\ call = << >> => ran.user = NoUser

\* The writer of the arguments and their reader never wait for each other: with
\* no line end in the pipe, and too little for fgets, there is room or nothing
\* left to write, however long a name is.
NeitherWaits ==
  stage = "transfer" =>
    \/ CanRead \/ (closed /\ pipe = << >>)
    \/ ~closed /\ (Room > 0 \/ sent = Len(Stream))

\* Nor do they go in circles: each step of either leaves less to write, to read
\* or to close, errors and tries again included, until the helper has its
\* arguments.
Unfinished == 2 * (Len(Stream) - sent) + Len(pipe) + (IF closed THEN 0 ELSE 1)

EachStepCounts ==
  [][stage = "transfer" /\ stage' = "transfer" =>
       Unfinished' \in 0 .. Unfinished - 1]_launchVars

\* A helper that was started ends, if only its applier does: neither a full
\* pipe nor a call with too many arguments keeps it.
HelperEnds == stage = "transfer" ~> pc["parent"] \in {"ended", "crashed"}
=============================================================================
