---------------------------- MODULE GpupdateHelper ----------------------------
(***************************************************************************)
(* The helper program src/src/gpupdate.c.  oddjobd starts it for a method  *)
(* call, writes the arguments of the call to its standard input, collects  *)
(* its standard output for the reply and takes its exit code for the       *)
(* outcome.  It forks, and its child either becomes the policy applier or, *)
(* when the exec fails, returns from apply_gpo, gpupdate and main like its *)
(* parent, with its own copy of what stdio has buffered.                   *)
(***************************************************************************)
EXTENDS Naturals, Sequences, FiniteSets, SequencesExt

CONSTANTS
  Users,    \* names oddjobd can pass on, the empty string not among them
  Empty,    \* the empty string
  NoUser,   \* the NULL user: the policies of the computer
  None,     \* no unterminated rest; nothing was executed; no exit code
  MaxLines  \* bound: lines on the standard input

ASSUME HelperAssumption ==
  /\ Empty \notin Users /\ NoUser \notin Users \cup {Empty}
  /\ None \notin Users \cup {Empty, NoUser} /\ None \notin 0 .. 2
  /\ MaxLines \in Nat

\* HANDLER_FAILURE and HANDLER_INVALID_INVOCATION.
Failure == 1
InvalidInvocation == 2

Processes == {"parent", "child"}

VARIABLES
  lines,    \* the lines of the standard input that end in a line end
  rest,     \* what follows the last of them
  quiet, force,
  account,  \* what getpwnam knows of a user
  applier,  \* what the path of the applier names
  sigchld,  \* the disposition of SIGCHLD the helper inherited
  user,     \* the argument of gpupdate
  pc,       \* where each process is
  code,     \* what its main returns
  buffered, \* messages in its stdio buffer
  stdout,   \* what the reply is made of
  ran       \* what the applier was executed with

given == <<lines, rest, quiet, force, account, sigchld>>
vars  == <<given, applier, user, pc, code, buffered, stdout, ran>>

Accounts == {"fine", "weirdHome", "nullHome", "unknown"}
Files    == {"executable", "notExecutable", "notAFile", "missing"}

TypeOK ==
  /\ lines \in Seq(Users \cup {Empty})
  /\ rest \in Users \cup {None}
  /\ quiet \in BOOLEAN /\ force \in BOOLEAN
  /\ account \in [Users -> Accounts]
  /\ applier \in Files
  /\ sigchld \in {"default", "ignored"}
  /\ user \in Users \cup {NoUser, None}
  /\ pc \in [Processes -> {"absent", "collect", "announce", "stat", "fork", "wait",
                           "exec", "applier", "exit", "ended", "crashed"}]
  /\ code \in [Processes -> (0 .. 2) \cup {None}]
  /\ buffered \in [Processes -> 0 .. 1]
  /\ stdout \in Seq({"message", "output"})
  /\ ran \in [user : Users \cup {NoUser}, force : BOOLEAN] \cup {None}

Init ==
  /\ lines \in BoundedSeq(Users \cup {Empty}, MaxLines)
  /\ rest \in Users \cup {None}
  /\ quiet \in BOOLEAN /\ force \in BOOLEAN
  /\ account \in [Users -> Accounts]
  /\ applier \in Files
  /\ sigchld \in {"default", "ignored"}
  /\ user = None
  /\ pc = [parent |-> "collect", child |-> "absent"]
  /\ code = [p \in Processes |-> None]
  /\ buffered = [p \in Processes |-> 0]
  /\ stdout = <<>>
  /\ ran = None

\* oddjob_collect_args: a line is an argument, and so is the rest.
Arguments == IF rest = None THEN lines ELSE Append(lines, rest)

\* A rest behind other lines takes the last element of the array, where its
\* reader expects a NULL.
Overrun == lines # <<>> /\ rest # None

Leave(p, c) == pc' = [pc EXCEPT ![p] = "exit"] /\ code' = [code EXCEPT ![p] = c]
Step(p, l)  == pc' = [pc EXCEPT ![p] = l] /\ UNCHANGED code

(***************************************************************************)
(* main: no argument means the computer, one that is not empty a user.     *)
(***************************************************************************)
AcceptedAnyCount ==                              \* mutant for RunsAsConfigured
  Len(Arguments) = 0 \/ Arguments[1] # Empty
Accepted == Len(Arguments) = 0 \/ (Len(Arguments) = 1 /\ Arguments[1] # Empty)

Requested == IF Arguments = <<>> THEN NoUser ELSE Arguments[1]

Collect ==
  /\ pc["parent"] = "collect"
  /\ IF Accepted
       THEN Step("parent", "announce") /\ user' = Requested
       ELSE Leave("parent", InvalidInvocation) /\ UNCHANGED user
  /\ UNCHANGED <<given, applier, buffered, stdout, ran>>

(***************************************************************************)
(* gpupdate: what getpwnam says of the user is logged, and the length of a *)
(* NULL home directory is taken.  The message waits in the stdio buffer.   *)
(***************************************************************************)
AnnounceLoudly ==                                \* mutant for ReplyText
  /\ pc["parent"] = "announce"
  /\ IF user # NoUser /\ account[user] = "nullHome"
       THEN Step("parent", "crashed") /\ UNCHANGED buffered
       ELSE Step("parent", "stat") /\ buffered' = [buffered EXCEPT !["parent"] = 1]
  /\ UNCHANGED <<given, applier, user, stdout, ran>>

Announce ==
  /\ pc["parent"] = "announce"
  /\ IF user # NoUser /\ account[user] = "nullHome"
       THEN Step("parent", "crashed") /\ UNCHANGED buffered
       ELSE /\ Step("parent", "stat")
            /\ buffered' = [buffered EXCEPT !["parent"] = IF quiet THEN 0 ELSE 1]
  /\ UNCHANGED <<given, applier, user, stdout, ran>>

Stat ==
  /\ pc["parent"] = "stat"
  /\ IF applier \in {"executable", "notExecutable"}
       THEN Step("parent", "fork")
       ELSE Leave("parent", InvalidInvocation)
  /\ UNCHANGED <<given, applier, user, buffered, stdout, ran>>

(***************************************************************************)
(* apply_gpo, and what gpupdate makes of its result.                       *)
(***************************************************************************)
ResultItself(ret) == ret                         \* mutant for InvalidLeavesNoTrace
Result(ret) == IF ret # 0 THEN Failure ELSE 0

ForkFails ==
  /\ pc["parent"] = "fork"
  /\ Leave("parent", Result(1))
  /\ UNCHANGED <<given, applier, user, buffered, stdout, ran>>

Fork ==
  /\ pc["parent"] = "fork"
  /\ pc' = [parent |-> "wait", child |-> "exec"]
  /\ buffered' = [buffered EXCEPT !["child"] = buffered["parent"]]
  /\ UNCHANGED <<given, applier, user, code, stdout, ran>>

Exec ==
  /\ pc["child"] = "exec" /\ applier = "executable"
  /\ Step("child", "applier")
  /\ buffered' = [buffered EXCEPT !["child"] = 0]
  /\ ran' = [user |-> user, force |-> force]
  /\ UNCHANGED <<given, applier, user, stdout>>

ExecFails ==
  /\ pc["child"] = "exec" /\ applier # "executable"
  /\ Leave("child", Result(3))
  /\ UNCHANGED <<given, applier, user, buffered, stdout, ran>>

\* waitpid returns once the child has ended: with its status, which is not
\* looked at, or with ECHILD when SIGCHLD is ignored.
WaitNoHang ==                                    \* mutant for NoApplierLeft
  /\ pc["parent"] = "wait"
  /\ Leave("parent", Result(0))
  /\ UNCHANGED <<given, applier, user, buffered, stdout, ran>>

Wait ==
  /\ pc["parent"] = "wait" /\ pc["child"] \in {"ended", "crashed"}
  /\ Leave("parent", Result(IF sigchld = "ignored" THEN 2 ELSE 0))
  /\ UNCHANGED <<given, applier, user, buffered, stdout, ran>>

(***************************************************************************)
(* The end of main: the arguments are freed up to the first NULL, which an *)
(* overrun array need not have, and exit writes the buffer out.            *)
(***************************************************************************)
Exit(p) ==
  /\ pc[p] = "exit"
  /\ stdout' = stdout \o [n \in 1 .. buffered[p] |-> "message"]
  /\ buffered' = [buffered EXCEPT ![p] = 0]
  /\ Step(p, "ended")
  /\ UNCHANGED <<given, applier, user, ran>>

FreeOverrun ==
  /\ pc["parent"] = "exit" /\ Overrun
  /\ Step("parent", "crashed")
  /\ UNCHANGED <<given, applier, user, buffered, stdout, ran>>

(***************************************************************************)
(* The applier is another program, and its file can be replaced any time.  *)
(***************************************************************************)
ApplierWrites ==
  /\ pc["child"] = "applier" /\ ~Contains(stdout, "output")
  /\ stdout' = Append(stdout, "output")
  /\ UNCHANGED <<given, applier, user, pc, code, buffered, ran>>

ApplierEnds ==
  /\ pc["child"] = "applier"
  /\ \E l \in {"ended", "crashed"} : Step("child", l)
  /\ UNCHANGED <<given, applier, user, buffered, stdout, ran>>

ApplierReplaced ==
  /\ applier' \in Files \ {applier}
  /\ UNCHANGED <<given, user, pc, code, buffered, stdout, ran>>

Parent == Collect \/ Announce \/ Stat \/ ForkFails \/ Fork \/ Wait
            \/ Exit("parent") \/ FreeOverrun
Child  == Exec \/ ExecFails \/ ApplierEnds \/ Exit("child")

Next == Parent \/ Child \/ ApplierWrites \/ ApplierReplaced

Spec == Init /\ [][Next]_vars

(***************************************************************************)
(* Properties.                                                             *)
(***************************************************************************)
Answered == pc["parent"] = "ended"

\* The reply goes out when the helper ends: by then no applier of its own is
\* still at work, whatever became of SIGCHLD, of the file and of the child.
NoApplierLeft ==
  pc["parent"] \in {"exit", "ended", "crashed"} =>
    pc["child"] \in {"absent", "ended", "crashed"}

\* The exit code that says the invocation was at fault is used only when no
\* process was started: not when waiting for one failed.
InvalidLeavesNoTrace ==
  code["parent"] = InvalidInvocation => pc["child"] = "absent" /\ ran = None

Messages == Cardinality({i \in DOMAIN stdout : stdout[i] = "message"})

\* The reply to an accepted request holds the message once, after what the
\* applier wrote, unless the child failed to execute it and wrote its copy of
\* the buffer too; a quiet reply never holds it.
ReplyText ==
  /\ quiet => Messages = 0
  /\ Answered /\ ~quiet /\ Accepted =>
       /\ Messages = IF code["child"] = Failure /\ pc["child"] = "ended" THEN 2 ELSE 1
       /\ Last(stdout) = "message"

\* "Now make sure that the user or computer a) no user (computer) b) user
\* exists c) has a home directory specified" (gpupdate.c:102): the applier
\* is not run for a user the system does not know.
UserChecked ==
  ran # None /\ ran.user # NoUser => account[ran.user] # "unknown"
=============================================================================
