------------------------------- MODULE Session -------------------------------
(***************************************************************************)
(* A session of the shell in src/shlab/tsh.c: main reads the lines of a    *)
(* script, eval parses each of them and runs what it names, the test       *)
(* programs run, stop and end, ^C and ^Z are typed, and the handler of     *)
(* SIGCHLD keeps the job list and writes its messages.  The interleavings  *)
(* inside of these routines are those of module Tsh: here each routine is  *)
(* one step, the writing of a message and waitfg excepted.                 *)
(***************************************************************************)
EXTENDS Message, Programs, JobTable

CONSTANTS Scripts,   \* what standard input holds: sequences of lines
          Options,   \* the options the shell is started with
          MaxKeys    \* bounds ^C and ^Z

ASSUME SessionAssumption == MaxKeys \in Nat /\ Leaders = Pids /\ Pids \subseteq Nat \ {0}

\* What fgets reads is a line of at least one character, the newline
Lines == Seq(STRING) \ {<<>>}

ASSUME ScriptsAssumption == \A s \in Scripts : s \in Seq(Lines)

VARIABLES script,    \* the lines not read yet
          main,      \* where main is: "start", "read", or "waitfg" for a process
          exit,      \* how the shell has ended, "no" while it runs
          keys,
          read,      \* history: the lines read
          did,       \* history: what eval took each of them for
          events     \* history: what there was to tell of the jobs

shell == <<jobs, nextjid, main, exit>>
history == <<read, did, events>>
vars == <<shell, script, keys, history, proc, message>>

Init == /\ initjobs /\ ProgramsInit /\ MessageInit
        /\ script \in Scripts /\ main = <<"start">> /\ exit = "no" /\ keys = 0
        /\ read = <<>> /\ did = <<>> /\ events = <<>>

\* main goes on only when no handler is writing
MainAt(place) == exit = "no" /\ main = place /\ ~ Writing

-----------------------------------------------------------------------------
(* main and eval. *)

\* Every option but v and p is answered with the usage and exit(1)
Start == /\ MainAt(<<"start">>)
         /\ \E options \in Options :
              IF options \subseteq {"v", "p"} THEN main' = <<"read">> /\ UNCHANGED exit
                                               ELSE exit' = "exit(1)" /\ UNCHANGED main
         /\ UNCHANGED <<jobs, nextjid, script, keys, history, proc, message>>

EndOfFile == /\ MainAt(<<"read">>) /\ script = <<>>
             /\ exit' = "exit(0)"
             /\ UNCHANGED <<jobs, nextjid, main, script, keys, history, proc, message>>

\* A line is read and parsed; pid and jid are those of the job it starts
Read(kind, pid, jid) ==
  /\ MainAt(<<"read">>) /\ script # <<>>
  /\ LET cmd == parseline(Head(script))
     IN  /\ Kind(cmd.argv) = kind
         /\ did' = Append(did, [argv |-> cmd.argv, bg |-> cmd.bg, pid |-> pid, jid |-> jid])
  /\ script' = Tail(script)
  /\ read' = Append(read, Head(script))
  /\ UNCHANGED <<keys, events, message>>

Command == parseline(Head(script))

\* The blank line, a single & and the jobs command change nothing
Nothing == /\ \E kind \in {"ignored", "&", "jobs"} : Read(kind, 0, 0)
           /\ UNCHANGED <<shell, proc>>

Quit == /\ Read("quit", 0, 0)
        /\ exit' = "exit(0)"
        /\ UNCHANGED <<jobs, nextjid, main, proc>>

\* What the first word names, and the argument the test programs take
Program(argv) == IF argv[1] \in {<<p>> : p \in {"myspin", "mysplit", "mystop", "myint"}}
                 THEN argv[1][1] ELSE "none"
Seconds(argv) == IF Len(argv) = 2 THEN atoi(argv[2]) ELSE 0

Run(pid) == /\ Read("program", pid, nextjid)
            /\ Free(pid)
            /\ exec(pid, Program(Command.argv), Len(Command.argv), Seconds(Command.argv))
            /\ addjob(pid, StartState(Command.bg))
            /\ main' = IF Command.bg THEN <<"read">> ELSE <<"waitfg", pid>>
            /\ UNCHANGED exit

\* The pid of the job that the argument of fg or bg names, or 0
NamedJob(arg) ==
  CASE arg.by = "jid" /\ arg.id > 0 /\ (\E i \in Slots : jobs[i].jid = arg.id)
         -> jobs[getjobjid(arg.id)].pid
    [] arg.by = "pid" /\ arg.id > 0 /\ Tracked(arg.id) -> arg.id
    [] OTHER -> 0

do_bgfg == /\ Read("bg", 0, 0) \/ Read("fg", 0, 0)
           /\ LET pid == NamedJob(Named(Command.argv))
                  bg == Kind(Command.argv) = "bg"
              IN  IF pid = 0 THEN UNCHANGED <<shell, proc>>
                  ELSE /\ kill(pid, "CONT")
                       /\ setstate(getjobpid(pid), StartState(bg))
                       /\ main' = IF bg THEN <<"read">> ELSE <<"waitfg", pid>>
                       /\ UNCHANGED exit

waitfg == /\ \E pid \in Pids : MainAt(<<"waitfg", pid>>) /\ fgpid # pid
          /\ main' = <<"read">>
          /\ UNCHANGED <<jobs, nextjid, exit, script, keys, history, proc, message>>

-----------------------------------------------------------------------------
(* The handlers. *)

\* Typed while a job is in the foreground, also when a message is written
Key(s) == /\ exit = "no" /\ keys < MaxKeys /\ fgpid # 0
          /\ keys' = keys + 1
          /\ kill(fgpid, s)
          /\ UNCHANGED <<shell, script, history, message>>

pid2jid(pid) == IF Tracked(pid) THEN jobs[getjobpid(pid)].jid ELSE 0

SIGNAL == [INT |-> 2, TSTP |-> 20]

\* The job ID that eval gave to the process
JidOf(pid) == LET start == CHOOSE n \in DOMAIN did : did[n].pid = pid IN did[start].jid

Tell(how, pid, s) ==
  /\ print_msg(how, pid, pid2jid(pid), SIGNAL[s])
  /\ events' = Append(events, [how |-> how, pid |-> pid, jid |-> JidOf(pid), signal |-> SIGNAL[s]])
  /\ UNCHANGED <<out, interrupts>>

\* A turn of the loop of sigchld_handler
Chld(pid) ==
  /\ exit = "no" /\ ~ Writing
  /\ waitpid(pid)
  /\ CASE proc[<<pid, "leader">>].at = "exited" -> deletejob(pid) /\ UNCHANGED <<events, message>>
       [] proc[<<pid, "leader">>].at = "INT" -> deletejob(pid) /\ Tell("terminated", pid, "INT")
       [] OTHER -> setstate(getjobpid(pid), "ST") /\ Tell("stopped", pid, "TSTP")
  /\ UNCHANGED <<main, exit, script, keys, read, did>>

Write == /\ exit = "no" /\ write
         /\ UNCHANGED <<shell, script, keys, history, proc>>

\* Rio_writen
WriteFails == /\ exit = "no" /\ write_fails
              /\ exit' = "_exit(1)"
              /\ UNCHANGED <<jobs, nextjid, main, script, keys, history, proc>>

-----------------------------------------------------------------------------
ProgramStep == /\ exit = "no"
               /\ \E p \in Pids : Step(p)
               /\ UNCHANGED <<shell, script, keys, history, message>>

Next == \/ Start \/ EndOfFile \/ Nothing \/ Quit \/ do_bgfg \/ waitfg
        \/ \E p \in Pids : Run(p) \/ Chld(p)
        \/ \E s \in {"INT", "TSTP"} : Key(s)
        \/ Write \/ WriteFails \/ ProgramStep

Spec == Init /\ [][Next]_vars

-----------------------------------------------------------------------------
(* Properties. *)

(***************************************************************************)
(* Each line is run as its words say: whatever spaces, quotes and & it     *)
(* holds, parseline and eval make of it the words that a reading from left *)
(* to right finds, in the order of the lines, without a last word that     *)
(* begins with &, which puts the job in the background.                    *)
(***************************************************************************)
EvaluatedAsWritten ==
  /\ Len(did) = Len(read)
  /\ \A n \in DOMAIN did :
       LET words == Words(read[n])
           amp == words # <<>> /\ Last(words) # <<>> /\ Head(Last(words)) = "&"
       IN  /\ did[n].argv = IF amp THEN Front(words) ELSE words
           /\ did[n].pid # 0 => did[n].bg = amp

(***************************************************************************)
(* A job's processes stop, go on and end together: whatever ^C, ^Z, fg and *)
(* bg the shell passes on and whichever process of mysplit is the one that *)
(* waitpid sees, no process of a job listed as stopped runs, none of a     *)
(* running job stays stopped once the shell knows all there is to know of  *)
(* it, and none is left of a job that is gone.                             *)
(***************************************************************************)
GroupActsTogether ==
  \A p \in Pids :
    /\ Tracked(p) /\ jobs[getjobpid(p)].state = "ST" =>
         \A q \in Group(p) : Live(q) => proc[q].stopped
    /\ Tracked(p) /\ jobs[getjobpid(p)].state # "ST" /\ ~ Reportable(p) =>
         \A q \in Group(p) : Live(q) => ~ proc[q].stopped
    /\ ~ Free(p) /\ ~ Tracked(p) => \A q \in Group(p) : ~ Live(q)

\* The decimal digits of a positive number; its tenth and one more are
\* enough of them
Decimal(n) == CHOOSE s \in UNION {[1 .. k -> ToSet(Digits)] : k \in 1 .. n \div 10 + 1} :
                s[1] # "0" /\ atoi(s) = n

\* The message that an event is to be told with
Text(e) == <<"Job", "[">> \o Decimal(e.jid) \o <<"]", "(">> \o Decimal(e.pid)
             \o <<")", e.how, "by", "signal">> \o Decimal(e.signal) \o <<"LF">>

(***************************************************************************)
(* What is on standard output and what is still to be written is, byte by  *)
(* byte, the messages of the stopped and terminated jobs in the order of   *)
(* these events, each with the job ID that eval gave to the process,       *)
(* however a write is cut short or interrupted.                            *)
(***************************************************************************)
MessagesTrue ==
  out \o FlattenSeq(strings) = FlattenSeq([n \in DOMAIN events |-> Text(events[n])])

=============================================================================
