-------------------------------- MODULE Tsh --------------------------------
(***************************************************************************)
(* The shell of src/shlab/tsh.c with its signal handlers, the kernel's     *)
(* signals and process states as far as the shell can see them, and its    *)
(* children, each in one process group.                                    *)
(*                                                                         *)
(* The shell is one thread: the read/eval loop, main, runs only when no    *)
(* handler is active; a handler may interrupt main and any other handler   *)
(* between two of their steps, but a region that masks all signals is one  *)
(* step.  `stack' holds the active handlers, the running one last.         *)
(***************************************************************************)
EXTENDS JobTable, Sequences, FiniteSets

CONSTANT MaxKeys  \* bound of the model: ^C and ^Z typed at the terminal

ASSUME MaxKeysAssumption == MaxKeys \in Nat

VARIABLES main,     \* where main is, and the variables it holds there
          stack,    \* the active signal handlers, each with its variables
          pending,  \* signals sent to the shell and not yet delivered
          child,    \* what the kernel knows of each process
          sigs,     \* signals a child received and has not acted on
          exit,     \* how the shell has ended, "no" while it runs
          keys      \* ^C and ^Z typed so far

shell == <<jobs, nextjid, main, stack>>
vars == <<shell, pending, child, sigs, exit, keys>>

TerminalSignals == {"INT", "TSTP"}
Signals == TerminalSignals \cup {"CHLD"}

(***************************************************************************)
(* A child runs the shell's own program after fork: first in the shell's   *)
(* process group ("forked"), then in its own ("grouped"), until execve     *)
(* ("running").  A stop or a termination waits to be reported by waitpid   *)
(* ("stopping", "exited", "signaled") and then is ("stopped", "reaped").   *)
(***************************************************************************)
PreExec == {"forked", "grouped"}
Zombie == {"exited", "signaled"}
ChildState == PreExec \cup Zombie
                \cup {"unborn", "running", "stopping", "stopped", "reaped"}

\* Points of main between which a handler may run
ReadPoint == {"read"}
MainPoint == ReadPoint \cup {"addjob",              \* eval: after Fork
                             "list", "listed",      \* listjobs
                             "bgread", "bgkill", "bgset", "bgdone", \* do_bgfg
                             "wait"}                \* waitfg

MainType == [pc : MainPoint, pid : Pids \cup {0}, slot : Slots, bg : BOOLEAN]
AtPrompt == [pc |-> "read", pid |-> 0, slot |-> 0, bg |-> FALSE]

\* An active handler: "wait" before waitpid, "act" before the job list is
\* updated, "look" before fgpid, "kill" before kill
Frame == [sig : Signals, at : {"wait", "act", "look", "kill"},
          pid : Pids \cup {0}, how : Zombie \cup {"stopped", "none"}]

Entry(s) == [sig |-> s, at |-> IF s = "CHLD" THEN "wait" ELSE "look",
             pid |-> 0, how |-> "none"]

Top == stack[Len(stack)]
Pop == SubSeq(stack, 1, Len(stack) - 1)
SetTop(f) == [stack EXCEPT ![Len(stack)] = f]

Running == exit = "no"
MainRuns == Running /\ stack = <<>>
HandlerRuns(s, at) == /\ Running
                      /\ stack # <<>>
                      /\ Top.sig = s
                      /\ Top.at = at

Init == /\ initjobs
        /\ main = AtPrompt
        /\ stack = <<>>
        /\ pending = {}
        /\ child = [p \in Pids |-> "unborn"]
        /\ sigs = [p \in Pids |-> {}]
        /\ exit = "no"
        /\ keys = 0

-----------------------------------------------------------------------------
(* The kernel: what sending a signal does. *)

\* The processes that share the shell's process group
ShellGroup == {p \in Pids : child[p] = "forked"}

\* kill(0, s) and the terminal: to the shell and to its process group
SignalShellGroup(s) ==
  /\ pending' = pending \cup {s}
  /\ sigs' = [p \in Pids |-> IF p \in ShellGroup THEN sigs[p] \cup {s} ELSE sigs[p]]
  /\ UNCHANGED child

\* kill(-p, s) fails when no process is left in the group
GroupExists(p) == child[p] \notin {"unborn", "forked", "reaped"}

RaiseCHLD == pending' = pending \cup {"CHLD"}

\* kill(-p, s) with s = SIGINT or SIGTSTP
SignalGroup(p, s) ==
  \/ /\ child[p] = "running"
     /\ child' = [child EXCEPT ![p] = IF s = "INT" THEN "signaled" ELSE "stopping"]
     /\ RaiseCHLD
     /\ UNCHANGED sigs
  \/ /\ \/ child[p] = "grouped"
        \/ child[p] \in {"stopping", "stopped"} /\ s = "INT"
     /\ sigs' = [sigs EXCEPT ![p] = @ \cup {s}]
     /\ UNCHANGED <<child, pending>>
  \/ /\ \/ child[p] \in Zombie
        \/ child[p] \in {"stopping", "stopped"} /\ s = "TSTP"
     /\ UNCHANGED <<child, sigs, pending>>

\* kill(-p, SIGCONT): a stopped child runs on, or dies of a SIGINT that
\* waited for it; a stop not yet reported is never reported
Continue(p) ==
  IF child[p] \in {"stopping", "stopped"}
  THEN /\ child' = [child EXCEPT ![p] = IF "INT" \in sigs[p] THEN "signaled"
                                                            ELSE "running"]
       /\ sigs' = [sigs EXCEPT ![p] = {}]
       /\ RaiseCHLD
  ELSE UNCHANGED <<child, sigs, pending>>

-----------------------------------------------------------------------------
(* The read/eval loop. *)

\* quit, or end of file at the prompt
Quit == /\ MainRuns
        /\ main.pc = "read"
        /\ exit' = "exit(0)"
        /\ UNCHANGED <<shell, pending, child, sigs, keys>>

\* A command that is not a builtin, up to the return of Fork in the shell;
\* SIGCHLD is blocked from before the fork
Fork(p, bg) == /\ MainRuns
               /\ main.pc = "read"
               /\ child[p] = "unborn"
               /\ child' = [child EXCEPT ![p] = "forked"]
               /\ main' = [AtPrompt EXCEPT !.pc = "addjob", !.pid = p, !.bg = bg]
               /\ UNCHANGED <<jobs, nextjid, stack, pending, sigs, exit, keys>>

ForkFails == /\ MainRuns
             /\ main.pc = "read"
             /\ exit' = "unix_error"
             /\ UNCHANGED <<shell, pending, child, sigs, keys>>

\* Mutant: eval forgets to call waitfg
AddJob_NoWait == /\ MainRuns
                 /\ main.pc = "addjob"
                 /\ addjob(main.pid, StartState(main.bg))
                 /\ main' = AtPrompt
                 /\ UNCHANGED <<stack, pending, child, sigs, exit, keys>>

\* eval adds the job and waits for it if it is a foreground job
AddJob == /\ MainRuns
          /\ main.pc = "addjob"
          /\ addjob(main.pid, StartState(main.bg))
          /\ main' = IF main.bg THEN AtPrompt ELSE [main EXCEPT !.pc = "wait"]
          /\ UNCHANGED <<stack, pending, child, sigs, exit, keys>>

\* Mutant: waitfg returns after its first pause
WaitFg_Once == /\ MainRuns
               /\ main.pc = "wait"
               /\ main' = AtPrompt
               /\ UNCHANGED <<jobs, nextjid, stack, pending, child, sigs, exit, keys>>

\* One turn of the loop in waitfg
WaitFg == /\ MainRuns
          /\ main.pc = "wait"
          /\ fgpid # main.pid
          /\ main' = AtPrompt
          /\ UNCHANGED <<jobs, nextjid, stack, pending, child, sigs, exit, keys>>

\* fg or bg, up to the lookup of its argument; without such a job it
\* prints a message and returns
DoBgfg(bg) ==
  /\ MainRuns
  /\ main.pc = "read"
  /\ \/ \E p \in Pids :
          /\ Tracked(p)
          /\ main' = [pc |-> "bgread", pid |-> 0, slot |-> getjobpid(p), bg |-> bg]
     \/ \E i \in Slots :
          /\ jobs[i].jid # 0
          /\ main' = [pc |-> "bgread", pid |-> 0, slot |-> getjobjid(jobs[i].jid),
                      bg |-> bg]
  /\ UNCHANGED <<jobs, nextjid, stack, pending, child, sigs, exit, keys>>

\* job->pid is read without the signals masked ...
BgRead == /\ MainRuns
          /\ main.pc = "bgread"
          /\ main' = [main EXCEPT !.pc = "bgkill", !.pid = jobs[main.slot].pid]
          /\ UNCHANGED <<jobs, nextjid, stack, pending, child, sigs, exit, keys>>

\* ... and the group continued; kill(0, SIGCONT) does nothing to the
\* shell's own group
BgKill ==
  /\ MainRuns
  /\ main.pc = "bgkill"
  /\ \/ /\ main.pid # 0 /\ GroupExists(main.pid)
        /\ Continue(main.pid)
        /\ main' = [main EXCEPT !.pc = "bgset"]
        /\ UNCHANGED exit
     \/ /\ main.pid = 0
        /\ main' = [main EXCEPT !.pc = "bgset"]
        /\ UNCHANGED <<pending, child, sigs, exit>>
     \/ /\ main.pid # 0 /\ ~ GroupExists(main.pid)
        /\ exit' = "unix_error"
        /\ UNCHANGED <<main, pending, child, sigs>>
  /\ UNCHANGED <<jobs, nextjid, stack, keys>>

\* Mutant: the state of the continued job is not set
BgSet_Unmarked == /\ MainRuns
                  /\ main.pc = "bgset"
                  /\ main' = [main EXCEPT !.pc = "bgdone"]
                  /\ UNCHANGED <<jobs, nextjid, stack, pending, child, sigs, exit, keys>>

\* Mutant: bg marks the job FG, too
BgSet_Foreground == /\ MainRuns
                    /\ main.pc = "bgset"
                    /\ setstate(main.slot, "FG")
                    /\ main' = [main EXCEPT !.pc = "bgdone"]
                    /\ UNCHANGED <<stack, pending, child, sigs, exit, keys>>

BgSet == /\ MainRuns
         /\ main.pc = "bgset"
         /\ setstate(main.slot, StartState(main.bg))
         /\ main' = [main EXCEPT !.pc = "bgdone"]
         /\ UNCHANGED <<stack, pending, child, sigs, exit, keys>>

\* job->pid is read again, for waitfg or for the message of bg
BgDone == /\ MainRuns
          /\ main.pc = "bgdone"
          /\ main' = IF main.bg
                     THEN AtPrompt
                     ELSE [main EXCEPT !.pc = "wait", !.pid = jobs[main.slot].pid]
          /\ UNCHANGED <<jobs, nextjid, stack, pending, child, sigs, exit, keys>>

\* The jobs command looks at each slot with the signals unmasked: first
\* whether it holds a job, then at the job's state
ListFrom(i) == IF i = MAXJOBS THEN AtPrompt
                              ELSE [AtPrompt EXCEPT !.pc = "list", !.slot = i]

ListJobs ==
  /\ MainRuns
  /\ \/ main.pc = "read" /\ main' = ListFrom(0)
     \/ /\ main.pc = "list"
        /\ main' = IF jobs[main.slot].pid # 0 THEN [main EXCEPT !.pc = "listed"]
                                              ELSE ListFrom(main.slot + 1)
     \/ main.pc = "listed" /\ main' = ListFrom(main.slot + 1)
  /\ UNCHANGED <<jobs, nextjid, stack, pending, child, sigs, exit, keys>>

-----------------------------------------------------------------------------
(* The signal handlers. *)

\* Mutant: SIGCHLD is not masked from the fork to addjob
Blocked_NoMask(s) == \E i \in DOMAIN stack : stack[i].sig = s

Blocked(s) == \/ \E i \in DOMAIN stack : stack[i].sig = s
              \/ s = "CHLD" /\ main.pc = "addjob"

Deliver(s) == /\ Running
              /\ s \in pending
              /\ ~ Blocked(s)
              /\ stack' = Append(stack, Entry(s))
              /\ pending' = pending \ {s}
              /\ UNCHANGED <<jobs, nextjid, main, child, sigs, exit, keys>>

\* sigint_handler and sigtstp_handler: the foreground job is looked up ...
ForwardLook(s) == /\ HandlerRuns(s, "look")
                  /\ stack' = SetTop([Top EXCEPT !.at = "kill", !.pid = fgpid])
                  /\ UNCHANGED <<jobs, nextjid, main, pending, child, sigs, exit, keys>>

\* ... and the signal sent to its group, or to the shell's own when there
\* is none; the handler ends the shell when kill fails
ForwardKill(s) ==
  /\ HandlerRuns(s, "kill")
  /\ \/ /\ Top.pid = 0
        /\ SignalShellGroup(s)
        /\ stack' = Pop
        /\ UNCHANGED exit
     \/ /\ Top.pid # 0 /\ GroupExists(Top.pid)
        /\ SignalGroup(Top.pid, s)
        /\ stack' = Pop
        /\ UNCHANGED exit
     \/ /\ Top.pid # 0 /\ ~ GroupExists(Top.pid)
        /\ exit' = "_exit(1)"
        /\ UNCHANGED <<stack, pending, child, sigs>>
  /\ UNCHANGED <<jobs, nextjid, main, keys>>

Reportable(p) == child[p] \in Zombie \cup {"stopping"}

\* sigchld_handler: waitpid reports a child, or that there is none left
ChldWait ==
  /\ HandlerRuns("CHLD", "wait")
  /\ \/ \E p \in Pids :
          /\ child[p] \in Zombie
          /\ child' = [child EXCEPT ![p] = "reaped"]
          /\ stack' = SetTop([Top EXCEPT !.at = "act", !.pid = p, !.how = child[p]])
     \/ \E p \in Pids :
          /\ child[p] = "stopping"
          /\ child' = [child EXCEPT ![p] = "stopped"]
          /\ stack' = SetTop([Top EXCEPT !.at = "act", !.pid = p, !.how = "stopped"])
     \/ /\ \A p \in Pids : ~ Reportable(p)
        /\ stack' = Pop
        /\ UNCHANGED child
  /\ UNCHANGED <<jobs, nextjid, main, pending, sigs, exit, keys>>

\* Mutant: sigchld_handler calls waitpid once
ChldDelete_Once == /\ HandlerRuns("CHLD", "act")
                   /\ Top.how \in Zombie
                   /\ deletejob(Top.pid)
                   /\ stack' = Pop
                   /\ UNCHANGED <<main, pending, child, sigs, exit, keys>>

\* Mutant: the foreground job is deleted, whatever child has ended
ChldDelete_FG == /\ HandlerRuns("CHLD", "act")
                 /\ Top.how \in Zombie
                 /\ deletejob(fgpid)
                 /\ stack' = SetTop(Entry("CHLD"))
                 /\ UNCHANGED <<main, pending, child, sigs, exit, keys>>

\* deletejob_sync; what the message says of the job is left out
ChldDelete == /\ HandlerRuns("CHLD", "act")
              /\ Top.how \in Zombie
              /\ deletejob(Top.pid)
              /\ stack' = SetTop(Entry("CHLD"))
              /\ UNCHANGED <<main, pending, child, sigs, exit, keys>>

\* Mutant: a stopped job is deleted
ChldStop_Delete ==
  /\ HandlerRuns("CHLD", "act")
  /\ Top.how = "stopped"
  /\ deletejob(Top.pid)
  /\ stack' = SetTop(Entry("CHLD"))
  /\ UNCHANGED <<main, pending, child, sigs, exit, keys>>

\* Mutant: a stopped job is not marked
ChldStop_Unmarked ==
  /\ HandlerRuns("CHLD", "act")
  /\ Top.how = "stopped"
  /\ stack' = SetTop(Entry("CHLD"))
  /\ UNCHANGED <<jobs, nextjid, main, pending, child, sigs, exit, keys>>

\* setjobstop_sync writes through the null pointer getjobpid returns for a
\* child that is not in the job list
ChldStop ==
  /\ HandlerRuns("CHLD", "act")
  /\ Top.how = "stopped"
  /\ IF Tracked(Top.pid)
     THEN /\ setstate(getjobpid(Top.pid), "ST")
          /\ stack' = SetTop(Entry("CHLD"))
          /\ UNCHANGED exit
     ELSE exit' = "SIGSEGV" /\ UNCHANGED <<jobs, nextjid, stack>>
  /\ UNCHANGED <<main, pending, child, sigs, keys>>

\* The driver's way to end the shell, at any point (tsh.c:876)
sigquit_handler == /\ Running
                   /\ exit' = "SIGQUIT"
                   /\ UNCHANGED <<shell, pending, child, sigs, keys>>

-----------------------------------------------------------------------------
(* The children.  One that has a signal to act on before execve is inside  *)
(* the handler it inherited: its copy of the job list has no foreground    *)
(* job, so the handler signals the child's own group, again and again.     *)

ChildSame == UNCHANGED <<shell, exit, keys>>

Setpgid(p) == /\ Running
              /\ child[p] = "forked" /\ sigs[p] = {}
              /\ child' = [child EXCEPT ![p] = "grouped"]
              /\ UNCHANGED <<pending, sigs>> /\ ChildSame

\* A command that is not found exits with status 0
Execve(p) == /\ Running
             /\ child[p] = "grouped" /\ sigs[p] = {}
             /\ \/ child' = [child EXCEPT ![p] = "running"] /\ UNCHANGED pending
                \/ child' = [child EXCEPT ![p] = "exited"] /\ RaiseCHLD
             /\ UNCHANGED sigs /\ ChildSame

InheritedHandler(p, s) == /\ Running
                          /\ child[p] = "forked" /\ s \in sigs[p]
                          /\ SignalShellGroup(s)
                          /\ ChildSame

Exit(p) == /\ Running
           /\ child[p] = "running"
           /\ child' = [child EXCEPT ![p] = "exited"]
           /\ RaiseCHLD /\ UNCHANGED sigs /\ ChildSame

\* A signal from a process other than the shell kills or stops the child
Killed(p) == /\ Running
             /\ child[p] \in PreExec \cup {"running", "stopping", "stopped"}
             /\ child' = [child EXCEPT ![p] = "signaled"]
             /\ sigs' = [sigs EXCEPT ![p] = {}]
             /\ RaiseCHLD /\ ChildSame

StoppedByOther(p) == /\ Running
                     /\ child[p] = "running"
                     /\ child' = [child EXCEPT ![p] = "stopping"]
                     /\ RaiseCHLD /\ UNCHANGED sigs /\ ChildSame

\* ^C or ^Z: the terminal signals the shell's process group
Key(s) == /\ Running
          /\ keys < MaxKeys
          /\ keys' = keys + 1
          /\ SignalShellGroup(s)
          /\ UNCHANGED <<shell, exit>>

-----------------------------------------------------------------------------
Main == \/ AddJob \/ WaitFg \/ BgRead \/ BgKill \/ BgSet \/ BgDone \/ ListJobs
        \/ Quit \/ ForkFails \/ \E bg \in BOOLEAN : DoBgfg(bg)
        \/ \E p \in Pids, bg \in BOOLEAN : Fork(p, bg)

Handlers == \/ ChldWait \/ ChldDelete \/ ChldStop
            \/ \E s \in TerminalSignals : ForwardLook(s) \/ ForwardKill(s)

Child(p) == \/ Setpgid(p) \/ Execve(p) \/ Exit(p) \/ Killed(p) \/ StoppedByOther(p)
            \/ \E s \in TerminalSignals : InheritedHandler(p, s)

Next == \/ Main \/ Handlers \/ sigquit_handler
        \/ \E s \in Signals : Deliver(s)
        \/ \E p \in Pids : Child(p)
        \/ \E s \in TerminalSignals : Key(s)

Spec == Init /\ [][Next]_vars

\* The scheduler runs the shell and a child on its way to execve, and the
\* kernel delivers what is not blocked; nobody need type a command or a
\* key, and a program need not end.
Fairness == /\ WF_vars(AddJob) /\ WF_vars(WaitFg)
            /\ WF_vars(BgRead) /\ WF_vars(BgKill) /\ WF_vars(BgSet) /\ WF_vars(BgDone)
            /\ WF_vars(main.pc # "read" /\ ListJobs)
            /\ WF_vars(Handlers)
            /\ \A s \in Signals : WF_vars(Deliver(s))
            /\ \A p \in Pids : WF_vars(Setpgid(p)) /\ WF_vars(Execve(p))

FairSpec == Spec /\ Fairness

-----------------------------------------------------------------------------
(* Properties of the code. *)

TypeOK == /\ JobTableType
          /\ main \in MainType
          /\ stack \in Seq(Frame)
          /\ pending \in SUBSET Signals
          /\ child \in [Pids -> ChildState]
          /\ sigs \in [Pids -> SUBSET TerminalSignals]
          /\ exit \in {"no", "exit(0)", "unix_error", "_exit(1)", "SIGSEGV", "SIGQUIT"}
          /\ keys \in 0 .. MaxKeys

\* A slot in use has a state (the default case of tsh.c:809 is for a slot
\* without), and no child is in the job list twice.
JobsHaveState == \A i \in Slots : jobs[i].pid # 0 => jobs[i].state # "UNDEF"
UniquePids == \A i, j \in Slots :
                jobs[i].pid = jobs[j].pid /\ jobs[i].pid # 0 => i = j

\* "At most 1 job can be in the FG state" (tsh.c:38).
AtMostOneFG == \A i, j \in SlotsIn("FG") : i = j

\* The shell is at the prompt, or anywhere but in waitfg or about to call
\* it, only while no job is marked FG: the handlers that read the list
\* (tsh.c:449, 469), and a child's copy of it, find no stale foreground job.
PromptMeansNoFG == main.pc \notin {"wait", "bgdone"} => SlotsIn("FG") = {}

\* The job of a child that was waited for is in the list only while the
\* SIGCHLD handler is between waitpid and deletejob for that child: it is
\* neither added after its deletion was tried (the race that the mask of
\* tsh.c:211 is there for) nor left behind.
NoGhostJob ==
  \A p \in Pids : child[p] = "reaped" /\ Tracked(p) =>
    \E i \in DOMAIN stack : /\ stack[i].sig = "CHLD" /\ stack[i].at = "act"
                            /\ stack[i].pid = p /\ stack[i].how \in Zombie

\* A process that has not been forked, or whose addjob is still to come
NotYetAdded(p) == child[p] = "unborn" \/ (main.pc = "addjob" /\ main.pid = p)

\* Every child from its addjob until it is waited for is in the job list,
\* if the list never overflows.
NoLostJob ==
  \A p \in Pids : child[p] # "reaped" => Tracked(p) \/ NotYetAdded(p)

\* A job marked ST is not executing, but for the time fg or bg needs to
\* mark the job it has continued (tsh.c:368-372).
StoppedJobIsStopped ==
  \A i \in SlotsIn("ST") :
    /\ jobs[i].pid \in Pids
    /\ \/ child[jobs[i].pid] \in {"stopped", "reaped"} \cup Zombie
       \/ main.pc = "bgset" /\ main.slot = i

\* The pid that a ^C or ^Z handler holds between fgpid and kill (tsh.c:449,
\* 452) is never the pid of a background job.
NeverForwardedToBG ==
  \A k \in DOMAIN stack : stack[k].at = "kill" /\ stack[k].pid # 0 =>
    \A i \in SlotsOf(stack[k].pid) : jobs[i].state \in {"FG", "ST"}

\* Only a child that was forked is in the list; the one that eval is about
\* to add is not, it has not been waited for, and no handler is active that
\* could do so (tsh.c:211-223).
JobsAreBorn == \A p \in Pids : Tracked(p) => child[p] # "unborn"
AddJobIsMasked ==
  main.pc = "addjob" =>
    /\ main.pid \in Pids
    /\ ~ Tracked(main.pid)
    /\ child[main.pid] \notin {"unborn", "reaped"}
    /\ \A k \in DOMAIN stack : stack[k].sig # "CHLD"

\* A foreground job is the one that waitfg waits for, or that do_bgfg is
\* about to wait for; it may be an empty slot that do_bgfg has marked.
FGIsWaitedFor ==
  \A i \in SlotsIn("FG") :
    \/ main.pc = "bgdone" /\ main.slot = i /\ ~ main.bg
    \/ /\ main.pc = "wait" /\ main.pid = jobs[i].pid
       /\ main.pid = 0 => main.slot = i

\* The pid that do_bgfg passes to kill is that of its job, or of no job.
KillsItsJob ==
  main.pc = "bgkill" /\ main.pid # 0 => SlotsOf(main.pid) \subseteq {main.slot}

\* No signal has two active handlers; a child that the SIGCHLD handler has
\* been told of stays as it was told until the handler acts on it.
FramesAgree ==
  /\ \A k, l \in DOMAIN stack : stack[k].sig = stack[l].sig => k = l
  /\ \A k \in DOMAIN stack : stack[k].at = "act" =>
       /\ stack[k].sig = "CHLD"
       /\ stack[k].pid \in Pids
       /\ \/ stack[k].how \in Zombie /\ child[stack[k].pid] = "reaped"
          \/ stack[k].how = "stopped" /\ child[stack[k].pid] \in {"stopped"} \cup Zombie

\* The inductive invariant: with TypeOK, all of this holds because no step
\* can break one part while the others hold.
IInv == /\ TypeOK /\ UniquePids /\ JobsAreBorn /\ AddJobIsMasked
        /\ FGIsWaitedFor /\ KillsItsJob /\ FramesAgree
        /\ NoGhostJob /\ StoppedJobIsStopped /\ NeverForwardedToBG

\* A job leaves the list only when its child has been waited for.
JobEndsWithChild ==
  [][\A p \in Pids : Tracked(p) /\ ~ Tracked(p)' => child[p] = "reaped"]_vars

\* The statuses of the abstract specification: a child that is neither in
\* the list nor about to be added is new before its fork, and done after.
status == [p \in Pids |-> IF Tracked(p) THEN jobs[getjobpid(p)].state
                          ELSE IF NotYetAdded(p) THEN "new" ELSE "done"]

\* The job list, changed by main and by nested handlers, implements one
\* status per job with at most one job in the foreground.
Abstract == INSTANCE JobControl
JobControlSpec == Abstract!Spec

\* No ^C or ^Z handler is active or about to be
Quiet == /\ pending \cap TerminalSignals = {}
         /\ \A p \in ShellGroup : sigs[p] = {}
         /\ \A i \in DOMAIN stack : stack[i].sig = "CHLD"

\* "The handler reaps all available zombie children" (tsh.c:409): one
\* SIGCHLD may stand for several children, and none is forgotten.
ZombiesAreReaped ==
  []<>Quiet => \A p \in Pids :
    child[p] \in Zombie ~> child[p] = "reaped" \/ ~ Running

\* waitfg returns once the job that main waits for has ended or stopped.
WaitEndsWithJob ==
  []<>Quiet => \A p \in Pids :
    (main.pc = "wait" /\ main.pid = p /\ child[p] \in Zombie \cup {"stopping"})
      ~> (main.pc # "wait" \/ ~ Running)

=============================================================================
