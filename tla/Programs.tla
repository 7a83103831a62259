------------------------------ MODULE Programs ------------------------------
(***************************************************************************)
(* The programs that test the shell: myspin.c, mysplit.c, mystop.c and     *)
(* myint.c, each run by the shell as the leader of a process group, and    *)
(* the kernel's part: process groups, stopped processes and their ends.    *)
(* mysplit has a second process, its child, which is not the shell's.      *)
(***************************************************************************)
EXTENDS Integers, Sequences

CONSTANT Leaders   \* process IDs that fork may give to the shell's children

VARIABLE proc      \* the processes, by leader and role

Roles == {"leader", "child"}
unborn == [prog |-> "none", at |-> "unborn", secs |-> 0,
           stopped |-> FALSE, interrupted |-> FALSE, told |-> FALSE]

ProgramsInit == proc = [q \in Leaders \X Roles |-> unborn]

\* Running or stopped; afterwards `at' says how it has ended
Live(q) == proc[q].at \in {"fork", "sleep", "wait", "kill", "last"}
Free(p) == proc[<<p, "leader">>].at = "unborn"

\* A process group; only a leader's has one
Group(p) == {p} \X Roles

\* A stopped process keeps SIGINT until it is continued; `told' says that
\* waitpid has reported the stop or, later, the end
Signalled(q, s) ==
  IF ~ Live(q) THEN proc[q]
  ELSE CASE s = "INT" -> IF proc[q].stopped THEN [proc[q] EXCEPT !.interrupted = TRUE]
                                            ELSE [proc[q] EXCEPT !.at = "INT"]
         [] s = "TSTP" -> [proc[q] EXCEPT !.stopped = TRUE]
         [] s = "CONT" -> [proc[q] EXCEPT !.stopped = FALSE, !.told = FALSE,
                                          !.at = IF proc[q].interrupted THEN "INT" ELSE @]

\* Mutant: kill(pid, s) instead of kill(-pid, s)
Reached_One(p) == {<<p, "leader">>}
Reached(p) == Group(p)

kill(p, s) == proc' = [q \in DOMAIN proc |-> IF q \in Reached(p) THEN Signalled(q, s) ELSE proc[q]]

Ended(p) == proc[<<p, "leader">>].at \in {"exited", "INT"}
Reportable(p) == ~ proc[<<p, "leader">>].told /\ (Ended(p) \/ proc[<<p, "leader">>].stopped)

\* waitpid with WNOHANG and WUNTRACED
waitpid(p) == Reportable(p) /\ proc' = [proc EXCEPT ![<<p, "leader">>].told = TRUE]

-----------------------------------------------------------------------------
(* What each of the programs does. *)

\* execve: one that is not found exits, as does one with another number of
\* arguments than one
exec(p, prog, args, secs) ==
  proc' = [proc EXCEPT ![<<p, "leader">>] =
             [unborn EXCEPT !.prog = prog, !.secs = secs,
                            !.at = IF prog = "none" \/ args # 2 THEN "exited"
                                   ELSE IF prog = "mysplit" THEN "fork"
                                   ELSE "sleep"]]

Runs(p, role, at) == proc[<<p, role>>].at = at /\ ~ proc[<<p, role>>].stopped

\* A second passes
Sleep(p, role) == /\ Runs(p, role, "sleep") /\ proc[<<p, role>>].secs > 0
                  /\ proc' = [proc EXCEPT ![<<p, role>>].secs = @ - 1]

\* myspin and the child of mysplit exit; the others signal themselves
Awake(p, role) ==
  /\ Runs(p, role, "sleep") /\ proc[<<p, role>>].secs = 0
  /\ proc' = [proc EXCEPT ![<<p, role>>].at =
                IF role = "child" \/ proc[<<p, role>>].prog = "myspin" THEN "exited" ELSE "kill"]

\* The child sleeps, the parent waits for it; without a child, wait fails
Fork(p) ==
  /\ Runs(p, "leader", "fork")
  /\ \/ proc' = [proc EXCEPT ![<<p, "leader">>].at = "wait",
                             ![<<p, "child">>] = [@ EXCEPT !.prog = "mysplit", !.at = "sleep",
                                                       !.secs = proc[<<p, "leader">>].secs]]
     \/ proc' = [proc EXCEPT ![<<p, "leader">>].at = "exited"]

Waited(p) == /\ Runs(p, "leader", "wait") /\ ~ Live(<<p, "child">>)
             /\ proc' = [proc EXCEPT ![<<p, "leader">>].at = "exited"]

\* mystop stops its group and exits when it is continued
StopsItself(p) ==
  /\ Runs(p, "leader", "kill") /\ proc[<<p, "leader">>].prog = "mystop"
  /\ proc' = [proc EXCEPT ![<<p, "leader">>] = [@ EXCEPT !.stopped = TRUE, !.at = "last"]]

\* myint: kill(pid, SIGINT)
InterruptsItself(p) ==
  /\ Runs(p, "leader", "kill") /\ proc[<<p, "leader">>].prog = "myint"
  /\ proc' = [proc EXCEPT ![<<p, "leader">>].at = "INT"]

Exits(p) == /\ Runs(p, "leader", "last")
            /\ proc' = [proc EXCEPT ![<<p, "leader">>].at = "exited"]

Step(p) == \/ \E role \in Roles : Sleep(p, role) \/ Awake(p, role)
           \/ Fork(p) \/ Waited(p) \/ StopsItself(p) \/ InterruptsItself(p) \/ Exits(p)

=============================================================================
