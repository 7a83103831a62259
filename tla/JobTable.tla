------------------------------ MODULE JobTable ------------------------------
(***************************************************************************)
(* The job list of the shell (src/shlab/tsh.c): a fixed array of MAXJOBS   *)
(* slots and the job ID to give to the next job.  Each helper routine of   *)
(* tsh.c:668-816 is an operator with the routine's name; a routine that    *)
(* writes the list is an action on the two variables.  Command lines are   *)
(* left out: nothing depends on them.                                      *)
(***************************************************************************)
EXTENDS Integers

CONSTANTS MAXJOBS,  \* number of slots
          Pids      \* process IDs the kernel may give to children

ASSUME MAXJOBSAssumption == MAXJOBS \in Nat \ {0}
ASSUME PidsAssumption == 0 \notin Pids

VARIABLES jobs,     \* the job list
          nextjid   \* next job ID to allocate

JobState == {"UNDEF", "FG", "BG", "ST"}

\* The state that eval and do_bgfg give to a job
StartState(bg) == IF bg THEN "BG" ELSE "FG"

Slots == 0 .. MAXJOBS - 1

\* The contents of a job struct; pid 0 marks a free slot
Job == [pid : Pids \cup {0}, jid : Nat, state : JobState]

JobTableType == jobs \in [Slots -> Job] /\ nextjid \in Nat

-----------------------------------------------------------------------------
\* What a loop over the slots that returns at the first hit finds
First(S) == CHOOSE i \in S : \A j \in S : i <= j

SlotsOf(pid) == {i \in Slots : jobs[i].pid = pid}
SlotsIn(state) == {i \in Slots : jobs[i].state = state}

\* There is a job with this (nonzero) process ID; for 0: a free slot
Tracked(pid) == SlotsOf(pid) # {}

\* The slot a lookup returns a pointer to
getjobpid(pid) == First(SlotsOf(pid))
getjobjid(jid) == First({i \in Slots : jobs[i].jid = jid})

\* Mutant: a background job counts as the foreground job
fgpid_Running == LET running == SlotsIn("FG") \cup SlotsIn("BG")
                 IN  IF running = {} THEN 0 ELSE jobs[First(running)].pid

\* PID of the current foreground job, 0 if no such job
fgpid == IF SlotsIn("FG") = {} THEN 0 ELSE jobs[First(SlotsIn("FG"))].pid

\* Largest allocated job ID
maxjid(js) == CHOOSE m \in {js[i].jid : i \in Slots} \cup {0} :
                \A i \in Slots : js[i].jid <= m

-----------------------------------------------------------------------------
clearjob == [pid |-> 0, jid |-> 0, state |-> "UNDEF"]

initjobs == jobs = [i \in Slots |-> clearjob] /\ nextjid = 1

\* Takes the first free slot, or changes nothing when there is none
addjob(pid, state) ==
  IF Tracked(0)
  THEN /\ jobs' = [jobs EXCEPT ![getjobpid(0)] =
                     [pid |-> pid, jid |-> nextjid, state |-> state]]
       /\ nextjid' = IF nextjid + 1 > MAXJOBS THEN 1 ELSE nextjid + 1
  ELSE UNCHANGED <<jobs, nextjid>>

\* Clears the job's slot, or changes nothing when there is no such job
deletejob(pid) ==
  IF Tracked(pid)
  THEN /\ jobs' = [jobs EXCEPT ![getjobpid(pid)] = clearjob]
       /\ nextjid' = maxjid(jobs') + 1
  ELSE UNCHANGED <<jobs, nextjid>>

\* An assignment to the state field through a pointer into the list
setstate(slot, state) ==
  /\ jobs' = [jobs EXCEPT ![slot].state = state]
  /\ UNCHANGED nextjid

=============================================================================
