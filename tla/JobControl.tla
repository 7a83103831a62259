----------------------------- MODULE JobControl -----------------------------
(***************************************************************************)
(* What the shell promises of its jobs, without signals, handlers or an    *)
(* array of slots (the table of src/shlab/tsh.c:31-39): every child has    *)
(* one status, changed in one step; a job is given up exactly once, and at *)
(* most one job is in the foreground.                                      *)
(***************************************************************************)
CONSTANT Pids

VARIABLE status  \* of each process: not yet a job, state of its job, done

Init == status = [p \in Pids |-> "new"]

IsJob(p) == status[p] \in {"FG", "BG", "ST"}

Foreground == {p \in Pids : status[p] = "FG"}

\* A command line starts a job, in the foreground only if there is none
Start(p, s) == /\ status[p] = "new"
               /\ s = "FG" => Foreground = {}
               /\ status' = [status EXCEPT ![p] = s]

\* The job list is full: the child runs without being a job
Refuse(p) == status[p] = "new" /\ status' = [status EXCEPT ![p] = "done"]

Stop(p) == IsJob(p) /\ status' = [status EXCEPT ![p] = "ST"]

\* The fg and bg commands
Resume(p, s) == /\ IsJob(p)
                /\ s = "FG" => Foreground = {}
                /\ status' = [status EXCEPT ![p] = s]

Finish(p) == IsJob(p) /\ status' = [status EXCEPT ![p] = "done"]

Next == \E p \in Pids : \/ Refuse(p) \/ Stop(p) \/ Finish(p)
                        \/ \E s \in {"FG", "BG"} : Start(p, s) \/ Resume(p, s)

Spec == Init /\ [][Next]_status

=============================================================================
