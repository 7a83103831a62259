--------------------------- MODULE SessionProofs ---------------------------
(***************************************************************************)
(* Proofs about sessions of the shell, for every script, every size of the *)
(* job list and every set of process IDs: what the shell has in its list   *)
(* of a job and what the kernel has of its process group agree, whatever   *)
(* the order of keys, commands and waitpid; parseline finds in every line  *)
(* the words that are written there; and standard output holds the         *)
(* messages of the handler, whole and in order.                            *)
(***************************************************************************)
EXTENDS Session, WellFoundedInduction, FunctionTheorems, FiniteSetTheorems, SequenceTheorems, TLAPS

(***************************************************************************)
(* What the helper routines of the job list return and change, for every   *)
(* size of the list and every set of process IDs.                          *)
(***************************************************************************)

\* Every nonempty set of naturals has a least element.
LEMMA LeastNatural ==
  ASSUME NEW S, S \subseteq Nat, S # {}
  PROVE  \E n \in S : \A m \in S : n <= m
<1> DEFINE R == OpToRel(<, Nat)
<1>1. IsWellFoundedOn(R, Nat)
  BY NatLessThanWellFounded
<1>2. PICK n \in S : \A m \in S : ~ (<<m, n>> \in R)
  BY <1>1, WFMin, Zenon
<1>3. \A m \in S : ~ (m < n)
  BY <1>2 DEF OpToRel
<1> QED
  BY <1>3

\* A loop over the slots returns one of those it looks for.
LEMMA FirstIsMember ==
  ASSUME NEW S, S \subseteq Slots, S # {}
  PROVE  First(S) \in S
<1>1. Slots \subseteq Nat
  BY MAXJOBSAssumption DEF Slots
<1>2. \E i \in S : \A j \in S : i <= j
  BY <1>1, LeastNatural
<1> QED
  BY <1>2 DEF First

\* The lookups by process ID and of the foreground job (tsh.c:743, 753).
LEMMA LookupsFind ==
  /\ \A pid : Tracked(pid) => getjobpid(pid) \in SlotsOf(pid)
  /\ fgpid # 0 => \E i \in SlotsIn("FG") : fgpid = jobs[i].pid
  /\ SlotsIn("FG") # {} => \E i \in SlotsIn("FG") : fgpid = jobs[i].pid
<1>1. ASSUME NEW pid, Tracked(pid)
      PROVE  getjobpid(pid) \in SlotsOf(pid)
  <2>1. SlotsOf(pid) \subseteq Slots /\ SlotsOf(pid) # {}
    BY <1>1 DEF SlotsOf, Tracked
  <2> QED
    BY <2>1, FirstIsMember DEF getjobpid
<1>2. ASSUME SlotsIn("FG") # {}
      PROVE  \E i \in SlotsIn("FG") : fgpid = jobs[i].pid
  <2>1. First(SlotsIn("FG")) \in SlotsIn("FG")
    BY <1>2, FirstIsMember DEF SlotsIn
  <2> QED
    BY <1>2, <2>1 DEF fgpid
<1>3. fgpid # 0 => SlotsIn("FG") # {}
  BY DEF fgpid
<1> QED
  BY <1>1, <1>2, <1>3

\* The list always has a largest job ID (tsh.c:688).
LEMMA MaxjidExists ==
  ASSUME NEW js \in [Slots -> Job]
  PROVE  maxjid(js) \in Nat /\ \A i \in Slots : js[i].jid <= maxjid(js)
<1> DEFINE J == {js[i].jid : i \in Slots} \cup {0}
           Bounded(k) == \E m \in J : \A i \in 0 .. k - 1 : js[i].jid <= m
           B == {k \in 0 .. MAXJOBS : ~ Bounded(k)}
<1>1. J \subseteq Nat
  BY DEF Job
<1>2. MAXJOBS \in Nat /\ Slots = 0 .. MAXJOBS - 1
  BY MAXJOBSAssumption DEF Slots
<1>3. B = {}
  <2>1. SUFFICES ASSUME B # {} PROVE FALSE
    OBVIOUS
  <2>2. PICK k \in B : \A j \in B : k <= j
    <3>1. B \subseteq Nat
      BY <1>2
    <3> HIDE DEF B
    <3> QED
      BY <2>1, <3>1, LeastNatural
  <2>3. k # 0
    <3>1. 0 \in J /\ \A i \in 0 .. 0 - 1 : js[i].jid <= 0
      OBVIOUS
    <3>2. Bounded(0)
      BY <3>1
    <3> QED
      BY <3>2
  <2>4. k - 1 \in 0 .. MAXJOBS /\ k - 1 \notin B
    <3>1. k \in 0 .. MAXJOBS
      OBVIOUS
    <3>2. k - 1 \in 0 .. MAXJOBS /\ ~ (k <= k - 1)
      BY <1>2, <2>3, <3>1
    <3> HIDE DEF B
    <3> QED
      BY <2>2, <3>2
  <2>5. PICK m \in J : \A i \in 0 .. (k - 1) - 1 : js[i].jid <= m
    BY <2>4
  <2>6. k - 1 \in Slots /\ js[k - 1].jid \in J
    BY <1>2, <2>2, <2>3
  <2>7. CASE js[k - 1].jid <= m
    <3>1. \A i \in 0 .. k - 1 : js[i].jid <= m
      BY <1>2, <2>2, <2>4, <2>5, <2>7
    <3> QED
      BY <3>1
  <2>8. CASE ~ (js[k - 1].jid <= m)
    <3>1. m \in Nat /\ js[k - 1].jid \in Nat /\ m <= js[k - 1].jid
      <4>1. m \in Nat /\ js[k - 1].jid \in Nat
        BY <1>1, <2>6
      <4> QED
        BY <2>8, <4>1
    <3>2. ASSUME NEW i \in 0 .. k - 1 PROVE js[i].jid <= js[k - 1].jid
      <4>1. CASE i = k - 1
        BY <3>1, <4>1
      <4>2. CASE i # k - 1
        <5>1. i \in 0 .. (k - 1) - 1 /\ i \in Slots
          BY <1>2, <2>2, <2>3, <4>2
        <5>2. js[i].jid \in J
          BY <5>1
        <5>3. js[i].jid \in Nat /\ js[i].jid <= m
          BY <1>1, <2>5, <5>1, <5>2
        <5> QED
          BY <3>1, <5>3
      <4> QED
        BY <4>1, <4>2
    <3>3. Bounded(k)
      BY <2>6, <3>2
    <3> QED
      BY <3>3
  <2> QED
    BY <2>7, <2>8
<1>4. PICK m \in J : \A i \in Slots : js[i].jid <= m
  <2>1. MAXJOBS \in 0 .. MAXJOBS
    BY <1>2
  <2>2. Bounded(MAXJOBS)
    BY <1>3, <2>1
  <2> QED
    BY <1>2, <2>2
<1>5. maxjid(js) \in J /\ \A i \in Slots : js[i].jid <= maxjid(js)
  BY <1>4 DEF maxjid
<1> QED
  BY <1>1, <1>5

\* addjob changes nothing, or one free slot (tsh.c:699).
LEMMA AddjobEffect ==
  ASSUME JobTableType, NEW p \in Pids, NEW s \in JobState, addjob(p, s)
  PROVE  /\ JobTableType'
         /\ \/ ~ Tracked(0) /\ jobs' = jobs
            \/ \E i \in SlotsOf(0) :
                 jobs' = [jobs EXCEPT ![i] = [pid |-> p, jid |-> nextjid, state |-> s]]
<1>1. CASE ~ Tracked(0)
  BY <1>1 DEF addjob, JobTableType
<1>2. CASE Tracked(0)
  <2> DEFINE job == [pid |-> p, jid |-> nextjid, state |-> s]
  <2>1. getjobpid(0) \in SlotsOf(0)
    BY <1>2, LookupsFind
  <2>2. jobs' = [jobs EXCEPT ![getjobpid(0)] = job]
    BY <1>2 DEF addjob
  <2>3. job \in Job
    BY DEF Job, JobTableType
  <2>4. jobs' \in [Slots -> Job]
    BY <2>2, <2>3 DEF JobTableType
  <2>5. nextjid' \in Nat
    BY <1>2 DEF addjob, JobTableType
  <2> QED
    BY <2>1, <2>2, <2>4, <2>5 DEF JobTableType
<1> QED
  BY <1>1, <1>2

\* deletejob changes nothing, or clears one slot of the job (tsh.c:725).
LEMMA DeletejobEffect ==
  ASSUME JobTableType, NEW p \in Pids, deletejob(p)
  PROVE  /\ JobTableType'
         /\ \/ ~ Tracked(p) /\ jobs' = jobs
            \/ \E i \in SlotsOf(p) : jobs' = [jobs EXCEPT ![i] = clearjob]
<1>1. CASE ~ Tracked(p)
  BY <1>1 DEF deletejob, JobTableType
<1>2. CASE Tracked(p)
  <2>1. getjobpid(p) \in SlotsOf(p)
    BY <1>2, LookupsFind
  <2>2. jobs' = [jobs EXCEPT ![getjobpid(p)] = clearjob]
    BY <1>2 DEF deletejob
  <2>3. clearjob \in Job
    BY DEF clearjob, Job, JobState
  <2>4. jobs' \in [Slots -> Job]
    BY <2>2, <2>3 DEF JobTableType
  <2>5. nextjid' = maxjid(jobs') + 1
    BY <1>2 DEF deletejob
  <2>6. nextjid' \in Nat
    BY <2>4, <2>5, MaxjidExists
  <2> QED
    BY <2>1, <2>2, <2>4, <2>6 DEF JobTableType
<1> QED
  BY <1>1, <1>2

\* An assignment to job->state keeps the rest of the list.
LEMMA SetstateEffect ==
  ASSUME JobTableType, NEW i \in Slots, NEW s \in JobState, setstate(i, s)
  PROVE  /\ JobTableType'
         /\ \A j \in Slots : /\ jobs'[j].pid = jobs[j].pid
                             /\ jobs'[j].jid = jobs[j].jid
                             /\ jobs'[j].state = IF j = i THEN s ELSE jobs[j].state
BY DEF setstate, JobTableType, Job

\* At start every slot is free.
LEMMA InitjobsType == initjobs => JobTableType /\ \A i \in Slots : jobs[i] = clearjob
BY DEF initjobs, JobTableType, Job, JobState, clearjob

-----------------------------------------------------------------------------
(* The inductive invariant. *)

LiveStates == {"fork", "sleep", "wait", "kill", "last"}
EndStates == {"exited", "INT"}

Process(r) ==
  /\ r \in [prog : {r.prog}, at : {"unborn"} \cup LiveStates \cup EndStates, secs : {r.secs},
            stopped : BOOLEAN, interrupted : BOOLEAN, told : BOOLEAN]
  /\ r.at \in LiveStates /\ r.interrupted => r.stopped
  /\ r.at = "unborn" => ~ r.stopped /\ ~ r.told /\ ~ r.interrupted

\* The leader waits for its child, and one is stopped as the other is
Family(leader, kid) ==
  /\ Process(leader) /\ Process(kid)
  /\ kid.at \in LiveStates => /\ leader.at = "wait"
                              /\ kid.stopped <=> leader.stopped
                              /\ kid.interrupted <=> leader.interrupted
  /\ leader.at \in {"unborn", "fork"} => kid.at = "unborn"

\* A job is listed as stopped exactly when waitpid has told of its stop;
\* a leader that is not listed has ended, and waitpid has told of that
Listed(js, p, leader) ==
  /\ \A i \in Slots : js[i].pid = p =>
       /\ leader.at # "unborn"
       /\ js[i].state = "ST" <=> leader.told
       /\ leader.told => leader.at \in LiveStates /\ leader.stopped
  /\ \A i, j \in Slots : js[i].pid = p /\ js[j].pid = p => i = j
  /\ leader.at # "unborn" /\ (\A i \in Slots : js[i].pid # p) =>
       leader.at \in EndStates /\ leader.told

ProcessTable == proc = [q \in Pids \X Roles |-> proc[q]]

IInv == /\ JobTableType /\ ProcessTable
        /\ \A p \in Pids : /\ Family(proc[<<p, "leader">>], proc[<<p, "child">>])
                           /\ Listed(jobs, p, proc[<<p, "leader">>])

\* The shell starts no program when its list is full.
Room == (\E p \in Pids : Free(p)) => Tracked(0)

-----------------------------------------------------------------------------
(* Steps that change the processes of one group. *)

\* The table of processes after a step that leaves the groups but p's
Becomes(p, leader, kid) ==
  proc' = [q \in Pids \X Roles |-> IF q = <<p, "leader">> THEN leader
                                   ELSE IF q = <<p, "child">> THEN kid
                                   ELSE proc[q]]

\* What a step has to show: the new group of p fits its new slots, and the
\* slots of the others are where and as they were.
LEMMA OneGroup ==
  ASSUME IInv, JobTableType', NEW p \in Pids, NEW leader, NEW kid,
         Becomes(p, leader, kid), Family(leader, kid), Listed(jobs', p, leader),
         \A i \in Slots : jobs'[i] = jobs[i] \/ (jobs[i].pid \in {0, p} /\ jobs'[i].pid \in {0, p})
  PROVE  IInv'
<1>1. ProcessTable'
  <2>1. \A q \in Pids \X Roles : proc'[q] = IF q = <<p, "leader">> THEN leader
                                            ELSE IF q = <<p, "child">> THEN kid
                                            ELSE proc[q]
    BY DEF Becomes
  <2>2. proc' = [q \in Pids \X Roles |-> proc'[q]]
    BY <2>1 DEF Becomes
  <2> QED
    BY <2>2 DEF ProcessTable
<1>2. proc'[<<p, "leader">>] = leader /\ proc'[<<p, "child">>] = kid
  BY DEF Becomes, Roles
<1>3. ASSUME NEW q \in Pids, q # p
      PROVE  /\ Family(proc'[<<q, "leader">>], proc'[<<q, "child">>])
             /\ Listed(jobs', q, proc'[<<q, "leader">>])
  <2>1. proc'[<<q, "leader">>] = proc[<<q, "leader">>] /\ proc'[<<q, "child">>] = proc[<<q, "child">>]
    BY <1>3 DEF Becomes, Roles
  <2>2. \A i \in Slots : /\ jobs'[i].pid = q <=> jobs[i].pid = q
                         /\ jobs'[i].pid = q => jobs'[i] = jobs[i]
    BY <1>3, PidsAssumption
  <2>3. Listed(jobs', q, proc[<<q, "leader">>])
    <3>1. Listed(jobs, q, proc[<<q, "leader">>])
      BY DEF IInv
    <3> QED
      BY <2>2, <3>1 DEF Listed
  <2> QED
    BY <2>1, <2>3 DEF IInv
<1> QED
  BY <1>1, <1>2, <1>3 DEF IInv

\* kill(-pid, s) changes the two processes of the group.
LEMMA KillEffect ==
  ASSUME ProcessTable, NEW p \in Pids, NEW s, kill(p, s)
  PROVE  Becomes(p, Signalled(<<p, "leader">>, s), Signalled(<<p, "child">>, s))
<1>1. DOMAIN proc = Pids \X Roles
  BY DEF ProcessTable
<1>2. \A q \in Pids \X Roles : q \in Reached(p) <=> q = <<p, "leader">> \/ q = <<p, "child">>
  BY DEF Reached, Group, Roles
<1>3. ASSUME NEW q \in Pids \X Roles
      PROVE  (IF q \in Reached(p) THEN Signalled(q, s) ELSE proc[q]) =
             (IF q = <<p, "leader">> THEN Signalled(<<p, "leader">>, s)
              ELSE IF q = <<p, "child">> THEN Signalled(<<p, "child">>, s)
              ELSE proc[q])
  BY <1>2
<1> QED
  BY <1>1, <1>3 DEF kill, Becomes

\* What a signal makes of a process.
LEMMA SignalledProcess ==
  ASSUME NEW q, NEW s \in {"INT", "TSTP", "CONT"}, Process(proc[q])
  PROVE  LET old == proc[q]
             new == Signalled(q, s)
         IN  /\ Process(new)
             /\ new.at = "unborn" <=> old.at = "unborn"
             /\ new.at = "fork" => old.at = "fork"
             /\ s # "CONT" => (new.told <=> old.told)
             /\ s = "CONT" => ~ new.told \/ (new = old /\ old.at \notin LiveStates)
<1> DEFINE old == proc[q]
           new == Signalled(q, s)
<1>1. CASE old.at \notin LiveStates
  <2>1. new = old
    BY <1>1 DEF Signalled, Live, LiveStates
  <2> QED
    BY <1>1, <2>1
<1>2. CASE old.at \in LiveStates
  <2>1. Live(q)
    BY <1>2 DEF Live, LiveStates
  <2>2. CASE s = "INT" /\ ~ old.stopped
    <3>1. new = [old EXCEPT !.at = "INT"]
      BY <2>1, <2>2 DEF Signalled
    <3> QED
      BY <1>2, <2>2, <3>1 DEF Process, LiveStates, EndStates
  <2>3. CASE s = "INT" /\ old.stopped
    <3>1. new = [old EXCEPT !.interrupted = TRUE]
      BY <2>1, <2>3 DEF Signalled
    <3> QED
      BY <1>2, <2>3, <3>1 DEF Process, LiveStates, EndStates
  <2>4. CASE s = "TSTP"
    <3>1. new = [old EXCEPT !.stopped = TRUE]
      BY <2>1, <2>4 DEF Signalled
    <3> QED
      BY <1>2, <2>4, <3>1 DEF Process, LiveStates, EndStates
  <2>5. CASE s = "CONT"
    <3>1. new = [old EXCEPT !.stopped = FALSE, !.told = FALSE,
                            !.at = IF old.interrupted THEN "INT" ELSE old.at]
      BY <2>1, <2>5 DEF Signalled
    <3> QED
      BY <1>2, <2>5, <3>1 DEF Process, LiveStates, EndStates
  <2> QED
    BY <2>2, <2>3, <2>4, <2>5
<1> QED
  BY <1>1, <1>2

\* A signal to the group keeps parent and child together.
LEMMA SignalledFamily ==
  ASSUME NEW p \in Pids, NEW s \in {"INT", "TSTP", "CONT"},
         Family(proc[<<p, "leader">>], proc[<<p, "child">>])
  PROVE  Family(Signalled(<<p, "leader">>, s), Signalled(<<p, "child">>, s))
<1> DEFINE leader == proc[<<p, "leader">>]
           kid == proc[<<p, "child">>]
           leader1 == Signalled(<<p, "leader">>, s)
           kid1 == Signalled(<<p, "child">>, s)
<1>1. Process(leader1) /\ Process(kid1)
  BY SignalledProcess DEF Family
<1>2. /\ leader1.at \in {"unborn", "fork"} => leader.at \in {"unborn", "fork"}
      /\ kid.at = "unborn" => kid1.at = "unborn"
  BY SignalledProcess DEF Family
<1>3. CASE kid.at \notin LiveStates
  <2>1. kid1 = kid
    BY <1>3 DEF Signalled, Live, LiveStates
  <2> QED
    BY <1>1, <1>2, <1>3, <2>1 DEF Family
<1>4. CASE kid.at \in LiveStates
  <2>1. /\ leader.at = "wait" /\ kid.stopped <=> leader.stopped
        /\ kid.interrupted <=> leader.interrupted
    BY <1>4 DEF Family
  <2>2. kid1.at \in LiveStates => /\ leader1.at = "wait"
                                  /\ kid1.stopped <=> leader1.stopped
                                  /\ kid1.interrupted <=> leader1.interrupted
    <3>1. CASE s = "INT"
      BY <1>4, <2>1, <3>1 DEF Family, Process, Signalled, Live, LiveStates, EndStates
    <3>2. CASE s = "TSTP"
      BY <1>4, <2>1, <3>2 DEF Family, Process, Signalled, Live, LiveStates, EndStates
    <3>3. CASE s = "CONT"
      BY <1>4, <2>1, <3>3 DEF Family, Process, Signalled, Live, LiveStates, EndStates
    <3> QED
      BY <3>1, <3>2, <3>3
  <2> QED
    BY <1>1, <1>2, <2>1, <2>2 DEF Family
<1> QED
  BY <1>3, <1>4

-----------------------------------------------------------------------------
(* The steps. *)

\* A key's signal to the foreground job leaves the list as it is.
LEMMA KeyKeeps ==
  ASSUME IInv, NEW s \in {"INT", "TSTP"}, Key(s)
  PROVE  IInv'
<1>1. PICK i \in SlotsIn("FG") : fgpid = jobs[i].pid
  BY LookupsFind DEF Key
<1> DEFINE p == jobs[i].pid
<1>2. p \in Pids /\ i \in Slots /\ jobs[i].state = "FG"
  BY <1>1 DEF Key, IInv, JobTableType, Job, SlotsIn
<1>3. kill(p, s) /\ UNCHANGED <<jobs, nextjid>>
  BY <1>1 DEF Key, shell
<1> DEFINE old == proc[<<p, "leader">>]
           new == Signalled(<<p, "leader">>, s)
<1>4. Family(old, proc[<<p, "child">>]) /\ Listed(jobs, p, old)
  BY <1>2 DEF IInv
<1> HIDE DEF p
<1>5. Becomes(p, new, Signalled(<<p, "child">>, s))
  BY <1>2, <1>3, KillEffect DEF IInv
<1>6. Family(new, Signalled(<<p, "child">>, s))
  BY <1>2, <1>4, SignalledFamily
<1>7. /\ Process(new) /\ (new.told <=> old.told)
      /\ new.at = "unborn" <=> old.at = "unborn"
  BY <1>2, <1>4, SignalledProcess DEF Family
<1>8. ~ old.told /\ old.at # "unborn"
  BY <1>2, <1>4 DEF Listed, p, Family, Process
<1>9. Listed(jobs', p, new)
  <2> HIDE DEF old, new
  <2>1. \E j \in Slots : jobs[j].pid = p
    BY <1>2 DEF p
  <2> QED
    BY <1>3, <1>4, <1>7, <1>8, <2>1 DEF Listed
<1>10. JobTableType'
  BY <1>3 DEF IInv, JobTableType
<1> HIDE DEF new
<1> QED
  BY <1>2, <1>3, <1>5, <1>6, <1>9, <1>10, OneGroup

\* fg and bg continue a job of the list and set its state with it.
LEMMA BgfgKeeps ==
  ASSUME IInv, do_bgfg
  PROVE  IInv'
<1> DEFINE p == NamedJob(Named(Command.argv))
           bg == Kind(Command.argv) = "bg"
<1>1. CASE p = 0
  <2>1. UNCHANGED <<jobs, nextjid, proc>>
    BY <1>1 DEF do_bgfg, shell
  <2> QED
    BY <2>1 DEF IInv, JobTableType, ProcessTable, Listed
<1>2. CASE p # 0
  <2>1. Tracked(p) /\ p \in Pids
    <3>1. \A arg : NamedJob(arg) # 0 => Tracked(NamedJob(arg)) /\ NamedJob(arg) \in Pids
      <4> SUFFICES ASSUME NEW arg, NamedJob(arg) # 0
                   PROVE  Tracked(NamedJob(arg)) /\ NamedJob(arg) \in Pids
        OBVIOUS
      <4>1. Tracked(NamedJob(arg))
        <5>1. CASE arg.by = "jid" /\ arg.id > 0 /\ \E i \in Slots : jobs[i].jid = arg.id
          <6> DEFINE S == {i \in Slots : jobs[i].jid = arg.id}
          <6>1. S # {} /\ S \subseteq Slots
            BY <5>1
          <6>2. First(S) \in Slots
            <7> HIDE DEF S
            <7> QED
              BY <6>1, FirstIsMember
          <6>3. NamedJob(arg) = jobs[First(S)].pid
            BY <5>1 DEF NamedJob, getjobjid
          <6> QED
            BY <6>2, <6>3 DEF Tracked, SlotsOf
        <5>2. CASE ~ (arg.by = "jid" /\ arg.id > 0 /\ \E i \in Slots : jobs[i].jid = arg.id)
          <6>1. CASE arg.by = "pid" /\ arg.id > 0 /\ Tracked(arg.id)
            BY <5>2, <6>1 DEF NamedJob
          <6>2. CASE ~ (arg.by = "pid" /\ arg.id > 0 /\ Tracked(arg.id))
            BY <5>2, <6>2 DEF NamedJob
          <6> QED
            BY <6>1, <6>2
        <5> QED
          BY <5>1, <5>2
      <4>2. \A pid : Tracked(pid) => pid \in Pids \cup {0}
        BY DEF Tracked, SlotsOf, IInv, JobTableType, Job
      <4> QED
        BY <4>1, <4>2
    <3> HIDE DEF NamedJob
    <3> QED
      BY <1>2, <3>1
  <2>2. kill(p, "CONT") /\ setstate(getjobpid(p), StartState(bg))
    BY <1>2 DEF do_bgfg
  <2> HIDE DEF p, bg
  <2>3. PICK i \in SlotsOf(p) : i = getjobpid(p)
    BY <2>1, LookupsFind
  <2>4. i \in Slots /\ jobs[i].pid = p
    BY <2>3 DEF SlotsOf
  <2> DEFINE old == proc[<<p, "leader">>]
             new == Signalled(<<p, "leader">>, "CONT")
             st == StartState(bg)
  <2>5. Family(old, proc[<<p, "child">>]) /\ Listed(jobs, p, old)
    BY <2>1 DEF IInv
  <2>6. Becomes(p, new, Signalled(<<p, "child">>, "CONT"))
    BY <2>1, <2>2, KillEffect DEF IInv
  <2>7. Family(new, Signalled(<<p, "child">>, "CONT"))
    BY <2>1, <2>5, SignalledFamily
  <2>8. /\ new.at = "unborn" <=> old.at = "unborn"
        /\ ~ new.told \/ (new = old /\ old.at \notin LiveStates)
    BY <2>1, <2>5, SignalledProcess DEF Family
  <2> HIDE DEF old, new, st
  <2>9. st \in {"BG", "FG"}
    BY DEF StartState, st
  <2>10. /\ JobTableType'
         /\ \A j \in Slots : /\ jobs'[j].pid = jobs[j].pid
                             /\ j # i => jobs'[j] = jobs[j]
                             /\ j = i => jobs'[j].state = st
    BY <2>2, <2>3, <2>4, <2>9 DEF setstate, IInv, JobTableType, Job, JobState, st
  <2>11. old.at # "unborn" /\ (old.told => old.at \in LiveStates)
    BY <2>4, <2>5 DEF Listed
  <2>12. ~ new.told
    BY <2>8, <2>11
  <2>13. Listed(jobs', p, new)
    <3>1. \A j \in Slots : jobs'[j].pid = p => j = i
      BY <2>4, <2>5, <2>10 DEF Listed
    <3> QED
      BY <2>4, <2>8, <2>9, <2>10, <2>11, <2>12, <3>1 DEF Listed
  <2>14. \A j \in Slots : \/ jobs'[j] = jobs[j]
                          \/ jobs[j].pid \in {0, p} /\ jobs'[j].pid \in {0, p}
    BY <2>4, <2>10
  <2> QED
    BY <2>1, <2>6, <2>7, <2>10, <2>13, <2>14, OneGroup
<1> QED
  BY <1>1, <1>2

\* eval adds the program it has forked, when there is room.
LEMMA RunKeeps ==
  ASSUME IInv, Room, NEW p \in Pids, Run(p)
  PROVE  IInv'
<1> DEFINE old == proc[<<p, "leader">>]
           kid == proc[<<p, "child">>]
           prog == Program(Command.argv)
           args == Len(Command.argv)
           secs == Seconds(Command.argv)
           st == StartState(Command.bg)
           start == IF prog = "none" \/ args # 2 THEN "exited"
                    ELSE IF prog = "mysplit" THEN "fork"
                    ELSE "sleep"
           new == [unborn EXCEPT !.prog = prog, !.secs = secs, !.at = start]
<1>1. /\ old.at = "unborn" /\ Tracked(0)
      /\ exec(p, prog, args, secs) /\ addjob(p, st)
  BY DEF Run, Free, Room
<1>2. Family(old, kid) /\ Listed(jobs, p, old)
  BY DEF IInv
<1>3. proc' = [proc EXCEPT ![<<p, "leader">>] = new]
  BY <1>1 DEF exec
<1>4. st \in {"BG", "FG"}
  BY DEF StartState
<1> HIDE DEF prog, args, secs, st
<1>5. Family(new, kid) /\ new.at # "unborn" /\ ~ new.told
  <2> DEFINE S == {"exited", "fork", "sleep"}
  <2>1. start \in S
    OBVIOUS
  <2> HIDE DEF start
  <2>4. /\ new \in [prog : {new.prog}, at : S, secs : {new.secs},
                    stopped : BOOLEAN, interrupted : BOOLEAN, told : BOOLEAN]
        /\ ~ new.stopped /\ ~ new.interrupted /\ ~ new.told
    BY <2>1 DEF unborn
  <2>2. kid.at = "unborn" /\ Process(kid)
    BY <1>1, <1>2 DEF Family
  <2> HIDE DEF new, kid
  <2>3. Process(new)
    BY <2>1, <2>4 DEF Process, LiveStates, EndStates
  <2> QED
    BY <2>1, <2>2, <2>3, <2>4 DEF Family, LiveStates
<1> HIDE DEF new
<1>6. Becomes(p, new, kid)
  BY <1>3 DEF IInv, ProcessTable, Becomes
<1>7. PICK i \in SlotsOf(0) :
        jobs' = [jobs EXCEPT ![i] = [pid |-> p, jid |-> nextjid, state |-> st]]
  BY <1>1, LookupsFind DEF addjob
<1>8. JobTableType'
  BY <1>1, <1>4, AddjobEffect DEF IInv, JobState
<1>9. /\ i \in Slots /\ jobs[i].pid = 0 /\ jobs'[i].pid = p /\ jobs'[i].state = st
      /\ \A j \in Slots : j # i => jobs'[j] = jobs[j]
  BY <1>7 DEF SlotsOf, IInv, JobTableType
<1>10. Listed(jobs', p, new)
  <2>1. \A j \in Slots : jobs[j].pid # p
    BY <1>1, <1>2 DEF Listed
  <2> QED
    BY <1>4, <1>5, <1>9, <2>1 DEF Listed
<1> QED
  BY <1>5, <1>6, <1>8, <1>9, <1>10, OneGroup

\* The handler of SIGCHLD: the end of a process takes its job from the list,
\* its stop is noted there.
LEMMA ChldKeeps ==
  ASSUME IInv, NEW p \in Pids, Chld(p)
  PROVE  IInv'
<1> DEFINE old == proc[<<p, "leader">>]
           kid == proc[<<p, "child">>]
           new == [old EXCEPT !.told = TRUE]
<1>1. Family(old, kid) /\ Listed(jobs, p, old)
  BY DEF IInv
<1>2. ~ old.told /\ (old.at \in EndStates \/ old.stopped)
  BY DEF Chld, waitpid, Reportable, Ended, EndStates
<1>3. proc' = [proc EXCEPT ![<<p, "leader">>] = new]
  BY DEF Chld, waitpid
<1>4. /\ new \in [prog : {new.prog}, at : {old.at}, secs : {new.secs},
                  stopped : BOOLEAN, interrupted : BOOLEAN, told : BOOLEAN]
      /\ new.told /\ old.at # "unborn"
      /\ new.stopped <=> old.stopped
      /\ new.interrupted <=> old.interrupted
  BY <1>1, <1>2 DEF Family, Process, EndStates
<1> HIDE DEF new
<1>5. Becomes(p, new, kid)
  BY <1>3 DEF IInv, ProcessTable, Becomes
<1>6. Family(new, kid)
  <2>1. Process(new)
    BY <1>1, <1>4 DEF Family, Process
  <2> QED
    BY <1>1, <1>4, <2>1 DEF Family
<1>7. CASE old.at \in EndStates
  <2>1. deletejob(p)
    BY <1>7 DEF Chld, EndStates
  <2>2. JobTableType'
    BY <2>1, DeletejobEffect DEF IInv
  <2>3. \A i \in Slots : \/ jobs'[i] = jobs[i]
                         \/ jobs[i].pid \in {0, p} /\ jobs'[i].pid \in {0, p}
    BY <2>1, DeletejobEffect DEF IInv, JobTableType, SlotsOf, clearjob
  <2>4. \A i \in Slots : jobs'[i].pid # p
    <3>1. CASE ~ Tracked(p)
      BY <2>1, <3>1, DeletejobEffect DEF IInv, Tracked, SlotsOf
    <3>2. CASE Tracked(p)
      <4>1. PICK i \in SlotsOf(p) : jobs' = [jobs EXCEPT ![i] = clearjob]
        BY <2>1, <3>2, LookupsFind DEF deletejob
      <4>2. i \in Slots /\ jobs[i].pid = p
        BY <4>1 DEF SlotsOf
      <4>3. \A j \in Slots : jobs[j].pid = p => j = i
        BY <1>1, <4>2 DEF Listed
      <4> QED
        BY <4>1, <4>2, <4>3, PidsAssumption DEF IInv, JobTableType, clearjob
    <3> QED
      BY <3>1, <3>2
  <2>5. Listed(jobs', p, new)
    BY <1>4, <1>7, <2>4 DEF Listed
  <2> QED
    BY <1>5, <1>6, <2>2, <2>3, <2>5, OneGroup
<1>8. CASE old.at \notin EndStates
  <2>1. setstate(getjobpid(p), "ST") /\ old.stopped /\ old.at \in LiveStates
    BY <1>1, <1>2, <1>4, <1>8 DEF Chld, EndStates, Family, Process
  <2>2. Tracked(p)
    BY <1>1, <1>4, <1>8 DEF Listed, Tracked, SlotsOf
  <2>3. PICK i \in SlotsOf(p) : i = getjobpid(p)
    BY <2>2, LookupsFind
  <2>4. i \in Slots /\ jobs[i].pid = p
    BY <2>3 DEF SlotsOf
  <2>5. /\ JobTableType'
        /\ \A j \in Slots : /\ jobs'[j].pid = jobs[j].pid
                            /\ j # i => jobs'[j] = jobs[j]
                            /\ j = i => jobs'[j].state = "ST"
    BY <2>1, <2>3, <2>4 DEF setstate, IInv, JobTableType, Job, JobState
  <2>6. \A j \in Slots : jobs'[j].pid = p => j = i
    BY <1>1, <2>4, <2>5 DEF Listed
  <2>7. Listed(jobs', p, new)
    BY <1>4, <2>1, <2>4, <2>5, <2>6 DEF Listed
  <2>8. \A j \in Slots : \/ jobs'[j] = jobs[j]
                         \/ jobs[j].pid \in {0, p} /\ jobs'[j].pid \in {0, p}
    BY <2>4, <2>5
  <2> QED
    BY <1>5, <1>6, <2>5, <2>7, <2>8, OneGroup
<1> QED
  BY <1>7, <1>8

\* A leader that runs is in the list and has not been told of; what it does
\* leaves that so.
LEMMA LeaderRuns ==
  ASSUME IInv, UNCHANGED <<jobs, nextjid>>, NEW p \in Pids, NEW new, NEW kid,
         Becomes(p, new, kid), Family(new, kid), new.at # "unborn",
         proc[<<p, "leader">>].at \in LiveStates, ~ proc[<<p, "leader">>].stopped,
         new.told <=> proc[<<p, "leader">>].told
  PROVE  IInv'
<1> DEFINE old == proc[<<p, "leader">>]
<1>1. Listed(jobs, p, old)
  BY DEF IInv
<1>2. (\E i \in Slots : jobs[i].pid = p) /\ ~ old.told
  BY <1>1 DEF Listed, LiveStates, EndStates
<1>3. Listed(jobs', p, new)
  BY <1>1, <1>2 DEF Listed
<1>4. JobTableType'
  BY DEF IInv, JobTableType
<1> QED
  BY <1>3, <1>4, OneGroup

\* So does a leader that has no living child.
LEMMA LeaderAlone ==
  ASSUME IInv, UNCHANGED <<jobs, nextjid>>, NEW p \in Pids, NEW new,
         proc' = [proc EXCEPT ![<<p, "leader">>] = new],
         Process(new), new.at \notin {"unborn", "fork"},
         proc[<<p, "leader">>].at \in LiveStates, ~ proc[<<p, "leader">>].stopped,
         ~ Live(<<p, "child">>), new.told <=> proc[<<p, "leader">>].told
  PROVE  IInv'
<1>1. Becomes(p, new, proc[<<p, "child">>])
  BY DEF IInv, ProcessTable, Becomes
<1>2. Family(new, proc[<<p, "child">>])
  BY DEF IInv, Family, Live, LiveStates
<1> QED
  BY <1>1, <1>2, LeaderRuns

\* What the leader of a group does itself.
LEMMA LeaderSteps ==
  ASSUME IInv, UNCHANGED <<jobs, nextjid>>, NEW p \in Pids,
         \/ Sleep(p, "leader") \/ Awake(p, "leader")
         \/ Waited(p) \/ StopsItself(p) \/ InterruptsItself(p) \/ Exits(p)
  PROVE  IInv'
<1> DEFINE old == proc[<<p, "leader">>]
<1>1. Process(old) /\ (Live(<<p, "child">>) => old.at = "wait")
  BY DEF IInv, Family, Live, LiveStates
<1>2. CASE Sleep(p, "leader")
  <2> DEFINE new == [old EXCEPT !.secs = old.secs - 1]
  <2>1. /\ proc' = [proc EXCEPT ![<<p, "leader">>] = new]
        /\ old.at = "sleep" /\ ~ old.stopped
    BY <1>2 DEF Sleep, Runs
  <2>2. /\ Process(new) /\ new.at = "sleep"
        /\ new.told <=> old.told
    BY <1>1, <2>1 DEF Process, LiveStates, EndStates
  <2>3. ~ Live(<<p, "child">>) /\ old.at \in LiveStates
    BY <1>1, <2>1 DEF LiveStates
  <2> HIDE DEF new
  <2> QED
    BY <2>1, <2>2, <2>3, LeaderAlone
<1>3. ASSUME NEW at \in {"exited", "kill", "INT"}, ~ Live(<<p, "child">>),
             proc' = [proc EXCEPT ![<<p, "leader">>].at = at],
             old.at \in LiveStates, ~ old.stopped
      PROVE  IInv'
  <2> DEFINE new == [old EXCEPT !.at = at]
  <2>1. proc' = [proc EXCEPT ![<<p, "leader">>] = new]
    BY <1>3
  <2>2. /\ Process(new) /\ new.at = at
        /\ new.told <=> old.told
    BY <1>1, <1>3 DEF Process, LiveStates, EndStates
  <2> HIDE DEF new
  <2> QED
    BY <1>3, <2>1, <2>2, LeaderAlone
<1>4. CASE Awake(p, "leader")
  <2> DEFINE at == IF "leader" = "child" \/ old.prog = "myspin" THEN "exited" ELSE "kill"
  <2>1. /\ proc' = [proc EXCEPT ![<<p, "leader">>].at = at]
        /\ old.at = "sleep" /\ ~ old.stopped
    BY <1>4 DEF Awake, Runs
  <2>2. at \in {"exited", "kill", "INT"}
    OBVIOUS
  <2>3. ~ Live(<<p, "child">>) /\ old.at \in LiveStates
    BY <1>1, <2>1 DEF LiveStates
  <2> HIDE DEF at
  <2> QED
    BY <1>3, <2>1, <2>2, <2>3
<1>5. CASE Waited(p) \/ InterruptsItself(p) \/ Exits(p)
  <2>1. /\ \E at \in {"exited", "kill", "INT"} :
             proc' = [proc EXCEPT ![<<p, "leader">>].at = at]
        /\ ~ Live(<<p, "child">>) /\ old.at \in LiveStates /\ ~ old.stopped
    BY <1>1, <1>5 DEF Waited, InterruptsItself, Exits, Runs, LiveStates
  <2> QED
    BY <1>3, <2>1
<1>6. CASE StopsItself(p)
  <2> DEFINE new == [old EXCEPT !.stopped = TRUE, !.at = "last"]
  <2>1. /\ proc' = [proc EXCEPT ![<<p, "leader">>] = new]
        /\ old.at = "kill" /\ ~ old.stopped
    BY <1>6 DEF StopsItself, Runs
  <2>2. /\ Process(new) /\ new.at = "last"
        /\ new.told <=> old.told
    BY <1>1, <2>1 DEF Process, LiveStates, EndStates
  <2>3. ~ Live(<<p, "child">>) /\ old.at \in LiveStates
    BY <1>1, <2>1 DEF LiveStates
  <2> HIDE DEF new
  <2> QED
    BY <2>1, <2>2, <2>3, LeaderAlone
<1> QED
  BY <1>2, <1>4, <1>5, <1>6

\* mysplit forks its child, which runs beside it, or fork fails.
LEMMA ForkKeeps ==
  ASSUME IInv, UNCHANGED <<jobs, nextjid>>, NEW p \in Pids, Fork(p)
  PROVE  IInv'
<1> DEFINE old == proc[<<p, "leader">>]
           kid == proc[<<p, "child">>]
           born == [kid EXCEPT !.prog = "mysplit", !.at = "sleep", !.secs = old.secs]
<1>1. /\ Family(old, kid) /\ Process(old) /\ Process(kid)
      /\ old.at = "fork" /\ ~ old.stopped /\ kid.at = "unborn"
  BY DEF IInv, Family, Fork, Runs
<1>2. CASE proc' = [proc EXCEPT ![<<p, "leader">>].at = "exited"]
  <2> DEFINE gone == [old EXCEPT !.at = "exited"]
  <2>1. proc' = [proc EXCEPT ![<<p, "leader">>] = gone]
    BY <1>2
  <2>2. /\ Process(gone) /\ gone.at = "exited"
        /\ gone.told <=> old.told
    BY <1>1 DEF Process, LiveStates, EndStates
  <2>3. ~ Live(<<p, "child">>) /\ old.at \in LiveStates
    BY <1>1 DEF LiveStates, Live
  <2> HIDE DEF gone
  <2> QED
    BY <1>1, <2>1, <2>2, <2>3, LeaderAlone
<1>3. CASE proc' = [proc EXCEPT ![<<p, "leader">>].at = "wait",
                                ![<<p, "child">>] = [@ EXCEPT !.prog = "mysplit", !.at = "sleep",
                                                              !.secs = old.secs]]
  <2> DEFINE waits == [old EXCEPT !.at = "wait"]
  <2>0. ~ old.interrupted
    BY <1>1 DEF Process, LiveStates
  <2>1. /\ Process(waits) /\ waits.at = "wait" /\ ~ waits.stopped /\ ~ waits.interrupted
        /\ waits.told <=> old.told
    <3>1. /\ waits.at = "wait"
          /\ waits.stopped <=> old.stopped
          /\ waits.interrupted <=> old.interrupted
          /\ waits.told <=> old.told
          /\ waits \in [prog : {waits.prog}, at : {"wait"}, secs : {waits.secs},
                         stopped : BOOLEAN, interrupted : BOOLEAN, told : BOOLEAN]
      BY <1>1 DEF Process
    <3> HIDE DEF waits, old
    <3>2. Process(waits)
      BY <1>1, <2>0, <3>1 DEF Process, LiveStates
    <3> QED
      BY <1>1, <2>0, <3>1, <3>2
  <2>2. Process(born) /\ ~ born.stopped /\ ~ born.interrupted
    <3>0. ~ kid.stopped /\ ~ kid.interrupted /\ ~ kid.told
      BY <1>1 DEF Process
    <3>1. /\ born.at = "sleep"
          /\ born.stopped <=> kid.stopped
          /\ born.interrupted <=> kid.interrupted
          /\ born \in [prog : {born.prog}, at : {"sleep"}, secs : {born.secs},
                        stopped : BOOLEAN, interrupted : BOOLEAN, told : BOOLEAN]
      BY <1>1 DEF Process
    <3> HIDE DEF born, kid
    <3> QED
      BY <3>0, <3>1 DEF Process, LiveStates
  <2>3. Becomes(p, waits, born)
    <3>1. /\ DOMAIN proc = Pids \X Roles /\ <<p, "leader">> # <<p, "child">>
          /\ <<p, "leader">> \in Pids \X Roles /\ <<p, "child">> \in Pids \X Roles
      BY DEF IInv, ProcessTable, Roles
    <3>2. /\ proc' = [q \in Pids \X Roles |-> proc'[q]]
          /\ proc'[<<p, "leader">>] = waits
          /\ proc'[<<p, "child">>] = born
          /\ \A q \in Pids \X Roles :
               q # <<p, "leader">> /\ q # <<p, "child">> => proc'[q] = proc[q]
      BY <1>3, <3>1
    <3> HIDE DEF waits, born
    <3>3. \A q \in Pids \X Roles : proc'[q] = IF q = <<p, "leader">> THEN waits
                                              ELSE IF q = <<p, "child">> THEN born
                                              ELSE proc[q]
      BY <3>1, <3>2
    <3> QED
      BY <3>2, <3>3 DEF Becomes
  <2> HIDE DEF waits, born
  <2>4. Family(waits, born)
    BY <2>1, <2>2 DEF Family
  <2>5. old.at \in LiveStates
    BY <1>1 DEF LiveStates
  <2> QED
    BY <1>1, <2>1, <2>3, <2>4, <2>5, LeaderRuns
<1> QED
  BY <1>2, <1>3 DEF Fork

\* What the child of mysplit does itself.
LEMMA ChildKeeps ==
  ASSUME IInv, UNCHANGED <<jobs, nextjid>>, NEW p \in Pids,
         Sleep(p, "child") \/ Awake(p, "child")
  PROVE  IInv'
<1> DEFINE old == proc[<<p, "leader">>]
           kid == proc[<<p, "child">>]
<1>1. Family(old, kid) /\ Process(kid) /\ Listed(jobs, p, old)
  BY DEF IInv, Family
<1>2. ASSUME NEW new, Process(new), proc' = [proc EXCEPT ![<<p, "child">>] = new],
             kid.at = "sleep", new.at \in {"sleep", "exited"},
             new.stopped <=> kid.stopped, new.interrupted <=> kid.interrupted
      PROVE  IInv'
  <2>1. Becomes(p, old, new)
    <3>1. proc' = [proc EXCEPT ![<<p, "child">>] = new]
      BY <1>2
    <3>2. /\ DOMAIN proc = Pids \X Roles /\ <<p, "leader">> # <<p, "child">>
          /\ <<p, "child">> \in Pids \X Roles
      BY DEF IInv, ProcessTable, Roles
    <3>3. /\ proc' = [q \in Pids \X Roles |-> proc'[q]]
          /\ \A q \in Pids \X Roles : proc'[q] = IF q = <<p, "child">> THEN new ELSE proc[q]
      BY <3>1, <3>2
    <3> QED
      BY <3>2, <3>3 DEF Becomes
  <2>2. Family(old, new)
    BY <1>1, <1>2 DEF Family, LiveStates
  <2>3. JobTableType' /\ Listed(jobs', p, old)
    BY <1>1 DEF IInv, JobTableType
  <2> QED
    BY <2>1, <2>2, <2>3, OneGroup
<1>3. CASE Sleep(p, "child")
  <2> DEFINE new == [kid EXCEPT !.secs = kid.secs - 1]
  <2>1. proc' = [proc EXCEPT ![<<p, "child">>] = new] /\ kid.at = "sleep"
    BY <1>3 DEF Sleep, Runs
  <2>2. /\ Process(new) /\ new.at = "sleep"
        /\ new.stopped <=> kid.stopped
        /\ new.interrupted <=> kid.interrupted
    BY <1>1, <2>1 DEF Process, LiveStates, EndStates
  <2> HIDE DEF new
  <2> QED
    BY <1>2, <2>1, <2>2
<1>4. CASE Awake(p, "child")
  <2> DEFINE new == [kid EXCEPT !.at = "exited"]
  <2>1. proc' = [proc EXCEPT ![<<p, "child">>] = new] /\ kid.at = "sleep"
    BY <1>4 DEF Awake, Runs
  <2>2. /\ Process(new) /\ new.at = "exited"
        /\ new.stopped <=> kid.stopped
        /\ new.interrupted <=> kid.interrupted
    BY <1>1, <2>1 DEF Process, LiveStates, EndStates
  <2> HIDE DEF new
  <2> QED
    BY <1>2, <2>1, <2>2
<1> QED
  BY <1>3, <1>4

-----------------------------------------------------------------------------
(* Invariance. *)

\* At the start nothing is listed and nothing runs.
LEMMA InitIInv == Init => IInv
<1> SUFFICES ASSUME Init PROVE IInv
  OBVIOUS
<1>1. JobTableType /\ \A i \in Slots : jobs[i] = clearjob
  BY InitjobsType DEF Init
<1>2. proc = [q \in Pids \X Roles |-> unborn]
  BY SessionAssumption DEF Init, ProgramsInit
<1>3. ProcessTable /\ \A q \in Pids \X Roles : proc[q] = unborn
  BY <1>2 DEF ProcessTable
<1>4. ASSUME NEW p \in Pids
      PROVE  Family(proc[<<p, "leader">>], proc[<<p, "child">>])
  <2>1. proc[<<p, "leader">>] = unborn /\ proc[<<p, "child">>] = unborn
    BY <1>3 DEF Roles
  <2>2. Process(unborn) /\ unborn.at = "unborn"
    BY DEF unborn, Process, LiveStates
  <2> QED
    BY <2>1, <2>2 DEF Family, LiveStates
<1>5. ASSUME NEW p \in Pids
      PROVE  Listed(jobs, p, proc[<<p, "leader">>])
  <2>1. proc[<<p, "leader">>].at = "unborn"
    BY <1>3 DEF Roles, unborn
  <2>2. \A i \in Slots : jobs[i].pid # p
    BY <1>1, PidsAssumption DEF clearjob
  <2> QED
    BY <2>1, <2>2 DEF Listed
<1> QED
  BY <1>1, <1>3, <1>4, <1>5 DEF IInv

\* A step of main that touches neither jobs nor processes.
LEMMA UntouchedKeeps ==
  ASSUME IInv, UNCHANGED <<jobs, nextjid, proc>>
  PROVE  IInv'
BY DEF IInv, JobTableType, ProcessTable, Listed

\* Every step keeps the list and the processes in agreement.
LEMMA StepIInv == IInv /\ Room /\ [Next]_vars => IInv'
<1> SUFFICES ASSUME IInv, Room, [Next]_vars PROVE IInv'
  OBVIOUS
<1>1. CASE Start \/ EndOfFile \/ Nothing \/ Quit \/ waitfg \/ Write \/ WriteFails
  BY <1>1, UntouchedKeeps
  DEF Start, EndOfFile, Nothing, Quit, waitfg, Write, WriteFails, shell
<1>2. CASE do_bgfg
  BY <1>2, BgfgKeeps
<1>3. ASSUME NEW p \in Pids, Run(p) \/ Chld(p)
      PROVE  IInv'
  BY <1>3, RunKeeps, ChldKeeps
<1>4. ASSUME NEW s \in {"INT", "TSTP"}, Key(s)
      PROVE  IInv'
  BY <1>4, KeyKeeps
<1>5. CASE ProgramStep
  <2>1. UNCHANGED <<jobs, nextjid>>
    BY <1>5 DEF ProgramStep, shell
  <2>2. PICK p \in Pids : Step(p)
    BY <1>5 DEF ProgramStep
  <2>3. CASE Fork(p)
    BY <2>1, <2>3, ForkKeeps
  <2>4. CASE Waited(p) \/ StopsItself(p) \/ InterruptsItself(p) \/ Exits(p)
    BY <2>1, <2>4, LeaderSteps
  <2>5. ASSUME NEW role \in Roles, Sleep(p, role) \/ Awake(p, role)
        PROVE  IInv'
    BY <2>1, <2>5, LeaderSteps, ChildKeeps DEF Roles
  <2> QED
    BY <2>2, <2>3, <2>4, <2>5 DEF Step
<1>6. CASE UNCHANGED vars
  BY <1>6, UntouchedKeeps DEF vars, shell
<1> QED
  BY <1>1, <1>2, <1>3, <1>4, <1>5, <1>6 DEF Next

\* The list and the processes agree.
LEMMA Invariance == Spec /\ []Room => []IInv
<1> QED
  BY InitIInv, StepIInv, PTL DEF Spec

\* What they agree on says that the group of a job is together.
LEMMA TogetherFollows == IInv => GroupActsTogether
<1> SUFFICES ASSUME IInv, NEW p \in Pids
             PROVE  /\ Tracked(p) /\ jobs[getjobpid(p)].state = "ST" =>
                         \A q \in Group(p) : Live(q) => proc[q].stopped
                    /\ Tracked(p) /\ jobs[getjobpid(p)].state # "ST" /\ ~ Reportable(p) =>
                         \A q \in Group(p) : Live(q) => ~ proc[q].stopped
                    /\ ~ Free(p) /\ ~ Tracked(p) => \A q \in Group(p) : ~ Live(q)
  BY DEF GroupActsTogether
<1> DEFINE leader == proc[<<p, "leader">>]
           kid == proc[<<p, "child">>]
<1>1. Family(leader, kid) /\ Listed(jobs, p, leader)
  BY DEF IInv
<1>2. \A q \in Group(p) : q = <<p, "leader">> \/ q = <<p, "child">>
  BY DEF Group, Roles
<1>3. /\ Live(<<p, "leader">>) <=> leader.at \in LiveStates
      /\ Live(<<p, "child">>) <=> kid.at \in LiveStates
      /\ Ended(p) <=> leader.at \in EndStates
      /\ Free(p) <=> leader.at = "unborn"
  BY DEF Live, LiveStates, Ended, EndStates, Free
<1>4. kid.at \in LiveStates => leader.at \in LiveStates /\ (kid.stopped <=> leader.stopped)
  BY <1>1 DEF Family, LiveStates
<1>5. Tracked(p) => \E i \in Slots : i = getjobpid(p) /\ jobs[i].pid = p
  BY LookupsFind DEF SlotsOf
<1>6. ASSUME Tracked(p), jobs[getjobpid(p)].state = "ST", NEW q \in Group(p), Live(q)
      PROVE  proc[q].stopped
  <2>1. leader.stopped
    BY <1>1, <1>5, <1>6 DEF Listed
  <2> QED
    BY <1>2, <1>3, <1>4, <1>6, <2>1
<1>7. ASSUME Tracked(p), jobs[getjobpid(p)].state # "ST", ~ Reportable(p),
             NEW q \in Group(p), Live(q)
      PROVE  ~ proc[q].stopped
  <2>1. ~ leader.told
    BY <1>1, <1>5, <1>7 DEF Listed
  <2>2. ~ leader.stopped
    BY <1>7, <2>1 DEF Reportable
  <2> QED
    BY <1>2, <1>3, <1>4, <1>7, <2>2
<1>8. ASSUME ~ Free(p), ~ Tracked(p), NEW q \in Group(p)
      PROVE  ~ Live(q)
  <2>1. leader.at \in EndStates
    BY <1>1, <1>3, <1>8 DEF Listed, Tracked, SlotsOf
  <2> QED
    BY <1>2, <1>3, <1>4, <2>1 DEF LiveStates, EndStates
<1> QED
  BY <1>6, <1>7, <1>8

\* A job's processes stop, go on and end together, whatever ^C, ^Z, fg and bg
\* pass on and whichever of them waitpid sees, if addjob (tsh.c:694) finds a
\* free slot for every program that eval starts.
THEOREM GroupsActTogether == Spec /\ []Room => []GroupActsTogether
<1> QED
  BY Invariance, TogetherFollows, PTL

\* The processes in the list are as many as the slots they take, those that
\* may still be started not among them.
LEMMA ListHasRoom ==
  ASSUME IsFiniteSet(Pids), Cardinality(Pids) <= MAXJOBS, IInv
  PROVE  Room
<1> SUFFICES ASSUME NEW p \in Pids, Free(p), ~ Tracked(0)
             PROVE  FALSE
  BY DEF Room
<1> DEFINE PidOf == [i \in Slots |-> jobs[i].pid]
           Others == Pids \ {p}
<1>1. PidOf \in Injection(Slots, Others)
  <2>1. ASSUME NEW i \in Slots
        PROVE  jobs[i].pid \in Others
    <3>1. jobs[i].pid \in Pids
      BY DEF IInv, JobTableType, Job, Tracked, SlotsOf
    <3>2. jobs[i].pid # p
      BY DEF IInv, Listed, Free
    <3> QED
      BY <3>1, <3>2
  <2>2. PidOf \in [Slots -> Others]
    BY <2>1
  <2>3. ASSUME NEW i \in Slots, NEW j \in Slots, PidOf[i] = PidOf[j]
        PROVE  i = j
    <3>1. jobs[i].pid \in Pids /\ jobs[j].pid = jobs[i].pid
      BY <2>1, <2>3
    <3>2. Listed(jobs, jobs[i].pid, proc[<<jobs[i].pid, "leader">>])
      BY <3>1 DEF IInv
    <3> QED
      BY <3>1, <3>2 DEF Listed
  <2> HIDE DEF PidOf, Others
  <2> QED
    BY <2>2, <2>3, Fun_IsInj
<1>2. IsFiniteSet(Others) /\ Cardinality(Others) = Cardinality(Pids) - 1
  BY FS_RemoveElement
<1>3. Cardinality(Slots) = MAXJOBS
  BY MAXJOBSAssumption, FS_Interval DEF Slots
<1>4. Cardinality(Slots) <= Cardinality(Others)
  <2> HIDE DEF PidOf, Others
  <2> QED
    BY <1>1, <1>2, FS_Injection DEF ExistsInjection
<1>5. Cardinality(Pids) \in Nat
  BY FS_CardinalityType
<1> QED
  BY <1>2, <1>3, <1>4, <1>5, MAXJOBSAssumption

\* So it is without that premise for a few processes.
LEMMA RoomForFew ==
  ASSUME IsFiniteSet(Pids), Cardinality(Pids) <= MAXJOBS
  PROVE  Spec => []IInv
<1>1. IInv => Room
  BY ListHasRoom
<1>2. IInv /\ [Next]_vars => IInv'
  BY <1>1, StepIInv
<1> QED
  BY <1>2, InitIInv, PTL DEF Spec

\* As many processes as slots cannot fill the list: their groups act together.
THEOREM FewGroupsActTogether ==
  ASSUME IsFiniteSet(Pids), Cardinality(Pids) <= MAXJOBS
  PROVE  Spec => []GroupActsTogether
<1> QED
  BY RoomForFew, TogetherFollows, PTL

-----------------------------------------------------------------------------
(* Induction, with a set in place of a predicate. *)

\* A set of numbers that holds n when it holds all below n holds every one.
LEMMA AllNumbers ==
  ASSUME NEW N \in Nat, NEW S,
         \A n \in 0 .. N : (\A m \in 0 .. N : m < n => m \in S) => n \in S
  PROVE  0 .. N \subseteq S
<1> DEFINE B == {n \in 0 .. N : n \notin S}
<1> SUFFICES ASSUME B # {} PROVE FALSE
  OBVIOUS
<1>1. B \subseteq Nat
  OBVIOUS
<1>2. PICK n \in B : \A m \in B : n <= m
  <2> HIDE DEF B
  <2> QED
    BY <1>1, LeastNatural
<1>3. ASSUME NEW m \in 0 .. N, m < n
      PROVE  m \in S
  <2>1. m \notin B
    <3>1. n \in Nat /\ m \in Nat
      OBVIOUS
    <3> HIDE DEF B
    <3> QED
      BY <1>2, <1>3, <3>1
  <2> QED
    BY <2>1
<1> QED
  BY <1>2, <1>3

Iterates(f, N, S, start, G) ==
  f \in [0 .. N -> S] /\ f[0] = start /\ \A n \in 1 .. N : f[n] = G[<<f[n - 1], n>>]

\* What a loop computes that starts with a value and takes each next one from
\* the one before.
LEMMA Iterated ==
  ASSUME NEW N \in Nat, NEW S, NEW start \in S, NEW G \in [S \X (1 .. N) -> S]
  PROVE  \E f : Iterates(f, N, S, start, G)
<1> DEFINE Upto(k, f) == f = [n \in 0 .. k |-> IF n = 0 THEN start ELSE G[<<f[n - 1], n>>]]
           K == {k \in 0 .. N : \E f \in [0 .. k -> S] : Upto(k, f)}
<1>1. ASSUME NEW k \in 0 .. N, \A m \in 0 .. N : m < k => m \in K
      PROVE  k \in K
  <2>1. CASE k = 0
    <3>1. [n \in 0 .. 0 |-> start] \in [0 .. 0 -> S] /\ Upto(0, [n \in 0 .. 0 |-> start])
      OBVIOUS
    <3> QED
      BY <2>1, <3>1
  <2>2. CASE k # 0
    <3>1. k - 1 \in 0 .. N /\ k - 1 < k
      BY <2>2
    <3>2. PICK f \in [0 .. k - 1 -> S] : Upto(k - 1, f)
      BY <1>1, <3>1
    <3> DEFINE g == [n \in 0 .. k |-> IF n = k THEN G[<<f[k - 1], k>>] ELSE f[n]]
    <3>3. g \in [0 .. k -> S]
      <4>1. ASSUME NEW n \in 0 .. k
            PROVE  (IF n = k THEN G[<<f[k - 1], k>>] ELSE f[n]) \in S
        <5>1. f[k - 1] \in S /\ k \in 1 .. N
          BY <2>2, <3>1
        <5>2. n # k => f[n] \in S
          OBVIOUS
        <5> QED
          BY <5>1, <5>2
      <4> QED
        BY <4>1
    <3>4. ASSUME NEW n \in 0 .. k
          PROVE  g[n] = IF n = 0 THEN start ELSE G[<<g[n - 1], n>>]
      <4>1. CASE n = k
        <5>1. g[n - 1] = f[k - 1]
          BY <2>2, <4>1
        <5> QED
          BY <2>2, <4>1, <5>1
      <4>2. CASE n # k
        <5>1. n \in 0 .. k - 1 /\ g[n] = f[n]
          BY <4>2
        <5>2. n # 0 => g[n - 1] = f[n - 1]
          BY <5>1
        <5>3. f[n] = IF n = 0 THEN start ELSE G[<<f[n - 1], n>>]
          BY <3>2, <5>1, Zenon
        <5> HIDE DEF g
        <5> QED
          BY <5>1, <5>2, <5>3
      <4> QED
        BY <4>1, <4>2
    <3>5. Upto(k, g)
      <4>1. g = [n \in 0 .. k |-> g[n]]
        OBVIOUS
      <4> HIDE DEF g
      <4> QED
        BY <3>4, <4>1
    <3> HIDE DEF g, Upto
    <3> QED
      BY <3>3, <3>5
  <2> QED
    BY <2>1, <2>2
<1> HIDE DEF K
<1>2. N \in K
  BY <1>1, AllNumbers
<1>3. PICK f \in [0 .. N -> S] : Upto(N, f)
  BY <1>2 DEF K
<1>4. ASSUME NEW n \in 0 .. N
      PROVE  f[n] = IF n = 0 THEN start ELSE G[<<f[n - 1], n>>]
  BY <1>3, Zenon
<1>5. f[0] = start
  <2>1. 0 \in 0 .. N
    OBVIOUS
  <2> QED
    BY <1>4, <2>1
<1>6. ASSUME NEW n \in 1 .. N
      PROVE  f[n] = G[<<f[n - 1], n>>]
  BY <1>4
<1> QED
  BY <1>5, <1>6 DEF Iterates

-----------------------------------------------------------------------------
(* parseline finds the words of a line. *)

\* The least of a set of numbers.
LEMMA LeastOf ==
  ASSUME NEW S, S \subseteq Nat, S # {}
  PROVE  Min(S) \in S /\ \A n \in S : Min(S) <= n
BY LeastNatural DEF Min

\* strchr returns the first place of the character, if there is one.
LEMMA strchrFinds ==
  ASSUME NEW C, NEW line \in Seq(C), NEW from \in Nat \ {0}, NEW c, NEW d,
         d = strchr(line, from, c)
  PROVE  \/ d = 0 /\ \A n \in from .. Len(line) : line[n] # c
         \/ /\ d \in from .. Len(line) /\ line[d] = c
            /\ \A n \in from .. d - 1 : line[n] # c
<1> DEFINE found == {n \in from .. Len(line) : line[n] = c}
<1>1. d = IF found = {} THEN 0 ELSE Min(found)
  BY DEF strchr
<1>2. CASE found = {}
  BY <1>1, <1>2
<1>3. CASE found # {}
  <2>1. found \subseteq Nat
    OBVIOUS
  <2>2. d \in found /\ \A n \in found : d <= n
    <3> HIDE DEF found
    <3> QED
      BY <1>1, <1>3, <2>1, LeastOf
  <2>3. d \in from .. Len(line) /\ line[d] = c
    BY <2>2
  <2>4. ASSUME NEW n \in from .. d - 1
        PROVE  line[n] # c
    <3>1. Len(line) \in Nat
      OBVIOUS
    <3>2. n \in from .. Len(line) /\ ~ (d <= n)
      BY <2>3, <3>1
    <3> HIDE DEF found
    <3>3. n \notin found
      BY <2>2, <3>2
    <3> QED
      BY <3>2, <3>3 DEF found
  <2> QED
    BY <2>3, <2>4
<1> QED
  BY <1>2, <1>3

\* The loop over the spaces (tsh.c:366).
LEMMA SpacesSkipped ==
  ASSUME NEW C, NEW line \in Seq(C), NEW from \in 1 .. Len(line) + 1, NEW s,
         s = SkipSpaces(line, from)
  PROVE  /\ s \in from .. Len(line) + 1
         /\ s <= Len(line) => line[s] # Space
         /\ \A n \in from .. s - 1 : line[n] = Space
<1> DEFINE ends == {n \in from .. Len(line) : line[n] # Space} \cup {Len(line) + 1}
<1>1. Len(line) \in Nat
  OBVIOUS
<1>2. ends \subseteq Nat /\ ends \subseteq from .. Len(line) + 1 /\ ends # {}
  BY <1>1
<1>3. s \in ends /\ \A n \in ends : s <= n
  <2>1. s = Min(ends)
    BY DEF SkipSpaces
  <2> HIDE DEF ends
  <2> QED
    BY <1>2, <2>1, LeastOf
<1>4. s \in from .. Len(line) + 1 /\ (s <= Len(line) => line[s] # Space)
  BY <1>1, <1>2, <1>3
<1>5. ASSUME NEW n \in from .. s - 1
      PROVE  line[n] = Space
  <2>1. n \in from .. Len(line) /\ ~ (s <= n)
    BY <1>1, <1>4
  <2>2. n \notin ends
    <3> HIDE DEF ends
    <3> QED
      BY <1>3, <2>1
  <2> QED
    BY <2>1, <2>2
<1> QED
  BY <1>4, <1>5

Scans(C) == [at : {"space", "word", "quotes"}, word : Seq(C), words : Seq(Seq(C))]

\* What a character does to the scan
LEMMA ScanSteps ==
  ASSUME NEW C, NEW m \in Scans(C), NEW c \in C
  PROVE  /\ Scan(m, c) \in Scans(C)
         /\ m.at = "space" /\ c = Space => Scan(m, c) = m
         /\ m.at = "space" /\ c = Quote =>
              Scan(m, c) = [at |-> "quotes", word |-> m.word, words |-> m.words]
         /\ m.at = "space" /\ c \notin {Space, Quote} =>
              Scan(m, c) = [at |-> "word", word |-> Append(m.word, c), words |-> m.words]
         /\ \A mode \in {"word", "quotes"} :
              m.at = mode =>
                Scan(m, c) = IF c = (IF mode = "word" THEN Space ELSE Quote)
                             THEN [at |-> "space", word |-> <<>>, words |-> Append(m.words, m.word)]
                             ELSE [at |-> mode, word |-> Append(m.word, c), words |-> m.words]
<1>1. /\ m = [at |-> m.at, word |-> m.word, words |-> m.words]
      /\ m.at \in {"space", "word", "quotes"} /\ m.word \in Seq(C) /\ m.words \in Seq(Seq(C))
  BY DEF Scans
<1>2. Space # Quote
  BY DEF Space, Quote
<1>3. CASE m.at = "space" /\ c = Space
  BY <1>3 DEF Scan, Space, Quote
<1>4. CASE m.at = "space" /\ c = Quote
  <2>1. Scan(m, c) = [m EXCEPT !.at = "quotes"]
    BY <1>2, <1>4 DEF Scan
  <2>2. [m EXCEPT !.at = "quotes"] = [at |-> "quotes", word |-> m.word, words |-> m.words]
    <3>1. m = [at |-> m.at, word |-> m.word, words |-> m.words]
      BY <1>1
    <3> QED
      BY <3>1
  <2> QED
    BY <1>1, <1>2, <1>4, <2>1, <2>2 DEF Scans
<1>5. CASE m.at = "space" /\ c \notin {Space, Quote}
  <2>1. Scan(m, c) = [at |-> "word", word |-> Append(m.word, c), words |-> m.words]
    <3>1. ~ (<<m.at, c>> \in {<<"word", Space>>, <<"quotes", Quote>>})
      BY <1>5
    <3>2. ~ (m.at = "space" /\ c = Space) /\ ~ (m.at = "space" /\ c = Quote)
      BY <1>5
    <3>3. Scan(m, c) = [at |-> IF m.at = "space" THEN "word" ELSE m.at,
                           word |-> Append(m.word, c), words |-> m.words]
      BY <3>1, <3>2, Zenon DEF Scan
    <3> QED
      BY <1>5, <3>3
  <2>3. Append(m.word, c) \in Seq(C)
    BY <1>1
  <2> QED
    BY <1>1, <1>2, <1>5, <2>1, <2>3 DEF Scans
<1>6. CASE m.at = "word" \/ m.at = "quotes"
  <2> DEFINE end == IF m.at = "word" THEN Space ELSE Quote
  <2>1. CASE c = end
    <3>1. Scan(m, c) = [at |-> "space", word |-> <<>>, words |-> Append(m.words, m.word)]
      <4>1. <<m.at, c>> \in {<<"word", Space>>, <<"quotes", Quote>>}
        BY <1>6, <2>1
      <4>2. ~ (m.at = "space" /\ c = Space) /\ ~ (m.at = "space" /\ c = Quote)
        BY <1>6
      <4> QED
        BY <4>1, <4>2, Zenon DEF Scan
    <3>2. Append(m.words, m.word) \in Seq(Seq(C)) /\ <<>> \in Seq(C)
      BY <1>1
    <3>3. Scan(m, c) \in Scans(C)
      BY <3>1, <3>2 DEF Scans
    <3> QED
      BY <1>6, <2>1, <3>1, <3>3
  <2>2. CASE c # end
    <3>1. Scan(m, c) = [at |-> m.at, word |-> Append(m.word, c), words |-> m.words]
      <4>1. ~ (<<m.at, c>> \in {<<"word", Space>>, <<"quotes", Quote>>})
        BY <1>6, <2>2
      <4>2. ~ (m.at = "space" /\ c = Space) /\ ~ (m.at = "space" /\ c = Quote)
        BY <1>6
      <4>3. Scan(m, c) = [at |-> IF m.at = "space" THEN "word" ELSE m.at,
                           word |-> Append(m.word, c), words |-> m.words]
        BY <4>1, <4>2, Zenon DEF Scan
      <4> QED
        BY <1>6, <4>3
    <3>3. Append(m.word, c) \in Seq(C)
      BY <1>1
    <3>4. Scan(m, c) \in Scans(C)
      BY <1>1, <1>6, <3>1, <3>3 DEF Scans
    <3> QED
      BY <1>2, <1>6, <2>2, <3>1, <3>4
  <2> QED
    BY <2>1, <2>2
<1> QED
  BY <1>1, <1>3, <1>4, <1>5, <1>6

\* The scans of the beginnings of a line
Scanned(m, C, line) ==
  /\ m \in [0 .. Len(line) -> Scans(C)]
  /\ m[0] = ScanStart
  /\ \A n \in 1 .. Len(line) : m[n] = Scan(m[n - 1], line[n])

\* Words is where a scan of the whole line ends.
LEMMA WordsScanned ==
  ASSUME NEW C, NEW cmdline, NEW line \in Seq(C), line = Append(Front(cmdline), Space)
  PROVE  \E m : Scanned(m, C, line) /\ Words(cmdline) = m[Len(line)].words
<1> DEFINE N == Len(line)
           IsScan(m) == m = [n \in 0 .. N |-> IF n = 0 THEN ScanStart ELSE Scan(m[n - 1], line[n])]
           G == [x \in Scans(C) \X (1 .. N) |-> Scan(x[1], line[x[2]])]
<1>1. N \in Nat /\ \A n \in 1 .. N : line[n] \in C
  OBVIOUS
<1>2. ScanStart \in Scans(C)
  BY DEF ScanStart, Scans
<1>3. G \in [Scans(C) \X (1 .. N) -> Scans(C)]
  BY <1>1, ScanSteps
<1>4. PICK f : Iterates(f, N, Scans(C), ScanStart, G)
  <2> HIDE DEF G, N
  <2> QED
    BY <1>1, <1>2, <1>3, Iterated
<1>5. IsScan(f)
  <2>1. ASSUME NEW n \in 0 .. N
        PROVE  f[n] = IF n = 0 THEN ScanStart ELSE Scan(f[n - 1], line[n])
    <3>1. n # 0 => f[n - 1] \in Scans(C) /\ n \in 1 .. N
      BY <1>1, <1>4 DEF Iterates
    <3>2. n # 0 => G[<<f[n - 1], n>>] = Scan(f[n - 1], line[n])
      BY <3>1
    <3> HIDE DEF G
    <3> QED
      BY <1>4, <3>1, <3>2 DEF Iterates
  <2>2. f = [n \in 0 .. N |-> f[n]]
    BY <1>4 DEF Iterates
  <2> HIDE DEF N
  <2> QED
    BY <2>1, <2>2
<1> DEFINE w == CHOOSE m : IsScan(m)
<1>6. IsScan(w)
  BY <1>5
<1>7. Words(cmdline) = w[N].words
  BY DEF Words
<1> HIDE DEF w, G
<1>8. w[0] = ScanStart /\ \A n \in 1 .. N : w[n] = Scan(w[n - 1], line[n])
  <2>1. \A n \in 0 .. N : w[n] = IF n = 0 THEN ScanStart ELSE Scan(w[n - 1], line[n])
    BY <1>6
  <2> HIDE DEF IsScan
  <2> QED
    BY <1>1, <2>1
<1>9. w \in [0 .. N -> Scans(C)]
  <2> DEFINE K == {n \in 0 .. N : w[n] \in Scans(C)}
  <2>1. ASSUME NEW n \in 0 .. N, \A m \in 0 .. N : m < n => m \in K
        PROVE  n \in K
    <3>1. CASE n = 0
      BY <1>2, <1>8, <3>1
    <3>2. CASE n # 0
      <4>1. n - 1 \in 0 .. N /\ n - 1 < n /\ n \in 1 .. N
        BY <1>1, <3>2
      <4>2. w[n - 1] \in Scans(C)
        BY <2>1, <4>1
      <4>3. w[n] = Scan(w[n - 1], line[n]) /\ line[n] \in C
        BY <1>1, <1>8, <4>1
      <4>4. w[n] \in Scans(C)
        <5>1. Scan(w[n - 1], line[n]) \in Scans(C)
          BY <4>2, <4>3, ScanSteps
        <5> QED
          BY <4>3, <5>1
      <4> QED
        BY <4>4
    <3> QED
      BY <3>1, <3>2
  <2>2. 0 .. N \subseteq K
    <3> HIDE DEF K, N
    <3> QED
      BY <1>1, <2>1, AllNumbers
  <2>3. w = [n \in 0 .. N |-> w[n]]
    BY <1>6
  <2> HIDE DEF IsScan
  <2> QED
    BY <2>2, <2>3
<1> QED
  BY <1>7, <1>8, <1>9 DEF Scanned

\* What the loop of parseline finds from a place on: f holds what it finds
\* from the later ones.
StartOf(line, n) == SkipSpaces(line, n)
QuotedAt(line, n) == StartOf(line, n) <= Len(line) /\ line[StartOf(line, n)] = Quote
BufOf(line, n) == IF QuotedAt(line, n) THEN StartOf(line, n) + 1 ELSE StartOf(line, n)
DelimOf(line, n) == strchr(line, BufOf(line, n), IF QuotedAt(line, n) THEN Quote ELSE Space)
Found(line, n, f) ==
  IF DelimOf(line, n) = 0 THEN <<>>
  ELSE <<SubSeq(line, BufOf(line, n), DelimOf(line, n) - 1)>> \o f[DelimOf(line, n) + 1]

FindsFrom(f, line, k) ==
  f = [n \in k .. Len(line) + 1 |-> Found(line, n, f)]

\* Where an argument is: the spaces before it end at s, it begins at b and
\* ends at d
Placed(line, n, s, b, d, end) ==
  /\ s \in n .. Len(line) + 1 /\ b \in s .. s + 1
  /\ b = s + 1 <=> QuotedAt(line, n)
  /\ s <= Len(line) => line[s] # Space
  /\ \A i \in n .. s - 1 : line[i] = Space
  /\ \/ d = 0 /\ \A i \in b .. Len(line) : line[i] # end
     \/ /\ d \in b .. Len(line) /\ line[d] = end
        /\ \A i \in b .. d - 1 : line[i] # end

\* What an argument is that begins at a place of the line.
LEMMA ArgumentPlace ==
  ASSUME NEW C, NEW line \in Seq(C), NEW n \in 1 .. Len(line) + 1,
         NEW s, s = StartOf(line, n), NEW b, b = BufOf(line, n), NEW d, d = DelimOf(line, n),
         NEW end, end = IF QuotedAt(line, n) THEN Quote ELSE Space
  PROVE  Placed(line, n, s, b, d, end)
<1>1. /\ s \in n .. Len(line) + 1
      /\ s <= Len(line) => line[s] # Space
      /\ \A i \in n .. s - 1 : line[i] = Space
  BY SpacesSkipped DEF StartOf
<1>2. Len(line) \in Nat
  OBVIOUS
<1>3. b \in s .. s + 1 /\ b \in Nat \ {0} /\ (b = s + 1 <=> QuotedAt(line, n))
  BY <1>1, <1>2 DEF BufOf
<1>4. d = strchr(line, b, end)
  BY DEF DelimOf
<1>5. \/ d = 0 /\ \A i \in b .. Len(line) : line[i] # end
      \/ /\ d \in b .. Len(line) /\ line[d] = end
         /\ \A i \in b .. d - 1 : line[i] # end
  BY <1>3, <1>4, strchrFinds
<1> QED
  BY <1>1, <1>3, <1>5 DEF Placed

\* Arguments are those that the loop of parseline finds from the start.
LEMMA ArgumentsFound ==
  ASSUME NEW C, NEW line \in Seq(C)
  PROVE  \E f : FindsFrom(f, line, 1) /\ Arguments(line) = f[1]
<1> DEFINE N == Len(line)
           K == {k \in 0 .. N : \E f : FindsFrom(f, line, N + 1 - k)}
<1>1. N \in Nat
  OBVIOUS
<1>2. ASSUME NEW k \in 0 .. N, \A m \in 0 .. N : m < k => m \in K
      PROVE  k \in K
  <2> DEFINE p == N + 1 - k
  <2>1. p \in 1 .. N + 1
    BY <1>1
  <2>2. \E f : FindsFrom(f, line, p + 1)
    <3>1. CASE k = 0
      <4>1. p + 1 .. Len(line) + 1 = {}
        BY <1>1, <3>1
      <4>2. FindsFrom([n \in {} |-> Found(line, n, <<>>)], line, p + 1)
        BY <4>1 DEF FindsFrom
      <4> QED
        BY <4>2
    <3>2. CASE k # 0
      <4>1. k - 1 \in 0 .. N /\ k - 1 < k /\ N + 1 - (k - 1) = p + 1
        BY <1>1, <3>2
      <4>2. k - 1 \in K
        BY <1>2, <4>1
      <4> QED
        BY <4>1, <4>2
    <3> QED
      BY <3>1, <3>2
  <2> HIDE DEF p
  <2>3. PICK f : FindsFrom(f, line, p + 1)
    BY <2>2
  <2> DEFINE g == [n \in p .. N + 1 |-> IF n = p THEN Found(line, p, f) ELSE f[n]]
  <2>4. ASSUME NEW n \in p .. N + 1
        PROVE  g[n] = Found(line, n, g)
    <3>1. n \in 1 .. N + 1
      BY <1>1, <2>1
    <3> DEFINE d == DelimOf(line, n)
    <3>2. d # 0 => g[d + 1] = f[d + 1]
      <4>1. d = 0 \/ d \in n .. N
        <5>2. PICK s, b, end :
                /\ s = StartOf(line, n) /\ b = BufOf(line, n)
                /\ end = IF QuotedAt(line, n) THEN Quote ELSE Space
          OBVIOUS
        <5> HIDE DEF d
        <5>3. d = DelimOf(line, n)
          BY DEF d
        <5>1. s \in n .. N + 1 /\ b \in s .. s + 1 /\ (d = 0 \/ d \in b .. N)
          BY <3>1, <5>2, <5>3, ArgumentPlace DEF Placed
        <5> HIDE DEF N
        <5> QED
          BY <1>1, <3>1, <5>1
      <4> HIDE DEF d, N
      <4>2. d # 0 => d + 1 \in p .. N + 1 /\ d + 1 # p
        BY <1>1, <2>1, <4>1
      <4> QED
        BY <4>2
    <3>3. Found(line, n, g) = Found(line, n, f)
      BY <3>2 DEF Found
    <3>4. g[n] = Found(line, n, f)
      <4>1. CASE n = p
        BY <4>1
      <4>2. CASE n # p
        <5>1. n \in p + 1 .. Len(line) + 1
          BY <1>1, <2>1, <4>2
        <5>2. f[n] = Found(line, n, f)
          BY <2>3, <5>1, Zenon DEF FindsFrom
        <5> QED
          BY <4>2, <5>2
      <4> QED
        BY <4>1, <4>2
    <3> QED
      BY <3>3, <3>4
  <2>5. FindsFrom(g, line, p)
    <3>1. g = [n \in p .. N + 1 |-> g[n]]
      OBVIOUS
    <3> HIDE DEF g
    <3> QED
      BY <2>4, <3>1 DEF FindsFrom
  <2> HIDE DEF g
  <2> QED
    BY <2>5 DEF p
<1>3. N \in K
  <2>1. \A k \in 0 .. N : (\A m \in 0 .. N : m < k => m \in K) => k \in K
    BY <1>2
  <2> HIDE DEF K
  <2>2. 0 .. N \subseteq K
    <3> HIDE DEF N
    <3> QED
      BY <1>1, <2>1, AllNumbers
  <2> QED
    BY <1>1, <2>2
<1>4. \E f : FindsFrom(f, line, 1)
  <2>1. N + 1 - N = 1
    BY <1>1
  <2> QED
    BY <1>3, <2>1
<1> DEFINE A == CHOOSE f : FindsFrom(f, line, 1)
<1>5. FindsFrom(A, line, 1)
  BY <1>4
<1>6. Arguments(line) = A[1]
  BY DEF Arguments, FindsFrom, Found, DelimOf, BufOf, QuotedAt, StartOf, Behind
<1> QED
  BY <1>5, <1>6

\* One character of a scan.
LEMMA ScannedAt ==
  ASSUME NEW C, NEW line \in Seq(C), NEW m, Scanned(m, C, line), NEW j \in 1 .. Len(line)
  PROVE  /\ m[j] = Scan(m[j - 1], line[j])
         /\ m[j - 1] \in Scans(C) /\ m[j] \in Scans(C) /\ line[j] \in C
<1>1. j - 1 \in 0 .. Len(line) /\ j \in 0 .. Len(line) /\ line[j] \in C
  OBVIOUS
<1> QED
  BY <1>1 DEF Scanned

\* The scan passes over spaces
LEMMA ScanSpaces ==
  ASSUME NEW C, NEW line \in Seq(C), NEW m, Scanned(m, C, line),
         NEW n \in 1 .. Len(line) + 1, NEW s \in n .. Len(line) + 1,
         \A i \in n .. s - 1 : line[i] = Space, m[n - 1].at = "space"
  PROVE  m[s - 1] = m[n - 1]
<1> DEFINE K == {k \in 0 .. s - n : m[n - 1 + k] = m[n - 1]}
<1>1. Len(line) \in Nat /\ s - n \in Nat
  OBVIOUS
<1>2. ASSUME NEW k \in 0 .. s - n, \A i \in 0 .. s - n : i < k => i \in K
      PROVE  k \in K
  <2>1. CASE k = 0
    BY <2>1
  <2>2. CASE k # 0
    <3>1. k - 1 \in 0 .. s - n /\ k - 1 < k /\ n - 1 + (k - 1) = n - 1 + k - 1
      BY <1>1, <2>2
    <3>2. m[n - 1 + k - 1] = m[n - 1]
      BY <1>2, <3>1
    <3>3. n - 1 + k \in 1 .. Len(line) /\ n - 1 + k \in n .. s - 1 /\ n - 1 \in 0 .. Len(line)
      BY <1>1, <2>2
    <3>4. m[n - 1 + k] = Scan(m[n - 1], Space) /\ line[n - 1 + k] = Space
      <4> DEFINE j == n - 1 + k
      <4>1. j \in 1 .. Len(line) /\ line[j] = Space
        BY <3>3
      <4>2. m[j - 1] = m[n - 1]
        BY <3>2
      <4> HIDE DEF j
      <4>3. m[j] = Scan(m[j - 1], line[j])
        BY <4>1, ScannedAt
      <4>4. m[j] = Scan(m[n - 1], Space) /\ line[j] = Space
        BY <4>1, <4>2, <4>3
      <4> QED
        BY <4>4 DEF j
    <3>5. Scan(m[n - 1], Space) = m[n - 1]
      <4>1. m[n - 1] \in Scans(C) /\ line[n - 1 + k] \in C
        BY <3>3 DEF Scanned
      <4> QED
        BY <3>4, <4>1, ScanSteps
    <3> QED
      BY <3>4, <3>5
  <2> QED
    BY <2>1, <2>2
<1>3. s - n \in K
  <2> HIDE DEF K
  <2>1. 0 .. s - n \subseteq K
    BY <1>1, <1>2, AllNumbers
  <2> QED
    BY <1>1, <2>1
<1>4. n - 1 + (s - n) = s - 1
  BY <1>1
<1> QED
  BY <1>3, <1>4

\* Inside a word that begins at b the scan has collected it
Inside(m, line, mode, b, j, words) ==
  m[j] = [at |-> mode, word |-> SubSeq(line, b, j), words |-> words]

\* Inside is a fact about one place of the scan.
LEMMA InsideIs ==
  ASSUME NEW m, NEW line, NEW mode, NEW b, NEW j, NEW words, Inside(m, line, mode, b, j, words)
  PROVE  m[j].at = mode /\ m[j].word = SubSeq(line, b, j) /\ m[j].words = words
<1> DEFINE w == SubSeq(line, b, j)
<1>1. m[j] = [at |-> mode, word |-> w, words |-> words]
  BY DEF Inside
<1> HIDE DEF w
<1>2. m[j].at = mode /\ m[j].word = w /\ m[j].words = words
  BY <1>1
<1> QED
  BY <1>2 DEF w

\* The scan of a character within a word.
LEMMA ScanInside ==
  ASSUME NEW C, NEW m \in Scans(C), NEW c \in C, NEW mode \in {"word", "quotes"}, m.at = mode,
         NEW end, end = (IF mode = "word" THEN Space ELSE Quote)
  PROVE  /\ c = end =>
              Scan(m, c) = [at |-> "space", word |-> <<>>, words |-> Append(m.words, m.word)]
         /\ c # end =>
              Scan(m, c) = [at |-> mode, word |-> Append(m.word, c), words |-> m.words]
<1>1. Scan(m, c) = IF c = end
                   THEN [at |-> "space", word |-> <<>>, words |-> Append(m.words, m.word)]
                   ELSE [at |-> mode, word |-> Append(m.word, c), words |-> m.words]
  BY ScanSteps
<1> QED
  BY <1>1

\* The character behind a word ends it.
LEMMA ScanEnds ==
  ASSUME NEW C, NEW m \in Scans(C), NEW c \in C, NEW mode \in {"word", "quotes"}, m.at = mode,
         c = IF mode = "word" THEN Space ELSE Quote
  PROVE  Scan(m, c) = [at |-> "space", word |-> <<>>, words |-> Append(m.words, m.word)]
<1>1. PICK end : end = (IF mode = "word" THEN Space ELSE Quote)
  OBVIOUS
<1> QED
  BY <1>1, ScanInside

\* A word begins, with a quote or with a character of its own,
LEMMA ScanBegins ==
  ASSUME NEW C, NEW m \in Scans(C), NEW c \in C, m.at = "space", c # Space
  PROVE  /\ c = Quote => Scan(m, c) = [at |-> "quotes", word |-> m.word, words |-> m.words]
         /\ c # Quote => Scan(m, c) = [at |-> "word", word |-> Append(m.word, c), words |-> m.words]
<1>1. CASE c = Quote
  BY <1>1, ScanSteps
<1>2. CASE c # Quote
  <2>1. c \notin {Space, Quote}
    BY <1>2
  <2> QED
    BY <1>2, <2>1, ScanSteps
<1> QED
  BY <1>1, <1>2

\* A word moves from what is collected to what is to be collected.
LEMMA Regroup ==
  ASSUME NEW S, NEW s \in Seq(S), NEW x \in S, NEW t \in Seq(S)
  PROVE  Append(s, x) \o t = s \o (<<x>> \o t) /\ <<x>> \o t \in Seq(S)
<1>1. <<x>> \in Seq(S) /\ Append(s, x) = s \o <<x>>
  BY AppendIsConcat
<1> DEFINE u == <<x>>
<1>2. u \in Seq(S)
  BY <1>1
<1> HIDE DEF u
<1>3. (s \o u) \o t = s \o (u \o t) /\ u \o t \in Seq(S)
  <2>1. (s \o u) \o t = s \o (u \o t)
    BY <1>2, ConcatAssociative
  <2>2. u \o t \in Seq(S)
    BY <1>2, ConcatProperties
  <2> QED
    BY <2>1, <2>2
<1> QED
  BY <1>1, <1>3 DEF u

\* and it collects it up to its end.
LEMMA ScanWord ==
  ASSUME NEW C, NEW line \in Seq(C), NEW m, Scanned(m, C, line),
         NEW mode \in {"word", "quotes"}, NEW end, end = (IF mode = "word" THEN Space ELSE Quote),
         NEW b \in 1 .. Len(line) + 1, NEW first \in b - 1 .. Len(line), NEW last \in first .. Len(line),
         NEW words,
         Inside(m, line, mode, b, first, words),
         \A i \in first + 1 .. last : line[i] # end
  PROVE  Inside(m, line, mode, b, last, words)
<1> DEFINE K == {k \in 0 .. last - first : Inside(m, line, mode, b, first + k, words)}
<1>1. Len(line) \in Nat /\ last - first \in Nat /\ first \in Nat
  OBVIOUS
<1>2. ASSUME NEW k \in 0 .. last - first, \A i \in 0 .. last - first : i < k => i \in K
      PROVE  k \in K
  <2>1. CASE k = 0
    <3>1. first + 0 = first
      BY <1>1
    <3> QED
      BY <2>1, <3>1
  <2>2. CASE k # 0
    <3> DEFINE j == first + k
    <3>1. k - 1 \in 0 .. last - first /\ k - 1 < k /\ first + (k - 1) = j - 1
      BY <1>1, <2>2
    <3>2. Inside(m, line, mode, b, j - 1, words)
      BY <1>2, <3>1
    <3>3. j \in 1 .. Len(line) /\ j \in first + 1 .. last /\ j - 1 \in 0 .. Len(line) /\ j \in b .. Len(line)
      BY <1>1, <2>2
    <3> HIDE DEF j
    <3>4. m[j] = Scan(m[j - 1], line[j]) /\ m[j - 1] \in Scans(C) /\ line[j] \in C
      BY <3>3, ScannedAt
    <3>5. line[j] # end /\ m[j - 1].at = mode
      BY <3>2, <3>3, InsideIs
    <3>6. m[j] = [at |-> mode, word |-> Append(m[j - 1].word, line[j]), words |-> m[j - 1].words]
      <4> DEFINE before == m[j - 1]
                 c == line[j]
      <4> HIDE DEF before, c
      <4>1. before \in Scans(C) /\ c \in C /\ before.at = mode /\ c # end
        BY <3>4, <3>5 DEF before, c
      <4>3. Scan(before, c) = [at |-> mode, word |-> Append(before.word, c), words |-> before.words]
        BY <4>1, ScanInside
      <4> QED
        BY <3>4, <4>3 DEF before, c
    <3>7. m[j - 1].word = SubSeq(line, b, j - 1) /\ m[j - 1].words = words
      <4> DEFINE w == SubSeq(line, b, j - 1)
      <4>1. m[j - 1] = [at |-> mode, word |-> w, words |-> words]
        BY <3>2 DEF Inside
      <4> HIDE DEF w
      <4>2. m[j - 1].word = w /\ m[j - 1].words = words
        BY <4>1
      <4> QED
        BY <4>2 DEF w
    <3>8. Append(SubSeq(line, b, j - 1), line[j]) = SubSeq(line, b, j)
      <4>1. SubSeq(line, b, j) = SubSeq(line, b, j - 1) \o <<line[j]>>
        BY <3>3, SubSeqRecursiveSecond
      <4>2. SubSeq(line, b, j - 1) \in Seq(C)
        BY <3>3, <3>4, <3>7 DEF Scans
      <4> QED
        BY <3>4, <4>1, <4>2, AppendIsConcat
    <3>9. Inside(m, line, mode, b, j, words)
      BY <3>6, <3>7, <3>8 DEF Inside
    <3> QED
      BY <3>9 DEF j
  <2> QED
    BY <2>1, <2>2
<1>3. last - first \in K
  <2> HIDE DEF K
  <2>1. 0 .. last - first \subseteq K
    BY <1>1, <1>2, AllNumbers
  <2> QED
    BY <1>1, <2>1
<1>4. first + (last - first) = last
  BY <1>1
<1> QED
  BY <1>3, <1>4

SameFrom(C, line, m, f, n) ==
  m[n - 1].at = "space" /\ m[n - 1].word = <<>> =>
    f[n] \in Seq(Seq(C)) /\ m[Len(line)].words = m[n - 1].words \o f[n]

\* From a place between two words on, the loop finds what the scan does.
LEMMA SameWordsFrom ==
  ASSUME NEW C, Space \in C, NEW line \in Seq(C), NEW m, Scanned(m, C, line), NEW f, FindsFrom(f, line, 1),
         NEW n \in 1 .. Len(line) + 1,
         \A k \in n + 1 .. Len(line) + 1 : SameFrom(C, line, m, f, k)
  PROVE  SameFrom(C, line, m, f, n)
<1> SUFFICES ASSUME m[n - 1].at = "space", m[n - 1].word = <<>>
             PROVE  f[n] \in Seq(Seq(C)) /\ m[Len(line)].words = m[n - 1].words \o f[n]
  BY DEF SameFrom
<1> DEFINE N == Len(line)
           W == m[n - 1].words
<1>1. N \in Nat
  OBVIOUS
<1>2. PICK s, b, d, end : /\ s = StartOf(line, n) /\ b = BufOf(line, n) /\ d = DelimOf(line, n)
                          /\ end = IF QuotedAt(line, n) THEN Quote ELSE Space
  OBVIOUS
<1>3. /\ s \in n .. N + 1 /\ b \in s .. s + 1
      /\ b = s + 1 <=> QuotedAt(line, n)
      /\ s <= N => line[s] # Space
      /\ \A i \in n .. s - 1 : line[i] = Space
      /\ \/ d = 0 /\ \A i \in b .. N : line[i] # end
         \/ /\ d \in b .. N /\ line[d] = end
            /\ \A i \in b .. d - 1 : line[i] # end
  <2>1. Placed(line, n, s, b, d, end)
    BY <1>2, ArgumentPlace
  <2> HIDE DEF W
  <2> QED
    BY <2>1 DEF Placed
<1>4. f[n] = IF d = 0 THEN <<>> ELSE <<SubSeq(line, b, d - 1)>> \o f[d + 1]
  <2>1. f[n] = Found(line, n, f)
    BY Zenon DEF FindsFrom
  <2> QED
    BY <1>2, <2>1 DEF Found
<1>5. W \in Seq(Seq(C)) /\ <<>> \in Seq(Seq(C)) /\ W \o <<>> = W
  <2>1. m[n - 1] \in Scans(C)
    BY <1>1 DEF Scanned
  <2>2. W \in Seq(Seq(C))
    BY <2>1 DEF Scans
  <2> QED
    BY <2>2, EmptySeq, ConcatEmptySeq
<1>6. m[s - 1] = m[n - 1]
  BY <1>3, ScanSpaces
<1>9. b \in s .. s + 1 /\ (b = s + 1 <=> QuotedAt(line, n))
  BY <1>3
<1> HIDE DEF N
<1>7. CASE s = N + 1
  <2>1. d = 0
    BY <1>1, <1>3, <1>7
  <2>2. m[N] = m[n - 1]
    BY <1>1, <1>6, <1>7
  <2> QED
    BY <1>4, <1>5, <2>1, <2>2 DEF N
<1>8. CASE s # N + 1
  <2> DEFINE mode == IF QuotedAt(line, n) THEN "quotes" ELSE "word"
  <2>1. /\ s \in 1 .. N /\ b \in 1 .. N + 1 /\ mode \in {"word", "quotes"} /\ s \in b - 1 .. N
        /\ end = IF mode = "word" THEN Space ELSE Quote
    BY <1>1, <1>2, <1>3, <1>8
  <2>2. /\ m[s] = Scan(m[s - 1], line[s]) /\ m[s - 1] \in Scans(C) /\ line[s] \in C
        /\ m[s - 1].at = "space" /\ m[s - 1].word = <<>> /\ m[s - 1].words = W
    BY <1>1, <1>6, <2>1 DEF Scanned, N
  <2>3. line[s] # Space /\ (line[s] = Quote <=> QuotedAt(line, n))
    BY <1>2, <1>3, <2>1 DEF QuotedAt, N
  <2>4. Inside(m, line, mode, b, s, W)
    <3> DEFINE before == m[s - 1]
               c == line[s]
    <3> HIDE DEF before, c, W
    <3>1. before \in Scans(C) /\ c \in C /\ before.at = "space" /\ c # Space
      BY <2>2, <2>3 DEF before, c
    <3>2. CASE QuotedAt(line, n)
      <4>1. c = Quote
        BY <2>3, <3>2 DEF c
      <4>2. Scan(before, c) = [at |-> "quotes", word |-> before.word, words |-> before.words]
        BY <3>1, <4>1, ScanBegins
      <4>3. SubSeq(line, b, s) = <<>>
        <5>1. b \in Int /\ s \in Int /\ s < b
          BY <1>1, <1>3, <2>1, <3>2
        <5> QED
          BY <5>1, SubSeqEmpty
      <4> QED
        BY <2>2, <3>2, <4>2, <4>3 DEF before, c, Inside
    <3>3. CASE ~ QuotedAt(line, n)
      <4>1. c # Quote
        BY <2>3, <3>1, <3>3 DEF c
      <4>2. Scan(before, c) = [at |-> "word", word |-> Append(before.word, c), words |-> before.words]
        BY <3>1, <4>1, ScanBegins
      <4>3. SubSeq(line, b, s) = Append(<<>>, c)
        <5>1. b = s /\ s \in 1 .. Len(line) /\ s \in Int /\ s - 1 \in Int /\ s - 1 < s
          <6>1. b = s
            BY <1>9, <2>1, <3>3
          <6> QED
            BY <1>1, <2>1, <6>1 DEF N
        <5>2. SubSeq(line, s, s) = SubSeq(line, s, s - 1) \o <<line[s]>>
          BY <5>1, SubSeqRecursiveSecond
        <5>3. SubSeq(line, s, s - 1) = <<>>
          BY <5>1, SubSeqEmpty
        <5>4. Append(<<>>, c) = <<>> \o <<c>>
          BY <3>1, EmptySeq, AppendIsConcat
        <5> QED
          BY <5>1, <5>2, <5>3, <5>4 DEF c
      <4> QED
        BY <2>2, <3>3, <4>2, <4>3 DEF before, c, Inside
    <3> QED
      BY <3>2, <3>3
  <2> HIDE DEF mode, W
  <2>5. CASE d = 0
    <3>1. \A i \in s + 1 .. N : line[i] # end
      BY <1>1, <1>3, <2>1, <2>5
    <3>2. N \in s .. Len(line) /\ s \in b - 1 .. Len(line) /\ b \in 1 .. Len(line) + 1
      BY <1>1, <2>1 DEF N
    <3>3. Inside(m, line, mode, b, N, W)
      BY <2>1, <2>4, <3>1, <3>2, ScanWord
    <3>4. m[N].words = W
      BY <3>3, InsideIs
    <3> QED
      BY <1>4, <1>5, <2>5, <3>4 DEF W, N
  <2>6. CASE d # 0
    <3>1. /\ d \in b .. N /\ line[d] = end /\ d \in 1 .. N /\ d - 1 \in s .. N /\ d + 1 \in n + 1 .. N + 1
          /\ \A i \in s + 1 .. d - 1 : line[i] # end
      <4>1. d \in b .. N /\ line[d] = end /\ \A i \in b .. d - 1 : line[i] # end
        BY <1>3, <2>6
      <4>2. d # s
        <5>1. CASE b = s + 1
          BY <1>1, <2>1, <4>1, <5>1
        <5>2. CASE b # s + 1
          BY <1>2, <1>3, <2>3, <4>1, <5>2
        <5> QED
          BY <5>1, <5>2
      <4>3. d \in b .. N /\ d \in 1 .. N /\ d - 1 \in s .. N /\ d + 1 \in n + 1 .. N + 1
        BY <1>1, <1>3, <2>1, <4>1, <4>2
      <4>4. ASSUME NEW i \in s + 1 .. d - 1 PROVE line[i] # end
        <5>1. s \in Int /\ d \in Int /\ b \in Int /\ b - 1 <= s
          BY <1>1, <2>1, <4>1
        <5>2. i \in b .. d - 1
          BY <5>1
        <5> QED
          BY <4>1, <5>2
      <4> QED
        BY <4>1, <4>3, <4>4
    <3> DEFINE word == SubSeq(line, b, d - 1)
    <3>2. d - 1 \in s .. Len(line) /\ s \in b - 1 .. Len(line) /\ b \in 1 .. Len(line) + 1
      BY <1>1, <2>1, <3>1 DEF N
    <3>3. Inside(m, line, mode, b, d - 1, W)
      <4> DEFINE last == d - 1
      <4>1. b \in 1 .. Len(line) + 1 /\ s \in b - 1 .. Len(line) /\ last \in s .. Len(line)
        BY <3>2
      <4>2. \A i \in s + 1 .. last : line[i] # end
        BY <3>1
      <4>3. mode \in {"word", "quotes"} /\ end = IF mode = "word" THEN Space ELSE Quote
        BY <2>1
      <4> HIDE DEF last
      <4>4. Inside(m, line, mode, b, last, W)
        BY <2>4, <4>1, <4>2, <4>3, ScanWord
      <4> QED
        BY <4>4 DEF last
    <3>4. m[d] = Scan(m[d - 1], line[d]) /\ m[d - 1] \in Scans(C) /\ line[d] \in C
      BY <1>1, <3>1 DEF Scanned, N
    <3> HIDE DEF word
    <3>5. /\ m[d - 1].at = mode /\ m[d - 1].word = word /\ m[d - 1].words = W /\ word \in Seq(C)
      <4>1. m[d - 1].at = mode /\ m[d - 1].word = word /\ m[d - 1].words = W
        BY <3>3, InsideIs DEF word
      <4> QED
        BY <3>4, <4>1 DEF Scans
    <3>6. m[d] = [at |-> "space", word |-> <<>>, words |-> Append(W, word)]
      <4> DEFINE before == m[d - 1]
                 c == line[d]
      <4> HIDE DEF before, c
      <4>1. before \in Scans(C) /\ c \in C /\ before.at = mode /\ c = end
        BY <3>1, <3>4, <3>5 DEF before, c
      <4>2. mode \in {"word", "quotes"} /\ end = IF mode = "word" THEN Space ELSE Quote
        BY <2>1
      <4>3. Scan(before, c) = [at |-> "space", word |-> <<>>, words |-> Append(before.words, before.word)]
        BY <4>1, <4>2, ScanEnds
      <4>4. m[d] = Scan(before, c) /\ before.word = word /\ before.words = W
        BY <3>4, <3>5 DEF before, c
      <4> QED
        BY <4>3, <4>4
    <3>7. m[d].at = "space" /\ m[d].word = <<>> /\ m[d].words = Append(W, word)
      BY <3>6
    <3>8. f[d + 1] \in Seq(Seq(C)) /\ m[N].words = Append(W, word) \o f[d + 1]
      <4>1. d + 1 \in n + 1 .. Len(line) + 1 /\ (d + 1) - 1 = d
        BY <1>1, <3>1 DEF N
      <4> QED
        BY <3>7, <4>1 DEF N, SameFrom
    <3>9. <<word>> \in Seq(Seq(C)) /\ W \in Seq(Seq(C))
      BY <1>5, <3>5
    <3>10. Append(W, word) \o f[d + 1] = W \o (<<word>> \o f[d + 1])
      <4> DEFINE S == Seq(C)
                 g == f[d + 1]
      <4>1. g \in Seq(S) /\ W \in Seq(S) /\ word \in S
        BY <3>5, <3>8, <3>9
      <4> HIDE DEF g, S
      <4>2. Append(W, word) \o g = W \o (<<word>> \o g)
        BY <4>1, Regroup
      <4> QED
        BY <4>2 DEF g
    <3>11. f[n] = <<word>> \o f[d + 1]
      BY <1>4, <2>6 DEF word
    <3>12. f[n] \in Seq(Seq(C))
      BY <3>5, <3>8, <3>9, <3>11, Regroup
    <3> QED
      BY <3>8, <3>10, <3>11, <3>12 DEF W, N
  <2> QED
    BY <2>5, <2>6
<1> QED
  BY <1>7, <1>8

\* parseline and a reading from left to right find the same words.
LEMMA SameWords ==
  ASSUME NEW C, Space \in C, NEW cmdline \in Seq(C), cmdline # <<>>
  PROVE  /\ Words(cmdline) \in Seq(Seq(C))
         /\ Arguments([cmdline EXCEPT ![Len(cmdline)] = Space]) = Words(cmdline)
<1> DEFINE L == Len(cmdline)
           line == [cmdline EXCEPT ![L] = Space]
           N == Len(line)
<1>1. L \in Nat \ {0} /\ L \in 1 .. L
  BY EmptySeq
<1>2. line \in Seq(C) /\ Len(line) = L
  BY <1>1, ExceptSeq
<1>3. line = Append(Front(cmdline), Space)
  <2>1. Front(cmdline) \in Seq(C) /\ Len(Front(cmdline)) = L - 1
        /\ \A i \in 1 .. L - 1 : Front(cmdline)[i] = cmdline[i]
    <3> DEFINE F == SubSeq(cmdline, 1, L - 1)
    <3>1. 1 \in Int /\ L - 1 \in Int /\ (\A i \in 1 .. L - 1 : cmdline[i] \in C)
          /\ (L - 1) - 1 + 1 = L - 1 /\ (1 <= L - 1 \/ L - 1 = 0)
      <4>1. \A i \in 1 .. L : cmdline[i] \in C
        BY ElementOfSeq
      <4> HIDE DEF L
      <4> QED
        BY <1>1, <4>1
    <3>2. /\ F \in Seq(C)
          /\ Len(F) = IF 1 <= L - 1 THEN (L - 1) - 1 + 1 ELSE 0
          /\ \A i \in 1 .. (L - 1) - 1 + 1 : F[i] = cmdline[1 + i - 1]
      <4> HIDE DEF L
      <4> QED
        BY <3>1, SubSeqProperties
    <3> HIDE DEF F
    <3>3. Len(F) = L - 1 /\ \A i \in 1 .. L - 1 : F[i] = cmdline[i]
      <4> HIDE DEF L
      <4>1. Len(F) = L - 1
        BY <1>1, <3>1, <3>2
      <4>2. ASSUME NEW i \in 1 .. L - 1
            PROVE  F[i] = cmdline[i]
        <5>1. i \in 1 .. (L - 1) - 1 + 1 /\ 1 + i - 1 = i
          BY <1>1
        <5> QED
          BY <3>2, <5>1
      <4> QED
        BY <4>1, <4>2
    <3> QED
      BY <3>2, <3>3 DEF Front, F
  <2> DEFINE F == Front(cmdline)
  <2> HIDE DEF F
  <2>2. /\ Append(F, Space) \in Seq(C) /\ Len(Append(F, Space)) = L
        /\ \A i \in 1 .. L - 1 : Append(F, Space)[i] = cmdline[i]
        /\ Append(F, Space)[L] = Space
    <3>1. F \in Seq(C) /\ Len(F) = L - 1 /\ \A i \in 1 .. L - 1 : F[i] = cmdline[i]
      BY <2>1 DEF F
    <3>2. Len(F) + 1 = L
      BY <1>1, <3>1
    <3> HIDE DEF L
    <3> QED
      BY <3>1, <3>2, AppendProperties
  <2>3. ASSUME NEW i \in 1 .. L
        PROVE  line[i] = Append(F, Space)[i]
    <3>1. CASE i = L
      BY <1>1, <2>2, <3>1
    <3>2. CASE i # L
      <4>1. i \in 1 .. L - 1
        BY <1>1, <3>2
      <4> QED
        BY <2>2, <3>2, <4>1
    <3> QED
      BY <3>1, <3>2
  <2>4. line = Append(F, Space)
    <3> HIDE DEF line, L
    <3> QED
      BY <1>2, <2>2, <2>3, SeqEqual
  <2> QED
    BY <2>4 DEF F
<1> HIDE DEF line, L
<1>4. PICK m : Scanned(m, C, line) /\ Words(cmdline) = m[N].words
  BY <1>2, <1>3, WordsScanned
<1>5. PICK f : FindsFrom(f, line, 1) /\ Arguments(line) = f[1]
  BY <1>2, ArgumentsFound
<1> DEFINE Same(n) == SameFrom(C, line, m, f, n)
           K == {k \in 0 .. N : Same(N + 1 - k)}
<1>6. N \in Nat
  BY <1>2
<1>7. ASSUME NEW k \in 0 .. N, \A i \in 0 .. N : i < k => i \in K
      PROVE  k \in K
  <2> DEFINE n == N + 1 - k
  <2>1. n \in 1 .. N + 1
    BY <1>6
  <2>2. ASSUME NEW j \in n + 1 .. N + 1
        PROVE  Same(j)
    <3>1. N + 1 - j \in 0 .. N /\ N + 1 - j < k /\ N + 1 - (N + 1 - j) = j
      BY <1>6, <2>1
    <3> HIDE DEF Same, N
    <3> QED
      BY <1>7, <3>1
  <2> HIDE DEF n
  <2>3. Same(n)
    BY <1>2, <1>4, <1>5, <2>1, <2>2, SameWordsFrom
  <2> QED
    BY <2>3 DEF n
<1>8. N \in K
  <2>1. \A k \in 0 .. N : (\A i \in 0 .. N : i < k => i \in K) => k \in K
    BY <1>7
  <2> HIDE DEF K
  <2>2. 0 .. N \subseteq K
    <3> HIDE DEF N
    <3> QED
      BY <1>6, <2>1, AllNumbers
  <2> QED
    BY <1>6, <2>2
<1>9. m[0] = ScanStart /\ m[N] \in Scans(C)
  BY <1>6, <1>4 DEF Scanned
<1>10. Same(1)
  <2>1. Same(N + 1 - N)
    BY <1>8
  <2>2. N + 1 - N = 1
    BY <1>6
  <2> HIDE DEF N
  <2> QED
    BY <2>1, <2>2
<1>11. f[1] \in Seq(Seq(C)) /\ m[N].words = <<>> \o f[1]
  <2>1. m[1 - 1] = ScanStart /\ ScanStart.at = "space" /\ ScanStart.word = <<>> /\ ScanStart.words = <<>>
    BY <1>9 DEF ScanStart
  <2> QED
    BY <1>10, <2>1 DEF SameFrom
<1>12. m[N].words = f[1]
  BY <1>11, ConcatEmptySeq
<1> QED
  BY <1>4, <1>5, <1>11, <1>12 DEF line, L

\* What eval has made of a line that was read
ParsedAs(d, line) ==
  /\ d.argv = parseline(line).argv
  /\ d.bg = parseline(line).bg
  /\ d.pid # 0 => d.argv # <<>>

Parsed == /\ script \in Seq(Lines) /\ read \in Seq(Lines)
          /\ \E D : did \in Seq(D)
          /\ Len(did) = Len(read)
          /\ \A n \in 1 .. Len(read) : ParsedAs(did[n], read[n])

\* At the start no line is read.
LEMMA ParsedInit == Init => Parsed
<1> SUFFICES ASSUME Init PROVE Parsed
  OBVIOUS
<1>1. script \in Seq(Lines) /\ read = <<>> /\ did = <<>>
  BY ScriptsAssumption DEF Init
<1>2. <<>> \in Seq(Lines) /\ <<>> \in Seq({}) /\ Len(<<>>) = 0
  BY EmptySeq
<1> QED
  BY <1>1, <1>2 DEF Parsed

\* A line is read.
LEMMA ReadParsed ==
  ASSUME Parsed, NEW kind, NEW pid, NEW jid, Read(kind, pid, jid), pid # 0 => kind = "program"
  PROVE  Parsed'
<1> DEFINE line == Head(script)
           cmd == parseline(line)
           d == [argv |-> cmd.argv, bg |-> cmd.bg, pid |-> pid, jid |-> jid]
<1>1. script # <<>> /\ script \in Seq(Lines)
  BY DEF Read, Parsed
<1>2. line \in Lines /\ Tail(script) \in Seq(Lines)
  BY <1>1, HeadTailProperties
<1>3. /\ Kind(cmd.argv) = kind /\ did' = Append(did, d)
      /\ script' = Tail(script) /\ read' = Append(read, line)
  BY DEF Read
<1>4. ParsedAs(d, line)
  <2>1. pid # 0 => cmd.argv # <<>>
    BY <1>3 DEF Kind
  <2> HIDE DEF cmd
  <2>2. d.argv = cmd.argv /\ d.bg = cmd.bg /\ d.pid = pid
    OBVIOUS
  <2> QED
    BY <2>1, <2>2 DEF ParsedAs, cmd
<1> HIDE DEF line, d
<1>5. PICK D : did \in Seq(D)
  BY DEF Parsed
<1> DEFINE E == D \cup {d}
<1>6. did \in Seq(E) /\ d \in E
  BY <1>5, SeqMonotonic
<1> HIDE DEF E
<1>7. /\ did' \in Seq(E) /\ Len(did') = Len(did) + 1
      /\ \A i \in 1 .. Len(did) : did'[i] = did[i]
      /\ did'[Len(did) + 1] = d
  BY <1>3, <1>6, AppendProperties
<1>8. /\ read' \in Seq(Lines) /\ Len(read') = Len(read) + 1
      /\ \A i \in 1 .. Len(read) : read'[i] = read[i]
      /\ read'[Len(read) + 1] = line
  <2>1. read \in Seq(Lines)
    BY DEF Parsed
  <2> QED
    BY <1>2, <1>3, <2>1, AppendProperties
<1>9. Len(did) = Len(read) /\ Len(read) \in Nat
  BY LenProperties DEF Parsed
<1>10. ASSUME NEW n \in 1 .. Len(read) + 1
       PROVE  ParsedAs(did'[n], read'[n])
  <2>1. CASE n = Len(read) + 1
    BY <1>4, <1>7, <1>8, <1>9, <2>1
  <2>2. CASE n # Len(read) + 1
    <3>1. n \in 1 .. Len(read)
      BY <1>9, <2>2
    <3>2. did'[n] = did[n] /\ read'[n] = read[n]
      BY <1>7, <1>8, <1>9, <3>1
    <3> QED
      BY <3>1, <3>2 DEF Parsed
  <2> QED
    BY <2>1, <2>2
<1>11. Len(did') = Len(read') /\ \A n \in 1 .. Len(read') : ParsedAs(did'[n], read'[n])
  BY <1>7, <1>8, <1>9, <1>10
<1> QED
  BY <1>2, <1>3, <1>7, <1>8, <1>11 DEF Parsed

\* Only the steps of main that read a line add to both histories.
LEMMA ParsedStep == Parsed /\ [Next]_vars => Parsed'
<1> SUFFICES ASSUME Parsed, [Next]_vars PROVE Parsed'
  OBVIOUS
<1>1. CASE UNCHANGED <<script, read, did>>
  BY <1>1 DEF Parsed
<1>2. CASE Nothing \/ Quit \/ do_bgfg
  <2>1. \E kind : Read(kind, 0, 0)
    BY <1>2 DEF Nothing, Quit, do_bgfg
  <2> QED
    BY <2>1, ReadParsed
<1>3. ASSUME NEW p \in Pids, Run(p)
      PROVE  Parsed'
  BY <1>3, ReadParsed DEF Run
<1>4. CASE UNCHANGED vars
  BY <1>1, <1>4 DEF vars, history
<1>5. CASE Start \/ EndOfFile \/ waitfg \/ Write \/ WriteFails \/ ProgramStep
  BY <1>1, <1>5 DEF Start, EndOfFile, waitfg, Write, WriteFails, ProgramStep, history
<1>6. ASSUME NEW s \in {"INT", "TSTP"}, Key(s)
      PROVE  Parsed'
  BY <1>1, <1>6 DEF Key, history
<1>7. ASSUME NEW p \in Pids, Chld(p)
      PROVE  Parsed'
  BY <1>1, <1>7 DEF Chld
<1> QED
  BY <1>2, <1>3, <1>4, <1>5, <1>6, <1>7 DEF Next

\* What parseline makes of a line
LEMMA ParselineIs ==
  ASSUME NEW line \in Lines
  PROVE  LET words == Words(line)
             amp == words # <<>> /\ Last(words) # <<>> /\ Head(Last(words)) = "&"
         IN  /\ parseline(line).argv = IF amp THEN Front(words) ELSE words
             /\ parseline(line).argv # <<>> => parseline(line).bg = amp
<1> DEFINE words == Words(line)
           C == STRING \cup {Space}
<1>1. Space \in C /\ line \in Seq(C) /\ line # <<>>
  BY SeqMonotonic DEF Lines
<1>2. words \in Seq(Seq(C)) /\ Arguments([line EXCEPT ![Len(line)] = Space]) = words
  <2> HIDE DEF C
  <2> QED
    BY <1>1, SameWords
<1> DEFINE amp == words # <<>> /\ Last(words) # <<>> /\ Last(words)[1] = "&"
<1>3. parseline(line) = [argv |-> IF amp THEN Front(words) ELSE words, bg |-> amp \/ words = <<>>]
  BY <1>2 DEF parseline
<1>4. words # <<>> /\ Last(words) # <<>> => Head(Last(words)) = Last(words)[1]
  <2> SUFFICES ASSUME words # <<>>, Last(words) # <<>>
               PROVE  Head(Last(words)) = Last(words)[1]
    OBVIOUS
  <2> HIDE DEF words, C
  <2>1. Len(words) \in 1 .. Len(words)
    BY <1>2, EmptySeq
  <2>2. Last(words) \in Seq(C)
    BY <1>2, <2>1, ElementOfSeq DEF Last
  <2> QED
    BY <2>2
<1> HIDE DEF words
<1>5. /\ parseline(line).argv = IF amp THEN Front(words) ELSE words
      /\ parseline(line).bg = (amp \/ words = <<>>)
  BY <1>3
<1>6. parseline(line).argv # <<>> => words # <<>>
  BY <1>5
<1>7. parseline(line).argv # <<>> => parseline(line).bg = amp
  BY <1>5, <1>6
<1>8. amp = (words # <<>> /\ Last(words) # <<>> /\ Head(Last(words)) = "&")
  BY <1>4
<1> QED
  BY <1>5, <1>7, <1>8 DEF words

\* What was parsed is what was written.
LEMMA ParsedFollows == Parsed => EvaluatedAsWritten
<1> SUFFICES ASSUME Parsed PROVE EvaluatedAsWritten
  OBVIOUS
<1>1. Len(did) = Len(read) /\ DOMAIN did = 1 .. Len(read)
  BY LenProperties DEF Parsed
<1>2. ASSUME NEW n \in DOMAIN did
      PROVE  LET words == Words(read[n])
                 amp == words # <<>> /\ Last(words) # <<>> /\ Head(Last(words)) = "&"
             IN  /\ did[n].argv = IF amp THEN Front(words) ELSE words
                 /\ did[n].pid # 0 => did[n].bg = amp
  <2>1. ParsedAs(did[n], read[n]) /\ read[n] \in Lines
    BY <1>1, ElementOfSeq DEF Parsed
  <2> QED
    BY <2>1, ParselineIs DEF ParsedAs
<1> QED
  BY <1>1, <1>2 DEF EvaluatedAsWritten

\* Each line is run as its words say, whatever spaces, quotes and & it holds
\* (tsh.c:344), for every line of every script.
THEOREM RunAsWritten == Spec => []EvaluatedAsWritten
<1> QED
  BY ParsedInit, ParsedStep, ParsedFollows, PTL DEF Spec

-----------------------------------------------------------------------------
(* Numbers and their digits. *)

Digit == ToSet(Digits)

\* The digits and their values.
LEMMA DigitValues ==
  /\ \A v \in 0 .. 9 : Digits[v + 1] \in Digit /\ Value(Digits[v + 1]) = v
  /\ \A c \in Digit : Value(c) \in 0 .. 9 /\ Digits[Value(c) + 1] = c
  /\ \A c \in Digit : c # "0" => Value(c) # 0
  /\ \A v \in 1 .. 9 : Digits[v + 1] # "0"
<1>1. DOMAIN Digits = 1 .. 10
  BY DEF Digits
<1>2. \A c : c \in Digit <=> \E i \in 1 .. 10 : c = Digits[i]
  BY <1>1 DEF Digit, ToSet
<1>3. \A i \in 1 .. 10 : i = 1 \/ i = 2 \/ i = 3 \/ i = 4 \/ i = 5 \/ i = 6 \/ i = 7 \/ i = 8 \/ i = 9 \/ i = 10
  OBVIOUS
<1>4. /\ Digits[1] = "0" /\ Digits[2] = "1" /\ Digits[3] = "2" /\ Digits[4] = "3" /\ Digits[5] = "4"
      /\ Digits[6] = "5" /\ Digits[7] = "6" /\ Digits[8] = "7" /\ Digits[9] = "8" /\ Digits[10] = "9"
  BY DEF Digits
<1>5. \A i, j \in 1 .. 10 : Digits[i] = Digits[j] => i = j
  BY <1>3, <1>4
<1>6. ASSUME NEW v \in 0 .. 9
      PROVE  Digits[v + 1] \in Digit /\ Value(Digits[v + 1]) = v
  <2>1. v + 1 \in 1 .. 10
    OBVIOUS
  <2>2. \A w \in 0 .. 9 : Digits[w + 1] = Digits[v + 1] <=> w = v
    BY <1>5, <2>1
  <2> QED
    BY <1>2, <2>1, <2>2 DEF Value
<1>7. ASSUME NEW c \in Digit
      PROVE  Value(c) \in 0 .. 9 /\ Digits[Value(c) + 1] = c
  <2>1. PICK i \in 1 .. 10 : c = Digits[i]
    BY <1>2
  <2>2. i - 1 \in 0 .. 9 /\ (i - 1) + 1 = i
    OBVIOUS
  <2> QED
    BY <1>6, <2>1, <2>2
<1>8. ASSUME NEW c \in Digit, c # "0"
      PROVE  Value(c) # 0
  BY <1>4, <1>7, <1>8
<1>9. ASSUME NEW v \in 1 .. 9
      PROVE  Digits[v + 1] # "0"
  <2>1. v + 1 \in 1 .. 10 /\ 1 \in 1 .. 10 /\ v + 1 # 1
    OBVIOUS
  <2> QED
    BY <1>4, <1>5, <2>1
<1> QED
  BY <1>6, <1>7, <1>8, <1>9

\* The value of the first n characters
Numbers(f, s) ==
  f = [n \in 0 .. Len(s) |-> IF n = 0 THEN 0 ELSE 10 * f[n - 1] + Value(s[n])]

\* atoi gives the value of all characters of a numeral.
LEMMA AtoiNumbers ==
  ASSUME NEW s \in Seq(Digit)
  PROVE  \E f : Numbers(f, s) /\ atoi(s) = f[Len(s)]
<1> DEFINE N == Len(s)
           G == [x \in Nat \X (1 .. N) |-> 10 * x[1] + Value(s[x[2]])]
<1>1. N \in Nat /\ \A n \in 1 .. N : s[n] \in Digit
  OBVIOUS
<1>2. G \in [Nat \X (1 .. N) -> Nat]
  <2>1. \A n \in 1 .. N : Value(s[n]) \in Nat
    BY <1>1, DigitValues
  <2> QED
    BY <2>1
<1>3. PICK f : Iterates(f, N, Nat, 0, G)
  <2> HIDE DEF G, N
  <2> QED
    BY <1>1, <1>2, Iterated
<1>4. Numbers(f, s)
  <2>1. ASSUME NEW n \in 0 .. N
        PROVE  f[n] = IF n = 0 THEN 0 ELSE 10 * f[n - 1] + Value(s[n])
    <3>1. n # 0 => f[n - 1] \in Nat /\ n \in 1 .. N
      BY <1>1, <1>3 DEF Iterates
    <3>2. n # 0 => G[<<f[n - 1], n>>] = 10 * f[n - 1] + Value(s[n])
      BY <3>1
    <3> HIDE DEF G
    <3> QED
      BY <1>3, <3>1, <3>2 DEF Iterates
  <2>2. f = [n \in 0 .. N |-> f[n]]
    BY <1>3 DEF Iterates
  <2> QED
    BY <2>1, <2>2 DEF Numbers
<1> DEFINE w == CHOOSE g : Numbers(g, s)
<1>5. Numbers(w, s)
  BY <1>4
<1>6. SelectInSeq(s, LAMBDA c : c \notin ToSet(Digits)) = 0
  <2>1. {i \in 1 .. Len(s) : s[i] \notin ToSet(Digits)} = {}
    BY <1>1 DEF Digit
  <2> QED
    BY <2>1 DEF SelectInSeq
<1>7. atoi(s) = w[N]
  BY <1>6 DEF atoi, Numbers
<1> QED
  BY <1>5, <1>7

\* The value of one more digit.
LEMMA NumbersAt ==
  ASSUME NEW s, NEW f, Numbers(f, s), NEW n \in 0 .. Len(s)
  PROVE  f[n] = IF n = 0 THEN 0 ELSE 10 * f[n - 1] + Value(s[n])
BY Zenon DEF Numbers

\* atoi reads a sequence of digits from left to right.
LEMMA AtoiIs ==
  /\ atoi(<<>>) = 0
  /\ \A s \in Seq(Digit), c \in Digit :
       atoi(s) \in Nat /\ atoi(Append(s, c)) = 10 * atoi(s) + Value(c)
<1>1. atoi(<<>>) = 0
  <2>1. <<>> \in Seq(Digit) /\ Len(<<>>) = 0 /\ 0 \in 0 .. 0
    BY EmptySeq
  <2>2. PICK f : Numbers(f, <<>>) /\ atoi(<<>>) = f[Len(<<>>)]
    BY <2>1, AtoiNumbers
  <2>3. f[0] = 0
    BY <2>1, <2>2, NumbersAt
  <2> QED
    BY <2>1, <2>2, <2>3
<1>2. ASSUME NEW s \in Seq(Digit), NEW c \in Digit
      PROVE  atoi(s) \in Nat /\ atoi(Append(s, c)) = 10 * atoi(s) + Value(c)
  <2> DEFINE t == Append(s, c)
             N == Len(s)
  <2>1. /\ t \in Seq(Digit) /\ Len(t) = N + 1 /\ N \in Nat
        /\ \A i \in 1 .. N : t[i] = s[i]
        /\ t[N + 1] = c
    BY AppendProperties, LenProperties
  <2>2. PICK f : Numbers(f, s) /\ atoi(s) = f[N]
    BY AtoiNumbers
  <2> HIDE DEF t
  <2>3. PICK g : Numbers(g, t) /\ atoi(t) = g[N + 1]
    BY <2>1, AtoiNumbers
  <2> HIDE DEF N
  <2> DEFINE K == {n \in 0 .. N : f[n] \in Nat /\ g[n] = f[n]}
  <2>4. ASSUME NEW n \in 0 .. N, \A m \in 0 .. N : m < n => m \in K
        PROVE  n \in K
    <3>1. n \in 0 .. Len(s) /\ n \in 0 .. Len(t)
      BY <2>1 DEF N
    <3>2. /\ f[n] = IF n = 0 THEN 0 ELSE 10 * f[n - 1] + Value(s[n])
          /\ g[n] = IF n = 0 THEN 0 ELSE 10 * g[n - 1] + Value(t[n])
      BY <2>2, <2>3, <3>1, NumbersAt
    <3>3. CASE n = 0
      BY <3>2, <3>3
    <3>4. CASE n # 0
      <4>1. n - 1 \in 0 .. N /\ n - 1 < n /\ n \in 1 .. N
        BY <2>1, <3>4
      <4>2. f[n - 1] \in Nat /\ g[n - 1] = f[n - 1]
        BY <2>4, <4>1
      <4>3. t[n] = s[n] /\ s[n] \in Digit
        BY <2>1, <4>1 DEF N
      <4>4. Value(s[n]) \in Nat
        BY <4>3, DigitValues
      <4> QED
        BY <3>2, <3>4, <4>2, <4>3, <4>4
    <3> QED
      BY <3>3, <3>4
  <2>5. N \in K
    <3> HIDE DEF K
    <3>1. 0 .. N \subseteq K
      BY <2>1, <2>4, AllNumbers
    <3> QED
      BY <2>1, <3>1
  <2>6. g[N + 1] = 10 * g[N] + Value(c)
    <3>1. N + 1 \in 0 .. Len(t) /\ N + 1 # 0 /\ (N + 1) - 1 = N
      BY <2>1
    <3> QED
      BY <2>1, <2>3, <3>1, NumbersAt
  <2> QED
    BY <2>2, <2>3, <2>5, <2>6 DEF t
<1> QED
  BY <1>1, <1>2

\* What itoa_safe has written of each number up to i
Itoas(f, i) ==
  f = [n \in 0 .. i |-> IF n = 0 THEN <<>> ELSE Append(f[n \div 10], Digits[(n % 10) + 1])]

\* The digits of a number, by those of its tenth.
LEMMA ItoasAt ==
  ASSUME NEW i, NEW f, Itoas(f, i), NEW n \in 0 .. i
  PROVE  f[n] = IF n = 0 THEN <<>> ELSE Append(f[n \div 10], Digits[(n % 10) + 1])
BY Zenon DEF Itoas

\* Division by ten.
LEMMA Tenth ==
  ASSUME NEW n \in Nat \ {0}
  PROVE  /\ n \div 10 \in 0 .. n - 1 /\ n % 10 \in 0 .. 9 /\ n = 10 * (n \div 10) + (n % 10)
         /\ n \div 10 > 0 => (n \div 10) \div 10 + 1 <= n \div 10
<1>1. n \div 10 \in Int /\ n % 10 \in 0 .. 9 /\ n = 10 * (n \div 10) + (n % 10)
  OBVIOUS
<1> DEFINE t == n \div 10
<1>2. PICK r \in 0 .. 9 : n = 10 * t + r
  BY <1>1
<1>3. t \in 0 .. n - 1
  <2>1. t \in Int
    BY <1>1
  <2> HIDE DEF t
  <2> QED
    BY <1>2, <2>1
<1>4. t > 0 => t \div 10 + 1 <= t
  <2> HIDE DEF t
  <2> QED
    BY <1>3
<1> QED
  BY <1>1, <1>3, <1>4

\* itoa_safe writes digits, for every number.
LEMMA ItoasExist ==
  ASSUME NEW N \in Nat
  PROVE  \E f : Itoas(f, N)
<1> DEFINE K == {k \in 0 .. N : \E f : Itoas(f, k)}
<1>1. ASSUME NEW k \in 0 .. N, \A m \in 0 .. N : m < k => m \in K
      PROVE  k \in K
  <2>1. CASE k = 0
    <3> DEFINE g == [n \in 0 .. 0 |-> <<>>]
    <3>1. \A n \in 0 .. 0 : g[n] = IF n = 0 THEN <<>> ELSE Append(g[n \div 10], Digits[(n % 10) + 1])
      OBVIOUS
    <3>2. g = [n \in 0 .. 0 |-> g[n]]
      OBVIOUS
    <3> HIDE DEF g
    <3>3. Itoas(g, 0)
      BY <3>1, <3>2 DEF Itoas
    <3> QED
      BY <2>1, <3>3
  <2>2. CASE k # 0
    <3>1. k - 1 \in 0 .. N /\ k - 1 < k
      BY <2>2
    <3>2. PICK f : Itoas(f, k - 1)
      BY <1>1, <3>1
    <3> DEFINE g == [n \in 0 .. k |-> IF n = k THEN Append(f[k \div 10], Digits[(k % 10) + 1]) ELSE f[n]]
    <3>3. ASSUME NEW n \in 0 .. k
          PROVE  g[n] = IF n = 0 THEN <<>> ELSE Append(g[n \div 10], Digits[(n % 10) + 1])
      <4>1. n # 0 => n \div 10 \in 0 .. n - 1
        BY Tenth
      <4>2. n # 0 => n \div 10 \in 0 .. k /\ n \div 10 # k
        BY <4>1
      <4>3. n # 0 => g[n \div 10] = f[n \div 10]
        BY <4>2
      <4>4. CASE n = k
        BY <2>2, <4>3, <4>4
      <4>5. CASE n # k
        <5>1. n \in 0 .. k - 1 /\ g[n] = f[n]
          BY <4>5
        <5>2. f[n] = IF n = 0 THEN <<>> ELSE Append(f[n \div 10], Digits[(n % 10) + 1])
          BY <3>2, <5>1, ItoasAt
        <5> HIDE DEF g
        <5> QED
          BY <4>3, <5>1, <5>2
      <4> QED
        BY <4>4, <4>5
    <3>4. Itoas(g, k)
      <4>1. g = [n \in 0 .. k |-> g[n]]
        OBVIOUS
      <4> HIDE DEF g
      <4> QED
        BY <3>3, <4>1 DEF Itoas
    <3> HIDE DEF g
    <3> QED
      BY <3>4
  <2> QED
    BY <2>1, <2>2
<1> HIDE DEF K
<1>2. 0 .. N \subseteq K
  BY <1>1, AllNumbers
<1> QED
  BY <1>2 DEF K

\* Those of a number are the same whichever number the function goes up to.
LEMMA ItoasAgree ==
  ASSUME NEW N \in Nat, NEW M \in Nat, NEW f, NEW g, Itoas(f, N), Itoas(g, M), NEW k \in 0 .. N, k <= M
  PROVE  f[k] = g[k] /\ f[k] \in Seq(Digit)
<1> DEFINE K == {n \in 0 .. k : f[n] = g[n] /\ f[n] \in Seq(Digit)}
<1>1. ASSUME NEW n \in 0 .. k, \A m \in 0 .. k : m < n => m \in K
      PROVE  n \in K
  <2>1. n \in 0 .. N /\ n \in 0 .. M
    OBVIOUS
  <2>2. /\ f[n] = IF n = 0 THEN <<>> ELSE Append(f[n \div 10], Digits[(n % 10) + 1])
        /\ g[n] = IF n = 0 THEN <<>> ELSE Append(g[n \div 10], Digits[(n % 10) + 1])
    BY <2>1, ItoasAt
  <2>3. CASE n = 0
    BY <2>2, <2>3, EmptySeq
  <2>4. CASE n # 0
    <3>1. n \div 10 \in 0 .. k /\ n \div 10 < n /\ n % 10 \in 0 .. 9
      BY <2>4, Tenth
    <3>2. f[n \div 10] = g[n \div 10] /\ f[n \div 10] \in Seq(Digit)
      BY <1>1, <3>1
    <3>3. Digits[(n % 10) + 1] \in Digit
      BY <3>1, DigitValues
    <3>4. Append(f[n \div 10], Digits[(n % 10) + 1]) \in Seq(Digit)
      BY <3>2, <3>3, AppendProperties
    <3> QED
      BY <2>2, <2>4, <3>2, <3>4
  <2> QED
    BY <2>3, <2>4
<1> HIDE DEF K
<1>2. 0 .. k \subseteq K
  BY <1>1, AllNumbers
<1> QED
  BY <1>2 DEF K

\* itoa_safe writes the digits of a tenth of the number, and the last digit.
LEMMA ItoaIs ==
  /\ itoa_safe(0) = <<>>
  /\ \A n \in Nat \ {0} : /\ itoa_safe(n \div 10) \in Seq(Digit)
                          /\ itoa_safe(n) = Append(itoa_safe(n \div 10), Digits[(n % 10) + 1])
<1> DEFINE F(i) == CHOOSE f : Itoas(f, i)
<1>1. ASSUME NEW i \in Nat
      PROVE  Itoas(F(i), i)
  BY ItoasExist
<1>2. ASSUME NEW i \in Nat
      PROVE  itoa_safe(i) = F(i)[i]
  <2>1. itoa_safe(i) = IF i <= 0 THEN <<>> ELSE F(i)[i]
    BY DEF itoa_safe, Itoas
  <2> HIDE DEF F
  <2>2. F(i)[0] = <<>>
    <3>1. 0 \in 0 .. i
      OBVIOUS
    <3> QED
      BY <1>1, <3>1, ItoasAt
  <2> QED
    BY <2>1, <2>2
<1> HIDE DEF F
<1>3. itoa_safe(0) = <<>>
  BY DEF itoa_safe
<1>4. ASSUME NEW n \in Nat \ {0}
      PROVE  /\ itoa_safe(n \div 10) \in Seq(Digit)
             /\ itoa_safe(n) = Append(itoa_safe(n \div 10), Digits[(n % 10) + 1])
  <2>1. n \div 10 \in 0 .. n /\ n \div 10 \in Nat /\ n \div 10 \in 0 .. n \div 10 /\ n \in 0 .. n /\ n \div 10 <= n
    BY Tenth
  <2> DEFINE t == n \div 10
  <2>2. itoa_safe(n) = F(n)[n] /\ itoa_safe(t) = F(t)[t]
    BY <1>2, <2>1
  <2>3. Itoas(F(n), n) /\ Itoas(F(t), t)
    BY <1>1, <2>1
  <2>4. F(n)[n] = Append(F(n)[t], Digits[(n % 10) + 1])
    BY <2>1, <2>3, ItoasAt
  <2>5. F(t)[t] = F(n)[t] /\ F(t)[t] \in Seq(Digit)
    <3> HIDE DEF t
    <3>1. t \in Nat /\ n \in Nat /\ t \in 0 .. t /\ t <= n
      BY <2>1 DEF t
    <3> QED
      BY <2>3, <3>1, ItoasAgree
  <2> QED
    BY <2>2, <2>4, <2>5
<1> QED
  BY <1>3, <1>4

IsNumeral(s) == s \in Seq(Digit) /\ s # <<>> /\ s[1] # "0"

\* What it writes is the number, without a 0 in front.
LEMMA ItoaWrites ==
  ASSUME NEW N \in Nat \ {0}
  PROVE  /\ IsNumeral(itoa_safe(N)) /\ Len(itoa_safe(N)) <= N \div 10 + 1
         /\ atoi(itoa_safe(N)) = N
<1> DEFINE Right(n) == /\ IsNumeral(itoa_safe(n)) /\ Len(itoa_safe(n)) <= n \div 10 + 1
                       /\ atoi(itoa_safe(n)) = n
           K == {n \in 0 .. N : n # 0 => Right(n)}
<1>1. ASSUME NEW n \in 0 .. N, \A m \in 0 .. N : m < n => m \in K
      PROVE  n \in K
  <2> SUFFICES ASSUME n # 0 PROVE Right(n)
    OBVIOUS
  <2> DEFINE t == n \div 10
             r == n % 10
             c == Digits[r + 1]
             s == itoa_safe(t)
  <2>1. /\ t \in 0 .. n - 1 /\ r \in 0 .. 9 /\ n = 10 * t + r
        /\ t > 0 => t \div 10 + 1 <= t
    BY Tenth
  <2>2. itoa_safe(n) = Append(s, c) /\ s \in Seq(Digit)
    <3>1. n \in Nat \ {0}
      OBVIOUS
    <3> QED
      BY <3>1, ItoaIs
  <2>3. c \in Digit /\ Value(c) = r /\ (r # 0 => c # "0")
    BY <2>1, DigitValues
  <2>4. t # 0 => Right(t)
    <3> HIDE DEF Right
    <3>1. t \in 0 .. N /\ t < n
      BY <2>1
    <3> HIDE DEF t
    <3> QED
      BY <1>1, <3>1
  <2>5. t = 0 => s = <<>>
    BY ItoaIs
  <2> HIDE DEF t, r, c, s
  <2>6. /\ Append(s, c) \in Seq(Digit) /\ Append(s, c) # <<>>
        /\ Len(Append(s, c)) = Len(s) + 1
        /\ \A i \in 1 .. Len(s) : Append(s, c)[i] = s[i]
        /\ Append(s, c)[Len(s) + 1] = c
    BY <2>2, <2>3, AppendProperties
  <2>7. atoi(Append(s, c)) = 10 * atoi(s) + r
    BY <2>2, <2>3, AtoiIs
  <2>8. CASE t = 0
    <3>1. s = <<>> /\ Len(s) = 0 /\ atoi(s) = 0
      BY <2>5, <2>8, AtoiIs
    <3>2. r # 0 /\ n = r /\ c # "0"
      BY <2>1, <2>3, <2>8
    <3>3. Append(s, c)[1] # "0"
      BY <2>6, <3>1, <3>2
    <3>4. Len(Append(s, c)) = 1 /\ 1 <= n \div 10 + 1 /\ atoi(Append(s, c)) = n
      BY <2>1, <2>6, <2>7, <3>1, <3>2
    <3> QED
      BY <2>2, <2>6, <3>3, <3>4 DEF IsNumeral
  <2>9. CASE t # 0
    <3>1. IsNumeral(s) /\ Len(s) <= t \div 10 + 1 /\ atoi(s) = t
      BY <2>4, <2>9 DEF s
    <3>2. Len(s) \in Nat \ {0} /\ s[1] # "0"
      BY <3>1, EmptySeq DEF IsNumeral
    <3>3. Append(s, c)[1] # "0"
      <4>1. 1 \in 1 .. Len(s)
        BY <3>2
      <4> QED
        BY <2>6, <3>2, <4>1
    <3>4. Len(Append(s, c)) <= n \div 10 + 1
      <4>1. Len(s) <= t
        <5>1. t > 0 /\ t \in Nat
          BY <2>1, <2>9
        <5> QED
          BY <2>1, <3>1, <3>2, <5>1
      <4>2. n \div 10 = t
        BY DEF t
      <4> QED
        BY <2>1, <2>6, <3>2, <4>1, <4>2
    <3>5. atoi(Append(s, c)) = n
      BY <2>1, <2>7, <3>1
    <3> QED
      BY <2>2, <2>6, <3>3, <3>4, <3>5 DEF IsNumeral
  <2> QED
    BY <2>8, <2>9
<1>2. N \in K
  <2> HIDE DEF K
  <2>1. 0 .. N \subseteq K
    BY <1>1, AllNumbers
  <2> QED
    BY <2>1
<1> QED
  BY <1>2

\* No other digits without a 0 in front say the same number.
LEMMA ItoaReads ==
  ASSUME NEW s, IsNumeral(s)
  PROVE  atoi(s) \in Nat \ {0} /\ itoa_safe(atoi(s)) = s
<1> DEFINE Same(u) == atoi(u) \in Nat \ {0} /\ itoa_safe(atoi(u)) = u
           N == Len(s)
           K == {k \in 0 .. N : \A u : IsNumeral(u) /\ Len(u) = k => Same(u)}
<1>1. N \in Nat
  BY LenProperties DEF IsNumeral
<1>2. ASSUME NEW k \in 0 .. N, \A m \in 0 .. N : m < k => m \in K
      PROVE  k \in K
  <2> SUFFICES ASSUME NEW u, IsNumeral(u), Len(u) = k
               PROVE  Same(u)
    OBVIOUS
  <2>1. PICK t \in Seq(Digit), c \in Digit : u = Append(t, c)
    BY SequenceEmptyOrAppend DEF IsNumeral
  <2>2. /\ Len(u) = Len(t) + 1 /\ Len(t) \in Nat
        /\ \A i \in 1 .. Len(t) : u[i] = t[i]
        /\ u[Len(t) + 1] = c
    BY <2>1, AppendProperties, LenProperties
  <2> DEFINE a == atoi(t)
             v == Value(c)
  <2>3. a \in Nat /\ v \in 0 .. 9 /\ Digits[v + 1] = c /\ atoi(u) = 10 * a + v
    BY <2>1, AtoiIs, DigitValues
  <2>4. a = 0 => v # 0 /\ t = <<>>
    <3>1. CASE t = <<>>
      <4>1. u[1] = c /\ c # "0"
        BY <2>2, <3>1 DEF IsNumeral
      <4> QED
        BY <3>1, <4>1, DigitValues
    <3>2. CASE t # <<>>
      <4>1. Len(t) \in 0 .. N /\ Len(t) < k /\ 1 \in 1 .. Len(t)
        BY <1>1, <2>2, <3>2, EmptySeq
      <4>2. IsNumeral(t)
        BY <2>2, <3>2, <4>1 DEF IsNumeral
      <4>3. Same(t)
        BY <1>2, <4>1, <4>2
      <4> QED
        BY <4>3
    <3> QED
      BY <3>1, <3>2
  <2>5. itoa_safe(a) = t
    <3>1. CASE t = <<>>
      <4>1. a = 0
        BY <3>1, AtoiIs
      <4> QED
        BY <3>1, <4>1, ItoaIs
    <3>2. CASE t # <<>>
      <4>1. Len(t) \in 0 .. N /\ Len(t) < k /\ 1 \in 1 .. Len(t)
        BY <1>1, <2>2, <3>2, EmptySeq
      <4>2. IsNumeral(t)
        BY <2>2, <3>2, <4>1 DEF IsNumeral
      <4>3. Same(t)
        BY <1>2, <4>1, <4>2
      <4> QED
        BY <4>3
    <3> QED
      BY <3>1, <3>2
  <2> HIDE DEF a, v
  <2> DEFINE n == 10 * a + v
  <2>6. n \in Nat \ {0} /\ n \div 10 = a /\ n % 10 = v
    BY <2>3, <2>4
  <2>7. itoa_safe(n) = Append(itoa_safe(n \div 10), Digits[(n % 10) + 1])
    <3> HIDE DEF n
    <3> QED
      BY <2>6, ItoaIs
  <2>8. itoa_safe(n) = u
    BY <2>1, <2>3, <2>5, <2>6, <2>7
  <2> QED
    BY <2>3, <2>6, <2>8
<1>3. N \in K
  <2>1. \A k \in 0 .. N : (\A m \in 0 .. N : m < k => m \in K) => k \in K
    BY <1>2
  <2> HIDE DEF K
  <2>2. 0 .. N \subseteq K
    <3> HIDE DEF N
    <3> QED
      BY <1>1, <2>1, AllNumbers
  <2> QED
    BY <1>1, <2>2
<1> QED
  BY <1>3

\* itoa_safe writes the numeral of its argument, the only one.
LEMMA DecimalIs ==
  ASSUME NEW n \in Nat \ {0}
  PROVE  Decimal(n) = itoa_safe(n)
<1> DEFINE U == UNION {[1 .. k -> ToSet(Digits)] : k \in 1 .. n \div 10 + 1}
           s == itoa_safe(n)
<1>1. IsNumeral(s) /\ Len(s) <= n \div 10 + 1 /\ atoi(s) = n
  BY ItoaWrites
<1> HIDE DEF s
<1>2. n \div 10 \in Nat
  BY Tenth
<1>3. Len(s) \in 1 .. n \div 10 + 1 /\ s \in [1 .. Len(s) -> Digit]
  BY <1>1, <1>2, EmptySeq, LenProperties DEF IsNumeral
<1>4. s \in U
  BY <1>3 DEF Digit
<1>5. s[1] # "0"
  BY <1>1 DEF IsNumeral
<1> DEFINE d == CHOOSE u \in U : u[1] # "0" /\ atoi(u) = n
<1>6. d \in U /\ d[1] # "0" /\ atoi(d) = n
  BY <1>1, <1>4, <1>5
<1> HIDE DEF d
<1>7. PICK k \in 1 .. n \div 10 + 1 : d \in [1 .. k -> Digit]
  BY <1>6 DEF Digit
<1>8. d \in Seq(Digit) /\ d # <<>>
  <2>1. k \in Nat \ {0}
    BY <1>2
  <2> QED
    BY <1>7, <2>1
<1>9. d = s
  <2>1. itoa_safe(atoi(d)) = d
    BY <1>6, <1>8, ItoaReads DEF IsNumeral
  <2> QED
    BY <1>6, <2>1 DEF s
<1> QED
  BY <1>9 DEF Decimal, d, s

-----------------------------------------------------------------------------
(* The text of a sequence of strings. *)

Flattens(f, s) == f = [i \in 1 .. Len(s) |-> IF i = 1 THEN s[i] ELSE f[i - 1] \o s[i]]

\* The text of the first strings and of one more.
LEMMA FlattensAt ==
  ASSUME NEW s, NEW f, Flattens(f, s), NEW i \in 1 .. Len(s)
  PROVE  f[i] = IF i = 1 THEN s[i] ELSE f[i - 1] \o s[i]
BY Zenon DEF Flattens

\* FlattenSeq gives the text of all of them.
LEMMA FlattensExists ==
  ASSUME NEW C, NEW s \in Seq(Seq(C)), s # <<>>
  PROVE  \E f : Flattens(f, s) /\ FlattenSeq(s) = f[Len(s)]
<1> DEFINE N == Len(s)
           G == [x \in Seq(C) \X (1 .. N) |-> x[1] \o s[x[2]]]
<1>1. N \in Nat \ {0} /\ (\A n \in 1 .. N : s[n] \in Seq(C)) /\ <<>> \in Seq(C)
  BY EmptySeq, ElementOfSeq
<1>2. G \in [Seq(C) \X (1 .. N) -> Seq(C)]
  <2>1. ASSUME NEW x \in Seq(C) \X (1 .. N)
        PROVE  x[1] \o s[x[2]] \in Seq(C)
    <3> DEFINE t == s[x[2]]
    <3>1. x[1] \in Seq(C) /\ t \in Seq(C)
      BY <1>1
    <3> HIDE DEF t
    <3>2. x[1] \o t \in Seq(C)
      BY <3>1, ConcatProperties
    <3> QED
      BY <3>2 DEF t
  <2> QED
    BY <2>1
<1>3. PICK f : Iterates(f, N, Seq(C), <<>>, G)
  <2> HIDE DEF G, N
  <2> QED
    BY <1>1, <1>2, Iterated
<1> DEFINE g == [n \in 1 .. N |-> f[n]]
<1>4. ASSUME NEW n \in 1 .. N
      PROVE  g[n] = IF n = 1 THEN s[n] ELSE g[n - 1] \o s[n]
  <2>1. n - 1 \in 0 .. N /\ f[n - 1] \in Seq(C)
    <3> HIDE DEF N, G
    <3>1. n - 1 \in 0 .. N
      BY <1>1
    <3> QED
      BY <1>3, <3>1 DEF Iterates
  <2>2. f[n] = f[n - 1] \o s[n]
    <3>1. f[n] = G[<<f[n - 1], n>>]
      BY <1>3 DEF Iterates
    <3> QED
      BY <2>1, <3>1
  <2>3. CASE n = 1
    <3>1. f[n - 1] = <<>>
      BY <1>3, <2>3 DEF Iterates
    <3>2. <<>> \o s[n] = s[n]
      <4> DEFINE t == s[n]
      <4>1. t \in Seq(C)
        BY <1>1
      <4> HIDE DEF t
      <4>2. <<>> \o t = t
        BY <4>1, ConcatEmptySeq
      <4> QED
        BY <4>2 DEF t
    <3> QED
      BY <2>2, <2>3, <3>1, <3>2
  <2>4. CASE n # 1
    <3>1. n - 1 \in 1 .. N
      BY <1>1, <2>4
    <3> QED
      BY <2>2, <2>4, <3>1
  <2> QED
    BY <2>3, <2>4
<1>5. Flattens(g, s)
  <2>1. g = [n \in 1 .. N |-> g[n]]
    OBVIOUS
  <2> HIDE DEF g
  <2> QED
    BY <1>4, <2>1 DEF Flattens
<1> HIDE DEF g
<1> DEFINE w == CHOOSE h : Flattens(h, s)
<1>6. Flattens(w, s)
  BY <1>5
<1>7. FlattenSeq(s) = w[N]
  BY <1>1 DEF FlattenSeq, Flattens
<1> QED
  BY <1>6, <1>7

\* The text of the first strings does not depend on the others.
LEMMA FlattensAgree ==
  ASSUME NEW C, NEW s \in Seq(Seq(C)), NEW t \in Seq(Seq(C)), NEW f, NEW g, Flattens(f, s), Flattens(g, t),
         Len(s) <= Len(t), \A i \in 1 .. Len(s) : t[i] = s[i], NEW k \in 1 .. Len(s)
  PROVE  g[k] = f[k] /\ f[k] \in Seq(C)
<1> DEFINE K == {n \in 0 .. k : n # 0 => g[n] = f[n] /\ f[n] \in Seq(C)}
<1>1. Len(s) \in Nat /\ Len(t) \in Nat
  OBVIOUS
<1>2. ASSUME NEW n \in 0 .. k, \A m \in 0 .. k : m < n => m \in K
      PROVE  n \in K
  <2> SUFFICES ASSUME n # 0 PROVE g[n] = f[n] /\ f[n] \in Seq(C)
    OBVIOUS
  <2>1. n \in 1 .. Len(s) /\ n \in 1 .. Len(t)
    BY <1>1
  <2>2. /\ f[n] = IF n = 1 THEN s[n] ELSE f[n - 1] \o s[n]
        /\ g[n] = IF n = 1 THEN t[n] ELSE g[n - 1] \o t[n]
    BY <2>1, FlattensAt
  <2>3. t[n] = s[n] /\ s[n] \in Seq(C)
    BY <2>1, ElementOfSeq
  <2>4. CASE n = 1
    BY <2>2, <2>3, <2>4
  <2>5. CASE n # 1
    <3>1. n - 1 \in 0 .. k /\ n - 1 < n /\ n - 1 # 0
      BY <1>1, <2>5
    <3>2. g[n - 1] = f[n - 1] /\ f[n - 1] \in Seq(C)
      BY <1>2, <3>1
    <3> DEFINE a == f[n - 1]
               b == s[n]
    <3>3. f[n] = a \o b /\ g[n] = a \o b /\ a \in Seq(C) /\ b \in Seq(C)
      BY <2>2, <2>3, <2>5, <3>2
    <3> HIDE DEF a, b
    <3>4. a \o b \in Seq(C)
      BY <3>3, ConcatProperties
    <3> QED
      BY <3>3, <3>4
  <2> QED
    BY <2>4, <2>5
<1> HIDE DEF K
<1>3. k \in Nat /\ k \in 0 .. k /\ k # 0
  BY <1>1
<1>4. 0 .. k \subseteq K
  BY <1>2, <1>3, AllNumbers
<1> QED
  BY <1>3, <1>4 DEF K

\* The text of no string, and of one string more.
LEMMA FlattenIs ==
  ASSUME NEW C
  PROVE  /\ FlattenSeq(<<>>) = <<>>
         /\ \A s \in Seq(Seq(C)), x \in Seq(C) :
              FlattenSeq(s) \in Seq(C) /\ FlattenSeq(Append(s, x)) = FlattenSeq(s) \o x
<1>1. FlattenSeq(<<>>) = <<>>
  BY EmptySeq DEF FlattenSeq
<1>2. ASSUME NEW s \in Seq(Seq(C)), NEW x \in Seq(C)
      PROVE  FlattenSeq(s) \in Seq(C) /\ FlattenSeq(Append(s, x)) = FlattenSeq(s) \o x
  <2> DEFINE t == Append(s, x)
             N == Len(s)
  <2>1. /\ t \in Seq(Seq(C)) /\ Len(t) = N + 1 /\ N \in Nat /\ t # <<>>
        /\ \A i \in 1 .. N : t[i] = s[i]
        /\ t[N + 1] = x
    BY AppendProperties, LenProperties
  <2> HIDE DEF t
  <2>2. PICK g : Flattens(g, t) /\ FlattenSeq(t) = g[Len(t)]
    BY <2>1, FlattensExists
  <2>3. g[N + 1] = IF N + 1 = 1 THEN x ELSE g[N] \o x
    <3>1. N + 1 \in 1 .. Len(t) /\ (N + 1) - 1 = N
      BY <2>1
    <3> QED
      BY <2>1, <2>2, <3>1, FlattensAt
  <2>4. CASE s = <<>>
    <3>1. FlattenSeq(t) = x
      BY <2>1, <2>2, <2>3, <2>4, EmptySeq
    <3> QED
      BY <1>1, <2>4, <3>1, EmptySeq, ConcatEmptySeq DEF t
  <2>5. CASE s # <<>>
    <3>1. PICK f : Flattens(f, s) /\ FlattenSeq(s) = f[N]
      BY <2>5, FlattensExists
    <3>2. N \in 1 .. Len(s) /\ N # 0 /\ Len(s) <= Len(t)
      BY <2>1, <2>5, EmptySeq
    <3>3. g[N] = f[N] /\ f[N] \in Seq(C)
      BY <2>1, <2>2, <3>1, <3>2, FlattensAgree
    <3>4. FlattenSeq(t) = f[N] \o x
      BY <2>1, <2>2, <2>3, <3>2, <3>3
    <3> QED
      BY <3>1, <3>3, <3>4 DEF t
  <2> QED
    BY <2>4, <2>5
<1> QED
  BY <1>1, <1>2

Associative(C) == \A p, q, r \in Seq(C) : (p \o q) \o r = p \o (q \o r)

\* Concatenation is associative, for all sequences over a set at once.
LEMMA Associates ==
  ASSUME NEW C
  PROVE  Associative(C)
<1>1. ASSUME NEW p \in Seq(C), NEW q \in Seq(C), NEW r \in Seq(C)
      PROVE  (p \o q) \o r = p \o (q \o r)
  BY ConcatAssociative, SMTT(30)
<1> QED
  BY <1>1 DEF Associative

\* The text of what comes first, then that of the rest.
LEMMA FlattenHead ==
  ASSUME NEW C, NEW s \in Seq(Seq(C)), s # <<>>
  PROVE  FlattenSeq(s) = Head(s) \o FlattenSeq(Tail(s))
<1> DEFINE N == Len(s)
           K == {n \in 0 .. N : \A t \in Seq(Seq(C)) : t # <<>> /\ Len(t) = n =>
                                  FlattenSeq(t) = Head(t) \o FlattenSeq(Tail(t))}
<1>0. Associative(C)
  BY Associates
<1>1. N \in Nat /\ N \in 0 .. N
  OBVIOUS
<1>2. ASSUME NEW n \in 0 .. N, \A m \in 0 .. N : m < n => m \in K
      PROVE  n \in K
  <2> SUFFICES ASSUME NEW t \in Seq(Seq(C)), t # <<>>, Len(t) = n
               PROVE  FlattenSeq(t) = Head(t) \o FlattenSeq(Tail(t))
    OBVIOUS
  <2>1. PICK u \in Seq(Seq(C)), x \in Seq(C) : t = Append(u, x)
    BY SequenceEmptyOrAppend
  <2>2. FlattenSeq(t) = FlattenSeq(u) \o x
    BY <2>1, FlattenIs
  <2>3. CASE u = <<>>
    <3>1. Head(t) = x /\ Tail(t) = <<>>
      BY <2>1, <2>3, HeadTailAppend
    <3>2. <<>> \o x = x /\ x \o <<>> = x
      BY ConcatEmptySeq
    <3> QED
      BY <2>2, <2>3, <3>1, <3>2, FlattenIs
  <2>4. CASE u # <<>>
    <3>1. Head(t) = Head(u) /\ Tail(t) = Append(Tail(u), x)
      BY <2>1, <2>4, HeadTailAppend
    <3>2. Len(u) \in 0 .. N /\ Len(u) < n
      BY <1>1, <2>1
    <3>3. FlattenSeq(u) = Head(u) \o FlattenSeq(Tail(u))
      BY <1>2, <2>4, <3>2
    <3>4. Head(u) \in Seq(C) /\ Tail(u) \in Seq(Seq(C))
      BY <2>4, HeadTailProperties
    <3>5. FlattenSeq(Tail(u)) \in Seq(C) /\ FlattenSeq(Append(Tail(u), x)) = FlattenSeq(Tail(u)) \o x
      BY <3>4, FlattenIs
    <3> DEFINE a == Head(u)
               b == FlattenSeq(Tail(u))
    <3>6. a \in Seq(C) /\ b \in Seq(C)
      BY <3>4, <3>5, Zenon
    <3> HIDE DEF a, b
    <3>7. (a \o b) \o x = a \o (b \o x)
      BY <1>0, <2>1, <3>6, Zenon DEF Associative
    <3> QED
      BY <2>2, <3>1, <3>3, <3>5, <3>7 DEF a, b
  <2> QED
    BY <2>3, <2>4
<1> HIDE DEF K
<1>3. N \in K
  BY <1>1, <1>2, AllNumbers
<1> QED
  BY <1>3 DEF K

Seven(a, b, c, d, e, f, g) == <<a, b, c, d, e, f, g>>
Joined(a, b, c, d, e, f, g) == a \o b \o c \o d \o e \o f \o g
Joins(a, b, c, d, e, f, g) == FlattenSeq(Seven(a, b, c, d, e, f, g)) = Joined(a, b, c, d, e, f, g)

\* The text of the seven strings of a message.
LEMMA FlattenSeven ==
  ASSUME NEW C, NEW a \in Seq(C), NEW b \in Seq(C), NEW c \in Seq(C), NEW d \in Seq(C),
         NEW e \in Seq(C), NEW f \in Seq(C), NEW g \in Seq(C)
  PROVE  /\ Seven(a, b, c, d, e, f, g) \in Seq(Seq(C))
         /\ Joins(a, b, c, d, e, f, g)
<1>1. /\ <<>> \in Seq(Seq(C)) /\ <<a>> \in Seq(Seq(C)) /\ <<a, b>> \in Seq(Seq(C))
      /\ <<a, b, c>> \in Seq(Seq(C)) /\ <<a, b, c, d>> \in Seq(Seq(C))
      /\ <<a, b, c, d, e>> \in Seq(Seq(C)) /\ <<a, b, c, d, e, f>> \in Seq(Seq(C))
  OBVIOUS
<1>2. /\ <<a>> = Append(<<>>, a) /\ <<a, b>> = Append(<<a>>, b)
      /\ <<a, b, c>> = Append(<<a, b>>, c) /\ <<a, b, c, d>> = Append(<<a, b, c>>, d)
  OBVIOUS
<1>3. /\ <<a, b, c, d, e>> = Append(<<a, b, c, d>>, e)
      /\ <<a, b, c, d, e, f>> = Append(<<a, b, c, d, e>>, f)
      /\ <<a, b, c, d, e, f, g>> = Append(<<a, b, c, d, e, f>>, g)
  <2>1. <<a, b, c, d, e>> = Append(<<a, b, c, d>>, e)
    OBVIOUS
  <2>2. <<a, b, c, d, e, f>> = Append(<<a, b, c, d, e>>, f)
    OBVIOUS
  <2>3. <<a, b, c, d, e, f, g>> = Append(<<a, b, c, d, e, f>>, g)
    OBVIOUS
  <2> QED
    BY <2>1, <2>2, <2>3
<1>4. FlattenSeq(<<a>>) = a
  <2>1. <<>> \o a = a
    BY ConcatEmptySeq
  <2> QED
    BY <1>1, <1>2, <2>1, FlattenIs
<1>5. FlattenSeq(<<a, b>>) = a \o b
  BY <1>1, <1>2, <1>4, FlattenIs
<1>6. FlattenSeq(<<a, b, c>>) = a \o b \o c
  BY <1>1, <1>2, <1>5, FlattenIs
<1>7. FlattenSeq(<<a, b, c, d>>) = a \o b \o c \o d
  BY <1>1, <1>2, <1>6, FlattenIs
<1>8. FlattenSeq(<<a, b, c, d, e>>) = a \o b \o c \o d \o e
  BY <1>1, <1>3, <1>7, FlattenIs
<1>9. FlattenSeq(<<a, b, c, d, e, f>>) = a \o b \o c \o d \o e \o f
  BY <1>1, <1>3, <1>8, FlattenIs
<1>10. FlattenSeq(<<a, b, c, d, e, f, g>>) = a \o b \o c \o d \o e \o f \o g
  BY <1>1, <1>3, <1>9, FlattenIs
<1>11. <<a, b, c, d, e, f, g>> \in Seq(Seq(C))
  OBVIOUS
<1> QED
  BY <1>10, <1>11 DEF Seven, Joined, Joins

Byte == Digit \cup {"Job", "[", "]", "(", ")", "terminated", "stopped", "by", "signal", "LF"}

\* What Told hands to rio_writen is the message.
LEMMA ToldText ==
  ASSUME NEW e, e.jid \in Nat \ {0}, e.pid \in Nat \ {0}, e.signal \in Nat \ {0},
         e.how \in {"terminated", "stopped"}
  PROVE  /\ Told(e.how, e.pid, e.jid, e.signal) \in Seq(Seq(Byte))
         /\ FlattenSeq(Told(e.how, e.pid, e.jid, e.signal)) = Text(e)
         /\ Text(e) \in Seq(Byte)
<1> DEFINE j == itoa_safe(e.jid)
           p == itoa_safe(e.pid)
           n == itoa_safe(e.signal)
           a == <<"Job", "[">>
           b == <<"]", "(">>
           c == <<")", e.how, "by", "signal">>
           d == <<"LF">>
<1>1. j \in Seq(Byte) /\ p \in Seq(Byte) /\ n \in Seq(Byte)
  <2>1. \A i \in Nat \ {0} : itoa_safe(i) \in Seq(Byte)
    <3>1. \A s \in Seq(Digit) : s \in Seq(Byte)
      <4>1. Digit \subseteq Byte
        BY DEF Byte
      <4> QED
        BY <4>1, SeqMonotonic
    <3> QED
      BY <3>1, ItoaWrites DEF IsNumeral
  <2> QED
    BY <2>1
<1>2. a \in Seq(Byte) /\ b \in Seq(Byte) /\ c \in Seq(Byte) /\ d \in Seq(Byte)
  <2>1. {"Job", "[", "]", "(", ")", e.how, "by", "signal", "LF"} \subseteq Byte
    BY DEF Byte
  <2>2. a \in Seq(Byte)
    BY <2>1
  <2>3. b \in Seq(Byte)
    BY <2>1
  <2>4. c \in Seq(Byte)
    BY <2>1
  <2>5. d \in Seq(Byte)
    BY <2>1
  <2> QED
    BY <2>2, <2>3, <2>4, <2>5
<1>3. Told(e.how, e.pid, e.jid, e.signal) = Seven(a, j, b, p, c, n, d)
  BY DEF Told, Seven
<1>4. Text(e) = Joined(a, j, b, p, c, n, d)
  BY DecimalIs DEF Text, Joined
<1> HIDE DEF a, b, c, d, j, p, n
<1>5. /\ Seven(a, j, b, p, c, n, d) \in Seq(Seq(Byte))
      /\ FlattenSeq(Seven(a, j, b, p, c, n, d)) = Joined(a, j, b, p, c, n, d)
  <2>1. Seven(a, j, b, p, c, n, d) \in Seq(Seq(Byte))
    BY <1>1, <1>2, FlattenSeven
  <2>2. Joins(a, j, b, p, c, n, d)
    BY <1>1, <1>2, FlattenSeven
  <2> QED
    BY <2>1, <2>2 DEF Joins
<1>6. FlattenSeq(Seven(a, j, b, p, c, n, d)) \in Seq(Byte)
  BY <1>5, FlattenIs
<1> QED
  BY <1>3, <1>4, <1>5, <1>6

-----------------------------------------------------------------------------
(* The jobs of the list are those that eval has started. *)

\* A process that was started is never one that fork may still give.
LEMMA BornStays ==
  ASSUME IInv, [Next]_vars, NEW p \in Pids, ~ Free(p)
  PROVE  (~ Free(p))'
<1> DEFINE r == <<p, "leader">>
<1>1. /\ DOMAIN proc = Pids \X Roles /\ r \in DOMAIN proc
      /\ Process(proc[r]) /\ proc[r].at # "unborn"
  BY DEF IInv, ProcessTable, Roles, Family, Free
<1> SUFFICES proc'[r].at # "unborn"
  BY DEF Free
<1>2. CASE UNCHANGED proc
  BY <1>1, <1>2
<1>3. ASSUME NEW q, NEW s \in {"INT", "TSTP", "CONT"}, kill(q, s)
      PROVE  proc'[r].at # "unborn"
  <2>1. proc'[r] = IF r \in Reached(q) THEN Signalled(r, s) ELSE proc[r]
    BY <1>1, <1>3 DEF kill
  <2>2. Signalled(r, s).at # "unborn"
    BY <1>1, SignalledProcess
  <2> QED
    BY <1>1, <2>1, <2>2
<1>4. CASE Start \/ EndOfFile \/ Nothing \/ Quit \/ waitfg \/ Write \/ WriteFails
  <2>1. UNCHANGED proc
    BY <1>4 DEF Start, EndOfFile, Nothing, Quit, waitfg, Write, WriteFails
  <2> QED
    BY <1>2, <2>1
<1>5. CASE do_bgfg
  <2>1. UNCHANGED proc \/ \E q : kill(q, "CONT")
    BY <1>5 DEF do_bgfg
  <2> QED
    BY <1>2, <1>3, <2>1
<1>6. ASSUME NEW s \in {"INT", "TSTP"}, Key(s)
      PROVE  proc'[r].at # "unborn"
  BY <1>3, <1>6 DEF Key
<1>7. ASSUME NEW q \in Pids, Run(q)
      PROVE  proc'[r].at # "unborn"
  <2>1. PICK prog, args, secs : Free(q) /\ exec(q, prog, args, secs)
    BY <1>7 DEF Run
  <2>2. q # p
    BY <2>1
  <2>3. <<q, "leader">> # r
    BY <2>2
  <2>4. proc'[r] = proc[r]
    BY <1>1, <2>1, <2>3 DEF exec
  <2> QED
    BY <1>1, <2>4
<1>8. ASSUME NEW q \in Pids, Chld(q)
      PROVE  proc'[r].at # "unborn"
  <2>1. proc' = [proc EXCEPT ![<<q, "leader">>].told = TRUE]
    BY <1>8 DEF Chld, waitpid
  <2>2. proc'[r].at = proc[r].at
    BY <1>1, <2>1 DEF Process
  <2> QED
    BY <1>1, <2>2
<1>9. CASE ProgramStep
  <2>1. PICK q \in Pids : Step(q)
    BY <1>9 DEF ProgramStep
  <2>2. CASE \E role \in Roles : Sleep(q, role)
    BY <1>1, <2>2 DEF Sleep, Process
  <2>3. CASE \E role \in Roles : Awake(q, role)
    BY <1>1, <2>3 DEF Awake, Process
  <2>4. CASE Fork(q)
    <3>1. /\ <<q, "leader">> \in DOMAIN proc /\ <<q, "child">> \in DOMAIN proc
          /\ <<q, "leader">> # <<q, "child">> /\ <<q, "child">> # r
      BY <1>1 DEF Roles
    <3>2. CASE proc' = [proc EXCEPT ![<<q, "leader">>].at = "exited"]
      BY <1>1, <3>2 DEF Process
    <3>3. CASE proc' = [proc EXCEPT ![<<q, "leader">>].at = "wait",
                                    ![<<q, "child">>] = [@ EXCEPT !.prog = "mysplit", !.at = "sleep",
                                                              !.secs = proc[<<q, "leader">>].secs]]
      BY <1>1, <3>1, <3>3 DEF Process
    <3> QED
      BY <2>4, <3>2, <3>3 DEF Fork
  <2>5. CASE Waited(q)
    BY <1>1, <2>5 DEF Waited, Process
  <2>6. CASE StopsItself(q)
    BY <1>1, <2>6 DEF StopsItself, Process
  <2>7. CASE InterruptsItself(q)
    BY <1>1, <2>7 DEF InterruptsItself, Process
  <2>8. CASE Exits(q)
    BY <1>1, <2>8 DEF Exits, Process
  <2> QED
    BY <2>1, <2>2, <2>3, <2>4, <2>5, <2>6, <2>7, <2>8 DEF Step
<1>10. CASE UNCHANGED vars
  BY <1>2, <1>10 DEF vars
<1> QED
  BY <1>4, <1>5, <1>6, <1>7, <1>8, <1>9, <1>10 DEF Next

\* Each listed job has the job ID that eval gave to its process, and eval has
\* given one only once.
Started ==
  /\ nextjid \in Nat \ {0}
  /\ \A i \in Slots : jobs[i].pid # 0 =>
       /\ jobs[i].jid # 0
       /\ \E n \in 1 .. Len(did) : did[n].pid = jobs[i].pid /\ did[n].jid = jobs[i].jid
  /\ \A n \in 1 .. Len(did) : did[n].pid # 0 => did[n].pid \in Pids /\ ~ Free(did[n].pid)
  /\ \A m, n \in 1 .. Len(did) : did[m].pid # 0 /\ did[m].pid = did[n].pid => m = n

\* At the start nothing is listed and eval has started nothing.
LEMMA StartedInit == Init => Started
<1> SUFFICES ASSUME Init PROVE Started
  OBVIOUS
<1>1. nextjid = 1 /\ (\A i \in Slots : jobs[i] = clearjob) /\ Len(did) = 0
  BY InitjobsType DEF Init, initjobs
<1> QED
  BY <1>1 DEF Started, clearjob

\* What a step adds to did and does to the list
LEMMA StartedKeeps ==
  ASSUME IInv, Parsed, Started, [Next]_vars, NEW d,
         did' = did \/ (did' = Append(did, d) /\ d.pid = 0),
         nextjid' \in Nat \ {0},
         \A i \in Slots : jobs'[i].pid # 0 => jobs'[i].pid = jobs[i].pid /\ jobs'[i].jid = jobs[i].jid
  PROVE  Started'
<1>1. PICK N \in Nat : N = Len(did)
  BY LenProperties DEF Parsed
<1>2. PICK M \in Nat : /\ M = Len(did') /\ N <= M
                       /\ \A n \in 1 .. N : did'[n] = did[n]
                       /\ \A n \in N + 1 .. M : did'[n].pid = 0
  <2>1. CASE did' = did
    BY <1>1, <2>1
  <2>2. CASE did' = Append(did, d) /\ d.pid = 0
    <3>1. PICK D : did \in Seq(D)
      BY DEF Parsed
    <3> DEFINE E == D \cup {d}
    <3>2. did \in Seq(E) /\ d \in E
      BY <3>1, SeqMonotonic
    <3> HIDE DEF E
    <3>3. /\ Len(did') = N + 1
          /\ \A n \in 1 .. N : did'[n] = did[n]
          /\ did'[N + 1] = d
      BY <1>1, <2>2, <3>2, AppendProperties
    <3>4. N + 1 \in Nat /\ N <= N + 1 /\ \A n \in N + 1 .. N + 1 : n = N + 1
      OBVIOUS
    <3> QED
      BY <2>2, <3>3, <3>4
  <2> QED
    BY <2>1, <2>2
<1>3. \A n \in 1 .. M : did'[n].pid # 0 => n \in 1 .. N /\ did'[n] = did[n]
  BY <1>2
<1>4. \A n \in 1 .. N : n \in 1 .. M
  BY <1>2
<1>5. ASSUME NEW i \in Slots, jobs'[i].pid # 0
      PROVE  /\ jobs'[i].jid # 0
             /\ \E n \in 1 .. M : did'[n].pid = jobs'[i].pid /\ did'[n].jid = jobs'[i].jid
  BY <1>1, <1>2, <1>4, <1>5 DEF Started
<1>6. ASSUME NEW n \in 1 .. M, did'[n].pid # 0
      PROVE  did'[n].pid \in Pids /\ (~ Free(did[n].pid))'
  <2>1. n \in 1 .. N /\ did'[n] = did[n]
    BY <1>3, <1>6
  <2>2. did[n].pid \in Pids /\ ~ Free(did[n].pid)
    BY <1>1, <1>6, <2>1 DEF Started
  <2>3. PICK p : p = did[n].pid
    OBVIOUS
  <2>4. (~ Free(p))'
    BY <2>2, <2>3, BornStays
  <2> QED
    BY <2>1, <2>2, <2>3, <2>4 DEF Free
<1>7. \A m, n \in 1 .. M : did'[m].pid # 0 /\ did'[m].pid = did'[n].pid => m = n
  BY <1>1, <1>3 DEF Started
<1> QED
  BY <1>2, <1>5, <1>6, <1>7 DEF Started, Free

\* eval adds the process, if it adds one, with a job ID of its own.
LEMMA RunStarted ==
  ASSUME IInv, Parsed, Started, [Next]_vars, NEW p \in Pids, Run(p)
  PROVE  Started'
<1> DEFINE d == [argv |-> Command.argv, bg |-> Command.bg, pid |-> p, jid |-> nextjid]
           st == StartState(Command.bg)
<1>1. did' = Append(did, d) /\ d.pid = p /\ d.jid = nextjid
  BY DEF Run, Read, Command
<1>2. Free(p) /\ addjob(p, st) /\ st \in JobState
  BY DEF Run, StartState, JobState
<1> HIDE DEF st, d
<1>3. PICK D : did \in Seq(D)
  BY DEF Parsed
<1> DEFINE E == D \cup {d}
<1>4. did \in Seq(E) /\ d \in E
  BY <1>3, SeqMonotonic
<1> HIDE DEF E
<1>5. PICK N \in Nat : N = Len(did)
  BY <1>3, LenProperties
<1>6. /\ Len(did') = N + 1
      /\ \A n \in 1 .. N : did'[n] = did[n]
      /\ did'[N + 1] = d
  BY <1>1, <1>4, <1>5, AppendProperties
<1>7. \A n \in 1 .. N + 1 : n \in 1 .. N \/ n = N + 1
  OBVIOUS
<1>8. \A n \in 1 .. N : n \in 1 .. N + 1 /\ did[n].pid # p
  BY <1>2, <1>5, PidsAssumption DEF Started
<1>9. N + 1 \in 1 .. N + 1 /\ p # 0
  BY PidsAssumption
<1>10. nextjid' \in Nat \ {0}
  BY <1>2 DEF addjob, Started
<1>11. \/ jobs' = jobs
       \/ \E i \in Slots : jobs' = [jobs EXCEPT ![i] = [pid |-> p, jid |-> nextjid, state |-> st]]
  BY <1>2, AddjobEffect DEF IInv, SlotsOf
<1>12. ASSUME NEW i \in Slots, jobs'[i].pid # 0
       PROVE  /\ jobs'[i].jid # 0
              /\ \E n \in 1 .. N + 1 : did'[n].pid = jobs'[i].pid /\ did'[n].jid = jobs'[i].jid
  <2>1. CASE jobs'[i] = jobs[i]
    BY <1>5, <1>6, <1>8, <1>12, <2>1 DEF Started
  <2>2. CASE jobs'[i].pid = p /\ jobs'[i].jid = nextjid
    BY <1>1, <1>6, <1>9, <2>2 DEF Started
  <2>3. DOMAIN jobs = Slots
    BY DEF IInv, JobTableType
  <2> QED
    BY <1>11, <2>1, <2>2, <2>3
<1>13. ASSUME NEW n \in 1 .. N + 1, did'[n].pid # 0
       PROVE  did'[n].pid \in Pids /\ (~ Free(did[n].pid))'
  <2>1. CASE n = N + 1
    <3>1. did'[n].pid = p
      BY <1>1, <1>6, <2>1
    <3>2. (~ Free(p))'
      <4>1. PICK prog, args, secs : exec(p, prog, args, secs)
        BY DEF Run
      <4>2. <<p, "leader">> \in DOMAIN proc
        BY DEF IInv, ProcessTable, Roles
      <4>3. proc'[<<p, "leader">>].at # "unborn"
        BY <4>1, <4>2 DEF exec, unborn
      <4> QED
        BY <4>3 DEF Free
    <3> QED
      BY <3>1, <3>2 DEF Free
  <2>2. CASE n \in 1 .. N
    <3>1. did'[n] = did[n]
      BY <1>6, <2>2
    <3>2. did[n].pid \in Pids /\ ~ Free(did[n].pid)
      BY <1>5, <1>13, <2>2, <3>1 DEF Started
    <3>3. PICK q : q = did[n].pid
      OBVIOUS
    <3>4. (~ Free(q))'
      BY <3>2, <3>3, BornStays
    <3> QED
      BY <3>1, <3>2, <3>3, <3>4 DEF Free
  <2> QED
    BY <1>7, <2>1, <2>2
<1>14. ASSUME NEW m \in 1 .. N + 1, NEW n \in 1 .. N + 1, did'[m].pid # 0, did'[m].pid = did'[n].pid
       PROVE  m = n
  <2>1. CASE m = N + 1 /\ n = N + 1
    BY <2>1
  <2>2. CASE m \in 1 .. N /\ n \in 1 .. N
    BY <1>5, <1>6, <1>14, <2>2 DEF Started
  <2>3. CASE m = N + 1 /\ n \in 1 .. N
    BY <1>1, <1>6, <1>8, <1>14, <2>3
  <2>4. CASE m \in 1 .. N /\ n = N + 1
    BY <1>1, <1>6, <1>8, <1>14, <2>4
  <2> QED
    BY <1>7, <2>1, <2>2, <2>3, <2>4
<1> QED
  BY <1>6, <1>10, <1>12, <1>13, <1>14 DEF Started, Free

\* The handler frees a slot or changes a job's state.
LEMMA ChldStarted ==
  ASSUME IInv, Parsed, Started, [Next]_vars, NEW p \in Pids, Chld(p)
  PROVE  Started'
<1>1. did' = did
  BY DEF Chld
<1>2. CASE deletejob(p)
  <2>1. \/ jobs' = jobs
        \/ \E i \in Slots : jobs' = [jobs EXCEPT ![i] = clearjob]
    BY <1>2, DeletejobEffect DEF IInv, SlotsOf
  <2>2. \A i \in Slots : jobs'[i].pid # 0 => jobs'[i].pid = jobs[i].pid /\ jobs'[i].jid = jobs[i].jid
    BY <2>1 DEF IInv, JobTableType, clearjob
  <2>3. nextjid' \in Nat \ {0}
    <3>1. CASE ~ Tracked(p)
      BY <1>2, <3>1 DEF deletejob, Started
    <3>2. CASE Tracked(p)
      <4>1. nextjid' = maxjid(jobs') + 1 /\ jobs' \in [Slots -> Job]
        BY <1>2, <3>2, DeletejobEffect DEF IInv, deletejob, JobTableType
      <4>2. maxjid(jobs') \in Nat
        BY <4>1, MaxjidExists
      <4> QED
        BY <4>1, <4>2
    <3> QED
      BY <3>1, <3>2
  <2> QED
    BY <1>1, <2>2, <2>3, StartedKeeps
<1>3. CASE setstate(getjobpid(p), "ST")
  <2>1. \A i \in Slots : jobs'[i].pid # 0 => jobs'[i].pid = jobs[i].pid /\ jobs'[i].jid = jobs[i].jid
    BY <1>3 DEF setstate, IInv, JobTableType, Job
  <2>2. nextjid' \in Nat \ {0}
    BY <1>3 DEF setstate, Started
  <2> QED
    BY <1>1, <2>1, <2>2, StartedKeeps
<1> QED
  BY <1>2, <1>3 DEF Chld

\* Every step keeps the job IDs of the list as eval gave them.
LEMMA StartedStep == IInv /\ Parsed /\ Started /\ [Next]_vars => Started'
<1> SUFFICES ASSUME IInv, Parsed, Started, [Next]_vars PROVE Started'
  OBVIOUS
<1>1. CASE UNCHANGED <<jobs, nextjid, did>>
  <2>1. /\ did' = did /\ nextjid' \in Nat \ {0}
        /\ \A i \in Slots : jobs'[i].pid # 0 => jobs'[i].pid = jobs[i].pid /\ jobs'[i].jid = jobs[i].jid
    BY <1>1 DEF Started
  <2> QED
    BY <2>1, StartedKeeps
<1>2. ASSUME NEW kind, Read(kind, 0, 0), nextjid' = nextjid,
             \A i \in Slots : jobs'[i].pid = jobs[i].pid /\ jobs'[i].jid = jobs[i].jid
      PROVE  Started'
  <2>1. PICK d : did' = Append(did, d) /\ d.pid = 0
    BY <1>2 DEF Read
  <2>2. nextjid' \in Nat \ {0}
    BY <1>2 DEF Started
  <2> QED
    BY <1>2, <2>1, <2>2, StartedKeeps
<1>3. CASE Nothing \/ Quit
  <2>1. UNCHANGED <<jobs, nextjid>> /\ \E kind : Read(kind, 0, 0)
    BY <1>3 DEF Nothing, Quit, shell
  <2> QED
    BY <1>2, <2>1
<1>4. CASE do_bgfg
  <2>1. PICK kind : Read(kind, 0, 0)
    BY <1>4 DEF do_bgfg
  <2>2. UNCHANGED <<jobs, nextjid>> \/ \E i, s : setstate(i, s)
    BY <1>4 DEF do_bgfg, shell
  <2>3. /\ nextjid' = nextjid
        /\ \A i \in Slots : jobs'[i].pid = jobs[i].pid /\ jobs'[i].jid = jobs[i].jid
    BY <2>2 DEF setstate, IInv, JobTableType, Job
  <2> QED
    BY <1>2, <2>1, <2>3
<1>5. CASE Start \/ EndOfFile \/ waitfg \/ Write \/ WriteFails \/ ProgramStep
  BY <1>1, <1>5 DEF Start, EndOfFile, waitfg, Write, WriteFails, ProgramStep, history, shell
<1>6. ASSUME NEW s \in {"INT", "TSTP"}, Key(s)
      PROVE  Started'
  BY <1>1, <1>6 DEF Key, history, shell
<1>7. ASSUME NEW p \in Pids, Run(p) \/ Chld(p)
      PROVE  Started'
  BY <1>7, RunStarted, ChldStarted
<1>8. CASE UNCHANGED vars
  BY <1>1, <1>8 DEF vars, history, shell
<1> QED
  BY <1>3, <1>4, <1>5, <1>6, <1>7, <1>8 DEF Next

-----------------------------------------------------------------------------
(* The messages. *)

\* What is to be on standard output in the end
Texts == FlattenSeq([n \in DOMAIN events |-> Text(events[n])])

Written == /\ out \in Seq(Byte) /\ strings \in Seq(Seq(Byte))
           /\ \E E : events \in Seq(E)
           /\ \A n \in 1 .. Len(events) : Text(events[n]) \in Seq(Byte)
           /\ out \o FlattenSeq(strings) = Texts

\* At the start there is nothing to tell.
LEMMA WrittenInit == Init => Written
<1> SUFFICES ASSUME Init PROVE Written
  OBVIOUS
<1>1. out = <<>> /\ strings = <<>> /\ events = <<>>
  BY DEF Init, MessageInit
<1>2. FlattenSeq(<<>>) = <<>>
  BY FlattenIs
<1>3. [n \in DOMAIN events |-> Text(events[n])] = <<>>
  BY <1>1
<1>4. <<>> \in Seq(Byte) /\ <<>> \in Seq(Seq(Byte)) /\ <<>> \in Seq({}) /\ Len(<<>>) = 0 /\ <<>> \o <<>> = <<>>
  BY EmptySeq, ConcatEmptySeq
<1> QED
  BY <1>1, <1>2, <1>3, <1>4 DEF Written, Texts

\* The job ID in the list is the one that eval gave to the process.
LEMMA JidIs ==
  ASSUME IInv, Started, NEW p \in Pids, Tracked(p)
  PROVE  pid2jid(p) = JidOf(p) /\ JidOf(p) \in Nat \ {0}
<1>1. PICK i \in SlotsOf(p) : i = getjobpid(p)
  BY LookupsFind
<1>2. i \in Slots /\ jobs[i].pid = p /\ p # 0 /\ jobs[i].jid \in Nat
  BY <1>1, PidsAssumption DEF SlotsOf, IInv, JobTableType, Job
<1>3. PICK n \in 1 .. Len(did) : did[n].pid = p /\ did[n].jid = jobs[i].jid
  BY <1>2 DEF Started
<1>4. JidOf(p) = jobs[i].jid
  <2>1. \A m \in 1 .. Len(did) : did[m].pid = p => m = n
    BY <1>2, <1>3 DEF Started
  <2> DEFINE start == CHOOSE m \in DOMAIN did : did[m].pid = p
  <2>2. start = n
    BY <1>3, <2>1
  <2> HIDE DEF start
  <2>3. JidOf(p) = did[start].jid
    BY DEF JidOf, start
  <2> QED
    BY <1>3, <2>2, <2>3
<1>5. pid2jid(p) = jobs[i].jid
  BY <1>1 DEF pid2jid
<1> QED
  BY <1>2, <1>4, <1>5 DEF Started

\* The handler begins a message.
LEMMA TellWrites ==
  ASSUME Written, IInv, Started, ~ Writing, NEW p \in Pids, Tracked(p),
         NEW how \in {"terminated", "stopped"}, NEW s \in {"INT", "TSTP"}, Tell(how, p, s)
  PROVE  Written'
<1> DEFINE e == [how |-> how, pid |-> p, jid |-> JidOf(p), signal |-> SIGNAL[s]]
           told == Told(how, p, JidOf(p), SIGNAL[s])
<1>1. /\ strings' = told /\ events' = Append(events, e) /\ out' = out
      /\ strings = <<>>
  BY JidIs DEF Tell, print_msg, Writing
<1>2. /\ e.jid \in Nat \ {0} /\ e.pid \in Nat \ {0} /\ e.signal \in Nat \ {0}
      /\ e.how \in {"terminated", "stopped"}
  <2>1. SIGNAL[s] \in {2, 20}
    BY DEF SIGNAL
  <2> QED
    BY <2>1, JidIs, SessionAssumption
<1>3. told \in Seq(Seq(Byte)) /\ FlattenSeq(told) = Text(e) /\ Text(e) \in Seq(Byte)
  <2>1. told = Told(e.how, e.pid, e.jid, e.signal)
    OBVIOUS
  <2> HIDE DEF told, e
  <2> QED
    BY <1>2, <2>1, ToldText
<1> HIDE DEF told, e
<1>4. PICK D : events \in Seq(D)
  BY DEF Written
<1> DEFINE E == D \cup {e}
<1>5. events \in Seq(E) /\ e \in E
  BY <1>4, SeqMonotonic
<1> HIDE DEF E
<1>6. PICK N \in Nat : N = Len(events) /\ DOMAIN events = 1 .. N
  BY <1>5, LenProperties
<1>7. /\ events' \in Seq(E) /\ Len(events') = N + 1 /\ DOMAIN events' = 1 .. N + 1
      /\ \A n \in 1 .. N : events'[n] = events[n]
      /\ events'[N + 1] = e
  BY <1>1, <1>5, <1>6, AppendProperties, LenProperties
<1>8. \A n \in 1 .. N + 1 : n \in 1 .. N \/ n = N + 1
  OBVIOUS
<1>9. \A n \in 1 .. N + 1 : Text(events'[n]) \in Seq(Byte)
  BY <1>3, <1>6, <1>7, <1>8 DEF Written
<1> DEFINE old == [n \in 1 .. N |-> Text(events[n])]
           new == [n \in 1 .. N + 1 |-> Text(events'[n])]
<1>10. old \in Seq(Seq(Byte)) /\ Len(old) = N
  <2>1. \A n \in 1 .. N : Text(events[n]) \in Seq(Byte)
    BY <1>6 DEF Written
  <2>2. old \in [1 .. N -> Seq(Byte)]
    BY <2>1
  <2> HIDE DEF old
  <2> QED
    BY <2>2
<1>11. new = Append(old, Text(e))
  <2>1. DOMAIN new = 1 .. N + 1 /\ \A n \in 1 .. N + 1 : new[n] = Text(events'[n])
    OBVIOUS
  <2>2. \A n \in 1 .. N : old[n] = Text(events[n])
    OBVIOUS
  <2>3. new = [n \in 1 .. N + 1 |-> new[n]]
    OBVIOUS
  <2> HIDE DEF old, new
  <2>4. /\ Append(old, Text(e)) \in Seq(Seq(Byte))
        /\ Len(Append(old, Text(e))) = N + 1
        /\ \A n \in 1 .. N : Append(old, Text(e))[n] = old[n]
        /\ Append(old, Text(e))[N + 1] = Text(e)
    BY <1>3, <1>10, AppendProperties
  <2> DEFINE app == Append(old, Text(e))
  <2>5. app \in Seq(Seq(Byte)) /\ Len(app) = N + 1
    BY <2>4
  <2>6. \A n \in 1 .. N + 1 : app[n] = new[n]
    BY <1>7, <1>8, <2>1, <2>2, <2>4
  <2> HIDE DEF app
  <2>7. app = [n \in 1 .. N + 1 |-> app[n]]
    BY <2>5
  <2> QED
    BY <2>3, <2>6, <2>7 DEF app
<1>12. Texts = FlattenSeq(old) /\ Texts' = FlattenSeq(new)
  BY <1>6, <1>7 DEF Texts
<1> HIDE DEF old, new
<1>13. Texts' = Texts \o Text(e)
  BY <1>3, <1>10, <1>11, <1>12, FlattenIs
<1>14. out = Texts
  <2>1. out \o <<>> = out
    BY ConcatEmptySeq DEF Written
  <2> QED
    BY <1>1, <2>1, FlattenIs DEF Written
<1>15. out' \o FlattenSeq(strings') = Texts'
  BY <1>1, <1>3, <1>13, <1>14
<1> QED
  BY <1>1, <1>3, <1>7, <1>9, <1>15 DEF Written

HeadIs(s, S, x, t) == s \in Seq(S) /\ s # <<>> /\ Head(s) = x /\ Tail(s) = t

\* A head that is replaced leaves the tail.
LEMMA HeadReplaced ==
  ASSUME NEW S, NEW s \in Seq(S), s # <<>>, NEW x \in S, NEW n, n = [s EXCEPT ![1] = x]
  PROVE  HeadIs(n, S, x, Tail(s))
<1>1. Len(s) \in Nat \ {0}
  BY EmptySeq
<1>2. 1 \in 1 .. Len(s)
  BY <1>1
<1>3. n \in Seq(S) /\ Len(n) = Len(s) /\ \A j \in 1 .. Len(s) : n[j] = IF j = 1 THEN x ELSE s[j]
  BY <1>2, ExceptSeq
<1>4. n # <<>>
  BY <1>1, <1>3, EmptySeq
<1>5. Head(n) = x
  BY <1>2, <1>3
<1>6. PICK t : t = Tail(s)
  OBVIOUS
<1>7. t \in Seq(S) /\ Len(t) = Len(s) - 1 /\ \A i \in 1 .. Len(t) : t[i] = s[i + 1]
  BY <1>6, HeadTailProperties
<1>8. PICK u : u = Tail(n)
  OBVIOUS
<1>9. u \in Seq(S) /\ Len(u) = Len(n) - 1 /\ \A i \in 1 .. Len(u) : u[i] = n[i + 1]
  BY <1>3, <1>4, <1>8, HeadTailProperties
<1>10. Len(u) = Len(t)
  BY <1>3, <1>7, <1>9
<1>11. ASSUME NEW i \in 1 .. Len(u) PROVE u[i] = t[i]
  <2>1. i + 1 \in 1 .. Len(s) /\ i + 1 # 1
    BY <1>1, <1>7, <1>10
  <2>2. u[i] = n[i + 1] /\ t[i] = s[i + 1]
    BY <1>7, <1>9, <1>10
  <2> QED
    BY <1>3, <2>1, <2>2
<1>12. u = t
  BY <1>7, <1>9, <1>10, <1>11, SeqEqual
<1> QED
  BY <1>3, <1>4, <1>5, <1>6, <1>8, <1>12 DEF HeadIs

\* A write, whole, in part or interrupted, moves bytes from one to the other.
LEMMA WriteWrites ==
  ASSUME Written, write, UNCHANGED events
  PROVE  Written'
<1>1. strings # <<>> /\ strings \in Seq(Seq(Byte)) /\ out \in Seq(Byte)
  BY DEF write, Writing, Written
<1>2. Head(strings) \in Seq(Byte) /\ Tail(strings) \in Seq(Seq(Byte))
  BY <1>1, HeadTailProperties
<1> DEFINE h == Head(strings)
           t == Tail(strings)
<1>3. FlattenSeq(strings) = h \o FlattenSeq(t)
  BY <1>1, FlattenHead
<1>4. FlattenSeq(t) \in Seq(Byte)
  BY <1>2, FlattenIs
<1>5. Texts' = Texts
  BY DEF Texts
<1>6. ASSUME out' \in Seq(Byte), strings' \in Seq(Seq(Byte)),
             out' \o FlattenSeq(strings') = out \o FlattenSeq(strings)
      PROVE  Written'
  BY <1>5, <1>6 DEF Written
<1>7. CASE h = <<>> /\ strings' = t /\ UNCHANGED out
  <2>1. <<>> \o FlattenSeq(t) = FlattenSeq(t)
    BY <1>4, ConcatEmptySeq
  <2>2. FlattenSeq(strings') = FlattenSeq(strings)
    BY <1>3, <1>7, <2>1
  <2> QED
    BY <1>1, <1>2, <1>6, <1>7, <2>2
<1>8. ASSUME NEW n \in DOMAIN h,
             out' = out \o SubSeq(h, 1, n), strings' = [strings EXCEPT ![1] = Unwritten(@, n)]
      PROVE  Written'
  <2> DEFINE first == SubSeq(h, 1, n)
             rest == SubSeq(h, n + 1, Len(h))
  <2>1. n \in 1 .. Len(h) /\ Len(h) \in Nat
    BY <1>2
  <2>2. first \in Seq(Byte) /\ rest \in Seq(Byte) /\ first \o rest = h
    <3>1. PICK g \in Seq(Byte) : g = h
      BY <1>2
    <3> HIDE DEF h
    <3>2. n \in 1 - 1 .. Len(g) /\ Len(g) \in n .. Len(g) /\ 1 \in 1 .. Len(g) + 1
      BY <2>1, <3>1
    <3>3. SubSeq(g, 1, n) \o SubSeq(g, n + 1, Len(g)) = SubSeq(g, 1, Len(g))
      BY <3>2, ConcatAdjacentSubSeq
    <3>4. SubSeq(g, 1, Len(g)) = g
      BY SubSeqFull
    <3>5. \A i \in 1 .. Len(g) : g[i] \in Byte
      BY ElementOfSeq
    <3>6. SubSeq(g, 1, n) \in Seq(Byte) /\ SubSeq(g, n + 1, Len(g)) \in Seq(Byte)
      BY <3>2, <3>5
    <3> QED
      BY <3>1, <3>3, <3>4, <3>6
  <2>3. strings' \in Seq(Seq(Byte)) /\ strings' # <<>> /\ Head(strings') = rest /\ Tail(strings') = t
    <3>1. strings[1] = h
      BY <1>1
    <3>2. strings' = [strings EXCEPT ![1] = rest]
      BY <1>8, <3>1 DEF Unwritten
    <3> HIDE DEF rest, h, t
    <3> DEFINE S == Seq(Byte)
    <3>3. strings \in Seq(S) /\ strings # <<>> /\ rest \in S
      BY <1>1, <2>2
    <3> HIDE DEF S
    <3>4. HeadIs(strings', S, rest, Tail(strings))
      BY <3>2, <3>3, HeadReplaced
    <3> QED
      BY <3>4 DEF HeadIs, S, t
  <2> HIDE DEF first, rest, h, t
  <2>4. FlattenSeq(strings') = rest \o FlattenSeq(t)
    BY <2>3, FlattenHead
  <2> DEFINE u == FlattenSeq(t)
  <2>5. out' = out \o first /\ u \in Seq(Byte)
    BY <1>4, <1>8 DEF first, u
  <2> HIDE DEF u
  <2>6. Associative(Byte)
    BY Associates
  <2>7. (out \o first) \o (rest \o u) = out \o ((first \o rest) \o u)
    <3>1. rest \o u \in Seq(Byte)
      BY <2>2, <2>5, ConcatProperties
    <3>2. (out \o first) \o (rest \o u) = out \o (first \o (rest \o u))
      BY <1>1, <2>2, <2>6, <3>1, Zenon DEF Associative
    <3>3. first \o (rest \o u) = (first \o rest) \o u
      BY <2>2, <2>5, <2>6, Zenon DEF Associative
    <3> QED
      BY <3>2, <3>3, Zenon
  <2>8. out' \o FlattenSeq(strings') = out \o FlattenSeq(strings)
    BY <1>3, <2>2, <2>4, <2>5, <2>7, Zenon DEF u
  <2>9. out' \in Seq(Byte)
    BY <1>1, <2>2, <2>5, ConcatProperties
  <2> QED
    BY <1>6, <2>3, <2>8, <2>9
<1>9. CASE UNCHANGED <<strings, out>>
  BY <1>1, <1>6, <1>9
<1> QED
  BY <1>7, <1>8, <1>9 DEF write

\* Every step keeps what is written and to be written the messages.
LEMMA WrittenStep == Written /\ IInv /\ Started /\ [Next]_vars => Written'
<1> SUFFICES ASSUME Written, IInv, Started, [Next]_vars PROVE Written'
  OBVIOUS
<1>1. CASE UNCHANGED <<strings, out, events>>
  BY <1>1 DEF Written, Texts
<1>2. CASE Nothing \/ Quit \/ do_bgfg
  <2>1. \E kind : Read(kind, 0, 0)
    BY <1>2 DEF Nothing, Quit, do_bgfg
  <2> QED
    BY <1>1, <2>1 DEF Read, message
<1>3. ASSUME NEW p \in Pids, Run(p)
      PROVE  Written'
  BY <1>1, <1>3 DEF Run, Read, message
<1>4. CASE Start \/ EndOfFile \/ waitfg \/ ProgramStep
  BY <1>1, <1>4 DEF Start, EndOfFile, waitfg, ProgramStep, history, message
<1>5. ASSUME NEW s \in {"INT", "TSTP"}, Key(s)
      PROVE  Written'
  BY <1>1, <1>5 DEF Key, history, message
<1>6. CASE Write
  BY <1>6, WriteWrites DEF Write, history
<1>7. CASE WriteFails
  BY <1>1, <1>7 DEF WriteFails, write_fails, history, message
<1>8. ASSUME NEW p \in Pids, Chld(p)
      PROVE  Written'
  <2>1. ~ Writing /\ Reportable(p)
    BY <1>8 DEF Chld, waitpid
  <2>2. Tracked(p)
    BY <2>1 DEF Reportable, Ended, EndStates, IInv, Family, Process, Listed, Tracked, SlotsOf
  <2>3. \/ UNCHANGED <<events, message>>
        \/ Tell("terminated", p, "INT")
        \/ Tell("stopped", p, "TSTP")
    BY <1>8 DEF Chld
  <2>4. CASE UNCHANGED <<events, message>>
    BY <1>1, <2>4 DEF message
  <2>5. CASE Tell("terminated", p, "INT") \/ Tell("stopped", p, "TSTP")
    BY <2>1, <2>2, <2>5, TellWrites
  <2> QED
    BY <2>3, <2>4, <2>5
<1>9. CASE UNCHANGED vars
  BY <1>1, <1>9 DEF vars, history, message
<1> QED
  BY <1>2, <1>3, <1>4, <1>5, <1>6, <1>7, <1>8, <1>9 DEF Next

\* That is what standard output has to be.
LEMMA WrittenFollows == Written => MessagesTrue
BY DEF Written, MessagesTrue, Texts

\* Standard output tells of the jobs that stopped or were terminated, byte by
\* byte and in order (tsh.c:582), however a write is cut short, if addjob
\* (tsh.c:694) finds a free slot for every program that eval starts.
THEOREM MessagesAreTrue == Spec /\ []Room => []MessagesTrue
<1>1. Init => Parsed /\ Started /\ Written
  BY ParsedInit, StartedInit, WrittenInit
<1>2. IInv /\ Parsed /\ Started /\ Written /\ [Next]_vars => Parsed' /\ Started' /\ Written'
  BY ParsedStep, StartedStep, WrittenStep
<1> QED
  BY <1>1, <1>2, Invariance, WrittenFollows, PTL DEF Spec

\* With no more processes than slots the list is never full.
THEOREM FewMessagesAreTrue ==
  ASSUME IsFiniteSet(Pids), Cardinality(Pids) <= MAXJOBS
  PROVE  Spec => []MessagesTrue
<1>1. Init => Parsed /\ Started /\ Written
  BY ParsedInit, StartedInit, WrittenInit
<1>2. IInv /\ Parsed /\ Started /\ Written /\ [Next]_vars => Parsed' /\ Started' /\ Written'
  BY ParsedStep, StartedStep, WrittenStep
<1> QED
  BY <1>1, <1>2, RoomForFew, WrittenFollows, PTL DEF Spec

=============================================================================
