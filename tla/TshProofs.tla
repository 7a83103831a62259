----------------------------- MODULE TshProofs -----------------------------
(***************************************************************************)
(* Proofs about the shell, for every size of the job list, every set of    *)
(* process IDs and every number of keys.  The inductive invariant IInv of  *)
(* Tsh is shown to be preserved by each action; the properties follow: a   *)
(* job leaves the list only with its child, no child is lost, and the      *)
(* shell implements JobControl, as each of its steps changes the status of *)
(* at most one job, as JobControl allows, or of none.                      *)
(***************************************************************************)
EXTENDS Tsh, WellFoundedInduction, SequenceTheorems, FunctionTheorems, FiniteSetTheorems, TLAPS

(***************************************************************************)
(* What the helper routines of the job list return and change, for every   *)
(* size of the list and every set of process IDs.                          *)
(***************************************************************************)

\* Every nonempty set of naturals has a least element.
LEMMA LeastNatural ==
  ASSUME NEW S, S \subseteq Nat, S # {}
  PROVE  \E n \in S : \A m \in S : n <= m
<1> DEFINE R == OpToRel(<, Nat)
<1>1. IsWellFoundedOn(R, Nat)
  BY NatLessThanWellFounded
<1>2. PICK n \in S : \A m \in S : ~ (<<m, n>> \in R)
  BY <1>1, WFMin, Zenon
<1>3. \A m \in S : ~ (m < n)
  BY <1>2 DEF OpToRel
<1> QED
  BY <1>3

\* A loop over the slots returns one of those it looks for.
LEMMA FirstIsMember ==
  ASSUME NEW S, S \subseteq Slots, S # {}
  PROVE  First(S) \in S
<1>1. Slots \subseteq Nat
  BY MAXJOBSAssumption DEF Slots
<1>2. \E i \in S : \A j \in S : i <= j
  BY <1>1, LeastNatural
<1> QED
  BY <1>2 DEF First

\* The lookups by process ID and of the foreground job (tsh.c:743, 753).
LEMMA LookupsFind ==
  /\ \A pid : Tracked(pid) => getjobpid(pid) \in SlotsOf(pid)
  /\ fgpid # 0 => \E i \in SlotsIn("FG") : fgpid = jobs[i].pid
  /\ SlotsIn("FG") # {} => \E i \in SlotsIn("FG") : fgpid = jobs[i].pid
<1>1. ASSUME NEW pid, Tracked(pid)
      PROVE  getjobpid(pid) \in SlotsOf(pid)
  <2>1. SlotsOf(pid) \subseteq Slots /\ SlotsOf(pid) # {}
    BY <1>1 DEF SlotsOf, Tracked
  <2> QED
    BY <2>1, FirstIsMember DEF getjobpid
<1>2. ASSUME SlotsIn("FG") # {}
      PROVE  \E i \in SlotsIn("FG") : fgpid = jobs[i].pid
  <2>1. First(SlotsIn("FG")) \in SlotsIn("FG")
    BY <1>2, FirstIsMember DEF SlotsIn
  <2> QED
    BY <1>2, <2>1 DEF fgpid
<1>3. fgpid # 0 => SlotsIn("FG") # {}
  BY DEF fgpid
<1> QED
  BY <1>1, <1>2, <1>3

\* The list always has a largest job ID (tsh.c:688).
LEMMA MaxjidExists ==
  ASSUME NEW js \in [Slots -> Job]
  PROVE  maxjid(js) \in Nat /\ \A i \in Slots : js[i].jid <= maxjid(js)
<1> DEFINE J == {js[i].jid : i \in Slots} \cup {0}
           Bounded(k) == \E m \in J : \A i \in 0 .. k - 1 : js[i].jid <= m
           B == {k \in 0 .. MAXJOBS : ~ Bounded(k)}
<1>1. J \subseteq Nat
  BY DEF Job
<1>2. MAXJOBS \in Nat /\ Slots = 0 .. MAXJOBS - 1
  BY MAXJOBSAssumption DEF Slots
<1>3. B = {}
  <2>1. SUFFICES ASSUME B # {} PROVE FALSE
    OBVIOUS
  <2>2. PICK k \in B : \A j \in B : k <= j
    <3>1. B \subseteq Nat
      BY <1>2
    <3> HIDE DEF B
    <3> QED
      BY <2>1, <3>1, LeastNatural
  <2>3. k # 0
    <3>1. 0 \in J /\ \A i \in 0 .. 0 - 1 : js[i].jid <= 0
      OBVIOUS
    <3>2. Bounded(0)
      BY <3>1
    <3> QED
      BY <3>2
  <2>4. k - 1 \in 0 .. MAXJOBS /\ k - 1 \notin B
    <3>1. k \in 0 .. MAXJOBS
      OBVIOUS
    <3>2. k - 1 \in 0 .. MAXJOBS /\ ~ (k <= k - 1)
      BY <1>2, <2>3, <3>1
    <3> HIDE DEF B
    <3> QED
      BY <2>2, <3>2
  <2>5. PICK m \in J : \A i \in 0 .. (k - 1) - 1 : js[i].jid <= m
    BY <2>4
  <2>6. k - 1 \in Slots /\ js[k - 1].jid \in J
    BY <1>2, <2>2, <2>3
  <2>7. CASE js[k - 1].jid <= m
    <3>1. \A i \in 0 .. k - 1 : js[i].jid <= m
      BY <1>2, <2>2, <2>4, <2>5, <2>7
    <3> QED
      BY <3>1
  <2>8. CASE ~ (js[k - 1].jid <= m)
    <3>1. m \in Nat /\ js[k - 1].jid \in Nat /\ m <= js[k - 1].jid
      <4>1. m \in Nat /\ js[k - 1].jid \in Nat
        BY <1>1, <2>6
      <4> QED
        BY <2>8, <4>1
    <3>2. ASSUME NEW i \in 0 .. k - 1 PROVE js[i].jid <= js[k - 1].jid
      <4>1. CASE i = k - 1
        BY <3>1, <4>1
      <4>2. CASE i # k - 1
        <5>1. i \in 0 .. (k - 1) - 1 /\ i \in Slots
          BY <1>2, <2>2, <2>3, <4>2
        <5>2. js[i].jid \in J
          BY <5>1
        <5>3. js[i].jid \in Nat /\ js[i].jid <= m
          BY <1>1, <2>5, <5>1, <5>2
        <5> QED
          BY <3>1, <5>3
      <4> QED
        BY <4>1, <4>2
    <3>3. Bounded(k)
      BY <2>6, <3>2
    <3> QED
      BY <3>3
  <2> QED
    BY <2>7, <2>8
<1>4. PICK m \in J : \A i \in Slots : js[i].jid <= m
  <2>1. MAXJOBS \in 0 .. MAXJOBS
    BY <1>2
  <2>2. Bounded(MAXJOBS)
    BY <1>3, <2>1
  <2> QED
    BY <1>2, <2>2
<1>5. maxjid(js) \in J /\ \A i \in Slots : js[i].jid <= maxjid(js)
  BY <1>4 DEF maxjid
<1> QED
  BY <1>1, <1>5

\* addjob changes nothing, or one free slot (tsh.c:699).
LEMMA AddjobEffect ==
  ASSUME JobTableType, NEW p \in Pids, NEW s \in JobState, addjob(p, s)
  PROVE  /\ JobTableType'
         /\ \/ ~ Tracked(0) /\ jobs' = jobs
            \/ \E i \in SlotsOf(0) :
                 jobs' = [jobs EXCEPT ![i] = [pid |-> p, jid |-> nextjid, state |-> s]]
<1>1. CASE ~ Tracked(0)
  BY <1>1 DEF addjob, JobTableType
<1>2. CASE Tracked(0)
  <2> DEFINE job == [pid |-> p, jid |-> nextjid, state |-> s]
  <2>1. getjobpid(0) \in SlotsOf(0)
    BY <1>2, LookupsFind
  <2>2. jobs' = [jobs EXCEPT ![getjobpid(0)] = job]
    BY <1>2 DEF addjob
  <2>3. job \in Job
    BY DEF Job, JobTableType
  <2>4. jobs' \in [Slots -> Job]
    BY <2>2, <2>3 DEF JobTableType
  <2>5. nextjid' \in Nat
    BY <1>2 DEF addjob, JobTableType
  <2> QED
    BY <2>1, <2>2, <2>4, <2>5 DEF JobTableType
<1> QED
  BY <1>1, <1>2

\* deletejob changes nothing, or clears one slot of the job (tsh.c:725).
LEMMA DeletejobEffect ==
  ASSUME JobTableType, NEW p \in Pids, deletejob(p)
  PROVE  /\ JobTableType'
         /\ \/ ~ Tracked(p) /\ jobs' = jobs
            \/ \E i \in SlotsOf(p) : jobs' = [jobs EXCEPT ![i] = clearjob]
<1>1. CASE ~ Tracked(p)
  BY <1>1 DEF deletejob, JobTableType
<1>2. CASE Tracked(p)
  <2>1. getjobpid(p) \in SlotsOf(p)
    BY <1>2, LookupsFind
  <2>2. jobs' = [jobs EXCEPT ![getjobpid(p)] = clearjob]
    BY <1>2 DEF deletejob
  <2>3. clearjob \in Job
    BY DEF clearjob, Job, JobState
  <2>4. jobs' \in [Slots -> Job]
    BY <2>2, <2>3 DEF JobTableType
  <2>5. nextjid' = maxjid(jobs') + 1
    BY <1>2 DEF deletejob
  <2>6. nextjid' \in Nat
    BY <2>4, <2>5, MaxjidExists
  <2> QED
    BY <2>1, <2>2, <2>4, <2>6 DEF JobTableType
<1> QED
  BY <1>1, <1>2

\* An assignment to job->state keeps the rest of the list.
LEMMA SetstateEffect ==
  ASSUME JobTableType, NEW i \in Slots, NEW s \in JobState, setstate(i, s)
  PROVE  /\ JobTableType'
         /\ \A j \in Slots : /\ jobs'[j].pid = jobs[j].pid
                             /\ jobs'[j].jid = jobs[j].jid
                             /\ jobs'[j].state = IF j = i THEN s ELSE jobs[j].state
BY DEF setstate, JobTableType, Job

\* At start every slot is free.
LEMMA InitjobsType == initjobs => JobTableType /\ \A i \in Slots : jobs[i] = clearjob
BY DEF initjobs, JobTableType, Job, JobState, clearjob

(***************************************************************************)
(* The stack of handlers.                                                  *)
(***************************************************************************)

\* Entering a handler adds a frame and keeps the others.
LEMMA PushProperties ==
  ASSUME TypeOK, NEW f \in Frame
  PROVE  /\ Append(stack, f) \in Seq(Frame)
         /\ DOMAIN Append(stack, f) = 1 .. Len(stack) + 1
         /\ DOMAIN stack = 1 .. Len(stack) /\ Len(stack) \in Nat
         /\ Append(stack, f)[Len(stack) + 1] = f
         /\ \A k \in DOMAIN stack : Append(stack, f)[k] = stack[k]
BY DEF TypeOK

\* A step of the running handler replaces its frame, its return drops it.
LEMMA TopProperties ==
  ASSUME TypeOK, stack # <<>>
  PROVE  /\ DOMAIN stack = 1 .. Len(stack) /\ Len(stack) \in DOMAIN stack
         /\ \A k \in DOMAIN stack : stack[k] \in Frame
         /\ Top \in Frame
         /\ Pop \in Seq(Frame)
         /\ DOMAIN Pop = DOMAIN stack \ {Len(stack)}
         /\ \A k \in DOMAIN Pop : Pop[k] = stack[k]
         /\ \A f \in Frame : /\ SetTop(f) \in Seq(Frame)
                             /\ DOMAIN SetTop(f) = DOMAIN stack
                             /\ SetTop(f)[Len(stack)] = f
                             /\ \A k \in DOMAIN Pop : SetTop(f)[k] = stack[k]
<1>1. stack \in Seq(Frame)
  BY DEF TypeOK
<1>2. DOMAIN stack = 1 .. Len(stack) /\ Len(stack) \in Nat \ {0}
  BY <1>1
<1>3. \A k \in DOMAIN stack : stack[k] \in Frame
  BY <1>1, <1>2
<1>4. /\ Pop \in Seq(Frame)
      /\ DOMAIN Pop = 1 .. Len(stack) - 1
      /\ \A k \in DOMAIN Pop : Pop[k] = stack[k]
  BY <1>1, <1>2 DEF Pop
<1>5. ASSUME NEW f \in Frame
      PROVE  /\ SetTop(f) \in Seq(Frame)
             /\ DOMAIN SetTop(f) = DOMAIN stack
             /\ SetTop(f)[Len(stack)] = f
             /\ \A k \in 1 .. Len(stack) - 1 : SetTop(f)[k] = stack[k]
  <2>1. Len(stack) \in 1 .. Len(stack)
    BY <1>2
  <2>2. SetTop(f) \in Seq(Frame) /\ Len(SetTop(f)) = Len(stack)
    BY <1>1, <2>1, ExceptSeq DEF SetTop
  <2>3. \A k \in 1 .. Len(stack) : SetTop(f)[k] = IF k = Len(stack) THEN f ELSE stack[k]
    BY <1>1, <2>1, ExceptSeq DEF SetTop
  <2>4. DOMAIN SetTop(f) = DOMAIN stack
    BY DEF SetTop
  <2>5. ASSUME NEW n \in Nat \ {0} PROVE \A k \in 1 .. n - 1 : k \in 1 .. n /\ k # n
    OBVIOUS
  <2> HIDE DEF SetTop
  <2> QED
    BY <1>2, <2>1, <2>2, <2>3, <2>4, <2>5
<1>6. Len(stack) \in DOMAIN stack /\ Top \in Frame
  BY <1>2, <1>3 DEF Top
<1>7. DOMAIN Pop = DOMAIN stack \ {Len(stack)}
  <2>1. PICK n \in Nat \ {0} : n = Len(stack)
    BY <1>2
  <2>2. 1 .. n - 1 = (1 .. n) \ {n}
    BY <2>1
  <2> QED
    BY <1>2, <1>4, <2>1, <2>2
<1>8. \A f \in Frame : /\ SetTop(f) \in Seq(Frame)
                      /\ DOMAIN SetTop(f) = DOMAIN stack
                      /\ SetTop(f)[Len(stack)] = f
                      /\ \A k \in DOMAIN Pop : SetTop(f)[k] = stack[k]
  BY <1>4, <1>5
<1> HIDE DEF Top
<1> QED
  BY <1>2, <1>3, <1>4, <1>6, <1>7, <1>8

(***************************************************************************)
(* The inductive invariant.                                                *)
(***************************************************************************)

LEMMA InitIInv == Init => IInv
<1> SUFFICES ASSUME Init PROVE IInv
  OBVIOUS
<1> USE DEF Init
<1>1. JobTableType /\ \A i \in Slots : jobs[i] = clearjob
  BY InitjobsType
<1>2. TypeOK
  <2>1. main \in MainType
    BY MAXJOBSAssumption DEF AtPrompt, MainType, MainPoint, ReadPoint, Slots
  <2> QED
    BY <1>1, <2>1, MaxKeysAssumption DEF TypeOK, ChildState, Zombie, PreExec
<1>3. \A p \in Pids : ~ Tracked(p)
  BY <1>1, PidsAssumption DEF Tracked, SlotsOf, clearjob
<1>4. SlotsIn("FG") = {} /\ SlotsIn("ST") = {}
  BY <1>1 DEF SlotsIn, clearjob
<1>5. DOMAIN stack = {}
  OBVIOUS
<1>6. UniquePids
  BY <1>1 DEF UniquePids, clearjob
<1>7. main.pc = "read"
  BY DEF AtPrompt
<1> QED
  BY <1>2, <1>3, <1>4, <1>5, <1>6, <1>7
  DEF IInv, JobsAreBorn, AddJobIsMasked, FGIsWaitedFor, KillsItsJob, FramesAgree,
      NoGhostJob, StoppedJobIsStopped, NeverForwardedToBG

\* The steps of the children, the kernel and the terminal, and the ends of
\* the shell, leave the job list, main and the stack alone.
LEMMA ChildrenMove ==
  ASSUME IInv, TypeOK', UNCHANGED shell,
         \A p \in Pids :
           /\ child'[p] = "unborn" => child[p] = "unborn"
           /\ child'[p] = "reaped" <=> child[p] = "reaped"
           /\ child[p] \in {"stopped"} \cup Zombie => child'[p] \in {"stopped"} \cup Zombie
  PROVE  IInv'
<1> USE DEF IInv, shell
<1>1. /\ \A p : Tracked(p) <=> Tracked(p)'
      /\ \A p : SlotsOf(p)' = SlotsOf(p)
      /\ \A s : SlotsIn(s)' = SlotsIn(s)
  BY DEF Tracked, SlotsOf, SlotsIn
<1>2. UniquePids' /\ KillsItsJob' /\ FGIsWaitedFor' /\ NeverForwardedToBG'
  BY <1>1 DEF UniquePids, KillsItsJob, FGIsWaitedFor, NeverForwardedToBG
<1>3. JobsAreBorn'
  BY <1>1 DEF JobsAreBorn
<1>4. AddJobIsMasked'
  BY <1>1 DEF AddJobIsMasked
<1>5. FramesAgree'
  BY DEF FramesAgree
<1>6. NoGhostJob'
  BY <1>1 DEF NoGhostJob
<1>7. StoppedJobIsStopped'
  BY <1>1 DEF StoppedJobIsStopped
<1> QED
  BY <1>2, <1>3, <1>4, <1>5, <1>6, <1>7

\* Signals to the shell's process group keep the types of what they change.
LEMMA SignalShellGroupType ==
  ASSUME TypeOK, NEW s \in TerminalSignals, SignalShellGroup(s)
  PROVE  /\ pending' \in SUBSET Signals
         /\ sigs' \in [Pids -> SUBSET TerminalSignals]
         /\ child' = child
BY DEF TypeOK, SignalShellGroup, Signals

LEMMA ChildStep ==
  ASSUME IInv, NEW p \in Pids, Child(p)
  PROVE  IInv'
<1> USE DEF IInv
<1> DEFINE Moves == \A q \in Pids :
              /\ child'[q] = "unborn" => child[q] = "unborn"
              /\ child'[q] = "reaped" <=> child[q] = "reaped"
              /\ child[q] \in {"stopped"} \cup Zombie => child'[q] \in {"stopped"} \cup Zombie
<1>1. CASE Setpgid(p)
  <2>1. TypeOK' /\ UNCHANGED shell
    BY <1>1 DEF Setpgid, ChildSame, shell, TypeOK, JobTableType, ChildState, PreExec
  <2>2. Moves
    BY <1>1 DEF Setpgid, TypeOK, Zombie
  <2> QED
    BY <2>1, <2>2, ChildrenMove
<1>2. CASE Execve(p)
  <2>1. TypeOK' /\ UNCHANGED shell
    BY <1>2 DEF Execve, ChildSame, RaiseCHLD, shell, TypeOK, JobTableType, ChildState,
                Zombie, Signals
  <2>2. Moves
    BY <1>2 DEF Execve, TypeOK, Zombie
  <2> QED
    BY <2>1, <2>2, ChildrenMove
<1>3. CASE Exit(p)
  <2>1. TypeOK' /\ UNCHANGED shell
    BY <1>3 DEF Exit, ChildSame, RaiseCHLD, shell, TypeOK, JobTableType, ChildState,
                Zombie, Signals
  <2>2. Moves
    BY <1>3 DEF Exit, TypeOK, Zombie
  <2> QED
    BY <2>1, <2>2, ChildrenMove
<1>4. CASE Killed(p)
  <2>1. TypeOK' /\ UNCHANGED shell
    BY <1>4 DEF Killed, ChildSame, RaiseCHLD, shell, TypeOK, JobTableType, ChildState,
                Zombie, Signals
  <2>2. Moves
    BY <1>4 DEF Killed, TypeOK, Zombie, PreExec
  <2> QED
    BY <2>1, <2>2, ChildrenMove
<1>5. CASE StoppedByOther(p)
  <2>1. TypeOK' /\ UNCHANGED shell
    BY <1>5 DEF StoppedByOther, ChildSame, RaiseCHLD, shell, TypeOK, JobTableType,
                ChildState, Signals
  <2>2. Moves
    BY <1>5 DEF StoppedByOther, TypeOK, Zombie
  <2> QED
    BY <2>1, <2>2, ChildrenMove
<1>6. ASSUME NEW s \in TerminalSignals, InheritedHandler(p, s)
      PROVE  IInv'
  <2>1. SignalShellGroup(s) /\ UNCHANGED <<shell, exit, keys>>
    BY <1>6 DEF InheritedHandler, ChildSame
  <2>2. TypeOK' /\ UNCHANGED shell
    BY <2>1, SignalShellGroupType DEF shell, TypeOK, JobTableType
  <2>3. Moves
    BY <2>1, SignalShellGroupType
  <2> QED
    BY <2>2, <2>3, ChildrenMove
<1> QED
  BY <1>1, <1>2, <1>3, <1>4, <1>5, <1>6 DEF Child

\* Keys, and the ends of the shell that change nothing else.
LEMMA OutsideStep ==
  ASSUME IInv,
         \/ \E s \in TerminalSignals : Key(s)
         \/ sigquit_handler \/ Quit \/ ForkFails
  PROVE  IInv'
<1> USE DEF IInv
<1>1. ASSUME NEW s \in TerminalSignals, Key(s)
      PROVE  IInv'
  <2>1. SignalShellGroup(s) /\ UNCHANGED <<shell, exit>> /\ keys' = keys + 1 /\ keys < MaxKeys
    BY <1>1 DEF Key
  <2>2. keys' \in 0 .. MaxKeys
    BY <2>1, MaxKeysAssumption DEF TypeOK
  <2>3. TypeOK' /\ UNCHANGED shell
    BY <2>1, <2>2, SignalShellGroupType DEF shell, TypeOK, JobTableType
  <2> QED
    BY <2>1, <2>3, SignalShellGroupType, ChildrenMove
<1>2. ASSUME sigquit_handler \/ Quit \/ ForkFails
      PROVE  IInv'
  <2>1. UNCHANGED <<shell, pending, child, sigs, keys>>
        /\ exit' \in {"SIGQUIT", "exit(0)", "unix_error"}
    BY <1>2 DEF sigquit_handler, Quit, ForkFails
  <2>2. TypeOK' /\ UNCHANGED shell
    BY <2>1 DEF shell, TypeOK, JobTableType
  <2> QED
    BY <2>1, <2>2, ChildrenMove
<1> QED
  BY <1>1, <1>2

\* Entering a handler.
LEMMA DeliverStep ==
  ASSUME IInv, NEW s \in Signals, Deliver(s)
  PROVE  IInv'
<1> USE DEF IInv
<1> DEFINE n == Len(stack) + 1
<1>1. Entry(s) \in Frame
  BY DEF Entry, Frame, Signals
<1>2. /\ stack' = Append(stack, Entry(s))
      /\ pending' = pending \ {s}
      /\ UNCHANGED <<jobs, nextjid, main, child, sigs, exit, keys>>
      /\ ~ Blocked(s)
  BY DEF Deliver
<1>3. /\ stack' \in Seq(Frame)
      /\ DOMAIN stack' = DOMAIN stack \cup {n} /\ n \notin DOMAIN stack
      /\ stack'[n] = Entry(s)
      /\ \A k \in DOMAIN stack : stack'[k] = stack[k]
  BY <1>1, <1>2, PushProperties
<1>4. Entry(s).sig = s /\ Entry(s).at \in {"wait", "look"}
  BY DEF Entry
<1>5. /\ \A p : Tracked(p) <=> Tracked(p)'
      /\ \A p : SlotsOf(p)' = SlotsOf(p)
      /\ \A x : SlotsIn(x)' = SlotsIn(x)
  BY <1>2 DEF Tracked, SlotsOf, SlotsIn
<1> HIDE DEF n
<1>6. TypeOK'
  BY <1>2, <1>3 DEF TypeOK, JobTableType
<1>7. UniquePids' /\ JobsAreBorn' /\ FGIsWaitedFor' /\ KillsItsJob' /\ StoppedJobIsStopped'
  BY <1>2, <1>5
  DEF UniquePids, JobsAreBorn, FGIsWaitedFor, KillsItsJob, StoppedJobIsStopped
<1>8. AddJobIsMasked'
  BY <1>2, <1>3, <1>4, <1>5 DEF AddJobIsMasked, Blocked
<1>9. FramesAgree'
  BY <1>2, <1>3, <1>4 DEF FramesAgree, Blocked
<1>10. NoGhostJob'
  BY <1>2, <1>3, <1>5 DEF NoGhostJob
<1>11. NeverForwardedToBG'
  BY <1>2, <1>3, <1>4, <1>5 DEF NeverForwardedToBG
<1> QED
  BY <1>6, <1>7, <1>8, <1>9, <1>10, <1>11

\* A handler that does not touch the job list: what the SIGCHLD handler has
\* been told stays on the stack, and no other frame is added.
LEMMA HandlersMove ==
  ASSUME IInv, TypeOK', UNCHANGED <<jobs, nextjid, main>>,
         \A p \in Pids :
           /\ child'[p] = "unborn" => child[p] = "unborn"
           /\ child'[p] = "reaped" <=> child[p] = "reaped"
           /\ child[p] \in {"stopped"} \cup Zombie => child'[p] \in {"stopped"} \cup Zombie,
         \A k \in DOMAIN stack' :
           /\ k \in DOMAIN stack
           /\ stack'[k].sig = stack[k].sig
           /\ stack'[k].at = "act" => stack'[k] = stack[k],
         \A k \in DOMAIN stack :
           stack[k].at = "act" => k \in DOMAIN stack' /\ stack'[k] = stack[k],
         NeverForwardedToBG'
  PROVE  IInv'
<1> USE DEF IInv
<1>1. /\ \A p : Tracked(p) <=> Tracked(p)'
      /\ \A p : SlotsOf(p)' = SlotsOf(p)
      /\ \A s : SlotsIn(s)' = SlotsIn(s)
  BY DEF Tracked, SlotsOf, SlotsIn
<1>2. UniquePids' /\ JobsAreBorn' /\ FGIsWaitedFor' /\ KillsItsJob' /\ StoppedJobIsStopped'
  BY <1>1 DEF UniquePids, JobsAreBorn, FGIsWaitedFor, KillsItsJob, StoppedJobIsStopped
<1>3. AddJobIsMasked'
  BY <1>1 DEF AddJobIsMasked
<1>4. FramesAgree'
  BY DEF FramesAgree
<1>5. NoGhostJob'
  BY <1>1 DEF NoGhostJob
<1> QED
  BY <1>2, <1>3, <1>4, <1>5

LEMMA ForwardLookStep ==
  ASSUME IInv, NEW s \in TerminalSignals, ForwardLook(s)
  PROVE  IInv'
<1> USE DEF IInv
<1> DEFINE f == [Top EXCEPT !.at = "kill", !.pid = fgpid]
<1>1. /\ stack # <<>> /\ Top.at = "look"
      /\ stack' = SetTop(f)
      /\ UNCHANGED <<jobs, nextjid, main, pending, child, sigs, exit, keys>>
  BY DEF ForwardLook, HandlerRuns
<1>2. fgpid \in Pids \cup {0}
  BY LookupsFind DEF TypeOK, JobTableType, Job, SlotsIn
<1>3. f \in Frame /\ f.sig = Top.sig /\ f.at = "kill" /\ f.pid = fgpid
  BY <1>1, <1>2, TopProperties DEF Frame
<1> HIDE DEF f
<1>4. /\ stack' \in Seq(Frame)
      /\ DOMAIN stack' = DOMAIN stack /\ Len(stack) \in DOMAIN stack
      /\ stack'[Len(stack)] = f
      /\ \A k \in DOMAIN stack : k # Len(stack) => stack'[k] = stack[k]
      /\ stack[Len(stack)] = Top
  BY <1>1, <1>3, TopProperties DEF Top
<1>5. TypeOK'
  BY <1>1, <1>4 DEF TypeOK, JobTableType
<1>6. \A p : SlotsOf(p)' = SlotsOf(p)
  BY <1>1 DEF SlotsOf
<1>7. fgpid # 0 => \A i \in SlotsOf(fgpid) : jobs[i].state = "FG"
  BY LookupsFind DEF UniquePids, SlotsOf, SlotsIn
<1>8. NeverForwardedToBG'
  BY <1>1, <1>3, <1>4, <1>6, <1>7 DEF NeverForwardedToBG
<1>9. /\ \A k \in DOMAIN stack' :
           /\ k \in DOMAIN stack
           /\ stack'[k].sig = stack[k].sig
           /\ stack'[k].at = "act" => stack'[k] = stack[k]
      /\ \A k \in DOMAIN stack :
           stack[k].at = "act" => k \in DOMAIN stack' /\ stack'[k] = stack[k]
  BY <1>1, <1>3, <1>4
<1>10. child' = child
  BY <1>1
<1> QED
  BY <1>1, <1>5, <1>8, <1>9, <1>10, HandlersMove

\* Signals to a group never wait for a child, and leave a zombie a zombie.
LEMMA SignalGroupEffect ==
  ASSUME TypeOK, NEW q \in Pids, NEW s \in TerminalSignals, SignalGroup(q, s)
  PROVE  /\ child' \in [Pids -> ChildState]
         /\ sigs' \in [Pids -> SUBSET TerminalSignals]
         /\ pending' \in SUBSET Signals
         /\ \A p \in Pids :
              /\ child'[p] = "unborn" => child[p] = "unborn"
              /\ child'[p] = "reaped" <=> child[p] = "reaped"
              /\ child[p] \in {"stopped"} \cup Zombie => child'[p] \in {"stopped"} \cup Zombie
BY DEF SignalGroup, TypeOK, ChildState, Zombie, RaiseCHLD, Signals

LEMMA ForwardKillStep ==
  ASSUME IInv, NEW s \in TerminalSignals, ForwardKill(s)
  PROVE  IInv'
<1> USE DEF IInv
<1>1. /\ stack # <<>> /\ Top.at = "kill"
      /\ UNCHANGED <<jobs, nextjid, main, keys>>
  BY DEF ForwardKill, HandlerRuns
<1>2. /\ DOMAIN Pop = DOMAIN stack \ {Len(stack)} /\ Len(stack) \in DOMAIN stack
      /\ \A k \in DOMAIN Pop : Pop[k] = stack[k]
      /\ Pop \in Seq(Frame) /\ Top \in Frame
      /\ Top = stack[Len(stack)]
  BY <1>1, TopProperties DEF Top
<1>3. CASE /\ stack' = Pop
           /\ UNCHANGED exit
           /\ (Top.pid = 0 /\ SignalShellGroup(s)) \/ (Top.pid # 0 /\ SignalGroup(Top.pid, s))
  <2>1. Top.pid # 0 => Top.pid \in Pids
    BY <1>2 DEF Frame
  <2>2. /\ child' \in [Pids -> ChildState]
        /\ sigs' \in [Pids -> SUBSET TerminalSignals]
        /\ pending' \in SUBSET Signals
        /\ \A p \in Pids :
             /\ child'[p] = "unborn" => child[p] = "unborn"
             /\ child'[p] = "reaped" <=> child[p] = "reaped"
             /\ child[p] \in {"stopped"} \cup Zombie => child'[p] \in {"stopped"} \cup Zombie
    BY <1>3, <2>1, SignalShellGroupType, SignalGroupEffect DEF TypeOK
  <2>3. TypeOK'
    BY <1>1, <1>2, <1>3, <2>2 DEF TypeOK, JobTableType
  <2>4. NeverForwardedToBG'
    BY <1>1, <1>2, <1>3 DEF NeverForwardedToBG, SlotsOf
  <2>5. /\ \A k \in DOMAIN stack' : k \in DOMAIN stack /\ stack'[k] = stack[k]
        /\ \A k \in DOMAIN stack :
             stack[k].at = "act" => k \in DOMAIN stack' /\ stack'[k] = stack[k]
    BY <1>1, <1>2, <1>3
  <2> QED
    BY <1>1, <2>2, <2>3, <2>4, <2>5, HandlersMove
<1>4. CASE exit' = "_exit(1)" /\ UNCHANGED <<stack, pending, child, sigs>>
  <2>1. TypeOK' /\ UNCHANGED shell
    BY <1>1, <1>4 DEF TypeOK, JobTableType, shell
  <2> QED
    BY <1>4, <2>1, ChildrenMove
<1>5. \/ /\ stack' = Pop
         /\ UNCHANGED exit
         /\ (Top.pid = 0 /\ SignalShellGroup(s)) \/ (Top.pid # 0 /\ SignalGroup(Top.pid, s))
      \/ exit' = "_exit(1)" /\ UNCHANGED <<stack, pending, child, sigs>>
  BY DEF ForwardKill
<1> HIDE DEF IInv
<1> QED
  BY <1>3, <1>4, <1>5

\* waitpid reports a child, which the running frame then holds.
LEMMA ReportStep ==
  ASSUME IInv, stack # <<>>, Top.sig = "CHLD", Top.at = "wait",
         NEW p \in Pids,
         NEW how \in Zombie \cup {"stopped"},
         UNCHANGED <<jobs, nextjid, main, pending, sigs, exit, keys>>,
         \/ child[p] \in Zombie /\ how \in Zombie /\ child' = [child EXCEPT ![p] = "reaped"]
         \/ child[p] = "stopping" /\ how = "stopped" /\ child' = [child EXCEPT ![p] = "stopped"],
         stack' = SetTop([Top EXCEPT !.at = "act", !.pid = p, !.how = how])
  PROVE  IInv'
<1> USE DEF IInv
<1> DEFINE f == [Top EXCEPT !.at = "act", !.pid = p, !.how = how]
<1>1. f \in Frame /\ f.sig = "CHLD" /\ f.at = "act" /\ f.pid = p /\ f.how = how
  BY TopProperties DEF Frame
<1>2. stack' = SetTop(f)
  OBVIOUS
<1> HIDE DEF f
<1>3. /\ stack' \in Seq(Frame)
      /\ DOMAIN stack' = DOMAIN stack /\ Len(stack) \in DOMAIN stack
      /\ stack'[Len(stack)] = f
      /\ \A k \in DOMAIN stack : k # Len(stack) => stack'[k] = stack[k]
      /\ stack[Len(stack)].sig = "CHLD" /\ stack[Len(stack)].at = "wait"
  BY <1>1, <1>2, TopProperties DEF Top
<1>4. /\ \A q : Tracked(q) <=> Tracked(q)'
      /\ \A q : SlotsOf(q)' = SlotsOf(q)
      /\ \A s : SlotsIn(s)' = SlotsIn(s)
  BY DEF Tracked, SlotsOf, SlotsIn
<1>5. /\ child' \in [Pids -> ChildState]
      /\ \A q \in Pids : q # p => child'[q] = child[q]
      /\ \/ child'[p] = "reaped" /\ how \in Zombie /\ child[p] \in Zombie
         \/ child'[p] = "stopped" /\ how = "stopped" /\ child[p] = "stopping"
  BY DEF TypeOK, ChildState, Zombie
<1>6. TypeOK'
  BY <1>3, <1>5 DEF TypeOK, JobTableType
<1>7. UniquePids' /\ KillsItsJob' /\ FGIsWaitedFor'
  BY <1>4 DEF UniquePids, KillsItsJob, FGIsWaitedFor
<1>8. JobsAreBorn'
  BY <1>4, <1>5 DEF JobsAreBorn, Zombie
<1>9. AddJobIsMasked'
  BY <1>3 DEF AddJobIsMasked
<1>10. \A k \in DOMAIN stack : stack[k].at # "act"
  BY <1>3 DEF FramesAgree
<1>11. FramesAgree'
  BY <1>1, <1>3, <1>5, <1>10 DEF FramesAgree
<1>12. NoGhostJob'
  BY <1>1, <1>3, <1>4, <1>5, <1>10 DEF NoGhostJob
<1>13. StoppedJobIsStopped'
  BY <1>4, <1>5 DEF StoppedJobIsStopped, Zombie
<1>14. NeverForwardedToBG'
  BY <1>1, <1>3, <1>4 DEF NeverForwardedToBG
<1> QED
  BY <1>6, <1>7, <1>8, <1>9, <1>11, <1>12, <1>13, <1>14

LEMMA ChldWaitStep ==
  ASSUME IInv, ChldWait
  PROVE  IInv'
<1>1. /\ stack # <<>> /\ Top.sig = "CHLD" /\ Top.at = "wait"
      /\ UNCHANGED <<jobs, nextjid, main, pending, sigs, exit, keys>>
  BY DEF ChldWait, HandlerRuns
<1>2. ASSUME NEW p \in Pids, child[p] \in Zombie,
             child' = [child EXCEPT ![p] = "reaped"],
             stack' = SetTop([Top EXCEPT !.at = "act", !.pid = p, !.how = child[p]])
      PROVE  IInv'
  BY <1>1, <1>2, ReportStep
<1>3. ASSUME NEW p \in Pids, child[p] = "stopping",
             child' = [child EXCEPT ![p] = "stopped"],
             stack' = SetTop([Top EXCEPT !.at = "act", !.pid = p, !.how = "stopped"])
      PROVE  IInv'
  BY <1>1, <1>3, ReportStep
<1>4. ASSUME stack' = Pop, UNCHANGED child
      PROVE  IInv'
  <2> USE DEF IInv
  <2>1. /\ DOMAIN Pop = DOMAIN stack \ {Len(stack)} /\ Len(stack) \in DOMAIN stack
        /\ \A k \in DOMAIN Pop : Pop[k] = stack[k]
        /\ Pop \in Seq(Frame)
        /\ Top = stack[Len(stack)]
    BY <1>1, TopProperties DEF Top
  <2>2. TypeOK'
    BY <1>1, <1>4, <2>1 DEF TypeOK, JobTableType
  <2>3. NeverForwardedToBG'
    BY <1>1, <1>4, <2>1 DEF NeverForwardedToBG, SlotsOf
  <2>4. /\ \A k \in DOMAIN stack' : k \in DOMAIN stack /\ stack'[k] = stack[k]
        /\ \A k \in DOMAIN stack :
             stack[k].at = "act" => k \in DOMAIN stack' /\ stack'[k] = stack[k]
    BY <1>1, <1>4, <2>1
  <2>5. child' = child
    BY <1>4
  <2> QED
    BY <1>1, <2>2, <2>3, <2>4, <2>5, HandlersMove
<1> QED
  BY <1>2, <1>3, <1>4 DEF ChldWait

\* The SIGCHLD handler has acted on the child it was told of and loops.
LEMMA LoopProperties ==
  ASSUME IInv, stack # <<>>, Top.sig = "CHLD", Top.at = "act",
         stack' = SetTop(Entry("CHLD"))
  PROVE  /\ stack' \in Seq(Frame)
         /\ DOMAIN stack' = DOMAIN stack /\ Len(stack) \in DOMAIN stack
         /\ stack'[Len(stack)] = Entry("CHLD")
         /\ \A k \in DOMAIN stack : k # Len(stack) =>
              stack'[k] = stack[k] /\ stack[k].sig # "CHLD" /\ stack[k].at # "act"
         /\ stack[Len(stack)] = Top
         /\ Entry("CHLD").sig = "CHLD" /\ Entry("CHLD").at = "wait"
         /\ Top.pid \in Pids
         /\ \/ Top.how \in Zombie /\ child[Top.pid] = "reaped"
            \/ Top.how = "stopped" /\ child[Top.pid] \in {"stopped"} \cup Zombie
<1> USE DEF IInv
<1>1. Entry("CHLD") \in Frame /\ Entry("CHLD").sig = "CHLD" /\ Entry("CHLD").at = "wait"
  BY DEF Entry, Frame, Signals
<1>2. /\ stack' \in Seq(Frame)
      /\ DOMAIN stack' = DOMAIN stack /\ Len(stack) \in DOMAIN stack
      /\ stack'[Len(stack)] = Entry("CHLD")
      /\ \A k \in DOMAIN stack : k # Len(stack) => stack'[k] = stack[k]
      /\ stack[Len(stack)] = Top
  BY <1>1, TopProperties DEF Top
<1>3. \A k \in DOMAIN stack : k # Len(stack) => stack[k].sig # "CHLD" /\ stack[k].at # "act"
  BY <1>2 DEF FramesAgree
<1>4. /\ Top.pid \in Pids
      /\ \/ Top.how \in Zombie /\ child[Top.pid] = "reaped"
         \/ Top.how = "stopped" /\ child[Top.pid] \in {"stopped"} \cup Zombie
  BY <1>2 DEF FramesAgree
<1> QED
  BY <1>1, <1>2, <1>3, <1>4

\* deletejob_sync leaves no job of the child, and every other job as it is.
LEMMA ChldDeleteStep ==
  ASSUME IInv, ChldDelete
  PROVE  IInv'
<1> USE DEF IInv
<1> DEFINE p == Top.pid
<1>1. /\ stack # <<>> /\ Top.sig = "CHLD" /\ Top.at = "act" /\ Top.how \in Zombie
      /\ stack' = SetTop(Entry("CHLD"))
      /\ UNCHANGED <<main, pending, child, sigs, exit, keys>>
      /\ deletejob(p)
  BY DEF ChldDelete, HandlerRuns
<1>2. /\ stack' \in Seq(Frame)
      /\ DOMAIN stack' = DOMAIN stack /\ Len(stack) \in DOMAIN stack
      /\ stack'[Len(stack)] = Entry("CHLD")
      /\ \A k \in DOMAIN stack : k # Len(stack) =>
           stack'[k] = stack[k] /\ stack[k].sig # "CHLD" /\ stack[k].at # "act"
      /\ stack[Len(stack)] = Top
      /\ Entry("CHLD").sig = "CHLD" /\ Entry("CHLD").at = "wait"
      /\ p \in Pids /\ stack[Len(stack)].pid = p
      /\ child[p] = "reaped"
  BY <1>1, LoopProperties DEF Zombie
<1> HIDE DEF p
<1>3. JobTableType
  BY DEF TypeOK
<1> DEFINE Cleared ==
             /\ \A q \in Pids : SlotsOf(q)' = IF q = p THEN {} ELSE SlotsOf(q)
             /\ \A x \in {"FG", "BG", "ST"} : SlotsIn(x)' \subseteq SlotsIn(x)
             /\ \A q \in Pids, i \in Slots : i \in SlotsOf(q)' => jobs'[i] = jobs[i]
             /\ \A x \in {"FG", "BG", "ST"}, i \in Slots :
                  i \in SlotsIn(x)' => jobs'[i] = jobs[i]
             /\ UniquePids'
<1>4. JobTableType' /\ Cleared
  <2>1. CASE ~ Tracked(p) /\ jobs' = jobs
    <3>1. SlotsOf(p) = {}
      BY <2>1 DEF Tracked
    <3> QED
      BY <1>1, <1>2, <1>3, <2>1, <3>1, DeletejobEffect DEF SlotsOf, SlotsIn, UniquePids
  <2>2. ASSUME NEW i \in SlotsOf(p), jobs' = [jobs EXCEPT ![i] = clearjob]
        PROVE  Cleared
    <3>1. /\ i \in Slots /\ jobs[i].pid = p
          /\ jobs'[i] = clearjob
          /\ \A j \in Slots : j # i => jobs'[j] = jobs[j] /\ jobs[j].pid # p
      BY <1>2, <1>3, <2>2, PidsAssumption DEF SlotsOf, JobTableType, UniquePids
    <3>2. clearjob.pid = 0 /\ clearjob.state = "UNDEF"
      BY DEF clearjob
    <3>3. UniquePids'
      BY <3>1, <3>2 DEF UniquePids
    <3> QED
      BY <3>1, <3>2, <3>3, PidsAssumption DEF SlotsOf, SlotsIn
  <2> HIDE DEF Cleared
  <2> QED
    BY <1>1, <1>2, <1>3, <2>1, <2>2, DeletejobEffect
<1>5. /\ \A q \in Pids : Tracked(q)' <=> q # p /\ Tracked(q)
      /\ \A i \in SlotsIn("FG")' : i \in SlotsIn("FG") /\ jobs'[i] = jobs[i]
      /\ \A i \in SlotsIn("ST")' : i \in SlotsIn("ST") /\ jobs'[i] = jobs[i]
      /\ \A q \in Pids : \A i \in SlotsOf(q)' : i \in SlotsOf(q) /\ jobs'[i] = jobs[i]
  <2>1. \A x : SlotsIn(x)' \subseteq Slots /\ SlotsOf(x)' \subseteq Slots
    BY DEF SlotsIn, SlotsOf
  <2>2. \A q \in Pids : Tracked(q)' <=> q # p /\ Tracked(q)
    BY <1>4 DEF Tracked
  <2> QED
    BY <1>4, <2>1, <2>2
<1>6. TypeOK'
  BY <1>1, <1>2, <1>4 DEF TypeOK
<1>7. JobsAreBorn'
  BY <1>1, <1>5 DEF JobsAreBorn
<1>8. AddJobIsMasked'
  BY <1>1, <1>2, <1>5 DEF AddJobIsMasked
<1>9. FGIsWaitedFor'
  BY <1>1, <1>5 DEF FGIsWaitedFor
<1>10. KillsItsJob'
  BY <1>1, <1>4 DEF KillsItsJob, TypeOK, MainType
<1>11. FramesAgree'
  BY <1>1, <1>2 DEF FramesAgree
<1>12. NoGhostJob'
  BY <1>1, <1>2, <1>5 DEF NoGhostJob
<1>13. StoppedJobIsStopped'
  BY <1>1, <1>5 DEF StoppedJobIsStopped
<1>14. NeverForwardedToBG'
  <2>1. ASSUME NEW k \in DOMAIN stack', stack'[k].at = "kill", stack'[k].pid # 0
        PROVE  (\A i \in SlotsOf(stack[k].pid) : jobs[i].state \in {"FG", "ST"})'
    <3>1. k # Len(stack) /\ k \in DOMAIN stack /\ stack'[k] = stack[k]
      BY <1>2, <2>1
    <3>2. PICK q \in Pids : q = stack[k].pid
      BY <1>1, <2>1, <3>1, TopProperties DEF Frame
    <3>3. \A i \in SlotsOf(q) : jobs[i].state \in {"FG", "ST"}
      BY <2>1, <3>1, <3>2 DEF NeverForwardedToBG
    <3>4. \A i \in SlotsOf(q)' : jobs'[i].state \in {"FG", "ST"}
      BY <1>5, <3>3
    <3> QED
      BY <3>1, <3>2, <3>4 DEF SlotsOf
  <2> QED
    BY <2>1 DEF NeverForwardedToBG
<1> QED
  BY <1>4, <1>6, <1>7, <1>8, <1>9, <1>10, <1>11, <1>12, <1>13, <1>14

\* setjobstop_sync marks the job of a child that has stopped and has not
\* been continued since; without such a job the shell ends.
LEMMA ChldStopStep ==
  ASSUME IInv, ChldStop
  PROVE  IInv'
<1> USE DEF IInv
<1> DEFINE p == Top.pid
<1>1. /\ stack # <<>> /\ Top.sig = "CHLD" /\ Top.at = "act" /\ Top.how = "stopped"
      /\ UNCHANGED <<main, pending, child, sigs, keys>>
  BY DEF ChldStop, HandlerRuns
<1>2. CASE /\ Tracked(p) /\ setstate(getjobpid(p), "ST")
           /\ stack' = SetTop(Entry("CHLD")) /\ UNCHANGED exit
  <2> DEFINE i == getjobpid(p)
  <2>1. /\ stack' \in Seq(Frame)
        /\ DOMAIN stack' = DOMAIN stack /\ Len(stack) \in DOMAIN stack
        /\ stack'[Len(stack)] = Entry("CHLD")
        /\ \A k \in DOMAIN stack : k # Len(stack) =>
             stack'[k] = stack[k] /\ stack[k].sig # "CHLD" /\ stack[k].at # "act"
        /\ stack[Len(stack)] = Top
        /\ Entry("CHLD").sig = "CHLD" /\ Entry("CHLD").at = "wait"
        /\ p \in Pids
        /\ child[p] \in {"stopped"} \cup Zombie
    BY <1>1, <1>2, LoopProperties DEF Zombie
  <2>2. i \in Slots /\ jobs[i].pid = p
    BY <1>2, LookupsFind DEF SlotsOf
  <2>3. /\ JobTableType'
        /\ \A j \in Slots : /\ jobs'[j].pid = jobs[j].pid
                            /\ jobs'[j].state = IF j = i THEN "ST" ELSE jobs[j].state
    BY <1>2, <2>2, SetstateEffect DEF TypeOK, JobState
  <2> HIDE DEF i, p
  <2>4. /\ \A q : SlotsOf(q)' = SlotsOf(q)
        /\ \A q : Tracked(q)' <=> Tracked(q)
        /\ SlotsIn("FG")' \subseteq SlotsIn("FG")
        /\ SlotsIn("ST")' = SlotsIn("ST") \cup {i}
        /\ SlotsIn("FG") \subseteq Slots /\ SlotsIn("ST") \subseteq Slots
    BY <2>2, <2>3 DEF SlotsOf, SlotsIn, Tracked
  <2>5. TypeOK'
    BY <1>1, <1>2, <2>1, <2>3 DEF TypeOK
  <2>6. UniquePids'
    BY <2>3 DEF UniquePids
  <2>7. JobsAreBorn'
    BY <1>1, <2>4 DEF JobsAreBorn
  <2>8. AddJobIsMasked'
    BY <1>1, <2>1, <2>4 DEF AddJobIsMasked
  <2>9. FGIsWaitedFor'
    BY <1>1, <2>3, <2>4 DEF FGIsWaitedFor
  <2>10. KillsItsJob'
    BY <1>1, <2>4 DEF KillsItsJob
  <2>11. FramesAgree'
    BY <1>1, <2>1 DEF FramesAgree
  <2>12. NoGhostJob'
    BY <1>1, <2>1, <2>4 DEF NoGhostJob, Zombie
  <2>13. StoppedJobIsStopped'
    BY <1>1, <2>1, <2>2, <2>3, <2>4 DEF StoppedJobIsStopped
  <2>14. NeverForwardedToBG'
    <3>1. ASSUME NEW k \in DOMAIN stack', stack'[k].at = "kill", stack'[k].pid # 0
          PROVE  (\A j \in SlotsOf(stack[k].pid) : jobs[j].state \in {"FG", "ST"})'
      <4>1. k # Len(stack) /\ k \in DOMAIN stack /\ stack'[k] = stack[k]
        BY <2>1, <3>1
      <4>2. \A j \in SlotsOf(stack[k].pid) : jobs[j].state \in {"FG", "ST"}
        BY <3>1, <4>1 DEF NeverForwardedToBG
      <4> QED
        BY <2>3, <4>1, <4>2 DEF SlotsOf
    <3> QED
      BY <3>1 DEF NeverForwardedToBG
  <2> QED
    BY <2>5, <2>6, <2>7, <2>8, <2>9, <2>10, <2>11, <2>12, <2>13, <2>14
<1>3. CASE exit' = "SIGSEGV" /\ UNCHANGED <<jobs, nextjid, stack>>
  <2>1. TypeOK' /\ UNCHANGED shell
    BY <1>1, <1>3 DEF TypeOK, JobTableType, shell
  <2>2. child' = child
    BY <1>1
  <2> QED
    BY <2>1, <2>2, ChildrenMove
<1>4. \/ /\ Tracked(p) /\ setstate(getjobpid(p), "ST")
         /\ stack' = SetTop(Entry("CHLD")) /\ UNCHANGED exit
      \/ exit' = "SIGSEGV" /\ UNCHANGED <<jobs, nextjid, stack>>
  BY DEF ChldStop
<1> HIDE DEF IInv
<1> QED
  BY <1>2, <1>3, <1>4

(***************************************************************************)
(* The steps of main, taken only when no handler is active.                *)
(***************************************************************************)

\* Steps that only move main to another point.
LEMMA MainMoves ==
  ASSUME IInv, stack = <<>>, main' \in MainType, main'.pc \notin {"addjob", "bgkill"},
         main.pc # "bgset",
         UNCHANGED <<jobs, nextjid, stack, pending, child, sigs, exit, keys>>,
         FGIsWaitedFor'
  PROVE  IInv'
<1> USE DEF IInv
<1>1. /\ \A p : Tracked(p) <=> Tracked(p)'
      /\ \A p : SlotsOf(p)' = SlotsOf(p)
      /\ \A s : SlotsIn(s)' = SlotsIn(s)
  BY DEF Tracked, SlotsOf, SlotsIn
<1>2. TypeOK'
  BY DEF TypeOK, JobTableType
<1>3. UniquePids' /\ JobsAreBorn' /\ FramesAgree' /\ NoGhostJob' /\ NeverForwardedToBG'
  BY <1>1 DEF UniquePids, JobsAreBorn, FramesAgree, NoGhostJob, NeverForwardedToBG
<1>4. AddJobIsMasked' /\ KillsItsJob'
  BY DEF AddJobIsMasked, KillsItsJob
<1>5. StoppedJobIsStopped'
  BY <1>1 DEF StoppedJobIsStopped
<1> QED
  BY <1>2, <1>3, <1>4, <1>5

\* Nothing is in the foreground unless main waits or is about to.
LEMMA NoFGElsewhere ==
  ASSUME IInv, main.pc \notin {"wait", "bgdone"}
  PROVE  SlotsIn("FG") = {}
BY DEF IInv, FGIsWaitedFor

\* waitfg returns only when there is no foreground job at all.
LEMMA WaitFgStep ==
  ASSUME IInv, WaitFg
  PROVE  IInv' /\ SlotsIn("FG") = {}
<1>1. /\ stack = <<>> /\ main.pc = "wait" /\ fgpid # main.pid /\ main' = AtPrompt
      /\ UNCHANGED <<jobs, nextjid, stack, pending, child, sigs, exit, keys>>
  BY DEF WaitFg, MainRuns
<1>2. SlotsIn("FG") = {}
  <2>1. SUFFICES ASSUME SlotsIn("FG") # {} PROVE FALSE
    OBVIOUS
  <2>2. PICK i \in SlotsIn("FG") : fgpid = jobs[i].pid
    BY <2>1, LookupsFind
  <2> QED
    BY <1>1, <2>2 DEF IInv, FGIsWaitedFor
<1>3. AtPrompt \in MainType /\ AtPrompt.pc = "read"
  BY MAXJOBSAssumption DEF AtPrompt, MainType, MainPoint, ReadPoint, Slots
<1>4. FGIsWaitedFor'
  BY <1>1, <1>2 DEF FGIsWaitedFor, SlotsIn
<1> QED
  BY <1>1, <1>2, <1>3, <1>4, MainMoves

LEMMA DoBgfgStep ==
  ASSUME IInv, NEW bg \in BOOLEAN, DoBgfg(bg)
  PROVE  IInv'
<1>1. /\ stack = <<>> /\ main.pc = "read"
      /\ UNCHANGED <<jobs, nextjid, stack, pending, child, sigs, exit, keys>>
  BY DEF DoBgfg, MainRuns
<1>2. \E i \in Slots : main' = [pc |-> "bgread", pid |-> 0, slot |-> i, bg |-> bg]
  <2>1. ASSUME NEW p \in Pids, Tracked(p)
        PROVE  getjobpid(p) \in Slots
    BY <2>1, LookupsFind DEF SlotsOf
  <2>2. ASSUME NEW i \in Slots
        PROVE  getjobjid(jobs[i].jid) \in Slots
    <3> DEFINE S == {j \in Slots : jobs[j].jid = jobs[i].jid}
    <3>1. S \subseteq Slots /\ S # {}
      BY <2>2
    <3> HIDE DEF S
    <3>2. First(S) \in S
      BY <3>1, FirstIsMember
    <3> QED
      BY <3>1, <3>2 DEF getjobjid, S
  <2> QED
    BY <2>1, <2>2 DEF DoBgfg
<1>3. main' \in MainType /\ main'.pc = "bgread"
  BY <1>2 DEF MainType, MainPoint
<1>4. FGIsWaitedFor'
  BY <1>1, NoFGElsewhere DEF FGIsWaitedFor, SlotsIn
<1> QED
  BY <1>1, <1>3, <1>4, MainMoves

LEMMA BgReadStep ==
  ASSUME IInv, BgRead
  PROVE  IInv'
<1> USE DEF IInv
<1>1. /\ stack = <<>> /\ main.pc = "bgread"
      /\ main' = [main EXCEPT !.pc = "bgkill", !.pid = jobs[main.slot].pid]
      /\ UNCHANGED <<jobs, nextjid, stack, pending, child, sigs, exit, keys>>
  BY DEF BgRead, MainRuns
<1>2. /\ main' \in MainType /\ main'.pc = "bgkill" /\ main'.slot = main.slot
      /\ main'.pid = jobs[main.slot].pid /\ main.slot \in Slots
  BY <1>1 DEF TypeOK, MainType, MainPoint, JobTableType, Job
<1>3. /\ \A p : Tracked(p) <=> Tracked(p)'
      /\ \A p : SlotsOf(p)' = SlotsOf(p)
      /\ \A s : SlotsIn(s)' = SlotsIn(s)
  BY <1>1 DEF Tracked, SlotsOf, SlotsIn
<1>4. TypeOK'
  BY <1>1, <1>2 DEF TypeOK, JobTableType
<1>5. UniquePids' /\ JobsAreBorn' /\ FramesAgree' /\ NoGhostJob' /\ NeverForwardedToBG'
  BY <1>1, <1>3 DEF UniquePids, JobsAreBorn, FramesAgree, NoGhostJob, NeverForwardedToBG
<1>6. AddJobIsMasked'
  BY <1>2 DEF AddJobIsMasked
<1>7. KillsItsJob'
  BY <1>1, <1>2 DEF KillsItsJob, SlotsOf, UniquePids
<1>8. FGIsWaitedFor' /\ StoppedJobIsStopped'
  BY <1>1, <1>3, NoFGElsewhere DEF FGIsWaitedFor, StoppedJobIsStopped
<1> QED
  BY <1>4, <1>5, <1>6, <1>7, <1>8

\* SIGCONT changes the child of the job that is looked at and no other.
LEMMA ContinueEffect ==
  ASSUME TypeOK, NEW q \in Pids, Continue(q)
  PROVE  /\ child' \in [Pids -> ChildState]
         /\ sigs' \in [Pids -> SUBSET TerminalSignals]
         /\ pending' \in SUBSET Signals
         /\ \A p \in Pids : /\ p # q => child'[p] = child[p]
                            /\ child'[p] = "unborn" => child[p] = "unborn"
                            /\ child'[p] = "reaped" <=> child[p] = "reaped"
BY DEF Continue, TypeOK, ChildState, Zombie, RaiseCHLD, Signals

LEMMA BgKillStep ==
  ASSUME IInv, BgKill
  PROVE  IInv'
<1> USE DEF IInv
<1>1. /\ stack = <<>> /\ main.pc = "bgkill"
      /\ UNCHANGED <<jobs, nextjid, stack, keys>>
  BY DEF BgKill, MainRuns
<1>2. /\ \A p : Tracked(p) <=> Tracked(p)'
      /\ \A p : SlotsOf(p)' = SlotsOf(p)
      /\ \A s : SlotsIn(s)' = SlotsIn(s)
  BY <1>1 DEF Tracked, SlotsOf, SlotsIn
<1>3. CASE /\ main' = [main EXCEPT !.pc = "bgset"] /\ UNCHANGED exit
           /\ \/ main.pid # 0 /\ Continue(main.pid)
              \/ main.pid = 0 /\ UNCHANGED <<pending, child, sigs>>
  <2>1. main' \in MainType /\ main'.pc = "bgset" /\ main'.slot = main.slot
        /\ main.pid \in Pids \cup {0}
    BY <1>3 DEF TypeOK, MainType, MainPoint
  <2>2. /\ child' \in [Pids -> ChildState]
        /\ sigs' \in [Pids -> SUBSET TerminalSignals]
        /\ pending' \in SUBSET Signals
        /\ \A p \in Pids : /\ p # main.pid => child'[p] = child[p]
                           /\ child'[p] = "unborn" => child[p] = "unborn"
                           /\ child'[p] = "reaped" <=> child[p] = "reaped"
    BY <1>3, <2>1, ContinueEffect DEF TypeOK
  <2>3. TypeOK'
    BY <1>1, <1>3, <2>1, <2>2 DEF TypeOK, JobTableType
  <2>4. UniquePids' /\ FramesAgree' /\ NeverForwardedToBG'
    BY <1>1 DEF UniquePids, FramesAgree, NeverForwardedToBG
  <2>5. JobsAreBorn' /\ NoGhostJob'
    BY <1>1, <1>2, <2>2 DEF JobsAreBorn, NoGhostJob
  <2>6. AddJobIsMasked' /\ KillsItsJob'
    BY <2>1 DEF AddJobIsMasked, KillsItsJob
  <2>7. FGIsWaitedFor'
    BY <1>1, <1>2, NoFGElsewhere DEF FGIsWaitedFor
  <2>8. StoppedJobIsStopped'
    <3>1. ASSUME NEW i \in SlotsIn("ST")
          PROVE  /\ jobs[i].pid \in Pids
                 /\ \/ child'[jobs[i].pid] \in {"stopped", "reaped"} \cup Zombie
                    \/ main.slot = i
      <4>1. /\ jobs[i].pid \in Pids /\ i \in Slots
            /\ child[jobs[i].pid] \in {"stopped", "reaped"} \cup Zombie
        BY <1>1 DEF StoppedJobIsStopped, SlotsIn
      <4>2. CASE jobs[i].pid = main.pid
        BY <1>1, <4>1, <4>2, PidsAssumption DEF KillsItsJob, SlotsOf
      <4>3. CASE jobs[i].pid # main.pid
        BY <2>2, <4>1, <4>3
      <4> QED
        BY <4>1, <4>2, <4>3
    <3> QED
      BY <1>1, <1>2, <2>1, <3>1 DEF StoppedJobIsStopped
  <2> QED
    BY <2>3, <2>4, <2>5, <2>6, <2>7, <2>8
<1>4. CASE exit' = "unix_error" /\ UNCHANGED <<main, pending, child, sigs>>
  <2>1. TypeOK' /\ UNCHANGED shell
    BY <1>1, <1>4 DEF TypeOK, JobTableType, shell
  <2> QED
    BY <1>4, <2>1, ChildrenMove
<1>5. \/ /\ main' = [main EXCEPT !.pc = "bgset"] /\ UNCHANGED exit
         /\ \/ main.pid # 0 /\ Continue(main.pid)
            \/ main.pid = 0 /\ UNCHANGED <<pending, child, sigs>>
      \/ exit' = "unix_error" /\ UNCHANGED <<main, pending, child, sigs>>
  BY DEF BgKill
<1> HIDE DEF IInv
<1> QED
  BY <1>3, <1>4, <1>5

\* do_bgfg marks its slot, which may have become free in the meantime.
LEMMA BgSetStep ==
  ASSUME IInv, BgSet
  PROVE  IInv'
<1> USE DEF IInv
<1> DEFINE s == StartState(main.bg)
<1>1. /\ stack = <<>> /\ main.pc = "bgset"
      /\ setstate(main.slot, s)
      /\ main' = [main EXCEPT !.pc = "bgdone"]
      /\ UNCHANGED <<stack, pending, child, sigs, exit, keys>>
  BY DEF BgSet, MainRuns
<1>2. /\ main' \in MainType /\ main'.pc = "bgdone" /\ main'.slot = main.slot
      /\ main'.bg = main.bg /\ main.slot \in Slots
  BY <1>1 DEF TypeOK, MainType, MainPoint
<1>3. s = IF main.bg THEN "BG" ELSE "FG"
  BY DEF StartState
<1> HIDE DEF s
<1>4. /\ JobTableType'
      /\ \A j \in Slots : /\ jobs'[j].pid = jobs[j].pid
                          /\ jobs'[j].state = IF j = main.slot THEN s ELSE jobs[j].state
  BY <1>1, <1>2, <1>3, SetstateEffect DEF TypeOK, JobState
<1>5. /\ \A q : SlotsOf(q)' = SlotsOf(q)
      /\ \A q : Tracked(q)' <=> Tracked(q)
      /\ main.bg => SlotsIn("FG")' \subseteq SlotsIn("FG")
      /\ SlotsIn("FG")' \subseteq SlotsIn("FG") \cup {main.slot}
      /\ SlotsIn("ST")' = SlotsIn("ST") \ {main.slot}
      /\ SlotsIn("ST") \subseteq Slots
  BY <1>2, <1>3, <1>4 DEF SlotsOf, SlotsIn, Tracked
<1>6. TypeOK'
  BY <1>1, <1>2, <1>4 DEF TypeOK
<1>7. UniquePids'
  BY <1>4 DEF UniquePids
<1>8. JobsAreBorn' /\ NoGhostJob'
  BY <1>1, <1>5 DEF JobsAreBorn, NoGhostJob
<1>9. AddJobIsMasked' /\ KillsItsJob'
  BY <1>2 DEF AddJobIsMasked, KillsItsJob
<1>10. FGIsWaitedFor'
  BY <1>1, <1>2, <1>5, NoFGElsewhere DEF FGIsWaitedFor
<1>11. FramesAgree' /\ NeverForwardedToBG'
  BY <1>1 DEF FramesAgree, NeverForwardedToBG
<1>12. StoppedJobIsStopped'
  BY <1>1, <1>4, <1>5 DEF StoppedJobIsStopped
<1> QED
  BY <1>6, <1>7, <1>8, <1>9, <1>10, <1>11, <1>12

\* bg returns, or fg waits for the job that it has just marked.
LEMMA BgDoneStep ==
  ASSUME IInv, BgDone
  PROVE  IInv'
<1> USE DEF IInv
<1>1. /\ stack = <<>> /\ main.pc = "bgdone"
      /\ main' = IF main.bg
                 THEN AtPrompt
                 ELSE [main EXCEPT !.pc = "wait", !.pid = jobs[main.slot].pid]
      /\ UNCHANGED <<jobs, nextjid, stack, pending, child, sigs, exit, keys>>
  BY DEF BgDone, MainRuns
<1>2. SlotsIn("FG")' = SlotsIn("FG")
  BY <1>1 DEF SlotsIn
<1>3. CASE main.bg
  <2>1. AtPrompt \in MainType /\ AtPrompt.pc = "read"
    BY MAXJOBSAssumption DEF AtPrompt, MainType, MainPoint, ReadPoint, Slots
  <2>2. SlotsIn("FG") = {}
    BY <1>1, <1>3 DEF FGIsWaitedFor
  <2>3. FGIsWaitedFor'
    BY <1>2, <2>2 DEF FGIsWaitedFor
  <2> QED
    BY <1>1, <1>3, <2>1, <2>3, MainMoves
<1>4. CASE ~ main.bg
  <2>1. /\ main' \in MainType /\ main'.pc = "wait" /\ main'.slot = main.slot
        /\ main'.pid = jobs[main.slot].pid
    BY <1>1, <1>4 DEF TypeOK, MainType, MainPoint, JobTableType, Job
  <2>2. FGIsWaitedFor'
    BY <1>1, <1>2, <2>1 DEF FGIsWaitedFor
  <2> QED
    BY <1>1, <2>1, <2>2, MainMoves
<1> QED
  BY <1>3, <1>4

\* The jobs command only reads.
LEMMA ListJobsStep ==
  ASSUME IInv, ListJobs
  PROVE  IInv'
<1>1. /\ stack = <<>> /\ main.pc \in {"read", "list", "listed"}
      /\ UNCHANGED <<jobs, nextjid, stack, pending, child, sigs, exit, keys>>
  BY DEF ListJobs, MainRuns
<1>2. ASSUME NEW i \in 0 .. MAXJOBS
      PROVE  ListFrom(i) \in MainType /\ ListFrom(i).pc \in {"read", "list"}
  <2>1. MAXJOBS \in Nat \ {0} /\ 0 \in Slots /\ (i # MAXJOBS => i \in Slots)
    BY MAXJOBSAssumption DEF Slots
  <2> QED
    BY <2>1 DEF ListFrom, AtPrompt, MainType, MainPoint, ReadPoint
<1>3. main.slot \in Slots
  BY DEF IInv, TypeOK, MainType
<1>4. 0 \in 0 .. MAXJOBS /\ main.slot + 1 \in 0 .. MAXJOBS
  BY <1>3, MAXJOBSAssumption DEF Slots
<1>5. main' \in MainType /\ main'.pc \in {"read", "list", "listed"}
  <2>1. CASE main' = ListFrom(0) \/ main' = ListFrom(main.slot + 1)
    BY <1>2, <1>4, <2>1
  <2>2. CASE main' = [main EXCEPT !.pc = "listed"]
    BY <2>2 DEF IInv, TypeOK, MainType, MainPoint
  <2> QED
    BY <2>1, <2>2 DEF ListJobs
<1>6. FGIsWaitedFor'
  BY <1>1, NoFGElsewhere DEF FGIsWaitedFor, SlotsIn
<1> QED
  BY <1>1, <1>5, <1>6, MainMoves

\* A new child is not in the job list, and no SIGCHLD handler is active.
LEMMA ForkStep ==
  ASSUME IInv, NEW p \in Pids, NEW bg \in BOOLEAN, Fork(p, bg)
  PROVE  IInv'
<1> USE DEF IInv
<1>1. /\ stack = <<>> /\ main.pc = "read" /\ child[p] = "unborn"
      /\ child' = [child EXCEPT ![p] = "forked"]
      /\ main' = [AtPrompt EXCEPT !.pc = "addjob", !.pid = p, !.bg = bg]
      /\ UNCHANGED <<jobs, nextjid, stack, pending, sigs, exit, keys>>
  BY DEF Fork, MainRuns
<1>2. main' \in MainType /\ main'.pc = "addjob" /\ main'.pid = p
  <2>1. 0 \in Slots
    BY MAXJOBSAssumption DEF Slots
  <2>2. main' = [pc |-> "addjob", pid |-> p, slot |-> 0, bg |-> bg]
    BY <1>1 DEF AtPrompt
  <2> QED
    BY <2>1, <2>2 DEF MainType, MainPoint
<1>3. /\ \A q : Tracked(q) <=> Tracked(q)'
      /\ \A q : SlotsOf(q)' = SlotsOf(q)
      /\ \A s : SlotsIn(s)' = SlotsIn(s)
  BY <1>1 DEF Tracked, SlotsOf, SlotsIn
<1>4. /\ child' \in [Pids -> ChildState] /\ child'[p] = "forked"
      /\ \A q \in Pids : q # p => child'[q] = child[q]
  BY <1>1 DEF TypeOK, ChildState, PreExec
<1>5. TypeOK'
  BY <1>1, <1>2, <1>4 DEF TypeOK, JobTableType
<1>6. UniquePids' /\ FramesAgree' /\ NeverForwardedToBG'
  BY <1>1 DEF UniquePids, FramesAgree, NeverForwardedToBG
<1>7. JobsAreBorn' /\ NoGhostJob'
  BY <1>1, <1>3, <1>4 DEF JobsAreBorn, NoGhostJob
<1>8. AddJobIsMasked'
  BY <1>1, <1>2, <1>3, <1>4 DEF AddJobIsMasked, JobsAreBorn
<1>9. FGIsWaitedFor' /\ KillsItsJob'
  BY <1>1, <1>2, <1>3, NoFGElsewhere DEF FGIsWaitedFor, KillsItsJob
<1>10. StoppedJobIsStopped'
  BY <1>1, <1>2, <1>3, <1>4 DEF StoppedJobIsStopped, Zombie
<1> QED
  BY <1>5, <1>6, <1>7, <1>8, <1>9, <1>10

\* The child of a new job cannot have been waited for before addjob.
LEMMA AddJobStep ==
  ASSUME IInv, AddJob
  PROVE  IInv'
<1> USE DEF IInv
<1> DEFINE p == main.pid
           s == StartState(main.bg)
<1>1. /\ stack = <<>> /\ main.pc = "addjob"
      /\ addjob(p, s)
      /\ main' = IF main.bg THEN AtPrompt ELSE [main EXCEPT !.pc = "wait"]
      /\ UNCHANGED <<stack, pending, child, sigs, exit, keys>>
  BY DEF AddJob, MainRuns
<1>2. p \in Pids /\ p # 0 /\ ~ Tracked(p) /\ child[p] \notin {"unborn", "reaped"}
  BY <1>1, PidsAssumption DEF AddJobIsMasked
<1>3. s = (IF main.bg THEN "BG" ELSE "FG") /\ s \in JobState
  BY DEF StartState, JobState
<1>4. /\ main' \in MainType
      /\ main.bg => main'.pc = "read"
      /\ ~ main.bg => main'.pc = "wait" /\ main'.pid = p
  BY <1>1, MAXJOBSAssumption
  DEF AtPrompt, MainType, MainPoint, ReadPoint, Slots, TypeOK
<1>5. SlotsIn("FG") = {}
  BY <1>1, NoFGElsewhere
<1> DEFINE job == [pid |-> p, jid |-> nextjid, state |-> s]
<1>6. job.pid = p /\ job.state = s
  OBVIOUS
<1>7. /\ JobTableType'
      /\ \/ jobs' = jobs
         \/ \E i \in SlotsOf(0) : jobs' = [jobs EXCEPT ![i] = job]
  BY <1>1, <1>2, <1>3, AddjobEffect DEF TypeOK
<1> HIDE DEF p, s, job
<1>8. TypeOK'
  BY <1>1, <1>4, <1>7 DEF TypeOK
<1>9. FramesAgree' /\ NeverForwardedToBG'
  BY <1>1 DEF FramesAgree, NeverForwardedToBG
<1>10. AddJobIsMasked' /\ KillsItsJob'
  BY <1>4 DEF AddJobIsMasked, KillsItsJob
<1> DEFINE Rest == /\ UniquePids' /\ JobsAreBorn' /\ NoGhostJob'
                   /\ FGIsWaitedFor' /\ StoppedJobIsStopped'
<1>11. ASSUME jobs' = jobs
       PROVE  Rest
  BY <1>1, <1>5, <1>11
  DEF UniquePids, JobsAreBorn, NoGhostJob, FGIsWaitedFor, StoppedJobIsStopped,
      Tracked, SlotsOf, SlotsIn
<1>12. ASSUME NEW i \in SlotsOf(0), jobs' = [jobs EXCEPT ![i] = job]
       PROVE  Rest
  <2>1. /\ i \in Slots /\ jobs[i].pid = 0 /\ jobs'[i] = job
        /\ \A j \in Slots : j # i => jobs'[j] = jobs[j] /\ jobs[j].pid # p
    BY <1>2, <1>12 DEF SlotsOf, Tracked, TypeOK, JobTableType
  <2>2. /\ \A q \in Pids : Tracked(q)' => q = p \/ Tracked(q)
        /\ SlotsIn("FG")' \subseteq SlotsIn("FG") \cup {i}
        /\ main.bg => SlotsIn("FG")' \subseteq SlotsIn("FG")
        /\ SlotsIn("ST")' \subseteq SlotsIn("ST") \ {i}
        /\ SlotsIn("ST") \subseteq Slots
    BY <1>2, <1>3, <1>6, <2>1, PidsAssumption DEF Tracked, SlotsOf, SlotsIn
  <2>3. UniquePids'
    BY <1>2, <1>6, <2>1 DEF UniquePids
  <2>4. JobsAreBorn' /\ NoGhostJob'
    BY <1>1, <1>2, <2>2 DEF JobsAreBorn, NoGhostJob
  <2>5. FGIsWaitedFor'
    BY <1>2, <1>4, <1>5, <1>6, <2>1, <2>2 DEF FGIsWaitedFor
  <2>6. StoppedJobIsStopped'
    BY <1>1, <2>1, <2>2 DEF StoppedJobIsStopped
  <2> QED
    BY <2>3, <2>4, <2>5, <2>6
<1>13. Rest
  <2> HIDE DEF Rest
  <2> QED
    BY <1>7, <1>11, <1>12
<1> QED
  BY <1>8, <1>9, <1>10, <1>13

LEMMA NextIInv == IInv /\ [Next]_vars => IInv'
<1> SUFFICES ASSUME IInv, [Next]_vars PROVE IInv'
  OBVIOUS
<1>1. CASE Main
  <2>1. CASE Quit \/ ForkFails
    BY <2>1, OutsideStep
  <2>2. ASSUME NEW bg \in BOOLEAN, DoBgfg(bg) PROVE IInv'
    BY <2>2, DoBgfgStep
  <2>3. ASSUME NEW p \in Pids, NEW bg \in BOOLEAN, Fork(p, bg) PROVE IInv'
    BY <2>3, ForkStep
  <2> QED
    BY <1>1, <2>1, <2>2, <2>3, AddJobStep, WaitFgStep, BgReadStep, BgKillStep, BgSetStep,
       BgDoneStep, ListJobsStep DEF Main
<1>2. CASE Handlers
  BY <1>2, ChldWaitStep, ChldDeleteStep, ChldStopStep, ForwardLookStep, ForwardKillStep
  DEF Handlers
<1>3. CASE sigquit_handler \/ \E s \in TerminalSignals : Key(s)
  BY <1>3, OutsideStep
<1>4. CASE \E s \in Signals : Deliver(s)
  BY <1>4, DeliverStep
<1>5. CASE \E p \in Pids : Child(p)
  BY <1>5, ChildStep
<1>6. CASE UNCHANGED vars
  <2>1. TypeOK' /\ UNCHANGED shell /\ child' = child
    BY <1>6 DEF IInv, TypeOK, JobTableType, vars, shell
  <2> QED
    BY <2>1, ChildrenMove
<1> QED
  BY <1>1, <1>2, <1>3, <1>4, <1>5, <1>6 DEF Next

\* The inductive invariant holds of every run of the shell.
THEOREM Invariance == Spec => []IInv
BY InitIInv, NextIInv, PTL DEF Spec

(***************************************************************************)
(* The properties that the runs check.                                     *)
(***************************************************************************)

\* Every variable keeps its type, whatever handlers interrupt each other.
THEOREM TypeCorrect == Spec => []TypeOK
<1>1. IInv => TypeOK
  BY DEF IInv
<1> QED
  BY <1>1, Invariance, PTL

\* At most one job is in the foreground (tsh.c:38).
THEOREM OneForegroundJob == Spec => []AtMostOneFG
<1>1. IInv => AtMostOneFG
  <2> SUFFICES ASSUME IInv, NEW i \in SlotsIn("FG"), NEW j \in SlotsIn("FG")
               PROVE  i = j
    BY DEF AtMostOneFG
  <2>1. i \in Slots /\ j \in Slots
    BY DEF SlotsIn
  <2> QED
    BY <2>1 DEF IInv, FGIsWaitedFor, UniquePids
<1> QED
  BY <1>1, Invariance, PTL

\* No job is left in the foreground when the shell is at the prompt.
THEOREM PromptHasNoFG == Spec => []PromptMeansNoFG
<1>1. IInv => PromptMeansNoFG
  BY NoFGElsewhere DEF PromptMeansNoFG
<1> QED
  BY <1>1, Invariance, PTL

\* The mask around fork and addjob (tsh.c:211) and the order of waitpid and
\* deletejob leave no job of a child that is gone.
THEOREM NoGhosts == Spec => []NoGhostJob
<1>1. IInv => NoGhostJob
  BY DEF IInv
<1> QED
  BY <1>1, Invariance, PTL

\* A job that is marked ST does not execute, unless fg or bg is continuing it.
THEOREM StoppedJobs == Spec => []StoppedJobIsStopped
<1>1. IInv => StoppedJobIsStopped
  BY DEF IInv
<1> QED
  BY <1>1, Invariance, PTL

\* ^C and ^Z are forwarded to no background job (tsh.c:449-452, 469-472).
THEOREM ForwardedToForeground == Spec => []NeverForwardedToBG
<1>1. IInv => NeverForwardedToBG
  BY DEF IInv
<1> QED
  BY <1>1, Invariance, PTL

-----------------------------------------------------------------------------
(* What may happen to a job, and that it is all that JobControl allows. *)

\* All other steps leave the job list alone, and who is to be added.
LEMMA OtherSteps ==
  ASSUME IInv, [Next]_vars, ~ AddJob, ~ BgSet, ~ ChldDelete, ~ ChldStop
  PROVE  /\ jobs' = jobs
         /\ \A q \in Pids : NotYetAdded(q)' <=> NotYetAdded(q)
<1> USE DEF IInv, NotYetAdded
<1> DEFINE Same == /\ jobs' = jobs
                   /\ \A q \in Pids : NotYetAdded(q)' <=> NotYetAdded(q)
<1>1. ASSUME NEW p \in Pids, NEW bg \in BOOLEAN, Fork(p, bg)
      PROVE  Same
  BY <1>1 DEF Fork, AtPrompt, TypeOK
<1>2. ASSUME NEW bg \in BOOLEAN, DoBgfg(bg)
      PROVE  Same
  BY <1>2 DEF DoBgfg
<1>3. ASSUME BgKill
      PROVE  Same
  <2>1. main.pid \in Pids \cup {0}
    BY DEF TypeOK, MainType
  <2>2. \A q \in Pids : child'[q] = "unborn" <=> child[q] = "unborn"
    BY <1>3, <2>1 DEF BgKill, Continue, TypeOK
  <2>3. jobs' = jobs /\ main.pc = "bgkill" /\ main'.pc # "addjob"
    BY <1>3 DEF BgKill, TypeOK, MainType
  <2> QED
    BY <2>2, <2>3
<1>4. ASSUME WaitFg \/ BgRead \/ BgDone \/ ListJobs
      PROVE  Same
  <2>1. jobs' = jobs /\ child' = child /\ main.pc # "addjob"
    BY <1>4 DEF WaitFg, BgRead, BgDone, ListJobs
  <2>2. main'.pc # "addjob"
    <3>1. AtPrompt.pc = "read" /\ \A i : ListFrom(i).pc \in {"read", "list"}
      BY DEF AtPrompt, ListFrom
    <3>2. CASE WaitFg \/ BgRead \/ BgDone
      BY <3>1, <3>2 DEF WaitFg, BgRead, BgDone, TypeOK, MainType
    <3>3. CASE ListJobs
      BY <3>1, <3>3 DEF ListJobs, TypeOK, MainType
    <3> QED
      BY <1>4, <3>2, <3>3
  <2> QED
    BY <2>1, <2>2
<1>5. ASSUME NEW s \in TerminalSignals, ForwardLook(s)
      PROVE  Same
  BY <1>5 DEF ForwardLook
<1>6. ASSUME NEW s \in TerminalSignals, ForwardKill(s)
      PROVE  Same
  <2>1. jobs' = jobs /\ main' = main
    BY <1>6 DEF ForwardKill
  <2>2. \A q \in Pids : child'[q] = "unborn" <=> child[q] = "unborn"
    BY <1>6 DEF ForwardKill, SignalShellGroup, SignalGroup, TypeOK, Zombie
  <2> QED
    BY <2>1, <2>2
<1>7. ASSUME ChldWait
      PROVE  Same
  <2>1. jobs' = jobs /\ main' = main
    BY <1>7 DEF ChldWait
  <2>2. \A q \in Pids : child'[q] = "unborn" <=> child[q] = "unborn"
    BY <1>7 DEF ChldWait, TypeOK, Zombie
  <2> QED
    BY <2>1, <2>2
<1>8. ASSUME \/ sigquit_handler \/ Quit \/ ForkFails
             \/ \E s \in Signals : Deliver(s)
             \/ \E s \in TerminalSignals : Key(s)
      PROVE  Same
  BY <1>8 DEF sigquit_handler, Quit, ForkFails, Deliver, Key, SignalShellGroup, shell
<1>9. ASSUME NEW p \in Pids, Child(p)
      PROVE  Same
  <2>1. jobs' = jobs /\ main' = main
    BY <1>9
    DEF Child, Setpgid, Execve, Exit, Killed, StoppedByOther, InheritedHandler, ChildSame, shell
  <2>2. \A q \in Pids : child'[q] = "unborn" <=> child[q] = "unborn"
    BY <1>9
    DEF Child, Setpgid, Execve, Exit, Killed, StoppedByOther, InheritedHandler,
        SignalShellGroup, TypeOK, PreExec
  <2> QED
    BY <2>1, <2>2
<1>10. ASSUME UNCHANGED vars
       PROVE  Same
  BY <1>10 DEF vars, shell
<1> HIDE DEF Same, IInv, NotYetAdded
<1>11. Same
  <2>1. CASE Main
    <3>1. CASE \E bg \in BOOLEAN : DoBgfg(bg)
      BY <1>2, <3>1
    <3>2. CASE \E p \in Pids, bg \in BOOLEAN : Fork(p, bg)
      BY <1>1, <3>2
    <3>3. CASE WaitFg \/ BgRead \/ BgDone \/ ListJobs
      BY <1>4, <3>3
    <3>4. CASE BgKill
      BY <1>3, <3>4
    <3>5. CASE Quit \/ ForkFails
      BY <1>8, <3>5
    <3> QED
      BY <2>1, <3>1, <3>2, <3>3, <3>4, <3>5 DEF Main
  <2>2. CASE Handlers
    BY <1>5, <1>6, <1>7, <2>2 DEF Handlers
  <2> QED
    BY <1>8, <1>9, <1>10, <2>1, <2>2 DEF Next
<1> QED
  BY <1>11 DEF Same

\* What the SIGCHLD handler knows of the child whose job it deletes.
LEMMA DeletedJob ==
  ASSUME IInv, ChldDelete
  PROVE  /\ Top.pid \in Pids /\ child[Top.pid] = "reaped"
         /\ deletejob(Top.pid) /\ UNCHANGED <<main, child>>
<1>1. /\ stack # <<>> /\ Top.sig = "CHLD" /\ Top.at = "act" /\ Top.how \in Zombie
      /\ deletejob(Top.pid) /\ UNCHANGED <<main, child>>
  BY DEF ChldDelete, HandlerRuns
<1>2. stack \in Seq(Frame)
  BY DEF IInv, TypeOK
<1>3. Len(stack) \in DOMAIN stack /\ stack[Len(stack)] = Top
  BY <1>1, <1>2 DEF Top
<1> QED
  BY <1>1, <1>3 DEF IInv, FramesAgree, Zombie

\* A slot in use has a state.
LEMMA JobsHaveStateStep == IInv /\ JobsHaveState /\ [Next]_vars => JobsHaveState'
<1> SUFFICES ASSUME IInv, JobsHaveState, [Next]_vars PROVE JobsHaveState'
  OBVIOUS
<1>1. JobTableType /\ main \in MainType
  BY DEF IInv, TypeOK
<1>2. ASSUME AddJob
      PROVE  JobsHaveState'
  <2>1. main.pid \in Pids
    BY <1>2 DEF IInv, AddJobIsMasked, AddJob
  <2>2. StartState(main.bg) \in JobState \ {"UNDEF"}
    BY DEF StartState, JobState
  <2>3. \/ jobs' = jobs
        \/ \E i \in SlotsOf(0) :
             jobs' = [jobs EXCEPT ![i] = [pid |-> main.pid, jid |-> nextjid,
                                          state |-> StartState(main.bg)]]
    BY <1>1, <1>2, <2>1, <2>2, AddjobEffect DEF AddJob
  <2> QED
    BY <1>1, <2>2, <2>3 DEF JobsHaveState, JobTableType, SlotsOf
<1>3. ASSUME BgSet
      PROVE  JobsHaveState'
  <2>1. main.slot \in Slots /\ StartState(main.bg) \in JobState \ {"UNDEF"}
    BY <1>1 DEF StartState, JobState, MainType
  <2> QED
    BY <1>1, <1>3, <2>1, SetstateEffect DEF JobsHaveState, BgSet
<1>4. ASSUME ChldDelete
      PROVE  JobsHaveState'
  <2>1. /\ Top.pid \in Pids
        /\ \/ jobs' = jobs
           \/ \E i \in SlotsOf(Top.pid) : jobs' = [jobs EXCEPT ![i] = clearjob]
    BY <1>1, <1>4, DeletedJob, DeletejobEffect
  <2> QED
    BY <1>1, <2>1 DEF JobsHaveState, JobTableType, SlotsOf, clearjob
<1>5. ASSUME ChldStop
      PROVE  JobsHaveState'
  <2>1. CASE jobs' = jobs
    BY <2>1 DEF JobsHaveState
  <2>2. CASE Tracked(Top.pid) /\ setstate(getjobpid(Top.pid), "ST")
    <3>1. getjobpid(Top.pid) \in Slots
      BY <2>2, LookupsFind DEF SlotsOf
    <3> QED
      BY <1>1, <2>2, <3>1, SetstateEffect DEF JobsHaveState, JobState
  <2> QED
    BY <1>5, <2>1, <2>2 DEF ChldStop
<1>6. ASSUME ~ AddJob, ~ BgSet, ~ ChldDelete, ~ ChldStop
      PROVE  JobsHaveState'
  BY <1>6, OtherSteps DEF JobsHaveState
<1> QED
  BY <1>2, <1>3, <1>4, <1>5, <1>6

\* The default case of listjobs (tsh.c:809) is for no job of the list, as
\* long as the slot is not changed while listjobs looks at it.
THEOREM EveryJobHasState == Spec => []JobsHaveState
<1>1. Init => JobsHaveState
  BY InitjobsType DEF Init, JobsHaveState, clearjob
<1> QED
  BY <1>1, JobsHaveStateStep, Invariance, PTL DEF Spec

\* The only step that takes a job from the list is deletejob_sync's.
LEMMA DeletedWhenReaped ==
  ASSUME IInv, [Next]_vars, NEW p \in Pids, Tracked(p), ~ Tracked(p)'
  PROVE  child[p] = "reaped"
<1>1. JobTableType /\ main \in MainType /\ p # 0
  BY PidsAssumption DEF IInv, TypeOK
<1>2. ~ AddJob
  <2> SUFFICES ASSUME AddJob PROVE FALSE
    OBVIOUS
  <2>1. main.pid \in Pids /\ StartState(main.bg) \in JobState
    BY DEF IInv, AddJobIsMasked, AddJob, StartState, JobState
  <2>2. \/ jobs' = jobs
        \/ \E i \in SlotsOf(0) :
             jobs' = [jobs EXCEPT ![i] = [pid |-> main.pid, jid |-> nextjid,
                                          state |-> StartState(main.bg)]]
    BY <1>1, <2>1, AddjobEffect DEF AddJob
  <2> QED
    BY <1>1, <2>2 DEF Tracked, SlotsOf, JobTableType
<1>3. ~ BgSet
  <2> SUFFICES ASSUME BgSet PROVE FALSE
    OBVIOUS
  <2>1. main.slot \in Slots /\ StartState(main.bg) \in JobState
    BY <1>1 DEF StartState, JobState, MainType
  <2> QED
    BY <1>1, <2>1, SetstateEffect DEF Tracked, SlotsOf, BgSet
<1>4. ~ ChldStop
  <2> SUFFICES ASSUME Tracked(Top.pid), setstate(getjobpid(Top.pid), "ST") PROVE FALSE
    BY DEF ChldStop, Tracked, SlotsOf
  <2>1. getjobpid(Top.pid) \in Slots
    BY LookupsFind DEF SlotsOf
  <2> QED
    BY <1>1, <2>1, SetstateEffect DEF Tracked, SlotsOf, JobState
<1>5. ASSUME ChldDelete
      PROVE  child[p] = "reaped"
  <2>1. /\ Top.pid \in Pids /\ child[Top.pid] = "reaped"
        /\ \/ jobs' = jobs
           \/ \E i \in SlotsOf(Top.pid) : jobs' = [jobs EXCEPT ![i] = clearjob]
    BY <1>1, <1>5, DeletedJob, DeletejobEffect
  <2>2. CASE p = Top.pid
    BY <2>1, <2>2
  <2>3. CASE p # Top.pid
    BY <1>1, <2>1, <2>3 DEF Tracked, SlotsOf, JobTableType
  <2> QED
    BY <2>2, <2>3
<1>6. ASSUME ~ ChldDelete
      PROVE  FALSE
  BY <1>2, <1>3, <1>4, <1>6, OtherSteps DEF Tracked, SlotsOf
<1> QED
  BY <1>5, <1>6

\* A job leaves the list only when waitpid has reported its child's end.
THEOREM JobsEndWithChildren == Spec => JobEndsWithChild
<1>1. IInv /\ [Next]_vars =>
        [\A p \in Pids : Tracked(p) /\ ~ Tracked(p)' => child[p] = "reaped"]_vars
  BY DeletedWhenReaped
<1> QED
  BY <1>1, Invariance, PTL DEF Spec, JobEndsWithChild

-----------------------------------------------------------------------------
(* No child is lost, as long as addjob finds a free slot. *)

\* No step makes a process of one that was waited for.
LEMMA ReapedForEver ==
  ASSUME TypeOK, [Next]_vars, NEW q \in Pids, child[q] = "reaped"
  PROVE  child'[q] = "reaped"
<1>1. child \in [Pids -> ChildState] /\ main.pid \in Pids \cup {0}
  BY DEF TypeOK, MainType
<1>2. ASSUME NEW p \in Pids, NEW bg \in BOOLEAN, Fork(p, bg)
      PROVE  child'[q] = "reaped"
  BY <1>1, <1>2 DEF Fork
<1>3. CASE BgKill
  BY <1>1, <1>3 DEF BgKill, Continue
<1>4. ASSUME NEW s \in TerminalSignals, ForwardKill(s)
      PROVE  child'[q] = "reaped"
  BY <1>1, <1>4 DEF ForwardKill, SignalShellGroup, SignalGroup, Zombie
<1>5. CASE ChldWait
  BY <1>1, <1>5 DEF ChldWait, Zombie
<1>6. ASSUME NEW p \in Pids, Child(p)
      PROVE  child'[q] = "reaped"
  BY <1>1, <1>6
  DEF Child, Setpgid, Execve, Exit, Killed, StoppedByOther, InheritedHandler,
      SignalShellGroup, PreExec
<1>7. CASE AddJob \/ WaitFg \/ BgRead \/ BgSet \/ BgDone \/ ListJobs \/ Quit \/ ForkFails
  BY <1>7 DEF AddJob, WaitFg, BgRead, BgSet, BgDone, ListJobs, Quit, ForkFails
<1>8. CASE \/ sigquit_handler \/ ChldDelete \/ ChldStop
           \/ \E bg \in BOOLEAN : DoBgfg(bg)
           \/ \E s \in TerminalSignals : ForwardLook(s) \/ Key(s)
           \/ \E s \in Signals : Deliver(s)
  BY <1>8 DEF sigquit_handler, ChldDelete, ChldStop, DoBgfg, ForwardLook, Key,
              SignalShellGroup, Deliver
<1>9. CASE UNCHANGED vars
  BY <1>9 DEF vars
<1>10. CASE Main
  BY <1>2, <1>3, <1>7, <1>8, <1>10 DEF Main
<1>11. CASE Handlers
  BY <1>4, <1>5, <1>8, <1>11 DEF Handlers
<1> QED
  BY <1>6, <1>8, <1>9, <1>10, <1>11 DEF Next

\* addjob does not find the list full.
RoomToAdd == main.pc = "addjob" => Tracked(0)

\* With room in the list, eval adds its child.
LEMMA AddJobTracks ==
  ASSUME IInv, RoomToAdd, AddJob
  PROVE  /\ child' = child
         /\ \A q \in Pids : Tracked(q) \/ q = main.pid => Tracked(q)'
<1>1. /\ JobTableType /\ main.pid \in Pids /\ 0 \notin Pids
      /\ StartState(main.bg) \in JobState /\ child' = child
  BY PidsAssumption DEF IInv, TypeOK, AddJobIsMasked, AddJob, StartState, JobState
<1>2. PICK i \in SlotsOf(0) :
        jobs' = [jobs EXCEPT ![i] = [pid |-> main.pid, jid |-> nextjid,
                                     state |-> StartState(main.bg)]]
  <2>1. Tracked(0) /\ addjob(main.pid, StartState(main.bg))
    BY DEF AddJob, RoomToAdd
  <2>2. getjobpid(0) \in SlotsOf(0)
    BY <2>1, LookupsFind DEF Tracked
  <2> QED
    BY <2>1, <2>2 DEF addjob
<1>3. /\ i \in Slots /\ jobs[i].pid = 0 /\ jobs'[i].pid = main.pid
      /\ \A j \in Slots : j # i => jobs'[j] = jobs[j]
  BY <1>1, <1>2 DEF SlotsOf, JobTableType
<1> QED
  BY <1>1, <1>3 DEF Tracked, SlotsOf

LEMMA NoLostJobStep == IInv /\ RoomToAdd /\ NoLostJob /\ [Next]_vars => NoLostJob'
<1> SUFFICES ASSUME IInv, RoomToAdd, NoLostJob, [Next]_vars,
                    NEW q \in Pids, child'[q] # "reaped"
             PROVE  Tracked(q)' \/ NotYetAdded(q)'
  BY DEF NoLostJob
<1>1. child[q] # "reaped"
  BY ReapedForEver DEF IInv
<1>2. CASE Tracked(q)
  BY <1>1, <1>2, DeletedWhenReaped
<1>3. CASE NotYetAdded(q)
  <2>1. CASE AddJob
    BY <1>3, <2>1, AddJobTracks DEF NotYetAdded
  <2>2. CASE BgSet \/ ChldDelete \/ ChldStop
    BY <1>3, <2>2 DEF NotYetAdded, BgSet, ChldDelete, ChldStop
  <2>3. CASE ~ AddJob /\ ~ BgSet /\ ~ ChldDelete /\ ~ ChldStop
    BY <1>3, <2>3, OtherSteps
  <2> QED
    BY <2>1, <2>2, <2>3
<1> QED
  BY <1>1, <1>2, <1>3 DEF NoLostJob

\* Every child from its addjob until it is waited for is in the job list,
\* whatever handlers come between, if addjob (tsh.c:694) never finds the
\* list full.
THEOREM NoJobIsLost == Spec /\ []RoomToAdd => []NoLostJob
<1>1. Init => NoLostJob
  BY DEF Init, NoLostJob, NotYetAdded
<1> QED
  BY <1>1, NoLostJobStep, Invariance, PTL DEF Spec

\* The processes in the list are as many as the slots they take, the one
\* that eval is about to add not among them.
LEMMA ListHasRoom ==
  ASSUME IsFiniteSet(Pids), Cardinality(Pids) <= MAXJOBS, IInv
  PROVE  RoomToAdd
<1> SUFFICES ASSUME main.pc = "addjob", ~ Tracked(0)
             PROVE  FALSE
  BY DEF RoomToAdd
<1> DEFINE PidOf == [i \in Slots |-> jobs[i].pid]
<1> DEFINE Others == Pids \ {main.pid}
<1>1. main.pid \in Pids /\ ~ Tracked(main.pid)
  BY DEF IInv, AddJobIsMasked
<1>2. PidOf \in Injection(Slots, Others)
  <2>1. ASSUME NEW i \in Slots
        PROVE  jobs[i].pid \in Others
    BY <1>1 DEF IInv, TypeOK, JobTableType, Job, Tracked, SlotsOf
  <2>2. PidOf \in [Slots -> Others]
    BY <2>1
  <2>3. ASSUME NEW i \in Slots, NEW j \in Slots, PidOf[i] = PidOf[j]
        PROVE  i = j
    BY <2>1, <2>3, PidsAssumption DEF IInv, UniquePids
  <2> HIDE DEF PidOf, Others
  <2> QED
    BY <2>2, <2>3, Fun_IsInj
<1>3. IsFiniteSet(Others) /\ Cardinality(Others) = Cardinality(Pids) - 1
  BY <1>1, FS_RemoveElement
<1>4. Cardinality(Slots) = MAXJOBS
  BY MAXJOBSAssumption, FS_Interval DEF Slots
<1>5. Cardinality(Slots) <= Cardinality(Others)
  <2> HIDE DEF PidOf, Others
  <2> QED
    BY <1>2, <1>3, FS_Injection DEF ExistsInjection
<1>6. Cardinality(Pids) \in Nat
  BY FS_CardinalityType
<1> QED
  BY <1>3, <1>4, <1>5, <1>6, MAXJOBSAssumption

\* As many processes as slots cannot fill the list: no child is lost.
THEOREM FewProcessesAreNotLost ==
  ASSUME IsFiniteSet(Pids), Cardinality(Pids) <= MAXJOBS
  PROVE  Spec => []NoLostJob
<1>1. IInv => RoomToAdd
  BY ListHasRoom
<1> QED
  BY <1>1, Invariance, NoJobIsLost, PTL

-----------------------------------------------------------------------------
(* The refinement. *)

\* A process has the status of its slot, for no other slot is its own.
LEMMA StatusOfSlot ==
  UniquePids => \A p \in Pids :
    /\ \A i \in SlotsOf(p) : status[p] = jobs[i].state
    /\ ~ Tracked(p) => status[p] = IF NotYetAdded(p) THEN "new" ELSE "done"
<1> SUFFICES ASSUME UniquePids, NEW p \in Pids
             PROVE  /\ \A i \in SlotsOf(p) : status[p] = jobs[i].state
                    /\ ~ Tracked(p) => status[p] = IF NotYetAdded(p) THEN "new" ELSE "done"
  OBVIOUS
<1>1. status[p] = IF Tracked(p) THEN jobs[getjobpid(p)].state
                  ELSE IF NotYetAdded(p) THEN "new" ELSE "done"
  BY DEF status
<1>2. ASSUME NEW i \in SlotsOf(p)
      PROVE  status[p] = jobs[i].state
  <2>1. Tracked(p) /\ getjobpid(p) \in SlotsOf(p)
    BY <1>2, LookupsFind DEF Tracked
  <2>2. getjobpid(p) = i
    BY <1>2, <2>1, PidsAssumption DEF UniquePids, SlotsOf
  <2> QED
    BY <1>1, <2>1, <2>2
<1> QED
  BY <1>1, <1>2

LEMMA StatusOfSlotNext ==
  UniquePids' => \A p \in Pids :
    /\ \A i \in SlotsOf(p)' : status'[p] = jobs'[i].state
    /\ ~ Tracked(p)' => status'[p] = IF NotYetAdded(p)' THEN "new" ELSE "done"
<1>1. (UniquePids => \A p \in Pids :
         /\ \A i \in SlotsOf(p) : status[p] = jobs[i].state
         /\ ~ Tracked(p) => status[p] = IF NotYetAdded(p) THEN "new" ELSE "done")'
  BY StatusOfSlot, PTL
<1> QED
  BY <1>1

\* A step that leaves the slots of a process as they are leaves its status.
LEMMA StatusKept ==
  ASSUME UniquePids, UniquePids', NEW q \in Pids,
         SlotsOf(q)' = SlotsOf(q),
         \A i \in SlotsOf(q) : jobs'[i].state = jobs[i].state,
         NotYetAdded(q)' <=> NotYetAdded(q)
  PROVE  status'[q] = status[q]
<1>1. CASE Tracked(q)
  <2>1. PICK i \in SlotsOf(q) : TRUE
    BY <1>1 DEF Tracked
  <2>2. i \in SlotsOf(q)'
    BY <2>1
  <2>3. status[q] = jobs[i].state
    BY <2>1, StatusOfSlot
  <2>4. status'[q] = jobs'[i].state
    BY <2>2, StatusOfSlotNext
  <2> QED
    BY <2>1, <2>3, <2>4
<1>2. CASE ~ Tracked(q)
  <2>1. ~ Tracked(q)'
    BY <1>2 DEF Tracked
  <2> QED
    BY <1>2, <2>1, StatusOfSlot, StatusOfSlotNext
<1> QED
  BY <1>1, <1>2

LEMMA StatusFunction ==
  /\ status = [p \in Pids |-> status[p]]
  /\ status' = [p \in Pids |-> status'[p]]
  /\ \A p \in Pids : (\A q \in Pids \ {p} : status'[q] = status[q])
                       => status' = [status EXCEPT ![p] = status'[p]]
BY DEF status

\* With no slot marked FG, no job is in the foreground.
LEMMA NoForeground ==
  ASSUME UniquePids, SlotsIn("FG") = {}
  PROVE  Abstract!Foreground = {}
<1> SUFFICES ASSUME NEW p \in Pids, status[p] = "FG" PROVE FALSE
  BY DEF Abstract!Foreground
<1>1. CASE Tracked(p)
  <2>1. PICK i \in SlotsOf(p) : TRUE
    BY <1>1 DEF Tracked
  <2> QED
    BY <2>1, StatusOfSlot DEF SlotsIn, SlotsOf
<1>2. CASE ~ Tracked(p)
  BY <1>2, StatusOfSlot
<1> QED
  BY <1>1, <1>2

\* A slot in use is a job of JobControl's.
LEMMA SlotIsJob ==
  ASSUME IInv, JobsHaveState, NEW i \in Slots, jobs[i].pid \in Pids
  PROVE  status[jobs[i].pid] = jobs[i].state /\ Abstract!IsJob(jobs[i].pid)
<1>1. i \in SlotsOf(jobs[i].pid) /\ jobs[i].pid # 0 /\ jobs[i].state \in JobState
  BY PidsAssumption DEF SlotsOf, IInv, TypeOK, JobTableType, Job
<1>2. status[jobs[i].pid] = jobs[i].state
  BY <1>1, StatusOfSlot DEF IInv
<1> QED
  BY <1>1, <1>2 DEF Abstract!IsJob, JobsHaveState, JobState

\* AddJob starts the job, or refuses it when the list is full.
LEMMA AddJobRefines ==
  ASSUME IInv, IInv', AddJob
  PROVE  Abstract!Next
<1>0. PICK p, s, jid : p = main.pid /\ s = StartState(main.bg) /\ jid = nextjid
  OBVIOUS
<1>1. /\ main.pc = "addjob" /\ addjob(p, s) /\ child' = child
      /\ main'.pc # "addjob" /\ p = main.pid
  BY <1>0 DEF AddJob, MainRuns, AtPrompt, IInv, TypeOK, MainType
<1>2. p \in Pids /\ p # 0 /\ ~ Tracked(p) /\ child[p] # "unborn"
  BY <1>1, PidsAssumption DEF AddJobIsMasked, IInv
<1>3. s = (IF main.bg THEN "BG" ELSE "FG") /\ s \in JobState
  BY <1>0 DEF StartState, JobState
<1>4. SlotsIn("FG") = {} /\ Abstract!Foreground = {}
  BY <1>1, NoFGElsewhere, NoForeground DEF IInv
<1>5. /\ status[p] = "new"
      /\ ~ NotYetAdded(p)'
      /\ \A q \in Pids \ {p} : NotYetAdded(q)' <=> NotYetAdded(q)
  BY <1>1, <1>2, StatusOfSlot DEF NotYetAdded, IInv
<1> DEFINE job == [pid |-> p, jid |-> jid, state |-> s]
<1>6. job.pid = p /\ job.state = s
  OBVIOUS
<1>7. JobTableType /\ UniquePids /\ UniquePids'
  BY DEF IInv, TypeOK
<1>8. \/ jobs' = jobs
      \/ \E i \in SlotsOf(0) : jobs' = [jobs EXCEPT ![i] = job]
  BY <1>0, <1>1, <1>2, <1>3, <1>7, AddjobEffect
<1> HIDE DEF job
<1>9. CASE jobs' = jobs
  <2>1. \A q \in Pids : SlotsOf(q)' = SlotsOf(q)
    BY <1>9 DEF SlotsOf
  <2>2. ~ Tracked(p)'
    BY <1>2, <2>1 DEF Tracked
  <2>3. status'[p] = "done"
    BY <1>2, <1>5, <1>7, <2>2, StatusOfSlotNext
  <2>4. \A q \in Pids \ {p} : status'[q] = status[q]
    BY <1>5, <1>7, <1>9, <2>1, StatusKept
  <2>5. Abstract!Refuse(p)
    BY <1>2, <1>5, <2>3, <2>4, StatusFunction DEF Abstract!Refuse
  <2> QED
    BY <1>2, <2>5 DEF Abstract!Next
<1>10. ASSUME NEW i \in SlotsOf(0), jobs' = [jobs EXCEPT ![i] = job]
       PROVE  Abstract!Next
  <2>1. /\ i \in Slots /\ jobs[i].pid = 0 /\ jobs'[i] = job
        /\ \A j \in Slots : j # i => jobs'[j] = jobs[j]
    BY <1>7, <1>10 DEF SlotsOf, JobTableType
  <2>2. i \in SlotsOf(p)'
    BY <1>6, <2>1 DEF SlotsOf
  <2>3. status'[p] = s
    BY <1>2, <1>6, <1>7, <2>1, <2>2, StatusOfSlotNext
  <2>4. \A q \in Pids \ {p} : /\ SlotsOf(q)' = SlotsOf(q)
                              /\ \A j \in SlotsOf(q) : jobs'[j].state = jobs[j].state
    BY <1>6, <2>1, PidsAssumption DEF SlotsOf
  <2>5. \A q \in Pids \ {p} : status'[q] = status[q]
    BY <1>5, <1>7, <2>4, StatusKept
  <2>6. Abstract!Start(p, s)
    BY <1>2, <1>4, <1>5, <2>3, <2>5, StatusFunction DEF Abstract!Start
  <2>7. s \in {"FG", "BG"}
    BY <1>3
  <2> QED
    BY <1>2, <2>6, <2>7 DEF Abstract!Next
<1> QED
  BY <1>8, <1>9, <1>10

\* Marking slot i, by fg, bg or the SIGCHLD handler, changes the status of
\* the job in it, or of none when the slot has become free.
LEMMA MarkSlot ==
  ASSUME IInv, IInv', NEW i \in Slots, NEW s \in JobState, setstate(i, s),
         child' = child, main.pc # "addjob", main'.pc # "addjob"
  PROVE  \/ status' = status
         \/ /\ jobs[i].pid \in Pids
            /\ status' = [status EXCEPT ![jobs[i].pid] = s]
<1>1. JobTableType /\ UniquePids /\ UniquePids'
  BY DEF IInv, TypeOK
<1>2. \A j \in Slots : /\ jobs'[j].pid = jobs[j].pid
                       /\ jobs'[j].state = IF j = i THEN s ELSE jobs[j].state
  BY <1>1, SetstateEffect
<1>3. \A q \in Pids : /\ SlotsOf(q)' = SlotsOf(q)
                      /\ NotYetAdded(q)' <=> NotYetAdded(q)
  BY <1>2 DEF SlotsOf, NotYetAdded
<1>4. \A q \in Pids : q # jobs[i].pid => \A j \in SlotsOf(q) : jobs'[j].state = jobs[j].state
  BY <1>2 DEF SlotsOf
<1>5. \A q \in Pids : q # jobs[i].pid => status'[q] = status[q]
  BY <1>1, <1>3, <1>4, StatusKept
<1>6. CASE jobs[i].pid = 0
  BY <1>5, <1>6, StatusFunction, PidsAssumption
<1>7. CASE jobs[i].pid # 0
  <2>1. PICK p \in Pids : p = jobs[i].pid
    BY <1>1, <1>7 DEF JobTableType, Job
  <2>2. i \in SlotsOf(p)'
    BY <1>2, <2>1 DEF SlotsOf
  <2>3. status'[p] = s
    BY <1>1, <1>2, <2>2, StatusOfSlotNext
  <2> QED
    BY <1>5, <2>1, <2>3, StatusFunction
<1> QED
  BY <1>6, <1>7

LEMMA BgSetRefines ==
  ASSUME IInv, IInv', JobsHaveState, BgSet
  PROVE  Abstract!Next \/ status' = status
<1>0. PICK i, s : i = main.slot /\ s = StartState(main.bg)
  OBVIOUS
<1>1. /\ main.pc = "bgset" /\ main'.pc # "addjob" /\ child' = child
      /\ setstate(i, s) /\ i \in Slots
  BY <1>0 DEF BgSet, IInv, TypeOK, MainType
<1>2. s \in {"FG", "BG"} /\ s \in JobState
  BY <1>0 DEF StartState, JobState
<1>3. Abstract!Foreground = {}
  BY <1>1, NoFGElsewhere, NoForeground DEF IInv
<1>4. CASE jobs[i].pid \in Pids /\ status' = [status EXCEPT ![jobs[i].pid] = s]
  <2>1. Abstract!Resume(jobs[i].pid, s)
    BY <1>1, <1>3, <1>4, SlotIsJob DEF Abstract!Resume
  <2> QED
    BY <1>2, <1>4, <2>1 DEF Abstract!Next
<1> QED
  BY <1>1, <1>2, <1>4, MarkSlot

LEMMA ChldStopRefines ==
  ASSUME IInv, IInv', JobsHaveState, ChldStop
  PROVE  Abstract!Next \/ status' = status
<1>1. /\ UNCHANGED <<main, child>>
      /\ stack # <<>> /\ Top.sig = "CHLD"
  BY DEF ChldStop, HandlerRuns
<1>2. main.pc # "addjob" /\ main'.pc # "addjob"
  <2>1. Len(stack) \in DOMAIN stack /\ stack[Len(stack)] = Top
    BY <1>1 DEF IInv, TypeOK, Top
  <2> QED
    BY <1>1, <2>1 DEF IInv, AddJobIsMasked
<1>3. CASE Tracked(Top.pid) /\ setstate(getjobpid(Top.pid), "ST")
  <2>0. PICK i : i = getjobpid(Top.pid)
    OBVIOUS
  <2>1. i \in Slots /\ setstate(i, "ST") /\ "ST" \in JobState
    BY <1>3, <2>0, LookupsFind DEF SlotsOf, JobState
  <2>2. CASE jobs[i].pid \in Pids /\ status' = [status EXCEPT ![jobs[i].pid] = "ST"]
    <3>1. Abstract!Stop(jobs[i].pid)
      BY <2>1, <2>2, SlotIsJob DEF Abstract!Stop
    <3> QED
      BY <2>2, <3>1 DEF Abstract!Next
  <2> QED
    BY <1>1, <1>2, <2>1, <2>2, MarkSlot
<1>4. CASE jobs' = jobs
  <2>1. \A q \in Pids : /\ SlotsOf(q)' = SlotsOf(q)
                        /\ NotYetAdded(q)' <=> NotYetAdded(q)
    BY <1>1, <1>4 DEF SlotsOf, NotYetAdded
  <2> QED
    BY <1>4, <2>1, StatusKept, StatusFunction DEF IInv
<1> QED
  BY <1>3, <1>4 DEF ChldStop

LEMMA ChldDeleteRefines ==
  ASSUME IInv, IInv', JobsHaveState, ChldDelete
  PROVE  Abstract!Next \/ status' = status
<1>0. PICK p : p = Top.pid
  OBVIOUS
<1>1. /\ p \in Pids /\ p # 0 /\ child[p] = "reaped"
      /\ deletejob(p) /\ UNCHANGED <<main, child>>
  BY <1>0, DeletedJob, PidsAssumption
<1>2. JobTableType /\ UniquePids /\ UniquePids'
  BY DEF IInv, TypeOK
<1>3. /\ \A q \in Pids : NotYetAdded(q)' <=> NotYetAdded(q)
      /\ ~ NotYetAdded(p)'
  BY <1>1 DEF NotYetAdded, IInv, AddJobIsMasked
<1>4. CASE jobs' = jobs
  <2>1. \A q \in Pids : SlotsOf(q)' = SlotsOf(q)
    BY <1>4 DEF SlotsOf
  <2> QED
    BY <1>2, <1>3, <1>4, <2>1, StatusKept, StatusFunction
<1>5. ASSUME NEW i \in SlotsOf(p), jobs' = [jobs EXCEPT ![i] = clearjob]
      PROVE  Abstract!Next
  <2>1. /\ i \in Slots /\ jobs[i].pid = p /\ jobs'[i].pid = 0
        /\ \A j \in Slots : j # i => jobs'[j] = jobs[j]
        /\ \A j \in Slots : jobs[j].pid = p => j = i
    BY <1>1, <1>2, <1>5 DEF SlotsOf, JobTableType, UniquePids, clearjob
  <2>2. ~ Tracked(p)'
    BY <1>1, <2>1 DEF Tracked, SlotsOf
  <2>3. status'[p] = "done"
    BY <1>1, <1>2, <1>3, <2>2, StatusOfSlotNext
  <2>4. \A q \in Pids \ {p} : /\ SlotsOf(q)' = SlotsOf(q)
                              /\ \A j \in SlotsOf(q) : jobs'[j].state = jobs[j].state
    BY <2>1, PidsAssumption DEF SlotsOf
  <2>5. \A q \in Pids \ {p} : status'[q] = status[q]
    BY <1>2, <1>3, <2>4, StatusKept
  <2>6. Abstract!Finish(p)
    BY <1>1, <2>1, <2>3, <2>5, SlotIsJob, StatusFunction DEF Abstract!Finish
  <2> QED
    BY <1>1, <2>6 DEF Abstract!Next
<1> QED
  BY <1>1, <1>2, <1>4, <1>5, DeletejobEffect

LEMMA StepRefines ==
  IInv /\ IInv' /\ JobsHaveState /\ [Next]_vars => [Abstract!Next]_status
<1> SUFFICES ASSUME IInv, IInv', JobsHaveState, [Next]_vars
             PROVE  Abstract!Next \/ status' = status
  OBVIOUS
<1>1. ASSUME ~ AddJob, ~ BgSet, ~ ChldDelete, ~ ChldStop
      PROVE  status' = status
  <2>1. jobs' = jobs /\ \A q \in Pids : NotYetAdded(q)' <=> NotYetAdded(q)
    BY <1>1, OtherSteps
  <2>2. \A q \in Pids : SlotsOf(q)' = SlotsOf(q)
    BY <2>1 DEF SlotsOf
  <2> QED
    BY <2>1, <2>2, StatusKept, StatusFunction DEF IInv
<1> QED
  BY <1>1, AddJobRefines, BgSetRefines, ChldDeleteRefines, ChldStopRefines

LEMMA InitRefines == Init => Abstract!Init
<1> SUFFICES ASSUME Init, NEW p \in Pids PROVE status[p] = "new"
  BY StatusFunction DEF Abstract!Init
<1>1. ~ Tracked(p)
  BY InitjobsType, PidsAssumption DEF Init, Tracked, SlotsOf, clearjob
<1> QED
  BY <1>1 DEF status, NotYetAdded, Init

\* The job list, whatever handlers interrupt main and each other, behaves
\* as one status per job, with at most one job in the foreground.
THEOREM Refinement == Spec => JobControlSpec
BY Invariance, EveryJobHasState, InitRefines, StepRefines, PTL
DEF Spec, JobControlSpec, Abstract!Spec

=============================================================================
