--------------------------- MODULE MDriverProofs ---------------------------
(***************************************************************************)
(* Proofs about the driver of the malloc lab: its range list, its          *)
(* verdicts, its index and its times, for every allocator and clock, every *)
(* set of consistent traces and every command line.                        *)
(***************************************************************************)
EXTENDS MDriver, SequenceTheorems, FunctionTheorems, FiniteSetTheorems, WellFoundedInduction, TLAPS

-----------------------------------------------------------------------------
(* Lists. *)

\* RemoveAt closes the gap.
LEMMA RemoveAtProperties ==
  ASSUME NEW S, NEW s \in Seq(S), NEW n \in 1 .. Len(s)
  PROVE  /\ RemoveAt(s, n) \in Seq(S)
         /\ Len(RemoveAt(s, n)) = Len(s) - 1
         /\ \A k \in 1 .. Len(s) - 1 : RemoveAt(s, n)[k] = IF k < n THEN s[k] ELSE s[k + 1]
<1> DEFINE front == SubSeq(s, 1, n - 1)
           back == SubSeq(s, n + 1, Len(s))
<1>1. /\ front \in Seq(S) /\ Len(front) = n - 1
      /\ \A k \in 1 .. n - 1 : front[k] = s[k]
  OBVIOUS
<1>2. /\ back \in Seq(S) /\ Len(back) = Len(s) - n
      /\ \A k \in 1 .. Len(s) - n : back[k] = s[k + n]
  OBVIOUS
<1>3. RemoveAt(s, n) = front \o back
  BY DEF RemoveAt
<1> HIDE DEF front, back
<1>4. front \o back \in Seq(S) /\ Len(front \o back) = Len(s) - 1
  BY <1>1, <1>2
<1>5. ASSUME NEW k \in 1 .. Len(s) - 1
      PROVE  (front \o back)[k] = IF k < n THEN s[k] ELSE s[k + 1]
  <2>1. CASE k < n
    BY <1>1, <1>2, <2>1
  <2>2. CASE ~ (k < n)
    <3>1. (front \o back)[k] = back[k - (n - 1)]
      BY <1>1, <1>2, <2>2
    <3>2. k - (n - 1) \in 1 .. Len(s) - n /\ (k - (n - 1)) + n = k + 1
      BY <2>2
    <3> QED
      BY <1>2, <2>2, <3>1, <3>2
  <2> QED
    BY <2>1, <2>2
<1> QED
  BY <1>3, <1>4, <1>5

-----------------------------------------------------------------------------
(* The trace in hand. *)

WithTrace == {"libc_valid", "libc_timed", "libc_speed", "mm_valid", "mm_valid_op",
              "judged", "mm_util", "mm_timed", "mm_speed"}
AtFirst == {"start", "libc_read", "libc_valid", "libc_timed", "libc_speed", "mm_read", "mm_valid"}

\* It is one of the traces, as long as its header says, and of known requests.
InTrace == phase \in WithTrace => /\ \E file \in DOMAIN Files : trace = Files[file]
                                  /\ trace.num_ops = Len(trace.ops)
                                  /\ \A r \in ToSet(trace.ops) : r.type \in {"a", "r", "f"}

\* It is read from its first request on.
Positioned == phase \in AtFirst => op = 1

LEMMA InTraceInit == Init => InTrace /\ Positioned
BY DEF Init, InTrace, Positioned, WithTrace

LEMMA InTraceStep ==
  ASSUME InTrace, Positioned, [Next]_vars
  PROVE  InTrace' /\ Positioned'
<1> USE DEF InTrace, Positioned, WithTrace, AtFirst, exit
<1>1. CASE main
  BY <1>1 DEF main
<1>2. ASSUME NEW reading \in {"libc_read", "mm_read"}, NEW evaluating \in {"libc_valid", "mm_valid"},
             read_trace(reading, evaluating)
      PROVE  InTrace' /\ Positioned'
  <2>1. op = 1 /\ op' = op /\ phase' \in {"exited", evaluating}
    BY <1>2 DEF read_trace
  <2>2. CASE phase' = evaluating
    BY <1>2, <2>1, <2>2 DEF read_trace, Consistent
  <2> QED
    BY <2>1, <2>2
<1>3. CASE eval_libc_valid \/ Start("libc_timed", "libc_speed") \/ Run("libc_timed", "libc_speed") \/ mem_init
  BY <1>3 DEF eval_libc_valid, Start, Run, mem_init
<1>4. CASE libc_secs \/ mm_secs \/ NotValid
  BY <1>4 DEF libc_secs, mm_secs, NotValid, NextTrace
<1>5. CASE eval_mm_valid \/ mm_malloc_answers \/ mm_realloc_answers \/ mm_free_returns \/ Served
  BY <1>5 DEF eval_mm_valid, mm_malloc_answers, mm_realloc_answers, mm_free_returns, Served,
       Invalid, Judged, Refused, Remember
<1>6. CASE eval_mm_util \/ Utilize \/ Utilized
  BY <1>6 DEF eval_mm_util, Utilize, Utilized
<1>7. CASE Start("mm_timed", "mm_speed") \/ Run("mm_timed", "mm_speed") \/ Score
  BY <1>7 DEF Start, Run, Score
<1>8. CASE UNCHANGED vars
  BY <1>8 DEF vars
<1> QED
  BY <1>1, <1>2, <1>3, <1>4, <1>5, <1>6, <1>7, <1>8 DEF Next

\* The requests of the trace, which are consistent
Request == [type : STRING, index : Nat, size : Nat]

LEMMA Requests ==
  ASSUME InTrace, phase \in WithTrace
  PROVE  /\ trace.ops \in Seq(Request) /\ Len(trace.ops) \in Nat \ {0}
         /\ trace.num_ops = Len(trace.ops)
         /\ \A k \in DOMAIN trace.ops : LET r == trace.ops[k] IN
              /\ r \in Request /\ r.index \in Nat /\ r.size \in Nat /\ r.type \in {"a", "r", "f"}
              /\ r.type # "f" => r.size > 0
              /\ Allocated(trace.ops, k, r.index) <=> r.type \in {"r", "f"}
<1>1. PICK file \in DOMAIN Files : trace = Files[file]
  BY DEF InTrace
<1>2. /\ trace.ops \in Seq(Request) \ {<<>>}
      /\ \A k \in DOMAIN trace.ops : LET r == trace.ops[k] IN
           /\ r.type # "f" => r.size > 0
           /\ Allocated(trace.ops, k, r.index) <=> r.type \in {"r", "f"}
  BY <1>1, TracesAssumption DEF Request
<1>3. \A k \in DOMAIN trace.ops : trace.ops[k] \in Request /\ trace.ops[k].type \in {"a", "r", "f"}
  BY <1>2 DEF InTrace, ToSet
<1> QED
  BY <1>2, <1>3 DEF InTrace, Request

\* What a request changes of what is allocated
LEMMA AllocatedNext ==
  ASSUME NEW requests, NEW k \in Nat \ {0}, NEW id
  PROVE  Allocated(requests, k + 1, id)
           <=> IF requests[k].type = "f" THEN Allocated(requests, k, id) /\ requests[k].index # id
               ELSE Allocated(requests, k, id) \/ requests[k].index = id
<1> DEFINE Since(j, m) == /\ requests[j].type # "f" /\ requests[j].index = id
                          /\ \A l \in j + 1 .. m : ~(requests[l].type = "f" /\ requests[l].index = id)
<1>1. Allocated(requests, k + 1, id) <=> \E j \in 1 .. k : Since(j, k)
  BY DEF Allocated
<1>2. Allocated(requests, k, id) <=> \E j \in 1 .. k - 1 : Since(j, k - 1)
  BY DEF Allocated
<1>3. CASE requests[k].type = "f"
  <2>1. ASSUME NEW j \in 1 .. k, Since(j, k)
        PROVE  j \in 1 .. k - 1 /\ Since(j, k - 1) /\ requests[k].index # id
    <3>1. j # k
      BY <1>3, <2>1
    <3> QED
      BY <1>3, <2>1, <3>1
  <2>2. ASSUME NEW j \in 1 .. k - 1, Since(j, k - 1), requests[k].index # id
        PROVE  j \in 1 .. k /\ Since(j, k)
    <3>1. j + 1 .. k = (j + 1 .. k - 1) \cup {k}
      OBVIOUS
    <3> QED
      BY <2>2, <3>1
  <2> HIDE DEF Since
  <2> QED
    BY <1>1, <1>2, <1>3, <2>1, <2>2
<1>4. CASE requests[k].type # "f"
  <2>1. ASSUME NEW j \in 1 .. k, Since(j, k)
        PROVE  Allocated(requests, k, id) \/ requests[k].index = id
    <3>1. CASE j = k
      BY <2>1, <3>1
    <3>2. CASE j # k
      <4>1. j \in 1 .. k - 1 /\ Since(j, k - 1)
        BY <2>1, <3>2
      <4> QED
        BY <1>2, <4>1
    <3> QED
      BY <3>1, <3>2
  <2>2. ASSUME NEW j \in 1 .. k - 1, Since(j, k - 1)
        PROVE  j \in 1 .. k /\ Since(j, k)
    <3>1. j + 1 .. k = (j + 1 .. k - 1) \cup {k}
      OBVIOUS
    <3> QED
      BY <1>4, <2>2, <3>1
  <2>3. ASSUME requests[k].index = id
        PROVE  k \in 1 .. k /\ Since(k, k)
    <3>1. k + 1 .. k = {}
      OBVIOUS
    <3> QED
      BY <1>4, <2>3, <3>1
  <2> HIDE DEF Since
  <2> QED
    BY <1>1, <1>2, <1>4, <2>1, <2>2, <2>3
<1> QED
  BY <1>3, <1>4

LEMMA NothingAtFirst ==
  ASSUME NEW requests, NEW id
  PROVE  ~ Allocated(requests, 1, id)
BY DEF Allocated

-----------------------------------------------------------------------------
(* The range list. *)

Range_t == [lo : Int, hi : Int]

\* The blocks of these ids have an address and a size, and no two the same
\* address.
Placed(ids, places, lengths) ==
  /\ IsFiniteSet(ids) /\ ids \subseteq DOMAIN places /\ ids \subseteq DOMAIN lengths
  /\ \A id \in ids : places[id] \in Int /\ lengths[id] \in Nat \ {0}
  /\ \A a, b \in ids : places[a] = places[b] => a = b

\* The list holds the range of each of their blocks, once.
Lists(list, ids, places, lengths) ==
  /\ list \in Seq(Range_t)
  /\ \A n \in DOMAIN list : \E id \in ids : list[n] = range_t(places[id], lengths[id])
  /\ \A id \in ids : \E n \in DOMAIN list : list[n] = range_t(places[id], lengths[id])
  /\ \A m, n \in DOMAIN list : list[m].lo = list[n].lo => m = n
  /\ Len(list) = Cardinality(ids)

LEMMA Removed ==
  ASSUME NEW ids, NEW places, NEW lengths, Placed(ids, places, lengths),
         NEW list, Lists(list, ids, places, lengths), NEW id \in ids
  PROVE  /\ Placed(ids \ {id}, places, lengths)
         /\ Lists(remove_range(list, places[id]), ids \ {id}, places, lengths)
<1> DEFINE lo == places[id]
<1>1. PICK n \in DOMAIN list : list[n] = range_t(lo, lengths[id])
  BY DEF Lists
<1>2. list[n].lo = lo /\ \A m \in DOMAIN list : list[m].lo = lo => m = n
  BY <1>1 DEF Lists, range_t
<1>3. list \in Seq(Range_t) /\ n \in 1 .. Len(list) /\ Len(list) \in Nat /\ DOMAIN list = 1 .. Len(list)
  BY <1>1 DEF Lists
<1> DEFINE cut == RemoveAt(list, n)
<1>4. remove_range(list, lo) = cut
  <2>1. \A m \in DOMAIN list : (list[m].lo = lo /\ \A l \in 1 .. m - 1 : list[l].lo # lo) <=> m = n
    BY <1>2, <1>3
  <2>2. (CHOOSE m \in DOMAIN list : list[m].lo = lo /\ \A l \in 1 .. m - 1 : list[l].lo # lo) = n
    BY <1>1, <2>1
  <2> QED
    BY <1>1, <1>2, <2>2 DEF remove_range
<1>5. /\ cut \in Seq(Range_t) /\ Len(cut) = Len(list) - 1
      /\ \A k \in 1 .. Len(list) - 1 : cut[k] = IF k < n THEN list[k] ELSE list[k + 1]
  BY <1>3, RemoveAtProperties
<1> HIDE DEF cut
<1>6. IsFiniteSet(ids \ {id}) /\ Cardinality(ids \ {id}) = Cardinality(ids) - 1
  BY FS_RemoveElement DEF Placed
<1>7. Placed(ids \ {id}, places, lengths)
  BY <1>6 DEF Placed
<1>8. DOMAIN cut = 1 .. Len(list) - 1
  BY <1>5
<1> DEFINE old(k) == IF k < n THEN k ELSE k + 1
<1>9. \A k \in DOMAIN cut : old(k) \in DOMAIN list /\ old(k) # n /\ cut[k] = list[old(k)]
  BY <1>3, <1>5, <1>8
<1>10. \A j, k \in DOMAIN cut : old(j) = old(k) => j = k
  BY <1>3, <1>8
<1>11. ASSUME NEW m \in DOMAIN list, m # n
       PROVE  \E k \in DOMAIN cut : old(k) = m
  <2>1. CASE m < n
    BY <1>3, <1>8, <2>1
  <2>2. CASE m > n
    <3>1. m - 1 \in DOMAIN cut /\ old(m - 1) = m
      BY <1>3, <1>8, <2>2
    <3> QED
      BY <3>1
  <2> QED
    BY <1>3, <1>11, <2>1, <2>2
<1> HIDE DEF old
<1>12. \A k \in DOMAIN cut : \E a \in ids \ {id} : cut[k] = range_t(places[a], lengths[a])
  BY <1>2, <1>9, SMTT(60) DEF Lists, range_t
<1>13. ASSUME NEW a \in ids \ {id}
       PROVE  \E k \in DOMAIN cut : cut[k] = range_t(places[a], lengths[a])
  <2>1. PICK m \in DOMAIN list : list[m] = range_t(places[a], lengths[a])
    BY DEF Lists
  <2>2. m # n
    BY <1>2, <2>1 DEF Placed, range_t
  <2> QED
    BY <1>9, <1>11, <2>1, <2>2
<1>14. \A j, k \in DOMAIN cut : cut[j].lo = cut[k].lo => j = k
  BY <1>9, <1>10, SMTT(60) DEF Lists
<1>15. Len(cut) = Cardinality(ids \ {id})
  BY <1>5, <1>6 DEF Lists
<1> QED
  BY <1>4, <1>5, <1>7, <1>12, <1>13, <1>14, <1>15 DEF Lists

LEMMA Prepended ==
  ASSUME NEW ids, NEW places, NEW lengths, Placed(ids, places, lengths),
         NEW list, Lists(list, ids, places, lengths),
         NEW id, id \notin ids, NEW p \in Int, NEW size \in Nat \ {0},
         \A r \in ToSet(list) : ~ Overlaps(range_t(p, size), r)
  PROVE  /\ Placed(ids \cup {id}, Stored(places, id, p), Stored(lengths, id, size))
         /\ Lists(<<range_t(p, size)>> \o list, ids \cup {id}, Stored(places, id, p), Stored(lengths, id, size))
<1> DEFINE places1 == Stored(places, id, p)
           lengths1 == Stored(lengths, id, size)
           ids1 == ids \cup {id}
           r == range_t(p, size)
           list1 == <<r>> \o list
<1>1. /\ places1[id] = p /\ lengths1[id] = size
      /\ \A a \in ids : places1[a] = places[a] /\ lengths1[a] = lengths[a]
      /\ ids1 \subseteq DOMAIN places1 /\ ids1 \subseteq DOMAIN lengths1
  BY DEF Placed, Stored
<1>2. IsFiniteSet(ids1) /\ Cardinality(ids1) = Cardinality(ids) + 1
  BY FS_AddElement DEF Placed
<1>3. r \in Range_t /\ r.lo = p
  BY DEF range_t, Range_t
<1>4. \A n \in DOMAIN list : list[n].lo # p
  <2> SUFFICES ASSUME NEW n \in DOMAIN list, list[n].lo = p
               PROVE  FALSE
    OBVIOUS
  <2>1. PICK a \in ids : list[n] = range_t(places[a], lengths[a])
    BY DEF Lists
  <2>2. places[a] \in Int /\ lengths[a] \in Nat \ {0}
    BY DEF Placed
  <2>3. Overlaps(r, list[n])
    BY <2>1, <2>2 DEF Overlaps, range_t
  <2> QED
    BY <2>3 DEF ToSet
<1>5. \A a \in ids : places[a] # p
  <2> SUFFICES ASSUME NEW a \in ids, places[a] = p PROVE FALSE
    OBVIOUS
  <2>1. PICK n \in DOMAIN list : list[n] = range_t(places[a], lengths[a])
    BY DEF Lists
  <2> QED
    BY <1>4, <2>1 DEF range_t
<1> HIDE DEF places1, lengths1, r
<1>6. Placed(ids1, places1, lengths1)
  BY <1>1, <1>2, <1>5 DEF Placed
<1>7. list \in Seq(Range_t) /\ Len(list) = Cardinality(ids) /\ Len(list) \in Nat
      /\ DOMAIN list = 1 .. Len(list)
  BY DEF Lists
<1>8. /\ list1 \in Seq(Range_t) /\ Len(list1) = Len(list) + 1 /\ list1[1] = r
      /\ DOMAIN list1 = 1 .. Len(list) + 1
      /\ \A n \in 1 .. Len(list) : list1[n + 1] = list[n]
      /\ \A n \in DOMAIN list1 : n # 1 => n - 1 \in DOMAIN list /\ list1[n] = list[n - 1]
  BY <1>3, <1>7
<1> HIDE DEF list1
<1>9. \A n \in DOMAIN list1 : \E a \in ids1 : list1[n] = range_t(places1[a], lengths1[a])
  BY <1>1, <1>8 DEF Lists, r
<1>10. ASSUME NEW a \in ids1
       PROVE  \E n \in DOMAIN list1 : list1[n] = range_t(places1[a], lengths1[a])
  <2>1. CASE a = id
    <3>1. 1 \in DOMAIN list1
      BY <1>7, <1>8
    <3> QED
      BY <1>1, <1>8, <2>1, <3>1 DEF r
  <2>2. CASE a # id
    <3>1. PICK n \in DOMAIN list : list[n] = range_t(places[a], lengths[a])
      BY <2>2 DEF Lists
    <3>2. n + 1 \in DOMAIN list1 /\ list1[n + 1] = list[n]
      BY <1>7, <1>8
    <3> QED
      BY <1>1, <2>2, <3>1, <3>2
  <2> QED
    BY <2>1, <2>2
<1>11. ASSUME NEW m \in DOMAIN list1, NEW n \in DOMAIN list1, list1[m].lo = list1[n].lo
       PROVE  m = n
  <2>1. CASE m # 1 /\ n # 1
    <3>1. m - 1 = n - 1
      BY <1>8, <1>11, <2>1 DEF Lists
    <3> QED
      BY <1>7, <1>8, <3>1
  <2>2. CASE m = 1 \/ n = 1
    BY <1>3, <1>4, <1>8, <1>11, <2>2
  <2> QED
    BY <2>1, <2>2
<1>12. Lists(list1, ids1, places1, lengths1)
  <2>1. Len(list1) = Cardinality(ids1)
    BY <1>2, <1>7, <1>8
  <2> QED
    BY <1>8, <1>9, <1>10, <1>11, <2>1 DEF Lists
<1> QED
  BY <1>6, <1>12 DEF places1, lengths1, list1, r

-----------------------------------------------------------------------------
(* While a trace is judged. *)

\* What is allocated is what the requests so far have left allocated.
Following == phase \in {"mm_valid_op", "mm_util"} =>
               op \in Nat \ {0} /\ live = {id \in Nat : Allocated(trace.ops, op, id)}

Listed == phase = "mm_valid_op" => /\ Placed(live, blocks, block_sizes)
                                   /\ Lists(ranges, live, blocks, block_sizes)

LEMMA FollowingInit == Init => Following /\ Listed
BY DEF Init, Following, Listed

\* The steps after which a trace is judged
LEMMA JudgingSteps ==
  ASSUME [Next]_vars, phase' = "mm_valid_op"
  PROVE  \/ eval_mm_valid \/ mm_malloc_answers \/ mm_realloc_answers \/ mm_free_returns
         \/ UNCHANGED vars
<1> USE DEF exit
<1>1. ~ main
  BY DEF main
<1>2. ~ read_trace("libc_read", "libc_valid") /\ ~ read_trace("mm_read", "mm_valid")
  BY DEF read_trace
<1>3. ~ eval_libc_valid /\ ~ mem_init /\ ~ libc_secs /\ ~ mm_secs /\ ~ NotValid
  BY DEF eval_libc_valid, mem_init, libc_secs, mm_secs, NotValid, NextTrace
<1>4. /\ ~ Start("libc_timed", "libc_speed") /\ ~ Run("libc_timed", "libc_speed")
      /\ ~ Start("mm_timed", "mm_speed") /\ ~ Run("mm_timed", "mm_speed")
  BY DEF Start, Run
<1>5. ~ Served /\ ~ eval_mm_util /\ ~ Utilize /\ ~ Utilized /\ ~ Score
  BY DEF Served, Judged, eval_mm_util, Utilize, Utilized, Score
<1> QED
  BY <1>1, <1>2, <1>3, <1>4, <1>5 DEF Next

\* and those after which its utilization is measured
LEMMA MeasuringSteps ==
  ASSUME [Next]_vars, phase' = "mm_util"
  PROVE  eval_mm_util \/ Utilize \/ UNCHANGED vars
<1> USE DEF exit
<1>1. ~ main
  BY DEF main
<1>2. ~ read_trace("libc_read", "libc_valid") /\ ~ read_trace("mm_read", "mm_valid")
  BY DEF read_trace
<1>3. ~ eval_libc_valid /\ ~ mem_init /\ ~ libc_secs /\ ~ mm_secs /\ ~ NotValid
  BY DEF eval_libc_valid, mem_init, libc_secs, mm_secs, NotValid, NextTrace
<1>4. /\ ~ Start("libc_timed", "libc_speed") /\ ~ Run("libc_timed", "libc_speed")
      /\ ~ Start("mm_timed", "mm_speed") /\ ~ Run("mm_timed", "mm_speed")
  BY DEF Start, Run
<1>5. ~ Served /\ ~ eval_mm_valid /\ ~ Utilized /\ ~ Score
  BY DEF Served, Judged, eval_mm_valid, Invalid, Utilized, Score
<1>6. ~ mm_malloc_answers /\ ~ mm_realloc_answers /\ ~ mm_free_returns
  BY DEF mm_malloc_answers, mm_realloc_answers, mm_free_returns, Refused, Invalid, Judged, Remember
<1> QED
  BY <1>1, <1>2, <1>3, <1>4, <1>5, <1>6 DEF Next

\* The request in hand, and what it leaves allocated
LEMMA RequestServed ==
  ASSUME InTrace, Following, phase \in {"mm_valid_op", "mm_util"}, op <= trace.num_ops
  PROVE  /\ request.index \in Nat /\ request.size \in Nat /\ request.type \in {"a", "r", "f"}
         /\ request.type # "f" => request.size \in Nat \ {0}
         /\ request.index \in live <=> request.type \in {"r", "f"}
         /\ op + 1 \in Nat \ {0}
         /\ {id \in Nat : Allocated(trace.ops, op + 1, id)}
              = IF request.type = "f" THEN live \ {request.index} ELSE live \cup {request.index}
<1>1. op \in Nat \ {0} /\ live = {id \in Nat : Allocated(trace.ops, op, id)} /\ phase \in WithTrace
  BY DEF Following, WithTrace
<1>2. op \in DOMAIN trace.ops
  BY <1>1, Requests
<1>3. /\ request.index \in Nat /\ request.size \in Nat /\ request.type \in {"a", "r", "f"}
      /\ request.type # "f" => request.size > 0
      /\ Allocated(trace.ops, op, request.index) <=> request.type \in {"r", "f"}
  BY <1>1, <1>2, Requests DEF request
<1>4. \A id : Allocated(trace.ops, op + 1, id)
                <=> IF request.type = "f" THEN Allocated(trace.ops, op, id) /\ request.index # id
                    ELSE Allocated(trace.ops, op, id) \/ request.index = id
  BY <1>1, AllocatedNext DEF request
<1> QED
  BY <1>1, <1>3, <1>4

LEMMA FollowingStep ==
  ASSUME InTrace, Positioned, Following, [Next]_vars
  PROVE  Following'
<1> SUFFICES ASSUME phase' \in {"mm_valid_op", "mm_util"}
             PROVE  op' \in Nat \ {0} /\ live' = {id \in Nat : Allocated(trace'.ops, op', id)}
  BY DEF Following
<1> USE DEF exit
<1>1. CASE eval_mm_valid
  BY <1>1, NothingAtFirst DEF eval_mm_valid, Invalid, Judged, Positioned, AtFirst
<1>2. CASE eval_mm_util
  BY <1>2, NothingAtFirst DEF eval_mm_util
<1>3. CASE mm_malloc_answers \/ mm_realloc_answers
  <2>1. /\ phase = "mm_valid_op" /\ op <= trace.num_ops /\ request.type # "f"
        /\ op' = op + 1 /\ live' = live \cup {request.index} /\ trace' = trace
    BY <1>3 DEF mm_malloc_answers, mm_realloc_answers, Refused, Invalid, Judged, Remember
  <2> QED
    BY <2>1, RequestServed
<1>4. CASE mm_free_returns
  <2>1. /\ phase = "mm_valid_op" /\ op <= trace.num_ops /\ request.type = "f"
        /\ op' = op + 1 /\ live' = live \ {request.index} /\ trace' = trace
    BY <1>4 DEF mm_free_returns
  <2> QED
    BY <2>1, RequestServed
<1>5. CASE Utilize
  <2>1. /\ phase = "mm_util" /\ op <= trace.num_ops /\ op' = op + 1 /\ trace' = trace
        /\ live' = IF request.type = "f" THEN live \ {request.index} ELSE live \cup {request.index}
    BY <1>5 DEF Utilize
  <2> QED
    BY <2>1, RequestServed
<1>6. CASE UNCHANGED vars
  BY <1>6 DEF vars, heap, Following
<1> QED
  BY <1>1, <1>2, <1>3, <1>4, <1>5, <1>6, JudgingSteps, MeasuringSteps

\* An address that is answered
LEMMA AnswerType ==
  /\ \A p \in Addresses : p \in Int
  /\ ALIGNMENT \in Nat \ {0} /\ MAX_HEAP \in Nat
BY DriverAssumption

LEMMA ListedStep ==
  ASSUME InTrace, Following, Listed, [Next]_vars
  PROVE  Listed'
<1> SUFFICES ASSUME phase' = "mm_valid_op"
             PROVE  /\ Placed(live', blocks', block_sizes')
                    /\ Lists(ranges', live', blocks', block_sizes')
  BY DEF Listed
<1>1. CASE eval_mm_valid
  <2>1. live' = {} /\ ranges' = <<>>
    BY <1>1 DEF eval_mm_valid, Invalid, Judged, clear_ranges
  <2>2. IsFiniteSet({}) /\ Cardinality({}) = 0
    BY FS_EmptySet
  <2> QED
    BY <2>1, <2>2 DEF Placed, Lists
<1>2. CASE mm_malloc_answers
  <2>1. PICK p \in Addresses : /\ phase = "mm_valid_op" /\ op <= trace.num_ops /\ request.type = "a"
                               /\ Addable(ranges, range_t(p, request.size)) /\ Remember(p, ranges)
    BY <1>2 DEF mm_malloc_answers, Refused, Invalid, Judged
  <2>2. /\ Placed(live, blocks, block_sizes) /\ Lists(ranges, live, blocks, block_sizes)
        /\ request.index \notin live /\ request.size \in Nat \ {0} /\ p \in Int
    BY <2>1, RequestServed, AnswerType DEF Listed
  <2>3. \A r \in ToSet(ranges) : ~ Overlaps(range_t(p, request.size), r)
    BY <2>1 DEF Addable
  <2> QED
    BY <2>1, <2>2, <2>3, Prepended DEF Remember
<1>3. CASE mm_realloc_answers
  <2> DEFINE list == remove_range(ranges, blocks[request.index])
  <2>1. PICK p \in Addresses : /\ phase = "mm_valid_op" /\ op <= trace.num_ops /\ request.type = "r"
                               /\ Addable(list, range_t(p, request.size)) /\ Remember(p, list)
    BY <1>3 DEF mm_realloc_answers, Refused, Invalid, Judged
  <2>2. /\ Placed(live, blocks, block_sizes) /\ Lists(ranges, live, blocks, block_sizes)
        /\ request.index \in live /\ request.size \in Nat \ {0} /\ p \in Int
    BY <2>1, RequestServed, AnswerType DEF Listed
  <2>3. /\ Placed(live \ {request.index}, blocks, block_sizes)
        /\ Lists(list, live \ {request.index}, blocks, block_sizes)
    BY <2>2, Removed
  <2> HIDE DEF list
  <2>4. \A r \in ToSet(list) : ~ Overlaps(range_t(p, request.size), r)
    BY <2>1 DEF Addable
  <2>5. (live \ {request.index}) \cup {request.index} = live' /\ live' = live \cup {request.index}
    BY <2>1, <2>2 DEF Remember
  <2>6. request.index \notin live \ {request.index}
    OBVIOUS
  <2>7. /\ Placed((live \ {request.index}) \cup {request.index}, blocks', block_sizes')
        /\ Lists(ranges', (live \ {request.index}) \cup {request.index}, blocks', block_sizes')
    BY <2>1, <2>2, <2>3, <2>4, <2>6, Prepended DEF Remember
  <2> QED
    BY <2>5, <2>7
<1>4. CASE mm_free_returns
  <2>1. /\ phase = "mm_valid_op" /\ op <= trace.num_ops /\ request.type = "f"
        /\ ranges' = remove_range(ranges, blocks[request.index])
        /\ live' = live \ {request.index} /\ UNCHANGED <<blocks, block_sizes>>
    BY <1>4 DEF mm_free_returns
  <2>2. /\ Placed(live, blocks, block_sizes) /\ Lists(ranges, live, blocks, block_sizes)
        /\ request.index \in live
    BY <2>1, RequestServed DEF Listed
  <2> QED
    BY <2>1, <2>2, Removed
<1>5. CASE UNCHANGED vars
  BY <1>5 DEF vars, heap, Listed
<1> QED
  BY <1>1, <1>2, <1>3, <1>4, <1>5, JudgingSteps

JudgedInv == InTrace /\ Positioned /\ Following /\ Listed

LEMMA JudgedInvariant == Spec => []JudgedInv
<1>1. Init => JudgedInv
  BY InTraceInit, FollowingInit DEF JudgedInv
<1>2. JudgedInv /\ [Next]_vars => JudgedInv'
  BY InTraceStep, FollowingStep, ListedStep DEF JudgedInv
<1> QED
  BY <1>1, <1>2, PTL DEF Spec

\* While a trace is judged, the range list of the driver holds the range of
\* each allocated block once, and nothing else, whatever the allocator answers
\* and whatever consistent trace is read: add_range, remove_range and the three
\* kinds of request keep them together (mdriver.c:376-443, 596-668).
THEOREM RangesFollowTheTrace == Spec => []RangesAreLive
<1>1. JudgedInv => RangesAreLive
  <2> SUFFICES ASSUME JudgedInv, phase = "mm_valid_op"
               PROVE  /\ ToSet(ranges) = {range_t(blocks[id], block_sizes[id]) : id \in live}
                      /\ Len(ranges) = Cardinality(live)
    BY DEF RangesAreLive
  <2>1. Lists(ranges, live, blocks, block_sizes)
    BY DEF JudgedInv, Listed
  <2> QED
    BY <2>1 DEF Lists, ToSet
<1> QED
  BY <1>1, JudgedInvariant, PTL

-----------------------------------------------------------------------------
(* The samples of fcyc. *)

\* A nonempty set of numbers has a least one.
LEMMA LeastNumber ==
  ASSUME NEW S, S \subseteq Nat, S # {}
  PROVE  \E n \in S : \A m \in S : n <= m
<1>1. IsWellFoundedOn(OpToRel(<, Nat), Nat)
  BY NatLessThanWellFounded
<1>2. PICK n \in S : \A m \in S : ~ (<<m, n>> \in OpToRel(<, Nat))
  BY <1>1, WFMin, Zenon
<1>3. \A m \in S : ~ (m < n)
  BY <1>2 DEF OpToRel
<1> QED
  BY <1>3

Ascending(vs, n) == \A j, k \in 1 .. n : j < k => vs[j] <= vs[k]

\* The values vs are the least of the samples ss, and which.
Least(vs, ss, place) ==
  /\ place \in [DOMAIN vs -> DOMAIN ss]
  /\ \A j, k \in DOMAIN vs : place[j] = place[k] => j = k
  /\ \A k \in DOMAIN vs : vs[k] = ss[place[k]]
  /\ \A n \in DOMAIN ss : (\A k \in DOMAIN vs : place[k] # n)
       => Len(vs) = kbest /\ \A k \in DOMAIN vs : vs[k] <= ss[n]

\* The insertion sort puts the last value in its place among the others.
LEMMA SinkKeeps ==
  ASSUME NEW vs \in Seq(Int), NEW pos \in Nat \ {0}, pos = Len(vs), Ascending(vs, pos - 1),
         NEW ss, NEW place, Least(vs, ss, place)
  PROVE  /\ Sink(vs, pos) \in Seq(Int) /\ Len(Sink(vs, pos)) = pos
         /\ Ascending(Sink(vs, pos), pos)
         /\ \E p : Least(Sink(vs, pos), ss, p)
<1> DEFINE Here(k) == /\ \A j \in k .. pos - 1 : vs[j] > vs[pos]
                      /\ k > 1 => vs[k - 1] <= vs[pos]
           at == CHOOSE k \in 1 .. pos : Here(k)
           out == Sink(vs, pos)
           old == [j \in 1 .. pos |-> IF j = at THEN pos ELSE IF j \in at + 1 .. pos THEN j - 1 ELSE j]
<1>1. DOMAIN vs = 1 .. pos /\ \A k \in 1 .. pos : vs[k] \in Int
  OBVIOUS
<1>2. \E k \in 1 .. pos : Here(k)
  <2> DEFINE S == {k \in 1 .. pos : \A j \in k .. pos - 1 : vs[j] > vs[pos]}
  <2>1. S \subseteq Nat /\ pos \in S
    OBVIOUS
  <2>2. PICK k \in S : \A m \in S : k <= m
    <3> HIDE DEF S
    <3> QED
      BY <2>1, LeastNumber
  <2>3. ASSUME k > 1, ~ (vs[k - 1] <= vs[pos])
        PROVE  FALSE
    <3>1. k - 1 \in 1 .. pos /\ vs[k - 1] > vs[pos]
      BY <1>1, <2>3
    <3>2. k - 1 .. pos - 1 = {k - 1} \cup (k .. pos - 1)
      BY <2>3
    <3>3. k - 1 \in S
      BY <3>1, <3>2
    <3> HIDE DEF S
    <3> QED
      BY <2>1, <2>2, <3>3
  <2> QED
    BY <2>2, <2>3
<1>3. at \in 1 .. pos /\ Here(at)
  <2> HIDE DEF Here
  <2> QED
    BY <1>2
<1>4. out = [j \in 1 .. pos |-> vs[old[j]]]
  <2>1. out = [j \in 1 .. pos |-> IF j = at THEN vs[pos]
                                  ELSE IF j \in at + 1 .. pos THEN vs[j - 1] ELSE vs[j]]
    BY <1>1 DEF Sink
  <2>2. at \in Int
    BY <1>3
  <2> HIDE DEF out, at
  <2> QED
    BY <2>1, <2>2
<1>5. /\ old \in [1 .. pos -> 1 .. pos]
      /\ \A j, k \in 1 .. pos : old[j] = old[k] => j = k
  <2> HIDE DEF at
  <2> QED
    BY <1>3, SMTT(60)
<1>6. \A k \in 1 .. pos : \E j \in 1 .. pos : old[j] = k
  <2> HIDE DEF at
  <2> SUFFICES ASSUME NEW k \in 1 .. pos PROVE \E j \in 1 .. pos : old[j] = k
    OBVIOUS
  <2>1. CASE k = pos
    BY <1>3, <2>1
  <2>2. CASE k # pos /\ k < at
    BY <1>3, <2>2
  <2>3. CASE k # pos /\ ~ (k < at)
    <3>1. k + 1 \in 1 .. pos /\ old[k + 1] = k
      BY <1>3, <2>3
    <3> QED
      BY <3>1
  <2> QED
    BY <2>1, <2>2, <2>3
<1>7. out \in Seq(Int) /\ Len(out) = pos /\ DOMAIN out = 1 .. pos
  <2>1. out \in [1 .. pos -> Int]
    <3> HIDE DEF old
    <3> QED
      BY <1>1, <1>4, <1>5
  <2> HIDE DEF out
  <2> QED
    BY <2>1
<1>8. Ascending(out, pos)
  <2> SUFFICES ASSUME NEW j \in 1 .. pos, NEW k \in 1 .. pos, j < k
               PROVE  vs[old[j]] <= vs[old[k]]
    <3> HIDE DEF old, out
    <3> QED
      BY <1>4 DEF Ascending
  <2>1. \A m, n \in 1 .. pos - 1 : m <= n => vs[m] <= vs[n]
    BY <1>1 DEF Ascending
  <2>2. CASE j # at /\ k # at
    <3>1. old[j] \in 1 .. pos - 1 /\ old[k] \in 1 .. pos - 1 /\ old[j] <= old[k]
      <4> HIDE DEF at
      <4> QED
        BY <1>3, <2>2
    <3> HIDE DEF old
    <3> QED
      BY <2>1, <3>1
  <2>3. CASE j = at
    <3>1. old[j] = pos /\ old[k] = k - 1 /\ k - 1 \in at .. pos - 1
      <4> HIDE DEF at
      <4> QED
        BY <1>3, <2>3
    <3> HIDE DEF at
    <3>2. vs[k - 1] > vs[pos]
      BY <1>3, <3>1
    <3>3. vs[k - 1] \in Int /\ vs[pos] \in Int
      BY <1>1, <1>3, <3>1
    <3> HIDE DEF old
    <3> QED
      BY <3>1, <3>2, <3>3
  <2>4. CASE k = at
    <3>1. old[k] = pos /\ old[j] = j /\ j <= at - 1 /\ at - 1 \in 1 .. pos - 1 /\ at > 1
      <4> HIDE DEF at
      <4> QED
        BY <1>3, <2>4
    <3> HIDE DEF at
    <3>2. vs[at - 1] <= vs[pos]
      BY <1>3, <3>1
    <3>4. j \in 1 .. pos - 1
      BY <3>1
    <3>5. vs[j] <= vs[at - 1]
      BY <2>1, <3>1, <3>4
    <3>3. vs[at - 1] \in Int /\ vs[pos] \in Int /\ vs[j] \in Int
      BY <1>1, <3>1, SMTT(60)
    <3> HIDE DEF old
    <3> QED
      BY <3>1, <3>2, <3>3, <3>5
  <2> QED
    BY <2>2, <2>3, <2>4
<1>9. \E p : Least(out, ss, p)
  <2> DEFINE p == [j \in 1 .. pos |-> place[old[j]]]
  <2> HIDE DEF old, out
  <2>1. p \in [DOMAIN out -> DOMAIN ss] /\ \A j, k \in DOMAIN out : p[j] = p[k] => j = k
    BY <1>1, <1>5, <1>7 DEF Least
  <2>2. \A k \in DOMAIN out : out[k] = ss[p[k]]
    BY <1>1, <1>4, <1>5, <1>7 DEF Least
  <2>3. ASSUME NEW n \in DOMAIN ss, \A k \in DOMAIN out : p[k] # n
        PROVE  Len(out) = kbest /\ \A k \in DOMAIN out : out[k] <= ss[n]
    <3>1. \A k \in DOMAIN vs : place[k] # n
      BY <1>1, <1>6, <1>7, <2>3
    <3>2. Len(vs) = kbest /\ \A k \in DOMAIN vs : vs[k] <= ss[n]
      BY <3>1 DEF Least
    <3> QED
      BY <1>1, <1>4, <1>5, <1>7, <3>2
  <2>4. Least(out, ss, p)
    <3> HIDE DEF p
    <3> QED
      BY <2>1, <2>2, <2>3 DEF Least
  <2> QED
    BY <2>4
<1> QED
  BY <1>7, <1>8, <1>9

\* The samples, and what the sampler keeps of them
Sampling ==
  /\ samples \in Seq(Int) /\ samplecount = Len(samples)
  /\ values \in Seq(Int)
  /\ Len(values) = IF Len(samples) < kbest THEN Len(samples) ELSE kbest
  /\ Ascending(values, Len(values))
  /\ \E place : Least(values, samples, place)

LEMMA Appended ==
  ASSUME NEW S, NEW s \in Seq(S), NEW e \in S
  PROVE  /\ Append(s, e) \in Seq(S) /\ Len(Append(s, e)) = Len(s) + 1
         /\ DOMAIN Append(s, e) = (1 .. Len(s)) \cup {Len(s) + 1}
         /\ DOMAIN s = 1 .. Len(s) /\ Len(s) + 1 \notin 1 .. Len(s)
         /\ Append(s, e)[Len(s) + 1] = e
         /\ \A k \in 1 .. Len(s) : Append(s, e)[k] = s[k]
OBVIOUS

LEMMA NoSamples == samples = <<>> /\ values = <<>> /\ samplecount = 0 => Sampling
<1> SUFFICES ASSUME samples = <<>>, values = <<>>, samplecount = 0 PROVE Sampling
  OBVIOUS
<1>1. Len(<<>>) = 0 /\ DOMAIN <<>> = {} /\ kbest > 0
  BY TimingAssumption
<1>2. Least(values, samples, [k \in {} |-> 0])
  BY <1>1 DEF Least
<1> QED
  BY <1>1, <1>2 DEF Sampling, Ascending

LEMMA add_sampleKeeps ==
  ASSUME Sampling, NEW val \in Int,
         samples' = Append(samples, val), samplecount' = samplecount + 1, values' = add_sample(val)
  PROVE  Sampling'
<1> DEFINE n == Len(samples)
           m == Len(values)
           ss == Append(samples, val)
<1>1. /\ samples \in Seq(Int) /\ values \in Seq(Int) /\ samplecount = n
      /\ m = IF n < kbest THEN n ELSE kbest
      /\ Ascending(values, m) /\ kbest \in Nat \ {0} /\ n \in Nat /\ m \in Nat
      /\ DOMAIN samples = 1 .. n /\ DOMAIN values = 1 .. m
  BY TimingAssumption DEF Sampling
<1>2. PICK place : Least(values, samples, place)
  BY DEF Sampling
<1> HIDE DEF m
<1>3. /\ ss \in Seq(Int) /\ Len(ss) = n + 1 /\ DOMAIN ss = (1 .. n) \cup {n + 1} /\ ss[n + 1] = val
      /\ \A k \in 1 .. n : ss[k] = samples[k]
  <2>1. samples \in Seq(Int)
    BY <1>1
  <2> HIDE DEF ss, n
  <2>2. /\ ss \in Seq(Int) /\ Len(ss) = Len(samples) + 1
        /\ DOMAIN ss = (1 .. Len(samples)) \cup {Len(samples) + 1}
        /\ ss[Len(samples) + 1] = val
        /\ \A k \in 1 .. Len(samples) : ss[k] = samples[k]
    BY <2>1, Appended DEF ss
  <2> QED
    BY <2>2 DEF n
<1>4. \A k \in 1 .. m : place[k] \in 1 .. n /\ values[k] = samples[place[k]] /\ values[k] \in Int
  <2>1. \A k \in 1 .. m : values[k] \in Int
    BY <1>1 DEF m
  <2> HIDE DEF n
  <2>2. \A k \in 1 .. m : place[k] \in 1 .. n /\ values[k] = samples[place[k]]
    BY <1>1, <1>2 DEF Least
  <2> QED
    BY <2>1, <2>2
<1>5. samples' = ss
  OBVIOUS
<1>9. \A j, k \in DOMAIN values : place[j] = place[k] => j = k
  BY <1>2 DEF Least
<1>10. DOMAIN values = 1 .. m
  BY <1>1
<1> HIDE DEF n, ss
<1>11. n + 1 \notin 1 .. n
  BY <1>1
<1>6. CASE n < kbest
  <2> DEFINE vs == Append(values, val)
             pl == [k \in (1 .. n) \cup {n + 1} |-> IF k = n + 1 THEN n + 1 ELSE place[k]]
  <2>1. m = n /\ values' = Sink(vs, n + 1)
    BY <1>1, <1>6 DEF add_sample
  <2>2. /\ vs \in Seq(Int) /\ Len(vs) = n + 1 /\ DOMAIN vs = (1 .. n) \cup {n + 1} /\ vs[n + 1] = val
        /\ \A k \in 1 .. n : vs[k] = values[k]
    BY <1>1, <2>1, Appended DEF m
  <2> HIDE DEF vs
  <2>3. Ascending(vs, n)
    BY <1>1, <2>1, <2>2 DEF Ascending
  <2>4. Least(vs, ss, pl)
    <3>1. \A k \in 1 .. n : pl[k] = place[k] /\ place[k] \in 1 .. n
      BY <1>1, <1>4, <2>1
    <3>2. pl[n + 1] = n + 1
      BY <1>1
    <3>3. pl \in [DOMAIN vs -> DOMAIN ss]
      BY <1>1, <1>3, <1>4, <2>1, <2>2
    <3> HIDE DEF pl
    <3>4. ASSUME NEW j \in DOMAIN vs, NEW k \in DOMAIN vs, pl[j] = pl[k]
          PROVE  j = k
      <4>1. CASE j \in 1 .. n /\ k \in 1 .. n
        <5>2. place[j] = place[k]
          BY <3>1, <3>4, <4>1
        <5>1. place[j] = place[k] /\ j \in DOMAIN values /\ k \in DOMAIN values
          BY <1>1, <1>10, <2>1, <4>1, <5>2
        <5> QED
          BY <1>9, <5>1
      <4>2. CASE j = n + 1 \/ k = n + 1
        <5>1. \A i1 \in 1 .. n : pl[i1] # n + 1
          BY <1>11, <3>1
        <5> QED
          BY <2>2, <3>2, <3>4, <4>2, <5>1
      <4> QED
        BY <2>2, <4>1, <4>2
    <3>5. \A k \in DOMAIN vs : vs[k] = ss[pl[k]]
      <4>1. \A k \in 1 .. n : vs[k] = ss[pl[k]]
        BY <1>3, <1>4, <2>1, <2>2, <3>1, SMTT(60)
      <4>2. vs[n + 1] = ss[pl[n + 1]]
        BY <1>3, <2>2, <3>2
      <4> QED
        BY <2>2, <4>1, <4>2
    <3>6. ASSUME NEW i1 \in DOMAIN ss, \A k \in DOMAIN vs : pl[k] # i1
          PROVE  FALSE
      <4>1. i1 \in 1 .. n
        BY <1>3, <2>2, <3>2, <3>6
      <4>2. \A k \in 1 .. m : place[k] # i1
        BY <1>1, <2>1, <2>2, <3>1, <3>6
      <4>3. m = kbest
        BY <1>1, <1>2, <4>1, <4>2 DEF Least, m
      <4> QED
        BY <1>1, <1>6, <2>1, <4>3
    <3> QED
      BY <3>3, <3>4, <3>5, <3>6 DEF Least
  <2> HIDE DEF pl
  <2>5. /\ values' \in Seq(Int) /\ Len(values') = n + 1 /\ Ascending(values', n + 1)
        /\ \E p : Least(values', ss, p)
    <3>1. n + 1 \in Nat \ {0} /\ (n + 1) - 1 = n
      BY <1>1
    <3> QED
      BY <2>1, <2>2, <2>3, <2>4, <3>1, SinkKeeps
  <2> QED
    <3>1. n + 1 = IF n + 1 < kbest THEN n + 1 ELSE kbest
      BY <1>1, <1>6
    <3> QED
      BY <1>1, <1>3, <1>5, <2>5, <3>1 DEF Sampling
<1>7. CASE ~ (n < kbest) /\ val < values[kbest]
  <2> DEFINE vs == [values EXCEPT ![kbest] = val]
             pl == [k \in (1 .. kbest - 1) \cup {kbest} |-> IF k = kbest THEN n + 1 ELSE place[k]]
  <2>1. m = kbest /\ values' = Sink(vs, kbest)
    BY <1>1, <1>7 DEF add_sample
  <2>2. /\ vs \in Seq(Int) /\ Len(vs) = kbest /\ DOMAIN vs = (1 .. kbest - 1) \cup {kbest} /\ vs[kbest] = val
        /\ \A k \in 1 .. kbest - 1 : vs[k] = values[k]
    BY <1>1, <2>1 DEF m
  <2> HIDE DEF vs
  <2>3. Ascending(vs, kbest - 1)
    BY <1>1, <2>1, <2>2 DEF Ascending
  <2>4. \A k \in 1 .. kbest : values[k] \in Int /\ values[k] <= values[kbest] /\ vs[k] \in Int /\ vs[k] <= values[k]
    BY <1>1, <1>4, <1>7, <2>1, <2>2 DEF Ascending
  <2>5. Least(vs, ss, pl)
    <3>1. \A k \in 1 .. kbest - 1 : pl[k] = place[k] /\ place[k] \in 1 .. n
      BY <1>1, <1>4, <2>1
    <3>2. pl[kbest] = n + 1
      BY <1>1
    <3>3. pl \in [DOMAIN vs -> DOMAIN ss]
      BY <1>1, <1>3, <1>4, <2>1, <2>2
    <3> HIDE DEF pl
    <3>4. ASSUME NEW j \in DOMAIN vs, NEW k \in DOMAIN vs, pl[j] = pl[k]
          PROVE  j = k
      <4>1. CASE j \in 1 .. kbest - 1 /\ k \in 1 .. kbest - 1
        <5>2. place[j] = place[k]
          BY <3>1, <3>4, <4>1
        <5>1. place[j] = place[k] /\ j \in DOMAIN values /\ k \in DOMAIN values
          BY <1>1, <1>10, <2>1, <4>1, <5>2, SMTT(60)
        <5> QED
          BY <1>9, <5>1
      <4>2. CASE j = kbest \/ k = kbest
        <5>1. \A i1 \in 1 .. kbest - 1 : pl[i1] # n + 1
          BY <1>11, <3>1
        <5> QED
          BY <2>2, <3>2, <3>4, <4>2, <5>1
      <4>3. j \in (1 .. kbest - 1) \cup {kbest} /\ k \in (1 .. kbest - 1) \cup {kbest}
        BY <2>2, <3>4
      <4> QED
        BY <4>1, <4>2, <4>3
    <3>5. \A k \in DOMAIN vs : vs[k] = ss[pl[k]]
      <4>1. ASSUME NEW k \in 1 .. kbest - 1
            PROVE  vs[k] = ss[pl[k]]
        <5>1. k \in 1 .. m
          BY <1>1, <2>1
        <5>2. values[k] = samples[place[k]] /\ ss[place[k]] = samples[place[k]] /\ vs[k] = values[k]
          BY <1>3, <1>4, <2>2, <5>1
        <5> QED
          BY <3>1, <5>2
      <4>2. vs[kbest] = ss[pl[kbest]]
        BY <1>3, <2>2, <3>2
      <4> QED
        BY <2>2, <4>1, <4>2
    <3>6. ASSUME NEW i1 \in DOMAIN ss, \A k \in DOMAIN vs : pl[k] # i1
          PROVE  Len(vs) = kbest /\ \A k \in DOMAIN vs : vs[k] <= ss[i1]
      <4>1. i1 \in 1 .. n /\ ss[i1] = samples[i1] /\ samples[i1] \in Int
        <5>1. i1 \in 1 .. n
          BY <1>3, <2>2, <3>2, <3>6
        <5> QED
          BY <1>1, <1>3, <5>1
      <4>2. \A k \in 1 .. kbest - 1 : place[k] # i1
        BY <1>1, <2>1, <2>2, <3>1, <3>6
      <4>3. values[kbest] <= samples[i1]
        <5>1. CASE place[kbest] = i1
          BY <1>1, <1>4, <2>1, <4>1, <5>1
        <5>2. CASE place[kbest] # i1
          <6>1. \A k \in DOMAIN values : place[k] # i1
            BY <1>1, <2>1, <4>2, <5>2
          <6>2. kbest \in DOMAIN values /\ i1 \in DOMAIN samples
            BY <1>1, <2>1, <4>1
          <6> QED
            BY <1>2, <6>1, <6>2 DEF Least
        <5> QED
          BY <5>1, <5>2
      <4>4. values[kbest] \in Int
        BY <1>1, <2>4
      <4>5. \A k \in 1 .. kbest : vs[k] <= ss[i1]
        BY <2>4, <4>1, <4>3, <4>4
      <4>6. DOMAIN vs = 1 .. kbest
        BY <1>1, <2>2
      <4> QED
        BY <2>2, <4>5, <4>6
    <3> QED
      BY <3>3, <3>4, <3>5, <3>6 DEF Least
  <2> HIDE DEF pl
  <2>6. /\ values' \in Seq(Int) /\ Len(values') = kbest /\ Ascending(values', kbest)
        /\ \E p : Least(values', ss, p)
    BY <1>1, <2>1, <2>2, <2>3, <2>5, SinkKeeps
  <2> QED
    <3>1. kbest = IF n + 1 < kbest THEN n + 1 ELSE kbest
      BY <1>1, <1>7
    <3> QED
      BY <1>1, <1>3, <1>5, <2>6, <3>1 DEF Sampling
<1>8. CASE ~ (n < kbest) /\ ~ (val < values[kbest])
  <2>1. m = kbest /\ values' = values
    BY <1>1, <1>8 DEF add_sample
  <2>2. \A k \in 1 .. m : values[k] <= val
    <3>1. kbest \in 1 .. m
      BY <1>1, <2>1
    <3>2. \A k \in 1 .. m : values[k] <= values[kbest] /\ values[k] \in Int
      BY <1>1, <1>4, <2>1, <3>1 DEF Ascending
    <3>3. values[kbest] <= val
      BY <1>4, <1>8, <3>1
    <3> QED
      BY <3>1, <3>2, <3>3
  <2>3. Least(values, ss, place)
    <3>1. place \in [DOMAIN values -> DOMAIN ss] /\ \A j, k \in DOMAIN values : place[j] = place[k] => j = k
      BY <1>1, <1>2, <1>3 DEF Least
    <3>2. \A k \in DOMAIN values : values[k] = ss[place[k]]
      BY <1>1, <1>3, <1>4
    <3>3. ASSUME NEW i1 \in DOMAIN ss, \A k \in DOMAIN values : place[k] # i1
          PROVE  Len(values) = kbest /\ \A k \in DOMAIN values : values[k] <= ss[i1]
      <4>1. CASE i1 = n + 1
        BY <1>1, <1>3, <2>1, <2>2, <4>1 DEF m
      <4>2. CASE i1 # n + 1
        <5>1. i1 \in DOMAIN samples /\ ss[i1] = samples[i1]
          BY <1>1, <1>3, <4>2
        <5> QED
          BY <1>2, <3>3, <5>1 DEF Least
      <4> QED
        BY <4>1, <4>2
    <3> QED
      BY <3>1, <3>2, <3>3 DEF Least
  <2>4. Len(values') = m /\ m = IF n + 1 < kbest THEN n + 1 ELSE kbest
    BY <1>1, <1>8, <2>1 DEF m
  <2> QED
    BY <1>1, <1>3, <1>5, <2>1, <2>3, <2>4 DEF Sampling
<1> QED
  BY <1>6, <1>7, <1>8

-----------------------------------------------------------------------------
(* The clocks. *)

LEMMA Euclid ==
  ASSUME NEW a \in Int, NEW n \in Nat \ {0}
  PROVE  \E q \in Int, r \in 0 .. n - 1 : q = a \div n /\ r = a % n /\ a = n * q + r
<1>1. a \div n \in Int /\ a % n \in 0 .. n - 1
  OBVIOUS
<1>2. PICK q \in Int, r \in Nat : q = a \div n /\ r = a % n
  BY <1>1
<1>3. a = n * q + r
  BY <1>2
<1> QED
  BY <1>1, <1>2, <1>3

LEMMA OneQuotient ==
  ASSUME NEW n \in Nat \ {0}, NEW p \in Int, NEW q \in Int,
         NEW r \in 0 .. n - 1, NEW t \in 0 .. n - 1, n * q + r = n * p + t
  PROVE  p = q /\ r = t
<1>1. CASE p < q
  <2>1. n * q >= n * (p + 1)
    BY <1>1
  <2> QED
    BY <2>1
<1>2. CASE p > q
  <2>1. n * p >= n * (q + 1)
    BY <1>2
  <2> QED
    BY <2>1
<1> QED
  BY <1>1, <1>2

LEMMA Remainder ==
  ASSUME NEW n \in Nat \ {0}, NEW k \in Int, NEW x \in 0 .. n - 1
  PROVE  (n * k + x) % n = x
<1>1. PICK a \in Int : a = n * k + x
  OBVIOUS
<1>2. PICK q \in Int, r \in 0 .. n - 1 : q = a \div n /\ r = a % n /\ a = n * q + r
  BY Euclid
<1>3. r = x
  BY <1>1, <1>2, OneQuotient
<1> QED
  BY <1>1, <1>2, <1>3

\* A difference of multiples
LEMMA Distribute ==
  ASSUME NEW n \in Int, NEW p \in Int, NEW q \in Int
  PROVE  /\ n * (p - q) = n * p - n * q
         /\ n * p \in Int /\ n * q \in Int /\ n * (p - q) \in Int
OBVIOUS

\* Two readings of the counter are as far apart as the times at which they were
\* taken, although both of its words may have wrapped in between.
LEMMA CounterElapsed ==
  ASSUME NEW s \in Nat, NEW d \in Nat, d < Word * Word
  PROVE  get_counter(access_counter(s), access_counter(s + d)) = d
<1>1. Word \in Nat \ {0}
  BY TimingAssumption
<1>2. PICK q \in Int, r \in 0 .. Word - 1 : q = s \div Word /\ r = s % Word /\ s = Word * q + r
  BY <1>1, Euclid
<1>3. PICK a \in Int, b \in 0 .. Word - 1 : a = q \div Word /\ b = q % Word /\ q = Word * a + b
  BY <1>1, Euclid
<1>4. PICK t \in Int : t = s + d
  OBVIOUS
<1>5. PICK p \in Int, u \in 0 .. Word - 1 : p = t \div Word /\ u = t % Word /\ t = Word * p + u
  BY <1>1, Euclid
<1>6. PICK c \in Int, e \in 0 .. Word - 1 : c = p \div Word /\ e = p % Word /\ p = Word * c + e
  BY <1>1, Euclid
<1>7. d = Word * (p - q) + (u - r) /\ Word * (p - q) \in Int
  <2>1. Word * (p - q) = Word * p - Word * q /\ Word * p \in Int /\ Word * q \in Int
    BY <1>1, Distribute
  <2> QED
    BY <1>2, <1>4, <1>5, <2>1, SMTT(60)
<1>8. e - b = (p - q) + Word * (a - c) /\ Word * (a - c) \in Int
  <2>1. Word * (a - c) = Word * a - Word * c /\ Word * a \in Int /\ Word * c \in Int
    BY <1>1, Distribute
  <2> QED
    BY <1>3, <1>6, <2>1
<1> DEFINE low == (u - r) % Word
           borrow == IF low > u THEN 1 ELSE 0
<1>9. get_counter(access_counter(s), access_counter(s + d)) = ((e - b - borrow) % Word) * Word + low
  BY <1>2, <1>3, <1>4, <1>5, <1>6 DEF get_counter, access_counter
<1>10. CASE u >= r
  <2>1. low = u - r /\ borrow = 0
    <3>1. Word * 0 + (u - r) = u - r /\ u - r \in 0 .. Word - 1
      BY <1>1, <1>10
    <3>2. low = u - r
      BY <1>1, <3>1, Remainder
    <3> QED
      BY <1>10, <3>2
  <2>2. p - q \in 0 .. Word - 1
    <3>1. CASE p - q < 0
      <4>1. Word * (p - q) <= Word * (0 - 1)
        BY <1>1, <3>1
      <4> QED
        BY <1>1, <1>7, <4>1
    <3>2. CASE p - q >= Word
      <4>1. Word * (p - q) >= Word * Word
        BY <1>1, <3>2
      <4> QED
        BY <1>1, <1>7, <1>10, <4>1
    <3> QED
      BY <1>1, <3>1, <3>2
  <2>3. (e - b - 0) % Word = p - q
    <3>1. e - b - 0 = Word * (a - c) + (p - q) /\ a - c \in Int
      BY <1>8
    <3> QED
      BY <1>1, <2>2, <3>1, Remainder
  <2>4. (p - q) * Word = Word * (p - q)
    BY <1>1
  <2> HIDE DEF low, borrow
  <2> QED
    BY <1>7, <1>9, <2>1, <2>3, <2>4
<1>11. CASE u < r
  <2>1. low = (u - r) + Word /\ borrow = 1
    <3>1. Word * (0 - 1) + ((u - r) + Word) = u - r /\ (u - r) + Word \in 0 .. Word - 1
      BY <1>1, <1>11
    <3>2. low = (u - r) + Word
      BY <1>1, <3>1, Remainder
    <3> QED
      BY <1>1, <3>2
  <2>2. (p - q) - 1 \in 0 .. Word - 1
    <3>1. CASE p - q < 1
      <4>1. Word * (p - q) <= Word * 0
        BY <1>1, <3>1
      <4> QED
        BY <1>1, <1>7, <1>11, <4>1
    <3>2. CASE p - q >= Word + 1
      <4>1. Word * (p - q) >= Word * (Word + 1)
        BY <1>1, <3>2
      <4>2. Word * (Word + 1) = Word * Word + Word /\ Word * Word \in Int
        BY <1>1
      <4> QED
        BY <1>1, <1>7, <4>1, <4>2
    <3> QED
      BY <1>1, <3>1, <3>2
  <2>3. (e - b - 1) % Word = (p - q) - 1
    <3>1. e - b - 1 = Word * (a - c) + ((p - q) - 1) /\ a - c \in Int
      BY <1>8
    <3> QED
      BY <1>1, <2>2, <3>1, Remainder
  <2>4. ((p - q) - 1) * Word = Word * (p - q) - Word
    BY <1>1
  <2> HIDE DEF low, borrow
  <2> QED
    BY <1>1, <1>7, <1>9, <2>1, <2>3, <2>4
<1> QED
  BY <1>1, <1>10, <1>11

\* A time, as seconds and microseconds
LEMMA TimevalIs ==
  ASSUME NEW t \in Int
  PROVE  /\ timeval(t).sec \in Int /\ timeval(t).usec \in Int /\ Second * timeval(t).sec \in Int
         /\ Second * timeval(t).sec + timeval(t).usec = t
<1>1. Second \in Nat \ {0}
  BY TimingAssumption
<1>2. PICK q \in Int, r \in 0 .. Second - 1 : q = t \div Second /\ r = t % Second /\ t = Second * q + r
  BY <1>1, Euclid
<1>3. timeval(t).sec = q /\ timeval(t).usec = r
  BY <1>2 DEF timeval
<1>4. Second * q \in Int /\ r \in Int
  BY <1>1
<1> QED
  BY <1>2, <1>3, <1>4

LEMMA WallClockElapsed ==
  ASSUME NEW s \in Int, NEW t \in Int
  PROVE  gettod_diff(timeval(s), timeval(t)) = t - s
<1>1. Second \in Nat
  BY TimingAssumption
<1>2. Second * (timeval(t).sec - timeval(s).sec) = Second * timeval(t).sec - Second * timeval(s).sec
  BY <1>1, TimevalIs, Distribute
<1> QED
  BY <1>2, TimevalIs DEF gettod_diff

LEMMA IntervalElapsed ==
  ASSUME NEW t \in Int, began \in Int
  PROVE  get_etime(it_value(t)) = t - began
<1>1. Second \in Nat
  BY TimingAssumption
<1>2. PICK x \in Int : x = MAX_ETIME * Second - (t - began)
  BY <1>1 DEF MAX_ETIME
<1>3. it_value(t) = timeval(x)
  BY <1>2 DEF it_value
<1>4. Second * (MAX_ETIME - timeval(x).sec) = Second * MAX_ETIME - Second * timeval(x).sec
  BY <1>1, TimevalIs, Distribute DEF MAX_ETIME
<1>5. Second * MAX_ETIME = MAX_ETIME * Second /\ MAX_ETIME * Second \in Int
  BY <1>1 DEF MAX_ETIME
<1>6. Second * timeval(x).sec + timeval(x).usec = x /\ Second * timeval(x).sec \in Int /\ timeval(x).usec \in Int
  BY TimevalIs
<1>7. get_etime(it_value(t)) = (MAX_ETIME * Second - Second * timeval(x).sec) - timeval(x).usec
  BY <1>3, <1>4, <1>5, <1>6 DEF get_etime
<1> QED
  BY <1>2, <1>5, <1>6, <1>7

-----------------------------------------------------------------------------
(* The times that fsecs returns. *)

Speeds == {"libc_speed", "mm_speed"}

Clocked ==
  /\ now \in Nat /\ began \in Nat /\ cyc_per_tick \in Nat /\ result \in Int
  /\ build = "USE_FCYC" => /\ Sampling /\ (result # none => result = values[1])
                           /\ phase \in Speeds => cyc = access_counter(now)
  /\ build # "USE_FCYC" => (result # none => result = now - began)

LEMMA ClockedInit == Init => Clocked
<1> SUFFICES ASSUME Init PROVE Clocked
  OBVIOUS
<1>1. samples = <<>> /\ values = <<>> /\ samplecount = 0
  BY DEF Init, TimingInit
<1>2. Sampling
  BY <1>1, NoSamples
<1> QED
  BY <1>2 DEF Clocked, Init, TimingInit, none, Speeds

\* What a step does to the clocks, and when it enters a timed function
LEMMA TimingSteps ==
  ASSUME [Next]_vars
  PROVE  \/ fsecs /\ phase' \notin Speeds
         \/ BeginRun
         \/ EndRun /\ phase \in Speeds /\ phase' \notin Speeds
         \/ Done /\ phase' \notin Speeds
         \/ UNCHANGED timing /\ (phase' \in Speeds => phase' = phase)
<1> USE DEF exit, Speeds
<1>1. CASE main \/ mem_init \/ Score
  BY <1>1 DEF main, mem_init, Score
<1>2. CASE read_trace("libc_read", "libc_valid") \/ read_trace("mm_read", "mm_valid")
  BY <1>2 DEF read_trace
<1>3. CASE eval_libc_valid
  BY <1>3 DEF eval_libc_valid
<1>4. CASE Start("libc_timed", "libc_speed") \/ Start("mm_timed", "mm_speed")
  BY <1>4 DEF Start
<1>5. CASE Run("libc_timed", "libc_speed") \/ Run("mm_timed", "mm_speed")
  BY <1>5 DEF Run
<1>6. CASE libc_secs \/ mm_secs
  BY <1>6 DEF libc_secs, mm_secs, NextTrace
<1>7. CASE eval_mm_valid
  BY <1>7 DEF eval_mm_valid, Invalid, Judged
<1>8. CASE mm_malloc_answers
  BY <1>8 DEF mm_malloc_answers, Refused, Invalid, Judged, Remember
<1>9. CASE mm_realloc_answers
  BY <1>9 DEF mm_realloc_answers, Refused, Invalid, Judged, Remember
<1>10. CASE mm_free_returns \/ Served \/ NotValid
  BY <1>10 DEF mm_free_returns, Served, Judged, NotValid, NextTrace
<1>11. CASE eval_mm_util \/ Utilize
  BY <1>11 DEF eval_mm_util, Utilize
<1>12. CASE Utilized
  BY <1>12 DEF Utilized
<1>13. CASE UNCHANGED vars
  BY <1>13 DEF vars
<1> QED
  BY <1>1, <1>2, <1>3, <1>4, <1>5, <1>6, <1>7, <1>8, <1>9, <1>10, <1>11, <1>12, <1>13 DEF Next

\* The calibration gives the least of the ticks that it has recorded.
LEMMA callibrateType ==
  ASSUME NEW events \in [1 .. NEVENT -> TickCosts]
  PROVE  callibrate(events) \in Nat
<1> DEFINE recorded == {cpt \in ToSet(events) : cpt > RECORDTHRESH}
           least == CHOOSE cpt \in recorded : \A other \in recorded : cpt <= other
<1>1. recorded \subseteq Nat
  BY TimingAssumption DEF ToSet
<1>2. callibrate(events) = IF recorded = {} THEN 0 ELSE least
  BY DEF callibrate
<1> HIDE DEF recorded
<1>3. recorded # {} => \E cpt \in recorded : \A other \in recorded : cpt <= other
  BY <1>1, LeastNumber
<1>4. recorded # {} => least \in recorded
  BY <1>3, Zenon
<1> HIDE DEF least
<1>5. CASE recorded = {}
  BY <1>2, <1>5
<1>6. CASE recorded # {}
  <2>1. callibrate(events) = least
    BY <1>2, <1>6
  <2>2. least \in Nat
    BY <1>1, <1>4, <1>6
  <2> QED
    BY <2>1, <2>2
<1> QED
  BY <1>5, <1>6

LEMMA EndRunClocked ==
  ASSUME Clocked, EndRun, phase \in Speeds, phase' \notin Speeds
  PROVE  Clocked'
<1>1. PICK duration \in Durations, ticks \in {0, 1}, cost \in TickCosts :
        /\ now' = now + duration + ticks * cost
        /\ IF build = "USE_FCYC" THEN Sampled(duration + ticks * cost, ticks) ELSE ticks = 0 /\ Timed
        /\ UNCHANGED <<build, began, cyc, cyc_per_tick>>
  BY DEF EndRun
<1>2. PICK d \in Nat : d = duration + ticks * cost /\ d < Word * Word
  <2>1. duration \in Nat /\ cost \in Nat /\ duration + cost < Word * Word /\ Word * Word \in Nat
    BY TimingAssumption
  <2>2. ticks * cost = 0 \/ ticks * cost = cost
    BY <2>1
  <2> QED
    BY <2>1, <2>2
<1>3. /\ now \in Nat /\ began \in Nat /\ cyc_per_tick \in Nat
      /\ now' = now + d /\ now' \in Nat /\ build' = build /\ began' = began /\ cyc_per_tick' = cyc_per_tick
  <2>1. duration \in Nat /\ ticks * cost \in Nat /\ now \in Nat
    BY TimingAssumption DEF Clocked
  <2> QED
    BY <1>1, <1>2, <2>1 DEF Clocked
<1>4. CASE build = "USE_FCYC"
  <2> DEFINE lost == ticks * cyc_per_tick
             val == d - lost
  <2>1. lost \in Int /\ val \in Int
    BY <1>2, <1>3
  <2>2. get_counter(cyc, access_counter(now')) = d
    <3>1. cyc = access_counter(now)
      BY <1>4 DEF Clocked
    <3> QED
      BY <1>2, <1>3, <3>1, CounterElapsed
  <2>3. /\ samples' = Append(samples, val) /\ values' = add_sample(val)
        /\ samplecount' = samplecount + 1
        /\ result' = values'[1] \/ result' = none
    BY <1>1, <1>2, <1>4, <2>2 DEF Sampled
  <2> HIDE DEF val
  <2>4. Sampling'
    BY <1>4, <2>1, <2>3, add_sampleKeeps DEF Clocked
  <2>5. values'[1] \in Int
    <3>1. samplecount \in Nat /\ samplecount' = Len(samples') /\ kbest > 0
      BY <1>4, <2>4, TimingAssumption DEF Clocked, Sampling
    <3>2. values' \in Seq(Int) /\ Len(values') > 0
      BY <2>3, <2>4, <3>1 DEF Sampling
    <3> QED
      BY <3>2
  <2>6. result' \in Int /\ (result' # none => result' = values'[1])
    BY <2>3, <2>5 DEF none
  <2> QED
    BY <1>3, <1>4, <2>4, <2>6 DEF Clocked
<1>5. CASE build # "USE_FCYC"
  <2>1. \/ result' = none
        \/ result' = get_etime(it_value(now'))
        \/ result' = gettod_diff(timeval(began), timeval(now'))
    BY <1>1, <1>5 DEF Timed
  <2>2. result' = none \/ result' = now' - began
    BY <1>3, <2>1, IntervalElapsed, WallClockElapsed
  <2> QED
    BY <1>3, <1>5, <2>2 DEF Clocked, none
<1> QED
  BY <1>4, <1>5

LEMMA ClockedStep ==
  ASSUME Clocked, [Next]_vars
  PROVE  Clocked'
<1>1. CASE (fsecs \/ Done) /\ phase' \notin Speeds
  <2>1. /\ samples' = <<>> /\ values' = <<>> /\ samplecount' = 0 /\ result' = none
        /\ now' \in Nat /\ began' \in Nat /\ cyc_per_tick' = cyc_per_tick /\ build' = build
    <3>1. CASE fsecs
      BY <3>1, TimingAssumption DEF fsecs
    <3>2. CASE Done
      BY <3>2 DEF Done
    <3> QED
      BY <1>1, <3>1, <3>2
  <2>2. Sampling'
    <3>1. (samples = <<>> /\ values = <<>> /\ samplecount = 0)'
      BY <2>1
    <3> QED
      BY <3>1, NoSamples, PTL
  <2> QED
    BY <1>1, <2>1, <2>2 DEF Clocked, none
<1>2. CASE BeginRun
  <2>1. /\ UNCHANGED <<build, now, began, values, samplecount, runs, result, samples>>
        /\ build = "USE_FCYC" => cyc' = access_counter(now)
        /\ cyc_per_tick' = cyc_per_tick \/ \E events \in [1 .. NEVENT -> TickCosts] : cyc_per_tick' = callibrate(events)
    BY <1>2 DEF BeginRun
  <2>2. cyc_per_tick' \in Nat
    BY <2>1, callibrateType DEF Clocked
  <2>3. Sampling' <=> Sampling
    BY <2>1 DEF Sampling
  <2> QED
    BY <2>1, <2>2, <2>3 DEF Clocked
<1>3. CASE EndRun /\ phase \in Speeds /\ phase' \notin Speeds
  BY <1>3, EndRunClocked
<1>4. CASE UNCHANGED timing /\ (phase' \in Speeds => phase' = phase)
  <2>1. Sampling' <=> Sampling
    BY <1>4 DEF Sampling, timing
  <2> QED
    BY <1>4, <2>1 DEF Clocked, timing
<1> QED
  BY <1>1, <1>2, <1>3, <1>4, TimingSteps

LEMMA ClockedInvariant == Spec => []Clocked
BY ClockedInit, ClockedStep, PTL DEF Spec

\* With any of the three clocks, what fsecs returns is the time between its two
\* readings; with the cycle counter, whose words wrap, it is the least of the
\* samples, of which the insertion sort keeps the kbest least in their order
\* (clock.c:53-71, fcyc.c:67-87, ftimer.c:23-101).
THEOREM TimesAreElapsed == Spec => []MeasuredIsElapsed
<1>1. ASSUME Sampling
      PROVE  HoldsLeast
  <2>1. PICK place : Least(values, samples, place)
    BY <1>1 DEF Sampling
  <2>2. place \in Injection(DOMAIN values, DOMAIN samples)
    BY <2>1 DEF Least, Injection, IsInjective
  <2>3. \A n \in DOMAIN samples \ Range(place), k \in DOMAIN values : values[k] <= samples[n]
    BY <2>1 DEF Least, Range
  <2>4. \A k \in DOMAIN values : values[k] = samples[place[k]]
    BY <2>1 DEF Least
  <2>5. DOMAIN values = 1 .. Len(values)
    BY <1>1 DEF Sampling
  <2>6. \A j, k \in DOMAIN values : j < k => values[j] <= values[k]
    BY <1>1, <2>5 DEF Sampling, Ascending
  <2>7. Len(values) = IF Len(samples) < kbest THEN Len(samples) ELSE kbest
    BY <1>1 DEF Sampling
  <2> QED
    BY <2>2, <2>3, <2>4, <2>6, <2>7 DEF HoldsLeast
<1>2. Clocked => MeasuredIsElapsed
  BY <1>1 DEF Clocked, MeasuredIsElapsed
<1> QED
  BY <1>2, ClockedInvariant, PTL

-----------------------------------------------------------------------------
(* Sums over a finite set. *)

\* One turn of the sum of f over the subsets of D, and the sum
SumFrom(g, f, D) == [T \in SUBSET D |->
                       IF T = {} THEN 0
                       ELSE LET x == CHOOSE x \in T : TRUE IN f[x] + g[T \ {x}]]
Total(f, D) == (CHOOSE g : g = SumFrom(g, f, D))[D]

\* g adds f up whatever the order
Adds(g, f, D) == /\ g \in [SUBSET D -> Int]
                 /\ g[{}] = 0
                 /\ \A T \in SUBSET D : \A x \in T : g[T] = f[x] + g[T \ {x}]

\* Some set in a nonempty set of subsets of D has none of the others in it.
LEMMA LeastSubset ==
  ASSUME NEW D, IsFiniteSet(D), NEW S, S \subseteq SUBSET D, S # {}
  PROVE  \E T \in S : \A U \in S : U \subseteq T => U = T
<1>1. IsWellFoundedOn(StrictSubsetOrdering(D), SUBSET D)
  BY FS_StrictSubsetOrderingWellFounded, FS_FiniteSubsetsOfFinite
<1>2. PICK T \in S : \A U \in S : ~ (<<U, T>> \in StrictSubsetOrdering(D))
  BY <1>1, WFMin
<1>3. ASSUME NEW U \in S, U \subseteq T, U # T
      PROVE  FALSE
  <2>1. <<U, T>> \in StrictSubsetOrdering(D)
    BY <1>3 DEF StrictSubsetOrdering
  <2> QED
    BY <1>2, <2>1
<1> QED
  BY <1>3

LEMMA AddsExtends ==
  ASSUME NEW f, NEW D, NEW d \in D, \A x \in D : f[x] \in Int,
         NEW g, Adds(g, f, D \ {d})
  PROVE  \E h : Adds(h, f, D)
<1> DEFINE C == D \ {d}
           h == [T \in SUBSET D |-> IF d \in T THEN f[d] + g[T \ {d}] ELSE g[T]]
<1>1. g \in [SUBSET C -> Int] /\ g[{}] = 0 /\ \A T \in SUBSET C : \A x \in T : g[T] = f[x] + g[T \ {x}]
  BY DEF Adds
<1>2. \A T \in SUBSET D : T \ {d} \in SUBSET C /\ (d \notin T => T \in SUBSET C)
  OBVIOUS
<1>3. h \in [SUBSET D -> Int]
  BY <1>1, <1>2
<1>4. h[{}] = 0
  BY <1>1
<1>5. ASSUME NEW T \in SUBSET D, NEW x \in T
      PROVE  h[T] = f[x] + h[T \ {x}]
  <2>1. CASE x = d
    BY <1>1, <1>2, <2>1
  <2>2. CASE x # d /\ d \in T
    <3>1. (T \ {x}) \ {d} = (T \ {d}) \ {x} /\ x \in T \ {d} /\ d \in T \ {x}
      BY <2>2
    <3>2. g[T \ {d}] = f[x] + g[(T \ {d}) \ {x}]
      BY <1>1, <1>2, <3>1
    <3>3. h[T] = f[d] + g[T \ {d}] /\ h[T \ {x}] = f[d] + g[(T \ {d}) \ {x}]
      BY <2>2, <3>1
    <3>4. g[T \ {d}] \in Int /\ g[(T \ {d}) \ {x}] \in Int
      BY <1>1
    <3>5. f[x] \in Int /\ f[d] \in Int
      OBVIOUS
    <3> HIDE DEF h
    <3> QED
      BY <3>2, <3>3, <3>4, <3>5
  <2>3. CASE d \notin T
    BY <1>1, <1>2, <2>3
  <2> QED
    BY <2>1, <2>2, <2>3
<1> HIDE DEF h
<1> QED
  BY <1>3, <1>4, <1>5 DEF Adds

LEMMA AddsExists ==
  ASSUME NEW D, IsFiniteSet(D), NEW f, \A x \in D : f[x] \in Int
  PROVE  \E g : Adds(g, f, D)
<1> DEFINE S == {T \in SUBSET D : ~ \E g : Adds(g, f, T)}
<1> SUFFICES ASSUME S # {} PROVE FALSE
  OBVIOUS
<1>1. PICK T \in S : \A U \in S : U \subseteq T => U = T
  <2> HIDE DEF S
  <2>1. S \subseteq SUBSET D
    BY DEF S
  <2> QED
    BY <2>1, LeastSubset
<1>2. CASE T = {}
  <2> DEFINE g == [U \in SUBSET {} |-> 0]
  <2>1. Adds(g, f, {})
    BY DEF Adds
  <2> QED
    BY <1>2, <2>1
<1>3. CASE T # {}
  <2>1. PICK d \in T : TRUE
    BY <1>3
  <2>2. T \ {d} \subseteq T /\ T \ {d} # T /\ T \ {d} \in SUBSET D /\ \A x \in T : f[x] \in Int
    BY <2>1
  <2>3. PICK g : Adds(g, f, T \ {d})
    BY <1>1, <2>2
  <2>4. \E h : Adds(h, f, T)
    BY <2>2, <2>3, AddsExtends
  <2> QED
    BY <2>4
<1> QED
  BY <1>2, <1>3

LEMMA TotalAdds ==
  ASSUME NEW D, IsFiniteSet(D), NEW f, NEW g, Adds(g, f, D)
  PROVE  Total(f, D) = g[D]
<1>1. g = SumFrom(g, f, D)
  <2>1. ASSUME NEW T \in SUBSET D
        PROVE  g[T] = SumFrom(g, f, D)[T]
    BY DEF Adds, SumFrom
  <2>2. g \in [SUBSET D -> Int]
    BY DEF Adds
  <2> QED
    BY <2>1, <2>2 DEF SumFrom
<1>2. PICK w : w = SumFrom(w, f, D) /\ Total(f, D) = w[D]
  BY <1>1 DEF Total
<1> DEFINE S == {T \in SUBSET D : w[T] # g[T]}
<1>3. ASSUME S # {}
      PROVE  FALSE
  <2>1. PICK T \in S : \A U \in S : U \subseteq T => U = T
    <3> HIDE DEF S
    <3>1. S \subseteq SUBSET D
      BY DEF S
    <3> QED
      BY <1>3, <3>1, LeastSubset
  <2>2. T \in SUBSET D /\ w[T] # g[T]
    OBVIOUS
  <2>3. CASE T = {}
    BY <1>2, <2>2, <2>3 DEF Adds, SumFrom
  <2>4. CASE T # {}
    <3> DEFINE x == CHOOSE x \in T : TRUE
    <3>1. x \in T
      BY <2>4
    <3>2. T \ {x} \in SUBSET D /\ T \ {x} \subseteq T /\ T \ {x} # T
      BY <2>2, <3>1
    <3>3. w[T \ {x}] = g[T \ {x}]
      BY <2>1, <3>2
    <3>4. SumFrom(w, f, D)[T] = f[x] + w[T \ {x}]
      BY <2>2, <2>4 DEF SumFrom
    <3>5. g[T] = f[x] + g[T \ {x}]
      BY <2>2, <3>1 DEF Adds
    <3> HIDE DEF x
    <3> QED
      BY <1>2, <2>2, <3>3, <3>4, <3>5
  <2> QED
    BY <2>3, <2>4
<1> QED
  BY <1>2, <1>3

\* The sum with one element more
LEMMA TotalAdd ==
  ASSUME NEW D, IsFiniteSet(D), NEW d, d \notin D, NEW f, \A x \in D \cup {d} : f[x] \in Int
  PROVE  Total(f, D \cup {d}) = f[d] + Total(f, D)
<1>1. IsFiniteSet(D \cup {d})
  BY FS_AddElement
<1>2. PICK g : Adds(g, f, D \cup {d})
  BY <1>1, AddsExists
<1> DEFINE h == [T \in SUBSET D |-> g[T]]
<1>3. Adds(h, f, D)
  BY <1>2 DEF Adds
<1>4. Total(f, D) = g[D]
  BY <1>3, TotalAdds
<1>5. Total(f, D \cup {d}) = g[D \cup {d}]
  BY <1>1, <1>2, TotalAdds
<1>6. g[D \cup {d}] = f[d] + g[D]
  <2>1. (D \cup {d}) \ {d} = D
    OBVIOUS
  <2> QED
    BY <1>2, <2>1 DEF Adds
<1> QED
  BY <1>4, <1>5, <1>6

\* and the same sum for functions that agree
LEMMA TotalSame ==
  ASSUME NEW D, IsFiniteSet(D), NEW f, NEW e, \A x \in D : f[x] \in Int /\ e[x] = f[x]
  PROVE  Total(e, D) = Total(f, D)
<1>1. PICK g : Adds(g, f, D)
  BY AddsExists
<1>2. Adds(g, e, D)
  BY <1>1 DEF Adds
<1> QED
  BY <1>1, <1>2, TotalAdds

\* A sum of numbers that are not below 0, and at most c each
LEMMA TotalBounds ==
  ASSUME NEW D, IsFiniteSet(D), NEW f, NEW c \in Nat, \A x \in D : f[x] \in 0 .. c
  PROVE  Total(f, D) \in Nat /\ Total(f, D) <= c * Cardinality(D)
<1> DEFINE Within(T) == Total(f, T) \in Nat /\ Total(f, T) <= c * Cardinality(T)
           S == {T \in SUBSET D : ~ Within(T)}
<1>1. \A T \in SUBSET D : IsFiniteSet(T) /\ Cardinality(T) \in Nat
  BY FS_Subset, FS_CardinalityType
<1>2. ASSUME S # {}
      PROVE  FALSE
  <2>1. PICK T \in S : \A U \in S : U \subseteq T => U = T
    <3> HIDE DEF S
    <3>1. S \subseteq SUBSET D
      BY DEF S
    <3> QED
      BY <1>2, <3>1, LeastSubset
  <2>2. T \in SUBSET D /\ ~ Within(T)
    <3> HIDE DEF Within
    <3> QED
      OBVIOUS
  <2>3. CASE T = {}
    <3>1. Total(f, {}) = 0
      <4>1. IsFiniteSet({})
        BY FS_EmptySet
      <4>2. Adds([U \in SUBSET {} |-> 0], f, {})
        BY DEF Adds
      <4> QED
        BY <4>1, <4>2, TotalAdds
    <3>2. Cardinality({}) = 0
      BY FS_EmptySet
    <3> QED
      BY <2>2, <2>3, <3>1, <3>2
  <2>4. CASE T # {}
    <3>1. PICK d \in T : TRUE
      BY <2>4
    <3> DEFINE U == T \ {d}
    <3>2. U \in SUBSET D /\ U \subseteq T /\ U # T /\ T = U \cup {d} /\ d \notin U /\ d \in D
      BY <2>2, <3>1
    <3> HIDE DEF U
    <3>3. Within(U)
      <4> HIDE DEF Within
      <4> QED
        BY <2>1, <3>2
    <3>4. Total(f, T) = f[d] + Total(f, U)
      <4>1. IsFiniteSet(U) /\ \A x \in U \cup {d} : f[x] \in Int
        BY <1>1, <3>2
      <4> QED
        BY <3>2, <4>1, TotalAdd
    <3>5. Cardinality(T) = Cardinality(U) + 1 /\ Cardinality(U) \in Nat
      BY <1>1, <3>2, FS_AddElement
    <3>6. c * (Cardinality(U) + 1) = c * Cardinality(U) + c /\ c * Cardinality(U) \in Nat
      BY <3>5
    <3>7. f[d] \in 0 .. c
      BY <3>2
    <3> QED
      BY <2>2, <3>3, <3>4, <3>5, <3>6, <3>7
  <2> QED
    BY <2>3, <2>4
<1>3. Within(D)
  <2> HIDE DEF Within
  <2> QED
    BY <1>2
<1> QED
  BY <1>3

\* A sum of numbers above 0 is above 0, unless there are none.
LEMMA TotalPositive ==
  ASSUME NEW D, IsFiniteSet(D), NEW f, \A x \in D : f[x] \in Nat \ {0}
  PROVE  Total(f, D) \in Nat /\ (D # {} => Total(f, D) > 0)
<1> DEFINE Above(T) == Total(f, T) \in Nat /\ (T # {} => Total(f, T) > 0)
           S == {T \in SUBSET D : ~ Above(T)}
<1>1. \A T \in SUBSET D : IsFiniteSet(T)
  BY FS_Subset
<1>2. ASSUME S # {}
      PROVE  FALSE
  <2>1. PICK T \in S : \A U \in S : U \subseteq T => U = T
    <3> HIDE DEF S
    <3>1. S \subseteq SUBSET D
      BY DEF S
    <3> QED
      BY <1>2, <3>1, LeastSubset
  <2>2. T \in SUBSET D /\ ~ Above(T)
    <3> HIDE DEF Above
    <3> QED
      OBVIOUS
  <2>3. CASE T = {}
    <3>1. IsFiniteSet({}) /\ Adds([U \in SUBSET {} |-> 0], f, {})
      BY FS_EmptySet DEF Adds
    <3>2. Total(f, {}) = 0
      BY <3>1, TotalAdds
    <3> QED
      BY <2>2, <2>3, <3>2
  <2>4. CASE T # {}
    <3>1. PICK d \in T : TRUE
      BY <2>4
    <3> DEFINE U == T \ {d}
    <3>2. U \in SUBSET D /\ U \subseteq T /\ U # T /\ T = U \cup {d} /\ d \notin U /\ d \in D
      BY <2>2, <3>1
    <3> HIDE DEF U
    <3>3. Total(f, U) \in Nat
      <4>1. Above(U)
        <5> HIDE DEF Above
        <5> QED
          BY <2>1, <3>2
      <4> QED
        BY <4>1
    <3>4. Total(f, T) = f[d] + Total(f, U)
      <4>1. IsFiniteSet(U) /\ \A x \in U \cup {d} : f[x] \in Int
        BY <1>1, <3>2
      <4> QED
        BY <3>2, <4>1, TotalAdd
    <3>5. f[d] \in Nat \ {0}
      BY <3>2
    <3> QED
      BY <2>2, <3>3, <3>4, <3>5
  <2> QED
    BY <2>3, <2>4
<1>3. Above(D)
  <2> HIDE DEF Above
  <2> QED
    BY <1>2
<1> QED
  BY <1>3

\* SumFunction is such a sum.
LEMMA SumFunctionIs ==
  ASSUME NEW f
  PROVE  SumFunction(f) = Total(f, DOMAIN f)
<1> DEFINE From(g) == [T \in SUBSET DOMAIN f |->
                         IF T = {} THEN 0
                         ELSE LET x == CHOOSE x \in T : TRUE IN f[x] + g[T \ {x}]]
<1>1. SumFunction(f) = (CHOOSE g : g = From(g))[DOMAIN f]
  BY DEF SumFunction, SumFunctionOnSet, FoldFunctionOnSet, MapThenFoldSet
<1>2. \A g : From(g) = SumFrom(g, f, DOMAIN f)
  BY DEF SumFrom
<1> HIDE DEF From
<1>3. (CHOOSE g : g = From(g)) = (CHOOSE g : g = SumFrom(g, f, DOMAIN f))
  BY <1>2
<1> QED
  BY <1>1, <1>3 DEF Total

-----------------------------------------------------------------------------
(* What is wrong with an answer. *)

LEMMA WrongIs ==
  ASSUME NEW p, NEW size, NEW others
  PROVE  /\ Wrong(p, size, others) \subseteq {"unaligned", "outside", "overlap", "encloses"}
         /\ "unaligned" \in Wrong(p, size, others) <=> p % ALIGNMENT # 0
         /\ "outside" \in Wrong(p, size, others) <=> ~(Bytes(p, size) \subseteq 0 .. brk' - 1)
         /\ "overlap" \in Wrong(p, size, others)
              <=> \E id \in others : {p, p + size - 1} \cap Bytes(blocks[id], block_sizes[id]) # {}
         /\ "encloses" \in Wrong(p, size, others)
              <=> \E id \in others : /\ {p, p + size - 1} \cap Bytes(blocks[id], block_sizes[id]) = {}
                                     /\ Bytes(p, size) \cap Bytes(blocks[id], block_sizes[id]) # {}
<1> HIDE DEF Bytes
<1>1. Wrong(p, size, others) \subseteq {"unaligned", "outside", "overlap", "encloses"}
  BY DEF Wrong
<1>2. "unaligned" \in Wrong(p, size, others) <=> p % ALIGNMENT # 0
  BY DEF Wrong
<1>3. "outside" \in Wrong(p, size, others) <=> ~(Bytes(p, size) \subseteq 0 .. brk' - 1)
  BY DEF Wrong
<1>4. "overlap" \in Wrong(p, size, others)
        <=> \E id \in others : {p, p + size - 1} \cap Bytes(blocks[id], block_sizes[id]) # {}
  BY DEF Wrong
<1>5. "encloses" \in Wrong(p, size, others)
        <=> \E id \in others : /\ {p, p + size - 1} \cap Bytes(blocks[id], block_sizes[id]) = {}
                               /\ Bytes(p, size) \cap Bytes(blocks[id], block_sizes[id]) # {}
  BY DEF Wrong
<1> QED
  BY <1>1, <1>2, <1>3, <1>4, <1>5

\* An answer with nothing wrong is apart from the other blocks.
LEMMA RightIsApart ==
  ASSUME NEW ids, NEW p, NEW size, Wrong(p, size, ids) = {}
  PROVE  \A id \in ids : Bytes(p, size) \cap Bytes(blocks[id], block_sizes[id]) = {}
BY WrongIs

-----------------------------------------------------------------------------
(* While the utilization of a trace is measured. *)

\* The ids that are allocated have sizes, and the sum of these
Sized(ids, lengths) == /\ IsFiniteSet(ids) /\ ids \subseteq DOMAIN lengths
                       /\ \A id \in ids : lengths[id] \in Nat \ {0}
Sum(lengths, ids) == SumFunction(Restrict(lengths, ids))

LEMMA SumIs ==
  ASSUME NEW ids, NEW lengths, Sized(ids, lengths)
  PROVE  Sum(lengths, ids) = Total(lengths, ids)
<1> DEFINE f == Restrict(lengths, ids)
<1>1. DOMAIN f = ids /\ \A id \in ids : f[id] = lengths[id] /\ f[id] \in Int
  BY DEF Restrict, Sized
<1>2. Sum(lengths, ids) = Total(f, DOMAIN f)
  BY SumFunctionIs DEF Sum
<1> HIDE DEF f
<1>3. \A id \in ids : lengths[id] \in Int /\ f[id] = lengths[id]
  BY <1>1
<1>4. IsFiniteSet(ids)
  BY DEF Sized
<1>5. Total(f, ids) = Total(lengths, ids)
  BY <1>3, <1>4, TotalSame
<1> QED
  BY <1>1, <1>2, <1>5

LEMMA SumNone ==
  ASSUME NEW lengths
  PROVE  Sum(lengths, {}) = 0
<1>1. IsFiniteSet({})
  BY FS_EmptySet
<1>2. Sized({}, lengths)
  BY <1>1 DEF Sized
<1>3. Adds([U \in SUBSET {} |-> 0], lengths, {})
  BY DEF Adds
<1>4. Total(lengths, {}) = 0
  BY <1>1, <1>3, TotalAdds
<1> QED
  BY <1>2, <1>4, SumIs

LEMMA SumEmpty == Sized({}, empty) /\ Sum(empty, {}) = 0
BY FS_EmptySet, SumNone DEF Sized

LEMMA SumType ==
  ASSUME NEW ids, NEW lengths, Sized(ids, lengths)
  PROVE  Sum(lengths, ids) \in Int
<1>1. IsFiniteSet(ids) /\ \A id \in ids : lengths[id] \in Int
  BY DEF Sized
<1>2. PICK g : Adds(g, lengths, ids)
  BY <1>1, AddsExists
<1>3. Total(lengths, ids) = g[ids]
  BY <1>1, <1>2, TotalAdds
<1>4. g[ids] \in Int
  BY <1>2 DEF Adds
<1> QED
  BY <1>3, <1>4, SumIs

\* A block is freed.
LEMMA SumRemoved ==
  ASSUME NEW ids, NEW lengths, Sized(ids, lengths), NEW id \in ids
  PROVE  /\ Sized(ids \ {id}, lengths)
         /\ Sum(lengths, ids) = lengths[id] + Sum(lengths, ids \ {id})
<1>1. IsFiniteSet(ids \ {id})
  BY FS_RemoveElement DEF Sized
<1>2. Sized(ids \ {id}, lengths)
  BY <1>1 DEF Sized
<1>3. (ids \ {id}) \cup {id} = ids /\ id \notin ids \ {id}
  OBVIOUS
<1>4. \A x \in (ids \ {id}) \cup {id} : lengths[x] \in Int
  BY DEF Sized
<1>5. Total(lengths, (ids \ {id}) \cup {id}) = lengths[id] + Total(lengths, ids \ {id})
  BY <1>1, <1>3, <1>4, TotalAdd
<1> QED
  BY <1>2, <1>3, <1>5, SumIs

\* A block is allocated.
LEMMA SumAdded ==
  ASSUME NEW ids, NEW lengths, Sized(ids, lengths), NEW id, id \notin ids, NEW size \in Nat \ {0}
  PROVE  /\ Sized(ids \cup {id}, Stored(lengths, id, size))
         /\ Sum(Stored(lengths, id, size), ids \cup {id}) = size + Sum(lengths, ids)
<1> DEFINE more == Stored(lengths, id, size)
<1>1. /\ more[id] = size /\ \A a \in ids : more[a] = lengths[a] /\ more[a] \in Nat \ {0}
      /\ ids \cup {id} \subseteq DOMAIN more
  BY DEF Sized, Stored
<1> HIDE DEF more
<1>2. IsFiniteSet(ids) /\ IsFiniteSet(ids \cup {id})
  BY FS_AddElement DEF Sized
<1>3. Sized(ids \cup {id}, more) /\ Sized(ids, more)
  BY <1>1, <1>2 DEF Sized
<1>4. \A x \in ids \cup {id} : more[x] \in Int
  BY <1>1
<1>5. Total(more, ids \cup {id}) = more[id] + Total(more, ids)
  BY <1>2, <1>4, TotalAdd
<1>6. \A x \in ids : lengths[x] \in Int /\ more[x] = lengths[x]
  BY <1>1 DEF Sized
<1>7. Total(more, ids) = Total(lengths, ids)
  BY <1>2, <1>6, TotalSame
<1>8. Sum(more, ids \cup {id}) = size + Sum(lengths, ids)
  BY <1>1, <1>3, <1>5, <1>7, SumIs
<1> QED
  BY <1>3, <1>8 DEF more

\* Blocks that are in a heap of b bytes, and apart
Fitting(ids, places, lengths, b) ==
  /\ \A id \in ids : places[id] \in Int /\ Bytes(places[id], lengths[id]) \subseteq 0 .. b - 1
  /\ \A c, d \in ids : c # d => Bytes(places[c], lengths[c]) \cap Bytes(places[d], lengths[d]) = {}

\* They cover as many bytes as their sizes add up to: a set of them of which this
\* does not hold, with none in it, would have a last block to take away.
LEMMA FittingSum ==
  ASSUME NEW ids, NEW places, NEW lengths, NEW b \in Nat,
         Sized(ids, lengths), Fitting(ids, places, lengths, b)
  PROVE  Sum(lengths, ids) <= b
<1> DEFINE B(id) == Bytes(places[id], lengths[id])
           Covered(T) == UNION {B(id) : id \in T}
           Covers(T) == IsFiniteSet(Covered(T)) /\ Cardinality(Covered(T)) = Total(lengths, T)
           S == {T \in SUBSET ids : ~ Covers(T)}
<1>1. \A id \in ids : IsFiniteSet(B(id)) /\ Cardinality(B(id)) = lengths[id]
  <2> SUFFICES ASSUME NEW id \in ids
               PROVE  IsFiniteSet(B(id)) /\ Cardinality(B(id)) = lengths[id]
    OBVIOUS
  <2>1. PICK p \in Int, size \in Nat \ {0} : p = places[id] /\ size = lengths[id]
    BY DEF Sized, Fitting
  <2>2. IsFiniteSet(p .. p + size - 1) /\ Cardinality(p .. p + size - 1) = size
    BY FS_Interval
  <2> QED
    BY <2>1, <2>2 DEF Bytes
<1>2. \A id \in ids : B(id) \subseteq 0 .. b - 1
  BY DEF Fitting
<1>3. \A c, d \in ids : c # d => B(c) \cap B(d) = {}
  BY DEF Fitting
<1>4. IsFiniteSet(ids) /\ \A id \in ids : lengths[id] \in Nat
  BY DEF Sized
<1> HIDE DEF B
<1>5. ASSUME S # {}
      PROVE  FALSE
  <2>1. PICK T \in S : \A U \in S : U \subseteq T => U = T
    <3> HIDE DEF S
    <3>1. S \subseteq SUBSET ids
      BY DEF S
    <3> QED
      BY <1>4, <1>5, <3>1, LeastSubset
  <2>2. T \in SUBSET ids /\ ~ Covers(T)
    OBVIOUS
  <2>3. CASE T = {}
    <3>1. Covered({}) = {}
      OBVIOUS
    <3>2. Adds([U \in SUBSET {} |-> 0], lengths, {})
      BY DEF Adds
    <3>3. Total(lengths, {}) = 0
      BY <3>2, FS_EmptySet, TotalAdds
    <3> QED
      BY <2>2, <2>3, <3>1, <3>3, FS_EmptySet
  <2>4. CASE T # {}
    <3>1. PICK d \in T : TRUE
      BY <2>4
    <3> DEFINE R == T \ {d}
    <3>2. R \in SUBSET ids /\ R \subseteq T /\ R # T /\ d \in ids /\ d \notin R /\ R \cup {d} = T
      BY <2>2, <3>1
    <3> HIDE DEF R
    <3>3. Covers(R)
      BY <2>1, <3>2
    <3>4. Covered(T) = Covered(R) \cup B(d)
      BY <3>2
    <3>5. Covered(R) \cap B(d) = {}
      BY <1>3, <3>2
    <3>6. IsFiniteSet(R)
      BY <1>4, <3>2, FS_Subset
    <3>7. Total(lengths, T) = lengths[d] + Total(lengths, R)
      <4>1. \A x \in R \cup {d} : lengths[x] \in Int
        BY <1>4, <3>2
      <4>2. Total(lengths, R \cup {d}) = lengths[d] + Total(lengths, R)
        BY <3>2, <3>6, <4>1, TotalAdd
      <4> QED
        BY <3>2, <4>2
    <3> DEFINE X == Covered(R)
               Y == B(d)
    <3>8. IsFiniteSet(X) /\ IsFiniteSet(Y) /\ X \cap Y = {} /\ Cardinality(Y) = lengths[d]
          /\ Cardinality(X) = Total(lengths, R)
      BY <1>1, <3>2, <3>3, <3>5
    <3> HIDE DEF X, Y
    <3>9. /\ IsFiniteSet(X \cup Y)
          /\ Cardinality(X \cup Y) = Cardinality(X) + Cardinality(Y) - Cardinality(X \cap Y)
      BY <3>8, FS_Union
    <3>10. /\ Cardinality(X \cap Y) = 0 /\ Cardinality(X) \in Nat /\ Cardinality(Y) \in Nat
      BY <3>8, FS_EmptySet, FS_CardinalityType
    <3>11. Cardinality(X \cup Y) = lengths[d] + Total(lengths, R)
      BY <3>8, <3>9, <3>10
    <3>12. X \cup Y = Covered(T)
      BY <3>4 DEF X, Y
    <3> QED
      BY <2>2, <3>7, <3>9, <3>11, <3>12
  <2> QED
    BY <2>3, <2>4
<1>6. Covers(ids)
  BY <1>5
<1>7. Covered(ids) \subseteq 0 .. b - 1
  BY <1>2
<1> DEFINE C == Covered(ids)
<1>8. IsFiniteSet(C) /\ Cardinality(C) = Total(lengths, ids) /\ C \subseteq 0 .. b - 1
  BY <1>6, <1>7
<1> HIDE DEF C
<1>9. IsFiniteSet(0 .. b - 1) /\ Cardinality(0 .. b - 1) = b
  BY FS_Interval
<1>10. Cardinality(C) <= Cardinality(0 .. b - 1)
  BY <1>8, <1>9, FS_Subset
<1> QED
  BY <1>8, <1>9, <1>10, SumIs

Typed == brk \in Nat /\ total_size \in Int /\ max_total_size \in Nat

Measured == phase = "mm_util" => /\ Sized(live, block_sizes)
                                 /\ total_size = Sum(block_sizes, live)
                                 /\ total_size <= max_total_size
                                 /\ sound => max_total_size <= brk

\* and there is some once a request has been served
Risen == phase = "mm_util" => /\ op = 1 => live = {}
                              /\ op > 1 => max_total_size > 0

\* Each block is somewhere
Placing == phase = "mm_util" => live \subseteq DOMAIN blocks

\* and while all places have been right, the blocks are in the heap and apart.
Apart == phase = "mm_util" /\ sound => Fitting(live, blocks, block_sizes, brk)

LEMMA GrowsType ==
  ASSUME Typed, Grows
  PROVE  brk' \in Nat /\ brk <= brk'
BY AnswerType DEF Typed, Grows

\* What Utilize does, request by request
LEMMA UtilizeIs ==
  ASSUME Utilize, phase' = "mm_util"
  PROVE  /\ phase = "mm_util" /\ op <= trace.num_ops /\ op' = op + 1
         /\ total_size' = total_size + Added(request)
         /\ request.type = "f" => /\ live' = live \ {request.index}
                                  /\ UNCHANGED <<blocks, block_sizes, max_total_size, brk, sound>>
         /\ request.type # "f" =>
              /\ live' = live \cup {request.index}
              /\ block_sizes' = Stored(block_sizes, request.index, request.size)
              /\ max_total_size' = IF total_size' > max_total_size THEN total_size' ELSE max_total_size
              /\ Grows
              /\ \E p \in Addresses :
                   /\ blocks' = Stored(blocks, request.index, p)
                   /\ sound' = (sound /\ Wrong(p, request.size, live \ {request.index}) = {})
BY DEF Utilize, exit

\* A block whose place is right is in the heap and apart from the others.
LEMMA FittingAdded ==
  ASSUME NEW ids, Fitting(ids, blocks, block_sizes, brk), brk \in Nat, brk' \in Nat, brk <= brk',
         ids \subseteq DOMAIN blocks, ids \subseteq DOMAIN block_sizes,
         NEW id, id \notin ids, NEW p \in Int, NEW size \in Nat, Wrong(p, size, ids) = {}
  PROVE  Fitting(ids \cup {id}, Stored(blocks, id, p), Stored(block_sizes, id, size), brk')
<1> DEFINE places == Stored(blocks, id, p)
           lengths == Stored(block_sizes, id, size)
<1>1. /\ places[id] = p /\ lengths[id] = size
      /\ \A a \in ids : places[a] = blocks[a] /\ lengths[a] = block_sizes[a]
  BY DEF Stored
<1>2. Bytes(p, size) \subseteq 0 .. brk' - 1
  BY WrongIs
<1>3. \A a \in ids : Bytes(p, size) \cap Bytes(blocks[a], block_sizes[a]) = {}
  BY RightIsApart
<1>4. 0 .. brk - 1 \subseteq 0 .. brk' - 1
  <2>1. PICK b \in Nat : b = brk
    OBVIOUS
  <2>2. PICK c \in Nat : c = brk'
    OBVIOUS
  <2>3. b <= c
    BY <2>1, <2>2
  <2>4. 0 .. b - 1 \subseteq 0 .. c - 1
    BY <2>3
  <2> QED
    BY <2>1, <2>2, <2>4
<1> HIDE DEF places, lengths
<1>5. ASSUME NEW a \in ids \cup {id}
      PROVE  places[a] \in Int /\ Bytes(places[a], lengths[a]) \subseteq 0 .. brk' - 1
  <2>1. CASE a = id
    BY <1>1, <1>2, <2>1
  <2>2. CASE a # id
    <3>1. blocks[a] \in Int /\ Bytes(blocks[a], block_sizes[a]) \subseteq 0 .. brk - 1
      BY <2>2 DEF Fitting
    <3> QED
      BY <1>1, <1>4, <2>2, <3>1
  <2> QED
    BY <2>1, <2>2
<1>6. ASSUME NEW c \in ids \cup {id}, NEW d \in ids \cup {id}, c # d
      PROVE  Bytes(places[c], lengths[c]) \cap Bytes(places[d], lengths[d]) = {}
  <2>1. CASE c \in ids /\ d \in ids
    BY <1>1, <1>6, <2>1 DEF Fitting
  <2>2. CASE c = id
    BY <1>1, <1>3, <1>6, <2>2
  <2>3. CASE d = id
    BY <1>1, <1>3, <1>6, <2>3
  <2> QED
    BY <2>1, <2>2, <2>3
<1>7. Fitting(ids \cup {id}, places, lengths, brk')
  BY <1>5, <1>6 DEF Fitting
<1> QED
  BY <1>7 DEF places, lengths

\* The blocks of the ids that are left, in a heap that may have grown
LEMMA FittingPart ==
  ASSUME NEW ids, NEW part \in SUBSET ids, NEW places, NEW lengths, NEW b, NEW c,
         Fitting(ids, places, lengths, b), b \in Nat, c \in Nat, b <= c
  PROVE  Fitting(part, places, lengths, c)
<1>1. 0 .. b - 1 \subseteq 0 .. c - 1
  OBVIOUS
<1> QED
  BY <1>1 DEF Fitting

LEMMA UtilizeApart ==
  ASSUME InTrace, Following, Typed, Measured, Placing, Apart, Utilize, phase' = "mm_util"
  PROVE  Placing' /\ Apart'
<1>1. /\ phase = "mm_util" /\ op <= trace.num_ops
      /\ request.index \in Nat /\ request.size \in Nat
      /\ request.type \in {"a", "r", "f"}
      /\ live \subseteq DOMAIN blocks /\ live \subseteq DOMAIN block_sizes /\ brk \in Nat
  BY UtilizeIs, RequestServed DEF Measured, Sized, Placing, Typed
<1>2. CASE request.type = "f"
  <2>1. live' = live \ {request.index} /\ UNCHANGED <<blocks, block_sizes, brk, sound>>
    BY <1>2, UtilizeIs
  <2>2. Placing'
    BY <1>1, <2>1 DEF Placing
  <2>3. ASSUME sound
        PROVE  Fitting(live \ {request.index}, blocks, block_sizes, brk)
    <3>1. Fitting(live, blocks, block_sizes, brk)
      BY <1>1, <2>3 DEF Apart
    <3>2. live \ {request.index} \in SUBSET live /\ brk <= brk
      BY <1>1
    <3> QED
      BY <1>1, <3>1, <3>2, FittingPart
  <2> QED
    BY <2>1, <2>2, <2>3 DEF Apart
<1>3. CASE request.type # "f"
  <2> DEFINE rest == live \ {request.index}
  <2>1. PICK p \in Addresses : /\ blocks' = Stored(blocks, request.index, p)
                               /\ sound' = (sound /\ Wrong(p, request.size, rest) = {})
    BY <1>3, UtilizeIs
  <2>2. /\ live' = live \cup {request.index} /\ Grows
        /\ block_sizes' = Stored(block_sizes, request.index, request.size)
    BY <1>3, UtilizeIs
  <2>3. brk' \in Nat /\ brk <= brk' /\ p \in Int
    BY <2>2, GrowsType, AnswerType
  <2>4. live' = rest \cup {request.index} /\ request.index \notin rest /\ rest \in SUBSET live
    BY <2>2
  <2>5. Placing'
    BY <1>1, <2>1, <2>2 DEF Placing, Stored
  <2> HIDE DEF rest
  <2>6. ASSUME sound'
        PROVE  Fitting(live', blocks', block_sizes', brk')
    <3>1. sound /\ Wrong(p, request.size, rest) = {}
      BY <2>1, <2>6
    <3>2. Fitting(live, blocks, block_sizes, brk)
      BY <1>1, <3>1 DEF Apart
    <3>3. Fitting(rest, blocks, block_sizes, brk)
      <4>1. brk <= brk
        BY <1>1
      <4> QED
        BY <1>1, <2>4, <3>2, <4>1, FittingPart
    <3>4. rest \subseteq DOMAIN blocks /\ rest \subseteq DOMAIN block_sizes
      BY <1>1, <2>4
    <3>5. Fitting(rest \cup {request.index}, Stored(blocks, request.index, p),
                  Stored(block_sizes, request.index, request.size), brk')
      BY <1>1, <2>3, <2>4, <3>1, <3>3, <3>4, FittingAdded
    <3> QED
      BY <2>1, <2>2, <2>4, <3>5
  <2> QED
    BY <2>5, <2>6 DEF Apart
<1> QED
  BY <1>2, <1>3

LEMMA UtilizeMeasured ==
  ASSUME InTrace, Following, Typed, Measured, Risen, Placing, Apart, Utilize, phase' = "mm_util"
  PROVE  Typed' /\ Measured' /\ Risen'
<1>1. /\ phase = "mm_util" /\ op <= trace.num_ops /\ op' = op + 1
      /\ total_size' = total_size + Added(request)
      /\ request.type = "f" => /\ live' = live \ {request.index}
                               /\ UNCHANGED <<block_sizes, max_total_size, brk, sound>>
      /\ request.type # "f" =>
           /\ live' = live \cup {request.index}
           /\ block_sizes' = Stored(block_sizes, request.index, request.size)
           /\ max_total_size' = IF total_size' > max_total_size THEN total_size' ELSE max_total_size
           /\ Grows /\ (sound' => sound)
  BY UtilizeIs
<1>2. /\ Sized(live, block_sizes) /\ total_size = Sum(block_sizes, live)
      /\ total_size <= max_total_size /\ (sound => max_total_size <= brk)
      /\ total_size \in Int /\ max_total_size \in Nat /\ brk \in Nat
  BY <1>1 DEF Measured, Typed
<1>3. /\ request.index \in Nat /\ request.size \in Nat /\ request.type \in {"a", "r", "f"}
      /\ request.type # "f" => request.size \in Nat \ {0}
      /\ request.index \in live <=> request.type \in {"r", "f"}
  BY <1>1, RequestServed
<1>4. request.index \in live => block_sizes[request.index] \in Nat \ {0}
  BY <1>2 DEF Sized
<1>5. Sized(live', block_sizes') /\ total_size' = Sum(block_sizes', live') /\ total_size' \in Int
      /\ (request.type = "f" => total_size' <= total_size)
  <2>1. CASE request.type = "a"
    <3>1. Added(request) = request.size
      BY <2>1 DEF Added
    <3>2. /\ Sized(live \cup {request.index}, Stored(block_sizes, request.index, request.size))
          /\ Sum(Stored(block_sizes, request.index, request.size), live \cup {request.index})
               = request.size + Sum(block_sizes, live)
      BY <1>2, <1>3, <2>1, SumAdded
    <3> QED
      BY <1>1, <1>2, <1>3, <2>1, <3>1, <3>2
  <2>2. CASE request.type = "r"
    <3> DEFINE rest == live \ {request.index}
    <3>1. Added(request) = request.size - block_sizes[request.index]
      BY <2>2 DEF Added
    <3>2. /\ Sized(rest, block_sizes)
          /\ Sum(block_sizes, live) = block_sizes[request.index] + Sum(block_sizes, rest)
      BY <1>2, <1>3, <2>2, SumRemoved
    <3>3. request.index \notin rest /\ rest \cup {request.index} = live' /\ request.size \in Nat \ {0}
      BY <1>1, <1>3, <2>2
    <3> HIDE DEF rest
    <3>4. /\ Sized(live', block_sizes') /\ Sum(block_sizes', live') = request.size + Sum(block_sizes, rest)
      BY <1>1, <2>2, <3>2, <3>3, SumAdded
    <3>5. Sum(block_sizes, rest) \in Int
      BY <3>2, SumType
    <3> QED
      BY <1>1, <1>2, <1>3, <1>4, <2>2, <3>1, <3>2, <3>4, <3>5
  <2>3. CASE request.type = "f"
    <3> DEFINE rest == live \ {request.index}
    <3>1. Added(request) = 0 - block_sizes[request.index]
      BY <2>3 DEF Added
    <3>2. /\ Sized(rest, block_sizes)
          /\ Sum(block_sizes, live) = block_sizes[request.index] + Sum(block_sizes, rest)
      BY <1>2, <1>3, <2>3, SumRemoved
    <3>3. live' = rest /\ block_sizes' = block_sizes
      BY <1>1, <2>3
    <3> HIDE DEF rest
    <3>4. Sum(block_sizes, rest) \in Int
      BY <3>2, SumType
    <3> QED
      BY <1>1, <1>2, <1>3, <1>4, <2>3, <3>1, <3>2, <3>3, <3>4
  <2> QED
    BY <1>3, <2>1, <2>2, <2>3
<1>6. op \in Nat \ {0}
  BY <1>1 DEF Following
<1>7. CASE request.type = "f"
  <2>1. op # 1
    BY <1>1, <1>3, <1>7 DEF Risen
  <2>2. Risen'
    BY <1>1, <1>6, <1>7, <2>1 DEF Risen
  <2>3. Typed' /\ Measured'
    BY <1>1, <1>2, <1>5, <1>7 DEF Typed, Measured
  <2> QED
    BY <2>2, <2>3
<1>8. CASE request.type # "f"
  <2>1. brk' \in Nat /\ brk <= brk'
    BY <1>1, <1>8, GrowsType
  <2>2. /\ max_total_size' \in Nat /\ total_size' <= max_total_size'
        /\ max_total_size' = total_size' \/ max_total_size' = max_total_size
        /\ max_total_size' >= max_total_size
    BY <1>1, <1>2, <1>5, <1>8
  <2>3. ASSUME sound'
        PROVE  max_total_size' <= brk'
    <3>1. sound /\ Fitting(live', blocks', block_sizes', brk')
      BY <1>1, <1>8, <2>3, UtilizeApart DEF Apart
    <3> DEFINE ids == live'
               places == blocks'
               lengths == block_sizes'
    <3>2. Sized(ids, lengths) /\ total_size' = Sum(lengths, ids)
      BY <1>5
    <3>3. PICK b \in Nat : b = brk'
      BY <2>1
    <3>4. Fitting(ids, places, lengths, b)
      BY <3>1, <3>3
    <3> HIDE DEF ids, places, lengths
    <3>5. total_size' <= b
      BY <3>2, <3>4, FittingSum
    <3>6. max_total_size <= brk
      BY <1>2, <3>1
    <3> QED
      BY <1>2, <2>1, <2>2, <3>3, <3>5, <3>6
  <2>4. Typed' /\ Measured'
    BY <1>5, <2>1, <2>2, <2>3 DEF Typed, Measured
  <2>5. max_total_size' > 0
    <3>1. CASE op = 1
      <4>1. live = {} /\ request.type = "a"
        BY <1>1, <1>3, <1>8, <3>1 DEF Risen
      <4>2. total_size' = total_size + request.size
        BY <1>1, <4>1 DEF Added
      <4>3. total_size = 0
        BY <1>2, <4>1, SumNone
      <4> QED
        BY <1>3, <1>8, <2>2, <4>2, <4>3
    <3>2. CASE op # 1
      <4>1. max_total_size > 0
        BY <1>1, <1>6, <3>2 DEF Risen
      <4> QED
        BY <1>2, <2>2, <4>1
    <3> QED
      BY <3>1, <3>2
  <2> QED
    BY <1>1, <1>6, <2>4, <2>5 DEF Risen
<1> QED
  BY <1>7, <1>8

LEMMA MeasuredInit == Init => Typed /\ Measured /\ Risen /\ Placing /\ Apart
BY DEF Init, Typed, Measured, Risen, Placing, Apart

LEMMA MeasuredStep ==
  ASSUME InTrace, Following, Typed, Measured, Risen, Placing, Apart, [Next]_vars
  PROVE  Typed' /\ Measured' /\ Risen' /\ Placing' /\ Apart'
<1> USE DEF exit
<1>1. CASE phase' = "mm_util"
  <2>1. CASE eval_mm_util
    <3>1. /\ brk' \in {0, ALIGNMENT} /\ total_size' = 0 /\ max_total_size' = 0 /\ op' = 1
          /\ block_sizes' = empty /\ live' = {}
      BY <1>1, <2>1 DEF eval_mm_util, mem_reset_brk
    <3>2. brk' \in Nat
      BY <3>1, AnswerType
    <3>3. Risen' /\ Placing'
      BY <3>1 DEF Risen, Placing
    <3>4. \A places, lengths, b : Fitting({}, places, lengths, b)
      BY DEF Fitting
    <3>5. Apart'
      BY <3>1, <3>4 DEF Apart
    <3> QED
      BY <3>1, <3>2, <3>3, <3>5, SumEmpty DEF Typed, Measured
  <2>2. CASE Utilize
    BY <1>1, <2>2, UtilizeMeasured, UtilizeApart
  <2>3. CASE UNCHANGED vars
    BY <2>3 DEF vars, heap, measures, Typed, Measured, Risen, Placing, Apart
  <2> QED
    BY <1>1, <2>1, <2>2, <2>3, MeasuringSteps
<1>2. CASE phase' # "mm_util"
  <2> SUFFICES Typed'
    BY <1>2 DEF Measured, Risen, Placing, Apart
  <2>1. CASE eval_mm_valid
    <3>1. (brk' \in {0, ALIGNMENT} \/ Grows) /\ UNCHANGED <<total_size, max_total_size>>
      BY <2>1 DEF eval_mm_valid, mem_reset_brk, Invalid, Judged, measures
    <3> QED
      BY <3>1, AnswerType, GrowsType DEF Typed
  <2>2. CASE mm_malloc_answers \/ mm_realloc_answers
    <3>1. (brk' \in {0, ALIGNMENT} \/ Grows) /\ UNCHANGED <<total_size, max_total_size>>
      BY <2>2 DEF mm_malloc_answers, mm_realloc_answers, Refused, Remember, Invalid, Judged, measures
    <3> QED
      BY <3>1, AnswerType, GrowsType DEF Typed
  <2>3. CASE Utilized
    BY <2>3 DEF Utilized, mem_reset_brk, Typed
  <2>4. CASE eval_mm_util \/ Utilize
    <3>1. UNCHANGED <<brk, total_size, max_total_size>>
      BY <1>2, <2>4 DEF eval_mm_util, Utilize, heap, measures
    <3> QED
      BY <3>1 DEF Typed
  <2>5. CASE \/ main \/ read_trace("libc_read", "libc_valid") \/ read_trace("mm_read", "mm_valid")
             \/ eval_libc_valid \/ mem_init \/ libc_secs \/ mm_secs \/ NotValid
    <3>1. UNCHANGED <<brk, total_size, max_total_size>>
      BY <2>5 DEF main, read_trace, eval_libc_valid, mem_init, libc_secs, mm_secs, NotValid, NextTrace, heap, measures
    <3> QED
      BY <3>1 DEF Typed
  <2>6. CASE \/ Start("libc_timed", "libc_speed") \/ Run("libc_timed", "libc_speed")
             \/ Start("mm_timed", "mm_speed") \/ Run("mm_timed", "mm_speed")
    <3>1. UNCHANGED <<brk, total_size, max_total_size>>
      BY <2>6 DEF Start, Run, heap, measures
    <3> QED
      BY <3>1 DEF Typed
  <2>7. CASE mm_free_returns \/ Served \/ Score \/ UNCHANGED vars
    <3>1. UNCHANGED <<brk, total_size, max_total_size>>
      BY <2>7 DEF mm_free_returns, Served, Judged, Score, vars, heap, measures
    <3> QED
      BY <3>1 DEF Typed
  <2> QED
    BY <2>1, <2>2, <2>3, <2>4, <2>5, <2>6, <2>7 DEF Next
<1> QED
  BY <1>1, <1>2

-----------------------------------------------------------------------------
(* The statistics. *)

Stat == [ops : Nat \ {0}, valid : BOOLEAN, hwm : Nat, heapsize : Nat, secs : Int]

\* The records, and which were not valid
StatsOK(stats) == stats \in Seq(Stat)
Invalids(stats) == {n \in DOMAIN stats : ~ stats[n].valid}

LEMMA InvalidsFinite ==
  ASSUME NEW stats, StatsOK(stats)
  PROVE  /\ IsFiniteSet(Invalids(stats)) /\ Cardinality(Invalids(stats)) \in Nat
         /\ Cardinality(Invalids(stats)) = 0 <=> Invalids(stats) = {}
<1>1. Len(stats) \in Nat /\ DOMAIN stats = 1 .. Len(stats)
  BY DEF StatsOK
<1>2. IsFiniteSet(1 .. Len(stats))
  BY <1>1, FS_Interval
<1>3. Invalids(stats) \subseteq 1 .. Len(stats)
  BY <1>1 DEF Invalids
<1>4. IsFiniteSet(Invalids(stats))
  BY <1>2, <1>3, FS_Subset
<1> QED
  BY <1>4, FS_CardinalityType, FS_EmptySet

LEMMA AppendStats ==
  ASSUME NEW stats, StatsOK(stats), NEW rec \in Stat
  PROVE  /\ StatsOK(Append(stats, rec)) /\ Len(Append(stats, rec)) = Len(stats) + 1
         /\ Append(stats, rec)[Len(stats) + 1] = rec
         /\ rec.valid => Invalids(Append(stats, rec)) = Invalids(stats)
         /\ ~ rec.valid => Cardinality(Invalids(Append(stats, rec))) = Cardinality(Invalids(stats)) + 1
<1> DEFINE new == Append(stats, rec)
           n == Len(stats)
<1>1. stats \in Seq(Stat) /\ DOMAIN stats = 1 .. n /\ n \in Nat
  BY DEF StatsOK
<1>2. /\ new \in Seq(Stat) /\ Len(new) = n + 1 /\ DOMAIN new = (1 .. n) \cup {n + 1}
      /\ n + 1 \notin 1 .. n /\ new[n + 1] = rec
      /\ \A k \in 1 .. n : new[k] = stats[k]
  BY <1>1, Appended
<1> HIDE DEF new, n
<1>3. StatsOK(new)
  BY <1>1, <1>2 DEF StatsOK
<1>4. ASSUME rec.valid
      PROVE  Invalids(new) = Invalids(stats)
  BY <1>1, <1>2, <1>4 DEF Invalids
<1>5. ASSUME ~ rec.valid
      PROVE  Cardinality(Invalids(new)) = Cardinality(Invalids(stats)) + 1
  <2>1. Invalids(new) = Invalids(stats) \cup {n + 1} /\ n + 1 \notin Invalids(stats)
    BY <1>1, <1>2, <1>5 DEF Invalids
  <2> QED
    BY <2>1, InvalidsFinite, FS_AddElement
<1> QED
  BY <1>2, <1>3, <1>4, <1>5 DEF new, n

\* How far the driver has come in its list of traces
Counted ==
  /\ i \in Nat \ {0}
  /\ phase = "start" => i = 1
  /\ phase \in WithTrace \cup {"libc_read", "mm_read"} =>
       Len(tracefiles) \in Nat \ {0} /\ i <= Len(tracefiles) + 1
  /\ phase \in WithTrace => i <= Len(tracefiles)

\* and in its records of them
LibcPhases == {"start", "libc_read", "libc_valid", "libc_timed", "libc_speed"}
BeforeVerdict == {"mm_read", "mm_valid", "mm_valid_op"}
AfterVerdict == {"judged", "mm_util", "mm_timed", "mm_speed"}

Recorded ==
  /\ StatsOK(mm_stats)
  /\ phase \in LibcPhases => mm_stats = <<>>
  /\ phase \in BeforeVerdict => Len(mm_stats) = i - 1
  /\ phase \in AfterVerdict => Len(mm_stats) = i
  /\ errors = Cardinality(Invalids(mm_stats))

LEMMA CountedInit == Init => Counted
BY DEF Init, Counted, WithTrace

LEMMA CountedStep ==
  ASSUME Counted, [Next]_vars
  PROVE  Counted'
<1> USE DEF exit, Counted, WithTrace, options
<1>1. CASE main
  <2>1. phase = "start" /\ i = 1 /\ i' = i
    BY <1>1 DEF main
  <2>2. phase' = "exited" \/ (phase' \in {"libc_read", "mm_read"} /\ Len(tracefiles') \in Nat \ {0})
    <3>1. \/ phase' = "exited"
          \/ \E argv \in Argvs : LET o == Chosen(argv) IN
               /\ phase' \in {"libc_read", "mm_read"}
               /\ tracefiles' = IF o.files = <<>> THEN default_tracefiles ELSE o.files
      BY <1>1 DEF main
    <3>2. Len(default_tracefiles) \in Nat \ {0}
      BY DriverAssumption
    <3>3. \A argv \in Argvs : Chosen(argv).files = <<>> \/ \E f : Chosen(argv).files = <<f>>
      BY DEF Chosen
    <3>4. \A f : Len(<<f>>) = 1
      OBVIOUS
    <3> QED
      BY <3>1, <3>2, <3>3, <3>4
  <2> QED
    BY <2>1, <2>2
<1>2. CASE read_trace("libc_read", "libc_valid") \/ read_trace("mm_read", "mm_valid")
  <2>1. /\ phase \in {"libc_read", "mm_read"} /\ i <= Len(tracefiles) /\ UNCHANGED <<i, tracefiles>>
        /\ phase' \in {"exited", "libc_valid", "mm_valid"}
    BY <1>2 DEF read_trace
  <2> QED
    BY <2>1
<1>3. CASE eval_libc_valid \/ mem_init
  BY <1>3 DEF eval_libc_valid, mem_init
<1>4. CASE \/ Start("libc_timed", "libc_speed") \/ Run("libc_timed", "libc_speed")
           \/ Start("mm_timed", "mm_speed") \/ Run("mm_timed", "mm_speed")
  BY <1>4 DEF Start, Run
<1>5. CASE libc_secs \/ mm_secs \/ NotValid
  BY <1>5 DEF libc_secs, mm_secs, NotValid, NextTrace
<1>6. CASE eval_mm_valid
  BY <1>6 DEF eval_mm_valid, Invalid, Judged
<1>7. CASE mm_malloc_answers \/ mm_realloc_answers
  <2>1. UNCHANGED <<i, tracefiles>> /\ phase = "mm_valid_op" /\ phase' \in {"mm_valid_op", "judged"}
    BY <1>7 DEF mm_malloc_answers, mm_realloc_answers, Refused, Invalid, Judged, Remember
  <2> QED
    BY <2>1
<1>8. CASE mm_free_returns \/ Served
  BY <1>8 DEF mm_free_returns, Served, Judged
<1>9. CASE eval_mm_util \/ Utilize \/ Utilized \/ Score
  BY <1>9 DEF eval_mm_util, Utilize, Utilized, Score
<1>10. CASE UNCHANGED vars
  BY <1>10 DEF vars
<1> QED
  BY <1>1, <1>2, <1>3, <1>4, <1>5, <1>6, <1>7, <1>8, <1>9, <1>10 DEF Next

\* A verdict is one record more.
LEMMA VerdictRecorded ==
  ASSUME InTrace, Counted, Recorded, phase \in {"mm_valid", "mm_valid_op"},
         NEW valid \in BOOLEAN, Judged(valid),
         errors' = IF valid THEN errors ELSE errors + 1
  PROVE  /\ Recorded' /\ phase' = "judged" /\ i' = i /\ i' \in DOMAIN mm_stats'
         /\ mm_stats'[i'].valid <=> valid
<1> DEFINE rec == [ops |-> trace.num_ops, valid |-> valid, hwm |-> 0, heapsize |-> 0, secs |-> 0]
<1>1. trace.num_ops \in Nat \ {0}
  BY Requests DEF WithTrace
<1>2. rec \in Stat /\ (rec.valid <=> valid)
  BY <1>1 DEF Stat
<1>3. mm_stats' = Append(mm_stats, rec) /\ phase' = "judged" /\ i' = i
  BY DEF Judged
<1> HIDE DEF rec
<1>4. StatsOK(mm_stats) /\ Len(mm_stats) = i - 1 /\ i \in Nat \ {0} /\ errors = Cardinality(Invalids(mm_stats))
  BY DEF Recorded, Counted, BeforeVerdict
<1>5. /\ StatsOK(mm_stats') /\ Len(mm_stats') = i /\ mm_stats'[i] = rec
      /\ rec.valid => Invalids(mm_stats') = Invalids(mm_stats)
      /\ ~ rec.valid => Cardinality(Invalids(mm_stats')) = Cardinality(Invalids(mm_stats)) + 1
  BY <1>2, <1>3, <1>4, AppendStats
<1>6. errors' = Cardinality(Invalids(mm_stats'))
  BY <1>2, <1>4, <1>5
<1>7. Recorded'
  BY <1>3, <1>5, <1>6 DEF Recorded, LibcPhases, BeforeVerdict, AfterVerdict
<1>8. i' \in DOMAIN mm_stats'
  BY <1>3, <1>4, <1>5 DEF StatsOK
<1> QED
  BY <1>2, <1>3, <1>5, <1>7, <1>8

\* A record is filled in.
LEMMA FilledRecorded ==
  ASSUME Counted, Recorded, phase \in {"mm_util", "mm_timed"}, UNCHANGED errors,
         mm_stats' \in Seq(Stat), Len(mm_stats') = Len(mm_stats),
         \A n \in DOMAIN mm_stats : mm_stats'[n].valid <=> mm_stats[n].valid,
         \/ phase' = "mm_timed" /\ i' = i
         \/ phase' = "mm_read" /\ i' = i + 1
  PROVE  Recorded'
<1>1. StatsOK(mm_stats) /\ Len(mm_stats) = i /\ i \in Nat \ {0} /\ errors = Cardinality(Invalids(mm_stats))
  BY DEF Recorded, Counted, AfterVerdict
<1>2. DOMAIN mm_stats' = DOMAIN mm_stats
  BY <1>1 DEF StatsOK
<1>3. Invalids(mm_stats') = Invalids(mm_stats)
  BY <1>2 DEF Invalids
<1>4. StatsOK(mm_stats')
  BY <1>2 DEF StatsOK
<1> QED
  BY <1>1, <1>3, <1>4 DEF Recorded, LibcPhases, BeforeVerdict, AfterVerdict

LEMMA RecordedInit == Init => Recorded
<1> SUFFICES ASSUME Init PROVE Recorded
  OBVIOUS
<1>1. mm_stats = <<>> /\ errors = 0 /\ phase = "start"
  BY DEF Init
<1>2. StatsOK(<<>>) /\ Invalids(<<>>) = {}
  BY DEF StatsOK, Invalids
<1> QED
  BY <1>1, <1>2, FS_EmptySet DEF Recorded, BeforeVerdict, AfterVerdict

LEMMA RecordedStep ==
  ASSUME InTrace, Counted, Recorded, Typed, Clocked, [Next]_vars
  PROVE  Recorded'
<1> USE DEF exit, LibcPhases, BeforeVerdict, AfterVerdict
<1>1. CASE UNCHANGED <<mm_stats, errors>> /\ i' = i
           /\ \/ phase' = phase \/ phase' = "exited"
              \/ phase \in LibcPhases /\ phase' \in LibcPhases
              \/ phase \in BeforeVerdict /\ phase' \in BeforeVerdict
              \/ phase \in AfterVerdict /\ phase' \in AfterVerdict
  BY <1>1 DEF Recorded
<1>2. CASE phase \in LibcPhases /\ phase' = "mm_read" /\ i' = 1 /\ UNCHANGED <<mm_stats, errors>>
  BY <1>2 DEF Recorded
<1>3. CASE main
  <2>1. phase = "start" /\ i = 1
    BY <1>3 DEF main, Counted
  <2> QED
    BY <1>1, <1>2, <1>3, <2>1 DEF main
<1>4. CASE \/ read_trace("libc_read", "libc_valid") \/ read_trace("mm_read", "mm_valid")
           \/ eval_libc_valid \/ mem_init
  BY <1>1, <1>2, <1>4 DEF read_trace, eval_libc_valid, mem_init
<1>5. CASE \/ Start("libc_timed", "libc_speed") \/ Run("libc_timed", "libc_speed")
           \/ Start("mm_timed", "mm_speed") \/ Run("mm_timed", "mm_speed")
  BY <1>1, <1>5 DEF Start, Run
<1>6. CASE libc_secs
  BY <1>6 DEF libc_secs, NextTrace, Recorded
<1>7. CASE NotValid
  <2>1. /\ phase = "judged" /\ phase' = "mm_read" /\ i' = i + 1 /\ UNCHANGED <<mm_stats, errors>>
        /\ Len(mm_stats) = i /\ i \in Nat \ {0}
    BY <1>7 DEF NotValid, NextTrace, Recorded, Counted
  <2> QED
    BY <2>1 DEF Recorded
<1>8. CASE eval_mm_valid
  <2>1. CASE Invalid
    BY <1>8, <2>1, VerdictRecorded DEF eval_mm_valid, Invalid, malloc_error
  <2>2. CASE phase' = "mm_valid_op" /\ UNCHANGED <<i, mm_stats, errors>>
    BY <1>1, <1>8, <2>2 DEF eval_mm_valid
  <2> QED
    BY <1>8, <2>1, <2>2 DEF eval_mm_valid
<1>9. CASE mm_malloc_answers \/ mm_realloc_answers
  <2>1. phase = "mm_valid_op"
    BY <1>9 DEF mm_malloc_answers, mm_realloc_answers
  <2>2. CASE Invalid
    BY <2>1, <2>2, VerdictRecorded DEF Invalid, malloc_error
  <2>3. CASE UNCHANGED <<phase, i, mm_stats, errors>>
    BY <1>1, <2>3
  <2> QED
    BY <1>9, <2>2, <2>3 DEF mm_malloc_answers, mm_realloc_answers, Refused, Remember
<1>10. CASE mm_free_returns
  BY <1>1, <1>10 DEF mm_free_returns
<1>11. CASE Served
  BY <1>11, VerdictRecorded DEF Served
<1>12. CASE eval_mm_util \/ Utilize
  BY <1>1, <1>12 DEF eval_mm_util, Utilize
<1>13. CASE Utilized
  <2>1. /\ phase = "mm_util" /\ phase' = "mm_timed" /\ UNCHANGED <<i, errors>>
        /\ mm_stats' = [mm_stats EXCEPT ![i].hwm = max_total_size, ![i].heapsize = brk]
    BY <1>13 DEF Utilized, mem_heapsize
  <2>2. /\ mm_stats \in Seq(Stat) /\ Len(mm_stats) = i /\ i \in Nat \ {0}
        /\ max_total_size \in Nat /\ brk \in Nat
    BY <2>1 DEF Recorded, StatsOK, Counted, Typed
  <2>3. i \in 1 .. i /\ DOMAIN mm_stats = 1 .. i /\ mm_stats[i] \in Stat
    BY <2>2
  <2> DEFINE rec == [mm_stats[i] EXCEPT !.hwm = max_total_size, !.heapsize = brk]
  <2>4. /\ rec \in Stat /\ rec.hwm = max_total_size /\ rec.heapsize = brk
        /\ rec.valid = mm_stats[i].valid
    BY <2>2, <2>3 DEF Stat
  <2>5. mm_stats' = [mm_stats EXCEPT ![i] = rec]
    BY <2>1, <2>2, <2>3 DEF Stat
  <2> HIDE DEF rec
  <2>6. mm_stats' \in Seq(Stat) /\ Len(mm_stats') = Len(mm_stats)
    BY <2>2, <2>4, <2>5
  <2>7. mm_stats'[i] = rec /\ \A n \in DOMAIN mm_stats : n # i => mm_stats'[n] = mm_stats[n]
    BY <2>3, <2>5
  <2>8. \A n \in DOMAIN mm_stats : mm_stats'[n].valid <=> mm_stats[n].valid
    BY <2>4, <2>7
  <2> QED
    BY <2>1, <2>6, <2>8, FilledRecorded
<1>14. CASE mm_secs
  <2>1. /\ phase = "mm_timed" /\ phase' = "mm_read" /\ i' = i + 1 /\ UNCHANGED errors
        /\ mm_stats' = [mm_stats EXCEPT ![i].secs = result]
    BY <1>14 DEF mm_secs, NextTrace
  <2>2. /\ mm_stats \in Seq(Stat) /\ Len(mm_stats) = i /\ i \in Nat \ {0} /\ result \in Int
    BY <2>1 DEF Recorded, StatsOK, Counted, Clocked
  <2>3. i \in 1 .. i /\ DOMAIN mm_stats = 1 .. i /\ mm_stats[i] \in Stat
    BY <2>2
  <2> DEFINE rec == [mm_stats[i] EXCEPT !.secs = result]
  <2>4. /\ rec \in Stat /\ rec.hwm = mm_stats[i].hwm /\ rec.heapsize = mm_stats[i].heapsize
        /\ rec.valid = mm_stats[i].valid
    BY <2>2, <2>3 DEF Stat
  <2>5. mm_stats' = [mm_stats EXCEPT ![i] = rec]
    BY <2>1
  <2> HIDE DEF rec
  <2>6. mm_stats' \in Seq(Stat) /\ Len(mm_stats') = Len(mm_stats)
    BY <2>2, <2>4, <2>5
  <2>7. mm_stats'[i] = rec /\ \A n \in DOMAIN mm_stats : n # i => mm_stats'[n] = mm_stats[n]
    BY <2>3, <2>5
  <2>8. \A n \in DOMAIN mm_stats : mm_stats'[n].valid <=> mm_stats[n].valid
    BY <2>4, <2>7
  <2> QED
    BY <2>1, <2>6, <2>8, FilledRecorded
<1>15. CASE Score
  BY <1>1, <1>15 DEF Score
<1>16. CASE UNCHANGED vars
  BY <1>1, <1>16 DEF vars
<1> QED
  BY <1>3, <1>4, <1>5, <1>6, <1>7, <1>8, <1>9, <1>10, <1>11, <1>12, <1>13, <1>14, <1>15, <1>16 DEF Next

\* A trace that has been measured has had blocks,
Marked == \A n \in DOMAIN mm_stats :
            mm_stats[n].valid /\ (n = i => phase \notin {"judged", "mm_util", "exited"})
              => mm_stats[n].hwm > 0

\* and they fit in its heap while all places have been right.
Bounded == sound => \A n \in DOMAIN mm_stats : mm_stats[n].hwm <= mm_stats[n].heapsize

LEMMA EarnedInit == Init => Marked /\ Bounded
BY DEF Init, Marked, Bounded

\* A verdict is not measured yet.
LEMMA VerdictEarned ==
  ASSUME InTrace, Counted, Recorded, Marked, Bounded, phase \in {"mm_valid", "mm_valid_op"},
         NEW valid \in BOOLEAN, Judged(valid)
  PROVE  Marked' /\ Bounded'
<1> DEFINE rec == [ops |-> trace.num_ops, valid |-> valid, hwm |-> 0, heapsize |-> 0, secs |-> 0]
<1>1. /\ mm_stats' = Append(mm_stats, rec) /\ phase' = "judged" /\ i' = i /\ sound' = sound
      /\ rec.hwm = 0 /\ rec.heapsize = 0
  BY DEF Judged, measures
<1> HIDE DEF rec
<1>2. mm_stats \in Seq(Stat) /\ Len(mm_stats) = i - 1 /\ i \in Nat \ {0}
  BY DEF Recorded, Counted, BeforeVerdict, StatsOK
<1>3. /\ DOMAIN mm_stats = 1 .. i - 1 /\ DOMAIN mm_stats' = 1 .. i /\ mm_stats'[i] = rec
      /\ \A n \in 1 .. i - 1 : mm_stats'[n] = mm_stats[n]
  BY <1>1, <1>2
<1>4. ASSUME NEW n \in DOMAIN mm_stats', n # i
      PROVE  n \in DOMAIN mm_stats /\ mm_stats'[n] = mm_stats[n]
  BY <1>2, <1>3, <1>4
<1>5. Marked'
  <2> SUFFICES ASSUME NEW n \in DOMAIN mm_stats', mm_stats'[n].valid,
                      n = i' => phase' \notin {"judged", "mm_util", "exited"}
               PROVE  mm_stats'[n].hwm > 0
    BY DEF Marked
  <2>1. n # i
    BY <1>1
  <2>2. n \in DOMAIN mm_stats /\ mm_stats'[n] = mm_stats[n]
    BY <1>4, <2>1
  <2> QED
    BY <2>1, <2>2 DEF Marked
<1>6. Bounded'
  <2> SUFFICES ASSUME sound', NEW n \in DOMAIN mm_stats'
               PROVE  mm_stats'[n].hwm <= mm_stats'[n].heapsize
    BY DEF Bounded
  <2>1. CASE n = i
    BY <1>1, <1>3, <2>1
  <2>2. CASE n # i
    <3>1. n \in DOMAIN mm_stats /\ mm_stats'[n] = mm_stats[n]
      BY <1>4, <2>2
    <3> QED
      BY <1>1, <3>1 DEF Bounded
  <2> QED
    BY <2>1, <2>2
<1> QED
  BY <1>5, <1>6

LEMMA EarnedStep ==
  ASSUME InTrace, Following, Counted, Recorded, Typed, Measured, Risen, Marked, Bounded, [Next]_vars
  PROVE  Marked' /\ Bounded'
<1> USE DEF exit
<1> DEFINE Unmarked == {"judged", "mm_util", "exited"}
<1>1. CASE UNCHANGED <<mm_stats, i>> /\ (sound' => sound) /\ (phase \notin Unmarked \/ phase' \in Unmarked)
  BY <1>1 DEF Marked, Bounded
<1>2. CASE phase \in LibcPhases /\ UNCHANGED mm_stats
  BY <1>2 DEF Marked, Bounded, Recorded
<1>3. CASE main \/ eval_libc_valid \/ mem_init \/ libc_secs
  BY <1>2, <1>3 DEF main, eval_libc_valid, mem_init, libc_secs, NextTrace, LibcPhases
<1>4. CASE read_trace("libc_read", "libc_valid") \/ read_trace("mm_read", "mm_valid")
  BY <1>1, <1>4 DEF read_trace, measures
<1>5. CASE \/ Start("libc_timed", "libc_speed") \/ Run("libc_timed", "libc_speed")
           \/ Start("mm_timed", "mm_speed") \/ Run("mm_timed", "mm_speed")
  BY <1>1, <1>5 DEF Start, Run, measures
<1>6. CASE NotValid
  <2>1. /\ phase = "judged" /\ phase' = "mm_read" /\ i' = i + 1 /\ UNCHANGED <<mm_stats, sound>>
        /\ ~ mm_stats[i].valid
    BY <1>6 DEF NotValid, NextTrace, measures
  <2> QED
    BY <2>1 DEF Marked, Bounded
<1>7. CASE eval_mm_valid
  <2>1. CASE Invalid
    BY <1>7, <2>1, VerdictEarned DEF eval_mm_valid, Invalid
  <2>2. CASE phase' = "mm_valid_op" /\ UNCHANGED <<i, mm_stats, sound>>
    BY <1>1, <1>7, <2>2 DEF eval_mm_valid
  <2> QED
    BY <1>7, <2>1, <2>2 DEF eval_mm_valid, measures
<1>8. CASE mm_malloc_answers \/ mm_realloc_answers
  <2>1. phase = "mm_valid_op"
    BY <1>8 DEF mm_malloc_answers, mm_realloc_answers
  <2>2. CASE Invalid
    BY <2>1, <2>2, VerdictEarned DEF Invalid
  <2>3. CASE UNCHANGED <<phase, i, mm_stats, sound>>
    BY <1>1, <2>1, <2>3
  <2> QED
    BY <1>8, <2>2, <2>3 DEF mm_malloc_answers, mm_realloc_answers, Refused, Remember, measures
<1>9. CASE mm_free_returns
  BY <1>1, <1>9 DEF mm_free_returns, measures
<1>10. CASE Served
  BY <1>10, VerdictEarned DEF Served
<1>11. CASE eval_mm_util
  BY <1>1, <1>11 DEF eval_mm_util, measures
<1>12. CASE Utilize
  BY <1>1, <1>12 DEF Utilize, measures
<1>13. CASE Utilized
  <2>1. /\ phase = "mm_util" /\ phase' = "mm_timed" /\ op > trace.num_ops /\ UNCHANGED <<i, sound>>
        /\ mm_stats' = [mm_stats EXCEPT ![i].hwm = max_total_size, ![i].heapsize = brk]
    BY <1>13 DEF Utilized, mem_heapsize
  <2>2. /\ mm_stats \in Seq(Stat) /\ Len(mm_stats) = i /\ i \in Nat \ {0}
        /\ max_total_size \in Nat /\ brk \in Nat /\ (sound => max_total_size <= brk)
    BY <2>1 DEF Recorded, StatsOK, Counted, Typed, Measured, AfterVerdict
  <2>3. max_total_size > 0
    <3>1. trace.num_ops \in Nat \ {0} /\ op \in Nat \ {0}
      BY <2>1, Requests DEF WithTrace, Following
    <3> QED
      BY <2>1, <3>1 DEF Risen
  <2>4. i \in 1 .. i /\ DOMAIN mm_stats = 1 .. i /\ mm_stats[i] \in Stat
    BY <2>2
  <2>5. /\ DOMAIN mm_stats' = 1 .. i
        /\ mm_stats'[i].hwm = max_total_size /\ mm_stats'[i].heapsize = brk
        /\ \A n \in 1 .. i : n # i => mm_stats'[n] = mm_stats[n]
    BY <2>1, <2>4 DEF Stat
  <2>6. Marked'
    BY <2>1, <2>3, <2>4, <2>5 DEF Marked
  <2>7. Bounded'
    BY <2>1, <2>2, <2>4, <2>5 DEF Bounded
  <2> QED
    BY <2>6, <2>7
<1>14. CASE mm_secs
  <2>1. /\ phase = "mm_timed" /\ phase' = "mm_read" /\ i' = i + 1 /\ UNCHANGED sound
        /\ mm_stats' = [mm_stats EXCEPT ![i].secs = result]
    BY <1>14 DEF mm_secs, NextTrace, measures
  <2>2. mm_stats \in Seq(Stat) /\ Len(mm_stats) = i /\ i \in Nat \ {0}
    BY <2>1 DEF Recorded, StatsOK, Counted, AfterVerdict
  <2>3. i \in 1 .. i /\ DOMAIN mm_stats = 1 .. i /\ mm_stats[i] \in Stat
    BY <2>2
  <2>4. /\ DOMAIN mm_stats' = 1 .. i
        /\ mm_stats'[i].hwm = mm_stats[i].hwm /\ mm_stats'[i].heapsize = mm_stats[i].heapsize
        /\ mm_stats'[i].valid = mm_stats[i].valid
        /\ \A n \in 1 .. i : n # i => mm_stats'[n] = mm_stats[n]
    BY <2>1, <2>3 DEF Stat
  <2>5. Marked'
    BY <2>1, <2>3, <2>4 DEF Marked
  <2>6. Bounded'
    BY <2>1, <2>3, <2>4 DEF Bounded
  <2> QED
    BY <2>5, <2>6
<1>15. CASE Score
  BY <1>1, <1>15 DEF Score, measures
<1>16. CASE UNCHANGED vars
  BY <1>16 DEF vars, measures, Marked, Bounded
<1> QED
  BY <1>3, <1>4, <1>5, <1>6, <1>7, <1>8, <1>9, <1>10, <1>11, <1>12, <1>13, <1>14, <1>15, <1>16 DEF Next

-----------------------------------------------------------------------------
(* The verdicts. *)

\* While no answer has been wrong, each block is as memset has left it.
Sound ==
  phase = "mm_valid_op" =>
    /\ DOMAIN mem = 0 .. MAX_HEAP - 1
    /\ \A id \in live : Bytes(blocks[id], block_sizes[id]) \subseteq 0 .. MAX_HEAP - 1
    /\ faults \subseteq {"encloses"}
    /\ faults = {} => \A id \in live : \A a \in Bytes(blocks[id], block_sizes[id]) : mem[a] = Char(id % 256)

\* An answer that add_range takes is not wrong, but for what it may enclose.
LEMMA TakenIsRight ==
  ASSUME NEW ids, Placed(ids, blocks, block_sizes),
         NEW list, Lists(list, ids, blocks, block_sizes),
         NEW p \in Int, NEW size \in Nat \ {0}, brk' \in Nat, Addable(list, range_t(p, size))
  PROVE  Wrong(p, size, ids) \subseteq {"encloses"} /\ Bytes(p, size) \subseteq 0 .. brk' - 1
<1>1. p % ALIGNMENT = 0 /\ p >= 0 /\ p <= brk' - 1 /\ p + size - 1 <= brk' - 1
      /\ \A r \in ToSet(list) : ~ Overlaps(range_t(p, size), r)
  BY DEF Addable, range_t, IS_ALIGNED, InHeap
<1>2. Bytes(p, size) \subseteq 0 .. brk' - 1
  <2>1. PICK b \in Nat : b = brk'
    OBVIOUS
  <2>2. p >= 0 /\ p + size - 1 <= b - 1
    BY <1>1, <2>1
  <2>3. p .. p + size - 1 \subseteq 0 .. b - 1
    BY <2>2
  <2> QED
    BY <2>1, <2>3 DEF Bytes
<1>3. ASSUME NEW id \in ids
      PROVE  {p, p + size - 1} \cap Bytes(blocks[id], block_sizes[id]) = {}
  <2>1. PICK n \in DOMAIN list : list[n] = range_t(blocks[id], block_sizes[id])
    BY DEF Lists
  <2>2. ~ Overlaps(range_t(p, size), range_t(blocks[id], block_sizes[id]))
    BY <1>1, <2>1 DEF ToSet
  <2>3. blocks[id] \in Int /\ block_sizes[id] \in Nat \ {0}
    BY DEF Placed
  <2> QED
    BY <2>2, <2>3 DEF Overlaps, range_t, Bytes
<1> QED
  BY <1>1, <1>2, <1>3, WrongIs

\* An answer that add_range refuses is wrong.
LEMMA RefusedIsWrong ==
  ASSUME NEW ids, Placed(ids, blocks, block_sizes),
         NEW list, Lists(list, ids, blocks, block_sizes),
         NEW p \in Int, NEW size \in Nat \ {0}, brk' \in Nat, ~ Addable(list, range_t(p, size))
  PROVE  Wrong(p, size, ids) # {}
<1>1. CASE p % ALIGNMENT # 0
  BY <1>1, WrongIs
<1>2. CASE ~ (p >= 0 /\ p + size - 1 <= brk' - 1)
  <2>1. p \in p .. p + size - 1 /\ p + size - 1 \in p .. p + size - 1
    OBVIOUS
  <2>3. p \in Bytes(p, size) /\ p + size - 1 \in Bytes(p, size)
    BY <2>1 DEF Bytes
  <2>4. PICK b \in Nat : b = brk'
    OBVIOUS
  <2>9. ~ (p >= 0 /\ p + size - 1 <= b - 1)
    BY <1>2, <2>4, Zenon
  <2>6. p < 0 \/ p + size - 1 > b - 1
    BY <2>9
  <2>7. p < 0 => p \notin 0 .. b - 1
    OBVIOUS
  <2>8. p + size - 1 > b - 1 => p + size - 1 \notin 0 .. b - 1
    OBVIOUS
  <2>5. p \notin 0 .. b - 1 \/ p + size - 1 \notin 0 .. b - 1
    BY <2>6, <2>7, <2>8
  <2>2. ~ (Bytes(p, size) \subseteq 0 .. brk' - 1)
    BY <2>3, <2>4, <2>5
  <2> QED
    BY <2>2, WrongIs
<1>3. CASE \E r \in ToSet(list) : Overlaps(range_t(p, size), r)
  <2>1. PICK n \in DOMAIN list : Overlaps(range_t(p, size), list[n])
    BY <1>3 DEF ToSet
  <2>2. PICK id \in ids : list[n] = range_t(blocks[id], block_sizes[id])
    BY DEF Lists
  <2>3. blocks[id] \in Int /\ block_sizes[id] \in Nat \ {0}
    BY DEF Placed
  <2>4. {p, p + size - 1} \cap Bytes(blocks[id], block_sizes[id]) # {}
    BY <2>1, <2>2, <2>3 DEF Overlaps, range_t, Bytes
  <2> QED
    BY <2>4, WrongIs
<1>4. \/ p % ALIGNMENT # 0 \/ ~ (p >= 0 /\ p + size - 1 <= brk' - 1)
      \/ \E r \in ToSet(list) : Overlaps(range_t(p, size), r)
  <2>1. PICK b \in Nat : b = brk'
    OBVIOUS
  <2> DEFINE r == range_t(p, size)
  <2>2. r.lo = p /\ r.hi = p + size - 1
    BY DEF range_t
  <2> HIDE DEF r
  <2>3. \/ ~ IS_ALIGNED(r.lo) \/ ~ InHeap(r.lo) \/ ~ InHeap(r.hi)
        \/ \E t \in ToSet(list) : Overlaps(r, t)
    BY DEF Addable, r
  <2>4. /\ IS_ALIGNED(r.lo) <=> p % ALIGNMENT = 0
        /\ InHeap(r.lo) <=> p >= 0 /\ p <= b - 1
        /\ InHeap(r.hi) <=> p + size - 1 >= 0 /\ p + size - 1 <= b - 1
    BY <2>1, <2>2 DEF IS_ALIGNED, InHeap
  <2>5. p >= 0 /\ p + size - 1 <= b - 1 => p <= b - 1 /\ p + size - 1 >= 0
    OBVIOUS
  <2> QED
    BY <2>1, <2>3, <2>4, <2>5 DEF r
<1> QED
  BY <1>1, <1>2, <1>3, <1>4

\* memset fills a block, and leaves the others.
LEMMA BlockFilled ==
  ASSUME NEW ids, NEW id, NEW p \in Int, NEW size \in Nat \ {0},
         DOMAIN mem = 0 .. MAX_HEAP - 1, Bytes(p, size) \subseteq 0 .. MAX_HEAP - 1,
         mem' = memset(mem, p, size, id),
         blocks' = Stored(blocks, id, p), block_sizes' = Stored(block_sizes, id, size), id \notin ids,
         \A a \in ids : /\ a \in DOMAIN blocks /\ a \in DOMAIN block_sizes
                        /\ Bytes(blocks[a], block_sizes[a]) \subseteq 0 .. MAX_HEAP - 1
  PROVE  /\ DOMAIN mem' = 0 .. MAX_HEAP - 1
         /\ \A a \in ids \cup {id} : Bytes(blocks'[a], block_sizes'[a]) \subseteq 0 .. MAX_HEAP - 1
         /\ (\A a \in ids : /\ Bytes(p, size) \cap Bytes(blocks[a], block_sizes[a]) = {}
                            /\ \A c \in Bytes(blocks[a], block_sizes[a]) : mem[c] = Char(a % 256))
            => \A a \in ids \cup {id} : \A c \in Bytes(blocks'[a], block_sizes'[a]) : mem'[c] = Char(a % 256)
<1>1. /\ blocks'[id] = p /\ block_sizes'[id] = size
      /\ \A a \in ids : blocks'[a] = blocks[a] /\ block_sizes'[a] = block_sizes[a]
  BY DEF Stored
<1>2. /\ DOMAIN mem' = 0 .. MAX_HEAP - 1
      /\ \A c \in Bytes(p, size) : mem'[c] = Char(id % 256)
      /\ \A c \in 0 .. MAX_HEAP - 1 : c \notin Bytes(p, size) => mem'[c] = mem[c]
  BY DEF memset
<1> QED
  BY <1>1, <1>2

\* The allocated ids are numbers, and a byte of one of them
LEMMA LowByte ==
  ASSUME InTrace, Following, phase = "mm_valid_op", op <= trace.num_ops
  PROVE  request.index % 256 \in 0 .. 255
<1>1. request.index \in Nat
  BY RequestServed
<1> QED
  BY <1>1

\* The heap does not grow over its end.
LEMMA GrowsInHeap ==
  ASSUME Typed, Grows
  PROVE  brk' \in Nat /\ 0 .. brk' - 1 \subseteq 0 .. MAX_HEAP - 1
<1>1. PICK b \in brk .. MAX_HEAP : brk' = b
  BY DEF Grows
<1>2. b \in Nat /\ b <= MAX_HEAP /\ MAX_HEAP \in Nat
  BY <1>1, AnswerType DEF Typed
<1>3. 0 .. b - 1 \subseteq 0 .. MAX_HEAP - 1
  BY <1>2
<1> QED
  BY <1>1, <1>2, <1>3

\* A realloc that passes has kept the data: no byte of an id is junk.
LEMMA PassesKept ==
  ASSUME InTrace, Following, Listed, phase = "mm_valid_op", op <= trace.num_ops, request.type = "r",
         NEW p, NEW kept \in BOOLEAN,
         \A j \in 0 .. Compared(request.index, request.size) - 1 :
           Moved(p, request.size, blocks[request.index], block_sizes[request.index], kept)[j]
             = request.index % 256
  PROVE  kept
<1> DEFINE index == request.index
           data == Moved(p, request.size, blocks[index], block_sizes[index], kept)
<1>1. request.size \in Nat \ {0} /\ block_sizes[index] \in Nat \ {0} /\ index % 256 \in 0 .. 255
  BY RequestServed, LowByte DEF Listed, Placed
<1>2. 0 \in 0 .. Compared(index, request.size) - 1 /\ 0 \in 0 .. request.size - 1
  BY <1>1 DEF Compared
<1>3. data[0] = index % 256
  BY <1>2
<1>4. ~ kept => data[0] = Junk
  BY <1>2 DEF Moved
<1> QED
  BY <1>1, <1>3, <1>4 DEF Junk

\* A realloc that kept the data of a block that was as memset leaves it
LEMMA KeptIsFilled ==
  ASSUME InTrace, Following, Listed, Sound, phase = "mm_valid_op", op <= trace.num_ops,
         request.type = "r", faults = {}, NEW p,
         NEW j \in 0 .. Compared(request.index, request.size) - 1
  PROVE  Moved(p, request.size, blocks[request.index], block_sizes[request.index], TRUE)[j]
           = Char(request.index % 256)
<1> DEFINE index == request.index
           old == blocks[index]
           oldsize == block_sizes[index]
<1>1. /\ request.size \in Nat \ {0} /\ oldsize \in Nat \ {0} /\ old \in Int /\ index \in live
  BY RequestServed DEF Listed, Placed
<1> HIDE DEF index, old, oldsize
<1>2. j \in 0 .. Compared(index, request.size) - 1
  BY DEF index
<1>3. j \in 0 .. request.size - 1 /\ j < oldsize /\ old + j \in Bytes(old, oldsize)
  BY <1>1, <1>2 DEF Compared, oldsize, Bytes
<1>4. old + j \in DOMAIN mem /\ mem[old + j] = Char(index % 256)
  BY <1>1, <1>3 DEF Sound, old, oldsize
<1> QED
  BY <1>3, <1>4 DEF Moved, index, old, oldsize

LEMMA SoundStep ==
  ASSUME InTrace, Following, Listed, Typed, Sound, [Next]_vars
  PROVE  Sound'
<1> DEFINE Fits(a) == Bytes(blocks[a], block_sizes[a]) \subseteq 0 .. MAX_HEAP - 1
           Holds(a) == \A c \in Bytes(blocks[a], block_sizes[a]) : mem[c] = Char(a % 256)
<1> SUFFICES ASSUME phase' = "mm_valid_op"
             PROVE  /\ DOMAIN mem' = 0 .. MAX_HEAP - 1
                    /\ \A a \in live' : Fits(a)'
                    /\ faults' \subseteq {"encloses"}
                    /\ faults' = {} => \A a \in live' : Holds(a)'
  BY DEF Sound
<1>1. CASE eval_mm_valid
  BY <1>1 DEF eval_mm_valid, Invalid, Judged
<1>2. phase = "mm_valid_op" => /\ DOMAIN mem = 0 .. MAX_HEAP - 1
                               /\ \A a \in live : Fits(a)
                               /\ faults \subseteq {"encloses"}
                               /\ faults = {} => \A a \in live : Holds(a)
  BY DEF Sound
<1>3. ASSUME NEW p \in Addresses, phase = "mm_valid_op", op <= trace.num_ops, request.type # "f", Grows,
             NEW ids, ids = live \ {request.index}, NEW list,
             Placed(ids, blocks, block_sizes), Lists(list, ids, blocks, block_sizes),
             Addable(list, range_t(p, request.size)),
             faults' = faults \cup Wrong(p, request.size, ids),
             mem' = memset(mem, p, request.size, request.index), Remember(p, list)
      PROVE  /\ DOMAIN mem' = 0 .. MAX_HEAP - 1
             /\ \A a \in live' : Fits(a)'
             /\ faults' \subseteq {"encloses"}
             /\ faults' = {} => \A a \in live' : Holds(a)'
  <2>1. p \in Int /\ request.size \in Nat \ {0} /\ request.index \in Nat
    BY <1>3, RequestServed, AnswerType
  <2>2. Wrong(p, request.size, ids) \subseteq {"encloses"} /\ Bytes(p, request.size) \subseteq 0 .. brk' - 1
    BY <1>3, <2>1, GrowsInHeap, TakenIsRight
  <2>3. Bytes(p, request.size) \subseteq 0 .. MAX_HEAP - 1
    BY <1>3, <2>2, GrowsInHeap
  <2>4. /\ blocks' = Stored(blocks, request.index, p) /\ block_sizes' = Stored(block_sizes, request.index, request.size)
        /\ live' = ids \cup {request.index} /\ request.index \notin ids /\ ids \subseteq live
    BY <1>3 DEF Remember
  <2>5. \A a \in ids : a \in DOMAIN blocks /\ a \in DOMAIN block_sizes /\ Fits(a)
    BY <1>2, <1>3, <2>4 DEF Placed
  <2>6. /\ DOMAIN mem' = 0 .. MAX_HEAP - 1
        /\ \A a \in live' : Fits(a)'
        /\ (\A a \in ids : Bytes(p, request.size) \cap Bytes(blocks[a], block_sizes[a]) = {} /\ Holds(a))
           => \A a \in live' : Holds(a)'
    BY <1>2, <1>3, <2>1, <2>3, <2>4, <2>5, BlockFilled
  <2>7. ASSUME faults' = {}
        PROVE  \A a \in live' : Holds(a)'
    <3>1. faults = {} /\ Wrong(p, request.size, ids) = {}
      BY <1>3, <2>7
    <3>2. \A a \in ids : Bytes(p, request.size) \cap Bytes(blocks[a], block_sizes[a]) = {}
      BY <3>1, RightIsApart
    <3>3. \A a \in ids : Holds(a)
      BY <1>2, <1>3, <2>4, <3>1
    <3> QED
      BY <2>6, <3>2, <3>3
  <2> QED
    BY <1>2, <1>3, <2>2, <2>6, <2>7
<1> HIDE DEF Fits, Holds
<1>4. CASE mm_malloc_answers
  <2>1. PICK p \in Addresses : /\ phase = "mm_valid_op" /\ op <= trace.num_ops /\ request.type = "a" /\ Grows
                               /\ faults' = faults \cup Wrong(p, request.size, live)
                               /\ Addable(ranges, range_t(p, request.size))
                               /\ mem' = memset(mem, p, request.size, request.index) /\ Remember(p, ranges)
    BY <1>4 DEF mm_malloc_answers, Refused, Invalid, Judged
  <2>2. live = live \ {request.index}
    BY <2>1, RequestServed
  <2>3. Placed(live, blocks, block_sizes) /\ Lists(ranges, live, blocks, block_sizes)
    BY <2>1 DEF Listed
  <2> QED
    BY <1>3, <2>1, <2>2, <2>3
<1>5. CASE mm_realloc_answers
  <2> DEFINE list == remove_range(ranges, blocks[request.index])
             ids == live \ {request.index}
  <2>1. PICK p \in Addresses, kept \in BOOLEAN :
          /\ phase = "mm_valid_op" /\ op <= trace.num_ops /\ request.type = "r" /\ Grows
          /\ faults' = faults \cup Wrong(p, request.size, ids) \cup (IF kept THEN {} ELSE {"lost"})
          /\ Addable(list, range_t(p, request.size))
          /\ \A j \in 0 .. Compared(request.index, request.size) - 1 :
               Moved(p, request.size, blocks[request.index], block_sizes[request.index], kept)[j]
                 = request.index % 256
          /\ mem' = memset(mem, p, request.size, request.index) /\ Remember(p, list)
    BY <1>5, ZenonT(60) DEF mm_realloc_answers, Refused, Invalid, Judged
  <2>2. kept
    BY <2>1, PassesKept
  <2>3. Placed(ids, blocks, block_sizes) /\ Lists(list, ids, blocks, block_sizes)
    BY <2>1, RequestServed, Removed DEF Listed
  <2> HIDE DEF list
  <2>4. faults' = faults \cup Wrong(p, request.size, ids)
    BY <2>1, <2>2
  <2> QED
    BY <1>3, <2>1, <2>3, <2>4
<1>6. CASE mm_free_returns
  BY <1>2, <1>6 DEF mm_free_returns, Fits, Holds
<1>7. CASE UNCHANGED vars
  BY <1>2, <1>7 DEF vars, heap, Fits, Holds
<1> QED
  BY <1>1, <1>4, <1>5, <1>6, <1>7, JudgingSteps

\* The steps after which there is a verdict
LEMMA VerdictSteps ==
  ASSUME [Next]_vars, phase' = "judged"
  PROVE  \/ eval_mm_valid \/ mm_malloc_answers \/ mm_realloc_answers \/ Served \/ UNCHANGED vars
<1> USE DEF exit
<1>1. ~ main
  BY DEF main
<1>2. ~ read_trace("libc_read", "libc_valid") /\ ~ read_trace("mm_read", "mm_valid")
  BY DEF read_trace
<1>3. ~ eval_libc_valid /\ ~ mem_init /\ ~ libc_secs /\ ~ mm_secs /\ ~ NotValid
  BY DEF eval_libc_valid, mem_init, libc_secs, mm_secs, NotValid, NextTrace
<1>4. /\ ~ Start("libc_timed", "libc_speed") /\ ~ Run("libc_timed", "libc_speed")
      /\ ~ Start("mm_timed", "mm_speed") /\ ~ Run("mm_timed", "mm_speed")
  BY DEF Start, Run
<1>5. ~ mm_free_returns /\ ~ eval_mm_util /\ ~ Utilize /\ ~ Utilized /\ ~ Score
  BY DEF mm_free_returns, eval_mm_util, Utilize, Utilized, Score
<1> QED
  BY <1>1, <1>2, <1>3, <1>4, <1>5 DEF Next

\* malloc and realloc are refused for a reason.
LEMMA RefusedForAReason ==
  ASSUME InTrace, Following, Listed, Typed, Sound, phase' = "judged",
         mm_malloc_answers \/ mm_realloc_answers
  PROVE  faults' # {} \/ (request.type = "r" /\ request.index % 256 >= 128)
<1>1. phase = "mm_valid_op" /\ op <= trace.num_ops /\ Grows
  BY DEF mm_malloc_answers, mm_realloc_answers
<1>2. brk' \in Nat /\ Placed(live, blocks, block_sizes) /\ Lists(ranges, live, blocks, block_sizes)
  BY <1>1, GrowsInHeap DEF Listed
<1>3. \A p \in Addresses : p \in Int
  BY AnswerType
<1>4. CASE mm_malloc_answers
  <2> SUFFICES ASSUME NEW p \in Addresses, faults' = faults \cup Wrong(p, request.size, live),
                      ~ Addable(ranges, range_t(p, request.size))
               PROVE  faults' # {}
    BY <1>1, <1>4 DEF mm_malloc_answers, Remember
  <2>1. request.size \in Nat \ {0}
    BY <1>1, <1>4, RequestServed DEF mm_malloc_answers
  <2>2. Wrong(p, request.size, live) # {}
    BY <1>2, <1>3, <2>1, RefusedIsWrong
  <2> QED
    BY <2>2
<1>5. CASE mm_realloc_answers
  <2> DEFINE index == request.index
             list == remove_range(ranges, blocks[index])
             ids == live \ {index}
             data(p, kept) == Moved(p, request.size, blocks[index], block_sizes[index], kept)
  <2>1. request.type = "r" /\ request.size \in Nat \ {0} /\ index \in live /\ index % 256 \in 0 .. 255
    BY <1>1, <1>5, RequestServed, LowByte DEF mm_realloc_answers
  <2> SUFFICES ASSUME faults' = {}, NEW p \in Addresses, NEW kept \in BOOLEAN,
                      faults' = faults \cup Wrong(p, request.size, ids)
                                       \cup (IF kept THEN {} ELSE {"lost"}),
                      ~ (/\ Addable(list, range_t(p, request.size))
                         /\ \A j \in 0 .. Compared(index, request.size) - 1 : data(p, kept)[j] = index % 256)
               PROVE  index % 256 >= 128
    BY <1>1, <1>5, <2>1 DEF mm_realloc_answers, Remember
  <2>2. kept /\ faults = {} /\ Wrong(p, request.size, ids) = {}
    OBVIOUS
  <2>3. Placed(ids, blocks, block_sizes) /\ Lists(list, ids, blocks, block_sizes)
    BY <1>2, <2>1, Removed
  <2> HIDE DEF list, ids
  <2>4. Addable(list, range_t(p, request.size))
    BY <1>2, <1>3, <2>1, <2>2, <2>3, RefusedIsWrong
  <2>5. PICK j \in 0 .. Compared(index, request.size) - 1 : data(p, kept)[j] # index % 256
    BY <2>4
  <2>6. data(p, TRUE)[j] = Char(index % 256)
    BY <1>1, <2>1, <2>2, KeptIsFilled
  <2>7. data(p, kept) = data(p, TRUE)
    BY <2>2 DEF Moved
  <2>8. Char(index % 256) # index % 256
    BY <2>5, <2>6, <2>7
  <2> QED
    BY <2>1, <2>8 DEF Char
<1> QED
  BY <1>4, <1>5

LEMMA VerdictStep ==
  ASSUME InTrace, Following, Listed, Typed, Sound, Counted, Recorded, VerdictSound, [Next]_vars
  PROVE  VerdictSound'
<1> DEFINE Judgement(n, t, o, f) ==
             IF mm_stats'[n].valid THEN f \subseteq {"encloses"}
             ELSE f # {} \/ (t.ops[o].type = "r" /\ t.ops[o].index % 256 >= 128)
<1> SUFFICES ASSUME phase' = "judged"
             PROVE  Judgement(i', trace', op', faults')
  BY DEF VerdictSound, request
<1>1. CASE eval_mm_valid
  <2>1. phase = "mm_valid" /\ Invalid /\ faults' = {"null"}
    BY <1>1 DEF eval_mm_valid
  <2>2. ~ mm_stats'[i'].valid
    BY <2>1, VerdictRecorded DEF Invalid, malloc_error
  <2> QED
    BY <2>1, <2>2
<1>2. CASE mm_malloc_answers \/ mm_realloc_answers
  <2>1. phase = "mm_valid_op" /\ Invalid
    BY <1>2 DEF mm_malloc_answers, mm_realloc_answers, Refused, Remember
  <2>2. ~ mm_stats'[i'].valid /\ trace' = trace /\ op' = op
    BY <2>1, VerdictRecorded DEF Invalid, malloc_error, Judged
  <2> QED
    BY <1>2, <2>2, RefusedForAReason DEF request
<1>3. CASE Served
  <2>1. phase = "mm_valid_op" /\ Judged(TRUE) /\ faults' = faults /\ errors' = errors
    BY <1>3 DEF Served
  <2>2. mm_stats'[i'].valid
    BY <2>1, VerdictRecorded
  <2>3. faults \subseteq {"encloses"}
    BY <2>1 DEF Sound
  <2> QED
    BY <2>1, <2>2, <2>3
<1>4. CASE UNCHANGED vars
  BY <1>4 DEF vars, VerdictSound, request
<1> QED
  BY <1>1, <1>2, <1>3, <1>4, VerdictSteps

\* The state of the judgement, of its records and of the times
DriverInv == /\ JudgedInv /\ Clocked /\ Typed /\ Measured /\ Risen /\ Placing /\ Apart
             /\ Counted /\ Recorded /\ Marked /\ Bounded /\ Sound

LEMMA DriverInvariant == Spec => []DriverInv
<1>1. Init => DriverInv
  <2>1. Init => Sound
    BY DEF Init, Sound
  <2> QED
    BY <2>1, InTraceInit, FollowingInit, ClockedInit, MeasuredInit, CountedInit, RecordedInit, EarnedInit
       DEF DriverInv, JudgedInv
<1>2. DriverInv /\ [Next]_vars => DriverInv'
  <2> SUFFICES ASSUME DriverInv, [Next]_vars
               PROVE  DriverInv'
    OBVIOUS
  <2>1. JudgedInv'
    BY InTraceStep, FollowingStep, ListedStep DEF DriverInv, JudgedInv
  <2>2. Clocked' /\ Counted'
    BY ClockedStep, CountedStep DEF DriverInv
  <2>3. Typed' /\ Measured' /\ Risen' /\ Placing' /\ Apart'
    BY MeasuredStep DEF DriverInv, JudgedInv
  <2>4. Recorded' /\ Marked' /\ Bounded'
    BY RecordedStep, EarnedStep DEF DriverInv, JudgedInv
  <2>5. Sound'
    BY SoundStep DEF DriverInv, JudgedInv
  <2> QED
    BY <2>1, <2>2, <2>3, <2>4, <2>5 DEF DriverInv
<1> QED
  BY <1>1, <1>2, PTL DEF Spec

\* Whatever the allocator answers and whatever consistent trace is read, the
\* driver finds an allocator valid only if each of its answers was aligned, in
\* the heap, apart from the other blocks at both ends and, after realloc, with
\* the data it had; and it finds it invalid only if one was not, but for the
\* signed byte that realloc's test compares (mdriver.c:376-443, 570-668).
THEOREM VerdictsAreSound == Spec => []VerdictSound
<1>1. Init => VerdictSound
  BY DEF Init, VerdictSound
<1>2. DriverInv /\ VerdictSound /\ [Next]_vars => VerdictSound'
  BY VerdictStep DEF DriverInv, JudgedInv
<1> QED
  BY <1>1, <1>2, DriverInvariant, PTL DEF Spec

-----------------------------------------------------------------------------
(* The index. *)

LEMMA Quotient ==
  ASSUME NEW w \in Nat, NEW a \in Nat, NEW y \in Nat \ {0}, a <= w * y
  PROVE  a \div y \in 0 .. w
<1>1. PICK q \in Int, r \in 0 .. y - 1 : q = a \div y /\ a = y * q + r
  BY Euclid
<1>2. q >= 0
  <2>1. CASE q <= -1
    <3>1. y * q <= y * (-1)
      BY <2>1
    <3> QED
      BY <1>1, <3>1
  <2> QED
    BY <2>1
<1>3. q <= w
  <2>1. CASE q >= w + 1
    <3>1. y * q >= y * (w + 1)
      BY <2>1
    <3>2. y * (w + 1) = w * y + y /\ w * y \in Nat
      OBVIOUS
    <3> QED
      BY <1>1, <3>1, <3>2
  <2> QED
    BY <2>1
<1> QED
  BY <1>1, <1>2, <1>3

\* A part of a weight
LEMMA Share ==
  ASSUME NEW w \in Nat, NEW x \in Nat, NEW y \in Nat \ {0}, x <= y
  PROVE  (w * x) \div y \in 0 .. w
<1>1. PICK d \in Nat : y = x + d
  <2>1. y - x \in Nat /\ y = x + (y - x)
    OBVIOUS
  <2> QED
    BY <2>1
<1>2. w * (x + d) = w * x + w * d /\ w * x \in Nat /\ w * d \in Nat
  OBVIOUS
<1>3. w * x \in Nat /\ w * x <= w * y
  BY <1>1, <1>2
<1> QED
  BY <1>3, Quotient

\* Traces that have had blocks which fit in their heaps: these are not empty,
Fit(stats) == \A n \in DOMAIN stats : stats[n].hwm > 0 /\ stats[n].hwm <= stats[n].heapsize

\* the utilization of each is at most 1, and so is their mean.
LEMMA UtilBounds ==
  ASSUME StatsOK(mm_stats), Fit(mm_stats), Len(mm_stats) # 0
  PROVE  util \div Len(mm_stats) \in 0 .. 100
<1> DEFINE N == Len(mm_stats)
           f == [n \in DOMAIN mm_stats |-> (100 * mm_stats[n].hwm) \div mm_stats[n].heapsize]
<1>1. N \in Nat \ {0} /\ DOMAIN mm_stats = 1 .. N
  BY DEF StatsOK
<1>2. \A n \in 1 .. N : f[n] \in 0 .. 100
  <2> SUFFICES ASSUME NEW n \in 1 .. N
               PROVE  f[n] \in 0 .. 100
    OBVIOUS
  <2>1. mm_stats[n] \in Stat
    BY <1>1 DEF StatsOK
  <2>2. /\ mm_stats[n].hwm \in Nat /\ mm_stats[n].heapsize \in Nat \ {0}
        /\ mm_stats[n].hwm <= mm_stats[n].heapsize
    BY <1>1, <2>1 DEF Stat, Fit
  <2>3. (100 * mm_stats[n].hwm) \div mm_stats[n].heapsize \in 0 .. 100
    BY <2>2, Share
  <2> QED
    BY <1>1, <2>3
<1>3. util = Total(f, 1 .. N)
  <2>1. util = SumFunction(f) /\ DOMAIN f = 1 .. N
    BY <1>1 DEF util
  <2> HIDE DEF f
  <2> QED
    BY <2>1, SumFunctionIs
<1> HIDE DEF f
<1>4. IsFiniteSet(1 .. N) /\ Cardinality(1 .. N) = N
  BY <1>1, FS_Interval
<1>5. util \in Nat /\ util <= 100 * N
  BY <1>2, <1>3, <1>4, TotalBounds
<1> QED
  BY <1>1, <1>5, Quotient

\* Requests have been served, and the time is a number.
LEMMA OpsAndSecs ==
  ASSUME StatsOK(mm_stats), Len(mm_stats) # 0
  PROVE  ops \in Nat \ {0} /\ secs \in Int
<1> DEFINE N == Len(mm_stats)
           f == [n \in DOMAIN mm_stats |-> mm_stats[n].ops]
           g == [n \in DOMAIN mm_stats |-> mm_stats[n].secs]
<1>1. N \in Nat \ {0} /\ DOMAIN mm_stats = 1 .. N
  BY DEF StatsOK
<1>2. \A n \in 1 .. N : f[n] \in Nat \ {0} /\ g[n] \in Int
  <2> SUFFICES ASSUME NEW n \in 1 .. N
               PROVE  f[n] \in Nat \ {0} /\ g[n] \in Int
    OBVIOUS
  <2>1. mm_stats[n] \in Stat /\ f[n] = mm_stats[n].ops /\ g[n] = mm_stats[n].secs
    BY <1>1 DEF StatsOK
  <2> QED
    BY <2>1 DEF Stat
<1>3. DOMAIN f = 1 .. N /\ DOMAIN g = 1 .. N /\ ops = SumFunction(f) /\ secs = SumFunction(g)
  BY <1>1 DEF ops, secs
<1> HIDE DEF f, g
<1>4. ops = Total(f, 1 .. N) /\ secs = Total(g, 1 .. N)
  BY <1>3, SumFunctionIs
<1>5. IsFiniteSet(1 .. N) /\ 1 .. N # {}
  <2>1. IsFiniteSet(1 .. N)
    BY <1>1, FS_Interval
  <2>2. 1 \in 1 .. N
    BY <1>1
  <2> QED
    BY <2>1, <2>2
<1>6. ops \in Nat \ {0}
  <2>1. \A n \in 1 .. N : f[n] \in Nat \ {0}
    BY <1>2
  <2>2. Total(f, 1 .. N) \in Nat /\ Total(f, 1 .. N) > 0
    BY <1>5, <2>1, TotalPositive
  <2> QED
    BY <1>4, <2>2
<1>7. PICK t : Adds(t, g, 1 .. N)
  BY <1>2, <1>5, AddsExists
<1>8. secs = t[1 .. N]
  BY <1>4, <1>5, <1>7, TotalAdds
<1> QED
  BY <1>6, <1>7, <1>8 DEF Adds

LEMMA IndexBounds ==
  ASSUME StatsOK(mm_stats), Fit(mm_stats), Len(mm_stats) # 0, Len(tracefiles) = Len(mm_stats)
  PROVE  p1 + p2 \in 0 .. 100
<1>1. UTIL_WEIGHT \in Nat /\ 100 - UTIL_WEIGHT \in Nat /\ AVG_LIBC_THRUPUT \in Nat
  BY DriverAssumption
<1>2. p1 \in 0 .. UTIL_WEIGHT
  <2>1. PICK u \in 0 .. 100 : u = util \div Len(tracefiles)
    BY UtilBounds
  <2>2. (UTIL_WEIGHT * u) \div 100 \in 0 .. UTIL_WEIGHT
    BY <1>1, Share
  <2> QED
    BY <2>1, <2>2 DEF p1
<1>3. p2 \in 0 .. 100 - UTIL_WEIGHT
  <2>1. ops \in Nat \ {0} /\ secs \in Int
    BY OpsAndSecs
  <2>2. PICK c \in Int : c = AVG_LIBC_THRUPUT * secs
    BY <1>1, <2>1
  <2>3. CASE ops > c
    BY <1>1, <2>2, <2>3 DEF p2
  <2>4. CASE ops <= c
    <3>1. c \in Nat \ {0}
      BY <2>1, <2>4
    <3>2. ((100 - UTIL_WEIGHT) * ops) \div c \in 0 .. 100 - UTIL_WEIGHT
      BY <1>1, <2>1, <2>4, <3>1, Share
    <3> QED
      BY <2>1, <2>2, <2>4, <3>2 DEF p2
  <2> QED
    BY <2>1, <2>2, <2>3, <2>4
<1> QED
  BY <1>1, <1>2, <1>3

\* The index is computed once, at the end.
Indexed ==
  /\ phase # "exited" => perfindex = 0
  /\ perfindex # 0 => numcorrect = Len(tracefiles) /\ (sound => perfindex \in 1 .. 100)

LEMMA ScoreIndexed ==
  ASSUME Counted, Recorded, Marked, Bounded, Indexed, Score
  PROVE  Indexed'
<1>1. /\ phase = "mm_read" /\ i > Len(tracefiles) /\ phase' = "exited"
      /\ UNCHANGED <<mm_stats, tracefiles, sound>>
      /\ perfindex' = IF errors # 0 THEN 0 ELSE IF Unbounded THEN inf ELSE p1 + p2
  BY DEF Score, Clean, options, measures
<1>2. /\ Len(tracefiles) \in Nat \ {0} /\ i = Len(tracefiles) + 1 /\ Len(mm_stats) = i - 1
      /\ StatsOK(mm_stats) /\ errors = Cardinality(Invalids(mm_stats))
  BY <1>1 DEF Counted, Recorded, BeforeVerdict
<1>3. CASE errors # 0
  BY <1>1, <1>3 DEF Indexed
<1>4. CASE errors = 0
  <2>1. DOMAIN mm_stats = 1 .. Len(tracefiles) /\ \A n \in DOMAIN mm_stats : mm_stats[n].valid
    <3>1. Invalids(mm_stats) = {}
      BY <1>2, <1>4, InvalidsFinite
    <3>2. DOMAIN mm_stats = 1 .. Len(tracefiles)
      BY <1>2 DEF StatsOK
    <3> QED
      BY <3>1, <3>2 DEF Invalids
  <2>2. {n \in DOMAIN mm_stats : mm_stats[n].valid} = 1 .. Len(tracefiles)
    BY <2>1
  <2>3. numcorrect = Len(tracefiles)
    <3>1. PICK n \in Nat \ {0} : n = Len(tracefiles)
      BY <1>2
    <3>2. Cardinality(1 .. n) = n
      BY FS_Interval
    <3> QED
      BY <2>2, <3>1, <3>2 DEF numcorrect
  <2>4. numcorrect' = numcorrect
    BY <1>1 DEF numcorrect
  <2>5. ASSUME sound
        PROVE  perfindex' \in 0 .. 100
    <3>1. Fit(mm_stats)
      BY <1>1, <2>1, <2>5 DEF Marked, Bounded, Fit
    <3>2. p1 + p2 \in 0 .. 100
      BY <1>2, <3>1, IndexBounds
    <3>3. \A n \in DOMAIN mm_stats : mm_stats[n] \in Stat
      BY <1>2 DEF StatsOK
    <3>4. ~ Unbounded
      BY <3>1, <3>3 DEF Unbounded, Fit, Stat
    <3> QED
      BY <1>1, <1>4, <3>2, <3>4
  <2>6. perfindex' # 0 => numcorrect' = Len(tracefiles') /\ (sound' => perfindex' \in 1 .. 100)
    BY <1>1, <2>3, <2>4, <2>5
  <2> QED
    BY <1>1, <2>6 DEF Indexed
<1> QED
  BY <1>3, <1>4

\* Nothing else touches the index, and nothing is done after the exit.
LEMMA IndexUntouched ==
  ASSUME [Next]_vars, ~ Score
  PROVE  perfindex' = perfindex /\ (phase = "exited" => UNCHANGED vars)
<1> USE DEF exit
<1>1. CASE main
  BY <1>1 DEF main
<1>2. CASE read_trace("libc_read", "libc_valid") \/ read_trace("mm_read", "mm_valid")
  BY <1>2 DEF read_trace
<1>3. CASE eval_libc_valid \/ mem_init
  BY <1>3 DEF eval_libc_valid, mem_init
<1>4. CASE libc_secs \/ mm_secs \/ NotValid
  BY <1>4 DEF libc_secs, mm_secs, NotValid, NextTrace
<1>5. CASE \/ Start("libc_timed", "libc_speed") \/ Run("libc_timed", "libc_speed")
           \/ Start("mm_timed", "mm_speed") \/ Run("mm_timed", "mm_speed")
  BY <1>5 DEF Start, Run
<1>6. CASE eval_mm_valid \/ Served
  BY <1>6 DEF eval_mm_valid, Served, Invalid, Judged
<1>7. CASE mm_malloc_answers \/ mm_realloc_answers \/ mm_free_returns
  BY <1>7 DEF mm_malloc_answers, mm_realloc_answers, mm_free_returns, Remember, Refused, Invalid, Judged
<1>8. CASE eval_mm_util \/ Utilize \/ Utilized
  BY <1>8 DEF eval_mm_util, Utilize, Utilized
<1>9. CASE UNCHANGED vars
  BY <1>9 DEF vars
<1> QED
  BY <1>1, <1>2, <1>3, <1>4, <1>5, <1>6, <1>7, <1>8, <1>9 DEF Next

LEMMA IndexedStep ==
  ASSUME Counted, Recorded, Marked, Bounded, Indexed, [Next]_vars
  PROVE  Indexed'
<1>1. CASE Score
  BY <1>1, ScoreIndexed
<1>2. CASE ~ Score
  <2>1. perfindex' = perfindex /\ (phase = "exited" => UNCHANGED vars)
    BY <1>2, IndexUntouched
  <2>2. CASE phase = "exited"
    BY <2>1, <2>2 DEF Indexed, vars, options, measures, numcorrect
  <2>3. CASE phase # "exited"
    BY <2>1, <2>3 DEF Indexed
  <2> QED
    BY <2>2, <2>3
<1> QED
  BY <1>1, <1>2

\* For every set of traces, every allocator and every weight, the high water
\* mark of a trace is at least the sum of its blocks at any time, errors counts
\* the traces that are not valid, and an index is only given when all were valid
\* (mdriver.c:318-351, 708-771).  As long as no block was put over another one or
\* out of the heap while it was measured, which nothing in eval_mm_util looks at,
\* the high water mark is at most the heap, and the index at most 100.
THEOREM TheIndexIsEarned == Spec => []IndexIsEarned
<1>1. Init => Indexed
  BY DEF Init, Indexed
<1>2. DriverInv /\ Indexed /\ [Next]_vars => Indexed'
  BY IndexedStep DEF DriverInv
<1>3. DriverInv /\ Indexed => IndexIsEarned
  <2> SUFFICES ASSUME Measured, Recorded, Bounded, Indexed
               PROVE  IndexIsEarned
    BY DEF DriverInv
  <2>1. phase = "mm_util" => /\ total_size = SumFunction(Restrict(block_sizes, live))
                             /\ total_size <= max_total_size
                             /\ sound => max_total_size <= brk
    BY DEF Measured, Sum
  <2>2. sound => \A n \in DOMAIN mm_stats : mm_stats[n].hwm <= mm_stats[n].heapsize
    BY DEF Bounded
  <2>3. errors = Cardinality({n \in DOMAIN mm_stats : ~mm_stats[n].valid})
    BY DEF Recorded, Invalids
  <2>4. perfindex # 0 => numcorrect = Len(tracefiles) /\ (sound => perfindex \in 1 .. 100)
    BY DEF Indexed
  <2> QED
    BY <2>1, <2>2, <2>3, <2>4 DEF IndexIsEarned
<1> QED
  BY <1>1, <1>2, <1>3, DriverInvariant, PTL DEF Spec

=============================================================================
