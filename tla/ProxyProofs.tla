---------------------------- MODULE ProxyProofs ----------------------------
(***************************************************************************)
(* Proofs about Proxy, for every number of threads, objects and URLs and   *)
(* every size of the cache: until room has to be made, the threads that    *)
(* walk the list without the mutex and the one that inserts into it do not *)
(* disturb each other.                                                     *)
(***************************************************************************)
EXTENDS Proxy, FiniteSetTheorems, WellFoundedInduction, TLAPS

Requesting == {"find", "hit", "open", "pass", "close"}
Inserting == {"lock", "link", "link2"}
Freeing == {"victim"} \cup Unlinking
Labels == {"idle", "spin", "room"} \cup Requesting \cup Inserting \cup Freeing

TypeOK ==
  /\ prev \in [Nodes -> Nodes \cup {NULL}]
  /\ next \in [Nodes -> Nodes \cup {NULL}]
  /\ chance \in [Nodes -> {0, 1}]
  /\ url \in [Objects -> Urls \cup {NULL}]
  /\ live \subseteq Objects
  /\ total_size \in Nat
  /\ mutex \in {0, 1}
  /\ pc \in [Threads -> Labels]
  /\ req \in [Threads -> Urls \cup {NULL}]
  /\ cur \in [Threads -> Nodes \cup {NULL}]
  /\ mine \in [Threads -> Objects \cup {NULL}]
  /\ got \in [Threads -> Urls \cup {NULL, "nothing", "501"}]
  /\ fds \in Int
  /\ exit \in {"starting", "no", "usage", "exit(0)", "wild read", "SIGSEGV", "undefined"}

\* What is known of a thread's locals where it is
LocalsOK ==
  \A t \in Threads :
    /\ pc[t] \notin {"idle", "spin"} => req[t] \in Urls
    /\ pc[t] \in {"room"} \cup Inserting \cup Freeing => Size[req[t]] <= MAX_OBJECT_SIZE
    /\ pc[t] \in Inserting => mine[t] \in Objects
    /\ pc[t] = "hit" => cur[t] \in Objects
    /\ pc[t] \in Freeing => NoRoom(Size[req[t]])

\* The mutex is taken exactly while one thread links its object.
Holds(t) == pc[t] \in {"link", "link2"}
MutexOK == /\ \A t, u \in Threads : Holds(t) /\ Holds(u) => t = u
           /\ mutex = 1 <=> \A t \in Threads : ~ Holds(t)

\* s leads from the tail over the cached objects, in the order in which they
\* came, to the head.  The links to the next object are those to the previous
\* one turned round, but for the head's while a new object is linked.
Chain(s, n) ==
  /\ n \in Nat
  /\ s \in [0 .. n + 1 -> Nodes]
  /\ s[0] = tail /\ s[n + 1] = head
  /\ \A i, j \in 0 .. n + 1 : s[i] = s[j] => i = j
  /\ \A i \in 1 .. n : s[i] \in Cached
  /\ \A o \in Cached : \E i \in 1 .. n : s[i] = o
  /\ \A i \in 0 .. n : prev[s[i]] = s[i + 1]
  /\ \A i \in 1 .. n : next[s[i]] = s[i - 1]
  /\ \A t \in Threads :
       /\ pc[t] = "link" => prev[mine[t]] = head /\ next[mine[t]] = s[n]
       /\ pc[t] = "link2" => n > 0 /\ mine[t] = s[n] /\ next[head] = s[n - 1]
  /\ (\A t \in Threads : pc[t] # "link2") => next[head] = s[n]

\* The objects that are being inserted: each thread has its own.
OwnObjects ==
  /\ \A t \in Threads : pc[t] \in Inserting => mine[t] \in live /\ url[mine[t]] = req[t]
  /\ \A t, u \in Threads :
       pc[t] \in Inserting /\ pc[u] \in Inserting /\ mine[t] = mine[u] => t = u

\* A walk of find_object is at a cached object or at its end, and a hit at an
\* object of the URL that was asked for.
WalksOK ==
  \A t \in Threads :
    /\ pc[t] = "find" => cur[t] \in Cached \cup {head}
    /\ pc[t] = "hit" => cur[t] \in Cached /\ url[cur[t]] = req[t]

Sound == /\ \E n \in Nat : \E s \in [0 .. n + 1 -> Nodes] : Chain(s, n)
         /\ OwnObjects
         /\ WalksOK
         /\ exit \notin {"SIGSEGV", "undefined"}
         /\ ServedIsRequested

IInv == TypeOK /\ LocalsOK /\ MutexOK /\ (~ Evicting => Sound)

-----------------------------------------------------------------------------
LEMMA NodeFacts == /\ NULL \notin Nodes
                   /\ head \in Nodes /\ tail \in Nodes /\ head # tail
                   /\ head \notin Objects /\ tail \notin Objects
                   /\ Objects \subseteq Nodes
                   /\ NULL \notin Objects
BY ObjectsAssumption DEF Nodes, Sentinels, NULL, head, tail

\* The types: at the start, and after a step of each kind.
LEMMA TypeInit == Init => TypeOK /\ LocalsOK /\ MutexOK
BY NodeFacts DEF Init, init_cache, TypeOK, LocalsOK, MutexOK, Holds, Labels, Requesting,
     Inserting, Freeing, Unlinking

LEMMA FdsType ==
  ASSUME TypeOK, fds' = fds + 1
  PROVE  fds' \in Int
<1>1. fds \in Int
  BY DEF TypeOK
<1> QED
  BY <1>1

LEMMA ConnectionType ==
  ASSUME TypeOK, NEW t \in Threads, Connection(t)
  PROVE  TypeOK'
<1> USE NodeFacts DEF TypeOK, Labels, Requesting, Accepts, At, Running, Goto, MoveTo, Send, cache, list, locals
<1>1. ASSUME NEW u \in Urls, Request(t, u) PROVE TypeOK'
  BY <1>1 DEF Request, Last
<1>2. CASE NoRequest(t)
  BY <1>2 DEF NoRequest
<1>3. CASE NotImplemented(t)
  BY <1>3 DEF NotImplemented, clienterror
<1>4. CASE HeadersCut(t)
  BY <1>4 DEF HeadersCut
<1>5. CASE BadUrl(t)
  <2>1. /\ fds' = fds + 1 /\ exit' = "wild read"
        /\ UNCHANGED <<prev, next, chance, url, live, total_size, mutex, pc, req, cur, mine, got>>
    BY <1>5 DEF BadUrl
  <2> QED
    BY <2>1, FdsType, Zenon
<1> QED
  BY <1>1, <1>2, <1>3, <1>4, <1>5 DEF Connection

LEMMA EndType ==
  ASSUME TypeOK, NEW how \in {"no", "usage", "exit(0)", "wild read", "SIGSEGV", "undefined"}, End(how)
  PROVE  TypeOK'
BY DEF TypeOK, End, cache, list, locals

LEMMA DerefType ==
  ASSUME TypeOK, NEW p, Deref(p)
  PROVE  TypeOK'
BY EndType DEF Deref

LEMMA ValidType ==
  ASSUME TypeOK, NEW p, Valid(p)
  PROVE  p \in Nodes
BY DEF TypeOK, Valid, Nodes

LEMMA WorkType ==
  ASSUME TypeOK, LocalsOK, NEW t \in Threads, Work(t)
  PROVE  TypeOK'
<1> USE NodeFacts DEF At, Running, Goto, MoveTo, Send, Leave, cache, list, locals
<1>1. CASE FindObject(t)
  <2>1. CASE Deref(cur[t])
    BY <2>1, DerefType
  <2>2. CASE ~ Deref(cur[t])
    <3>1. /\ pc' \in [Threads -> Labels]
          /\ cur' \in [Threads -> Nodes \cup {NULL}]
          /\ chance' \in [Nodes -> {0, 1}]
          /\ UNCHANGED <<prev, next, url, live, total_size, mutex, req, mine, got, fds, exit>>
      BY <1>1, <2>2 DEF FindObject, TypeOK, Labels, Requesting, Touch
    <3> QED
      BY <3>1 DEF TypeOK
  <2> QED
    BY <2>1, <2>2
<1>2. CASE Hit(t)
  <2>1. CASE Deref(cur[t])
    BY <2>1, DerefType
  <2>2. CASE ~ Deref(cur[t])
    <3>1. url[cur[t]] \in Urls \cup {NULL}
      BY <1>2 DEF Hit, TypeOK, LocalsOK
    <3>2. /\ pc' \in [Threads -> Labels]
          /\ cur' \in [Threads -> Nodes \cup {NULL}]
          /\ mine' \in [Threads -> Objects \cup {NULL}]
          /\ got' \in [Threads -> Urls \cup {NULL, "nothing", "501"}]
          /\ UNCHANGED <<prev, next, chance, url, live, total_size, mutex, req, fds, exit>>
      BY <1>2, <2>2, <3>1 DEF Hit, TypeOK, Labels
    <3> QED
      BY <3>2 DEF TypeOK
  <2> QED
    BY <2>1, <2>2
<1>3. CASE Open(t)
  <2>1. CASE End("exit(0)")
    BY <2>1, EndType
  <2>2. CASE ~ End("exit(0)")
    <3>1. /\ fds' = fds + 1
          /\ pc' \in [Threads -> Labels]
          /\ UNCHANGED <<prev, next, chance, url, live, total_size, mutex, req, cur, mine, got, exit>>
      BY <1>3, <2>2 DEF Open, open_clientfd, TypeOK, Labels, Requesting
    <3> QED
      BY <3>1, FdsType, Zenon DEF TypeOK
  <2> QED
    BY <2>1, <2>2
<1>4. CASE PassResponse(t)
  BY <1>4 DEF PassResponse, TypeOK, LocalsOK, Labels, Requesting
<1>5. CASE Close(t)
  BY <1>5 DEF Close, TypeOK, Labels
<1>6. CASE Room(t)
  <2>1. /\ pc' \in [Threads -> Labels]
        /\ cur' \in [Threads -> Nodes \cup {NULL}]
        /\ mine' \in [Threads -> Objects \cup {NULL}]
    BY <1>6 DEF Room, TypeOK, Labels, Inserting, Freeing, Last, malloc
  <2>2. /\ chance' \in [Nodes -> {0, 1}]
        /\ url' \in [Objects -> Urls \cup {NULL}]
        /\ live' \subseteq Objects
        /\ UNCHANGED <<prev, next, total_size, mutex, req, got, fds, exit>>
    BY <1>6 DEF Room, TypeOK, LocalsOK, malloc
  <2> QED
    BY <2>1, <2>2 DEF TypeOK
<1>7. CASE Lock(t)
  BY <1>7 DEF Lock, P, SetLinks, TypeOK, LocalsOK, Labels, Inserting
<1>8. CASE Link(t)
  <2>1. CASE Deref(next[mine[t]])
    BY <2>1, DerefType
  <2>2. CASE ~ Deref(next[mine[t]])
    BY <1>8, <2>2, ValidType DEF Link, LinkPrev, TypeOK, LocalsOK, Labels, Inserting
  <2> QED
    BY <2>1, <2>2
<1>9. CASE Unlock(t)
  <2>1. total_size' \in Nat
    BY <1>9, SizeAssumption DEF Unlock, LinkNext, TypeOK, LocalsOK, Inserting
  <2> QED
    BY <1>9, <2>1 DEF Unlock, LinkNext, V, TypeOK, LocalsOK, Labels, Requesting, Inserting
<1>10. CASE FindVictim(t)
  BY <1>10 DEF FindVictim, Spare, Last, TypeOK, Labels, Freeing, Unlinking
<1>11. CASE EvictFails(t)
  BY <1>11, DerefType DEF EvictFails
<1>12. CASE Unlink(t)
  BY <1>12, ValidType DEF Unlink, UnlinkPrev, TypeOK, Labels, Freeing, Unlinking
<1>13. CASE Evict(t)
  BY <1>13, ValidType DEF Evict, UnlinkNext, TypeOK, Labels
<1> QED
  BY <1>1, <1>2, <1>3, <1>4, <1>5, <1>6, <1>7, <1>8, <1>9, <1>10, <1>11, <1>12, <1>13 DEF Work

LEMMA TypeStep ==
  ASSUME TypeOK, LocalsOK, [Next]_vars
  PROVE  TypeOK'
<1>1. CASE main
  BY <1>1 DEF main, open_listenfd, TypeOK, cache, list, locals
<1>2. ASSUME NEW t \in Threads, WrapperExits(t) PROVE TypeOK'
  BY <1>2, EndType DEF WrapperExits
<1>3. CASE UNCHANGED vars
  BY <1>3 DEF vars, TypeOK, cache, list, locals
<1> QED
  BY <1>1, <1>2, <1>3, ConnectionType, WorkType DEF Next

-----------------------------------------------------------------------------
\* A step of one thread leaves the locals of the others alone.
LEMMA OthersStay ==
  ASSUME TypeOK, NEW t \in Threads, NEW u \in Threads, u # t,
         Connection(t) \/ Work(t) \/ WrapperExits(t)
  PROVE  /\ pc'[u] = pc[u] /\ req'[u] = req[u] /\ cur'[u] = cur[u]
         /\ mine'[u] = mine[u] /\ got'[u] = got[u]
<1> USE DEF TypeOK, At, Goto, MoveTo, Send, Leave, End, Deref, cache, locals
<1>1. CASE Connection(t)
  BY <1>1 DEF Connection, Accepts, Request, NoRequest, NotImplemented, clienterror,
       HeadersCut, BadUrl
<1>2. CASE WrapperExits(t)
  BY <1>2 DEF WrapperExits
<1>3. CASE FindObject(t) \/ Hit(t) \/ Open(t) \/ PassResponse(t) \/ Close(t)
  BY <1>3 DEF FindObject, Hit, Open, PassResponse, Close
<1>4. CASE Room(t) \/ Lock(t) \/ Link(t) \/ Unlock(t)
  BY <1>4 DEF Room, Lock, Link, Unlock
<1>5. CASE FindVictim(t) \/ EvictFails(t) \/ Unlink(t) \/ Evict(t)
  BY <1>5 DEF FindVictim, EvictFails, Unlink, Evict
<1> QED
  BY <1>1, <1>2, <1>3, <1>4, <1>5 DEF Work

\* A thread that works does so for one request.
LEMMA RequestStays ==
  ASSUME TypeOK, NEW t \in Threads, Work(t) \/ WrapperExits(t)
  PROVE  req' = req
<1> USE DEF TypeOK, End, Deref, cache, locals
<1>2. CASE WrapperExits(t)
  BY <1>2 DEF WrapperExits
<1>3. CASE FindObject(t) \/ Hit(t) \/ Open(t) \/ PassResponse(t) \/ Close(t)
  BY <1>3 DEF FindObject, Hit, Open, PassResponse, Close
<1>4. CASE Room(t) \/ Lock(t) \/ Link(t) \/ Unlock(t)
  BY <1>4 DEF Room, Lock, Link, Unlock
<1>5. CASE FindVictim(t) \/ EvictFails(t) \/ Unlink(t) \/ Evict(t)
  BY <1>5 DEF FindVictim, EvictFails, Unlink, Evict
<1> QED
  BY <1>2, <1>3, <1>4, <1>5 DEF Work

\* The counter of cached bytes never decreases, and the last step of an
\* insertion is the only one that increases it.
LEMMA TotalGrows ==
  ASSUME TypeOK, LocalsOK, [Next]_vars
  PROVE  /\ total_size <= total_size'
         /\ total_size' = total_size \/ \E t \in Threads : Unlock(t)
<1> USE DEF End, Deref, cache, locals, malloc
<1>1. ASSUME main \/ UNCHANGED vars
      PROVE  total_size' = total_size
  BY <1>1 DEF main, vars
<1>2. ASSUME NEW t \in Threads, Connection(t) \/ WrapperExits(t)
      PROVE  total_size' = total_size
  BY <1>2 DEF Connection, Request, NoRequest, NotImplemented, HeadersCut, BadUrl, WrapperExits
<1>3. ASSUME NEW t \in Threads, Work(t), ~ Unlock(t)
      PROVE  total_size' = total_size
  BY <1>3 DEF Work, FindObject, Hit, Open, PassResponse, Close, Room, Lock, Link, SetLinks, LinkPrev,
       FindVictim, EvictFails, Unlink, Evict
<1>4. ASSUME NEW t \in Threads, Unlock(t)
      PROVE  total_size' = total_size + Size[req[t]] /\ Size[req[t]] \in Nat
  BY <1>4, SizeAssumption DEF Unlock, LinkNext, At, LocalsOK, Inserting
<1>5. total_size \in Nat
  BY DEF TypeOK
<1>6. total_size' = total_size \/ \E t \in Threads : Unlock(t)
  BY <1>1, <1>2, <1>3 DEF Next
<1> QED
  BY <1>4, <1>5, <1>6

\* Once there is no room for a response there never is again.
LEMMA NoRoomStays ==
  ASSUME TypeOK, LocalsOK, [Next]_vars, NEW u \in Urls, NoRoom(Size[u])
  PROVE  NoRoom(Size[u])'
<1>1. total_size \in Nat /\ total_size' \in Nat /\ total_size <= total_size'
  BY TypeStep, TotalGrows DEF TypeOK
<1>2. Size[u] \in Nat /\ MAX_CACHE_SIZE \in Nat
  BY SizeAssumption, LimitsAssumption
<1>3. total_size > MAX_CACHE_SIZE - Size[u]
  BY DEF NoRoom
<1>4. total_size' > MAX_CACHE_SIZE - Size[u]
  BY <1>1, <1>2, <1>3
<1> QED
  BY <1>4 DEF NoRoom

LEMMA LocalsStep ==
  ASSUME TypeOK, LocalsOK, [Next]_vars
  PROVE  LocalsOK'
<1> DEFINE Fine(t) == /\ pc[t] \notin {"idle", "spin"} => req[t] \in Urls
                      /\ pc[t] \in {"room"} \cup Inserting \cup Freeing => Size[req[t]] <= MAX_OBJECT_SIZE
                      /\ pc[t] \in Inserting => mine[t] \in Objects
                      /\ pc[t] = "hit" => cur[t] \in Objects
           Eager(t) == pc[t] \in Freeing => NoRoom(Size[req[t]])
<1> SUFFICES ASSUME NEW t \in Threads PROVE (Fine(t) /\ Eager(t))'
  BY DEF LocalsOK
<1>1. Fine(t) /\ Eager(t)
  BY DEF LocalsOK
<1>2. CASE pc'[t] = pc[t] /\ req'[t] = req[t] /\ cur'[t] = cur[t] /\ mine'[t] = mine[t]
  <2>1. pc[t] \in Freeing => req[t] \in Urls
    BY <1>1 DEF Freeing, Unlinking
  <2>2. Eager(t)'
    BY <1>1, <1>2, <2>1, NoRoomStays
  <2> QED
    BY <1>1, <1>2, <2>2
<1>3. CASE Connection(t)
  BY <1>3 DEF Connection, Accepts, Request, NoRequest, NotImplemented, HeadersCut, BadUrl, At, Goto,
       locals, TypeOK, Inserting, Freeing, Unlinking
<1>4. CASE Work(t) /\ ~ (pc'[t] = pc[t] /\ cur'[t] = cur[t] /\ mine'[t] = mine[t])
  <2>1. req'[t] = req[t]
    BY <1>4, RequestStays
  <2> USE <1>1, <2>1 DEF At, Goto, MoveTo, End, Deref, Leave, TypeOK, Inserting, Freeing, Unlinking, locals
  <2>2. CASE FindObject(t)
    BY <2>2 DEF FindObject
  <2>3. CASE Hit(t) \/ Open(t) \/ Close(t)
    BY <1>4, <2>3 DEF Hit, Open, Close
  <2>4. CASE PassResponse(t)
    BY <2>4 DEF PassResponse
  <2>5. CASE Room(t)
    <3>1. total_size' = total_size
      BY <2>5 DEF Room, malloc, cache
    <3>2. CASE NoRoom(Size[req[t]])
      BY <2>5, <3>1, <3>2 DEF Room, NoRoom
    <3>3. CASE ~ NoRoom(Size[req[t]])
      BY <2>5, <3>3 DEF Room, malloc
    <3> QED
      BY <3>2, <3>3
  <2>6. CASE Lock(t) \/ Link(t) \/ Unlock(t)
    BY <2>6 DEF Lock, Link, Unlock
  <2>7. CASE FindVictim(t) \/ Unlink(t)
    <3>1. total_size' = total_size
      BY <2>7 DEF FindVictim, Unlink
    <3> QED
      BY <2>7, <3>1 DEF FindVictim, Unlink, NoRoom
  <2>8. CASE EvictFails(t)
    BY <1>4, <2>8 DEF EvictFails
  <2>9. CASE Evict(t)
    BY <2>9 DEF Evict
  <2> QED
    BY <1>4, <2>2, <2>3, <2>4, <2>5, <2>6, <2>7, <2>8, <2>9 DEF Work
<1>5. CASE main \/ UNCHANGED vars \/ WrapperExits(t)
  BY <1>2, <1>5 DEF main, vars, locals, WrapperExits, End
<1>6. ASSUME NEW u \in Threads, u # t, Connection(u) \/ Work(u) \/ WrapperExits(u)
      PROVE  (Fine(t) /\ Eager(t))'
  BY <1>2, <1>6, OthersStay
<1>7. CASE Work(t)
  <2>1. req'[t] = req[t]
    BY <1>7, RequestStays
  <2> QED
    BY <1>2, <1>4, <1>7, <2>1
<1> QED
  BY <1>3, <1>5, <1>6, <1>7 DEF Next

-----------------------------------------------------------------------------
\* What a thread that makes room does, it does for the rest of its life.
LEMMA EvictingStays ==
  ASSUME TypeOK, LocalsOK, [Next]_vars, Evicting
  PROVE  Evicting'
<1> DEFINE Stuck(t) == \/ pc[t] \in Freeing
                       \/ pc[t] = "room" /\ NoRoom(Size[req[t]])
<1>1. PICK t \in Threads : Stuck(t)
  BY DEF Evicting, Freeing
<1>2. req[t] \in Urls /\ NoRoom(Size[req[t]])
  BY <1>1 DEF LocalsOK, Freeing, Unlinking
<1>3. NoRoom(Size[req[t]])'  \/ req'[t] # req[t]
  <2>1. ASSUME NEW u \in Urls, NoRoom(Size[u])
        PROVE  NoRoom(Size[u])'
    BY <2>1, NoRoomStays
  <2>2. ASSUME req'[t] = req[t] PROVE NoRoom(Size[req[t]])'
    BY <1>2, <2>1, <2>2 DEF NoRoom
  <2> QED
    BY <2>2
<1>4. CASE req'[t] = req[t] /\ pc'[t] \in Freeing \cup {"room"}
  BY <1>3, <1>4 DEF Evicting, Freeing
<1>5. CASE Work(t) \/ WrapperExits(t)
  <2>1. req'[t] = req[t]
    BY <1>5, RequestStays
  <2>2. pc'[t] \in Freeing \cup {"room"}
    BY <1>1, <1>2, <1>5 DEF Work, FindObject, Hit, Open, PassResponse, Close, Room, Lock, Link, Unlock,
         FindVictim, EvictFails, Unlink, Evict, WrapperExits, End, Deref, At, Goto, locals, TypeOK,
         Freeing, Unlinking
  <2> QED
    BY <1>4, <2>1, <2>2
<1>6. CASE Connection(t)
  BY <1>1, <1>6 DEF Connection, Request, NoRequest, NotImplemented, HeadersCut, BadUrl, Accepts, At,
       Freeing, Unlinking
<1>7. ASSUME NEW u \in Threads, u # t, Connection(u) \/ Work(u) \/ WrapperExits(u)
      PROVE  Evicting'
  BY <1>1, <1>4, <1>7, OthersStay
<1>8. CASE main \/ UNCHANGED vars
  BY <1>1, <1>4, <1>8 DEF main, vars, locals
<1> QED
  BY <1>5, <1>6, <1>7, <1>8 DEF Next

\* Only Lock takes the mutex and only Unlock gives it back.
LEMMA MutexStays ==
  ASSUME TypeOK, LocalsOK, [Next]_vars, \A t \in Threads : ~ Lock(t) /\ ~ Unlock(t)
  PROVE  mutex' = mutex /\ \A t \in Threads : Holds(t)' <=> Holds(t)
<1> USE DEF Holds, TypeOK, At, Goto, Leave, End, Deref, cache, locals
<1>1. ASSUME NEW t \in Threads, Work(t)
      PROVE  mutex' = mutex /\ (Holds(t)' <=> Holds(t))
  <2>1. CASE FindObject(t) \/ Hit(t) \/ Open(t) \/ PassResponse(t) \/ Close(t)
    BY <2>1 DEF FindObject, Hit, Open, PassResponse, Close
  <2>2. CASE Room(t) \/ Link(t)
    BY <2>2 DEF Room, Link, malloc
  <2>3. CASE FindVictim(t) \/ EvictFails(t) \/ Unlink(t) \/ Evict(t)
    BY <2>3 DEF FindVictim, EvictFails, Unlink, Evict, Unlinking
  <2> QED
    BY <1>1, <2>1, <2>2, <2>3 DEF Work
<1>2. ASSUME NEW t \in Threads, Connection(t) \/ WrapperExits(t)
      PROVE  mutex' = mutex /\ (Holds(t)' <=> Holds(t))
  BY <1>2 DEF Connection, Accepts, Request, NoRequest, NotImplemented, HeadersCut, BadUrl, WrapperExits
<1>3. CASE main \/ UNCHANGED vars
  BY <1>3 DEF main, vars
<1>4. ASSUME NEW t \in Threads, Connection(t) \/ Work(t) \/ WrapperExits(t), NEW u \in Threads
      PROVE  Holds(u)' <=> Holds(u)
  BY <1>1, <1>2, <1>4, OthersStay
<1> QED
  BY <1>1, <1>2, <1>3, <1>4 DEF Next

\* The critical section is exclusive.
LEMMA MutexStep ==
  ASSUME TypeOK, LocalsOK, MutexOK, [Next]_vars
  PROVE  MutexOK'
<1>1. ASSUME NEW t \in Threads, Lock(t)
      PROVE  MutexOK'
  <2>1. /\ mutex = 1 /\ mutex' = 0 /\ Holds(t)'
        /\ \A u \in Threads : u # t => (Holds(u)' <=> Holds(u))
    BY <1>1 DEF Lock, P, Holds, At, Goto, TypeOK
  <2> QED
    BY <2>1 DEF MutexOK
<1>2. ASSUME NEW t \in Threads, Unlock(t)
      PROVE  MutexOK'
  <2>1. /\ mutex' = 1 /\ Holds(t) /\ ~ Holds(t)'
        /\ \A u \in Threads : u # t => (Holds(u)' <=> Holds(u))
    BY <1>2 DEF Unlock, V, Holds, At, Goto, TypeOK
  <2> QED
    BY <2>1 DEF MutexOK
<1>3. CASE \A t \in Threads : ~ Lock(t) /\ ~ Unlock(t)
  BY <1>3, MutexStays DEF MutexOK
<1> QED
  BY <1>1, <1>2, <1>3

-----------------------------------------------------------------------------
\* The steps that leave the list and the insertions as they are.
Aside == /\ UNCHANGED <<prev, next, url, live>>
         /\ \A t \in Threads :
              \/ pc'[t] = pc[t] /\ mine'[t] = mine[t] /\ req'[t] = req[t]
              \/ {pc[t], pc'[t]} \cap Inserting = {}

LEMMA ChainFrame ==
  ASSUME NEW n, NEW s, Chain(s, n), Cached' = Cached, UNCHANGED <<prev, next>>,
         \A t \in Threads : pc[t] = "link" \/ pc'[t] = "link" => pc'[t] = pc[t] /\ mine'[t] = mine[t],
         \A t \in Threads : pc[t] = "link2" \/ pc'[t] = "link2" => pc'[t] = pc[t] /\ mine'[t] = mine[t]
  PROVE  Chain(s, n)'
<1>1. \A t \in Threads :
        /\ pc'[t] = "link" <=> pc[t] = "link"
        /\ pc'[t] = "link2" <=> pc[t] = "link2"
        /\ pc[t] \in {"link", "link2"} => mine'[t] = mine[t]
  OBVIOUS
<1>2. \A t \in Threads :
        /\ pc'[t] = "link" => prev'[mine'[t]] = head /\ next'[mine'[t]] = s[n]
        /\ pc'[t] = "link2" => n > 0 /\ mine'[t] = s[n] /\ next'[head] = s[n - 1]
  BY <1>1 DEF Chain
<1>3. (\A t \in Threads : pc'[t] # "link2") => next'[head] = s[n]
  BY <1>1 DEF Chain
<1> QED
  BY <1>2, <1>3 DEF Chain

LEMMA AsideKeeps ==
  ASSUME Aside
  PROVE  /\ Cached' = Cached
         /\ OwnObjects => OwnObjects'
         /\ \A n, s : Chain(s, n) => Chain(s, n)'
<1>1. Cached' = Cached
  BY DEF Aside, Cached, Inserting
<1>2. ASSUME OwnObjects
      PROVE  OwnObjects'
  BY <1>2 DEF Aside, OwnObjects, Inserting
<1>3. ASSUME NEW n, NEW s, Chain(s, n)
      PROVE  Chain(s, n)'
  <2>1. ASSUME NEW t \in Threads, NEW l \in Inserting, pc[t] = l \/ pc'[t] = l
        PROVE  pc'[t] = pc[t] /\ mine'[t] = mine[t]
    BY <2>1 DEF Aside
  <2> QED
    BY <1>1, <1>3, <2>1, ChainFrame DEF Aside, Inserting
<1> QED
  BY <1>1, <1>2, <1>3

\* Connections, and what a thread does outside the list, are such steps, and
\* so is whatever ends the process.
LEMMA StepsAside ==
  ASSUME TypeOK, NEW t \in Threads,
         \/ Connection(t) \/ WrapperExits(t)
         \/ FindObject(t) \/ Hit(t) \/ Open(t) \/ PassResponse(t) \/ Close(t)
         \/ \E p : Deref(p)
  PROVE  Aside
<1> USE DEF Aside, TypeOK, At, Goto, MoveTo, Leave, End, Deref, Inserting, cache, list, locals
<1>1. CASE Connection(t)
  BY <1>1, ZenonT(60) DEF Connection, Accepts, Request, NoRequest, NotImplemented, HeadersCut, BadUrl
<1>2. CASE WrapperExits(t) \/ \E p : Deref(p)
  BY <1>2 DEF WrapperExits
<1>3. CASE FindObject(t) \/ Hit(t) \/ Open(t)
  BY <1>3 DEF FindObject, Hit, Open
<1>4. CASE PassResponse(t) \/ Close(t)
  BY <1>4 DEF PassResponse, Close
<1> QED
  BY <1>1, <1>2, <1>3, <1>4

\* malloc: the new object is nobody else's, and not in the list yet.
LEMMA RoomKeeps ==
  ASSUME TypeOK, LocalsOK, OwnObjects, NEW t \in Threads, Room(t), ~ Evicting
  PROVE  /\ Cached' = Cached /\ OwnObjects' /\ UNCHANGED <<prev, next>>
         /\ \A o \in Cached : url'[o] = url[o]
         /\ \A n, s : Chain(s, n) => Chain(s, n)'
<1>1. PICK o \in Objects \ live :
        /\ live' = live \cup {o} /\ url' = [url EXCEPT ![o] = req[t]]
        /\ mine' = [mine EXCEPT ![t] = o] /\ pc' = [pc EXCEPT ![t] = "lock"]
        /\ pc[t] = "room" /\ UNCHANGED <<prev, next, req>>
  BY DEF Room, Evicting, malloc, At, Goto, list
<1>2. \A u \in Threads : u # t => pc'[u] = pc[u] /\ mine'[u] = mine[u]
  BY <1>1 DEF TypeOK
<1>3. pc'[t] = "lock" /\ mine'[t] = o /\ url'[o] = req[t]
  BY <1>1 DEF TypeOK
<1>4. \A x \in live : url'[x] = url[x]
  BY <1>1 DEF TypeOK
<1>5. Cached' = Cached
  <2>1. {u \in Threads : pc'[u] \in {"lock", "link"}} = {u \in Threads : pc[u] \in {"lock", "link"}} \cup {t}
    BY <1>2, <1>3
  <2>2. pc[t] \notin {"lock", "link"}
    BY <1>1
  <2> QED
    BY <1>1, <1>2, <1>3, <2>1, <2>2 DEF Cached
<1>6. OwnObjects'
  <2>1. ASSUME NEW u \in Threads, pc'[u] \in Inserting
        PROVE  mine'[u] \in live' /\ url'[mine'[u]] = req'[u]
    BY <1>1, <1>2, <1>3, <1>4, <2>1 DEF OwnObjects
  <2>2. ASSUME NEW u \in Threads, NEW v \in Threads,
               pc'[u] \in Inserting, pc'[v] \in Inserting, mine'[u] = mine'[v]
        PROVE  u = v
    BY <1>1, <1>2, <1>3, <2>2 DEF OwnObjects
  <2> QED
    BY <2>1, <2>2 DEF OwnObjects
<1>7. ASSUME NEW n, NEW s, Chain(s, n)
      PROVE  Chain(s, n)'
  <2> QED
    BY <1>1, <1>2, <1>3, <1>5, <1>7, ChainFrame
<1> QED
  BY <1>1, <1>4, <1>5, <1>6, <1>7 DEF Cached

\* The nodes of the chain, by what they are.
LEMMA NodesOfChain ==
  ASSUME TypeOK, NEW n, NEW s, Chain(s, n)
  PROVE  /\ \A i \in 0 .. n + 1 : s[i] \in Cached \cup {head, tail}
         /\ \A i \in 1 .. n : s[i] \in Objects
         /\ \A i \in 0 .. n : s[i] # head
         /\ s[n] \in Nodes /\ n \in 0 .. n + 1
<1>1. n \in Nat /\ s \in [0 .. n + 1 -> Nodes] /\ s[0] = tail /\ s[n + 1] = head
  BY DEF Chain
<1>2. \A i \in 1 .. n : s[i] \in Cached
  BY DEF Chain
<1>3. Cached \subseteq Objects
  BY DEF Cached, TypeOK
<1>4. \A i \in 0 .. n + 1 : i = 0 \/ i = n + 1 \/ i \in 1 .. n
  BY <1>1
<1>5. \A i \in 0 .. n : i # n + 1 /\ i \in 0 .. n + 1
  BY <1>1
<1>6. \A i \in 0 .. n : s[i] # head
  BY <1>1, <1>5 DEF Chain
<1> QED
  BY <1>1, <1>2, <1>3, <1>4, <1>6

\* The links of the new object: nobody meets it yet.
LEMMA LockKeeps ==
  ASSUME TypeOK, LocalsOK, MutexOK, OwnObjects, NEW t \in Threads, Lock(t)
  PROVE  /\ Cached' = Cached /\ OwnObjects'
         /\ \A n, s : Chain(s, n) => Chain(s, n)'
<1> DEFINE o == mine[t]
<1>1. /\ pc[t] = "lock" /\ mutex = 1
      /\ next' = [next EXCEPT ![o] = next[head]] /\ prev' = [prev EXCEPT ![o] = head]
      /\ pc' = [pc EXCEPT ![t] = "link"]
      /\ UNCHANGED <<url, live, req, mine>>
  BY DEF Lock, P, SetLinks, At, Goto
<1>2. o \in Objects /\ o \in Nodes /\ o \notin {head, tail}
  BY <1>1, NodeFacts DEF LocalsOK, Inserting
<1>3. \A u \in Threads : pc[u] \notin {"link", "link2"}
  BY <1>1 DEF MutexOK, Holds
<1>4. pc'[t] = "link" /\ \A u \in Threads : u # t => pc'[u] = pc[u]
  BY <1>1 DEF TypeOK
<1>5. Cached' = Cached
  BY <1>1, <1>4 DEF Cached
<1>6. OwnObjects'
  <2>1. \A u \in Threads : pc'[u] \in Inserting => pc[u] \in Inserting
    BY <1>1, <1>4 DEF Inserting
  <2> QED
    BY <1>1, <2>1 DEF OwnObjects
<1>7. ASSUME NEW n, NEW s, Chain(s, n)
      PROVE  Chain(s, n)'
  <2>1. o \notin Cached
    BY <1>1 DEF Cached
  <2>2. \A i \in 0 .. n + 1 : s[i] # o
    BY <1>2, <1>7, <2>1, NodesOfChain
  <2>3. n \in Nat /\ s \in [0 .. n + 1 -> Nodes]
    BY <1>7 DEF Chain
  <2>4. \A x \in Nodes : x # o => prev'[x] = prev[x] /\ next'[x] = next[x]
    BY <1>1 DEF TypeOK
  <2>5. prev'[o] = head /\ next'[o] = next[head]
    BY <1>1, <1>2 DEF TypeOK
  <2>6. next[head] = s[n] /\ next'[head] = s[n]
    BY <1>2, <1>3, <1>7, <2>4, NodeFacts DEF Chain
  <2>7. \A u \in Threads : /\ pc'[u] = "link" => prev'[mine'[u]] = head /\ next'[mine'[u]] = s[n]
                           /\ pc'[u] # "link2"
    BY <1>1, <1>3, <1>4, <2>5, <2>6
  <2>8. /\ \A i \in 0 .. n : prev'[s[i]] = s[i + 1]
        /\ \A i \in 1 .. n : next'[s[i]] = s[i - 1]
    <3>1. \A i \in 0 .. n : prev[s[i]] = s[i + 1]
      BY <1>7 DEF Chain
    <3>2. \A i \in 1 .. n : next[s[i]] = s[i - 1]
      BY <1>7 DEF Chain
    <3>3. \A i \in 0 .. n : i \in 0 .. n + 1 /\ s[i] \in Nodes /\ s[i] # o
      BY <2>2, <2>3
    <3>4. \A i \in 1 .. n : i \in 0 .. n
      BY <2>3
    <3> HIDE DEF o
    <3> QED
      BY <2>4, <3>1, <3>2, <3>3, <3>4
  <2> QED
    BY <1>5, <1>7, <2>6, <2>7, <2>8 DEF Chain
<1> QED
  BY <1>5, <1>6, <1>7

\* The link from the object that was first: walks meet the new object as the
\* last one before the head.
LEMMA LinkKeeps ==
  ASSUME TypeOK, LocalsOK, MutexOK, OwnObjects, NEW t \in Threads, Link(t),
         NEW n, NEW s, Chain(s, n)
  PROVE  /\ Cached' = Cached \cup {mine[t]} /\ OwnObjects'
         /\ UNCHANGED <<url, live, req, exit>>
         /\ \E r \in [0 .. n + 2 -> Nodes] : Chain(r, n + 1)'
<1> DEFINE o == mine[t]
<1>0. n \in Nat
  BY DEF Chain
<1>1. pc[t] = "link" /\ prev[o] = head /\ next[o] = s[n]
  BY DEF Link, At, Chain
<1>2. /\ n \in Nat /\ s \in [0 .. n + 1 -> Nodes] /\ s[n] \in Nodes /\ s[n] # head
      /\ s[0] = tail /\ s[n + 1] = head
      /\ \A i \in 0 .. n + 1 : s[i] \in Cached \cup {head, tail}
  BY <1>0, NodesOfChain DEF Chain
<1>3. Valid(s[n])
  <2>1. n \in 0 .. n + 1
    BY <1>2
  <2> QED
    BY <1>2, <2>1 DEF Valid, Cached, Sentinels
<1>4. /\ prev' = [prev EXCEPT ![s[n]] = o] /\ pc' = [pc EXCEPT ![t] = "link2"]
      /\ UNCHANGED <<next, url, live, req, mine, exit>>
  BY <1>1, <1>3 DEF Link, LinkPrev, Goto, Deref
<1>5. o \in Objects /\ o \in Nodes /\ o \notin {head, tail} /\ o \notin Cached /\ o \in live
  BY <1>1, NodeFacts DEF LocalsOK, Inserting, Cached, OwnObjects
<1>6. \A u \in Threads : u # t => pc[u] \notin {"link", "link2"}
  BY <1>1 DEF MutexOK, Holds
<1>7. pc'[t] = "link2" /\ \A u \in Threads : u # t => pc'[u] = pc[u]
  BY <1>4 DEF TypeOK
<1>8. Cached' = Cached \cup {o}
  <2>1. \A u \in Threads : u # t /\ pc[u] = "lock" => mine[u] # o
    BY <1>1 DEF OwnObjects, Inserting
  <2> QED
    BY <1>1, <1>4, <1>5, <1>6, <1>7, <2>1 DEF Cached
<1>9. OwnObjects'
  <2>1. \A u \in Threads : pc'[u] \in Inserting => pc[u] \in Inserting
    BY <1>1, <1>7 DEF Inserting
  <2> QED
    BY <1>4, <2>1 DEF OwnObjects
<1>10. \A i \in 0 .. n + 1 : s[i] # o
  BY <1>2, <1>5
<1>11. PICK r \in [0 .. n + 2 -> Nodes] :
         /\ r[0] = tail /\ r[n + 1] = o /\ r[n + 2] = head
         /\ \A i \in 0 .. n : r[i] = s[i]
  <2> DEFINE q == [i \in 0 .. n + 2 |-> IF i = n + 2 THEN head ELSE IF i = n + 1 THEN o ELSE s[i]]
  <2>1. /\ q \in [0 .. n + 2 -> Nodes]
        /\ q[0] = tail /\ q[n + 1] = o /\ q[n + 2] = head
        /\ \A i \in 0 .. n : q[i] = s[i]
    BY <1>2, <1>5, NodeFacts
  <2> HIDE DEF q
  <2> QED
    BY <2>1
<1>12. \A i, j \in 0 .. n + 2 : r[i] = r[j] => i = j
  <2>1. \A i, j \in 0 .. n + 1 : s[i] = s[j] => i = j
    BY DEF Chain
  <2>2. \A i \in 0 .. n : s[i] # head /\ s[i] # o /\ i \in 0 .. n + 1
    BY <1>2, <1>10, <2>1
  <2>3. \A i \in 0 .. n + 2 : i = n + 2 \/ i = n + 1 \/ i \in 0 .. n
    BY <1>0
  <2> QED
    BY <1>5, <1>11, <2>1, <2>2, <2>3
<1>13. /\ \A i \in 1 .. n + 1 : r[i] \in Cached'
       /\ \A x \in Cached' : \E i \in 1 .. n + 1 : r[i] = x
  <2>1. \A i \in 1 .. n + 1 : i = n + 1 \/ (i \in 1 .. n /\ i \in 0 .. n)
    BY <1>0
  <2>2. \A i \in 1 .. n : i \in 1 .. n + 1 /\ i \in 0 .. n
    BY <1>0
  <2>3. n + 1 \in 1 .. n + 1
    BY <1>0
  <2>4. /\ \A i \in 1 .. n : s[i] \in Cached
        /\ \A x \in Cached : \E i \in 1 .. n : s[i] = x
    BY DEF Chain
  <2> HIDE DEF o
  <2>5. ASSUME NEW i \in 1 .. n + 1
        PROVE  r[i] \in Cached'
    BY <1>8, <1>11, <2>1, <2>4
  <2>6. ASSUME NEW x \in Cached'
        PROVE  \E i \in 1 .. n + 1 : r[i] = x
    BY <1>8, <1>11, <2>2, <2>3, <2>4
  <2> QED
    BY <2>5, <2>6
<1>14. \A x \in Nodes : x # s[n] => prev'[x] = prev[x]
  BY <1>4 DEF TypeOK
<1>15. prev'[s[n]] = o
  BY <1>2, <1>4 DEF TypeOK
<1>16. \A i \in 0 .. n + 1 : prev'[r[i]] = r[i + 1]
  <2>1. \A i \in 0 .. n + 1 : i = n + 1 \/ i = n \/ i \in 0 .. n - 1
    BY <1>0
  <2>2. ASSUME NEW i \in 0 .. n - 1
        PROVE  prev'[r[i]] = r[i + 1]
    <3>1. i \in 0 .. n /\ i + 1 \in 0 .. n /\ i \in 0 .. n + 1 /\ n \in 0 .. n + 1 /\ i # n
      BY <1>0
    <3>2. s[i] # s[n] /\ prev[s[i]] = s[i + 1] /\ s[i] \in Nodes
      BY <1>2, <3>1 DEF Chain
    <3> QED
      BY <1>11, <1>14, <3>1, <3>2
  <2>3. prev'[r[n]] = r[n + 1]
    BY <1>0, <1>11, <1>15
  <2>4. prev'[r[n + 1]] = r[n + 1 + 1]
    <3>1. n + 1 + 1 = n + 2 /\ n \in 0 .. n + 1
      BY <1>0
    <3> QED
      BY <1>1, <1>5, <1>10, <1>11, <1>14, <3>1
  <2> QED
    BY <2>1, <2>2, <2>3, <2>4
<1>17. \A i \in 1 .. n + 1 : next'[r[i]] = r[i - 1]
  <2>1. ASSUME NEW i \in 1 .. n
        PROVE  next'[r[i]] = r[i - 1]
    <3>1. i \in 0 .. n /\ i - 1 \in 0 .. n
      BY <1>0
    <3> QED
      BY <1>4, <1>11, <3>1 DEF Chain
  <2>2. next'[r[n + 1]] = r[n + 1 - 1]
    <3>1. n + 1 - 1 = n /\ n \in 0 .. n
      BY <1>0
    <3> QED
      BY <1>1, <1>4, <1>11, <3>1
  <2>3. \A i \in 1 .. n + 1 : i = n + 1 \/ i \in 1 .. n
    BY <1>0
  <2> QED
    BY <1>0, <2>1, <2>2, <2>3
<1>18. next'[head] = r[n + 1 - 1]
  <2>1. next[head] = s[n]
    BY <1>1, <1>6 DEF Chain
  <2>2. n + 1 - 1 = n /\ n \in 0 .. n
    BY <1>0
  <2> QED
    BY <1>4, <1>11, <2>1, <2>2
<1>19. n + 1 > 0 /\ n + 1 \in Nat /\ n + 1 + 1 = n + 2
  BY <1>0
<1>20. Chain(r, n + 1)'
  <2>1. /\ \A u \in Threads : pc'[u] # "link" /\ (pc'[u] = "link2" => u = t)
        /\ pc'[t] = "link2" /\ mine'[t] = o
    BY <1>4, <1>6, <1>7
  <2>2. /\ n + 1 \in Nat /\ r \in [0 .. n + 1 + 1 -> Nodes]
        /\ r[0] = tail /\ r[n + 1 + 1] = head
        /\ \A i, j \in 0 .. n + 1 + 1 : r[i] = r[j] => i = j
    BY <1>11, <1>12, <1>19
  <2>4. ~ \A u \in Threads : pc'[u] # "link2"
    BY <2>1
  <2> HIDE DEF o
  <2>5. ASSUME NEW m \in Nat, m = n + 1
        PROVE  Chain(r, m)'
    <3>1. /\ m \in Nat /\ r \in [0 .. m + 1 -> Nodes]
          /\ r[0] = tail /\ r[m + 1] = head
          /\ \A i, j \in 0 .. m + 1 : r[i] = r[j] => i = j
      BY <2>2, <2>5
    <3>2. \A i \in 1 .. m : r[i] \in Cached'
      BY <1>13, <2>5
    <3>3. \A x \in Cached' : \E i \in 1 .. m : r[i] = x
      BY <1>13, <2>5
    <3>4. \A i \in 0 .. m : prev'[r[i]] = r[i + 1]
      BY <1>16, <2>5
    <3>5. \A i \in 1 .. m : next'[r[i]] = r[i - 1]
      BY <1>17, <2>5
    <3>6. \A u \in Threads :
          /\ pc'[u] = "link" => prev'[mine'[u]] = head /\ next'[mine'[u]] = r[m]
          /\ pc'[u] = "link2" => m > 0 /\ mine'[u] = r[m] /\ next'[head] = r[m - 1]
      <4>1. m > 0 /\ m - 1 = n + 1 - 1
        BY <1>0, <2>5
      <4>2. r[m] = o /\ next'[head] = r[m - 1]
        BY <1>11, <1>18, <2>5, <4>1
      <4> QED
        BY <2>1, <4>1, <4>2
    <3> QED
      BY <2>4, <3>1, <3>2, <3>3, <3>4, <3>5, <3>6 DEF Chain
  <2> QED
    BY <1>19, <2>5
<1> QED
  BY <1>4, <1>8, <1>9, <1>11, <1>20

\* The head's link, and the mutex is free again.
LEMMA UnlockKeeps ==
  ASSUME TypeOK, LocalsOK, MutexOK, OwnObjects, NEW t \in Threads, Unlock(t),
         NEW n, NEW s, Chain(s, n)
  PROVE  Cached' = Cached /\ OwnObjects' /\ Chain(s, n)'
<1>1. /\ pc[t] = "link2" /\ next' = [next EXCEPT ![head] = mine[t]] /\ pc' = [pc EXCEPT ![t] = "close"]
      /\ UNCHANGED <<prev, url, live, req, mine>>
  BY DEF Unlock, LinkNext, At, Goto
<1>2. pc'[t] = "close" /\ \A u \in Threads : u # t => pc'[u] = pc[u]
  BY <1>1 DEF TypeOK
<1>3. \A u \in Threads : u # t => pc[u] \notin {"link", "link2"}
  BY <1>1 DEF MutexOK, Holds
<1>4. Cached' = Cached
  BY <1>1, <1>2 DEF Cached
<1>5. OwnObjects'
  <2>1. \A u \in Threads : pc'[u] \in Inserting => pc[u] \in Inserting
    BY <1>1, <1>2 DEF Inserting
  <2> QED
    BY <1>1, <2>1 DEF OwnObjects
<1>6. Chain(s, n)'
  <2>1. \A u \in Threads : pc'[u] \notin {"link", "link2"}
    BY <1>2, <1>3
  <2>2. next'[head] = s[n]
    BY <1>1, NodeFacts DEF TypeOK, Chain
  <2>3. \A i \in 1 .. n : next'[s[i]] = s[i - 1]
    <3>1. \A i \in 1 .. n : next[s[i]] = s[i - 1] /\ s[i] \in Objects
      BY NodesOfChain DEF Chain
    <3>2. \A x \in Objects : next'[x] = next[x]
      BY <1>1, NodeFacts DEF TypeOK
    <3> QED
      BY <3>1, <3>2
  <2>4. \A i \in 0 .. n : prev'[s[i]] = s[i + 1]
    BY <1>1 DEF Chain
  <2> QED
    BY <1>4, <2>1, <2>2, <2>3, <2>4 DEF Chain
<1> QED
  BY <1>4, <1>5, <1>6

\* Until the cache is full nobody makes room.
LEMMA NoVictims ==
  ASSUME ~ Evicting, NEW t \in Threads
  PROVE  /\ pc[t] \notin Freeing
         /\ ~ FindVictim(t) /\ ~ EvictFails(t) /\ ~ Unlink(t) /\ ~ Evict(t)
BY DEF Evicting, Freeing, FindVictim, EvictFails, Unlink, Evict, Unlinking, At

\* What the walks rely on: the list still leads from object to object.
LEMMA ChainLeads ==
  ASSUME TypeOK, NEW n, NEW s, Chain(s, n), NEW x \in Cached \cup {tail}
  PROVE  prev[x] \in Cached \cup {head}
<1>1. n \in Nat /\ s[0] = tail /\ s[n + 1] = head
  BY DEF Chain
<1>2. PICK i \in 0 .. n : s[i] = x
  <2>1. CASE x = tail
    BY <1>1, <2>1
  <2>2. CASE x \in Cached
    <3>1. PICK i \in 1 .. n : s[i] = x
      BY <2>2 DEF Chain
    <3>2. i \in 0 .. n
      BY <1>1, <3>1
    <3> QED
      BY <3>1, <3>2
  <2> QED
    BY <2>1, <2>2
<1>3. prev[x] = s[i + 1]
  BY <1>2 DEF Chain
<1>4. i + 1 = n + 1 \/ i + 1 \in 1 .. n
  BY <1>1, <1>2
<1>5. \A j \in 1 .. n : s[j] \in Cached
  BY DEF Chain
<1> QED
  BY <1>1, <1>3, <1>4, <1>5

\* The four parts of Sound for a step of one thread.
LEMMA ListStep ==
  ASSUME TypeOK, LocalsOK, MutexOK, Sound, ~ Evicting,
         NEW t \in Threads, Connection(t) \/ Work(t) \/ WrapperExits(t)
  PROVE  /\ \E n \in Nat : \E s \in [0 .. n + 1 -> Nodes] : Chain(s, n)'
         /\ OwnObjects'
         /\ Cached \subseteq Cached'
         /\ \A o \in Cached : url'[o] = url[o]
<1>1. PICK n \in Nat : \E s \in [0 .. n + 1 -> Nodes] : Chain(s, n)
  BY DEF Sound
<1>0. PICK s \in [0 .. n + 1 -> Nodes] : Chain(s, n)
  BY <1>1
<1>2. OwnObjects
  BY DEF Sound
<1>3. CASE Aside
  BY <1>0, <1>1, <1>2, <1>3, AsideKeeps DEF Aside
<1>4. CASE Room(t)
  BY <1>0, <1>1, <1>2, <1>4, RoomKeeps
<1>5. CASE Lock(t)
  BY <1>0, <1>1, <1>2, <1>5, LockKeeps DEF Lock
<1>6. CASE Link(t)
  <2>1. PICK r \in [0 .. n + 2 -> Nodes] : Chain(r, n + 1)'
    BY <1>0, <1>1, <1>2, <1>6, LinkKeeps
  <2>2. n + 1 \in Nat /\ n + 1 + 1 = n + 2
    BY <1>1
  <2>3. \E m \in Nat : \E q \in [0 .. m + 1 -> Nodes] : Chain(q, m)'
    BY <2>1, <2>2
  <2> QED
    BY <1>0, <1>1, <1>2, <1>6, <2>3, LinkKeeps
<1>7. CASE Unlock(t)
  BY <1>0, <1>1, <1>2, <1>7, UnlockKeeps DEF Unlock
<1> QED
  BY <1>3, <1>4, <1>5, <1>6, <1>7, StepsAside, NoVictims DEF Work

LEMMA WalksStep ==
  ASSUME TypeOK, LocalsOK, MutexOK, Sound, ~ Evicting,
         NEW t \in Threads, Connection(t) \/ Work(t) \/ WrapperExits(t)
  PROVE  WalksOK'
<1>1. Cached \subseteq Cached' /\ \A o \in Cached : url'[o] = url[o]
  BY ListStep
<1>2. WalksOK
  BY DEF Sound
<1>3. ASSUME NEW x \in Cached \cup {tail}
      PROVE  prev[x] \in Cached \cup {head}
  BY <1>3, ChainLeads DEF Sound
<1>4. /\ pc'[t] = "find" => cur'[t] \in Cached \cup {head}
      /\ pc'[t] = "hit" => cur'[t] \in Cached /\ url[cur'[t]] = req'[t]
  <2> USE DEF TypeOK, At, Goto, MoveTo, Leave, End, Deref, cache, list, locals
  <2>1. CASE Connection(t)
    <3>1. Last \in Cached \cup {head}
      BY <1>3 DEF Last
    <3> QED
      BY <1>2, <2>1, <3>1 DEF Connection, Accepts, Request, NoRequest, NotImplemented, HeadersCut,
           BadUrl, WalksOK
  <2>2. CASE FindObject(t)
    <3>1. pc[t] = "find" /\ cur[t] \in Cached \cup {head} /\ req' = req
      BY <1>2, <2>2 DEF FindObject, WalksOK
    <3>2. head \notin live
      BY NodeFacts
    <3> QED
      BY <1>3, <2>2, <3>1, <3>2 DEF FindObject, Match
  <2>3. CASE WrapperExits(t) \/ Hit(t) \/ Open(t) \/ PassResponse(t) \/ Close(t)
    BY <1>2, <2>3 DEF WrapperExits, Hit, Open, PassResponse, Close, WalksOK
  <2>4. CASE Room(t) \/ Lock(t) \/ Link(t) \/ Unlock(t)
    BY <1>2, <2>4 DEF Room, Lock, Link, Unlock, WalksOK
  <2> QED
    BY <2>1, <2>2, <2>3, <2>4, NoVictims DEF Work
<1>5. ASSUME NEW u \in Threads, u # t
      PROVE  /\ pc'[u] = "find" => cur'[u] \in Cached \cup {head}
             /\ pc'[u] = "hit" => cur'[u] \in Cached /\ url[cur'[u]] = req'[u]
  BY <1>2, <1>5, OthersStay DEF WalksOK
<1> QED
  BY <1>1, <1>4, <1>5 DEF WalksOK

\* No pointer that a thread follows is null or to freed memory.
LEMMA FaultStep ==
  ASSUME TypeOK, LocalsOK, MutexOK, Sound, ~ Evicting,
         NEW t \in Threads, Connection(t) \/ Work(t) \/ WrapperExits(t)
  PROVE  exit' \notin {"SIGSEGV", "undefined"}
<1>1. exit \notin {"SIGSEGV", "undefined"} /\ WalksOK
  BY DEF Sound
<1>2. \A o \in Cached \cup Sentinels : Valid(o)
  BY DEF Valid, Cached
<1>3. CASE FindObject(t)
  BY <1>1, <1>2, <1>3 DEF FindObject, WalksOK, At, Deref, Sentinels
<1>4. CASE Hit(t)
  BY <1>1, <1>2, <1>4 DEF Hit, WalksOK, At, Deref
<1>5. CASE Link(t)
  <2>1. PICK n \in Nat : \E s \in [0 .. n + 1 -> Nodes] : Chain(s, n)
    BY DEF Sound
  <2>2. PICK s \in [0 .. n + 1 -> Nodes] : Chain(s, n)
    BY <2>1
  <2>3. pc[t] = "link" /\ next[mine[t]] = s[n]
    BY <1>5, <2>2 DEF Link, At, Chain
  <2>4. s[n] \in Cached \cup Sentinels
    BY <2>2, NodesOfChain DEF Sentinels
  <2> QED
    BY <1>1, <1>2, <1>5, <2>3, <2>4 DEF Link, Deref
<1>6. CASE Connection(t)
  BY <1>1, <1>6 DEF Connection, Request, NoRequest, NotImplemented, HeadersCut, BadUrl
<1>7. CASE WrapperExits(t) \/ Open(t) \/ PassResponse(t) \/ Close(t) \/ Room(t) \/ Lock(t) \/ Unlock(t)
  BY <1>1, <1>7 DEF WrapperExits, Open, PassResponse, Close, Room, Lock, Unlock, End
<1> QED
  BY <1>3, <1>4, <1>5, <1>6, <1>7, NoVictims DEF Work

\* A client gets what it asked for: a hit is sent from an object of its URL.
LEMMA ServedStep ==
  ASSUME TypeOK, LocalsOK, MutexOK, Sound, ~ Evicting,
         NEW t \in Threads, Connection(t) \/ Work(t) \/ WrapperExits(t)
  PROVE  ServedIsRequested'
<1> DEFINE Served(u) == \/ got[u] \in {"nothing", req[u]}
                        \/ got[u] = "501" /\ pc[u] = "idle"
<1>1. \A u \in Threads : Served(u)
  BY DEF Sound, ServedIsRequested
<1>2. Served(t)'
  <2> USE DEF TypeOK, At, Goto, MoveTo, Leave, Send, End, Deref, cache, locals
  <2>1. CASE Connection(t)
    BY <1>1, <2>1 DEF Connection, Accepts, Request, NoRequest, NotImplemented, clienterror, HeadersCut, BadUrl
  <2>2. CASE FindObject(t) \/ WrapperExits(t)
    BY <1>1, <2>2 DEF FindObject, WrapperExits
  <2>3. CASE Hit(t)
    <3>1. url[cur[t]] = req[t]
      BY <2>3 DEF Hit, Sound, WalksOK
    <3> QED
      BY <1>1, <2>3, <3>1 DEF Hit
  <2>4. CASE Open(t) \/ PassResponse(t) \/ Close(t)
    BY <1>1, <2>4, ZenonT(60) DEF Open, PassResponse, Close
  <2>5. CASE Room(t) \/ Lock(t) \/ Link(t) \/ Unlock(t)
    BY <1>1, <2>5 DEF Room, Lock, Link, Unlock
  <2> QED
    BY <2>1, <2>2, <2>3, <2>4, <2>5, NoVictims DEF Work
<1>3. ASSUME NEW u \in Threads, u # t
      PROVE  Served(u)'
  BY <1>1, <1>3, OthersStay
<1> QED
  BY <1>2, <1>3 DEF ServedIsRequested

LEMMA SoundStep ==
  ASSUME IInv, [Next]_vars, ~ Evicting'
  PROVE  Sound'
<1>1. TypeOK /\ LocalsOK /\ MutexOK /\ ~ Evicting /\ Sound
  BY EvictingStays DEF IInv
<1>2. ASSUME NEW t \in Threads, Connection(t) \/ Work(t) \/ WrapperExits(t)
      PROVE  Sound'
  BY <1>1, <1>2, ListStep, WalksStep, FaultStep, ServedStep DEF Sound
<1>3. CASE main \/ UNCHANGED vars
  <2>1. Aside /\ UNCHANGED <<chance, cur, got>> /\ UNCHANGED req
    BY <1>3 DEF main, vars, cache, locals, list, Aside
  <2>2. Cached' = Cached /\ OwnObjects' /\ \A n, s : Chain(s, n) => Chain(s, n)'
    BY <1>1, <2>1, AsideKeeps DEF Sound
  <2>3. exit' \notin {"SIGSEGV", "undefined"} /\ pc' = pc
    BY <1>1, <1>3 DEF main, vars, locals, open_listenfd, Sound
  <2>4. WalksOK'
    BY <1>1, <2>1, <2>2, <2>3 DEF Aside, WalksOK, Sound
  <2>5. ServedIsRequested'
    BY <1>1, <2>1, <2>3 DEF ServedIsRequested, Sound
  <2> QED
    BY <1>1, <2>2, <2>3, <2>4, <2>5 DEF Sound
<1> QED
  BY <1>2, <1>3 DEF Next

LEMMA SoundInit == Init => Sound
<1> SUFFICES ASSUME Init PROVE Sound
  OBVIOUS
<1> USE DEF Init, init_cache
<1>1. Cached = {}
  BY DEF Cached
<1>2. PICK s \in [0 .. 1 -> Nodes] : s[0] = tail /\ s[1] = head
  <2> DEFINE q == [i \in 0 .. 1 |-> IF i = 0 THEN tail ELSE head]
  <2>1. q \in [0 .. 1 -> Nodes] /\ q[0] = tail /\ q[1] = head
    BY NodeFacts
  <2> HIDE DEF q
  <2> QED
    BY <2>1
<1>3. Chain(s, 0)
  BY <1>1, <1>2, NodeFacts DEF Chain
<1>4. 0 \in Nat /\ 0 + 1 = 1
  OBVIOUS
<1> QED
  BY <1>2, <1>3, <1>4 DEF Sound, OwnObjects, WalksOK, Inserting, ServedIsRequested

-----------------------------------------------------------------------------
\* The inductive invariant holds in every state.
LEMMA Invariant == Spec => []IInv
<1>1. Init => IInv
  BY TypeInit, SoundInit DEF IInv
<1>2. IInv /\ [Next]_vars => IInv'
  BY TypeStep, LocalsStep, MutexStep, SoundStep DEF IInv
<1> QED
  BY <1>1, <1>2, PTL DEF Spec

\* The values of the variables, and what a thread's locals are where it is.
THEOREM TypeCorrect == Spec => [](TypeOK /\ LocalsOK)
<1>1. IInv => TypeOK /\ LocalsOK
  BY DEF IInv
<1> QED
  BY <1>1, Invariant, PTL

\* Two threads never link objects at the same time, and the semaphore is 1
\* exactly while none does, whatever else the threads do, with and without
\* evictions (cache.c:62-73).
THEOREM Exclusive == Spec => []MutexOK
<1>1. IInv => MutexOK
  BY DEF IInv
<1> QED
  BY <1>1, Invariant, PTL

\* Until room has to be made, find_object follows no null pointer and no
\* pointer to freed memory, although it takes no mutex (cache.c:82).
THEOREM NoFault == Spec => []NoFaultUntilFull
<1>1. IInv => NoFaultUntilFull
  BY DEF IInv, Sound, NoFaultUntilFull
<1> QED
  BY <1>1, Invariant, PTL

\* Until then, a client gets the data of the URL it asked for (proxy.c:85-95).
THEOREM Served == Spec => []ServedIsRequested
<1>1. IInv => ServedIsRequested
  BY DEF IInv, Sound, ServedIsRequested
<1> QED
  BY <1>1, Invariant, PTL

-----------------------------------------------------------------------------
\* Every nonempty set of numbers has a least one.
LEMMA LeastNumber ==
  ASSUME NEW S, S \subseteq Nat, S # {}
  PROVE  \E n \in S : \A m \in S : n <= m
<1> DEFINE R == OpToRel(<, Nat)
<1>1. IsWellFoundedOn(R, Nat)
  BY NatLessThanWellFounded
<1>2. PICK n \in S : \A m \in S : ~ (<<m, n>> \in R)
  BY <1>1, WFMin, Zenon
<1>3. \A m \in S : ~ (m < n)
  BY <1>2 DEF OpToRel
<1> QED
  BY <1>3

\* One turn of the walk
WalkFrom(w) == [k \in 0 .. Cardinality(Objects) + 1 |->
                  IF k = 0 THEN tail
                  ELSE IF w[k - 1] \in {head, NULL} THEN w[k - 1]
                  ELSE prev[w[k - 1]]]

\* The chain has no more objects than there are.
LEMMA ChainLength ==
  ASSUME TypeOK, NEW n, NEW s, Chain(s, n)
  PROVE  n <= Cardinality(Objects)
<1>1. n \in Nat /\ Cardinality(Objects) \in Nat /\ IsFiniteSet(Objects)
  BY ObjectsAssumption, FS_CardinalityType DEF Chain
<1>2. IsFiniteSet(1 .. n) /\ Cardinality(1 .. n) = n
  BY <1>1, FS_Interval
<1>3. PICK f \in [1 .. n -> Objects] : \A i \in 1 .. n : f[i] = s[i]
  <2>1. [i \in 1 .. n |-> s[i]] \in [1 .. n -> Objects]
    BY NodesOfChain
  <2> QED
    BY <2>1
<1>4. \A i, j \in 1 .. n : f[i] = f[j] => i = j
  BY <1>1, <1>3 DEF Chain
<1>5. ~ (Cardinality(Objects) < Cardinality(1 .. n))
  BY <1>1, <1>2, <1>4, FS_PigeonHole
<1> QED
  BY <1>1, <1>2, <1>5

\* A walk from the tail is along the chain.
LEMMA WalkIsChain ==
  ASSUME TypeOK, NEW n, NEW s, Chain(s, n)
  PROVE  \A k \in 0 .. Cardinality(Objects) + 1 :
           Walk[k] = IF k <= n + 1 THEN s[k] ELSE head
<1> DEFINE N == Cardinality(Objects)
           w0 == [k \in 0 .. N + 1 |-> IF k <= n + 1 THEN s[k] ELSE head]
<1>1. n \in Nat /\ N \in Nat /\ n <= N
  BY ChainLength, ObjectsAssumption, FS_CardinalityType DEF Chain
<1>2. \A k \in 0 .. n + 1 : w0[k] = s[k]
  BY <1>1
<1>3. w0 = WalkFrom(w0)
  <2>1. ASSUME NEW k \in 0 .. N + 1
        PROVE  w0[k] = WalkFrom(w0)[k]
    <3>1. CASE k = 0
      BY <1>1, <3>1 DEF WalkFrom, Chain
    <3>2. CASE k # 0 /\ k <= n + 1
      <4>1. k - 1 \in 0 .. n /\ k - 1 \in 0 .. n + 1 /\ k \in 0 .. n + 1 /\ k - 1 + 1 = k
        BY <1>1, <2>1, <3>2
      <4>2. s[k - 1] # head /\ s[k - 1] # NULL /\ prev[s[k - 1]] = s[k]
        BY <4>1, NodesOfChain, NodeFacts DEF Chain
      <4>3. w0[k - 1] = s[k - 1] /\ w0[k] = s[k]
        BY <1>2, <4>1
      <4> HIDE DEF w0
      <4> QED
        BY <2>1, <3>2, <4>2, <4>3 DEF WalkFrom
    <3>3. CASE k > n + 1
      <4>1. k - 1 \in 0 .. N + 1 /\ (k - 1 = n + 1 \/ k - 1 > n + 1) /\ k # 0
        BY <1>1, <2>1, <3>3
      <4>2. w0[k - 1] = head /\ w0[k] = head
        <5>1. s[n + 1] = head
          BY DEF Chain
        <5> QED
          BY <1>1, <2>1, <3>3, <4>1, <5>1
      <4> HIDE DEF w0
      <4> QED
        BY <2>1, <4>1, <4>2 DEF WalkFrom
    <3> QED
      BY <1>1, <2>1, <3>1, <3>2, <3>3
  <2> QED
    BY <2>1 DEF WalkFrom
<1>4. Walk = WalkFrom(Walk)
  <2>1. Walk = CHOOSE w : w = WalkFrom(w)
    BY DEF Walk, WalkFrom
  <2> HIDE DEF w0
  <2> QED
    BY <1>3, <2>1
<1>5. ASSUME NEW k \in 0 .. N + 1, Walk[k] # w0[k]
      PROVE  FALSE
  <2> DEFINE S == {i \in 0 .. N + 1 : Walk[i] # w0[i]}
  <2>1. S \subseteq Nat /\ S # {}
    BY <1>1, <1>5
  <2> HIDE DEF S
  <2>2. PICK i \in S : \A j \in S : i <= j
    BY <2>1, LeastNumber
  <2> USE DEF S
  <2> HIDE DEF w0
  <2>3. i \in 0 .. N + 1 /\ Walk[i] # w0[i]
    BY <2>2
  <2>4. i # 0 => i - 1 \in 0 .. N + 1 /\ ~ (i <= i - 1)
    BY <1>1, <2>3
  <2>5. i # 0 => Walk[i - 1] = w0[i - 1]
    BY <2>2, <2>4
  <2>6. WalkFrom(Walk)[i] = WalkFrom(w0)[i]
    BY <2>3, <2>5 DEF WalkFrom
  <2> QED
    BY <1>3, <1>4, <2>3, <2>6
<1> QED
  BY <1>5

\* Until room has to be made, a walk from the tail meets every cached object
\* and ends at the head, whoever is inserting another one (cache.c:64-70).
THEOREM Intact == Spec => []ListIntact
<1>1. ASSUME IInv, ~ Evicting
      PROVE  /\ {Walk[k] : k \in 1 .. Cardinality(Objects) + 1} = Cached \cup {head}
             /\ \A x \in Cached \cup {tail} :
                  next[prev[x]] = x \/ \E t \in Threads : pc[t] = "link2" /\ mine[t] = x
  <2>1. PICK n \in Nat : \E s \in [0 .. n + 1 -> Nodes] : Chain(s, n)
    BY <1>1 DEF IInv, Sound
  <2>2. PICK s \in [0 .. n + 1 -> Nodes] : Chain(s, n)
    BY <2>1
  <2>3. n <= Cardinality(Objects) /\ Cardinality(Objects) \in Nat
    BY <1>1, <2>2, ChainLength, ObjectsAssumption, FS_CardinalityType DEF IInv
  <2>4. \A k \in 1 .. Cardinality(Objects) + 1 : Walk[k] = IF k <= n + 1 THEN s[k] ELSE head
    BY <1>1, <2>2, <2>3, WalkIsChain DEF IInv
  <2>5. \A k \in 1 .. Cardinality(Objects) + 1 : k \in 1 .. n \/ k >= n + 1
    BY <2>3
  <2>6. {Walk[k] : k \in 1 .. Cardinality(Objects) + 1} \subseteq Cached \cup {head}
    BY <2>2, <2>3, <2>4, <2>5 DEF Chain
  <2>7. head \in {Walk[k] : k \in 1 .. Cardinality(Objects) + 1}
    <3>1. n + 1 \in 1 .. Cardinality(Objects) + 1 /\ Walk[n + 1] = head
      BY <2>2, <2>3, <2>4 DEF Chain
    <3> QED
      BY <3>1
  <2>8. ASSUME NEW x \in Cached
        PROVE  x \in {Walk[k] : k \in 1 .. Cardinality(Objects) + 1}
    <3>1. PICK i \in 1 .. n : s[i] = x
      BY <2>2 DEF Chain
    <3>2. i \in 1 .. Cardinality(Objects) + 1 /\ Walk[i] = x
      BY <2>3, <2>4, <3>1
    <3> QED
      BY <3>2
  <2>9. ASSUME NEW x \in Cached \cup {tail}
        PROVE  next[prev[x]] = x \/ \E t \in Threads : pc[t] = "link2" /\ mine[t] = x
    <3>1. PICK i \in 0 .. n : s[i] = x
      <4>1. CASE x = tail
        BY <2>2, <4>1 DEF Chain
      <4>2. CASE x \in Cached
        <5>1. PICK i \in 1 .. n : s[i] = x
          BY <2>2, <4>2 DEF Chain
        <5> QED
          BY <5>1
      <4> QED
        BY <4>1, <4>2
    <3>2. prev[x] = s[i + 1]
      BY <2>2, <3>1 DEF Chain
    <3>3. CASE i = n
      <4>1. prev[x] = head
        BY <2>2, <3>2, <3>3 DEF Chain
      <4>2. next[head] = s[n] \/ \E t \in Threads : pc[t] = "link2" /\ mine[t] = s[n]
        BY <2>2 DEF Chain
      <4> QED
        BY <3>1, <3>3, <4>1, <4>2
    <3>4. CASE i # n
      <4>1. i + 1 \in 1 .. n /\ i + 1 - 1 = i
        BY <3>1, <3>4
      <4>2. \A j \in 1 .. n : next[s[j]] = s[j - 1]
        BY <2>2 DEF Chain
      <4>3. next[s[i + 1]] = s[i]
        BY <4>1, <4>2
      <4> QED
        BY <3>1, <3>2, <4>3
    <3> QED
      BY <3>3, <3>4
  <2> QED
    BY <2>6, <2>7, <2>8, <2>9
<1>2. IInv => ListIntact
  BY <1>1 DEF ListIntact
<1> QED
  BY <1>2, Invariant, PTL

-----------------------------------------------------------------------------
(* Sums over a finite set. *)

\* One turn of the sum of f over the subsets of D, and the sum
SumFrom(g, f, D) == [T \in SUBSET D |->
                       IF T = {} THEN 0
                       ELSE LET x == CHOOSE x \in T : TRUE IN f[x] + g[T \ {x}]]
Total(f, D) == (CHOOSE g : g = SumFrom(g, f, D))[D]

\* g adds f up whatever the order
Adds(g, f, D) == /\ g \in [SUBSET D -> Int]
                 /\ g[{}] = 0
                 /\ \A T \in SUBSET D : \A x \in T : g[T] = f[x] + g[T \ {x}]

\* Some set in a nonempty set of subsets of D has none of the others in it.
LEMMA LeastSubset ==
  ASSUME NEW D, IsFiniteSet(D), NEW S, S \subseteq SUBSET D, S # {}
  PROVE  \E T \in S : \A U \in S : U \subseteq T => U = T
<1>1. IsWellFoundedOn(StrictSubsetOrdering(D), SUBSET D)
  BY FS_StrictSubsetOrderingWellFounded, FS_FiniteSubsetsOfFinite
<1>2. PICK T \in S : \A U \in S : ~ (<<U, T>> \in StrictSubsetOrdering(D))
  BY <1>1, WFMin
<1>3. ASSUME NEW U \in S, U \subseteq T, U # T
      PROVE  FALSE
  <2>1. <<U, T>> \in StrictSubsetOrdering(D)
    BY <1>3 DEF StrictSubsetOrdering
  <2> QED
    BY <1>2, <2>1
<1> QED
  BY <1>3

LEMMA AddsExtends ==
  ASSUME NEW f, NEW D, NEW d \in D, \A x \in D : f[x] \in Int,
         NEW g, Adds(g, f, D \ {d})
  PROVE  \E h : Adds(h, f, D)
<1> DEFINE C == D \ {d}
           h == [T \in SUBSET D |-> IF d \in T THEN f[d] + g[T \ {d}] ELSE g[T]]
<1>1. g \in [SUBSET C -> Int] /\ g[{}] = 0 /\ \A T \in SUBSET C : \A x \in T : g[T] = f[x] + g[T \ {x}]
  BY DEF Adds
<1>2. \A T \in SUBSET D : T \ {d} \in SUBSET C /\ (d \notin T => T \in SUBSET C)
  OBVIOUS
<1>3. h \in [SUBSET D -> Int]
  BY <1>1, <1>2
<1>4. h[{}] = 0
  BY <1>1
<1>5. ASSUME NEW T \in SUBSET D, NEW x \in T
      PROVE  h[T] = f[x] + h[T \ {x}]
  <2>1. CASE x = d
    BY <1>1, <1>2, <2>1
  <2>2. CASE x # d /\ d \in T
    <3>1. (T \ {x}) \ {d} = (T \ {d}) \ {x} /\ x \in T \ {d} /\ d \in T \ {x}
      BY <2>2
    <3>2. g[T \ {d}] = f[x] + g[(T \ {d}) \ {x}]
      BY <1>1, <1>2, <3>1
    <3>3. h[T] = f[d] + g[T \ {d}] /\ h[T \ {x}] = f[d] + g[(T \ {d}) \ {x}]
      BY <2>2, <3>1
    <3>4. g[T \ {d}] \in Int /\ g[(T \ {d}) \ {x}] \in Int
      BY <1>1
    <3>5. f[x] \in Int /\ f[d] \in Int
      OBVIOUS
    <3> HIDE DEF h
    <3> QED
      BY <3>2, <3>3, <3>4, <3>5
  <2>3. CASE d \notin T
    BY <1>1, <1>2, <2>3
  <2> QED
    BY <2>1, <2>2, <2>3
<1> HIDE DEF h
<1> QED
  BY <1>3, <1>4, <1>5 DEF Adds

LEMMA AddsExists ==
  ASSUME NEW D, IsFiniteSet(D), NEW f, \A x \in D : f[x] \in Int
  PROVE  \E g : Adds(g, f, D)
<1> DEFINE S == {T \in SUBSET D : ~ \E g : Adds(g, f, T)}
<1> SUFFICES ASSUME S # {} PROVE FALSE
  OBVIOUS
<1>1. PICK T \in S : \A U \in S : U \subseteq T => U = T
  <2> HIDE DEF S
  <2>1. S \subseteq SUBSET D
    BY DEF S
  <2> QED
    BY <2>1, LeastSubset
<1>2. CASE T = {}
  <2> DEFINE g == [U \in SUBSET {} |-> 0]
  <2>1. Adds(g, f, {})
    BY DEF Adds
  <2> QED
    BY <1>2, <2>1
<1>3. CASE T # {}
  <2>1. PICK d \in T : TRUE
    BY <1>3
  <2>2. T \ {d} \subseteq T /\ T \ {d} # T /\ T \ {d} \in SUBSET D /\ \A x \in T : f[x] \in Int
    BY <2>1
  <2>3. PICK g : Adds(g, f, T \ {d})
    BY <1>1, <2>2
  <2>4. \E h : Adds(h, f, T)
    BY <2>2, <2>3, AddsExtends
  <2> QED
    BY <2>4
<1> QED
  BY <1>2, <1>3

LEMMA TotalAdds ==
  ASSUME NEW D, IsFiniteSet(D), NEW f, NEW g, Adds(g, f, D)
  PROVE  Total(f, D) = g[D]
<1>1. g = SumFrom(g, f, D)
  <2>1. ASSUME NEW T \in SUBSET D
        PROVE  g[T] = SumFrom(g, f, D)[T]
    BY DEF Adds, SumFrom
  <2>2. g \in [SUBSET D -> Int]
    BY DEF Adds
  <2> QED
    BY <2>1, <2>2 DEF SumFrom
<1>2. PICK w : w = SumFrom(w, f, D) /\ Total(f, D) = w[D]
  BY <1>1 DEF Total
<1> DEFINE S == {T \in SUBSET D : w[T] # g[T]}
<1>3. ASSUME S # {}
      PROVE  FALSE
  <2>1. PICK T \in S : \A U \in S : U \subseteq T => U = T
    <3> HIDE DEF S
    <3>1. S \subseteq SUBSET D
      BY DEF S
    <3> QED
      BY <1>3, <3>1, LeastSubset
  <2>2. T \in SUBSET D /\ w[T] # g[T]
    OBVIOUS
  <2>3. CASE T = {}
    BY <1>2, <2>2, <2>3 DEF Adds, SumFrom
  <2>4. CASE T # {}
    <3> DEFINE x == CHOOSE x \in T : TRUE
    <3>1. x \in T
      BY <2>4
    <3>2. T \ {x} \in SUBSET D /\ T \ {x} \subseteq T /\ T \ {x} # T
      BY <2>2, <3>1
    <3>3. w[T \ {x}] = g[T \ {x}]
      BY <2>1, <3>2
    <3>4. SumFrom(w, f, D)[T] = f[x] + w[T \ {x}]
      BY <2>2, <2>4 DEF SumFrom
    <3>5. g[T] = f[x] + g[T \ {x}]
      BY <2>2, <3>1 DEF Adds
    <3> HIDE DEF x
    <3> QED
      BY <1>2, <2>2, <3>3, <3>4, <3>5
  <2> QED
    BY <2>3, <2>4
<1> QED
  BY <1>2, <1>3

\* The sum with one element more
LEMMA TotalAdd ==
  ASSUME NEW D, IsFiniteSet(D), NEW d, d \notin D, NEW f, \A x \in D \cup {d} : f[x] \in Int
  PROVE  Total(f, D \cup {d}) = f[d] + Total(f, D)
<1>1. IsFiniteSet(D \cup {d})
  BY FS_AddElement
<1>2. PICK g : Adds(g, f, D \cup {d})
  BY <1>1, AddsExists
<1> DEFINE h == [T \in SUBSET D |-> g[T]]
<1>3. Adds(h, f, D)
  BY <1>2 DEF Adds
<1>4. Total(f, D) = g[D]
  BY <1>3, TotalAdds
<1>5. Total(f, D \cup {d}) = g[D \cup {d}]
  BY <1>1, <1>2, TotalAdds
<1>6. g[D \cup {d}] = f[d] + g[D]
  <2>1. (D \cup {d}) \ {d} = D
    OBVIOUS
  <2> QED
    BY <1>2, <2>1 DEF Adds
<1> QED
  BY <1>4, <1>5, <1>6

\* and the same sum for functions that agree
LEMMA TotalSame ==
  ASSUME NEW D, IsFiniteSet(D), NEW f, NEW e, \A x \in D : f[x] \in Int /\ e[x] = f[x]
  PROVE  Total(e, D) = Total(f, D)
<1>1. PICK g : Adds(g, f, D)
  BY AddsExists
<1>2. Adds(g, e, D)
  BY <1>1 DEF Adds
<1> QED
  BY <1>1, <1>2, TotalAdds

-----------------------------------------------------------------------------
(* The counter of cached bytes. *)

\* The memory in use belongs to a URL each.
LiveOK == \A o \in live : url[o] \in Urls

\* The counter is behind by the object that is linked, and by nothing else.
Accounted ==
  /\ (\A t \in Threads : pc[t] # "link2") => total_size = SumOfSizes
  /\ \A t \in Threads : pc[t] = "link2" => total_size + Size[req[t]] = SumOfSizes

\* The threads that have passed the test for room and not counted their
\* object; with what one of them adds and the most that each other one may
\* add, the counter stays within its limit.
Passed == {t \in Threads : pc[t] \in Inserting}
Limit == MAX_CACHE_SIZE + (Cardinality(Threads) - 1) * MAX_OBJECT_SIZE
Ahead(t) == total_size + Size[req[t]] + (Cardinality(Passed) - 1) * MAX_OBJECT_SIZE
WithinLimit == /\ total_size <= Limit
               /\ Passed # {} => \E t \in Passed : Ahead(t) <= Limit

TotalInv == LiveOK /\ WithinLimit /\ (~ Evicting => Accounted)

LEMMA LiveStep ==
  ASSUME TypeOK, LocalsOK, LiveOK, [Next]_vars
  PROVE  LiveOK'
<1> USE DEF LiveOK, End, Deref, cache, list, locals
<1>1. ASSUME NEW t \in Threads, Room(t)
      PROVE  LiveOK'
  <2>1. CASE UNCHANGED <<url, live>>
    BY <2>1
  <2>2. ASSUME NEW o \in Objects \ live, malloc(o, req[t])
        PROVE  LiveOK'
    <3>1. req[t] \in Urls
      BY <1>1 DEF Room, At, LocalsOK
    <3>2. /\ live' = live \cup {o} /\ url'[o] = req[t]
          /\ \A x \in live : url'[x] = url[x]
      BY <2>2 DEF malloc, TypeOK
    <3> QED
      BY <3>1, <3>2
  <2> QED
    BY <1>1, <2>1, <2>2 DEF Room, malloc
<1>2. ASSUME NEW t \in Threads, Evict(t)
      PROVE  LiveOK'
  BY <1>2 DEF Evict, UnlinkNext, TypeOK
<1>3. ASSUME NEW t \in Threads, Connection(t) \/ Work(t) \/ WrapperExits(t), ~ Room(t), ~ Evict(t)
      PROVE  UNCHANGED <<url, live>>
  BY <1>3 DEF Connection, Request, NoRequest, NotImplemented, HeadersCut, BadUrl, WrapperExits,
       Work, FindObject, Hit, Open, PassResponse, Close, Lock, Link, Unlock, FindVictim, EvictFails, Unlink
<1>4. CASE main \/ UNCHANGED vars
  BY <1>4 DEF main, vars
<1> QED
  BY <1>1, <1>2, <1>3, <1>4 DEF Next

LEMMA PassedType ==
  /\ IsFiniteSet(Threads) /\ IsFiniteSet(Passed)
  /\ Cardinality(Threads) \in Nat /\ Cardinality(Passed) \in Nat
  /\ Cardinality(Passed) <= Cardinality(Threads)
  /\ Passed = {} <=> Cardinality(Passed) = 0
<1>1. Passed \in SUBSET Threads
  BY DEF Passed
<1> QED
  BY <1>1, ThreadsAssumption, FS_Subset, FS_CardinalityType, FS_EmptySet

\* More threads may add more.
LEMMA TimesGrows ==
  ASSUME NEW a \in Int, NEW c \in Int, a <= c, NEW d \in Nat
  PROVE  a * d \in Int /\ a * d <= c * d
OBVIOUS

LEMMA LimitType ==
  /\ MAX_OBJECT_SIZE \in Nat /\ MAX_CACHE_SIZE \in Nat
  /\ (Cardinality(Threads) - 1) * MAX_OBJECT_SIZE \in Int /\ Limit \in Int
<1>1. MAX_OBJECT_SIZE \in Nat /\ MAX_CACHE_SIZE \in Nat /\ Cardinality(Threads) - 1 \in Int
  BY LimitsAssumption, PassedType
<1>2. \A i, j \in Int : i * j \in Int
  OBVIOUS
<1> QED
  BY <1>1, <1>2 DEF Limit

\* The test for room
LEMMA RoomWithin ==
  ASSUME TypeOK, LocalsOK, WithinLimit, NEW t \in Threads, Room(t)
  PROVE  WithinLimit'
<1>1. pc[t] = "room" /\ req[t] \in Urls /\ Size[req[t]] \in Nat /\ UNCHANGED <<req, total_size>>
  BY SizeAssumption DEF Room, LocalsOK, At, malloc, cache
<1>2. CASE pc' = [pc EXCEPT ![t] = "victim"]
  <2>1. Passed' = Passed
    BY <1>1, <1>2 DEF Passed, TypeOK, Inserting
  <2> QED
    BY <1>1, <2>1 DEF WithinLimit, Ahead
<1>3. CASE ~ NoRoom(Size[req[t]]) /\ pc' = [pc EXCEPT ![t] = "lock"]
  <2>1. Passed' = Passed \cup {t}
    BY <1>1, <1>3 DEF Passed, TypeOK, Inserting
  <2>2. Cardinality(Passed') \in Nat /\ Cardinality(Passed') <= Cardinality(Threads) /\ Cardinality(Threads) \in Nat
    <3>1. Passed' \in SUBSET Threads
      BY DEF Passed
    <3> QED
      BY <3>1, ThreadsAssumption, FS_Subset, FS_CardinalityType
  <2>3. (Cardinality(Passed') - 1) * MAX_OBJECT_SIZE \in Int
        /\ (Cardinality(Passed') - 1) * MAX_OBJECT_SIZE <= (Cardinality(Threads) - 1) * MAX_OBJECT_SIZE
    BY <2>2, TimesGrows, LimitsAssumption
  <2>4. (Cardinality(Threads) - 1) * MAX_OBJECT_SIZE \in Int
    BY LimitType
  <2>5. total_size + Size[req[t]] <= MAX_CACHE_SIZE
    <3>1. total_size \in Nat /\ ~ (total_size > MAX_CACHE_SIZE - Size[req[t]])
      BY <1>3 DEF NoRoom, TypeOK
    <3> QED
      BY <1>1, <3>1, LimitType
  <2>6. total_size' + Size[req'[t]] + (Cardinality(Passed') - 1) * MAX_OBJECT_SIZE
          <= MAX_CACHE_SIZE + (Cardinality(Threads) - 1) * MAX_OBJECT_SIZE
    <3>1. total_size \in Nat /\ MAX_CACHE_SIZE \in Nat
      BY LimitsAssumption DEF TypeOK
    <3> QED
      BY <1>1, <2>3, <2>4, <2>5, <3>1
  <2>7. (Ahead(t) <= Limit)'
    BY <2>6 DEF Ahead, Limit
  <2>8. (total_size <= Limit)'
    BY <1>1 DEF WithinLimit, Limit
  <2> QED
    BY <2>1, <2>7, <2>8 DEF WithinLimit
<1> QED
  BY <1>2, <1>3 DEF Room, Goto

\* The end of an insertion
LEMMA UnlockWithin ==
  ASSUME TypeOK, LocalsOK, WithinLimit, NEW t \in Threads, Unlock(t)
  PROVE  WithinLimit'
<1> DEFINE c == Cardinality(Passed)
<1>1. /\ pc[t] = "link2" /\ pc' = [pc EXCEPT ![t] = "close"] /\ req' = req
      /\ total_size' = total_size + Size[req[t]]
  BY DEF Unlock, LinkNext, At, Goto
<1>2. \A u \in Passed : Size[req[u]] \in Nat /\ Size[req[u]] <= MAX_OBJECT_SIZE
  BY SizeAssumption DEF LocalsOK, Passed, Inserting
<1>3. t \in Passed /\ Passed' = Passed \ {t}
  BY <1>1 DEF Passed, TypeOK, Inserting
<1>4. c \in Nat /\ c > 0 /\ Cardinality(Passed') = c - 1 /\ IsFiniteSet(Passed')
  <2>1. IsFiniteSet(Passed) /\ c \in Nat /\ c # 0
    BY <1>3, PassedType
  <2> QED
    BY <1>3, <2>1, FS_RemoveElement
<1>5. PICK u \in Passed : Ahead(u) <= Limit
  BY <1>3 DEF WithinLimit
<1>6. Limit \in Int /\ Limit' = Limit /\ total_size \in Nat /\ MAX_OBJECT_SIZE \in Nat
  BY LimitType DEF Limit, TypeOK
<1> DEFINE x == (c - 1) * MAX_OBJECT_SIZE
<1>7. x \in Nat
  BY <1>4, <1>6
<1>8. total_size + Size[req[u]] + x <= Limit
  BY <1>5 DEF Ahead
<1>9. (Cardinality(Passed') - 1) * MAX_OBJECT_SIZE = x - MAX_OBJECT_SIZE
  BY <1>4, <1>6
<1>10. \A v \in Passed : Ahead(v)' = total_size + Size[req[t]] + Size[req[v]] + (x - MAX_OBJECT_SIZE)
  BY <1>1, <1>9 DEF Ahead
<1> HIDE DEF x, c
<1>11. total_size' <= Limit'
  <2>1. CASE u = t
    BY <1>1, <1>2, <1>6, <1>7, <1>8, <2>1
  <2>2. CASE u # t
    <3>1. c >= 2
      <4>1. {t, u} \in SUBSET Passed /\ Cardinality({t, u}) = 2
        <5>1. IsFiniteSet({t}) /\ Cardinality({t}) = 1
          BY FS_Singleton
        <5>2. Cardinality({t} \cup {u}) = 1 + 1
          BY <2>2, <5>1, FS_AddElement
        <5>3. {t} \cup {u} = {t, u}
          OBVIOUS
        <5> QED
          BY <1>3, <5>2, <5>3
      <4> QED
        BY <4>1, PassedType, FS_Subset DEF c
    <3>2. x >= MAX_OBJECT_SIZE
      BY <1>4, <1>6, <3>1 DEF x
    <3> QED
      BY <1>1, <1>2, <1>3, <1>6, <1>7, <1>8, <3>2
  <2> QED
    BY <2>1, <2>2
<1>12. ASSUME Passed' # {}
       PROVE  \E v \in Passed' : (Ahead(v) <= Limit)'
  <2>1. CASE u = t
    <3>1. PICK v \in Passed' : TRUE
      BY <1>12
    <3>2. Ahead(v)' <= Limit'
      BY <1>2, <1>3, <1>6, <1>7, <1>8, <1>10, <2>1, <3>1
    <3> QED
      BY <3>2
  <2>2. CASE u # t
    <3>1. Ahead(u)' <= Limit'
      BY <1>2, <1>3, <1>6, <1>7, <1>8, <1>10
    <3> QED
      BY <1>3, <2>2, <3>1
  <2> QED
    BY <2>1, <2>2
<1> QED
  BY <1>11, <1>12 DEF WithinLimit

LEMMA WithinStep ==
  ASSUME TypeOK, LocalsOK, WithinLimit, [Next]_vars
  PROVE  WithinLimit'
<1>1. ASSUME \A t \in Threads : ~ Room(t) /\ ~ Unlock(t)
      PROVE  WithinLimit'
  <2>1. total_size' = total_size
    BY <1>1, TotalGrows
  <2>2. ASSUME NEW t \in Threads
        PROVE  /\ pc'[t] \in Inserting <=> pc[t] \in Inserting
               /\ pc[t] \in Inserting => req'[t] = req[t]
    <3> USE DEF TypeOK, At, Goto, Leave, End, Deref, Inserting, cache, locals
    <3>1. CASE Connection(t)
      BY <3>1 DEF Connection, Accepts, Request, NoRequest, NotImplemented, HeadersCut, BadUrl
    <3>2. CASE FindObject(t) \/ Hit(t) \/ Open(t) \/ PassResponse(t) \/ Close(t)
      BY <3>2 DEF FindObject, Hit, Open, PassResponse, Close
    <3>3. CASE Lock(t) \/ Link(t)
      BY <3>3 DEF Lock, Link
    <3>4. CASE FindVictim(t) \/ EvictFails(t) \/ Unlink(t) \/ Evict(t)
      BY <3>4 DEF FindVictim, EvictFails, Unlink, Evict, Unlinking
    <3>5. CASE main \/ UNCHANGED vars \/ WrapperExits(t)
      BY <3>5 DEF main, vars, WrapperExits
    <3>6. ASSUME NEW u \in Threads, u # t, Connection(u) \/ Work(u) \/ WrapperExits(u)
          PROVE  pc'[t] = pc[t] /\ req'[t] = req[t]
      BY <3>6, OthersStay
    <3> QED
      BY <1>1, <3>1, <3>2, <3>3, <3>4, <3>5, <3>6 DEF Next, Work
  <2>3. Passed' = Passed
    BY <2>2 DEF Passed
  <2>4. \A t \in Passed : Ahead(t)' = Ahead(t)
    BY <2>1, <2>2, <2>3 DEF Ahead, Passed
  <2> QED
    BY <2>1, <2>3, <2>4 DEF WithinLimit, Limit
<1> QED
  BY <1>1, RoomWithin, UnlockWithin

\* The sum of sizes is that of the objects' sizes.
Sizes == [o \in Objects |-> Size[url[o]]]

SumFacts ==
  /\ SumOfSizes = Total(Sizes, Cached)
  /\ IsFiniteSet(Cached) /\ Cached \subseteq live /\ Cached \subseteq Objects
  /\ \A o \in live : Sizes[o] = Size[url[o]] /\ Sizes[o] \in Nat

LEMMA SumIsTotal == TypeOK /\ LiveOK => SumFacts
<1> SUFFICES ASSUME TypeOK, LiveOK PROVE SumFacts
  OBVIOUS
<1>1. Cached \subseteq live /\ Cached \subseteq Objects
  BY DEF Cached, TypeOK
<1>2. IsFiniteSet(Cached)
  BY <1>1, ObjectsAssumption, FS_Subset
<1>3. \A o \in live : Sizes[o] = Size[url[o]] /\ Sizes[o] \in Nat
  BY SizeAssumption DEF Sizes, LiveOK, TypeOK
<1> DEFINE From(g) == [T \in SUBSET Cached |->
                         IF T = {} THEN 0
                         ELSE LET x == CHOOSE x \in T : TRUE IN Size[url[x]] + g[T \ {x}]]
<1>4. SumOfSizes = (CHOOSE g : g = From(g))[Cached]
  BY DEF SumOfSizes, MapThenSumSet, MapThenFoldSet
<1>5. \A g : From(g) = SumFrom(g, Sizes, Cached)
  <2>1. ASSUME NEW g, NEW T \in SUBSET Cached, T # {}
        PROVE  LET x == CHOOSE x \in T : TRUE
               IN  Size[url[x]] + g[T \ {x}] = Sizes[x] + g[T \ {x}]
    <3>1. (CHOOSE x \in T : TRUE) \in live
      BY <1>1, <2>1
    <3> QED
      BY <1>3, <3>1
  <2> QED
    BY <2>1, ZenonT(60) DEF SumFrom
<1> HIDE DEF From
<1>6. (CHOOSE g : g = From(g)) = (CHOOSE g : g = SumFrom(g, Sizes, Cached))
  BY <1>5
<1> QED
  BY <1>1, <1>2, <1>3, <1>4, <1>6 DEF Total, SumFacts

\* The sum, when the list does not change and when an object is linked
LEMMA SumStays ==
  ASSUME TypeOK, LiveOK, TypeOK', LiveOK', Cached' = Cached, \A o \in Cached : url'[o] = url[o]
  PROVE  SumOfSizes' = SumOfSizes
<1>1. SumFacts /\ SumFacts'
  BY SumIsTotal, PTL
<1>2. \A o \in Cached : Sizes[o] \in Int /\ Sizes'[o] = Sizes[o]
  BY <1>1 DEF SumFacts
<1>3. SumOfSizes' = Total(Sizes', Cached) /\ SumOfSizes = Total(Sizes, Cached)
  BY <1>1 DEF SumFacts, Total, SumFrom
<1> QED
  BY <1>1, <1>2, <1>3, TotalSame DEF SumFacts

LEMMA SumGrows ==
  ASSUME TypeOK, LiveOK, TypeOK', LiveOK', url' = url, live' = live,
         NEW o \in live, o \notin Cached, Cached' = Cached \cup {o}
  PROVE  SumOfSizes' = SumOfSizes + Size[url[o]] /\ SumOfSizes \in Int
<1>1. SumFacts /\ SumFacts'
  BY SumIsTotal, PTL
<1>2. \A x \in Cached \cup {o} : Sizes[x] \in Int
  BY <1>1 DEF SumFacts
<1>3. SumOfSizes' = Total(Sizes', Cached \cup {o}) /\ Sizes' = Sizes
  BY <1>1 DEF SumFacts, Total, SumFrom, Sizes
<1>4. Total(Sizes, Cached \cup {o}) = Sizes[o] + Total(Sizes, Cached)
  BY <1>1, <1>2, TotalAdd DEF SumFacts
<1>5. Sizes[o] = Size[url[o]] /\ Sizes[o] \in Int /\ SumOfSizes = Total(Sizes, Cached)
  BY <1>1, <1>2 DEF SumFacts
<1>6. Total(Sizes, Cached) \in Int
  <2>1. PICK g : Adds(g, Sizes, Cached)
    BY <1>1, <1>2, AddsExists DEF SumFacts
  <2>2. Total(Sizes, Cached) = g[Cached]
    BY <1>1, <2>1, TotalAdds DEF SumFacts
  <2>3. Cached \in SUBSET Cached /\ g \in [SUBSET Cached -> Int]
    BY <2>1 DEF Adds
  <2> QED
    BY <2>2, <2>3
<1> QED
  BY <1>3, <1>4, <1>5, <1>6

LEMMA AccountedStep ==
  ASSUME IInv, TotalInv, [Next]_vars, IInv', LiveOK', ~ Evicting'
  PROVE  Accounted'
<1>1. /\ TypeOK /\ LocalsOK /\ MutexOK /\ ~ Evicting /\ Sound /\ OwnObjects /\ LiveOK /\ Accounted
      /\ TypeOK'
  BY EvictingStays DEF IInv, Sound, TotalInv
<1>2. PICK n \in Nat : \E s \in [0 .. n + 1 -> Nodes] : Chain(s, n)
  BY <1>1 DEF Sound
<1>3. PICK s \in [0 .. n + 1 -> Nodes] : Chain(s, n)
  BY <1>2
<1>4. ASSUME Cached' = Cached, \A o \in Cached : url'[o] = url[o], total_size' = total_size,
             \A t \in Threads : /\ pc'[t] = "link2" <=> pc[t] = "link2"
                                /\ pc[t] = "link2" => req'[t] = req[t]
      PROVE  Accounted'
  <2>1. SumOfSizes' = SumOfSizes
    BY <1>1, <1>4, SumStays
  <2> QED
    BY <1>1, <1>4, <2>1 DEF Accounted
<1>5. ASSUME NEW t \in Threads, Unlock(t)
      PROVE  Accounted'
  <2>1. Cached' = Cached /\ url' = url
    BY <1>1, <1>3, <1>5, UnlockKeeps DEF Unlock
  <2>2. SumOfSizes' = SumOfSizes
    BY <1>1, <2>1, SumStays
  <2>3. pc[t] = "link2" /\ total_size' = total_size + Size[req[t]]
    BY <1>5 DEF Unlock, LinkNext, At
  <2>4. \A u \in Threads : pc'[u] # "link2"
    BY <1>1, <1>5, <2>3 DEF Unlock, Goto, TypeOK, MutexOK, Holds
  <2> QED
    BY <1>1, <2>2, <2>3, <2>4 DEF Accounted
<1>6. ASSUME NEW t \in Threads, Link(t)
      PROVE  Accounted'
  <2>1. pc[t] = "link" /\ mine[t] \in live /\ mine[t] \notin Cached /\ url[mine[t]] = req[t]
    BY <1>1, <1>6 DEF Link, At, OwnObjects, Inserting, Cached
  <2>2. Cached' = Cached \cup {mine[t]} /\ UNCHANGED <<url, live, req>>
    BY <1>1, <1>3, <1>6, LinkKeeps
  <2>3. SumOfSizes' = SumOfSizes + Size[req[t]]
    BY <1>1, <2>1, <2>2, SumGrows
  <2>4. \A u \in Threads : u # t => pc[u] # "link2" /\ pc'[u] = pc[u]
    BY <1>1, <1>6, <2>1, OthersStay DEF MutexOK, Holds, Work
  <2>5. total_size = SumOfSizes /\ total_size' = total_size
    BY <1>1, <1>6, <2>1, <2>4 DEF Accounted, Link, Deref, End, cache
  <2>6. total_size' + Size[req'[t]] = SumOfSizes'
    BY <2>2, <2>3, <2>5
  <2>7. pc'[t] = "link2"
    BY <1>1, <1>6, FaultStep DEF Link, Goto, Deref, End, TypeOK, Work
  <2> QED
    BY <2>4, <2>6, <2>7 DEF Accounted
<1>7. ASSUME NEW t \in Threads, Room(t) \/ Lock(t)
      PROVE  Accounted'
  <2>1. Cached' = Cached /\ \A o \in Cached : url'[o] = url[o]
    BY <1>1, <1>7, RoomKeeps, LockKeeps DEF Lock
  <2>2. /\ total_size' = total_size /\ req' = req
        /\ \A u \in Threads : pc'[u] = "link2" <=> pc[u] = "link2"
    BY <1>1, <1>7 DEF Room, Lock, malloc, cache, At, Goto, TypeOK
  <2> QED
    BY <1>4, <2>1, <2>2
<1>8. ASSUME Aside, total_size' = total_size
      PROVE  Accounted'
  <2>1. Cached' = Cached /\ url' = url
    BY <1>8, AsideKeeps DEF Aside
  <2>2. \A t \in Threads : /\ pc'[t] = "link2" <=> pc[t] = "link2"
                           /\ pc[t] = "link2" => req'[t] = req[t]
    BY <1>8 DEF Aside, Inserting
  <2> QED
    BY <1>4, <1>8, <2>1, <2>2
<1>9. CASE main \/ UNCHANGED vars
  <2>1. Aside /\ total_size' = total_size
    BY <1>9 DEF main, vars, cache, locals, list, Aside
  <2> QED
    BY <1>8, <2>1
<1>10. ASSUME NEW t \in Threads, Connection(t) \/ Work(t) \/ WrapperExits(t),
              \A u \in Threads : ~ Unlock(u) /\ ~ Link(u) /\ ~ Room(u) /\ ~ Lock(u)
       PROVE  Accounted'
  <2>1. Aside
    BY <1>1, <1>10, StepsAside, NoVictims DEF Work
  <2>2. total_size' = total_size
    BY <1>1, <1>10, TotalGrows
  <2> QED
    BY <1>8, <2>1, <2>2
<1> QED
  BY <1>5, <1>6, <1>7, <1>9, <1>10 DEF Next

\* Until room has to be made, the counter is the sum of the sizes of the
\* objects in the list whenever nobody is inserting; and threads that have
\* all seen room before they insert exceed its limit by no more than one
\* object each, but for one of them (cache.c:48, cache.h:21).
THEOREM Accounting == Spec => []TotalAccounted
<1>1. Init => TotalInv
  <2> SUFFICES ASSUME Init PROVE TotalInv
    OBVIOUS
  <2> USE DEF Init, init_cache
  <2>1. Passed = {} /\ LiveOK
    BY DEF Passed, Inserting, LiveOK
  <2>2. total_size <= Limit
    <3>1. CASE Cardinality(Threads) = 0
      BY <3>1, LimitsAssumption DEF Limit
    <3>2. CASE Cardinality(Threads) - 1 \in Nat
      <4>1. 0 <= (Cardinality(Threads) - 1) * MAX_OBJECT_SIZE
        BY <3>2, LimitType
      <4> QED
        BY <4>1, LimitType DEF Limit
    <3> QED
      BY <3>1, <3>2, PassedType
  <2>3. SumOfSizes = 0
    <3>1. SumFacts /\ Cached = {}
      BY <2>1, TypeInit, SumIsTotal DEF Cached
    <3>2. Adds([T \in SUBSET {} |-> 0], Sizes, {})
      BY DEF Adds
    <3>3. IsFiniteSet({})
      BY FS_EmptySet
    <3>4. Total(Sizes, {}) = [T \in SUBSET {} |-> 0][{}]
      BY <3>2, <3>3, TotalAdds
    <3> QED
      BY <3>1, <3>4 DEF SumFacts
  <2> QED
    BY <2>1, <2>2, <2>3 DEF TotalInv, WithinLimit, Accounted
<1>2. IInv /\ IInv' /\ TotalInv /\ [Next]_vars => TotalInv'
  <2> SUFFICES ASSUME IInv, IInv', TotalInv, [Next]_vars PROVE TotalInv'
    OBVIOUS
  <2>1. LiveOK'
    BY LiveStep DEF IInv, TotalInv
  <2>2. WithinLimit'
    BY WithinStep DEF IInv, TotalInv
  <2> QED
    BY <2>1, <2>2, AccountedStep DEF TotalInv
<1>3. IInv /\ TotalInv => TotalAccounted
  <2> SUFFICES ASSUME IInv, TotalInv PROVE TotalAccounted
    OBVIOUS
  <2>1. total_size <= MAX_CACHE_SIZE + (Cardinality(Threads) - 1) * MAX_OBJECT_SIZE
    BY DEF TotalInv, WithinLimit, Limit
  <2>2. mutex = 1 => \A t \in Threads : pc[t] # "link2"
    BY DEF IInv, MutexOK, Holds
  <2> QED
    BY <2>1, <2>2 DEF TotalInv, Accounted, TotalAccounted
<1> QED
  BY <1>1, <1>2, <1>3, Invariant, PTL DEF Spec

=============================================================================
