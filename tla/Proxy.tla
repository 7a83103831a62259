------------------------------- MODULE Proxy -------------------------------
(***************************************************************************)
(* The proxy (src/proxylab/proxy.c) and its cache: every connection has a  *)
(* thread, handle_request, and the threads share the list of cached        *)
(* objects.  A thread is interrupted between any two accesses to the list. *)
(*                                                                         *)
(* Only insertion takes the mutex.  An access to an object that another    *)
(* thread has freed is undefined behaviour: the model stops ("undefined"), *)
(* as it does when a wrapper of csapp.c ends the process ("exit(0)") or a  *)
(* null pointer is followed ("SIGSEGV").                                   *)
(***************************************************************************)
EXTENDS Cache

CONSTANTS Threads,
          MaxFds   \* descriptors the process may have for its connections

ASSUME ThreadsAssumption == IsFiniteSet(Threads) /\ MaxFds \in Nat

VARIABLES pc,      \* where each thread is
          req,     \* the URL it was asked for
          cur,     \* the object its find_object or evict_object is at
          mine,    \* the object it adds
          got,     \* what its client was sent: the data of a URL, "501", or
                   \* "nothing"
          fds,     \* open descriptors of connections
          exit     \* how the process has ended, "no" while it serves

locals == <<pc, req, cur, mine, got>>
vars == <<cache, locals, fds, exit>>

Unlinking == {"unlink", "unlink2"}

Running == exit = "no"
At(t, l) == Running /\ pc[t] = l
Goto(t, l) == pc' = [pc EXCEPT ![t] = l]
MoveTo(t, p) == cur' = [cur EXCEPT ![t] = p]
Leave(t) == /\ Goto(t, "idle")
            /\ MoveTo(t, NULL)
            /\ mine' = [mine EXCEPT ![t] = NULL]
Send(t, u) == got' = [got EXCEPT ![t] = u]

Init == /\ init_cache
        /\ pc = [t \in Threads |-> "idle"]
        /\ req = [t \in Threads |-> NULL]
        /\ cur = [t \in Threads |-> NULL]
        /\ mine = [t \in Threads |-> NULL]
        /\ got = [t \in Threads |-> "nothing"]
        /\ fds = 0
        /\ exit = "starting"

-----------------------------------------------------------------------------
(* Failures. *)

\* The process ends, whatever the other threads are doing
End(how) == exit' = how /\ UNCHANGED <<cache, locals, fds>>

\* Following a pointer that is null, or to an object that was freed
Deref(p) == ~ Valid(p) /\ End(IF p = NULL THEN "SIGSEGV" ELSE "undefined")

\* An accept, read, write or connect that fails, in any thread, because of
\* the peer or for want of a descriptor: the wrapper exits (or SIGPIPE, which
\* nothing ignores, ends the process, to the same effect)
WrapperExits(t) == /\ Running
                   /\ pc[t] \in {"idle", "hit", "open", "pass"}
                   /\ End("exit(0)")

-----------------------------------------------------------------------------
(* main, up to its loop. *)

\* The first address of the machine that a socket can be bound to is listened
\* on; without one, Open_listenfd ends the process
open_listenfd == {"no", "exit(0)"}

main == /\ exit = "starting"
        /\ exit' \in {"usage"} \cup open_listenfd
        /\ UNCHANGED <<cache, locals, fds>>

-----------------------------------------------------------------------------
(* handle_request. *)

Accepts(t) == At(t, "idle") /\ fds < MaxFds /\ fds' = fds + 1

\* A GET of a well-formed URL, up to the call of find_object
Request(t, u) == /\ Accepts(t)
                 /\ req' = [req EXCEPT ![t] = u]
                 /\ MoveTo(t, Last)
                 /\ Send(t, "nothing")
                 /\ Goto(t, "find")
                 /\ UNCHANGED <<cache, mine, exit>>

\* No request line: the thread returns and leaves the connection open
NoRequest(t) == /\ Accepts(t)
                /\ Send(t, "nothing")
                /\ UNCHANGED <<cache, pc, req, cur, mine, exit>>

\* An error page goes to the client
clienterror(t) == Send(t, "501")

\* Another method than GET; the connection stays open, too
NotImplemented(t) == /\ Accepts(t)
                     /\ clienterror(t)
                     /\ UNCHANGED <<cache, pc, req, cur, mine, exit>>

\* The client is gone before the end of the headers: read_requesthdrs
\* reads the same line for ever
HeadersCut(t) == /\ Accepts(t)
                 /\ Send(t, "nothing")
                 /\ Goto(t, "spin")
                 /\ UNCHANGED <<cache, req, cur, mine, exit>>

\* parse_url fails and pass_response reads from the descriptor that hostfd,
\* never assigned, holds
BadUrl(t) == Accepts(t) /\ exit' = "wild read" /\ UNCHANGED <<cache, locals>>

\* One turn of the loop in find_object
FindObject(t) ==
  /\ At(t, "find")
  /\ \/ /\ cur[t] = head
        /\ Goto(t, "open")
        /\ UNCHANGED <<cache, req, cur, mine, got, fds, exit>>
     \/ /\ cur[t] \in live /\ Match(cur[t], req[t])
        /\ Touch(cur[t])
        /\ Goto(t, "hit")
        /\ UNCHANGED <<list, url, live, total_size, mutex, req, cur, mine, got, fds, exit>>
     \/ /\ cur[t] \in live /\ ~ Match(cur[t], req[t])
        /\ MoveTo(t, prev[cur[t]])
        /\ UNCHANGED <<cache, pc, req, mine, got, fds, exit>>
     \/ Deref(cur[t])

\* The object is sent; the thread returns and leaves the connection open
Hit(t) == /\ At(t, "hit")
          /\ \/ /\ Valid(cur[t])
                /\ Send(t, url[cur[t]])
                /\ Leave(t)
                /\ UNCHANGED <<cache, req, fds, exit>>
             \/ Deref(cur[t])

\* The server's addresses are tried in turn; a socket whose connect fails
\* is closed again, so that one more descriptor is open, or none
open_clientfd == fds < MaxFds /\ fds' = fds + 1

\* Open_clientfd and send_request
Open(t) == /\ At(t, "open")
           /\ \/ /\ open_clientfd
                 /\ Goto(t, "pass")
                 /\ UNCHANGED <<cache, req, cur, mine, got, exit>>
              \/ fds = MaxFds /\ End("exit(0)")

\* pass_response up to the test of the response's size
PassResponse(t) == /\ At(t, "pass")
                   /\ Send(t, req[t])
                   /\ Goto(t, IF Size[req[t]] <= MAX_OBJECT_SIZE THEN "room" ELSE "close")
                   /\ UNCHANGED <<cache, req, cur, mine, fds, exit>>

Close(t) == /\ At(t, "close")
            /\ fds' = fds - 2
            /\ Leave(t)
            /\ UNCHANGED <<cache, req, got, exit>>

-----------------------------------------------------------------------------
(* add_object and evict_object. *)

\* The test of the while loop, then the call of find_victim, or malloc; the
\* set of addresses bounds the model
Room(t) ==
  /\ At(t, "room")
  /\ \/ /\ NoRoom(Size[req[t]])
        /\ MoveTo(t, Last)
        /\ Goto(t, "victim")
        /\ UNCHANGED <<cache, mine>>
     \/ /\ ~ NoRoom(Size[req[t]])
        /\ \E o \in Objects : malloc(o, req[t]) /\ mine' = [mine EXCEPT ![t] = o]
        /\ Goto(t, "lock")
        /\ UNCHANGED cur
  /\ UNCHANGED <<req, got, fds, exit>>

Lock(t) == /\ At(t, "lock")
           /\ P
           /\ SetLinks(mine[t])
           /\ Goto(t, "link")
           /\ UNCHANGED <<chance, url, live, total_size, req, cur, mine, got, fds, exit>>

Link(t) == /\ At(t, "link")
           /\ \/ /\ Valid(next[mine[t]])
                 /\ LinkPrev(mine[t])
                 /\ Goto(t, "link2")
                 /\ UNCHANGED <<chance, url, live, total_size, mutex,
                                req, cur, mine, got, fds, exit>>
              \/ Deref(next[mine[t]])

Unlock(t) == /\ At(t, "link2")
             /\ LinkNext(mine[t], Size[req[t]])
             /\ V
             /\ Goto(t, "close")
             /\ UNCHANGED <<chance, url, live, req, cur, mine, got, fds, exit>>

\* One turn of the loop in find_victim; when no bit was clear the victim is
\* the last object, or the head of an empty list
FindVictim(t) ==
  /\ At(t, "victim")
  /\ \/ /\ cur[t] = head
        /\ MoveTo(t, Last)
        /\ Goto(t, "unlink")
        /\ UNCHANGED <<chance>>
     \/ /\ cur[t] \in live /\ chance[cur[t]] = 1
        /\ Spare(cur[t])
        /\ MoveTo(t, prev[cur[t]])
        /\ UNCHANGED <<pc>>
     \/ /\ cur[t] \in live /\ chance[cur[t]] = 0
        /\ Goto(t, "unlink")
        /\ UNCHANGED <<chance, cur>>
  /\ UNCHANGED <<list, url, live, total_size, mutex, req, mine, got, fds, exit>>

\* find_victim or evict_object meets a pointer that it must not follow
EvictFails(t) == \/ At(t, "victim") /\ Deref(cur[t])
                 \/ At(t, "unlink") /\ Valid(cur[t]) /\ Deref(next[cur[t]])
                 \/ At(t, "unlink2") /\ Valid(cur[t]) /\ Deref(prev[cur[t]])
                 \/ \E l \in Unlinking : At(t, l) /\ Deref(cur[t])

Unlink(t) == /\ At(t, "unlink")
             /\ Valid(cur[t]) /\ Valid(next[cur[t]])
             /\ UnlinkPrev(cur[t])
             /\ Goto(t, "unlink2")
             /\ UNCHANGED <<chance, url, live, total_size, mutex,
                            req, cur, mine, got, fds, exit>>

\* total_size stays as it is
Evict(t) == /\ At(t, "unlink2")
            /\ Valid(cur[t]) /\ Valid(prev[cur[t]])
            /\ UnlinkNext(cur[t])
            /\ Goto(t, "room")
            /\ UNCHANGED <<total_size, mutex, req, cur, mine, got, fds, exit>>

-----------------------------------------------------------------------------
Connection(t) == \/ \E u \in Urls : Request(t, u)
                 \/ NoRequest(t) \/ NotImplemented(t) \/ HeadersCut(t) \/ BadUrl(t)

Work(t) == \/ FindObject(t) \/ Hit(t) \/ Open(t) \/ PassResponse(t) \/ Close(t)
           \/ Room(t) \/ Lock(t) \/ Link(t) \/ Unlock(t)
           \/ FindVictim(t) \/ EvictFails(t) \/ Unlink(t) \/ Evict(t)

Next == main \/ \E t \in Threads : Connection(t) \/ Work(t) \/ WrapperExits(t)

Spec == Init /\ [][Next]_vars

\* A thread that has work is run; clients and servers answer.
FairSpec == Spec /\ \A t \in Threads : WF_vars(Work(t))

-----------------------------------------------------------------------------
\* A thread makes room, or is about to.  As total_size never decreases, it
\* does so for the rest of the process's life.
Evicting == \E t \in Threads : \/ pc[t] \in {"victim"} \cup Unlinking
                               \/ pc[t] = "room" /\ NoRoom(Size[req[t]])

\* The objects that add_object has linked to the list's last part
Cached == live \ {mine[t] : t \in {s \in Threads : pc[s] \in {"lock", "link"}}}

\* The n-th node that a walk of find_object from the tail meets
Walk == LET walk[n \in 0 .. Cardinality(Objects) + 1] ==
              IF n = 0 THEN tail
              ELSE IF walk[n - 1] \in {head, NULL} THEN walk[n - 1]
              ELSE prev[walk[n - 1]]
        IN  walk

\* Until the cache is full, a walk from the tail meets every cached object
\* and ends at the head whoever is inserting another one (cache.c:64-70), and
\* the links to the next object agree but for the one being set.
ListIntact ==
  Running /\ ~ Evicting =>
    /\ {Walk[n] : n \in 1 .. Cardinality(Objects) + 1} = Cached \cup {head}
    /\ \A x \in Cached \cup {tail} :
         next[prev[x]] = x \/ \E t \in Threads : pc[t] = "link2" /\ mine[t] = x

\* Until the cache is full, the walks of find_object, which take no mutex
\* (cache.c:82), follow no null pointer and no pointer to freed memory.
NoFaultUntilFull == exit \in {"SIGSEGV", "undefined"} => Evicting

\* Until the cache is full, a client gets the data of the URL it asked for,
\* from the server or from the cache (proxy.c:85-95).
ServedIsRequested ==
  ~ Evicting => \A t \in Threads : \/ got[t] \in {"nothing", req[t]}
                                   \/ got[t] = "501" /\ pc[t] = "idle"

SumOfSizes == MapThenSumSet(LAMBDA o : Size[url[o]], Cached)

\* Until the cache is full, "global sum of size" (cache.h:21) is right
\* whenever nobody is inserting.  The test for room (cache.c:48) and the
\* insertion are not one step: each other thread may overshoot by one
\* object, and no more.
TotalAccounted ==
  /\ ~ Evicting /\ mutex = 1 => total_size = SumOfSizes
  /\ total_size <= MAX_CACHE_SIZE + (Cardinality(Threads) - 1) * MAX_OBJECT_SIZE

\* A thread whose request was complete comes to its end, or the process does.
RequestEnds ==
  \A t \in Threads :
    pc[t] \notin {"idle", "spin"} ~> pc[t] = "idle" \/ ~ Running

\* "Global sum of size" (cache.h:21), with objects evicted, too.
TotalIsSum ==
  mutex = 1 /\ (\A t \in Threads : pc[t] # "unlink2") => total_size = SumOfSizes

=============================================================================
