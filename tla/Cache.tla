------------------------------- MODULE Cache -------------------------------
(***************************************************************************)
(* The object cache of the proxy (src/proxylab/cache.c): a doubly linked   *)
(* list between two sentinels, the counter of cached bytes and the mutex.  *)
(* Threads run the routines interleaved, so an operator here is one access *)
(* to the shared list by a routine, not the routine; Proxy puts them in    *)
(* order.                                                                  *)
(***************************************************************************)
EXTENDS Integers, FiniteSets, FiniteSetsExt

CONSTANTS Urls,
          Objects,          \* addresses that malloc may give to objects
          Size,             \* bytes of the response to each URL
          MAX_CACHE_SIZE,
          MAX_OBJECT_SIZE

NULL == "NULL"
head == "head"
tail == "tail"
Sentinels == {head, tail}
Nodes == Objects \cup Sentinels

ASSUME ObjectsAssumption == IsFiniteSet(Objects) /\ Objects \cap (Sentinels \cup {NULL}) = {}
ASSUME SizeAssumption == Size \in [Urls -> Nat]
ASSUME LimitsAssumption == /\ MAX_CACHE_SIZE \in Nat
                           /\ MAX_OBJECT_SIZE \in 0 .. MAX_CACHE_SIZE

VARIABLES prev, next,   \* links of a node
          chance,       \* its reference bit
          url,          \* its URL, which stands for its data and size, too;
                        \* NULL for memory that is not allocated
          live,         \* the objects that are allocated
          total_size,   \* "global sum of size"
          mutex         \* semaphore, "to protect linked list"

list == <<prev, next>>
cache == <<prev, next, chance, url, live, total_size, mutex>>

init_cache == /\ prev = [n \in Nodes |-> IF n = tail THEN head ELSE NULL]
              /\ next = [n \in Nodes |-> IF n = head THEN tail ELSE NULL]
              /\ chance = [n \in Nodes |-> 0]
              /\ url = [o \in Objects |-> NULL]
              /\ live = {}
              /\ total_size = 0
              /\ mutex = 1

\* A pointer that may be followed
Valid(p) == p \in live \cup Sentinels

\* The last object in the list, where find_object and find_victim start
Last == prev[tail]

\* Mutant: the size of the new object is forgotten
NoRoom_Before(size) == total_size >= MAX_CACHE_SIZE

\* The test of add_object; all sizes that get here are small enough for the
\* subtraction not to wrap
NoRoom(size) == total_size > MAX_CACHE_SIZE - size

\* Mutant: the URLs are not compared
Match_Any(p, u) == p \in live

\* strcmp(object->url, url) == 0
Match(p, u) == url[p] = u

Touch(p) == chance' = [chance EXCEPT ![p] = 1]

\* Second chance: the victim is the first object whose bit is clear
Spare(p) == chance' = [chance EXCEPT ![p] = 0]

malloc(o, u) == /\ o \in Objects \ live
                /\ live' = live \cup {o}
                /\ url' = [url EXCEPT ![o] = u]
                /\ chance' = [chance EXCEPT ![o] = 1]
                /\ UNCHANGED <<list, total_size, mutex>>

\* Mutant: the mutex is not given back
V_Missing == UNCHANGED mutex

\* Mutant: no mutex
P_Open == mutex' = 0

P == mutex = 1 /\ mutex' = 0
V == mutex' = 1

\* Mutant: the assignment to object->prev is missing
SetLinks_NoPrev(o) == next' = [next EXCEPT ![o] = next[head]] /\ UNCHANGED prev

\* The links of a new object that is to come first ...
SetLinks(o) == /\ next' = [next EXCEPT ![o] = next[head]]
               /\ prev' = [prev EXCEPT ![o] = head]

\* ... that of the object that was first ...
LinkPrev(o) == prev' = [prev EXCEPT ![next[o]] = o] /\ UNCHANGED next

\* ... and that of the head, with the counter
LinkNext(o, size) == /\ next' = [next EXCEPT ![head] = o]
                     /\ total_size' = total_size + size
                     /\ UNCHANGED prev

\* evict_object: the write to the next object, and the one to the previous
\* object, after which the victim is freed
UnlinkPrev(v) == prev' = [prev EXCEPT ![next[v]] = prev[v]] /\ UNCHANGED next
UnlinkNext(v) == /\ next' = [next EXCEPT ![prev[v]] = next[v], ![v] = NULL]
                 /\ prev' = [prev EXCEPT ![v] = NULL]
                 /\ chance' = [chance EXCEPT ![v] = 0]
                 /\ url' = [url EXCEPT ![v] = NULL]
                 /\ live' = live \ {v}

=============================================================================
