----------------------------- MODULE CacheShape -----------------------------
(***************************************************************************)
(* The shape of the cache that src/cachelab/csim.c simulates, and how it   *)
(* takes an address apart.                                                 *)
(***************************************************************************)
EXTENDS Integers

CONSTANTS Addr,          \* addresses of the trace
          s, E, b,       \* set index bits, lines in a set, block offset bits
          MaxAccesses    \* bounds the counters

none == -1

ASSUME AddrAssumption == Addr \subseteq Nat
\* is_valid_input
ASSUME InputAssumption == s \in Nat \ {0} /\ E \in Nat \ {0} /\ b \in Nat \ {0}
\* Facts of arithmetic that the provers do not know
ASSUME PowerAssumption == /\ {2^s, 2^b, 2^(s + b)} \subseteq Nat \ {0}
                          /\ 2^(s + b) = 2^s * 2^b

Sets == 0 .. 2^s - 1
Positions == 1 .. E
Tags == {addr \div 2^(s + b) : addr \in Addr}

Tag(addr) == addr \div 2^(s + b)
SetIdx(addr) == (addr \div 2^b) % 2^s

=============================================================================
