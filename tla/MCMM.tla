-------------------------------- MODULE MCMM --------------------------------
(***************************************************************************)
(* Instances of MM for TLC: a heap of a few chunks.                        *)
(***************************************************************************)
EXTENDS MM

\* The words that belong to a bin, a header, a free chunk or a user.  What
\* was left in the others is never read before it is written, so states that
\* differ there only are explored once.
Live ==
  LET chunks == Chunks
      free == {p \in chunks \ {top} : ~ is_valid(heap, p)}
  IN  UNION {{word(b)} : b \in Bins} \union UNION {{word(p) + 1} : p \in chunks}
      \union UNION {{word(p) + 2, word(p) + 3, word(next_chunk(heap, p))} : p \in free}
      \union UNION {Payload(blocks[i]) : i \in Held}

LiveView == LET live == Live
            IN  <<top, brk, blocks, preserved, [w \in Words |-> IF w \in live THEN mem[w] ELSE 0]>>

=============================================================================
