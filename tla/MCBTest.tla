------------------------------ MODULE MCBTest ------------------------------
(***************************************************************************)
(* An instance of BTest for TLC.                                           *)
(***************************************************************************)
EXTENDS BTest

Text(word) == [float |-> FALSE, more |-> FALSE, fits |-> TRUE, word |-> word]
One(f, word) == <<[flag |-> "f", val |-> f], [flag |-> "1", val |-> Text(word)]>>

\* Numbers whose conversion to float is rounded: halves, a carry into the
\* next power of two, and the least number
Rounded24 == {{0, 24}, {0, 1, 24}, 0 .. 30, 6 .. 30, {0, 6, 31}, {31}}

\* Numbers that are as large as can be, that have no finite double, that are on
\* the two sides of the least normalised one, and that are none
Doubled == {23 .. 29, (0 .. 30) \ {23}, (0 .. 31) \ {23}, (24 .. 30) \cup {5}, 24 .. 30,
            0 .. 22, {22, 31}, {23}, 22 .. 30, {0} \cup 23 .. 30}

Graded(args) == <<[flag |-> "g", val |-> none]>> \o args

\* All puzzles, with and without a uniform rating and timeouts, one puzzle
\* with arguments, and options that are refused
MCArgvs ==
  {<<>>, <<[flag |-> "g", val |-> none], [flag |-> "r", val |-> 5], [flag |-> "T", val |-> 0]>>,
   <<[flag |-> "r", val |-> -1]>>, <<[flag |-> "h", val |-> none]>>,
   One("fitsBits", {2, 4}) \o <<[flag |-> "2", val |-> Text({2})]>>,
   One("bang", {1}) \o <<[flag |-> "1", val |-> Text({2})]>>,
   <<[flag |-> "1", val |-> [float |-> TRUE, more |-> TRUE, fits |-> TRUE, word |-> {}]]>>}
  \cup {One("float_i2f", word) : word \in Rounded24}
  \cup {One("float_twice", word) : word \in Doubled}
  \cup {Graded(One("float_twice", word)) : word \in {(0 .. 30) \ {23}, 24 .. 30}}

\* Random values for nine and for three tests
MCRandoms ==
  LET rs == <<{0, 3, 4, 9, 14, 22, 27}, {2, 5, 17, 18, 30}, {1, 8, 12, 13, 29},
              {4, 6, 16, 20, 24}, {10, 11, 15, 21, 28}, 7 .. 19, {0, 5, 25, 26},
              {3, 12, 23}, {2, 30}>>
  IN  {rs, SubSeq(rs, 1, 3), <<{1, 31}, {0, 7, 20, 25, 31}, 8 .. 31>>}

=============================================================================
