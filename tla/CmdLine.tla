------------------------------- MODULE CmdLine -------------------------------
(***************************************************************************)
(* How tsh.c reads a command line: parseline, and what do_bgfg makes of    *)
(* the argument of fg and bg.  A line is a sequence of characters; the     *)
(* letters of a name are one character, as nothing takes a name apart.     *)
(***************************************************************************)
EXTENDS Integers, Sequences, SequencesExt, FiniteSetsExt

Space == " "
Quote == "'"
Newline == "LF"
Digits == <<"0", "1", "2", "3", "4", "5", "6", "7", "8", "9">>

-----------------------------------------------------------------------------
(* parseline. *)

\* Where a character is found from a place on, or 0
strchr(line, from, c) ==
  LET found == {n \in from .. Len(line) : line[n] = c}
  IN  IF found = {} THEN 0 ELSE Min(found)

SkipSpaces(line, from) == Min({n \in from .. Len(line) : line[n] # Space} \cup {Len(line) + 1})

\* Mutant: the scan goes on at the delimiter
Behind_At(delim) == delim
Behind(delim) == delim + 1

\* The loop ends where no delimiter is found: a quote that is not closed
\* drops the rest of the line
Arguments(line) ==
  LET from[n \in 1 .. Len(line) + 1] ==
        LET start == SkipSpaces(line, n)
            quoted == start <= Len(line) /\ line[start] = Quote
            buf == IF quoted THEN start + 1 ELSE start
            delim == strchr(line, buf, IF quoted THEN Quote ELSE Space)
        IN  IF delim = 0 THEN <<>>
            ELSE <<SubSeq(line, buf, delim - 1)>> \o from[Behind(delim)]
  IN  from[1]

\* The last character, a newline, becomes a space; a last argument that
\* begins with & is taken off.  A blank line counts as one for the background.
parseline(cmdline) ==
  LET argv == Arguments([cmdline EXCEPT ![Len(cmdline)] = Space])
      amp == argv # <<>> /\ Last(argv) # <<>> /\ Last(argv)[1] = "&"
  IN  [argv |-> IF amp THEN Front(argv) ELSE argv, bg |-> amp \/ argv = <<>>]

-----------------------------------------------------------------------------
(* builtin_cmd and do_bgfg. *)

isDigit(str) == ToSet(str) \subseteq ToSet(Digits)

\* The number that the digits at the front of a word give
Value(c) == CHOOSE v \in 0 .. 9 : Digits[v + 1] = c
atoi(str) == LET other == SelectInSeq(str, LAMBDA c : c \notin ToSet(Digits))
                 number[n \in 0 .. Len(str)] ==
                   IF n = 0 THEN 0 ELSE 10 * number[n - 1] + Value(str[n])
             IN  number[IF other = 0 THEN Len(str) ELSE other - 1]

\* What the argument of fg or bg names: nothing, a job or a process
Named(argv) ==
  IF Len(argv) < 2 THEN [by |-> "missing", id |-> 0]
  ELSE LET arg == argv[2]
           is_job == arg # <<>> /\ arg[1] = "%"
           number == IF is_job THEN Tail(arg) ELSE arg
       IN  IF ~ isDigit(number) THEN [by |-> "malformed", id |-> 0]
           ELSE [by |-> IF is_job THEN "jid" ELSE "pid", id |-> atoi(number)]

\* What eval does with a line
Builtin == {"quit", "jobs", "fg", "bg", "&"}
Kind(argv) == IF argv = <<>> THEN "ignored"
              ELSE IF \E name \in Builtin : argv[1] = <<name>> THEN argv[1][1]
              ELSE "program"

-----------------------------------------------------------------------------
(* The words of a line, read from left to right. *)

\* At a space, inside a word or inside quotes
Scan(m, c) ==
  CASE m.at = "space" /\ c = Space -> m
    [] m.at = "space" /\ c = Quote -> [m EXCEPT !.at = "quotes"]
    [] <<m.at, c>> \in {<<"word", Space>>, <<"quotes", Quote>>} ->
         [at |-> "space", word |-> <<>>, words |-> Append(m.words, m.word)]
    [] OTHER -> [at |-> IF m.at = "space" THEN "word" ELSE m.at,
                  word |-> Append(m.word, c), words |-> m.words]

ScanStart == [at |-> "space", word |-> <<>>, words |-> <<>>]

\* Those of a line that its newline ends
Words(cmdline) ==
  LET line == Append(Front(cmdline), Space)
      scan[n \in 0 .. Len(line)] == IF n = 0 THEN ScanStart ELSE Scan(scan[n - 1], line[n])
  IN  scan[Len(line)].words

=============================================================================
