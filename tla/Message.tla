------------------------------- MODULE Message -------------------------------
(***************************************************************************)
(* How the SIGCHLD handler of tsh.c tells of a job: print_terminate_msg    *)
(* and print_stop_msg with rio_writen, whose write may take a part of what *)
(* it is given or be interrupted.  Each word of the text and each digit of *)
(* a number is a byte.                                                     *)
(***************************************************************************)
EXTENDS CmdLine

CONSTANT MaxInterrupts   \* bounds the writes that a signal interrupts

ASSUME InterruptsAssumption == MaxInterrupts \in Nat

VARIABLES strings,       \* what is still to be written, one call each
          out,           \* what was written to standard output
          interrupts

message == <<strings, out, interrupts>>

MessageInit == strings = <<>> /\ out = <<>> /\ interrupts = 0

\* Nothing for numbers that are not positive
itoa_safe(i) == LET digits[n \in 0 .. i] ==
                      IF n = 0 THEN <<>> ELSE Append(digits[n \div 10], Digits[(n % 10) + 1])
                IN  IF i <= 0 THEN <<>> ELSE digits[i]

Told(how, pid, jid, signal) ==
  <<<<"Job", "[">>, itoa_safe(jid), <<"]", "(">>, itoa_safe(pid),
    <<")", how, "by", "signal">>, itoa_safe(signal), <<"LF">>>>

print_msg(how, pid, jid, signal) == strings' = Told(how, pid, jid, signal)

Writing == strings # <<>>

\* Mutant: bufp stays where it was
Unwritten_Again(string, n) == SubSeq(string, 1, Len(string) - n)
Unwritten(string, n) == SubSeq(string, n + 1, Len(string))

\* A turn of the loop in rio_writen, or its end
write == /\ Writing
         /\ \/ /\ Head(strings) = <<>> /\ strings' = Tail(strings)
               /\ UNCHANGED <<out, interrupts>>
            \/ \E n \in DOMAIN Head(strings) :
                 /\ out' = out \o SubSeq(Head(strings), 1, n)
                 /\ strings' = [strings EXCEPT ![1] = Unwritten(@, n)]
                 /\ UNCHANGED interrupts
            \/ /\ Head(strings) # <<>> /\ interrupts < MaxInterrupts
               /\ interrupts' = interrupts + 1
               /\ UNCHANGED <<strings, out>>

\* A write that fails ends the shell
write_fails == Writing /\ Head(strings) # <<>> /\ UNCHANGED message

=============================================================================
