-------------------------------- MODULE Rio --------------------------------
(***************************************************************************)
(* The buffered reading of csapp.c: rio_readlineb over rio_read, on a      *)
(* connection whose client may leave at any time.  A "byte" stands for a   *)
(* word of the request, CR or LF.  The client sends its request at once,   *)
(* or a part of it and leaves; read returns it in any pieces.  A read that *)
(* a signal interrupts is made again and changes nothing.                  *)
(***************************************************************************)
EXTENDS Integers, Sequences, SequencesExt, FiniteSetsExt

CONSTANTS Requests, MAXLINE, RIO_BUFSIZE

\* A line has room for two bytes and the null
ASSUME RioAssumption == /\ Requests \subseteq Seq(STRING)
                        /\ MAXLINE \in Nat /\ MAXLINE > 2
                        /\ RIO_BUFSIZE \in Nat \ {0}

VARIABLES request,         \* the bytes that the client means to send
          sent, gone,      \* how many it has sent; whether and how it has left
          taken, rio_buf,  \* what read has returned, and what of it is unread
          line,            \* what a call of rio_readlineb has copied
          rc, usrbuf,      \* how it ended, and the caller's buffer
          copied           \* all that callers were given (history)

client == <<request, sent, gone>>
rio == <<taken, rio_buf, line, rc, usrbuf, copied>>

NoClient == request' = <<>> /\ sent' = 0 /\ gone' = "no"
NoRio == /\ taken' = 0 /\ rio_buf' = <<>> /\ line' = <<>>
         /\ rc' = "none" /\ usrbuf' = <<>> /\ copied' = <<>>

RioInit == /\ request = <<>> /\ sent = 0 /\ gone = "no"
           /\ taken = 0 /\ rio_buf = <<>> /\ line = <<>>
           /\ rc = "none" /\ usrbuf = <<>> /\ copied = <<>>

-----------------------------------------------------------------------------
\* The client
Connects == request' \in Requests /\ sent' = 0 /\ gone' = "no"

Send == /\ gone = "no" /\ sent < Len(request)
        /\ sent' = Len(request)
        /\ UNCHANGED <<request, gone, rio>>

Leave == /\ gone = "no"
         /\ sent' \in sent .. Len(request)
         /\ gone' \in {"closed", "reset"}
         /\ UNCHANGED <<request, rio>>

-----------------------------------------------------------------------------
rio_readinitb == taken' = 0 /\ rio_buf' = <<>> /\ copied' = <<>>

\* A call of rio_readlineb for a buffer that holds something
rio_readlineb(buf) == /\ line' = <<>> /\ rc' = "reading" /\ usrbuf' = buf

\* rio_read, when its buffer is empty
Refill == /\ rc = "reading" /\ rio_buf = <<>>
          /\ gone # "reset"
          /\ \E n \in 1 .. RIO_BUFSIZE :
               /\ n <= sent - taken
               /\ taken' = taken + n
               /\ rio_buf' = SubSeq(request, taken + 1, taken + n)
          /\ UNCHANGED <<client, line, rc, usrbuf, copied>>

\* How many bytes of the buffer go to the line, at one byte per call of rio_read.
LineBytes == Min({m \in DOMAIN rio_buf : rio_buf[m] = "LF"}
                   \cup {Len(rio_buf), MAXLINE - 1 - Len(line)})

\* Mutant: rio_bufptr stays where it was
Rest_Again(n) == rio_buf
Rest(n) == SubSeq(rio_buf, n + 1, Len(rio_buf))

Copy == /\ rc = "reading" /\ rio_buf # <<>>
        /\ \E n \in {LineBytes} : LET got == SubSeq(rio_buf, 1, n) IN
             /\ line' = line \o got
             /\ copied' = copied \o got
             /\ rio_buf' = Rest(n)
        /\ IF Len(line') = MAXLINE - 1 \/ Last(line') = "LF"
           THEN rc' = "line" /\ usrbuf' = line'
           ELSE UNCHANGED <<rc, usrbuf>>
        /\ UNCHANGED <<client, taken>>

\* At the end of the stream, a call that has copied nothing returns 0 and
\* leaves the caller's buffer as it was.
\* Mutant: it calls read once more
EndOfFile_Again == line # <<>> /\ rc' = "line" /\ usrbuf' = line
EndOfFile == IF line = <<>> THEN rc' = "eof" /\ UNCHANGED usrbuf
             ELSE rc' = "line" /\ usrbuf' = line

AtEnd == /\ rc = "reading" /\ rio_buf = <<>> /\ gone = "closed" /\ taken = sent
         /\ EndOfFile
         /\ UNCHANGED <<client, taken, rio_buf, line, copied>>

\* read returns -1, and so does rio_readlineb; Rio_readlineb exits
ReadFails == /\ rc = "reading" /\ rio_buf = <<>> /\ gone = "reset"
             /\ rc' = "error"
             /\ UNCHANGED <<client, taken, rio_buf, line, usrbuf, copied>>

Reading == Refill \/ Copy \/ AtEnd \/ ReadFails

-----------------------------------------------------------------------------
\* Whatever pieces the request arrives in, what callers are given and what the
\* buffer still holds are together what read has returned, in its order: no
\* byte is lost between two calls or given twice; and a line ends with its
\* newline, at the size of the caller's buffer, or at the end of the stream
\* (csapp.c:794-882).
ReadsTheStream ==
  /\ copied \o rio_buf = SubSeq(request, 1, taken)
  /\ rc = "line" =>
       /\ usrbuf # <<>> /\ Len(usrbuf) < MAXLINE
       /\ \A n \in 1 .. Len(usrbuf) - 1 : usrbuf[n] # "LF"
       /\ \/ Last(usrbuf) = "LF" \/ Len(usrbuf) = MAXLINE - 1
          \/ gone = "closed" /\ taken = sent /\ rio_buf = <<>>

=============================================================================
