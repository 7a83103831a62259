----------------------------- MODULE TinyProofs -----------------------------
(***************************************************************************)
(* Proofs about Tiny and Rio, for every set of requests and files, every   *)
(* size of the buffers and whatever pieces the requests and the answers    *)
(* are cut into.                                                           *)
(***************************************************************************)
EXTENDS Tiny, FiniteSetTheorems, SequenceTheorems, WellFoundedInduction, TLAPS

-----------------------------------------------------------------------------
(* What is known of a connection's reading. *)

\* What is read and written.  The provers do not know the literals as members
\* of STRING, so that the set names those of the specification again.
Symbols == STRING \cup {"CR", "LF", "200", "403", "404", "501", "Content-length", "Content-type",
                        "Server", "error page", "text/html", "image/gif", "image/png",
                        "image/jpeg", "text/plain"}
Streams == Seq(Symbols)

RioType == /\ request \in Streams /\ sent \in 0 .. Len(request)
           /\ gone \in {"no", "closed", "reset"}
           /\ taken \in 0 .. sent
           /\ rio_buf \in Streams /\ line \in Streams
           /\ usrbuf \in Streams /\ copied \in Streams
           /\ rc \in {"none", "reading", "line", "eof", "error"}

\* What callers were given and what is unread is what read has returned.
InOrder == copied \o rio_buf = SubSeq(request, 1, taken)

\* A line that is read has room, and no newline yet.
LineOpen == rc = "reading" => /\ Len(line) < MAXLINE - 1
                              /\ \A n \in 1 .. Len(line) : line[n] # "LF"

\* A call of rio_readlineb has ended.
LineClosed ==
  rc = "line" =>
    /\ usrbuf # <<>> /\ Len(usrbuf) < MAXLINE
    /\ \A n \in 1 .. Len(usrbuf) - 1 : usrbuf[n] # "LF"
    /\ \/ Last(usrbuf) = "LF" \/ Len(usrbuf) = MAXLINE - 1
       \/ gone = "closed" /\ taken = sent /\ rio_buf = <<>>

\* and a call that has copied nothing, or failed, means that the client is gone.
EndMeansGone == /\ rc = "eof" => gone = "closed"
                /\ rc = "error" => gone = "reset"

RioInv == RioType /\ InOrder /\ LineOpen /\ LineClosed /\ EndMeansGone

\* What a step of the server does to the reading
RioStep == \/ UNCHANGED <<client, rio>>
           \/ Send \/ Leave \/ Reading
           \/ Connects /\ rio_readinitb /\ rio_readlineb(<<>>)
           \/ NoClient /\ NoRio
           \/ /\ \E buf \in Streams : rio_readlineb(buf)
              /\ UNCHANGED <<client, taken, rio_buf, copied>>

-----------------------------------------------------------------------------
(* What is known of the server where it is. *)

Labels == {"socket", "bind", "listen", "accept", "request", "headers", "stat", "write", "open",
           "mmap", "munmap", "fork", "wait", "close"}
Serving == pc \notin {"socket", "bind", "listen", "accept"}

TypeOK == /\ RioType
          /\ pc \in Labels
          /\ exited \in {"no", "exit", "SIGPIPE"}
          /\ p \in Nat
          /\ backlog \in Seq(Clients) /\ conn \in Clients \cup {"none"} /\ done \subseteq Clients
          /\ fds \subseteq {"listen", "connection", "file"} /\ mapped \in BOOLEAN
          /\ child \in {"none", "forked", "adder", "zombie"}
          /\ Serving => conn \in Clients
          /\ pc = "write" => after \in {"close", "open", "fork", "munmap"}

\* The descriptors that are open, what is mapped and the child belong to the
\* place that the server is at.
Descriptors == CASE pc = "socket" -> {}
                 [] pc \in {"bind", "listen", "accept"} -> {"listen"}
                 [] pc = "mmap" -> {"listen", "connection", "file"}
                 [] OTHER -> {"listen", "connection"}

Resources == /\ fds = Descriptors
             /\ mapped <=> pc = "munmap" \/ (pc = "write" /\ after = "munmap")
             /\ child # "none" <=> pc = "wait"

\* The first line is read from the beginning of the request.
FirstLine == pc = "request" => /\ rc \in {"reading", "line", "eof", "error"}
                               /\ rc = "reading" => copied = line
                               /\ rc = "line" => copied = usrbuf

\* What AnsweredAsAsked is about, and what it wants
Asked == Serving /\ gone = "no" /\ request[2] # "CR"
Expected == IF request[1] \in {"GET", "get"} THEN Answers(request[2]) ELSE Page("501")

Static(u) == IsThere(u) /\ Allowed(u) /\ is_static(u)
Dynamic(u) == IsThere(u) /\ Allowed(u) /\ ~ is_static(u)
StaticHeader(u) == <<"200", "Content-length", get_filetype(filename(u))>>
DynamicHeader == <<"200", "Server">>

\* The answer that has been written when the server goes to the label
Written(sofar, label) ==
  /\ label = "close" => sofar \in Expected
  /\ label \in {"open", "mmap"} => Static(uri) /\ sofar = StaticHeader(uri)
  /\ label = "munmap" => Static(uri) /\ sofar = StaticHeader(uri) \o Files[filename(uri)].body
  /\ label = "fork" => Dynamic(uri) /\ sofar = DynamicHeader

Answered ==
  /\ pc \in {"request", "headers", "stat"} => out = <<>>
  /\ \/ pc \notin {"request", "write", "close"}
     \/ pc = "write" /\ after # "close"
     => uri = request[2] /\ request[1] \in {"GET", "get"}
  /\ pc # "write" => Written(out, pc)
  /\ pc = "write" => /\ out \in Streams /\ todo \in Streams
                     /\ Written(out \o todo, after)
  /\ pc = "wait" => /\ Dynamic(uri)
                    /\ IF child = "zombie" THEN out \in Expected ELSE out = DynamicHeader

Answering == Asked => Answered

IInv == /\ TypeOK /\ RioInv /\ Resources
        /\ Serving => request \in Requests
        /\ FirstLine /\ Answering

-----------------------------------------------------------------------------
\* Short sequences
LEMMA Tuples ==
  ASSUME NEW S, NEW a \in S, NEW b \in S, NEW c \in S, NEW d \in S
  PROVE  <<a, b>> \in Seq(S) /\ <<a, b, c>> \in Seq(S) /\ <<a, b, c, d>> \in Seq(S)
OBVIOUS

\* Every nonempty set of numbers has a least one.
LEMMA LeastNumber ==
  ASSUME NEW S, S \subseteq Nat, S # {}
  PROVE  Min(S) \in S /\ \A m \in S : Min(S) <= m
<1> DEFINE R == OpToRel(<, Nat)
<1>1. IsWellFoundedOn(R, Nat)
  BY NatLessThanWellFounded
<1>2. PICK n \in S : \A m \in S : ~ (<<m, n>> \in R)
  BY <1>1, WFMin, Zenon
<1>3. \A m \in S : ~ (m < n)
  BY <1>2 DEF OpToRel
<1>4. n \in S /\ \A m \in S : n <= m
  BY <1>3
<1> QED
  BY <1>4 DEF Min

\* What rio_readlineb copies before it comes to an end of its own or the
\* buffer's
LEMMA LineBytesEnds ==
  ASSUME RioType, LineOpen, rc = "reading", rio_buf # <<>>
  PROVE  /\ LineBytes \in 1 .. Len(rio_buf)
         /\ Len(line) + LineBytes <= MAXLINE - 1
         /\ \A m \in 1 .. LineBytes - 1 : rio_buf[m] # "LF"
         /\ \/ LineBytes = Len(rio_buf) \/ Len(line) + LineBytes = MAXLINE - 1
            \/ rio_buf[LineBytes] = "LF"
<1> DEFINE LF == {m \in DOMAIN rio_buf : rio_buf[m] = "LF"}
           S == LF \cup {Len(rio_buf), MAXLINE - 1 - Len(line)}
<1>1. /\ Len(rio_buf) \in Nat \ {0} /\ DOMAIN rio_buf = 1 .. Len(rio_buf)
      /\ Len(line) \in Nat /\ Len(line) < MAXLINE - 1 /\ MAXLINE \in Nat
  BY RioAssumption, LenProperties, EmptySeq DEF RioType, LineOpen, Streams
<1>2. S \subseteq Nat \ {0} /\ S # {}
  BY <1>1
<1>3. LineBytes = Min(S)
  BY DEF LineBytes
<1>4. LineBytes \in S /\ \A m \in S : LineBytes <= m
  BY <1>2, <1>3, LeastNumber
<1> QED
  BY <1>1, <1>2, <1>4

-----------------------------------------------------------------------------
(* The reading. *)

LEMMA RefillKeeps == RioInv /\ Refill => RioInv'
<1> SUFFICES ASSUME RioInv, Refill PROVE RioInv'
  OBVIOUS
<1> USE DEF RioInv, Streams
<1>1. PICK n \in 1 .. RIO_BUFSIZE :
        /\ n <= sent - taken /\ taken' = taken + n
        /\ rio_buf' = SubSeq(request, taken + 1, taken + n)
  BY DEF Refill
<1>2. /\ n \in Nat /\ n > 0 /\ taken \in Nat /\ sent \in Nat /\ taken <= sent /\ sent <= Len(request)
      /\ Len(request) \in Nat
  BY <1>1, RioAssumption, LenProperties DEF RioType
<1>3. \A i \in taken + 1 .. taken + n : request[i] \in Symbols
  BY <1>1, <1>2, ElementOfSeq DEF RioType
<1>4. rio_buf' \in Streams
  BY <1>1, <1>2, <1>3, SubSeqProperties
<1>5. RioType'
  BY <1>1, <1>2, <1>4 DEF RioType, Refill, client
<1>6. copied = SubSeq(request, 1, taken)
  BY ConcatEmptySeq DEF Refill, InOrder, RioType
<1>7. SubSeq(request, 1, taken) \o rio_buf' = SubSeq(request, 1, taken + n)
  BY <1>1, <1>2, ConcatAdjacentSubSeq DEF RioType
<1>8. InOrder'
  BY <1>1, <1>6, <1>7 DEF InOrder, Refill, client
<1> QED
  BY <1>5, <1>8 DEF LineOpen, LineClosed, EndMeansGone, Refill, client

LEMMA CopyKeeps == RioInv /\ Copy => RioInv'
<1> SUFFICES ASSUME RioInv, Copy PROVE RioInv'
  OBVIOUS
<1> USE DEF RioInv, Streams
<1> DEFINE n == LineBytes
           got == SubSeq(rio_buf, 1, n)
<1>1. /\ line' = line \o got /\ copied' = copied \o got
      /\ rio_buf' = SubSeq(rio_buf, n + 1, Len(rio_buf))
      /\ rc = "reading" /\ rio_buf # <<>>
      /\ UNCHANGED <<client, taken>>
      /\ IF Len(line') = MAXLINE - 1 \/ Last(line') = "LF"
         THEN rc' = "line" /\ usrbuf' = line' ELSE UNCHANGED <<rc, usrbuf>>
  BY DEF Copy, Rest
<1>2. /\ n \in 1 .. Len(rio_buf) /\ Len(line) + n <= MAXLINE - 1
      /\ \A m \in 1 .. n - 1 : rio_buf[m] # "LF"
  BY <1>1, LineBytesEnds
<1> HIDE DEF n
<1>3. /\ Len(rio_buf) \in Nat /\ Len(line) \in Nat /\ MAXLINE \in Nat
      /\ \A i \in 1 .. Len(rio_buf) : rio_buf[i] \in Symbols
  BY RioAssumption, LenProperties, ElementOfSeq DEF RioType
<1>4. /\ got \in Streams /\ Len(got) = n
      /\ \A i \in 1 .. n : got[i] = rio_buf[i]
  BY <1>2, <1>3, SubSeqProperties
<1> HIDE DEF got
<1>5. rio_buf' \in Streams
  BY <1>1, <1>2, <1>3, SubSeqProperties
<1>6. /\ line' \in Streams /\ Len(line') = Len(line) + n
      /\ \A i \in 1 .. Len(line) + n :
           line'[i] = IF i <= Len(line) THEN line[i] ELSE got[i - Len(line)]
  BY <1>1, <1>4, ConcatProperties DEF RioType
<1>7. copied' \in Streams
  BY <1>1, <1>4, ConcatProperties DEF RioType
<1>8. \A i \in 1 .. Len(line') - 1 : line'[i] # "LF"
  <2> SUFFICES ASSUME NEW i \in 1 .. Len(line') - 1 PROVE line'[i] # "LF"
    OBVIOUS
  <2>1. i \in 1 .. Len(line) + n
    BY <1>2, <1>3, <1>6
  <2>2. CASE i <= Len(line)
    BY <1>1, <1>3, <1>6, <2>1, <2>2 DEF LineOpen
  <2>3. CASE i > Len(line)
    <3>1. i - Len(line) \in 1 .. n - 1
      BY <1>2, <1>3, <1>6, <2>1, <2>3
    <3>2. line'[i] = got[i - Len(line)]
      BY <1>3, <1>6, <2>1, <2>3
    <3>3. i - Len(line) \in 1 .. n
      BY <1>2, <1>3, <3>1
    <3> QED
      BY <1>2, <1>4, <3>1, <3>2, <3>3
  <2> QED
    BY <1>3, <2>1, <2>2, <2>3
<1>9. RioType'
  BY <1>1, <1>5, <1>6, <1>7 DEF RioType, client
<1>10. InOrder'
  <2> HIDE DEF RioInv
  <2>0. copied \in Seq(Symbols) /\ got \in Seq(Symbols) /\ rio_buf' \in Seq(Symbols)
    BY <1>4, <1>5 DEF RioType, RioInv
  <2>1. (copied \o got) \o rio_buf' = copied \o (got \o rio_buf')
    BY <2>0, ConcatAssociative
  <2>2. got \o rio_buf' = SubSeq(rio_buf, 1, Len(rio_buf))
    <3>1. n \in 1 - 1 .. Len(rio_buf) /\ Len(rio_buf) \in n .. Len(rio_buf) /\ 1 \in 1 .. Len(rio_buf) + 1
      BY <1>2, <1>3
    <3>2. rio_buf \in Seq(Symbols)
      BY DEF RioType, RioInv
    <3>3. SubSeq(rio_buf, 1, n) \o SubSeq(rio_buf, n + 1, Len(rio_buf)) = SubSeq(rio_buf, 1, Len(rio_buf))
      BY <3>1, <3>2, ConcatAdjacentSubSeq
    <3> QED
      BY <1>1, <3>3 DEF got
  <2>3. got \o rio_buf' = rio_buf
    BY <2>2, SubSeqFull DEF RioType, RioInv
  <2> QED
    BY <1>1, <2>1, <2>3 DEF InOrder, client, RioInv
<1>11. LineOpen'
  <2> SUFFICES ASSUME rc' = "reading"
               PROVE  Len(line') < MAXLINE - 1 /\ \A i \in 1 .. Len(line') : line'[i] # "LF"
    BY DEF LineOpen
  <2>1. Len(line') # MAXLINE - 1 /\ line'[Len(line')] # "LF"
    BY <1>1 DEF Last
  <2>2. Len(line') \in Nat /\ Len(line') < MAXLINE - 1
    <3>1. Len(line) + n <= MAXLINE - 1 /\ n \in Nat /\ Len(line) \in Nat /\ MAXLINE \in Nat
      BY <1>2, <1>3
    <3>2. Len(line') = Len(line) + n /\ Len(line') # MAXLINE - 1
      BY <1>6, <2>1
    <3> QED
      BY <3>1, <3>2
  <2>3. \A i \in 1 .. Len(line') : i = Len(line') \/ i \in 1 .. Len(line') - 1
    BY <2>2
  <2> QED
    BY <1>8, <2>1, <2>2, <2>3
<1>12. LineClosed'
  <2> SUFFICES ASSUME rc' = "line"
               PROVE  /\ usrbuf' # <<>> /\ Len(usrbuf') < MAXLINE
                      /\ \A i \in 1 .. Len(usrbuf') - 1 : usrbuf'[i] # "LF"
                      /\ Last(usrbuf') = "LF" \/ Len(usrbuf') = MAXLINE - 1
    BY DEF LineClosed
  <2>1. usrbuf' = line' /\ (Len(line') = MAXLINE - 1 \/ Last(line') = "LF")
    BY <1>1
  <2>2. Len(line') < MAXLINE /\ Len(line') > 0
    BY <1>2, <1>3, <1>6
  <2>3. line' # <<>>
    BY <2>2, EmptySeq
  <2> QED
    BY <1>8, <2>1, <2>2, <2>3
<1>13. EndMeansGone'
  BY <1>1 DEF EndMeansGone, client
<1> QED
  BY <1>9, <1>10, <1>11, <1>12, <1>13

\* The inductive invariant of the reading
LEMMA RioKeeps == RioInv /\ RioStep => RioInv'
<1> SUFFICES ASSUME RioInv, RioStep PROVE RioInv'
  OBVIOUS
<1> USE DEF RioInv, Streams
<1>1. CASE UNCHANGED <<client, rio>>
  BY <1>1 DEF client, rio, RioType, InOrder, LineOpen, LineClosed, EndMeansGone
<1>2. CASE Send \/ Leave
  <2>1. /\ UNCHANGED <<request, taken, rio_buf, line, rc, usrbuf, copied>>
        /\ gone = "no" /\ gone' \in {"no", "closed", "reset"} /\ sent' \in sent .. Len(request)
    BY <1>2, LenProperties DEF Send, Leave, RioType, rio
  <2>2. Len(request) \in Nat
    BY LenProperties DEF RioType
  <2>3. RioType'
    BY <2>1, <2>2 DEF RioType
  <2> QED
    BY <2>1, <2>3 DEF InOrder, LineOpen, LineClosed, EndMeansGone
<1>3. CASE AtEnd
  <2>1. RioType'
    BY <1>3 DEF AtEnd, EndOfFile, RioType, client
  <2>2. LineClosed'
    <3>1. CASE line = <<>>
      BY <1>3, <3>1 DEF AtEnd, EndOfFile, LineClosed
    <3>2. CASE line # <<>>
      <4>1. Len(line) \in Nat /\ Len(line) < MAXLINE - 1 /\ MAXLINE \in Nat
        BY <1>3, RioAssumption, LenProperties DEF AtEnd, LineOpen, RioType
      <4> QED
        BY <1>3, <3>2, <4>1 DEF AtEnd, EndOfFile, LineClosed, LineOpen, client
    <3> QED
      BY <3>1, <3>2
  <2> QED
    BY <1>3, <2>1, <2>2 DEF AtEnd, EndOfFile, InOrder, LineOpen, EndMeansGone, client
<1>4. CASE ReadFails
  BY <1>4 DEF ReadFails, RioType, InOrder, LineOpen, LineClosed, EndMeansGone, client
<1>5. CASE Connects /\ rio_readinitb /\ rio_readlineb(<<>>)
  <2>1. request' \in Streams /\ Len(request') \in Nat
    <3>1. request' \in Seq(STRING) /\ STRING \subseteq Symbols
      BY <1>5, RioAssumption DEF Connects, Symbols
    <3> QED
      BY <3>1, SeqMonotonic, LenProperties
  <2>2. <<>> \in Streams /\ Len(<<>>) = 0
    BY EmptySeq
  <2>3. RioType'
    BY <1>5, <2>1, <2>2 DEF Connects, rio_readinitb, rio_readlineb, RioType
  <2>4. InOrder'
    <3>1. SubSeq(request', 1, 0) = <<>>
      BY SubSeqEmpty
    <3> QED
      BY <1>5, <2>2, <3>1, ConcatEmptySeq DEF rio_readinitb, InOrder
  <2>5. LineOpen'
    BY <1>5, <2>2, RioAssumption DEF rio_readlineb, LineOpen
  <2> QED
    BY <1>5, <2>3, <2>4, <2>5 DEF rio_readlineb, LineClosed, EndMeansGone
<1>6. CASE NoClient /\ NoRio
  <2>1. <<>> \in Streams /\ Len(<<>>) = 0 /\ SubSeq(<<>>, 1, 0) = <<>> /\ <<>> \o <<>> = <<>>
    BY EmptySeq, SubSeqEmpty, ConcatEmptySeq
  <2>2. RioType'
    BY <1>6, <2>1 DEF NoClient, NoRio, RioType
  <2> QED
    BY <1>6, <2>1, <2>2 DEF NoClient, NoRio, InOrder, LineOpen, LineClosed, EndMeansGone
<1>7. ASSUME NEW buf \in Streams, rio_readlineb(buf), UNCHANGED <<client, taken, rio_buf, copied>>
      PROVE  RioInv'
  <2>1. <<>> \in Streams /\ Len(<<>>) = 0
    BY EmptySeq
  <2>2. RioType'
    BY <1>7, <2>1 DEF rio_readlineb, RioType, client
  <2>3. LineOpen'
    BY <1>7, <2>1, RioAssumption DEF rio_readlineb, LineOpen
  <2> QED
    BY <1>7, <2>2, <2>3 DEF rio_readlineb, InOrder, LineClosed, EndMeansGone, client
<1> QED
  BY <1>1, <1>2, <1>3, <1>4, <1>5, <1>6, <1>7, RefillKeeps, CopyKeeps DEF RioStep, Reading

-----------------------------------------------------------------------------
(* The server. *)

LEMMA TypeStart == Init => TypeOK /\ RioInv
<1> SUFFICES ASSUME Init PROVE TypeOK /\ RioInv
  OBVIOUS
<1>1. <<>> \in Streams /\ Len(<<>>) = 0 /\ SubSeq(<<>>, 1, 0) = <<>> /\ <<>> \o <<>> = <<>>
  BY EmptySeq, SubSeqEmpty, ConcatEmptySeq DEF Streams
<1>2. RioInv
  BY <1>1 DEF Init, RioInit, RioInv, RioType, InOrder, LineOpen, LineClosed, EndMeansGone
<1>3. <<>> \in Seq(Clients)
  BY EmptySeq
<1> QED
  BY <1>2, <1>3 DEF Init, RioInv, TypeOK, Labels, Serving

\* Whatever the server does, it reads as rio_readlineb does or not at all.
LEMMA StepsRead == TypeOK /\ [Next]_vars => RioStep
<1> SUFFICES ASSUME TypeOK, [Next]_vars PROVE RioStep
  OBVIOUS
<1>1. <<>> \in Streams /\ Blank \in Streams /\ usrbuf \in Streams
  <2>1. "CR" \in Symbols /\ "LF" \in Symbols
    BY DEF Symbols
  <2>2. <<"CR", "LF">> \in Seq(Symbols)
    BY <2>1, Tuples
  <2> QED
    BY <2>2, EmptySeq DEF Streams, Blank, TypeOK, RioType
<1>2. CASE UNCHANGED vars
  BY <1>2 DEF vars, RioStep
<1>3. CASE Socket \/ Bind \/ Listen \/ ReadError \/ NoRequest \/ StatFile
  BY <1>3 DEF Socket, Bind, Listen, ReadError, NoRequest, StatFile, End, clienterror, Writes, Goto,
              RioStep
<1>4. CASE Accept \/ Close
  BY <1>4 DEF Accept, Close, RioStep
<1>5. CASE ReadStep \/ Sends \/ Leaves
  BY <1>5 DEF ReadStep, Sends, Leaves, RioStep
<1>6. CASE RequestLine \/ Headers
  BY <1>1, <1>6 DEF RequestLine, Headers, clienterror, Writes, Goto, RioStep, client
<1>7. CASE Write \/ Open \/ MapFile \/ UnmapFile \/ Fork \/ Wait
  BY <1>7 DEF Write, Open, MapFile, UnmapFile, Fork, Wait, End, Goto, RioStep
<1>8. CASE Child
  BY <1>8 DEF Child, Execve, Adder, Prints, ChildBecomes, RioStep
<1>9. CASE \E c \in Clients : Connect(c)
  BY <1>9 DEF Connect, RioStep
<1> QED
  BY <1>2, <1>3, <1>4, <1>5, <1>6, <1>7, <1>8, <1>9 DEF Next, Serve

LEMMA TypeStep == TypeOK /\ RioType' /\ [Next]_vars => TypeOK'
<1> SUFFICES ASSUME TypeOK, RioType', [Next]_vars PROVE TypeOK'
  OBVIOUS
<1> USE DEF TypeOK, Labels, Serving
<1>1. \A b \in Seq(Clients) : \A c \in Clients : Append(b, c) \in Seq(Clients)
  BY AppendProperties
<1>2. \A b \in Seq(Clients) : b # <<>> => Head(b) \in Clients /\ Tail(b) \in Seq(Clients)
  BY HeadTailProperties
<1>3. CASE UNCHANGED vars
  BY <1>3 DEF vars, server
<1>4. CASE Socket
  <2>1. p + 1 \in Nat
    OBVIOUS
  <2> QED
    BY <1>4, <2>1 DEF Socket, End, At
<1>15. CASE Bind \/ Listen
  <2>1. p + 1 \in Nat
    OBVIOUS
  <2> QED
    BY <1>15, <2>1 DEF Bind, Listen, End, At
<1>5. CASE Accept
  BY <1>2, <1>5 DEF Accept, At
<1>6. CASE Close
  BY <1>6 DEF Close, At
<1>7. CASE ReadStep \/ Sends \/ Leaves
  BY <1>7 DEF ReadStep, Sends, Leaves, server
<1>8. CASE ReadError \/ NoRequest
  BY <1>8 DEF ReadError, NoRequest, End, Goto, At
<1>9. CASE RequestLine \/ Headers
  BY <1>9 DEF RequestLine, Headers, clienterror, Writes, Goto, At
<1>10. CASE StatFile
  BY <1>10 DEF StatFile, clienterror, Writes, Goto, At
<1>11. CASE Write
  BY <1>11 DEF Write, Goto, End, At
<1>12. CASE Open \/ MapFile \/ UnmapFile \/ Fork \/ Wait
  BY <1>12 DEF Open, MapFile, UnmapFile, Fork, Wait, End, At
<1>13. CASE Child
  BY <1>13 DEF Child, Execve, Adder, Prints, ChildBecomes
<1>14. CASE \E c \in Clients : Connect(c)
  BY <1>1, <1>14 DEF Connect
<1> QED
  BY <1>3, <1>4, <1>5, <1>6, <1>7, <1>8, <1>9, <1>10, <1>11, <1>12, <1>13, <1>14, <1>15 DEF Next, Serve

\* What a step opens, maps or forks, it accounts for with where it goes.
LEMMA ResourcesStep == TypeOK /\ Resources /\ [Next]_vars => Resources'
<1> SUFFICES ASSUME TypeOK, Resources, [Next]_vars PROVE Resources'
  OBVIOUS
<1> USE DEF Resources, Descriptors
<1>1. pc \in Labels /\ mapped \in BOOLEAN
      /\ (pc = "write" => after \in {"close", "open", "fork", "munmap"})
  BY DEF TypeOK
<1>3. CASE UNCHANGED vars
  BY <1>3 DEF vars, server
<1>4. CASE Socket \/ Bind \/ Listen
  BY <1>4 DEF Socket, Bind, Listen, End, At
<1>5. CASE Accept
  BY <1>5 DEF Accept, At
<1>6. CASE Close
  BY <1>6 DEF Close, At
<1>7. CASE ReadStep \/ Sends \/ Leaves
  BY <1>7 DEF ReadStep, Sends, Leaves, server
<1>8. CASE ReadError \/ NoRequest
  BY <1>8 DEF ReadError, NoRequest, End, Goto, At
<1>9. CASE RequestLine \/ Headers
  BY <1>9 DEF RequestLine, Headers, clienterror, Writes, Goto, At
<1>10. CASE StatFile
  <2>1. pc = "stat" /\ pc' = "write" /\ after' \in {"close", "open", "fork"}
    BY <1>10 DEF StatFile, clienterror, Writes, Goto, At
  <2>2. UNCHANGED <<fds, mapped, child>>
    BY <1>10 DEF StatFile, clienterror, Writes, Goto
  <2> QED
    BY <2>1, <2>2
<1>11. CASE Write
  BY <1>1, <1>11 DEF Write, Goto, End, At
<1>12. CASE Open \/ MapFile \/ UnmapFile \/ Fork \/ Wait
  BY <1>12 DEF Open, MapFile, UnmapFile, Fork, Wait, Reaped, End, At
<1>13. CASE Child
  BY <1>13 DEF Child, Execve, Adder, Prints, ChildBecomes
<1>14. CASE \E c \in Clients : Connect(c)
  BY <1>14 DEF Connect
<1> QED
  BY <1>3, <1>4, <1>5, <1>6, <1>7, <1>8, <1>9, <1>10, <1>11, <1>12, <1>13, <1>14 DEF Next, Serve

-----------------------------------------------------------------------------
(* The answers. *)

LEMMA RequestStep ==
  ASSUME TypeOK, Serving => request \in Requests, [Next]_vars, Serving'
  PROVE  request' \in Requests
<1>1. CASE Accept
  BY <1>1 DEF Accept, Connects
<1>2. CASE Serving /\ UNCHANGED request
  BY <1>2
<1>3. CASE UNCHANGED vars
  BY <1>3 DEF vars, server, client, Serving
<1>4. CASE Socket \/ Bind \/ Listen \/ Close
  BY <1>4 DEF Socket, Bind, Listen, Close, End, At, Serving, client
<1>5. CASE ReadStep \/ Sends \/ Leaves
  BY <1>5 DEF ReadStep, Reading, Refill, Copy, AtEnd, ReadFails, Sends, Send, Leaves, Leave,
              server, client, Serving
<1>6. CASE ReadError \/ NoRequest \/ RequestLine \/ Headers \/ StatFile
  BY <1>2, <1>6 DEF ReadError, NoRequest, RequestLine, Headers, StatFile, End, clienterror, Writes,
                    Goto, At, Serving, client
<1>7. CASE Write \/ Open \/ MapFile \/ UnmapFile \/ Fork \/ Wait
  BY <1>2, <1>7 DEF Write, Open, MapFile, UnmapFile, Fork, Wait, End, Goto, At, Serving, client
<1>8. CASE Child \/ \E c \in Clients : Connect(c)
  BY <1>8 DEF Child, Execve, Adder, Prints, ChildBecomes, Connect, Serving, client
<1> QED
  BY <1>1, <1>3, <1>4, <1>5, <1>6, <1>7, <1>8 DEF Next, Serve

LEMMA FirstLineStep == TypeOK /\ FirstLine /\ [Next]_vars => FirstLine'
<1> SUFFICES ASSUME TypeOK, FirstLine, [Next]_vars, pc' = "request"
             PROVE  /\ rc' \in {"reading", "line", "eof", "error"}
                    /\ rc' = "reading" => copied' = line'
                    /\ rc' = "line" => copied' = usrbuf'
  BY DEF FirstLine
<1>1. CASE Accept
  BY <1>1 DEF Accept, rio_readinitb, rio_readlineb
<1>2. CASE pc = "request" /\ UNCHANGED rio
  BY <1>2 DEF FirstLine, rio
<1>3. CASE UNCHANGED vars
  BY <1>2, <1>3 DEF vars, server
<1>4. CASE Socket \/ Bind \/ Listen \/ Close
  BY <1>2, <1>4 DEF Socket, Bind, Listen, Close, End
<1>5. CASE ReadStep
  BY <1>5 DEF ReadStep, Reading, Refill, Copy, AtEnd, EndOfFile, ReadFails, server, FirstLine
<1>6. CASE Sends \/ Leaves
  BY <1>2, <1>6 DEF Sends, Send, Leaves, Leave, server
<1>7. CASE ReadError \/ NoRequest \/ RequestLine \/ Headers \/ StatFile
  BY <1>2, <1>7 DEF ReadError, NoRequest, RequestLine, Headers, StatFile, End, clienterror, Writes, Goto
<1>8. CASE Write \/ Open \/ MapFile \/ UnmapFile \/ Fork \/ Wait
  <2>1. pc = "write" => after # "request"
    BY DEF TypeOK
  <2> QED
    BY <1>2, <1>8, <2>1 DEF Write, Open, MapFile, UnmapFile, Fork, Wait, End, Goto, At
<1>9. CASE Child \/ \E c \in Clients : Connect(c)
  BY <1>2, <1>9 DEF Child, Execve, Adder, Prints, ChildBecomes, Connect
<1> QED
  BY <1>1, <1>3, <1>4, <1>5, <1>6, <1>7, <1>8, <1>9 DEF Next, Serve

\* The first two words of the line are those of the request.
LEMMA LineIsRequest ==
  ASSUME IInv, Asked, pc = "request", rc = "line"
  PROVE  Held(1) = {request[1]} /\ Held(2) = {request[2]}
<1> DEFINE size == Len(usrbuf)
<1>1. /\ size \in Nat /\ DOMAIN usrbuf = 1 .. size
      /\ taken \in Nat /\ taken <= Len(request) /\ Len(request) \in Nat /\ MAXLINE \in Nat
  BY LenProperties, RioAssumption DEF IInv, TypeOK, RioType, Streams
<1>2. request[1] \notin {"CR", "LF"} /\ request[2] \notin {"CR", "LF"}
  BY TinyAssumption DEF IInv, Asked
<1>3. \A i \in 1 .. size : usrbuf[i] = request[i]
  <2> SUFFICES ASSUME NEW i \in 1 .. size PROVE usrbuf[i] = request[i]
    OBVIOUS
  <2>1. usrbuf \in Seq(Symbols) /\ rio_buf \in Seq(Symbols) /\ request \in Seq(Symbols)
    BY DEF IInv, TypeOK, RioType, Streams
  <2>2. usrbuf \o rio_buf = SubSeq(request, 1, taken)
    BY DEF IInv, FirstLine, RioInv, InOrder
  <2>3. Len(rio_buf) \in Nat /\ Len(usrbuf \o rio_buf) = size + Len(rio_buf)
    BY <2>1, ConcatProperties, LenProperties
  <2>4. (usrbuf \o rio_buf)[i] = usrbuf[i]
    BY <1>1, <2>1, <2>3, ConcatProperties
  <2>5. \A j \in 1 .. taken : request[j] \in Symbols
    BY <1>1, <2>1, ElementOfSeq
  <2>6. /\ Len(SubSeq(request, 1, taken)) = IF 1 <= taken THEN taken - 1 + 1 ELSE 0
        /\ \A j \in 1 .. taken - 1 + 1 : SubSeq(request, 1, taken)[j] = request[1 + j - 1]
    BY <1>1, <2>5, SubSeqProperties
  <2>7. i \in 1 .. taken - 1 + 1 /\ 1 + i - 1 = i
    BY <1>1, <2>2, <2>3, <2>6
  <2> QED
    BY <2>2, <2>4, <2>6, <2>7
<1>4. size > 1
  <2>1. usrbuf # <<>> /\ (usrbuf[size] = "LF" \/ size = MAXLINE - 1)
    BY DEF IInv, RioInv, LineClosed, Asked, Last
  <2>2. size # 0
    BY <2>1, EmptySeq DEF IInv, TypeOK, RioType, Streams
  <2>3. size # 1
    BY <1>1, <1>2, <1>3, <2>1, RioAssumption
  <2> QED
    BY <1>1, <2>2, <2>3
<1>5. 1 \in Words /\ 2 \in Words
  BY <1>1, <1>2, <1>3, <1>4 DEF Words
<1>6. Words \cap 1 .. 1 = {1} /\ Words \cap 1 .. 2 = {1, 2}
  BY <1>5
<1>7. Cardinality(Words \cap 1 .. 1) = 1 /\ Cardinality(Words \cap 1 .. 2) = 2
  <2>1. Cardinality({1}) = 1 /\ Cardinality({1, 2}) = 2
    <3>1. IsFiniteSet({1}) /\ Cardinality({1}) = 1
      BY FS_Singleton
    <3>2. Cardinality({1} \cup {2}) = 1 + 1
      BY <3>1, FS_AddElement
    <3> QED
      BY <3>1, <3>2
  <2> QED
    BY <1>6, <2>1
<1>8. \A j \in Words : j > 2 => Cardinality(Words \cap 1 .. j) > 2
  <2> SUFFICES ASSUME NEW j \in Words, j > 2 PROVE Cardinality(Words \cap 1 .. j) > 2
    OBVIOUS
  <2>1. j \in Nat
    BY <1>1 DEF Words
  <2>2. IsFiniteSet(1 .. j)
    BY <2>1, FS_Interval
  <2>3. IsFiniteSet(Words \cap 1 .. j)
    BY <2>2, FS_Intersection
  <2>4. Words \cap 1 .. 2 \subseteq Words \cap 1 .. j /\ j \in Words \cap 1 .. j /\ j \notin Words \cap 1 .. 2
    BY <2>1
  <2>5. Cardinality(Words \cap 1 .. 2) < Cardinality(Words \cap 1 .. j)
    BY <2>3, <2>4, FS_Subset, FS_CardinalityType, SMTT(60)
  <2> QED
    BY <1>7, <2>5
<1>9. \A j \in Words : j = 1 \/ j = 2 \/ j > 2
  BY <1>1 DEF Words
<1>10. Word(1) = {usrbuf[1]} /\ Word(2) = {usrbuf[2]}
  <2>1. {j \in Words : Cardinality(Words \cap 1 .. j) = 1} = {1}
    <3>1. \A j \in Words : j # 1 => Cardinality(Words \cap 1 .. j) # 1
      BY <1>7, <1>8, <1>9
    <3> QED
      BY <1>5, <1>7, <3>1
  <2>2. {j \in Words : Cardinality(Words \cap 1 .. j) = 2} = {2}
    BY <1>5, <1>7, <1>8, <1>9
  <2> QED
    BY <2>1, <2>2 DEF Word
<1> QED
  BY <1>1, <1>3, <1>4, <1>10 DEF Held

\* What the answers are when there is something to send
LEMMA AnswersOf ==
  ASSUME NEW u
  PROVE  /\ Static(u) => Answers(u) = {StaticHeader(u) \o Files[filename(u)].body}
         /\ Dynamic(u) =>
              /\ \A content \in {<<>>, <<"log">>} : DynamicHeader \o content \in Answers(u)
              /\ Uris[u].args # <<>> => DynamicHeader \o Body(Uris[u].args) \in Answers(u)
         /\ ~ IsThere(u) => Answers(u) = Page("404")
         /\ IsThere(u) /\ ~ Allowed(u) => Answers(u) = Page("403")
<1> DEFINE contents == {<<>>, <<"log">>} \cup
                       IF Uris[u].args = <<>> THEN {} ELSE {Body(Uris[u].args)}
<1>1. Dynamic(u) => Answers(u) = {DynamicHeader \o content : content \in contents}
  BY DEF Dynamic, Answers, DynamicHeader, Allowed
<1>2. /\ \A content \in {<<>>, <<"log">>} : content \in contents
      /\ Uris[u].args # <<>> => Body(Uris[u].args) \in contents
  OBVIOUS
<1> HIDE DEF contents
<1>3. Dynamic(u) => \A content \in contents : DynamicHeader \o content \in Answers(u)
  BY <1>1
<1>4. Dynamic(u) =>
        /\ \A content \in {<<>>, <<"log">>} : DynamicHeader \o content \in Answers(u)
        /\ Uris[u].args # <<>> => DynamicHeader \o Body(Uris[u].args) \in Answers(u)
  BY <1>2, <1>3, Zenon
<1> QED
  BY <1>4 DEF Static, Answers, StaticHeader, Allowed

\* The headers are sequences of the symbols.
LEMMA Headings ==
  /\ \A u : StaticHeader(u) \in Streams
  /\ DynamicHeader \in Streams
  /\ \A errnum \in {"403", "404", "501"} :
       <<errnum, "Content-type", "Content-length", "error page">> \in Streams
<1>1. \A u : get_filetype(filename(u)) \in Symbols
  BY DEF get_filetype, Symbols
<1>2. {"200", "403", "404", "501", "Content-length", "Content-type", "Server", "error page"} \subseteq Symbols
  BY DEF Symbols
<1>3. \A a, b, c, d \in Symbols :
        <<a, b>> \in Streams /\ <<a, b, c>> \in Streams /\ <<a, b, c, d>> \in Streams
  BY Tuples DEF Streams
<1> QED
  BY <1>1, <1>2, <1>3 DEF StaticHeader, DynamicHeader

LEMMA AnsweringStep ==
  ASSUME IInv, [Next]_vars
  PROVE  Answering'
<1> SUFFICES ASSUME Asked' PROVE Answered'
  BY DEF Answering
<1>1. /\ pc \in Labels /\ (Asked => Answered)
      /\ pc = "write" => after \in {"close", "open", "fork", "munmap"}
      /\ child # "none" <=> pc = "wait"
      /\ child \in {"none", "forked", "adder", "zombie"}
  BY DEF IInv, Answering, TypeOK, Resources
<1>2. ASSUME UNCHANGED <<pc, todo, after, uri, child, out>>, Asked, request' = request
      PROVE  Answered'
  BY <1>1, <1>2 DEF Answered, Written, Expected
<1>3. CASE UNCHANGED vars
  BY <1>2, <1>3 DEF vars, server, client, Asked, Serving
<1>4. CASE ReadStep \/ Sends \/ Leaves
  BY <1>2, <1>4 DEF ReadStep, Reading, Refill, Copy, AtEnd, ReadFails, Sends, Send, Leaves, Leave,
                    server, client, Asked, Serving
<1>5. CASE \E c \in Clients : Connect(c)
  BY <1>2, <1>5 DEF Connect, client, Asked, Serving
<1>6. CASE Socket \/ Bind \/ Listen
  BY <1>6 DEF Socket, Bind, Listen, End, At, Asked, Serving
<1>7. CASE Close
  BY <1>7 DEF Close, Asked, Serving
<1>8. CASE Accept
  BY <1>8 DEF Accept, Answered, Written
<1>9. CASE ReadError \/ NoRequest
  BY <1>2, <1>9 DEF ReadError, NoRequest, End, Goto, At, client, Asked, Serving, IInv, RioInv, EndMeansGone
<1>10. CASE RequestLine
  <2>1. Asked /\ Answered /\ pc = "request" /\ rc = "line"
    BY <1>1, <1>10 DEF RequestLine, clienterror, Writes, Goto, At, client, Asked, Serving
  <2>2. Held(1) = {request[1]} /\ Held(2) = {request[2]}
    BY <2>1, LineIsRequest
  <2>3. out = <<>> /\ request' = request /\ out' = out
    BY <1>10, <2>1 DEF Answered, RequestLine, clienterror, Writes, Goto, client
  <2>4. CASE request[1] \notin {"GET", "get"}
    <3>1. /\ pc' = "write" /\ after' = "close"
          /\ todo' = <<"501", "Content-type", "Content-length", "error page">>
      BY <1>10, <2>2, <2>4 DEF RequestLine, clienterror, Writes, Goto
    <3>2. todo' \in Streams /\ out' \in Streams /\ out' \o todo' = todo'
      BY <2>3, <3>1, Headings, EmptySeq, ConcatEmptySeq DEF Streams
    <3> QED
      BY <2>3, <2>4, <3>1, <3>2 DEF Answered, Written, Expected, Page
  <2>5. CASE request[1] \in {"GET", "get"}
    <3>1. pc' = "headers" /\ uri' = request[2]
      BY <1>10, <2>2, <2>5 DEF RequestLine, Goto
    <3> QED
      BY <2>3, <2>5, <3>1 DEF Answered, Written
  <2> QED
    BY <2>4, <2>5
<1>11. CASE Headers
  <2>1. Asked /\ Answered /\ pc = "headers" /\ pc' \in {"headers", "stat"}
    BY <1>1, <1>11 DEF Headers, Goto, At, client, Asked, Serving
  <2>2. UNCHANGED <<request, uri, out>>
    BY <1>11 DEF Headers, Goto, client
  <2> QED
    BY <2>1, <2>2 DEF Answered, Written
<1>12. CASE StatFile
  <2>1. Asked /\ Answered /\ pc = "stat" /\ pc' = "write"
    BY <1>1, <1>12 DEF StatFile, clienterror, Writes, Goto, At, client, Asked, Serving
  <2>2. UNCHANGED <<request, uri, out>>
    BY <1>12 DEF StatFile, clienterror, Writes, Goto, client
  <2>3. out = <<>> /\ uri = request[2] /\ request[1] \in {"GET", "get"} /\ Expected' = Answers(uri)
    BY <2>1, <2>2 DEF Answered, Expected
  <2>4. /\ todo' \in Streams
        /\ after' = "close" => todo' \in Answers(uri)
        /\ after' = "open" => Static(uri) /\ todo' = StaticHeader(uri)
        /\ after' = "fork" => Dynamic(uri) /\ todo' = DynamicHeader
        /\ after' \in {"close", "open", "fork"}
    <3>1. CASE ~ IsThere(uri) /\ clienterror("404")
      BY <3>1, AnswersOf, Headings DEF clienterror, Writes, Page
    <3>2. CASE IsThere(uri) /\ ~ Allowed(uri) /\ clienterror("403")
      BY <3>2, AnswersOf, Headings DEF clienterror, Writes, Page
    <3>3. CASE /\ IsThere(uri) /\ Allowed(uri) /\ is_static(uri)
               /\ Writes(<<"200", "Content-length", get_filetype(filename(uri))>>, "open")
      BY <3>3, Headings DEF Writes, Static, StaticHeader
    <3>4. CASE IsThere(uri) /\ Allowed(uri) /\ ~ is_static(uri) /\ Writes(<<"200", "Server">>, "fork")
      BY <3>4, Headings DEF Writes, Dynamic, DynamicHeader
    <3> QED
      BY <1>12, <3>1, <3>2, <3>3, <3>4 DEF StatFile
  <2>5. out' \in Streams /\ out' \o todo' = todo'
    BY <2>2, <2>3, <2>4, EmptySeq, ConcatEmptySeq DEF Streams
  <2> QED
    BY <2>1, <2>2, <2>3, <2>4, <2>5 DEF Answered, Written
<1>13. CASE Write
  <2>1. Asked /\ Answered /\ pc = "write"
    BY <1>1, <1>13 DEF Write, End, Goto, At, client, Asked, Serving
  <2>2. /\ out \in Seq(Symbols) /\ todo \in Seq(Symbols) /\ Written(out \o todo, after)
        /\ UNCHANGED <<request, uri>>
    BY <1>13, <2>1 DEF Answered, Write, End, Goto, client, Streams
  <2>3. ASSUME NEW n \in DOMAIN todo, todo' = Unwritten(n), out' = out \o SubSeq(todo, 1, n),
               UNCHANGED <<pc, after>>
        PROVE  Answered'
    <3>1. Len(todo) \in Nat /\ n \in 1 .. Len(todo)
      BY <2>2, <2>3, LenProperties
    <3>2. \A i \in 1 .. Len(todo) : todo[i] \in Symbols
      BY <2>2, ElementOfSeq
    <3>3. SubSeq(todo, 1, n) \in Seq(Symbols)
      BY <3>1, <3>2, SubSeqProperties
    <3>4. todo' \in Seq(Symbols)
      BY <2>3, <3>1, <3>2, SubSeqProperties DEF Unwritten
    <3>5. out' \in Seq(Symbols)
      BY <2>2, <2>3, <3>3, ConcatProperties
    <3>6. SubSeq(todo, 1, n) \o todo' = todo
      <4>1. n \in 1 - 1 .. Len(todo) /\ Len(todo) \in n .. Len(todo) /\ 1 \in 1 .. Len(todo) + 1
        BY <3>1
      <4>2. SubSeq(todo, 1, n) \o SubSeq(todo, n + 1, Len(todo)) = SubSeq(todo, 1, Len(todo))
        BY <2>2, <4>1, ConcatAdjacentSubSeq
      <4> QED
        BY <2>2, <2>3, <4>2, SubSeqFull DEF Unwritten
    <3>7. out' \o todo' = out \o todo
      <4> DEFINE piece == SubSeq(todo, 1, n)
      <4>0. out \in Seq(Symbols) /\ piece \in Seq(Symbols)
        BY <2>2, <3>3
      <4> HIDE DEF piece
      <4>1. (out \o piece) \o todo' = out \o (piece \o todo')
        BY <3>4, <4>0, ConcatAssociative
      <4> QED
        BY <2>3, <3>6, <4>1 DEF piece
    <3> QED
      BY <2>1, <2>2, <2>3, <3>4, <3>5, <3>7 DEF Answered, Written, Expected, Streams
  <2>4. CASE todo = <<>> /\ pc' = after /\ UNCHANGED <<out, child>>
    <3>1. out \o todo = out
      BY <2>2, <2>4, ConcatEmptySeq
    <3> QED
      BY <1>1, <2>1, <2>2, <2>4, <3>1 DEF Answered, Written, Expected
  <2>5. gone = "no"
    BY <2>1 DEF Asked
  <2> QED
    BY <1>13, <2>3, <2>4, <2>5 DEF Write, Goto
<1>14. CASE Open \/ MapFile \/ UnmapFile \/ Fork \/ Wait
  <2>1. Asked /\ Answered /\ UNCHANGED <<request, uri, out>>
    BY <1>1, <1>14 DEF Open, MapFile, UnmapFile, Fork, Wait, End, At, client, Asked, Serving
  <2>2. Expected' = Expected
    BY <2>1 DEF Expected
  <2>3. pc \in {"open", "mmap", "munmap", "fork", "wait"}
    BY <1>14 DEF Open, MapFile, UnmapFile, Fork, Wait, At
  <2>4. uri = request[2] /\ request[1] \in {"GET", "get"} /\ Expected = Answers(uri)
    BY <2>1, <2>3 DEF Answered, Expected
  <2>5. CASE UNCHANGED <<pc, todo, after, child>>
    BY <1>2, <2>1, <2>5
  <2>6. CASE pc = "open" /\ pc' = "mmap"
    BY <2>1, <2>4, <2>6 DEF Answered, Written
  <2>7. CASE /\ pc = "mmap" /\ pc' = "write" /\ after' = "munmap"
             /\ todo' = Files[filename(uri)].body
    <3>1. Static(uri) /\ out = StaticHeader(uri)
      BY <2>1, <2>7 DEF Answered, Written
    <3>2. todo' \in Streams
      <4>1. Files[filename(uri)].body \in Seq(STRING) /\ STRING \subseteq Symbols
        BY <3>1, TinyAssumption DEF Static, IsThere, Symbols
      <4> QED
        BY <2>7, <4>1, SeqMonotonic DEF Streams
    <3> QED
      BY <2>1, <2>4, <2>7, <3>1, <3>2, Headings DEF Answered, Written
  <2>8. CASE pc = "munmap" /\ pc' = "close"
    <3>1. out \in Answers(uri)
      BY <2>1, <2>8, AnswersOf DEF Answered, Written
    <3> QED
      BY <2>1, <2>2, <2>4, <2>8, <3>1 DEF Answered, Written
  <2>9. CASE pc = "fork" /\ pc' = "wait" /\ child' = "forked"
    BY <2>1, <2>4, <2>9 DEF Answered, Written
  <2>10. CASE pc = "wait" /\ child = "zombie" /\ pc' = "close"
    BY <2>1, <2>2, <2>10 DEF Answered, Written
  <2> QED
    BY <1>14, <2>5, <2>6, <2>7, <2>8, <2>9, <2>10
    DEF Open, MapFile, UnmapFile, Fork, Wait, Reaped, End, At
<1>15. CASE Child
  <2>1. Asked /\ Answered /\ UNCHANGED <<pc, request, uri>>
    BY <1>1, <1>15 DEF Child, Execve, Adder, Prints, ChildBecomes, client, Asked, Serving
  <2>2. pc = "wait" /\ child \in {"forked", "adder"} /\ child # "zombie"
    BY <1>1, <1>15 DEF Child, Execve, Adder
  <2>3. /\ uri = request[2] /\ request[1] \in {"GET", "get"}
        /\ Expected' = Answers(uri) /\ Dynamic(uri) /\ out = DynamicHeader
    BY <2>1, <2>2 DEF Answered, Expected
  <2>4. CASE child' = "adder" /\ out' = out
    BY <2>1, <2>2, <2>3, <2>4 DEF Answered, Written
  <2>5. CASE child' = "zombie" /\ out' \in Answers(uri)
    BY <2>1, <2>2, <2>3, <2>5 DEF Answered, Written
  <2>6. gone = "no"
    BY <2>1 DEF Asked
  <2>7. CASE Execve
    <3>1. \A log \in {<<>>, <<"log">>} : DynamicHeader \o log \in Answers(uri)
      BY <2>3, AnswersOf
    <3> QED
      BY <2>3, <2>4, <2>5, <2>6, <2>7, <3>1 DEF Execve, Prints, ChildBecomes
  <2>8. CASE Adder
    <3>1. CASE Uris[uri].args = <<>>
      <4>1. DynamicHeader \o <<>> = DynamicHeader
        BY Headings, ConcatEmptySeq DEF Streams
      <4>2. DynamicHeader \in Answers(uri)
        BY <2>3, <4>1, AnswersOf
      <4> QED
        BY <2>3, <2>5, <2>8, <3>1, <4>2 DEF Adder, ChildBecomes
    <3>2. CASE Uris[uri].args # <<>>
      <4>1. DynamicHeader \o Body(Uris[uri].args) \in Answers(uri)
        BY <2>3, <3>2, AnswersOf
      <4> QED
        BY <2>3, <2>5, <2>6, <2>8, <3>2, <4>1 DEF Adder, Prints, ChildBecomes
    <3> QED
      BY <3>1, <3>2
  <2> QED
    BY <1>15, <2>7, <2>8 DEF Child
<1> QED
  BY <1>3, <1>4, <1>5, <1>6, <1>7, <1>8, <1>9, <1>10, <1>11, <1>12, <1>13, <1>14, <1>15 DEF Next, Serve

-----------------------------------------------------------------------------
\* The inductive invariant holds in every state.
LEMMA Invariant == Spec => []IInv
<1>1. Init => IInv
  BY TypeStart DEF IInv, Init, RioInit, Resources, Descriptors, Serving, FirstLine, Answering, Asked
<1>2. IInv /\ [Next]_vars => IInv'
  <2> SUFFICES ASSUME IInv, [Next]_vars PROVE IInv'
    OBVIOUS
  <2>1. RioInv'
    BY StepsRead, RioKeeps DEF IInv
  <2>2. TypeOK' /\ Resources' /\ FirstLine'
    BY <2>1, TypeStep, ResourcesStep, FirstLineStep DEF IInv, RioInv
  <2>3. Serving' => request' \in Requests
    BY RequestStep DEF IInv
  <2> QED
    BY <2>1, <2>2, <2>3, AnsweringStep DEF IInv
<1> QED
  BY <1>1, <1>2, PTL DEF Spec

\* The values of the variables, of the reading and of the server.
THEOREM TypeCorrect == Spec => []TypeOK
<1>1. IInv => TypeOK
  BY DEF IInv
<1> QED
  BY <1>1, Invariant, PTL

\* Whatever pieces a request arrives in, rio_readlineb gives its bytes to its
\* callers once and in order, and its lines end where they should, for every
\* size of its buffers (csapp.c:794-882).
THEOREM Reads == Spec => []ReadsTheStream
<1>1. IInv => ReadsTheStream
  BY DEF IInv, RioInv, InOrder, LineClosed, ReadsTheStream
<1> QED
  BY <1>1, Invariant, PTL

\* Between two connections only the listening socket is open, nothing is mapped
\* and no child is unreaped, however many connections and failures of
\* open_listenfd there were (tiny.c:30-39).
THEOREM LeavesNothing == Spec => []NothingIsLeft
<1>1. IInv => NothingIsLeft
  BY DEF IInv, Resources, Descriptors, NothingIsLeft, At
<1> QED
  BY <1>1, Invariant, PTL

\* A client that waits gets the whole answer to its request, once and in order,
\* for every set of requests and files (tiny.c:47-92).
THEOREM AnswersItsClients == Spec => []AnsweredAsAsked
<1>1. IInv => AnsweredAsAsked
  BY DEF IInv, Answering, Answered, Asked, Serving, Written, Expected, AnsweredAsAsked, At
<1> QED
  BY <1>1, Invariant, PTL

=============================================================================
