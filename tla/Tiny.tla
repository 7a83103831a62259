-------------------------------- MODULE Tiny --------------------------------
(***************************************************************************)
(* The tiny web server (tiny.c) with its CGI program adder and the library *)
(* functions of csapp.c it is built on: one connection at a time, static   *)
(* files mapped and copied, programs run in a child that is waited for.    *)
(* Nothing ignores SIGPIPE and every wrapper exits when its call fails, so *)
(* that a client that leaves can end the server; and it can hold it for    *)
(* ever in read_requesthdrs.                                               *)
(*                                                                         *)
(* What is written is a sequence of lines and pieces of a body; the calls  *)
(* of Rio_writen that follow each other are one, which may be cut          *)
(* anywhere.                                                               *)
(***************************************************************************)
EXTENDS Rio, FiniteSets, TLC

CONSTANTS Clients,    \* that connect, once each
          Uris,       \* a word of the request to what parse_uri finds in it
          Files,      \* a file name to what stat and read find there
          Addresses   \* how many addresses getaddrinfo returns

\* A request begins with a word, and a word or the end of its line follows
ASSUME TinyAssumption ==
  /\ Addresses \in Nat
  /\ \A r \in Requests : Len(r) > 1 /\ r[1] \notin {"CR", "LF"} /\ r[2] # "LF"
  /\ \A name \in DOMAIN Files : Files[name].body \in Seq(STRING)

VARIABLES pc, exited,
          p,              \* the address that open_listenfd tries
          backlog, conn,  \* who waits for accept, and who is connected
          done,           \* whose connections are closed
          fds, mapped,    \* what is open, and whether a file is mapped
          todo, after,    \* what rio_writen has to write, and what follows
          uri,            \* the file to serve, or the program and its arguments
          child,          \* the CGI process
          out             \* what the client was sent

server == <<pc, exited, p, backlog, conn, done, fds, mapped, todo, after, uri, child>>
vars == <<client, rio, server, out>>

Init == /\ RioInit
        /\ pc = "socket" /\ exited = "no" /\ p = 1
        /\ backlog = <<>> /\ conn = "none" /\ done = {} /\ fds = {} /\ mapped = FALSE
        /\ todo = <<>> /\ after = "none" /\ uri = "none" /\ child = "none"
        /\ out = <<>>

At(label) == pc = label /\ exited = "no"

\* unix_error, or a signal: the kernel closes the descriptors and frees the map
End(how) == /\ exited' = how
            /\ UNCHANGED <<client, rio, pc, p, backlog, conn, done, fds, mapped, todo, after,
                           uri, child, out>>

-----------------------------------------------------------------------------
\* open_listenfd walks the addresses until one can be bound
Socket == /\ At("socket")
          /\ IF p > Addresses THEN End("exit")
             ELSE \/ /\ p' = p + 1 /\ UNCHANGED <<pc, fds>>
                     /\ UNCHANGED <<client, rio, exited, backlog, conn, done, mapped, todo, after,
                                    uri, child, out>>
                  \/ /\ pc' = "bind" /\ fds' = fds \cup {"listen"}
                     /\ UNCHANGED <<client, rio, exited, p, backlog, conn, done, mapped, todo, after,
                                    uri, child, out>>

Bind == /\ At("bind")
        /\ \/ pc' = "listen" /\ UNCHANGED <<p, fds>>
           \/ pc' = "socket" /\ p' = p + 1 /\ fds' = fds \ {"listen"}
        /\ UNCHANGED <<client, rio, exited, backlog, conn, done, mapped, todo, after, uri, child, out>>

Listen == /\ At("listen")
          /\ \/ End("exit")
             \/ /\ pc' = "accept"
                /\ UNCHANGED <<client, rio, exited, p, backlog, conn, done, fds, mapped, todo, after,
                               uri, child, out>>

-----------------------------------------------------------------------------
Listening == pc \notin {"socket", "bind", "listen"} /\ exited = "no"

Connect(c) == /\ Listening /\ c \notin done \cup ToSet(backlog) \cup {conn}
              /\ backlog' = Append(backlog, c)
              /\ UNCHANGED <<client, rio, pc, exited, p, conn, done, fds, mapped, todo, after,
                             uri, child, out>>

\* What a client does before it is accepted is seen only then
Sends == conn # "none" /\ Send /\ UNCHANGED <<server, out>>
Leaves == conn # "none" /\ Leave /\ UNCHANGED <<server, out>>

\* Accept, Getnameinfo, Rio_readinitb and the first Rio_readlineb
Accept == /\ At("accept") /\ backlog # <<>>
          /\ Connects /\ rio_readinitb /\ rio_readlineb(<<>>)
          /\ conn' = Head(backlog) /\ backlog' = Tail(backlog) /\ out' = <<>>
          /\ fds' = fds \cup {"connection"}
          /\ pc' = "request"
          /\ UNCHANGED <<exited, p, done, mapped, todo, after, uri, child>>

ReadStep == exited = "no" /\ Reading /\ UNCHANGED <<server, out>>

ReadError == /\ At("request") \/ At("headers")
             /\ rc = "error" /\ End("exit")

\* doit returns and main closes the connection
Close == /\ At("close")
         /\ fds' = fds \ {"connection"}
         /\ done' = done \cup {conn} /\ conn' = "none"
         /\ pc' = "accept" /\ uri' = "none" /\ out' = <<>> /\ NoClient /\ NoRio
         /\ UNCHANGED <<exited, p, backlog, mapped, todo, after, child>>

\* To a label of doit, whose locals and connection stay
Goto(label) == /\ pc' = label
               /\ UNCHANGED <<client, exited, p, backlog, conn, done, fds, mapped, child, out>>

\* Rio_writen(lines), and then on to the label
Writes(lines, label) == /\ todo' = lines /\ after' = label /\ Goto("write")

clienterror(errnum) == Writes(<<errnum, "Content-type", "Content-length", "error page">>, "close")

-----------------------------------------------------------------------------
\* doit: the request line.  What sscanf does not assign is what the stack held.
Words == {i \in DOMAIN usrbuf : usrbuf[i] \notin {"CR", "LF"}}
Word(n) == {usrbuf[i] : i \in {j \in Words : Cardinality(Words \cap 1 .. j) = n}}
Held(n) == IF Word(n) # {} THEN Word(n) ELSE {"GET", "garbage"} \cup DOMAIN Uris

\* Rio_readlineb returned 0
NoRequest == /\ At("request") /\ rc = "eof"
             /\ Goto("close") /\ UNCHANGED <<rio, todo, after, uri>>

\* The buffer of read_requesthdrs is the stack's as well; after another request
\* it may hold that one's blank line.
Blank == <<"CR", "LF">>

RequestLine ==
  /\ At("request") /\ rc = "line"
  /\ \E method \in Held(1), u \in Held(2) :
       \/ /\ method \notin {"GET", "get"}
          /\ clienterror("501") /\ UNCHANGED <<rio, uri>>
       \/ /\ method \in {"GET", "get"}
          /\ uri' = u
          /\ \E buf \in {<<>>, Blank} : rio_readlineb(buf)
          /\ UNCHANGED <<taken, rio_buf, copied>>
          /\ Goto("headers") /\ UNCHANGED <<todo, after>>

\* read_requesthdrs compares its buffer with the blank line and reads again if
\* it is another one, also at the end of the stream, where the buffer still
\* holds the line before.
Headers ==
  /\ At("headers") /\ rc \in {"line", "eof"}
  /\ IF usrbuf = Blank THEN Goto("stat") /\ UNCHANGED <<rio, todo, after, uri>>
     ELSE /\ rio_readlineb(usrbuf) /\ Goto("headers")
          /\ UNCHANGED <<taken, rio_buf, copied, todo, after, uri>>

-----------------------------------------------------------------------------
\* parse_uri.  A URI with cgi-bin in it is a program, what follows its ? the
\* arguments; one that ends with / is the home page there.
is_static(u) == ~Uris[u].cgi
filename(u) == IF is_static(u) /\ Uris[u].slash THEN Uris[u].path \o <<"home", ".html">>
               ELSE Uris[u].path

get_filetype(name) ==
  IF ".html" \in ToSet(name) THEN "text/html"
  ELSE IF ".gif" \in ToSet(name) THEN "image/gif"
  ELSE IF ".png" \in ToSet(name) THEN "image/png"
  ELSE IF ".jpg" \in ToSet(name) THEN "image/jpeg"
  ELSE "text/plain"

IsThere(u) == u \in DOMAIN Uris /\ filename(u) \in DOMAIN Files

Allowed(u) == LET sbuf == Files[filename(u)]
              IN  sbuf.regular /\ IF is_static(u) THEN sbuf.rusr ELSE sbuf.xusr

StatFile ==
  /\ At("stat")
  /\ \/ ~IsThere(uri) /\ clienterror("404")
     \/ IsThere(uri) /\ ~Allowed(uri) /\ clienterror("403")
     \/ /\ IsThere(uri) /\ Allowed(uri) /\ is_static(uri)
        /\ Writes(<<"200", "Content-length", get_filetype(filename(uri))>>, "open")
     \/ /\ IsThere(uri) /\ Allowed(uri) /\ ~is_static(uri)
        /\ Writes(<<"200", "Server">>, "fork")
  /\ UNCHANGED <<rio, uri>>

-----------------------------------------------------------------------------
\* rio_writen: write takes some of what is left.  To a client that is gone,
\* it is lost, or the signal ends the server.
\* Mutant: bufp stays at the first byte
Unwritten_First(n) == SubSeq(todo, 1, Len(todo) - n)
Unwritten(n) == SubSeq(todo, n + 1, Len(todo))

Write ==
  /\ At("write")
  /\ \/ gone # "no" /\ todo # <<>> /\ End("SIGPIPE")
     \/ /\ \E n \in DOMAIN todo :
             /\ todo' = Unwritten(n)
             /\ out' = IF gone # "no" THEN out
                       ELSE out \o SubSeq(todo, 1, n)
        /\ UNCHANGED <<client, rio, pc, exited, p, backlog, conn, done, fds, mapped, after, uri, child>>
     \/ todo = <<>> /\ Goto(after) /\ UNCHANGED <<rio, todo, after, uri>>

\* serve_static: the file is opened, which fails if it is another user's, and
\* mapped, which fails if it is empty
Open == /\ At("open")
        /\ \/ End("exit")
           \/ /\ fds' = fds \cup {"file"} /\ pc' = "mmap"
              /\ UNCHANGED <<client, rio, exited, p, backlog, conn, done, mapped, todo, after, uri,
                             child, out>>

MapFile == /\ At("mmap")
           /\ IF Files[filename(uri)].body = <<>> THEN End("exit")
              ELSE /\ mapped' = TRUE /\ fds' = fds \ {"file"}
                   /\ todo' = Files[filename(uri)].body /\ after' = "munmap" /\ pc' = "write"
                   /\ UNCHANGED <<client, rio, exited, p, backlog, conn, done, uri, child, out>>

UnmapFile == /\ At("munmap") /\ mapped' = FALSE /\ pc' = "close"
             /\ UNCHANGED <<client, rio, exited, p, backlog, conn, done, fds, todo, after, uri,
                            child, out>>

\* serve_dynamic
Fork == /\ At("fork")
        /\ \/ End("exit")
           \/ /\ child' = "forked" /\ pc' = "wait"
              /\ UNCHANGED <<client, rio, exited, p, backlog, conn, done, fds, mapped, todo, after,
                             uri, out>>

\* Mutant: Wait is not called
Reaped_Not == TRUE
Reaped == child = "zombie"

Wait == /\ At("wait") /\ Reaped
        /\ child' = (IF child = "zombie" THEN "none" ELSE child) /\ pc' = "close"
        /\ UNCHANGED <<client, rio, exited, p, backlog, conn, done, fds, mapped, todo, after, uri, out>>

-----------------------------------------------------------------------------
\* The child, whose standard output becomes the connection
ChildBecomes(state) ==
  /\ child' = state
  /\ UNCHANGED <<client, rio, pc, exited, p, backlog, conn, done, fds, mapped, todo, after, uri>>

\* It prints, and ends; if the client is gone that is all the same
Prints(lines) == /\ ChildBecomes("zombie")
                 /\ out' = IF gone # "no" THEN out
                           ELSE out \o lines

\* Dup2 and Execve; when that fails, exit flushes what the server has printed
\* since it last flushed, of which the child has a copy
Execve == /\ child = "forked"
          /\ \/ ChildBecomes("adder") /\ UNCHANGED out
             \/ \E log \in {<<>>, <<"log">>} : Prints(log)

Body(numbers) == <<"Connection: close", "Content-length", "Content-type",
                   ToString(numbers[1] + numbers[2])>>

\* adder: without an & in the arguments it follows a null pointer
Adder == /\ child = "adder"
         /\ IF Uris[uri].args = <<>> THEN ChildBecomes("zombie") /\ UNCHANGED out
            ELSE Prints(Body(Uris[uri].args))

-----------------------------------------------------------------------------
Serve == \/ Socket \/ Bind \/ Listen \/ Accept \/ Close
         \/ ReadStep \/ ReadError \/ NoRequest \/ RequestLine \/ Headers \/ StatFile
         \/ Write \/ Open \/ MapFile \/ UnmapFile \/ Fork \/ Wait

Child == Execve \/ Adder

Next == Serve \/ Child \/ Sends \/ Leaves \/ \E c \in Clients : Connect(c)

Spec == Init /\ [][Next]_vars

\* The server and its child are run, and a client that stays sends its request
FairSpec == Spec /\ WF_vars(Serve) /\ WF_vars(Child) /\ WF_vars(Sends)

-----------------------------------------------------------------------------
Page(errnum) == {<<errnum, "Content-type", "Content-length", "error page">>}

\* What is sent for a URI that was read; a program that cannot be executed
\* may add what the server has logged
Answers(u) ==
  IF ~IsThere(u) THEN Page("404")
  ELSE IF \/ ~Files[filename(u)].regular
          \/ is_static(u) /\ ~Files[filename(u)].rusr
          \/ ~is_static(u) /\ ~Files[filename(u)].xusr THEN Page("403")
  ELSE IF is_static(u)
  THEN {<<"200", "Content-length", get_filetype(filename(u))>> \o Files[filename(u)].body}
  ELSE {<<"200", "Server">> \o content :
          content \in {<<>>, <<"log">>} \cup
                      IF Uris[u].args = <<>> THEN {} ELSE {Body(Uris[u].args)}}

\* A client that waits for its answer gets the one its request line asks for,
\* whole, once and in order, whatever pieces the request and the answer are cut
\* into and whatever the other clients do (tiny.c:47-92).
AnsweredAsAsked ==
  At("close") /\ gone = "no" /\ request[2] # "CR" =>
    out \in IF request[1] \in {"GET", "get"} THEN Answers(request[2]) ELSE Page("501")

\* Between two connections nothing is left of the last one: only the listening
\* socket is open, no file is mapped and no child is unreaped, also after
\* addresses that could not be bound (tiny.c:30-39, csapp.c:998-1017).
NothingIsLeft ==
  At("accept") => fds = {"listen"} /\ ~mapped /\ child = "none"

\* The server reads the same buffer for ever: the client has left before the
\* blank line that read_requesthdrs waits for
Spins == /\ pc = "headers" /\ gone = "closed" /\ taken = sent
         /\ rio_buf = <<>> /\ line = <<>> /\ usrbuf # Blank

\* A client that has connected is answered or left, unless the server exits;
\* the one thing that holds the server for ever is a client that has left
\* before its blank line (tiny.c:99-110).
EveryClientIsServed ==
  \A c \in Clients : c \in ToSet(backlog) ~> c \in done \/ exited # "no" \/ Spins

=============================================================================
