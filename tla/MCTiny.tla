------------------------------- MODULE MCTiny -------------------------------
EXTENDS Tiny

url(cgi, path, slash, args) == [cgi |-> cgi, path |-> path, slash |-> slash, args |-> args]

MCUris == "/" :> url(FALSE, <<"/">>, TRUE, <<>>) @@
          "/empty" :> url(FALSE, <<"/empty">>, FALSE, <<>>) @@
          "/dir" :> url(FALSE, <<"/dir">>, FALSE, <<>>) @@
          "/none" :> url(FALSE, <<"/none", ".gif">>, FALSE, <<>>) @@
          "/cgi-bin/adder?1&2" :> url(TRUE, <<"/cgi-bin/adder">>, FALSE, <<1, 2>>) @@
          "/cgi-bin/adder" :> url(TRUE, <<"/cgi-bin/adder">>, FALSE, <<>>) @@
          "/cgi-bin/text" :> url(TRUE, <<"/cgi-bin/text">>, FALSE, <<>>)

file(regular, xusr, body) == [regular |-> regular, rusr |-> TRUE, xusr |-> xusr, body |-> body]

MCFiles == <<"/", "home", ".html">> :> file(TRUE, FALSE, <<"body", "of the page">>) @@
           <<"/empty">> :> file(TRUE, FALSE, <<>>) @@
           <<"/dir">> :> file(FALSE, TRUE, <<>>) @@
           <<"/cgi-bin/adder">> :> file(TRUE, TRUE, <<"program">>) @@
           <<"/cgi-bin/text">> :> file(TRUE, FALSE, <<"text">>)

Get(u, headers) == <<"GET", u, "HTTP/1.0", "CR", "LF">> \o headers \o <<"CR", "LF">>

\* A header that fills the buffer, a request line with one word, and another method
MCRequests ==
  { Get("/", <<"header", "CR", "LF">>), Get("/none", <<"h", "h", "h", "h", "h", "CR", "LF">>),
    Get("/dir", <<>>), Get("/empty", <<>>), Get("/cgi-bin/adder?1&2", <<>>),
    Get("/cgi-bin/adder", <<>>), Get("/cgi-bin/text", <<>>),
    <<"GET", "CR", "LF", "CR", "LF">>, <<"POST", "/", "CR", "LF">> }
=============================================================================
