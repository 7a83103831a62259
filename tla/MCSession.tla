------------------------------ MODULE MCSession ------------------------------
(***************************************************************************)
(* Two processes, with IDs of one and of two digits.  Every line of up to  *)
(* five characters, every argument of fg and bg of up to two, and          *)
(* sessions like those of src/shlab/trace*.txt.                            *)
(***************************************************************************)
EXTENDS Session

MCPids == {7, 10}

Line(s) == Append(s, "LF")
Texts(chars, n) == UNION {[1 .. k -> chars] : k \in 0 .. n}

AnyLine == {<<Line(s)>> : s \in Texts({"x", "'", "&", " "}, 5)}

Bg(prog) == Line(<<prog, " ", "1", " ", "&">>)
Fg(prog) == Line(<<prog, " ", "1">>)

AnyArgument == {<<Bg("myspin"), Line(<<cmd, " ">> \o s)>> :
                  cmd \in {"fg", "bg"}, s \in Texts({"%", "1", "0", "7", "x", " "}, 2)}

Programs2 == {"myspin", "mysplit", "mystop", "myint"}

Sessions ==
  {<<Fg(p), Line(<<"fg", " ", "%", "1">>)>> : p \in Programs2}
    \cup {<<Bg("mystop"), Bg("mysplit"), Line(<<"fg", " ", "%", id>>)>> : id \in {"1", "2"}}
    \cup {<<Fg("mysplit"), Line(<<"bg", " ", "1", "0">>), Line(<<"jobs">>), Line(<<"quit">>)>>,
          <<Line(<<"&", " ", "&">>), Line(<<"myspin">>), Line(<<"bg">>)>>}

MCScripts == AnyLine \cup AnyArgument \cup Sessions
MCOptions == {{}, {"p"}, {"v", "p"}, {"h"}, {"p", "x"}}

=============================================================================
