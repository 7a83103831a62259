----------------------------- MODULE MCCSimList -----------------------------
(***************************************************************************)
(* One set of three lines for four tags, so that lines are unlinked at     *)
(* both ends and in the middle of the list, and a second set; two of the   *)
(* addresses are in one block.                                             *)
(***************************************************************************)
EXTENDS CSimList

MCAddr == {0, 1, 4, 8, 12, 2}

Arg(opt, val) == [opt |-> opt, val |-> val]
Shape == <<Arg("s", 1), Arg("E", 3), Arg("b", 1)>>

MCArgvs == {Shape, Shape \o <<Arg("t", 1)>>, Shape \o <<Arg("t", 1), Arg("h", 1)>>,
            <<Arg("E", 0), Arg("t", 1), Arg("v", 1)>> \o Shape,
            Shape \o <<Arg("t", 1), Arg("b", -1)>>}

=============================================================================
