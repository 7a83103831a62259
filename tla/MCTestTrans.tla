---------------------------- MODULE MCTestTrans ----------------------------
(***************************************************************************)
(* An instance of TestTrans for TLC.                                       *)
(***************************************************************************)
EXTENDS TestTrans

\* The three shapes of driver.py, shapes that are smaller than a block or not
\* made of whole blocks, and two that main rejects
MCShapes == {<<32, 32>>, <<64, 64>>, <<61, 67>>, <<3, 5>>, <<9, 2>>, <<0, 4>>, <<8, 257>>}

=============================================================================
