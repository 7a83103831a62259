------------------------------ MODULE MCMDriver -----------------------------
EXTENDS MDriver

req(type, index, size) == [type |-> type, index |-> index, size |-> size]

\* Two blocks that grow; one block that shrinks; ids whose low byte
\* is 128; and headers and requests that the driver refuses
MCFiles ==
  <<"traces/", "one">> :> [num_ids |-> 2, num_ops |-> 6, ops |->
      <<req("a", 0, 2), req("a", 1, 1), req("r", 0, 4), req("r", 1, 3), req("f", 1, 0), req("f", 0, 0)>>] @@
  <<"traces/", "two">> :> [num_ids |-> 1, num_ops |-> 3, ops |->
      <<req("a", 0, 4), req("r", 0, 2), req("f", 0, 0)>>] @@
  <<"./", "many">> :> [num_ids |-> 129, num_ops |-> 3, ops |->
      <<req("a", 128, 2), req("r", 128, 4), req("f", 128, 0)>>] @@
  <<"./", "short">> :> [num_ids |-> 1, num_ops |-> 3, ops |-> <<req("a", 0, 2), req("f", 0, 0)>>] @@
  <<"./", "bogus">> :> [num_ids |-> 1, num_ops |-> 1, ops |-> <<req("x", 0, 2)>>]

MCArgvs ==
  { <<>>, <<<<"a">>>>, <<<<"l">>, <<"f", "many">>>>, <<<<"f", "many">>, <<"t", "traces/">>>>,
    <<<<"f", "short">>>>, <<<<"t", "./">>, <<"f", "bogus">>>>, <<<<"t", "./">>>>,
    <<<<"h">>, <<"?">>>>, <<<<"?">>>> }

\* Before the heap, in it and, while it is small, behind it; 1 is not aligned
MCAddresses == {-2, 0, 1, 2, 4, 6}

MCDefault == <<"one", "two">>
=============================================================================
