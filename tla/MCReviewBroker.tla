--------------------------- MODULE MCReviewBroker ---------------------------
(***************************************************************************)
(* Two leases, two requests, two review policies, three clock readings.    *)
(***************************************************************************)
EXTENDS ReviewBroker

MCGrantLists == {<<"g1">>, <<"g1", "g2">>}

=============================================================================
