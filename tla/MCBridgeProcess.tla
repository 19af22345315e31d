-------------------------- MODULE MCBridgeProcess --------------------------
(***************************************************************************)
(* Two submissions, of one request or of two, one of them perhaps with a   *)
(* line separator in its receipt; a stranger; a service that is started    *)
(* twice; a failed write or a death of the bridge.                         *)
(***************************************************************************)
EXTENDS BridgeProcess

One(request, splits) == [request |-> request, splits |-> splits]

MCSubmissions ==
    {[c \in Callers |-> One("r", FALSE)], [c \in Callers |-> One(c, FALSE)],
     [c \in Callers |-> One("r", c = "c1")]}

=============================================================================
