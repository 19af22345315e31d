----------------------------- MODULE MCExecutor -----------------------------
(***************************************************************************)
(* The executor against the most general environment, on a small instance: *)
(* two requests that share an id, two permits of one request minted in the *)
(* same second (same permit id, different windows), a permit of the other, *)
(* and two envelopes that must not verify (signed by the executor's own    *)
(* key; altered after signing).                                            *)
(***************************************************************************)
EXTENDS ExecutorEnvironment

MCRequests == {[id |-> "r", payload |-> "a"], [id |-> "r", payload |-> "b"]}

PermitBody(id, request, from, to) ==
    [permit_id |-> id, request |-> request, gate_verdict |-> "ALLOW",
     authority_effect |-> "EXECUTION_ONCE", issued_at |-> from, expires_at |-> to]

ra == [id |-> "r", payload |-> "a"]
rb == [id |-> "r", payload |-> "b"]

MCPermits ==
    {SignPayload("execution_permit", "gate", PermitBody("p1", ra, 0, 1)),
     SignPayload("execution_permit", "gate", PermitBody("p1", ra, 1, 2)),
     SignPayload("execution_permit", "gate", PermitBody("p2", rb, 0, 2)),
     SignPayload("execution_permit", "executor", PermitBody("p3", ra, 0, 2)),
     [SignPayload("execution_permit", "gate", PermitBody("p4", ra, 0, 2))
        EXCEPT !.intact = FALSE]}

=============================================================================
