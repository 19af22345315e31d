----------------------------- MODULE MCRuntime -----------------------------
(***************************************************************************)
(* Two runtimes that share a broker and a ledger, a request that is        *)
(* allowed, one that needs review and one that is denied, and two signed   *)
(* leases of the same id, besides one altered after signing.               *)
(***************************************************************************)
EXTENDS Runtime, TLC

Req(id, capability) ==
    [id |-> id, capability |-> capability, action |-> "write", resource |-> "doc"]

write   == Req("w", "file")
publish == Req("p", "publish")
wipe    == Req("d", "disk")

Grant(id, effect, capability) ==
    [id |-> id, effect |-> effect, capability |-> {capability}, actions |-> {"write"},
     resources |-> {"doc"}]

MCRegistry ==
    [version |-> 1, grants |-> <<Grant("g1", "ALLOW", "file"), Grant("g2", "REVIEW", "publish"),
                                 Grant("g3", "DENY", "disk")>>]

MCRequests == {write, publish, wipe}

Lease(expires) ==
    SignPayload("review_lease", "review",
        [lease_id |-> "s", request |-> publish, review_grant_ids |-> <<"g2">>,
         issued_at |-> 0, expires_at |-> expires])

\* The runtimes are interchangeable.
Symmetry == Permutations(Runtimes)

MCSignedLeases == {Lease(1), Lease(2), [Lease(3) EXCEPT !.intact = FALSE]}

=============================================================================
