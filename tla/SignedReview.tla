---------------------------- MODULE SignedReview ----------------------------
(***************************************************************************)
(* One-shot redemption of signed review leases (SignedReviewAuthorizer and *)
(* its SQLite ReplayLedger in verifiable.py), used by the gate process and *)
(* by the in-process runtime.  The ledger outlives the processes.          *)
(***************************************************************************)
EXTENDS Envelopes, Naturals, Sequences

VARIABLE leaseLedger     \* review_lease_use rows [lease_id, envelope, at]

NoLease == [type |-> "absent"]

\* Mutants: the review policy is not compared; the ledger's key is the envelope
\* hash alone.
SamePolicyIgnored(body, base) == TRUE
LeaseUnusedByEnvelope(lease) == \A row \in leaseLedger : row.envelope # lease

LeaseInForce(body, t) == body.issued_at <= t /\ t < body.expires_at

\* Equality of request digests, and of capability, action and resource.
LeaseForRequest(body, request) == request = body.request

\* The review grants matched now, in order, are those the human saw.
SamePolicy(body, base) == base.matched_grant_ids = body.review_grant_ids

\* The INSERT succeeds: lease_id is the primary key, envelope_hash is UNIQUE.
LeaseUnused(lease) ==
    \A row \in leaseLedger : row.lease_id # lease.body.lease_id /\ row.envelope # lease

Consume(lease, t) ==
    leaseLedger' = leaseLedger \union
        {[lease_id |-> lease.body.lease_id, envelope |-> lease, at |-> t]}

\* SignedReviewAuthorizer.redeem gets as far as the ledger.
Acceptable(lease, request, base, t) ==
    /\ base.verdict = "REVIEW"
    /\ VerifyEnvelope(lease, GateTrust, "review_issuer", "review_lease")
    /\ LeaseInForce(lease.body, t)
    /\ LeaseForRequest(lease.body, request)
    /\ SamePolicy(lease.body, base)

\* It authorizes.  What SQLite raises but for a row in the way (locked, disk full)
\* is rolled back and leaves redeem and its caller as it is.
Redeemable(lease, request, base, t) ==
    Acceptable(lease, request, base, t) /\ LeaseUnused(lease)

=============================================================================
