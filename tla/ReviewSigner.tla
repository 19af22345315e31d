---------------------------- MODULE ReviewSigner ----------------------------
(***************************************************************************)
(* The review signer process (review_signer_handler with                   *)
(* issue_signed_review_lease).  It keeps no state between calls: what it   *)
(* signs is kept here as the set of leases in human hands.                 *)
(***************************************************************************)
EXTENDS Transport, Envelopes

CONSTANTS
    TicksPerSecond,    \* resolution of the clock against int(timestamp())
    LeaseTTLs          \* lifetimes, in ticks, a reviewer may choose

ASSUME SignerAssumption ==
    /\ TicksPerSecond \in Nat \ {0}
    /\ LeaseTTLs \subseteq Nat \ {0}

VARIABLE leases        \* signed review leases issued so far

Second(t) == t \div TicksPerSecond

\* issue_signed_review_lease: the lease names the request and the review grants
\* the reviewer was shown.
IssueSignedReviewLease(request, base, lease_id, ttl) ==
    SignPayload("review_lease", "review",
        [lease_id |-> lease_id, request |-> request,
         review_grant_ids |-> base.matched_grant_ids,
         issued_at |-> now, expires_at |-> now + ttl])

\* approve_review: an explicit human approval of a REVIEW decision becomes a
\* lease.  lease_id is the reviewer's choice, or by default the request id and
\* the second of signing.
ApproveReview(request, base, lease_id, ttl) ==
    /\ base.verdict = "REVIEW"
    /\ leases' = leases \union {IssueSignedReviewLease(request, base, lease_id, ttl)}

DefaultLeaseId(request) == <<request.id, Second(now)>>

=============================================================================
