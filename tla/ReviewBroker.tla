---------------------------- MODULE ReviewBroker ----------------------------
(***************************************************************************)
(* The in-process review broker (review_broker.py): human review leases,   *)
(* their one-shot redemption, their cancellation, and the chained event    *)
(* receipts.                                                               *)
(*                                                                         *)
(* Every method does its state changes under the broker's lock, so a       *)
(* method is one action.  What a method uses from before the lock (its     *)
(* arguments, the gate's decision, a clock reading or the caller's `now`)  *)
(* may be arbitrarily stale by then: it is any member of the sets below,   *)
(* unrelated to the state the lock protects.                               *)
(***************************************************************************)
EXTENDS Integers, Sequences

CONSTANTS
    LeaseIds,        \* lease identifiers
    Requests,        \* action requests (a request digest is the request)
    GrantLists,      \* tuples of matched review grant ids
    Times,           \* clock readings and `now` arguments
    MaxEvents        \* bound on the event list

ASSUME BrokerAssumption == Times \subseteq Nat /\ MaxEvents \in Nat

VARIABLES
    lease,           \* _leases: lease[id], or NoLease
    uses,            \* _uses
    cancelled,       \* the keys of _cancelled
    events,          \* _events: the event receipts, in chain order
    releases         \* authorizations returned to callers, in order

vars == <<lease, uses, cancelled, events, releases>>

NoLease == [request |-> "none"]
Leases == [request : Requests, review_grant_ids : GrantLists, issued_at : Times, expires_at : Nat]

\* A base decision as the gate returns it; only a REVIEW has review grants.
Decisions == [verdict : {"REVIEW"}, matched_grant_ids : GrantLists]
               \union [verdict : {"ALLOW", "DENY"}]

Init ==
    /\ lease = [id \in LeaseIds |-> NoLease]
    /\ uses = [id \in LeaseIds |-> 0]
    /\ cancelled = {}
    /\ events = << >>
    /\ releases = << >>

Issued(id) == lease[id] # NoLease

\* _append_event.
AppendEvent(event, id, at) ==
    events' = Append(events, [event |-> event, lease_id |-> id, at |-> at])

-----------------------------------------------------------------------------
\* register: raises, changing nothing, when the id is taken.
Register(id, l) ==
    /\ ~ Issued(id)
    /\ lease' = [lease EXCEPT ![id] = l]
    /\ uses' = [uses EXCEPT ![id] = 0]
    /\ AppendEvent("ISSUED", id, l.issued_at)
    /\ UNCHANGED <<cancelled, releases>>

\* issue_for_review: only for a REVIEW decision, with a positive lifetime.  A
\* lease made elsewhere and registered passes the same checks (ReviewLease).
IssueForReview(id, request, base, now, expires) ==
    /\ base.verdict = "REVIEW"
    /\ expires > now
    /\ Register(id, [request |-> request, review_grant_ids |-> base.matched_grant_ids,
                     issued_at |-> now, expires_at |-> expires])

\* cancel, with a usable `now` or none.
Cancel(id, now) ==
    /\ Issued(id) /\ id \notin cancelled
    /\ cancelled' = cancelled \union {id}
    /\ AppendEvent("CANCELLED", id, now)
    /\ UNCHANGED <<lease, uses, releases>>

\* cancel, with a `now` that has no time zone: _now_iso raises after _cancelled
\* was set, so there is no event, and a second call is refused.
CancelNaive(id) ==
    /\ Issued(id) /\ id \notin cancelled
    /\ cancelled' = cancelled \union {id}
    /\ UNCHANGED <<lease, uses, events, releases>>

-----------------------------------------------------------------------------
\* Mutants: one use too many; a cancelled lease still works; expiry included.
UsedUpOffByOne(id) == uses[id] > 1
UsableAnyway(id) == uses[id] < 1
InForceInclusive(l, now) == l.issued_at <= now /\ now <= l.expires_at

UsedUp(id) == uses[id] >= 1
Usable(id) == id \notin cancelled /\ ~ UsedUp(id)
InForce(l, now) == l.issued_at <= now /\ now < l.expires_at
Covers(l, request, base) ==
    request = l.request /\ base.matched_grant_ids = l.review_grant_ids

Redeemable(id, request, base, now) ==
    /\ base.verdict = "REVIEW"
    /\ Usable(id)
    /\ InForce(lease[id], now)
    /\ Covers(lease[id], request, base)

\* Mutant: uses are counted down.
RedeemCountsDown(id, request, base, now) ==
    /\ Issued(id) /\ Redeemable(id, request, base, now)
    /\ uses' = [uses EXCEPT ![id] = @ - 1]
    /\ AppendEvent("REDEEMED", id, now)
    /\ releases' = Append(releases, [lease_id |-> id, request |-> request,
                                     grants |-> base.matched_grant_ids, at |-> now])
    /\ UNCHANGED <<lease, cancelled>>

\* redeem, authorized: the use is counted before the caller can execute.
Redeem(id, request, base, now) ==
    /\ Issued(id) /\ Redeemable(id, request, base, now)
    /\ uses' = [uses EXCEPT ![id] = @ + 1]
    /\ AppendEvent("REDEEMED", id, now)
    /\ releases' = Append(releases, [lease_id |-> id, request |-> request,
                                     grants |-> base.matched_grant_ids, at |-> now])
    /\ UNCHANGED <<lease, cancelled>>

\* redeem, refused by one of the checks of a known lease.  An unknown lease id
\* is refused without an event.
Reject(id, request, base, now) ==
    /\ Issued(id) /\ ~ Redeemable(id, request, base, now)
    /\ AppendEvent("REJECTED", id, now)
    /\ UNCHANGED <<lease, uses, cancelled, releases>>

Room == Len(events) < MaxEvents

Call(id) ==
    \/ \E now \in Times : Cancel(id, now)
    \/ \E request \in Requests, base \in Decisions, now \in Times :
          \/ \E expires \in Times : IssueForReview(id, request, base, now, expires)
          \/ Redeem(id, request, base, now)
          \/ Reject(id, request, base, now)

\* The event list has reached its bound; nothing more is explored.
Full == ~ Room /\ UNCHANGED vars

Next ==
    \/ Room /\ \E id \in LeaseIds : Call(id) \/ CancelNaive(id)
    \/ Full

Spec == Init /\ [][Next]_vars

-----------------------------------------------------------------------------
TypeOK ==
    /\ lease \in [LeaseIds -> Leases \union {NoLease}]
    /\ uses \in [LeaseIds -> Nat]
    /\ cancelled \subseteq LeaseIds
    /\ events \in Seq([event : {"ISSUED", "CANCELLED", "REDEEMED", "REJECTED"},
                       lease_id : LeaseIds, at : Times])
    /\ releases \in Seq([lease_id : LeaseIds, request : Requests,
                         grants : GrantLists, at : Times])

\* One approval releases one execution: no lease is redeemed twice, however
\* callers race (the use counter and its check share one critical section).
OneReleasePerLease ==
    \A i, j \in DOMAIN releases : releases[i].lease_id = releases[j].lease_id => i = j

\* A release is for the request and the policy the human approved, on a clock
\* reading inside the lease's window.
ReleasesMatchApproval ==
    \A i \in DOMAIN releases :
        LET l == lease[releases[i].lease_id]
        IN  /\ l # NoLease
            /\ releases[i].request = l.request
            /\ releases[i].grants = l.review_grant_ids
            /\ l.issued_at <= releases[i].at /\ releases[i].at < l.expires_at

\* Whatever happens to a lease, its issue comes before.
IssuedFirst ==
    \A j \in DOMAIN events : \E i \in 1 .. j :
        events[i].lease_id = events[j].lease_id /\ events[i].event = "ISSUED"

\* The event chain tells a lease's story in order: issued first and once,
\* redeemed at most once, and never redeemed after its cancellation.
EventsTellTheStory ==
    /\ IssuedFirst
    /\ \A i, j \in DOMAIN events :
          (events[i].lease_id = events[j].lease_id /\ i < j) =>
              /\ events[j].event # "ISSUED"
              /\ ~ (events[i].event = "REDEEMED" /\ events[j].event = "REDEEMED")
              /\ ~ (events[i].event = "CANCELLED" /\ events[j].event = "REDEEMED")
              /\ ~ (events[i].event = "CANCELLED" /\ events[j].event = "CANCELLED")

\* A lease that is cancelled releases nothing any more, whether or not the
\* cancellation left an event.
NoReleaseOnceCancelled ==
    [][\A id \in cancelled : uses'[id] = uses[id]]_vars

\* Every cancellation in force is on record ("hash-chained Review Event
\* Receipts for ISSUE / REDEEM / CANCEL / REJECT events").
CancellationsOnRecord ==
    \A id \in cancelled : \E i \in DOMAIN events :
        events[i].event = "CANCELLED" /\ events[i].lease_id = id

IssueOnRecord(id) ==
    \E i \in DOMAIN events : events[i].lease_id = id /\ events[i].event = "ISSUED"

\* The strengthening that makes the broker's invariants inductive: the counter,
\* the cancelled set and the lease table account for what the events and the
\* releases say.
BookKeeping ==
    /\ \A id \in LeaseIds : Issued(id) => IssueOnRecord(id)
    /\ \A id \in cancelled : Issued(id)
    /\ \A i \in DOMAIN releases : uses[releases[i].lease_id] >= 1
    /\ \A i \in DOMAIN events :
          /\ Issued(events[i].lease_id)
          /\ events[i].event = "REDEEMED" => uses[events[i].lease_id] >= 1
          /\ events[i].event = "CANCELLED" => events[i].lease_id \in cancelled

IInv ==
    TypeOK /\ BookKeeping /\ OneReleasePerLease /\ ReleasesMatchApproval /\ EventsTellTheStory

=============================================================================
