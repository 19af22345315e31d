------------------------- MODULE ReviewBrokerProofs -------------------------
(***************************************************************************)
(* The review broker's properties for every set of leases, requests,       *)
(* policies and timestamps.                                                *)
(***************************************************************************)
EXTENDS ReviewBroker, TLAPS

\* What appending one element does to a sequence.
LEMMA AppendFacts ==
    ASSUME NEW S, NEW s \in Seq(S), NEW e \in S
    PROVE  /\ Append(s, e) \in Seq(S)
           /\ Len(s) \in Nat
           /\ DOMAIN s = 1 .. Len(s)
           /\ DOMAIN Append(s, e) = 1 .. (Len(s) + 1)
           /\ \A i \in DOMAIN s : Append(s, e)[i] = s[i]
           /\ Append(s, e)[Len(s) + 1] = e
  OBVIOUS

EventSet == [event : {"ISSUED", "CANCELLED", "REDEEMED", "REJECTED"},
             lease_id : LeaseIds, at : Times]
ReleaseSet == [lease_id : LeaseIds, request : Requests, grants : GrantLists, at : Times]

\* The event a method appends is typed, and what the new event list holds.
LEMMA EventAppended ==
    ASSUME TypeOK, NEW ev \in {"ISSUED", "CANCELLED", "REDEEMED", "REJECTED"},
           NEW id \in LeaseIds, NEW at \in Times, AppendEvent(ev, id, at)
    PROVE  /\ events' \in Seq(EventSet)
           /\ Len(events) \in Nat
           /\ DOMAIN events = 1 .. Len(events)
           /\ DOMAIN events' = 1 .. (Len(events) + 1)
           /\ \A i \in DOMAIN events : events'[i] = events[i]
           /\ events'[Len(events) + 1].event = ev
           /\ events'[Len(events) + 1].lease_id = id
  <1> DEFINE e == [event |-> ev, lease_id |-> id, at |-> at]
  <1>1. e \in EventSet /\ events \in Seq(EventSet) /\ events' = Append(events, e)
    BY DEF TypeOK, AppendEvent, EventSet
  <1> HIDE DEF e
  <1>2. e.event = ev /\ e.lease_id = id
    BY DEF e
  <1> QED
    BY <1>1, <1>2, AppendFacts

\* The elements of the two lists name leases of the broker.
LEMMA Elements ==
    ASSUME TypeOK
    PROVE  /\ \A i \in DOMAIN events : events[i].lease_id \in LeaseIds
           /\ \A i \in DOMAIN releases : releases[i].lease_id \in LeaseIds
  <1>1. events \in Seq(EventSet) /\ releases \in Seq(ReleaseSet)
    BY DEF TypeOK, EventSet, ReleaseSet
  <1>2. /\ \A i \in DOMAIN events : events[i] \in EventSet
        /\ \A i \in DOMAIN releases : releases[i] \in ReleaseSet
    BY <1>1
  <1> QED
    BY <1>2 DEF EventSet, ReleaseSet

\* One more event: what is on record stays there, and an event of a lease that is
\* on record, or is its issue, comes after the issue.
LEMMA RecordGrows ==
    ASSUME IInv, Len(events) \in Nat, DOMAIN events = 1 .. Len(events),
           DOMAIN events' = 1 .. (Len(events) + 1),
           \A i \in DOMAIN events : events'[i] = events[i],
           LET e == events'[Len(events) + 1]
           IN  e.event = "ISSUED" \/ IssueOnRecord(e.lease_id)
    PROVE  /\ IssuedFirst'
           /\ \A id : IssueOnRecord(id) => IssueOnRecord(id)'
  <1>1. ASSUME NEW j \in DOMAIN events'
        PROVE  \E i \in 1 .. j : events'[i].lease_id = events'[j].lease_id
                                 /\ events'[i].event = "ISSUED"
    <2>1. CASE j \in DOMAIN events
      BY <2>1 DEF IInv, EventsTellTheStory, IssuedFirst
    <2>2. CASE j = Len(events) + 1
      BY <2>2 DEF IssueOnRecord
    <2> QED
      BY <1>1, <2>1, <2>2
  <1> QED
    BY <1>1 DEF IssuedFirst, IssueOnRecord

\* A lease for review keeps the invariant: the id was not in use, so nothing on
\* record mentions it.
LEMMA IssueStep ==
    ASSUME IInv, NEW id \in LeaseIds, NEW request \in Requests, NEW base \in Decisions,
           NEW t \in Times, NEW expires \in Times,
           IssueForReview(id, request, base, t, expires)
    PROVE  IInv'
  <1> DEFINE l == [request |-> request, review_grant_ids |-> base.matched_grant_ids,
                   issued_at |-> t, expires_at |-> expires]
  <1>1. l \in Leases
    <2>1. base.matched_grant_ids \in GrantLists
      BY DEF IssueForReview, Decisions
    <2> QED
      BY <2>1, BrokerAssumption DEF Leases
  <1>2. /\ ~ Issued(id) /\ lease' = [lease EXCEPT ![id] = l] /\ uses' = [uses EXCEPT ![id] = 0]
        /\ AppendEvent("ISSUED", id, t) /\ cancelled' = cancelled /\ releases' = releases
    BY DEF IssueForReview, Register
  <1> HIDE DEF l
  <1>3. /\ events' \in Seq(EventSet) /\ Len(events) \in Nat
        /\ DOMAIN events = 1 .. Len(events) /\ DOMAIN events' = 1 .. (Len(events) + 1)
        /\ \A i \in DOMAIN events : events'[i] = events[i]
        /\ events'[Len(events) + 1].event = "ISSUED" /\ events'[Len(events) + 1].lease_id = id
    BY <1>2, EventAppended DEF IInv
  <1>4. TypeOK'
    BY <1>1, <1>2, <1>3 DEF IInv, TypeOK, EventSet
  <1>5. \A i \in DOMAIN releases : releases[i].lease_id \in LeaseIds /\ releases[i].lease_id # id
    BY <1>2, Elements DEF IInv, ReleasesMatchApproval, Issued
  <1>6. \A i \in DOMAIN events : events[i].lease_id \in LeaseIds /\ events[i].lease_id # id
    BY <1>2, Elements DEF IInv, BookKeeping
  <1>7. NoLease \notin Leases
    BY DEF NoLease, Leases
  <1>8. BookKeeping'
    <2>1. /\ lease'[id] # NoLease
          /\ \A other \in LeaseIds : other # id => /\ uses'[other] = uses[other]
                                                 /\ lease'[other] = lease[other]
      BY <1>1, <1>2, <1>7 DEF IInv, TypeOK
    <2>2. \A i \in DOMAIN releases' : uses'[releases'[i].lease_id] >= 1
      BY <1>2, <1>5, <2>1 DEF IInv, BookKeeping
    <2>3. ASSUME NEW i \in DOMAIN events'
          PROVE  /\ lease'[events'[i].lease_id] # NoLease
                 /\ events'[i].event = "REDEEMED" => uses'[events'[i].lease_id] >= 1
                 /\ events'[i].event = "CANCELLED" => events'[i].lease_id \in cancelled'
      <3>1. CASE i = Len(events) + 1
        BY <1>3, <2>1, <3>1
      <3>2. CASE i \in DOMAIN events
        BY <1>2, <1>3, <1>6, <2>1, <3>2 DEF IInv, BookKeeping, Issued
      <3> QED
        BY <1>3, <3>1, <3>2
    <2>4. \A other \in cancelled' : lease'[other] # NoLease
      BY <1>2, <2>1 DEF IInv, TypeOK, BookKeeping, Issued
    <2>5. \A other \in LeaseIds : lease'[other] # NoLease => IssueOnRecord(other)'
      <3>1. IssueOnRecord(id)'
        BY <1>3 DEF IssueOnRecord
      <3> QED
        BY <1>3, <2>1, <3>1, RecordGrows DEF IInv, BookKeeping, Issued
    <2> QED
      BY <2>2, <2>3, <2>4, <2>5 DEF BookKeeping, Issued
  <1>9. OneReleasePerLease' /\ ReleasesMatchApproval'
    BY <1>2, <1>5 DEF IInv, TypeOK, OneReleasePerLease, ReleasesMatchApproval
  <1>10. EventsTellTheStory'
    BY <1>3, <1>6, RecordGrows DEF IInv, EventsTellTheStory
  <1> QED
    BY <1>4, <1>8, <1>9, <1>10 DEF IInv

\* A cancellation, recorded or not, keeps the invariant.
LEMMA CancelStep ==
    ASSUME IInv, NEW id \in LeaseIds, NEW t \in Times, Cancel(id, t) \/ CancelNaive(id)
    PROVE  IInv'
  <1>1. /\ Issued(id) /\ id \notin cancelled /\ cancelled' = cancelled \union {id}
        /\ lease' = lease /\ uses' = uses /\ releases' = releases
    BY DEF Cancel, CancelNaive
  <1>2. OneReleasePerLease' /\ ReleasesMatchApproval'
    BY <1>1 DEF IInv, OneReleasePerLease, ReleasesMatchApproval
  <1>3. CASE Cancel(id, t)
    <2>1. /\ events' \in Seq(EventSet) /\ Len(events) \in Nat
          /\ DOMAIN events = 1 .. Len(events) /\ DOMAIN events' = 1 .. (Len(events) + 1)
          /\ \A i \in DOMAIN events : events'[i] = events[i]
          /\ events'[Len(events) + 1].event = "CANCELLED"
          /\ events'[Len(events) + 1].lease_id = id
      BY <1>3, EventAppended DEF IInv, Cancel
    <2>2. IssuedFirst' /\ \A other : IssueOnRecord(other) => IssueOnRecord(other)'
      BY <1>1, <2>1, RecordGrows DEF IInv, BookKeeping
    <2>3. TypeOK'
      BY <1>1, <2>1 DEF IInv, TypeOK, EventSet
    <2>4. BookKeeping'
      BY <1>1, <2>1, <2>2 DEF IInv, BookKeeping, Issued
    <2>5. EventsTellTheStory'
      BY <1>1, <2>1, <2>2 DEF IInv, BookKeeping, EventsTellTheStory
    <2> QED
      BY <1>2, <2>3, <2>4, <2>5 DEF IInv
  <1>4. CASE CancelNaive(id)
    <2>1. events' = events
      BY <1>4 DEF CancelNaive
    <2> QED
      BY <1>1, <1>2, <2>1 DEF IInv, TypeOK, BookKeeping, Issued, IssueOnRecord,
           EventsTellTheStory, IssuedFirst
  <1> QED
    BY <1>3, <1>4

\* A refused redemption only adds an event of its own kind.
LEMMA RejectStep ==
    ASSUME IInv, NEW id \in LeaseIds, NEW request, NEW base, NEW t \in Times,
           Reject(id, request, base, t)
    PROVE  IInv'
  <1>1. /\ Issued(id) /\ cancelled' = cancelled /\ lease' = lease /\ uses' = uses
        /\ releases' = releases
    BY DEF Reject
  <1>2. /\ events' \in Seq(EventSet) /\ Len(events) \in Nat
        /\ DOMAIN events = 1 .. Len(events) /\ DOMAIN events' = 1 .. (Len(events) + 1)
        /\ \A i \in DOMAIN events : events'[i] = events[i]
        /\ events'[Len(events) + 1].event = "REJECTED"
        /\ events'[Len(events) + 1].lease_id = id
    BY EventAppended DEF IInv, Reject
  <1>3. TypeOK'
    BY <1>1, <1>2 DEF IInv, TypeOK, EventSet
  <1>4. IssuedFirst' /\ \A other : IssueOnRecord(other) => IssueOnRecord(other)'
    BY <1>1, <1>2, RecordGrows DEF IInv, BookKeeping
  <1>5. BookKeeping'
    BY <1>1, <1>2, <1>4 DEF IInv, BookKeeping, Issued
  <1>6. OneReleasePerLease' /\ ReleasesMatchApproval'
    BY <1>1 DEF IInv, OneReleasePerLease, ReleasesMatchApproval
  <1>7. EventsTellTheStory'
    BY <1>2, <1>4 DEF IInv, EventsTellTheStory
  <1> QED
    BY <1>3, <1>5, <1>6, <1>7 DEF IInv

\* A redemption is the first of its lease, and the lease is not cancelled.
LEMMA RedeemStep ==
    ASSUME IInv, NEW id \in LeaseIds, NEW request \in Requests, NEW base \in Decisions,
           NEW t \in Times, Redeem(id, request, base, t)
    PROVE  IInv'
  <1> DEFINE r == [lease_id |-> id, request |-> request,
                   grants |-> base.matched_grant_ids, at |-> t]
  <1>1. /\ Issued(id) /\ id \notin cancelled /\ uses[id] = 0
        /\ uses' = [uses EXCEPT ![id] = 1]
        /\ cancelled' = cancelled /\ lease' = lease
    <2>1. /\ Issued(id) /\ id \notin cancelled /\ ~ (uses[id] >= 1)
          /\ uses' = [uses EXCEPT ![id] = uses[id] + 1]
          /\ cancelled' = cancelled /\ lease' = lease
      BY DEF Redeem, Redeemable, Usable, UsedUp
    <2>2. uses[id] \in Nat
      BY DEF IInv, TypeOK
    <2>3. uses[id] = 0
      BY <2>1, <2>2
    <2> QED
      BY <2>1, <2>3
  <1>2. /\ events' \in Seq(EventSet) /\ Len(events) \in Nat
        /\ DOMAIN events = 1 .. Len(events) /\ DOMAIN events' = 1 .. (Len(events) + 1)
        /\ \A i \in DOMAIN events : events'[i] = events[i]
        /\ events'[Len(events) + 1].event = "REDEEMED"
        /\ events'[Len(events) + 1].lease_id = id
    BY EventAppended DEF IInv, Redeem
  <1>3. r \in ReleaseSet /\ releases \in Seq(ReleaseSet) /\ releases' = Append(releases, r)
    <2>1. base.matched_grant_ids \in GrantLists
      BY DEF Redeem, Redeemable, Decisions
    <2> QED
      BY <2>1 DEF Redeem, ReleaseSet, IInv, TypeOK
  <1>4. /\ r.lease_id = id /\ r.request = lease[id].request
        /\ r.grants = lease[id].review_grant_ids
        /\ lease[id].issued_at <= r.at /\ r.at < lease[id].expires_at
    BY DEF Redeem, Redeemable, InForce, Covers
  <1> HIDE DEF r
  <1>5. /\ releases' \in Seq(ReleaseSet) /\ Len(releases) \in Nat
        /\ DOMAIN releases = 1 .. Len(releases) /\ DOMAIN releases' = 1 .. (Len(releases) + 1)
        /\ \A i \in DOMAIN releases : releases'[i] = releases[i]
        /\ releases'[Len(releases) + 1] = r
    BY <1>3, AppendFacts
  <1>6. TypeOK'
    BY <1>1, <1>2, <1>5 DEF IInv, TypeOK, EventSet, ReleaseSet
  <1>7. /\ \A i \in DOMAIN releases : releases[i].lease_id \in LeaseIds /\ releases[i].lease_id # id
        /\ \A i \in DOMAIN events : /\ events[i].lease_id \in LeaseIds
                                    /\ events[i].event = "REDEEMED" => events[i].lease_id # id
                                    /\ events[i].event = "CANCELLED" => events[i].lease_id # id
    BY <1>1, Elements DEF IInv, BookKeeping
  <1>8. IssuedFirst' /\ \A other : IssueOnRecord(other) => IssueOnRecord(other)'
    BY <1>1, <1>2, RecordGrows DEF IInv, BookKeeping
  <1>9. BookKeeping'
    <2>1. uses'[id] = 1 /\ \A other \in LeaseIds : other # id => uses'[other] = uses[other]
      BY <1>1 DEF IInv, TypeOK
    <2>2. \A i \in DOMAIN releases' : uses'[releases'[i].lease_id] >= 1
      BY <1>4, <1>5, <1>7, <2>1 DEF IInv, BookKeeping
    <2>3. ASSUME NEW i \in DOMAIN events'
          PROVE  /\ lease'[events'[i].lease_id] # NoLease
                 /\ events'[i].event = "REDEEMED" => uses'[events'[i].lease_id] >= 1
                 /\ events'[i].event = "CANCELLED" => events'[i].lease_id \in cancelled'
      <3>1. CASE i = Len(events) + 1
        BY <1>1, <1>2, <2>1, <3>1 DEF Issued
      <3>2. CASE i \in DOMAIN events
        BY <1>1, <1>2, <1>7, <2>1, <3>2 DEF IInv, BookKeeping, Issued
      <3> QED
        BY <1>2, <3>1, <3>2
    <2>4. \A other \in cancelled' : lease'[other] # NoLease
      BY <1>1 DEF IInv, BookKeeping, Issued
    <2>5. \A other \in LeaseIds : lease'[other] # NoLease => IssueOnRecord(other)'
      BY <1>1, <1>8 DEF IInv, BookKeeping, Issued
    <2> QED
      BY <2>2, <2>3, <2>4, <2>5 DEF BookKeeping, Issued
  <1>10. OneReleasePerLease'
    BY <1>4, <1>5, <1>7 DEF IInv, OneReleasePerLease
  <1>11. ReleasesMatchApproval'
    BY <1>1, <1>4, <1>5 DEF IInv, ReleasesMatchApproval, Issued
  <1>12. EventsTellTheStory'
    BY <1>2, <1>7, <1>8 DEF IInv, EventsTellTheStory
  <1> QED
    BY <1>6, <1>9, <1>10, <1>11, <1>12 DEF IInv

\* The strengthened invariant holds after every call of the broker.
THEOREM Inductive == Spec => []IInv
  <1>1. Init => IInv
    BY DEF Init, IInv, TypeOK, BookKeeping, OneReleasePerLease, ReleasesMatchApproval,
           EventsTellTheStory, IssuedFirst, Issued
  <1>2. IInv /\ [Next]_vars => IInv'
    <2> SUFFICES ASSUME IInv, [Next]_vars PROVE IInv'
      OBVIOUS
    <2>1. CASE UNCHANGED vars
      BY <2>1 DEF vars, IInv, TypeOK, BookKeeping, OneReleasePerLease, ReleasesMatchApproval,
                  EventsTellTheStory, IssuedFirst, Issued, IssueOnRecord
    <2>2. ASSUME NEW id \in LeaseIds, Call(id) PROVE IInv'
      BY <2>2, IssueStep, CancelStep, RejectStep, RedeemStep DEF Call
    <2>3. ASSUME NEW id \in LeaseIds, CancelNaive(id) PROVE IInv'
      <3>1. CASE Times = {}
        BY <2>3, <3>1, BrokerAssumption DEF IInv, TypeOK, BookKeeping, Issued, CancelNaive,
             OneReleasePerLease, ReleasesMatchApproval, EventsTellTheStory, IssuedFirst,
             IssueOnRecord
      <3>2. CASE Times # {}
        BY <2>3, <3>2, CancelStep
      <3> QED
        BY <3>1, <3>2
    <2> QED
      BY <2>1, <2>2, <2>3 DEF Next, Full
  <1> QED
    BY <1>1, <1>2, PTL DEF Spec

\* Type correctness of the broker.
THEOREM TypeCorrect == Spec => []TypeOK
  <1>1. IInv => TypeOK
    BY DEF IInv
  <1> QED
    BY <1>1, Inductive, PTL

\* One approval, one release, for every broker.
THEOREM OneReleasePerLeaseAlways == Spec => []OneReleasePerLease
  <1>1. IInv => OneReleasePerLease
    BY DEF IInv
  <1> QED
    BY <1>1, Inductive, PTL

\* A release is what the human approved, under the policy the human saw, in time.
THEOREM ReleasesMatchApprovalAlways == Spec => []ReleasesMatchApproval
  <1>1. IInv => ReleasesMatchApproval
    BY DEF IInv
  <1> QED
    BY <1>1, Inductive, PTL

\* The event chain of every lease is issued, then at most once redeemed, and
\* not redeemed after its cancellation.
THEOREM EventsTellTheStoryAlways == Spec => []EventsTellTheStory
  <1>1. IInv => EventsTellTheStory
    BY DEF IInv
  <1> QED
    BY <1>1, Inductive, PTL

\* Once cancelled, a lease releases nothing, also when its cancellation left no
\* event because of a naive timestamp.
THEOREM NoReleaseOnceCancelledAlways == Spec => NoReleaseOnceCancelled
  <1>1. IInv /\ [Next]_vars => [\A id \in cancelled : uses'[id] = uses[id]]_vars
    <2> SUFFICES ASSUME IInv, Next, NEW id \in cancelled PROVE uses'[id] = uses[id]
      BY DEF vars
    <2>1. CASE Full
      BY <2>1 DEF Full, vars
    <2>2. ASSUME NEW other \in LeaseIds, Call(other) \/ CancelNaive(other)
          PROVE  uses'[id] = uses[id]
      <3>1. id \in LeaseIds /\ uses \in [LeaseIds -> Nat]
        BY DEF IInv, TypeOK
      <3>2. CASE uses' = uses
        BY <3>2
      <3>3. ASSUME NEW request, NEW base, NEW t, Redeem(other, request, base, t)
            PROVE  uses'[id] = uses[id]
        BY <3>1, <3>3 DEF Redeem, Redeemable, Usable
      <3>4. ASSUME NEW l, Register(other, l) PROVE uses'[id] = uses[id]
        BY <3>1, <3>4 DEF Register, IInv, BookKeeping
      <3> QED
        BY <2>2, <3>2, <3>3, <3>4 DEF Call, CancelNaive, Cancel, Reject, IssueForReview
    <2> QED
      BY <2>1, <2>2 DEF Next
  <1> QED
    BY <1>1, Inductive, PTL DEF Spec, NoReleaseOnceCancelled

=============================================================================
