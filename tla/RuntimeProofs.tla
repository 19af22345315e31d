--------------------------- MODULE RuntimeProofs ---------------------------
(***************************************************************************)
(* The in-process runtime's properties for any number of runtimes, any     *)
(* requests, registry and leases.                                          *)
(***************************************************************************)
EXTENDS Runtime, ChainLemmas

-----------------------------------------------------------------------------
(* The broker inside the runtime: its own proofs, for what the runtimes do *)
(* with it.                                                                *)

Proved == INSTANCE ReviewBrokerProofs WITH Times <- {Now, Now + 1}, MaxEvents <- 0

\* What the gate says of a request has a verdict and the grants it rests on.
LEMMA BaseShape ==
    ASSUME NEW request \in Requests
    PROVE  /\ Base[request].verdict \in {"ALLOW", "REVIEW", "DENY"}
           /\ Base[request].matched_grant_ids \in GrantLists
           /\ Base[request].verdict = "REVIEW" => Base[request] \in Proved!Decisions
  <1>1. \E v \in {"ALLOW", "REVIEW", "DENY"} : \E ids : Base[request] = GateDecision(v, ids)
    BY DEF Base, Evaluate
  <1>2. Base[request].matched_grant_ids \in GrantLists
    BY DEF GrantLists
  <1> QED
    BY <1>1, <1>2 DEF GateDecision, Proved!Decisions

\* The two instances of the broker say the same.
LEMMA SameBroker == (Broker!IInv <=> Proved!IInv) /\ (Broker!IInv' <=> Proved!IInv')
  BY DEF Broker!IInv, Proved!IInv, Broker!TypeOK, Proved!TypeOK, Broker!BookKeeping,
         Proved!BookKeeping, Broker!OneReleasePerLease, Proved!OneReleasePerLease,
         Broker!ReleasesMatchApproval, Proved!ReleasesMatchApproval, Broker!EventsTellTheStory,
         Proved!EventsTellTheStory, Broker!IssuedFirst, Proved!IssuedFirst,
         Broker!IssueOnRecord, Proved!IssueOnRecord, Broker!Issued, Proved!Issued, Broker!NoLease, Proved!NoLease,
         Broker!Leases, Proved!Leases

\* The runtimes and the reviewer use the broker through its methods only, so its
\* invariant holds here too.
LEMMA BrokerKeeps ==
    ASSUME Broker!IInv, NEW id \in LeaseIds, NEW request \in Requests,
           \/ Broker!IssueForReview(id, request, Base[request], Now, Now + 1)
           \/ Base[request].verdict = "REVIEW" /\ Broker!Redeem(id, request, Base[request], Now)
           \/ Broker!Reject(id, request, Base[request], Now)
    PROVE  Broker!IInv'
  <1>1. {Now, Now + 1} \subseteq Nat /\ 0 \in Nat
        /\ Now \in {Now, Now + 1} /\ Now + 1 \in {Now, Now + 1}
    BY DEF Now
  <1>2. CASE Broker!IssueForReview(id, request, Base[request], Now, Now + 1)
    <2>1. Proved!IssueForReview(id, request, Base[request], Now, Now + 1)
          /\ Base[request].verdict = "REVIEW"
      BY <1>2 DEF Broker!IssueForReview, Proved!IssueForReview, Broker!Register, Proved!Register,
                  Broker!Issued, Proved!Issued, Broker!NoLease, Proved!NoLease,
                  Broker!AppendEvent, Proved!AppendEvent
    <2> QED
      BY <1>1, <2>1, BaseShape, Proved!IssueStep, SameBroker
  <1>3. CASE Base[request].verdict = "REVIEW" /\ Broker!Redeem(id, request, Base[request], Now)
    <2>1. Proved!Redeem(id, request, Base[request], Now)
      BY <1>3 DEF Broker!Redeem, Proved!Redeem, Broker!Redeemable, Proved!Redeemable,
                  Broker!Usable, Proved!Usable, Broker!UsedUp, Proved!UsedUp,
                  Broker!InForce, Proved!InForce, Broker!Covers, Proved!Covers,
                  Broker!Issued, Proved!Issued, Broker!NoLease, Proved!NoLease,
                  Broker!AppendEvent, Proved!AppendEvent
    <2> QED
      BY <1>1, <1>3, <2>1, BaseShape, Proved!RedeemStep, SameBroker
  <1>4. CASE Broker!Reject(id, request, Base[request], Now)
    <2>1. Proved!Reject(id, request, Base[request], Now)
      BY <1>4 DEF Broker!Reject, Proved!Reject, Broker!Redeemable, Proved!Redeemable,
                  Broker!Usable, Proved!Usable, Broker!UsedUp, Proved!UsedUp,
                  Broker!InForce, Proved!InForce, Broker!Covers, Proved!Covers,
                  Broker!Issued, Proved!Issued, Broker!NoLease, Proved!NoLease,
                  Broker!AppendEvent, Proved!AppendEvent
    <2> QED
      BY <1>1, <2>1, Proved!RejectStep, SameBroker
  <1> QED
    BY <1>2, <1>3, <1>4

\* The same for a cancellation, which is about no request.
LEMMA BrokerKeepsCancel ==
    ASSUME Broker!IInv, NEW id \in LeaseIds, Broker!Cancel(id, Now)
    PROVE  Broker!IInv'
  <1>1. {Now, Now + 1} \subseteq Nat /\ 0 \in Nat /\ Now \in {Now, Now + 1}
    BY DEF Now
  <1>2. Proved!Cancel(id, Now)
    BY DEF Broker!Cancel, Proved!Cancel, Broker!Issued, Proved!Issued, Broker!NoLease,
           Proved!NoLease, Broker!AppendEvent, Proved!AppendEvent
  <1> QED
    BY <1>1, <1>2, Proved!CancelStep, SameBroker

\* What the broker's invariant says of leases, uses and releases.
LEMMA BrokerFacts ==
    ASSUME Broker!IInv
    PROVE  /\ \A k \in DOMAIN releases : lease[releases[k].lease_id] # Broker!NoLease
                                        /\ uses[releases[k].lease_id] >= 1
           /\ Len(releases) \in Nat /\ DOMAIN releases = 1 .. Len(releases)
           /\ DOMAIN lease = LeaseIds
  BY DEF Broker!IInv, Broker!TypeOK, Broker!BookKeeping, Broker!ReleasesMatchApproval

-----------------------------------------------------------------------------
(* Executions follow the policy, and no lease releases two of them.        *)

\* Leases and redemptions on record stay there.
Grows ==
    /\ leaseLedger \subseteq leaseLedger'
    /\ \A id \in LeaseIds : lease[id] # Broker!NoLease => lease'[id] = lease[id]
    /\ \A k \in DOMAIN releases : k \in DOMAIN releases' /\ releases'[k] = releases[k]

\* Permitted, after the step.
PermittedNext(request, via) ==
    LET base == Base[request]
        approved(l) == l.request = request /\ l.review_grant_ids = base.matched_grant_ids
    IN  \/ base.verdict = "ALLOW" /\ via = NoVia
        \/ base.verdict = "REVIEW" /\ via.kind = "signed"
             /\ \E row \in leaseLedger' :
                   row.lease_id = via.lease_id /\ approved(row.envelope.body)
        \/ base.verdict = "REVIEW" /\ via.kind = "broker"
             /\ approved(lease'[via.lease_id])
             /\ \E k \in DOMAIN releases' : releases'[k].lease_id = via.lease_id

\* What was permitted stays permitted.
LEMMA PermittedStays ==
    ASSUME Broker!IInv, Grows, NEW request, NEW via \in Vias, Permitted(request, via)
    PROVE  PermittedNext(request, via)
  <1>1. CASE Base[request].verdict = "ALLOW" /\ via = NoVia
    BY <1>1 DEF PermittedNext
  <1>2. CASE Base[request].verdict = "REVIEW" /\ via.kind = "signed"
    BY <1>2 DEF Permitted, PermittedNext, Grows
  <1>3. CASE Base[request].verdict = "REVIEW" /\ via.kind = "broker"
    <2>1. via.lease_id \in LeaseIds
      BY <1>3 DEF Vias, NoVia
    <2>2. PICK k \in DOMAIN releases : releases[k].lease_id = via.lease_id
      BY <1>3 DEF Permitted
    <2>3. lease'[via.lease_id] = lease[via.lease_id]
      BY <2>1, <2>2, BrokerFacts DEF Grows
    <2>4. k \in DOMAIN releases' /\ releases'[k].lease_id = via.lease_id
      BY <2>2 DEF Grows
    <2>5. /\ lease[via.lease_id].request = request
          /\ lease[via.lease_id].review_grant_ids = Base[request].matched_grant_ids
      BY <1>3 DEF Permitted
    <2> QED
      BY <1>3, <2>3, <2>4, <2>5 DEF PermittedNext
  <1> QED
    BY <1>1, <1>2, <1>3 DEF Permitted

\* Types of what PolicyInv speaks of.
LEMMA PolicyTypes ==
    ASSUME Types
    PROVE  /\ \A i \in DOMAIN executions : executions[i].via \in Vias
                                          /\ executions[i].request \in Requests
           /\ \A r \in Runtimes : job[r].stage = "decided" =>
                 job[r].via \in Vias /\ job[r].request \in Requests
           /\ Len(executions) \in Nat /\ DOMAIN executions = 1 .. Len(executions)
  <1>1. \A r \in Runtimes : job[r] \in Jobs
    BY DEF Types
  <1>2. \A j \in Jobs : j.stage = "decided" => j.via \in Vias /\ j.request \in Requests
    BY DEF Jobs, Idle
  <1>3. \A i \in DOMAIN executions : executions[i] \in Executions
    BY DEF Types
  <1>4. \A e \in Executions : e.via \in Vias /\ e.request \in Requests
    BY DEF Executions
  <1>5. Len(executions) \in Nat /\ DOMAIN executions = 1 .. Len(executions)
    BY DEF Types
  <1> QED
    BY <1>1, <1>2, <1>3, <1>4, <1>5

\* A step that makes no decision and executes nothing.
LEMMA OtherPolicy ==
    ASSUME Types, Broker!IInv, PolicyInv, Grows, executions' = executions,
           \A r \in Runtimes : job'[r].stage = "decided" => job'[r] = job[r]
    PROVE  PolicyInv'
  <1>1. ApprovalsExecuteOnce'
    BY DEF PolicyInv, ApprovalsExecuteOnce
  <1>2. \A i \in DOMAIN executions : PermittedNext(executions[i].request, executions[i].via)
    BY PolicyTypes, PermittedStays DEF PolicyInv, ExecutionsFollowPolicy
  <1>3. ExecutionsFollowPolicy'
    BY <1>2 DEF ExecutionsFollowPolicy, Permitted, PermittedNext
  <1>4. ASSUME NEW r \in Runtimes, job'[r].stage = "decided" PROVE DecisionSound(r)'
    <2>1. job'[r] = job[r] /\ job[r].stage = "decided" /\ DecisionSound(r)
      BY <1>4 DEF PolicyInv
    <2>2. job[r].verdict = "ALLOW" \/ job[r].via # NoVia
             => PermittedNext(job[r].request, job[r].via)
      BY <2>1, PolicyTypes, PermittedStays DEF DecisionSound
    <2>3. job[r].via # NoVia =>
              /\ \A i \in DOMAIN executions' : executions'[i].via # job[r].via
              /\ \A s \in Runtimes \ {r} : job'[s].stage = "decided" => job'[s].via # job[r].via
      BY <2>1 DEF DecisionSound
    <2> QED
      BY <2>1, <2>2, <2>3 DEF DecisionSound, Permitted, PermittedNext
  <1>5. \A r \in Runtimes : DecisionSound(r)'
    BY <1>4 DEF DecisionSound
  <1> QED
    BY <1>1, <1>3, <1>5 DEF PolicyInv

\* A decision, with a lease that nothing else holds or without one.
LEMMA DecidePolicy ==
    ASSUME Types, Broker!IInv, PolicyInv, Grows, NEW r \in Runtimes, NEW call \in Calls,
           NEW request \in Requests, NEW verdict \in {"ALLOW", "REVIEW", "DENY"},
           NEW via \in Vias, Decided(r, call, request, verdict, via),
           verdict = "ALLOW" \/ via # NoVia => PermittedNext(request, via),
           via # NoVia =>
              /\ \A i \in DOMAIN executions : executions[i].via # via
              /\ \A s \in Runtimes : job[s].stage = "decided" => job[s].via # via
    PROVE  PolicyInv'
  <1> DEFINE d == [stage |-> "decided", request |-> request, verdict |-> verdict, via |-> via,
                   signed |-> call.signed, naive |-> call.naive]
  <1>1. /\ job' = [job EXCEPT ![r] = d] /\ executions' = executions
        /\ d.stage = "decided" /\ d.request = request /\ d.verdict = verdict /\ d.via = via
    BY DEF Decided, chainVars
  <1> HIDE DEF d
  <1>2. job'[r] = d /\ \A s \in Runtimes \ {r} : job'[s] = job[s]
    BY <1>1 DEF Types
  <1>3. ApprovalsExecuteOnce'
    BY <1>1 DEF PolicyInv, ApprovalsExecuteOnce
  <1>4. \A i \in DOMAIN executions : PermittedNext(executions[i].request, executions[i].via)
    BY PolicyTypes, PermittedStays DEF PolicyInv, ExecutionsFollowPolicy
  <1>5. ExecutionsFollowPolicy'
    BY <1>1, <1>4 DEF ExecutionsFollowPolicy, Permitted, PermittedNext
  <1>6. DecisionSound(r)'
    BY <1>1, <1>2 DEF DecisionSound, Permitted, PermittedNext
  <1>7. ASSUME NEW s \in Runtimes \ {r} PROVE DecisionSound(s)'
    <2>1. job'[s] = job[s] /\ DecisionSound(s)
      BY <1>2 DEF PolicyInv
    <2>2. job[s].stage = "decided" /\ (job[s].verdict = "ALLOW" \/ job[s].via # NoVia)
             => PermittedNext(job[s].request, job[s].via)
      BY <2>1, PolicyTypes, PermittedStays DEF DecisionSound
    <2>3. job[s].stage = "decided" /\ job[s].via # NoVia =>
              /\ \A i \in DOMAIN executions' : executions'[i].via # job[s].via
              /\ \A o \in Runtimes \ {s} : job'[o].stage = "decided" => job'[o].via # job[s].via
      BY <1>1, <1>2, <2>1 DEF DecisionSound
    <2> QED
      BY <2>1, <2>2, <2>3 DEF DecisionSound, Permitted, PermittedNext
  <1> QED
    BY <1>3, <1>5, <1>6, <1>7 DEF PolicyInv

\* An execution takes over the lease of its decision.
LEMMA ExecutePolicy ==
    ASSUME Types, Broker!IInv, PolicyInv, Grows, NEW r \in Runtimes, Execute(r)
    PROVE  PolicyInv'
  <1>1. job[r].stage = "decided" /\ job[r].verdict = "ALLOW" /\ DecisionSound(r)
    BY DEF Execute, PolicyInv
  <1>2. PICK e : /\ e = [by |-> r, request |-> job[r].request, via |-> job[r].via]
                 /\ executions' = Append(executions, e)
    BY DEF Execute
  <1>3. e.request = job[r].request /\ e.via = job[r].via /\ e \in Executions
    BY <1>1, <1>2, PolicyTypes DEF Executions
  <1>4. /\ Len(executions) \in Nat /\ DOMAIN executions = 1 .. Len(executions)
        /\ DOMAIN executions' = 1 .. (Len(executions) + 1)
        /\ \A i \in DOMAIN executions : executions'[i] = executions[i]
        /\ executions'[Len(executions) + 1] = e
    BY <1>2, <1>3 DEF Types
  <1>5. job'[r].stage = "executed" /\ \A s \in Runtimes \ {r} : job'[s] = job[s]
    BY DEF Execute, Types
  <1>6. job[r].via # NoVia => \A i \in DOMAIN executions : executions[i].via # e.via
    BY <1>1, <1>3 DEF DecisionSound
  <1>7. ApprovalsExecuteOnce'
    BY <1>3, <1>4, <1>6 DEF PolicyInv, ApprovalsExecuteOnce
  <1>8. \A i \in DOMAIN executions : PermittedNext(executions[i].request, executions[i].via)
    BY PolicyTypes, PermittedStays DEF PolicyInv, ExecutionsFollowPolicy
  <1>9. PermittedNext(e.request, e.via)
    BY <1>1, <1>3, PolicyTypes, PermittedStays DEF DecisionSound
  <1>10. ASSUME NEW i \in DOMAIN executions'
         PROVE  PermittedNext(executions'[i].request, executions'[i].via)
    BY <1>4, <1>8, <1>9
  <1>11. ExecutionsFollowPolicy'
    BY <1>10 DEF ExecutionsFollowPolicy, Permitted, PermittedNext
  <1>12. ASSUME NEW s \in Runtimes PROVE DecisionSound(s)'
    <2>1. CASE s = r
      BY <1>5, <2>1 DEF DecisionSound
    <2>2. CASE s # r
      <3>1. job'[s] = job[s] /\ DecisionSound(s)
        BY <1>5, <2>2 DEF PolicyInv
      <3>2. job[s].stage = "decided" /\ (job[s].verdict = "ALLOW" \/ job[s].via # NoVia)
               => PermittedNext(job[s].request, job[s].via)
        BY <3>1, PolicyTypes, PermittedStays DEF DecisionSound
      <3>3. job[s].stage = "decided" /\ job[s].via # NoVia => e.via # job[s].via
        BY <1>1, <1>3, <2>2, <3>1 DEF DecisionSound
      <3>4. job[s].stage = "decided" /\ job[s].via # NoVia =>
                /\ \A i \in DOMAIN executions' : executions'[i].via # job[s].via
                /\ \A o \in Runtimes \ {s} : job'[o].stage = "decided" => job'[o].via # job[s].via
        BY <1>4, <1>5, <3>1, <3>3 DEF DecisionSound
      <3> QED
        BY <3>1, <3>2, <3>4 DEF DecisionSound, Permitted, PermittedNext
    <2> QED
      BY <2>1, <2>2
  <1> QED
    BY <1>7, <1>11, <1>12 DEF PolicyInv


\* A step that leaves the broker alone keeps its invariant.
LEMMA BrokerQuiet ==
    ASSUME Broker!IInv, UNCHANGED brokerVars PROVE Broker!IInv'
  BY DEF brokerVars, Broker!IInv, Broker!TypeOK, Broker!BookKeeping, Broker!OneReleasePerLease,
         Broker!ReleasesMatchApproval, Broker!EventsTellTheStory, Broker!IssuedFirst,
         Broker!Issued, Broker!IssueOnRecord, Broker!NoLease, Broker!Leases

\* A redemption at the broker: the lease was approved for the request, and no
\* redemption of it was on record.
LEMMA RedeemFacts ==
    ASSUME Broker!IInv, NEW id \in LeaseIds, NEW request \in Requests,
           Base[request].verdict = "REVIEW", Broker!Redeem(id, request, Base[request], Now)
    PROVE  /\ \A k \in DOMAIN releases : releases[k].lease_id # id /\ k \in DOMAIN releases'
                                         /\ releases'[k] = releases[k]
           /\ \E k \in DOMAIN releases' : releases'[k].lease_id = id
           /\ lease' = lease
           /\ lease[id].request = request
           /\ lease[id].review_grant_ids = Base[request].matched_grant_ids
  <1>1. PICK entry : releases' = Append(releases, entry) /\ entry.lease_id = id
    BY DEF Broker!Redeem
  <1>2. lease' = lease /\ Broker!Covers(lease[id], request, Base[request]) /\ ~ Broker!UsedUp(id)
    BY DEF Broker!Redeem, Broker!Redeemable, Broker!Usable
  <1>3. PICK S : releases \in Seq(S) /\ releases' \in Seq(S)
    BY BrokerKeeps DEF Broker!IInv, Broker!TypeOK
  <1>4. DOMAIN releases' = 1 .. (Len(releases) + 1)
        /\ releases'[Len(releases) + 1] = entry
        /\ \A k \in DOMAIN releases : k \in DOMAIN releases' /\ releases'[k] = releases[k]
    BY <1>1, <1>3, BrokerFacts
  <1>5. \A k \in DOMAIN releases : releases[k].lease_id # id
    BY <1>2, BrokerFacts DEF Broker!UsedUp
  <1> QED
    BY <1>1, <1>2, <1>4, <1>5, BrokerFacts DEF Broker!Covers

\* A call that is given a signed lease.
LEMMA SignedLeasePolicy ==
    ASSUME Types, Broker!IInv, PolicyInv, NEW r \in Runtimes, NEW call \in Calls,
           NEW request \in Requests, NEW l \in SignedLeases,
           WithSignedLease(r, call, request, l)
    PROVE  PolicyInv'
  <1>1. UNCHANGED brokerVars /\ Base[request].verdict = "REVIEW"
    BY DEF WithSignedLease
  <1>2. NoVia \in Vias
    BY DEF Vias
  <1>3. CASE Redeemable(l, request, Base[request], Now) /\ Consume(l, Now)
             /\ Decided(r, call, request, "ALLOW", [kind |-> "signed", lease_id |-> l.body.lease_id])
    <2> DEFINE via == [kind |-> "signed", lease_id |-> l.body.lease_id]
    <2>1. via \in Vias /\ via.kind = "signed" /\ via.lease_id = l.body.lease_id
      BY DEF Vias
    <2>2. Grows
      BY <1>1, <1>3 DEF Grows, brokerVars, Consume
    <2>3. \A row \in leaseLedger : row.lease_id # l.body.lease_id
      BY <1>3 DEF Redeemable, Acceptable, LeaseUnused
    <2>4. ~ \E other \in Requests : Permitted(other, via)
      BY <2>1, <2>3 DEF Permitted, NoVia
    <2>5. PermittedNext(request, via)
      <3>1. \E row \in leaseLedger' : row.lease_id = l.body.lease_id /\ row.envelope = l
        <4> DEFINE row == [lease_id |-> l.body.lease_id, envelope |-> l, at |-> Now]
        <4>1. row \in leaseLedger'
          BY <1>3 DEF Consume
        <4> QED
          BY <4>1
      <3>2. l.body.request = request /\ l.body.review_grant_ids = Base[request].matched_grant_ids
        BY <1>3 DEF Redeemable, Acceptable, LeaseForRequest, SamePolicy
      <3> QED
        BY <1>1, <2>1, <3>1, <3>2 DEF PermittedNext
    <2>6. \A i \in DOMAIN executions : executions[i].via # via
      BY <2>4, PolicyTypes DEF PolicyInv, ExecutionsFollowPolicy
    <2>7. via # NoVia
      BY <2>1 DEF NoVia
    <2>8. \A s \in Runtimes : job[s].stage = "decided" => job[s].via # via
      BY <2>4, <2>7, PolicyTypes DEF PolicyInv, DecisionSound
    <2> HIDE DEF via
    <2>9. Decided(r, call, request, "ALLOW", via)
      BY <1>3 DEF via
    <2> QED
      BY <2>1, <2>2, <2>5, <2>6, <2>8, <2>9, DecidePolicy
  <1>4. CASE Decided(r, call, request, "REVIEW", NoVia) /\ UNCHANGED leaseLedger
    <2>1. Grows
      BY <1>1, <1>4 DEF Grows, brokerVars
    <2> QED
      BY <1>2, <1>4, <2>1, DecidePolicy
  <1> QED
    BY <1>3, <1>4 DEF WithSignedLease

\* A call that is given a lease of the broker.
LEMMA BrokerLeasePolicy ==
    ASSUME Types, Broker!IInv, PolicyInv, NEW r \in Runtimes, NEW call \in Calls,
           NEW request \in Requests, NEW id \in LeaseIds,
           WithBrokerLease(r, call, request, id)
    PROVE  PolicyInv'
  <1>1. leaseLedger' = leaseLedger /\ Base[request].verdict = "REVIEW"
    BY DEF WithBrokerLease
  <1>2. NoVia \in Vias
    BY DEF Vias
  <1>3. CASE Broker!Redeem(id, request, Base[request], Now)
             /\ Decided(r, call, request, "ALLOW", [kind |-> "broker", lease_id |-> id])
    <2> DEFINE via == [kind |-> "broker", lease_id |-> id]
    <2>1. via \in Vias /\ via.kind = "broker" /\ via.lease_id = id
      BY DEF Vias
    <2>2. /\ \A k \in DOMAIN releases : releases[k].lease_id # id /\ k \in DOMAIN releases'
                                         /\ releases'[k] = releases[k]
          /\ \E k \in DOMAIN releases' : releases'[k].lease_id = id
          /\ lease' = lease
          /\ lease[id].request = request
          /\ lease[id].review_grant_ids = Base[request].matched_grant_ids
      BY <1>1, <1>3, RedeemFacts
    <2>3. Grows
      BY <1>1, <2>2 DEF Grows
    <2>4. ~ \E other \in Requests : Permitted(other, via)
      BY <2>1, <2>2 DEF Permitted, NoVia
    <2>5. PermittedNext(request, via)
      BY <1>1, <2>1, <2>2 DEF PermittedNext
    <2>6. \A i \in DOMAIN executions : executions[i].via # via
      BY <2>4, PolicyTypes DEF PolicyInv, ExecutionsFollowPolicy
    <2>7. via # NoVia
      BY <2>1 DEF NoVia
    <2>8. \A s \in Runtimes : job[s].stage = "decided" => job[s].via # via
      BY <2>4, <2>7, PolicyTypes DEF PolicyInv, DecisionSound
    <2> HIDE DEF via
    <2>9. Decided(r, call, request, "ALLOW", via)
      BY <1>3 DEF via
    <2> QED
      BY <2>1, <2>3, <2>5, <2>6, <2>8, <2>9, DecidePolicy
  <1>4. CASE Decided(r, call, request, "REVIEW", NoVia)
             /\ (Broker!Reject(id, request, Base[request], Now) \/ UNCHANGED brokerVars)
    <2>1. Grows
      BY <1>1, <1>4 DEF Grows, brokerVars, Broker!Reject
    <2> QED
      BY <1>2, <1>4, <2>1, DecidePolicy
  <1> QED
    BY <1>3, <1>4 DEF WithBrokerLease

\* A call without a lease executes only what is allowed outright.
LEMMA NoLeasePolicy ==
    ASSUME Types, Broker!IInv, PolicyInv, NEW r \in Runtimes, NEW call \in Calls,
           NEW request \in Requests, WithoutLease(r, call, request)
    PROVE  PolicyInv'
  <1>1. Grows /\ Decided(r, call, request, Base[request].verdict, NoVia)
    BY DEF WithoutLease, Grows, brokerVars
  <1>2. NoVia \in Vias
    BY DEF Vias
  <1>3. Base[request].verdict = "ALLOW" => PermittedNext(request, NoVia)
    BY DEF PermittedNext
  <1> QED
    BY <1>1, <1>2, <1>3, BaseShape, DecidePolicy

\* Every step keeps the policy invariant and the broker's.
LEMMA PolicyStep ==
    ASSUME Types, Broker!IInv, PolicyInv, [Next]_vars PROVE PolicyInv' /\ Broker!IInv'
  <1>1. CASE UNCHANGED vars
    <2>1. Grows /\ executions' = executions /\ job' = job /\ UNCHANGED brokerVars
      BY <1>1 DEF vars, brokerVars, chainVars, Grows
    <2> QED
      BY <2>1, OtherPolicy, BrokerQuiet
  <1>2. ASSUME NEW r \in Runtimes, Execute(r) PROVE PolicyInv' /\ Broker!IInv'
    <2>1. Grows /\ UNCHANGED brokerVars
      BY <1>2 DEF Execute, Grows, brokerVars
    <2> QED
      BY <1>2, <2>1, ExecutePolicy, BrokerQuiet
  <1>3. ASSUME NEW r \in Runtimes,
               \/ ReceiptOfRefusal(r) \/ ReceiptOfExecution(r) \/ RaiseInReceipt(r)
               \/ SignReceipt(r) \/ RaiseNaive(r)
        PROVE  PolicyInv' /\ Broker!IInv'
    <2>1. Grows /\ UNCHANGED brokerVars /\ executions' = executions
      BY <1>3 DEF ReceiptOfRefusal, ReceiptOfExecution, Receipt, RaiseInReceipt, SignReceipt,
                  RaiseNaive, Grows, brokerVars, chainVars
    <2>2. \E j : job' = [job EXCEPT ![r] = j] /\ j.stage # "decided"
      BY <1>3 DEF ReceiptOfRefusal, ReceiptOfExecution, Receipt, RaiseInReceipt, SignReceipt,
                  RaiseNaive, Idle
    <2>3. \A s \in Runtimes : job'[s].stage = "decided" => job'[s] = job[s]
      BY <2>2 DEF Types
    <2> QED
      BY <2>1, <2>3, OtherPolicy, BrokerQuiet
  <1>4. ASSUME NEW r \in Runtimes, NEW call \in Calls, NEW request \in Requests,
               WithoutLease(r, call, request)
        PROVE  PolicyInv' /\ Broker!IInv'
    BY <1>4, NoLeasePolicy, BrokerQuiet DEF WithoutLease
  <1>5. ASSUME NEW r \in Runtimes, NEW call \in Calls, NEW request \in Requests,
               NEW l \in SignedLeases, WithSignedLease(r, call, request, l)
        PROVE  PolicyInv' /\ Broker!IInv'
    BY <1>5, SignedLeasePolicy, BrokerQuiet DEF WithSignedLease
  <1>6. ASSUME NEW r \in Runtimes, NEW call \in Calls, NEW request \in Requests,
               NEW id \in LeaseIds, WithBrokerLease(r, call, request, id)
        PROVE  PolicyInv' /\ Broker!IInv'
    <2>1. Base[request].verdict = "REVIEW"
          /\ \/ Broker!Redeem(id, request, Base[request], Now)
             \/ Broker!Reject(id, request, Base[request], Now)
             \/ UNCHANGED brokerVars
      BY <1>6 DEF WithBrokerLease
    <2> QED
      BY <1>6, <2>1, BrokerLeasePolicy, BrokerKeeps, BrokerQuiet
  <1>7. ASSUME NEW id \in LeaseIds, Withdraw(id) PROVE PolicyInv' /\ Broker!IInv'
    <2>1. Grows /\ executions' = executions /\ job' = job
      BY <1>7 DEF Withdraw, Broker!Cancel, Grows, chainVars
    <2>2. Broker!IInv'
      BY <1>7, BrokerKeepsCancel DEF Withdraw
    <2> QED
      BY <2>1, <2>2, OtherPolicy
  <1>8. ASSUME NEW id \in LeaseIds, NEW request \in Requests, Approve(id, request)
        PROVE  PolicyInv' /\ Broker!IInv'
    <2>1. Broker!IInv'
      BY <1>8, BrokerKeeps DEF Approve
    <2>2. Grows /\ executions' = executions /\ job' = job
      BY <1>8, BrokerFacts DEF Approve, Broker!IssueForReview, Broker!Register, Broker!Issued,
                               Grows, chainVars
    <2> QED
      BY <2>1, <2>2, OtherPolicy
  <1> QED
    BY <1>1, <1>2, <1>3, <1>4, <1>5, <1>6, <1>7, <1>8 DEF Next, Complete, Call, Full


-----------------------------------------------------------------------------
(* Types.                                                                  *)

\* The fields of a job are those of its stage.
LEMMA JobFields ==
    ASSUME Types, NEW r \in Runtimes
    PROVE  /\ job[r] \in Jobs
           /\ job[r].stage \in {"idle", "decided", "executed", "receipted"}
           /\ job[r].stage = "decided" => /\ job[r].request \in Requests /\ job[r].via \in Vias
                                          /\ job[r].verdict \in {"ALLOW", "REVIEW", "DENY"}
                                          /\ job[r].signed \in BOOLEAN /\ job[r].naive \in BOOLEAN
           /\ job[r].stage = "executed" => /\ job[r].execution \in Nat
                                           /\ job[r].outcome \in {"SUCCEEDED", "FAILED"}
                                           /\ job[r].signed \in BOOLEAN /\ job[r].naive \in BOOLEAN
           /\ job[r].stage = "receipted" => job[r].receipt \in Nat /\ job[r].naive \in BOOLEAN
  <1>1. job[r] \in Jobs
    BY DEF Types
  <1>2. CASE job[r] = Idle
    BY <1>1, <1>2 DEF Idle
  <1>3. CASE job[r] \in [stage : {"decided"}, request : Requests, via : Vias,
                         verdict : {"ALLOW", "REVIEW", "DENY"}, signed : BOOLEAN, naive : BOOLEAN]
    BY <1>1, <1>3
  <1>4. CASE job[r] \in [stage : {"executed"}, execution : Nat, outcome : {"SUCCEEDED", "FAILED"},
                         signed : BOOLEAN, naive : BOOLEAN]
    BY <1>1, <1>4
  <1>5. CASE job[r] \in [stage : {"receipted"}, receipt : Nat, naive : BOOLEAN]
    BY <1>1, <1>5
  <1> QED
    BY <1>1, <1>2, <1>3, <1>4, <1>5 DEF Jobs

\* The lists of executions, receipts and envelopes as sequences.
LEMMA Lists ==
    ASSUME Types
    PROVE  /\ Len(executions) \in Nat /\ DOMAIN executions = 1 .. Len(executions)
           /\ Len(receipts) \in Nat /\ DOMAIN receipts = 1 .. Len(receipts)
           /\ Len(raised) \in Nat /\ DOMAIN raised = 1 .. Len(raised)
           /\ Len(envelopes) \in Nat /\ DOMAIN envelopes = 1 .. Len(envelopes)
           /\ \A i \in DOMAIN executions : executions[i] \in Executions
           /\ \A n \in DOMAIN receipts : receipts[n] \in Receipts
           /\ \A e \in DOMAIN envelopes : envelopes[e] \in SignedReceipts
  BY DEF Types

\* A decision.
LEMMA DecidedTypes ==
    ASSUME Types, NEW r \in Runtimes, NEW call \in Calls, NEW request \in Requests,
           NEW verdict \in {"ALLOW", "REVIEW", "DENY"}, NEW via \in Vias,
           Decided(r, call, request, verdict, via)
    PROVE  Types'
  <1> DEFINE d == [stage |-> "decided", request |-> request, verdict |-> verdict, via |-> via,
                   signed |-> call.signed, naive |-> call.naive]
  <1>1. call.signed \in BOOLEAN /\ call.naive \in BOOLEAN
    BY DEF Calls
  <1>2. d \in Jobs
    BY <1>1 DEF Jobs
  <1>3. job' = [job EXCEPT ![r] = d] /\ UNCHANGED chainVars
    BY DEF Decided
  <1> HIDE DEF d
  <1> QED
    BY <1>2, <1>3 DEF Types, chainVars

\* An execution.
LEMMA ExecuteTypes ==
    ASSUME Types, NEW r \in Runtimes, Execute(r)
    PROVE  /\ Types'
           /\ \E e \in Executions : e.by = r /\ executions' = Append(executions, e)
           /\ \E j \in Jobs : /\ job' = [job EXCEPT ![r] = j]
                              /\ j.stage = "executed" /\ j.execution = Len(executions) + 1
  <1>1. job[r].stage = "decided"
    BY DEF Execute
  <1> DEFINE e == [by |-> r, request |-> job[r].request, via |-> job[r].via]
  <1>2. e \in Executions /\ e.by = r /\ executions' = Append(executions, e)
    BY <1>1, JobFields DEF Execute, Executions
  <1>3. PICK outcome \in {"SUCCEEDED", "FAILED"} :
            job' = [job EXCEPT ![r] = [stage |-> "executed", execution |-> Len(executions) + 1,
                                       outcome |-> outcome, signed |-> job[r].signed,
                                       naive |-> job[r].naive]]
    BY DEF Execute, Types
  <1> DEFINE j == [stage |-> "executed", execution |-> Len(executions) + 1, outcome |-> outcome,
                   signed |-> job[r].signed, naive |-> job[r].naive]
  <1>4. j \in Jobs /\ j.stage = "executed" /\ j.execution = Len(executions) + 1
    BY <1>1, JobFields, Lists DEF Jobs
  <1>5. job' = [job EXCEPT ![r] = j]
    BY <1>3
  <1> HIDE DEF e, j
  <1>6. Types'
    BY <1>2, <1>4, <1>5, Appended DEF Execute, Types
  <1> QED
    BY <1>2, <1>4, <1>5, <1>6

\* A receipt, of an execution or of a refusal.
LEMMA ReceiptTypes ==
    ASSUME Types, NEW r \in Runtimes, NEW execution \in Nat,
           NEW outcome \in {"SUCCEEDED", "FAILED", "NOT_EXECUTED"},
           job[r].stage \in {"decided", "executed"}, Receipt(r, execution, outcome)
    PROVE  /\ Types'
           /\ \E n \in Receipts : /\ n.by = r /\ n.prev = prevReceipt[r] /\ n.execution = execution
                                  /\ receipts' = Append(receipts, n)
           /\ prevReceipt' = [prevReceipt EXCEPT ![r] = Len(receipts) + 1]
           /\ delivered' \subseteq delivered \union {Len(receipts) + 1}
           /\ \E j \in Jobs : /\ job' = [job EXCEPT ![r] = j]
                              /\ \/ j = Idle
                                 \/ j.stage = "receipted" /\ j.receipt = Len(receipts) + 1
  <1> DEFINE n == [by |-> r, prev |-> prevReceipt[r], execution |-> execution,
                   outcome |-> outcome]
             j == [stage |-> "receipted", receipt |-> Len(receipts) + 1, naive |-> job[r].naive]
  <1>1. n \in Receipts /\ n.by = r /\ n.prev = prevReceipt[r] /\ n.execution = execution
    BY DEF Receipts, Types
  <1>2. receipts' = Append(receipts, n) /\ prevReceipt' = [prevReceipt EXCEPT ![r] = Len(receipts) + 1]
    BY DEF Receipt, NewHead
  <1>3. j \in Jobs /\ j.stage = "receipted" /\ j.receipt = Len(receipts) + 1
    BY JobFields, Lists DEF Jobs
  <1>4. \/ job' = [job EXCEPT ![r] = j] /\ delivered' = delivered
        \/ job' = [job EXCEPT ![r] = Idle] /\ delivered' = delivered \union {Len(receipts) + 1}
    BY DEF Receipt, Types
  <1>5. Idle \in Jobs
    BY DEF Jobs
  <1>6. prevReceipt' \in [Runtimes -> Nat]
    BY <1>2, Lists DEF Types
  <1> HIDE DEF n, j
  <1>7. Types'
    <2>1. receipts' \in Seq(Receipts)
      BY <1>1, <1>2, Appended DEF Types
    <2>2. job' \in [Runtimes -> Jobs]
      BY <1>3, <1>4, <1>5 DEF Types
    <2> QED
      BY <1>6, <2>1, <2>2 DEF Receipt, Types
  <1> QED
    BY <1>1, <1>2, <1>3, <1>4, <1>5, <1>7

\* A call that ends in create_receipt.
LEMMA RaiseTypes ==
    ASSUME Types, NEW r \in Runtimes, RaiseInReceipt(r)
    PROVE  /\ Types'
           /\ job[r].stage \in {"decided", "executed"} /\ job' = [job EXCEPT ![r] = Idle]
           /\ \E x \in Nat : /\ raised' = Append(raised, x)
                             /\ x = IF job[r].stage = "executed" THEN job[r].execution ELSE 0
  <1>1. job[r].stage \in {"decided", "executed"} /\ job' = [job EXCEPT ![r] = Idle]
    BY DEF RaiseInReceipt
  <1>2. PICK x \in Nat : /\ raised' = Append(raised, x)
                         /\ x = IF job[r].stage = "executed" THEN job[r].execution ELSE 0
    BY JobFields DEF RaiseInReceipt
  <1>3. Idle \in Jobs
    BY DEF Jobs
  <1>4. raised' \in Seq(Nat)
    BY <1>2, Appended DEF Types
  <1>5. job' \in [Runtimes -> Jobs]
    BY <1>1, <1>3 DEF Types
  <1> QED
    BY <1>1, <1>2, <1>4, <1>5 DEF RaiseInReceipt, Types

\* An envelope.
LEMMA SignTypes ==
    ASSUME Types, NEW r \in Runtimes, SignReceipt(r)
    PROVE  /\ Types'
           /\ \E e \in SignedReceipts : /\ e.by = r /\ e.receipt = job[r].receipt
                                        /\ e.prev = prevSigned[r]
                                        /\ envelopes' = Append(envelopes, e)
  <1> DEFINE e == [by |-> r, receipt |-> job[r].receipt, prev |-> prevSigned[r]]
  <1>1. e \in SignedReceipts /\ e.by = r /\ e.receipt = job[r].receipt /\ e.prev = prevSigned[r]
        /\ envelopes' = Append(envelopes, e)
    BY JobFields DEF SignReceipt, SignedReceipts, Types
  <1>2. prevSigned' \in [Runtimes -> Nat]
    BY Lists DEF SignReceipt, NewSignedHead, Types
  <1>3. Idle \in Jobs
    BY DEF Jobs
  <1> HIDE DEF e
  <1>4. Types'
    <2>1. envelopes' \in Seq(SignedReceipts)
      BY <1>1, Appended DEF Types
    <2>2. job' \in [Runtimes -> Jobs]
      BY <1>3 DEF SignReceipt, Types
    <2> QED
      BY <1>2, <2>1, <2>2 DEF SignReceipt, Types
  <1> QED
    BY <1>1, <1>4


-----------------------------------------------------------------------------
(* The chain of plain receipts.                                            *)

\* A new receipt that links to one there is.
LEMMA ChainGrows ==
    ASSUME Types, Linked(receipts), NEW n \in Receipts, n.prev \in 0 .. Len(receipts),
           receipts' = Append(receipts, n)
    PROVE  /\ Len(receipts') = Len(receipts) + 1 /\ DOMAIN receipts' = 1 .. (Len(receipts) + 1)
           /\ \A k \in DOMAIN receipts : receipts'[k] = receipts[k]
           /\ receipts'[Len(receipts) + 1] = n
           /\ Linked(receipts')
           /\ \A k \in 0 .. Len(receipts) : Chain'[k] = Chain[k]
           /\ Chain'[Len(receipts) + 1] = {Len(receipts) + 1} \union Chain[n.prev]
  <1>1. /\ Len(receipts) \in Nat /\ DOMAIN receipts = 1 .. Len(receipts)
        /\ Len(receipts') = Len(receipts) + 1 /\ DOMAIN receipts' = 1 .. (Len(receipts) + 1)
        /\ \A k \in DOMAIN receipts : receipts'[k] = receipts[k]
        /\ receipts'[Len(receipts) + 1] = n
    BY Appended, Lists DEF Types
  <1>2. Extended(receipts, receipts', n)
    BY <1>1 DEF Extended
  <1> DEFINE t == receipts'
  <1>3. /\ Linked(t)
        /\ \A k \in 0 .. Len(receipts) : ChainOf(t)[k] = ChainOf(receipts)[k]
        /\ ChainOf(t)[Len(t)] = {Len(t)} \union ChainOf(receipts)[n.prev]
    <2>1. Extended(receipts, t, n)
      BY <1>2
    <2> HIDE DEF t
    <2> QED
      BY <2>1, ChainExtends
  <1> QED
    BY <1>1, <1>3 DEF Chain

\* A step that neither executes nor creates a receipt.
LEMMA OtherPlain ==
    ASSUME Types, PlainLinks, UNCHANGED <<prevReceipt, executions, receipts, raised>>,
           delivered' \subseteq DOMAIN receipts,
           \A r \in Runtimes : job'[r].stage \in {"executed", "receipted"} => job'[r] = job[r],
           \A r \in Runtimes : job[r].stage = "executed" => job'[r] = job[r]
    PROVE  PlainLinks'
  <1>1. Chain' = Chain
    BY DEF Chain
  <1>2. \A i \in DOMAIN executions : Pending(i) => Pending(i)'
    BY DEF Pending
  <1>3. ExecutionsOnChainOrRaised'
    BY <1>1, <1>2 DEF PlainLinks, ExecutionsOnChainOrRaised, Chained, Receipted, Raised
  <1>4. \A r \in Runtimes : JobLinked(r)'
    BY DEF PlainLinks, JobLinked, Receipted, Raised
  <1> QED
    BY <1>3, <1>4 DEF PlainLinks, Linked

\* An execution is pending until it has its receipt.
LEMMA ExecutePlain ==
    ASSUME Types, PlainLinks, NEW r \in Runtimes, Execute(r) PROVE PlainLinks'
  <1>1. PICK e \in Executions : e.by = r /\ executions' = Append(executions, e)
    BY ExecuteTypes
  <1>2. PICK j \in Jobs : /\ job' = [job EXCEPT ![r] = j]
                          /\ j.stage = "executed" /\ j.execution = Len(executions) + 1
    BY ExecuteTypes
  <1>3. /\ job[r].stage = "decided"
        /\ UNCHANGED <<prevReceipt, receipts, raised, delivered>> /\ Chain' = Chain
    BY DEF Execute, Chain
  <1>4. /\ Len(executions) \in Nat /\ DOMAIN executions = 1 .. Len(executions)
        /\ Len(executions') = Len(executions) + 1
        /\ DOMAIN executions' = 1 .. (Len(executions) + 1)
        /\ \A i \in DOMAIN executions : executions'[i] = executions[i]
        /\ executions'[Len(executions) + 1] = e
    BY <1>1, Appended, Lists DEF Types
  <1>5. job'[r] = j /\ \A s \in Runtimes \ {r} : job'[s] = job[s]
    BY <1>2 DEF Types
  <1>6. ASSUME NEW i \in DOMAIN executions'
        PROVE  \/ \E s \in Runtimes : job'[s].stage = "executed" /\ job'[s].execution = i
               \/ \E n \in Chain[prevReceipt[executions'[i].by]] : receipts[n].execution = i
               \/ Raised(i) /\ ~ Receipted(i)
    <2>1. CASE i = Len(executions) + 1
      BY <1>2, <1>5, <2>1
    <2>2. CASE i \in DOMAIN executions
      <3>1. CASE Pending(i)
        BY <1>3, <1>5, <3>1 DEF Pending
      <3>2. CASE \E n \in Chain[prevReceipt[executions[i].by]] : receipts[n].execution = i
        BY <1>4, <2>2, <3>2
      <3> QED
        BY <2>2, <3>1, <3>2 DEF PlainLinks, ExecutionsOnChainOrRaised, Chained
    <2> QED
      BY <1>4, <2>1, <2>2
  <1>7. ExecutionsOnChainOrRaised'
    BY <1>3, <1>6 DEF ExecutionsOnChainOrRaised, Chained, Pending, Receipted, Raised
  <1>8. ASSUME NEW s \in Runtimes PROVE JobLinked(s)'
    <2>1. CASE s = r
      <3>1. ~ Receipted(Len(executions) + 1) /\ ~ Raised(Len(executions) + 1)
        BY <1>4 DEF PlainLinks, Receipted, Raised
      <3> QED
        BY <1>1, <1>2, <1>3, <1>4, <1>5, <2>1, <3>1 DEF JobLinked, Receipted, Raised
    <2>2. CASE s # r
      BY <1>3, <1>4, <1>5, <2>2 DEF PlainLinks, JobLinked, Receipted, Raised
    <2> QED
      BY <2>1, <2>2
  <1>9. /\ \A n \in DOMAIN receipts : receipts[n].execution \in 0 .. Len(executions')
        /\ \A k \in DOMAIN raised : raised[k] \in 0 .. Len(executions')
    BY <1>4 DEF PlainLinks
  <1> QED
    BY <1>3, <1>7, <1>8, <1>9 DEF PlainLinks, Linked

\* A receipt is put before the chain of its runtime, with the execution it is of.
LEMMA ReceiptPlain ==
    ASSUME Types, PlainLinks, NEW r \in Runtimes, NEW execution \in 0 .. Len(executions),
           NEW outcome \in {"SUCCEEDED", "FAILED", "NOT_EXECUTED"},
           job[r].stage \in {"decided", "executed"},
           execution = IF job[r].stage = "executed" THEN job[r].execution ELSE 0,
           Receipt(r, execution, outcome)
    PROVE  PlainLinks'
  <1> DEFINE new == Len(receipts) + 1
  <1>1. execution \in Nat
    BY Lists
  <1>2. PICK n \in Receipts : /\ n.by = r /\ n.prev = prevReceipt[r] /\ n.execution = execution
                              /\ receipts' = Append(receipts, n)
    BY <1>1, ReceiptTypes
  <1>3. PICK j \in Jobs : /\ job' = [job EXCEPT ![r] = j]
                          /\ \/ j = Idle
                             \/ j.stage = "receipted" /\ j.receipt = new
    BY <1>1, ReceiptTypes
  <1>4. /\ prevReceipt' = [prevReceipt EXCEPT ![r] = new] /\ executions' = executions
        /\ delivered' \subseteq delivered \union {new} /\ raised' = raised
    BY <1>1, ReceiptTypes DEF Receipt
  <1>5. /\ Len(receipts') = new /\ DOMAIN receipts' = 1 .. new
        /\ \A k \in DOMAIN receipts : receipts'[k] = receipts[k]
        /\ receipts'[new] = n
        /\ Linked(receipts')
        /\ \A k \in 0 .. Len(receipts) : Chain'[k] = Chain[k]
        /\ Chain'[new] = {new} \union Chain[prevReceipt[r]]
    BY <1>2, ChainGrows DEF PlainLinks
  <1>6. /\ job'[r] = j /\ \A s \in Runtimes \ {r} : job'[s] = job[s]
        /\ prevReceipt'[r] = new /\ \A s \in Runtimes \ {r} : prevReceipt'[s] = prevReceipt[s]
    BY <1>3, <1>4 DEF Types
  <1>7. Len(receipts) \in Nat /\ DOMAIN receipts = 1 .. Len(receipts) /\ new \in Nat
    BY Lists
  <1>13. \A i : Receipted(i)' => Receipted(i) \/ i = execution
    BY <1>2, <1>5, <1>7 DEF Receipted
  <1> HIDE DEF new
  <1>8. ASSUME NEW i \in DOMAIN executions
        PROVE  \/ \E s \in Runtimes : job'[s].stage = "executed" /\ job'[s].execution = i
               \/ \E k \in Chain'[prevReceipt'[executions[i].by]] : receipts'[k].execution = i
               \/ Raised(i) /\ ~ Receipted(i)'
    <2>1. executions[i].by \in Runtimes
      BY Lists DEF Executions
    <2>2. CASE job[r].stage = "executed" /\ job[r].execution = i
      <3>1. executions[i].by = r
        BY <2>2 DEF PlainLinks, JobLinked
      <3>2. new \in Chain'[prevReceipt'[executions[i].by]] /\ receipts'[new].execution = i
        BY <1>2, <1>5, <1>6, <2>2, <3>1
      <3> QED
        BY <3>2
    <2>3. ASSUME NEW s \in Runtimes \ {r}, job[s].stage = "executed" /\ job[s].execution = i
          PROVE  job'[s].stage = "executed" /\ job'[s].execution = i
      BY <1>6, <2>3
    <2>4. ASSUME NEW k \in Chain[prevReceipt[executions[i].by]], receipts[k].execution = i
          PROVE  k \in Chain'[prevReceipt'[executions[i].by]] /\ receipts'[k].execution = i
      <3>1. prevReceipt[executions[i].by] \in 0 .. Len(receipts)
        BY <2>1 DEF PlainLinks
      <3>2. Chain[prevReceipt[executions[i].by]] \subseteq 1 .. prevReceipt[executions[i].by]
        BY <1>7, <3>1, ChainsNest DEF Chain, PlainLinks
      <3>3. k \in DOMAIN receipts
        BY <1>7, <3>1, <3>2, <2>4
      <3>4. k \in Chain'[prevReceipt'[executions[i].by]]
        <4>1. CASE executions[i].by = r
          BY <1>5, <1>6, <2>4, <4>1
        <4>2. CASE executions[i].by # r
          BY <1>5, <1>6, <2>1, <2>4, <3>1, <4>2
        <4> QED
          BY <4>1, <4>2
      <3> QED
        BY <1>5, <2>4, <3>3, <3>4
    <2>5. CASE Raised(i) /\ ~ Receipted(i)
      <3>1. i # 0
        BY Lists
      <3>2. i # execution
        BY <2>5, <3>1 DEF PlainLinks, JobLinked
      <3> QED
        BY <1>13, <2>5, <3>2
    <2> QED
      BY <2>2, <2>3, <2>4, <2>5 DEF PlainLinks, ExecutionsOnChainOrRaised, Chained, Pending
  <1>9. ExecutionsOnChainOrRaised'
    BY <1>4, <1>8 DEF ExecutionsOnChainOrRaised, Chained, Pending, Raised
  <1>10. ASSUME NEW s \in Runtimes PROVE JobLinked(s)' /\ prevReceipt'[s] \in 0 .. new
    <2>1. CASE s = r
      BY <1>3, <1>6, <1>7, <2>1 DEF JobLinked, Idle, new
    <2>2. CASE s # r
      <3>1. JobLinked(s) /\ JobLinked(r) /\ prevReceipt[s] \in 0 .. Len(receipts)
        BY DEF PlainLinks
      <3>2. job[s].stage = "executed" => ~ Receipted(job[s].execution)'
        <4>1. job[s].stage = "executed" => job[s].execution # execution
          BY <2>2, <3>1, Lists DEF JobLinked
        <4>2. job[s].stage = "executed" => ~ Receipted(job[s].execution)
          BY <3>1 DEF JobLinked
        <4>3. Receipted(job[s].execution)'
                 => Receipted(job[s].execution) \/ job[s].execution = execution
          BY <1>2, <1>5, <1>6, <2>2 DEF Receipted
        <4> QED
          BY <4>1, <4>2, <4>3
      <3>3. \A i : Raised(i)' = Raised(i)
        BY <1>4 DEF Raised
      <3>4. job'[s] = job[s] /\ prevReceipt'[s] = prevReceipt[s]
        BY <1>6, <2>2
      <3>5. JobLinked(s)'
        BY <1>4, <3>1, <3>2, <3>3, <3>4 DEF JobLinked
      <3> QED
        BY <1>7, <3>1, <3>4, <3>5 DEF new
    <2> QED
      BY <2>1, <2>2
  <1>11. \A k \in 1 .. new : receipts'[k].execution \in 0 .. Len(executions)
    <2>1. \A k \in 1 .. new : k = new \/ k \in DOMAIN receipts
      BY <1>7 DEF new
    <2> QED
      BY <1>2, <1>5, <2>1 DEF PlainLinks
  <1>12. delivered' \subseteq 1 .. new
    BY <1>4, <1>7 DEF PlainLinks, new
  <1> QED
    BY <1>4, <1>5, <1>9, <1>10, <1>11, <1>12 DEF PlainLinks

\* create_receipt raises: the execution, if there was one, is off the chain, and
\* on nobody's.
LEMMA RaisePlain ==
    ASSUME Types, PlainLinks, NEW r \in Runtimes, RaiseInReceipt(r) PROVE PlainLinks'
  <1>1. PICK x \in Nat : /\ raised' = Append(raised, x)
                         /\ x = IF job[r].stage = "executed" THEN job[r].execution ELSE 0
    BY RaiseTypes
  <1>2. /\ job[r].stage \in {"decided", "executed"}
        /\ job'[r] = Idle /\ \A s \in Runtimes \ {r} : job'[s] = job[s]
    BY RaiseTypes DEF Types
  <1>3. UNCHANGED <<prevReceipt, executions, receipts, delivered>> /\ Chain' = Chain
    BY DEF RaiseInReceipt, Chain
  <1>4. /\ Len(raised) \in Nat /\ DOMAIN raised = 1 .. Len(raised)
        /\ DOMAIN raised' = 1 .. (Len(raised) + 1) /\ raised'[Len(raised) + 1] = x
        /\ \A k \in DOMAIN raised : raised'[k] = raised[k]
    BY <1>1, Appended, Lists DEF Types
  <1>5. \A i : Raised(i)' <=> Raised(i) \/ i = x
    BY <1>4 DEF Raised
  <1>6. x \in 0 .. Len(executions)
    BY <1>1, <1>2, Lists DEF PlainLinks, JobLinked
  <1>7. \A i : Receipted(i)' = Receipted(i)
    BY <1>3 DEF Receipted
  <1>8. ASSUME NEW i \in DOMAIN executions
        PROVE  \/ \E s \in Runtimes : job'[s].stage = "executed" /\ job'[s].execution = i
               \/ Chained(i) \/ (Raised(i)' /\ ~ Receipted(i))
    <2>1. CASE job[r].stage = "executed" /\ job[r].execution = i
      BY <1>1, <1>5, <2>1 DEF PlainLinks, JobLinked
    <2>2. ASSUME NEW s \in Runtimes \ {r}, job[s].stage = "executed" /\ job[s].execution = i
          PROVE  job'[s].stage = "executed" /\ job'[s].execution = i
      BY <1>2, <2>2
    <2> QED
      BY <1>5, <2>1, <2>2 DEF PlainLinks, ExecutionsOnChainOrRaised, Pending
  <1>9. ExecutionsOnChainOrRaised'
    BY <1>3, <1>7, <1>8 DEF ExecutionsOnChainOrRaised, Chained, Pending
  <1>10. ASSUME NEW s \in Runtimes PROVE JobLinked(s)'
    <2>1. CASE s = r
      BY <1>2, <2>1 DEF JobLinked, Idle
    <2>2. CASE s # r
      <3>1. JobLinked(s) /\ JobLinked(r)
        BY DEF PlainLinks
      <3>2. job[s].stage = "executed" => job[s].execution # x
        BY <1>1, <2>2, <3>1, Lists DEF JobLinked
      <3> QED
        BY <1>2, <1>3, <1>5, <1>7, <2>2, <3>1, <3>2 DEF JobLinked
    <2> QED
      BY <2>1, <2>2
  <1>11. \A k \in DOMAIN raised' : raised'[k] \in 0 .. Len(executions)
    BY <1>4, <1>6 DEF PlainLinks
  <1> QED
    BY <1>3, <1>9, <1>10, <1>11 DEF PlainLinks, Linked

\* Every step keeps the links of the plain receipts.
LEMMA PlainStep ==
    ASSUME Types, PlainLinks, [Next]_vars PROVE PlainLinks'
  <1>1. CASE UNCHANGED vars
    BY <1>1, OtherPlain DEF vars, chainVars, PlainLinks
  <1>2. ASSUME NEW r \in Runtimes, Execute(r) PROVE PlainLinks'
    BY <1>2, ExecutePlain
  <1>3. ASSUME NEW r \in Runtimes, ReceiptOfRefusal(r) PROVE PlainLinks'
    <2>1. 0 \in 0 .. Len(executions)
      BY Lists
    <2> QED
      BY <1>3, <2>1, ReceiptPlain DEF ReceiptOfRefusal
  <1>4. ASSUME NEW r \in Runtimes, ReceiptOfExecution(r) PROVE PlainLinks'
    <2>1. job[r].execution \in 0 .. Len(executions) /\ job[r].outcome \in {"SUCCEEDED", "FAILED"}
      BY <1>4, JobFields, Lists DEF ReceiptOfExecution, PlainLinks, JobLinked
    <2> QED
      BY <1>4, <2>1, ReceiptPlain DEF ReceiptOfExecution
  <1>5. ASSUME NEW r \in Runtimes, SignReceipt(r) \/ RaiseNaive(r) PROVE PlainLinks'
    <2>1. /\ UNCHANGED <<prevReceipt, executions, receipts, raised>>
          /\ job[r].stage = "receipted" /\ job' = [job EXCEPT ![r] = Idle]
          /\ delivered' \subseteq delivered \union {job[r].receipt}
      BY <1>5 DEF SignReceipt, RaiseNaive, chainVars
    <2>2. job[r].receipt \in DOMAIN receipts
      BY <2>1, Lists DEF PlainLinks, JobLinked
    <2>3. \A s \in Runtimes : \/ job'[s] = job[s]
                              \/ job[s].stage = "receipted" /\ job'[s].stage = "idle"
      BY <2>1 DEF Types, Idle
    <2> QED
      BY <2>1, <2>2, <2>3, OtherPlain DEF PlainLinks
  <1>6. ASSUME NEW r \in Runtimes, NEW call, NEW request, NEW verdict, NEW via,
               Decided(r, call, request, verdict, via)
        PROVE  PlainLinks'
    <2>1. UNCHANGED <<prevReceipt, executions, receipts, raised, delivered>>
      BY <1>6 DEF Decided, chainVars
    <2>2. \A s \in Runtimes : \/ job'[s] = job[s]
                              \/ job[s].stage = "idle" /\ job'[s].stage = "decided"
      BY <1>6 DEF Decided, Types, Idle
    <2> QED
      BY <2>1, <2>2, OtherPlain DEF PlainLinks
  <1>7. ASSUME NEW id, NEW request, Withdraw(id) \/ Approve(id, request) PROVE PlainLinks'
    BY <1>7, OtherPlain DEF Withdraw, Approve, chainVars, PlainLinks
  <1>8. ASSUME NEW r \in Runtimes, RaiseInReceipt(r) PROVE PlainLinks'
    BY <1>8, RaisePlain
  <1> QED
    BY <1>1, <1>2, <1>3, <1>4, <1>5, <1>6, <1>7, <1>8
       DEF Next, Complete, Call, WithoutLease, WithSignedLease, WithBrokerLease, Full

\* Every step keeps the types.
LEMMA TypesStep ==
    ASSUME Types, [Next]_vars PROVE Types'
  <1>1. CASE UNCHANGED vars
    BY <1>1 DEF vars, chainVars, Types
  <1>2. ASSUME NEW r \in Runtimes, Complete(r) PROVE Types'
    <2>1. CASE Execute(r)
      BY <2>1, ExecuteTypes
    <2>2. CASE ReceiptOfRefusal(r)
      BY <2>2, ReceiptTypes DEF ReceiptOfRefusal
    <2>3. CASE ReceiptOfExecution(r)
      BY <2>3, JobFields, ReceiptTypes DEF ReceiptOfExecution
    <2>4. CASE SignReceipt(r)
      BY <2>4, SignTypes
    <2>5. CASE RaiseNaive(r)
      <3>1. Idle \in Jobs
        BY DEF Jobs
      <3> QED
        BY <2>5, <3>1 DEF RaiseNaive, chainVars, Types
    <2>6. CASE RaiseInReceipt(r)
      BY <2>6, RaiseTypes
    <2> QED
      BY <1>2, <2>1, <2>2, <2>3, <2>4, <2>5, <2>6 DEF Complete
  <1>3. ASSUME NEW r \in Runtimes, NEW call \in Calls, Call(r, call) PROVE Types'
    <2>1. PICK request \in Requests :
              \/ WithoutLease(r, call, request)
              \/ \E l \in SignedLeases : WithSignedLease(r, call, request, l)
              \/ \E id \in LeaseIds : WithBrokerLease(r, call, request, id)
      BY <1>3 DEF Call
    <2>2. NoVia \in Vias
      BY DEF Vias
    <2>3. CASE WithoutLease(r, call, request)
      BY <2>2, <2>3, BaseShape, DecidedTypes DEF WithoutLease
    <2>4. ASSUME NEW l \in SignedLeases, WithSignedLease(r, call, request, l) PROVE Types'
      <3>1. [kind |-> "signed", lease_id |-> l.body.lease_id] \in Vias
        BY DEF Vias
      <3> QED
        BY <2>2, <2>4, <3>1, DecidedTypes DEF WithSignedLease
    <2>5. ASSUME NEW id \in LeaseIds, WithBrokerLease(r, call, request, id) PROVE Types'
      <3>1. [kind |-> "broker", lease_id |-> id] \in Vias
        BY DEF Vias
      <3> QED
        BY <2>2, <2>5, <3>1, DecidedTypes DEF WithBrokerLease
    <2> QED
      BY <2>1, <2>3, <2>4, <2>5
  <1>4. ASSUME NEW id, NEW request, Withdraw(id) \/ Approve(id, request) PROVE Types'
    BY <1>4 DEF Withdraw, Approve, chainVars, Types
  <1> QED
    BY <1>1, <1>2, <1>3, <1>4 DEF Next, Full


-----------------------------------------------------------------------------
(* The chain of signed receipts.                                           *)

\* Heads and links name receipts, and their chains do.
LEMMA OnChain ==
    ASSUME Types, PlainLinks
    PROVE  /\ \A n \in 0 .. Len(receipts) :
                 Chain[n] \subseteq 1 .. n /\ \A m \in Chain[n] : Chain[m] \subseteq Chain[n]
           /\ \A n \in 1 .. Len(receipts) : n \in Chain[n]
  <1>1. Len(receipts) \in Nat /\ DOMAIN receipts = 1 .. Len(receipts) /\ Linked(receipts)
    BY Lists DEF PlainLinks
  <1> QED
    BY <1>1, ChainsNest, ChainUnfolds DEF Chain

\* A step that signs nothing and creates no receipt.
LEMMA OtherSigned ==
    ASSUME SignedLinks, UNCHANGED <<envelopes, prevSigned, receipts, prevReceipt>>
    PROVE  SignedLinks'
  BY DEF SignedLinks, LastBefore, Own, Chain

\* A new receipt of a runtime is ahead of all it has signed.
LEMMA ReceiptSigned ==
    ASSUME Types, PlainLinks, SignedLinks, NEW r \in Runtimes, NEW n \in Receipts,
           n.prev = prevReceipt[r], receipts' = Append(receipts, n),
           prevReceipt' = [prevReceipt EXCEPT ![r] = Len(receipts) + 1],
           UNCHANGED <<envelopes, prevSigned>>
    PROVE  SignedLinks'
  <1> DEFINE new == Len(receipts) + 1
  <1>1. /\ \A k \in 0 .. Len(receipts) : Chain'[k] = Chain[k]
        /\ Chain'[new] = {new} \union Chain[prevReceipt[r]]
        /\ Len(receipts) \in Nat
    BY ChainGrows, Lists DEF PlainLinks
  <1>2. prevReceipt'[r] = new /\ \A s \in Runtimes \ {r} : prevReceipt'[s] = prevReceipt[s]
    BY DEF Types
  <1> HIDE DEF new
  <1>3. \A s \in Runtimes : Own(s)' = Own(s)
    BY DEF Own
  <1>4. ASSUME NEW s \in Runtimes, NEW e \in Own(s)
        PROVE  /\ envelopes[e].receipt \in 0 .. Len(receipts)
               /\ envelopes[e].receipt \in Chain'[prevReceipt'[s]]
    <2>1. prevReceipt[s] \in 0 .. Len(receipts) /\ envelopes[e].receipt \in Chain[prevReceipt[s]]
      BY DEF PlainLinks, SignedLinks
    <2>2. Chain[prevReceipt[s]] \subseteq 1 .. prevReceipt[s]
      BY <2>1, OnChain
    <2>3. Chain[prevReceipt[s]] \subseteq Chain'[prevReceipt'[s]]
      BY <1>1, <1>2, <2>1
    <2> QED
      BY <1>1, <2>1, <2>2, <2>3
  <1>5. ASSUME NEW s \in Runtimes
        PROVE  /\ LastBefore(s, Len(envelopes) + 1, prevSigned[s])'
               /\ \A e \in Own(s) : LastBefore(s, e, envelopes[e].prev)'
    BY <1>3 DEF SignedLinks, LastBefore
  <1>6. ASSUME NEW s \in Runtimes, NEW e \in Own(s), NEW d \in Own(s), d <= e
        PROVE  envelopes[d].receipt \in Chain'[envelopes[e].receipt]
    BY <1>1, <1>4, <1>6 DEF SignedLinks
  <1> QED
    BY <1>3, <1>4, <1>5, <1>6 DEF SignedLinks

\* An envelope is put before the chain of its runtime.
LEMMA SignSigned ==
    ASSUME Types, PlainLinks, SignedLinks, NEW r \in Runtimes, SignReceipt(r)
    PROVE  SignedLinks'
  <1>0. PICK new \in Nat : new = Len(envelopes) + 1
    BY Lists
  <1>1. PICK e \in SignedReceipts : /\ e.by = r /\ e.receipt = job[r].receipt
                                    /\ e.prev = prevSigned[r]
                                    /\ envelopes' = Append(envelopes, e)
    BY SignTypes
  <1>2. /\ UNCHANGED <<receipts, prevReceipt>> /\ Chain' = Chain
        /\ prevSigned' = [prevSigned EXCEPT ![r] = new]
        /\ job[r].receipt = prevReceipt[r] /\ prevReceipt[r] \in 1 .. Len(receipts)
    BY <1>0, Lists DEF SignReceipt, NewSignedHead, Chain, PlainLinks, JobLinked
  <1>3. /\ Len(envelopes) \in Nat /\ DOMAIN envelopes = 1 .. Len(envelopes)
        /\ Len(envelopes') = new /\ DOMAIN envelopes' = 1 .. new
        /\ \A d \in DOMAIN envelopes : envelopes'[d] = envelopes[d]
        /\ envelopes'[new] = e
    BY <1>0, <1>1, Appended, Lists DEF Types
  <1>4. prevSigned'[r] = new /\ \A s \in Runtimes \ {r} : prevSigned'[s] = prevSigned[s]
    BY <1>2 DEF Types
  <1>5. Own(r)' = Own(r) \union {new} /\ \A s \in Runtimes \ {r} : Own(s)' = Own(s)
    BY <1>1, <1>3 DEF Own
  <1>6. new \in Nat /\ \A s \in Runtimes : Own(s) \subseteq 1 .. Len(envelopes)
    BY <1>0, <1>3 DEF Own
  <1>7. ASSUME NEW s \in Runtimes, NEW d \in Own(s)
        PROVE  envelopes'[d] = envelopes[d] /\ d \in Nat /\ d < new
    BY <1>0, <1>3, <1>6
  <1>8. ASSUME NEW s \in Runtimes \ {r}
        PROVE  /\ LastBefore(s, Len(envelopes) + 1, prevSigned[s])'
               /\ \A d \in Own(s) : LastBefore(s, d, envelopes[d].prev)'
    <2>1. LastBefore(s, new, prevSigned[s])
      BY <1>0 DEF SignedLinks
    <2>2. prevSigned[s] \in Nat /\ Len(envelopes') + 1 \in Nat /\ new < Len(envelopes') + 1
      BY <1>3 DEF Types
    <2>3. LastBefore(s, Len(envelopes) + 1, prevSigned[s])'
      BY <1>3, <1>4, <1>5, <1>7, <2>1, <2>2 DEF LastBefore
    <2>4. \A d \in Own(s) : LastBefore(s, d, envelopes[d].prev)'
      BY <1>5, <1>7 DEF SignedLinks, LastBefore
    <2> QED
      BY <2>3, <2>4
  <1>9. LastBefore(r, Len(envelopes) + 1, prevSigned[r])'
    BY <1>3, <1>4, <1>5, <1>7 DEF LastBefore
  <1>10. \A d \in Own(r) : LastBefore(r, d, envelopes[d].prev)'
    <2>1. ASSUME NEW d \in Own(r) PROVE LastBefore(r, d, envelopes[d].prev)'
      <3>1. LastBefore(r, d, envelopes[d].prev) /\ envelopes'[d] = envelopes[d] /\ d < new
            /\ d \in Nat
        BY <1>7 DEF SignedLinks
      <3> QED
        BY <1>5, <1>6, <3>1 DEF LastBefore
    <2> QED
      BY <2>1
  <1>11. LastBefore(r, new, envelopes[new].prev)'
    <2>1. LastBefore(r, new, prevSigned[r]) /\ envelopes'[new].prev = prevSigned[r]
      BY <1>0, <1>1, <1>3 DEF SignedLinks
    <2> QED
      BY <1>5, <1>6, <2>1 DEF LastBefore
  <1>12. ASSUME NEW s \in Runtimes, NEW d \in Own(s)'
         PROVE  envelopes'[d].receipt \in Chain[prevReceipt[s]]
    <2>1. CASE d \in Own(s)
      BY <1>7, <2>1 DEF SignedLinks
    <2>2. CASE d = new /\ s = r
      BY <1>1, <1>2, <1>3, <2>2, OnChain
    <2> QED
      BY <1>5, <2>1, <2>2
  <1>13. ASSUME NEW s \in Runtimes, NEW d \in Own(s)', NEW f \in Own(s)', d <= f
         PROVE  envelopes'[d].receipt \in Chain[envelopes'[f].receipt]
    <2>1. CASE f \in Own(s)
      <3>1. d \in Own(s)
        BY <1>5, <1>6, <1>7, <1>13, <2>1
      <3> QED
        BY <1>7, <1>13, <2>1, <3>1 DEF SignedLinks
    <2>2. CASE f = new /\ s = r
      BY <1>1, <1>2, <1>3, <1>12, <2>2
    <2> QED
      BY <1>5, <2>1, <2>2
  <1>14. ASSUME NEW s \in Runtimes PROVE /\ LastBefore(s, Len(envelopes) + 1, prevSigned[s])'
                                         /\ \A d \in Own(s)' : LastBefore(s, d, envelopes[d].prev)'
    BY <1>5, <1>8, <1>9, <1>10, <1>11
  <1> QED
    BY <1>2, <1>12, <1>13, <1>14 DEF SignedLinks


\* Every step keeps the chain of signed receipts.
LEMMA SignedStep ==
    ASSUME Types, PlainLinks, SignedLinks, [Next]_vars PROVE SignedLinks'
  <1>1. CASE UNCHANGED <<envelopes, prevSigned, receipts, prevReceipt>>
    BY <1>1, OtherSigned
  <1>2. ASSUME NEW r \in Runtimes, NEW execution \in Nat,
               NEW outcome \in {"SUCCEEDED", "FAILED", "NOT_EXECUTED"},
               job[r].stage \in {"decided", "executed"}, Receipt(r, execution, outcome)
        PROVE  SignedLinks'
    <2>1. UNCHANGED <<envelopes, prevSigned>>
      BY <1>2 DEF Receipt
    <2>2. PICK n \in Receipts : n.prev = prevReceipt[r] /\ receipts' = Append(receipts, n)
      BY <1>2, ReceiptTypes
    <2>3. prevReceipt' = [prevReceipt EXCEPT ![r] = Len(receipts) + 1]
      BY <1>2, ReceiptTypes
    <2> QED
      BY <2>1, <2>2, <2>3, ReceiptSigned
  <1>3. ASSUME NEW r \in Runtimes, ReceiptOfRefusal(r) PROVE SignedLinks'
    BY <1>2, <1>3 DEF ReceiptOfRefusal
  <1>4. ASSUME NEW r \in Runtimes, ReceiptOfExecution(r) PROVE SignedLinks'
    BY <1>2, <1>4, JobFields DEF ReceiptOfExecution
  <1>5. ASSUME NEW r \in Runtimes, SignReceipt(r) PROVE SignedLinks'
    BY <1>5, SignSigned
  <1>6. ASSUME NEW r \in Runtimes, Complete(r) PROVE SignedLinks'
    BY <1>1, <1>3, <1>4, <1>5, <1>6
       DEF Complete, Execute, RaiseInReceipt, RaiseNaive, chainVars
  <1>7. ASSUME NEW r \in Runtimes, NEW call \in Calls, Call(r, call) PROVE SignedLinks'
    <2>1. UNCHANGED chainVars
      BY <1>7 DEF Call, WithoutLease, WithSignedLease, WithBrokerLease, Decided
    <2> QED
      BY <1>1, <2>1 DEF chainVars
  <1>8. ASSUME NEW id, NEW request, Withdraw(id) \/ Approve(id, request) PROVE SignedLinks'
    BY <1>1, <1>8 DEF Withdraw, Approve, chainVars
  <1>9. CASE UNCHANGED vars
    BY <1>1, <1>9 DEF vars, chainVars
  <1> QED
    BY <1>6, <1>7, <1>8, <1>9 DEF Next, Full

\* What the links of signed receipts mean to verify_envelope_chain.
LEMMA SignedChainHolds ==
    ASSUME Types, SignedLinks PROVE SignedChainFollowsPlain
  <1>1. ASSUME NEW r \in Runtimes, NEW k \in 0 .. Len(envelopes), NEW ns \in [1 .. k -> Own(r)],
               \A i, j \in 1 .. k : i < j => ns[i] < ns[j]
        PROVE  VerifyEnvelopeChain(ns, 0) <=>
                   \A i \in 1 .. k : \A d \in Own(r) : d < ns[i] => \E j \in 1 .. k : ns[j] = d
    <2>1. k \in Nat /\ Own(r) \subseteq Nat \ {0}
      BY Lists DEF Own
    <2>2. \A i \in 1 .. k : /\ ns[i] \in Nat \ {0} /\ ns[i] \in Own(r)
                            /\ LastBefore(r, ns[i], envelopes[ns[i]].prev)
      BY <2>1 DEF SignedLinks
    <2>3. ASSUME VerifyEnvelopeChain(ns, 0), NEW d \in Own(r),
                 \E i \in 1 .. k : d < ns[i] /\ \A j \in 1 .. k : ns[j] # d
          PROVE  FALSE
      <3> DEFINE Bad == {i \in 1 .. k : d < ns[i]}
      <3>1. PICK i \in Bad : \A j \in Bad : i <= j
        <4>1. Bad \subseteq Nat /\ Bad # {}
          BY <2>1, <2>3
        <4> HIDE DEF Bad
        <4> QED
          BY <4>1, LeastMember
      <3>2. i \in 1 .. k /\ d < ns[i] /\ d \in Nat \ {0}
        BY <2>1, <3>1
      <3>3. d <= envelopes[ns[i]].prev
        BY <2>2, <3>2 DEF LastBefore
      <3>4. envelopes[ns[i]].prev = IF i = 1 THEN 0 ELSE ns[i - 1]
        BY <2>3, <3>2 DEF VerifyEnvelopeChain
      <3>5. i # 1
        BY <3>2, <3>3, <3>4
      <3>6. i - 1 \in 1 .. k /\ d <= ns[i - 1]
        BY <2>1, <3>2, <3>3, <3>4, <3>5
      <3>7. ns[i - 1] \in Nat /\ ns[i - 1] # d
        BY <2>2, <2>3, <3>6
      <3>8. i - 1 \in Bad
        BY <3>2, <3>6, <3>7
      <3> QED
        BY <2>1, <3>1, <3>2, <3>8
    <2>4. ASSUME \A i \in 1 .. k : \A d \in Own(r) : d < ns[i] => \E j \in 1 .. k : ns[j] = d,
                 NEW i \in 1 .. k
          PROVE  envelopes[ns[i]].prev = IF i = 1 THEN 0 ELSE ns[i - 1]
      <3> DEFINE p == envelopes[ns[i]].prev
      <3>1. p < ns[i] /\ (p # 0 => p \in Own(r)) /\ \A d \in Own(r) : d < ns[i] => d <= p
        BY <2>2 DEF LastBefore
      <3> HIDE DEF p
      <3>2. p # 0 => \E j \in 1 .. k : ns[j] = p
        BY <2>4, <3>1
      <3>3. CASE i = 1
        <4>1. \A j \in 1 .. k : ns[1] <= ns[j]
          BY <1>1, <2>1, <2>2
        <4>2. p = 0
          BY <2>1, <2>2, <3>1, <3>2, <3>3, <4>1
        <4> QED
          BY <3>3, <4>2 DEF p
      <3>4. CASE i # 1
        <4>1. i - 1 \in 1 .. k /\ ns[i - 1] < ns[i] /\ ns[i - 1] \in Own(r)
          BY <1>1, <2>1, <2>2, <3>4
        <4>2. ns[i - 1] <= p /\ ns[i - 1] \in Nat \ {0}
          BY <2>1, <3>1, <4>1
        <4>3. p \in Own(r)
          BY <3>1, <4>2
        <4>4. PICK j \in 1 .. k : ns[j] = p
          BY <2>1, <3>2, <4>3
        <4>5. ~ (i <= j)
          BY <1>1, <2>1, <2>2, <3>1, <4>4
        <4>6. ~ (j < i - 1)
          BY <1>1, <2>1, <2>2, <4>1, <4>2, <4>4
        <4>7. j = i - 1
          BY <2>1, <4>1, <4>5, <4>6
        <4> QED
          BY <3>4, <4>4, <4>7 DEF p
      <3> QED
        BY <3>3, <3>4
    <2>5. DOMAIN ns = 1 .. k
      OBVIOUS
    <2>6. VerifyEnvelopeChain(ns, 0)
            => \A i \in 1 .. k : \A d \in Own(r) : d < ns[i] => \E j \in 1 .. k : ns[j] = d
      BY <2>3
    <2>7. (\A i \in 1 .. k : \A d \in Own(r) : d < ns[i] => \E j \in 1 .. k : ns[j] = d)
            => VerifyEnvelopeChain(ns, 0)
      BY <2>4, <2>5 DEF VerifyEnvelopeChain
    <2> QED
      BY <2>6, <2>7
  <1>2. \A r \in Runtimes : \A d, e \in Own(r) :
            d <= e => envelopes[d].receipt \in Chain[envelopes[e].receipt]
    BY DEF SignedLinks
  <1> QED
    BY <1>1, <1>2 DEF SignedChainFollowsPlain

-----------------------------------------------------------------------------
(* The invariant, and what follows from it.                                *)

\* Every conjunct of the invariant holds at the start.
LEMMA Initially == Init => IInv
  <1> SUFFICES ASSUME Init PROVE IInv
    OBVIOUS
  <1>1. Types
    BY DEF Init, Types, Jobs
  <1>2. Broker!IInv
    BY DEF Init, Broker!Init, Broker!IInv, Broker!TypeOK, Broker!BookKeeping,
           Broker!OneReleasePerLease, Broker!ReleasesMatchApproval, Broker!EventsTellTheStory,
           Broker!IssuedFirst, Broker!Issued
  <1>3. PolicyInv
    BY DEF Init, Idle, PolicyInv, DecisionSound, ApprovalsExecuteOnce, ExecutionsFollowPolicy
  <1>4. PlainLinks
    BY DEF Init, Idle, PlainLinks, Linked, JobLinked, ExecutionsOnChainOrRaised
  <1>5. SignedLinks
    BY DEF Init, SignedLinks, LastBefore, Own
  <1> QED
    BY <1>1, <1>2, <1>3, <1>4, <1>5 DEF IInv

\* IInv holds in every state of the runtimes, the reviewer and the broker.
THEOREM Inductive == Spec => []IInv
  <1>1. Init => IInv
    BY Initially
  <1>2. IInv /\ [Next]_vars => IInv'
    BY TypesStep, PolicyStep, PlainStep, SignedStep DEF IInv
  <1> QED
    BY <1>1, <1>2, PTL DEF Spec

\* Stages are those of run and run_signed, and chain heads name receipts and
\* envelopes there are.
THEOREM TypeCorrect == Spec => []TypeOK
  <1>1. IInv => TypeOK
    <2> SUFFICES ASSUME IInv PROVE TypeOK
      OBVIOUS
    <2>1. ASSUME NEW r \in Runtimes
          PROVE  /\ job[r].stage \in {"idle", "decided", "executed", "receipted"}
                 /\ prevReceipt[r] \in 0 .. Len(receipts)
      BY JobFields DEF IInv, PlainLinks
    <2>2. ASSUME NEW r \in Runtimes PROVE prevSigned[r] \in 0 .. Len(envelopes)
      <3>1. prevSigned[r] \in Nat /\ Len(envelopes) \in Nat
        BY Lists DEF IInv, Types
      <3>2. prevSigned[r] < Len(envelopes) + 1
        BY DEF IInv, SignedLinks, LastBefore
      <3> QED
        BY <3>1, <3>2
    <2> QED
      BY <2>1, <2>2 DEF TypeOK, IInv, PlainLinks
  <1> QED
    BY <1>1, Inductive, PTL

\* A lease releases at most one execution, in whichever runtimes and however
\* often run and run_signed are called with it.
THEOREM ApprovalsExecuteOnceAlways == Spec => []ApprovalsExecuteOnce
  <1>1. IInv => ApprovalsExecuteOnce
    BY DEF IInv, PolicyInv
  <1> QED
    BY <1>1, Inductive, PTL

\* What the runtimes execute was allowed by the gate, or was for review and
\* released by a human's lease for that request and those grants.
THEOREM ExecutionsFollowPolicyAlways == Spec => []ExecutionsFollowPolicy
  <1>1. IInv => ExecutionsFollowPolicy
    BY DEF IInv, PolicyInv
  <1> QED
    BY <1>1, Inductive, PTL

\* No execution escapes the receipt chain of its runtime unless create_receipt
\* raised in its call, and then it has no receipt anywhere, ever.
THEOREM ExecutionsOnChainOrRaisedAlways == Spec => []ExecutionsOnChainOrRaised
  <1>1. IInv => ExecutionsOnChainOrRaised
    BY DEF IInv, PlainLinks
  <1> QED
    BY <1>1, Inductive, PTL

\* verify_envelope_chain accepts a runtime's signed receipts exactly when none
\* is missing before the last, and they run along the chain of plain receipts.
THEOREM SignedChainFollowsPlainAlways == Spec => []SignedChainFollowsPlain
  <1>1. IInv => SignedChainFollowsPlain
    BY SignedChainHolds DEF IInv
  <1> QED
    BY <1>1, Inductive, PTL


=============================================================================
