------------------------------ MODULE Runtime ------------------------------
(***************************************************************************)
(* The in-process runtime (runtime.py): run takes a request through gate,  *)
(* review, executor and receipt; run_signed also signs the receipt.        *)
(*                                                                         *)
(* Several runtimes share one review broker and one replay ledger: objects *)
(* of one process, or a runtime and the one that replaces it after a       *)
(* restart.  Each makes one call at a time and keeps the heads of its two  *)
(* receipt chains in attributes.  A runtime that stops inside a call was   *)
(* killed there.  A missing broker or authorizer has the effect of a       *)
(* refused lease.                                                          *)
(***************************************************************************)
EXTENDS CapabilityGate, SignedReview, HashChain, Integers, FiniteSets

CONSTANTS
    Runtimes,        \* the runtimes
    Requests,        \* what callers ask for
    Registry,        \* the registry all of them were given
    SignedLeases,    \* signed leases in the hands of callers
    LeaseIds,        \* ids of leases of the broker
    MaxCalls,        \* bound: calls that get past the decision
    MaxRaises        \* bound: calls in which create_receipt raises

ASSUME BoundAssumption == MaxCalls \in Nat /\ MaxRaises \in Nat

VARIABLES
    lease, uses, cancelled, events, releases,    \* the broker's
    job,             \* job[r]: the call being made
    prevReceipt,     \* _previous_receipt_hash, as a place in receipts
    prevSigned,      \* _previous_signed_receipt_hash, a place in envelopes
    executions,      \* calls of executor.execute, in the order made
    receipts,        \* receipts created
    raised,          \* calls in which create_receipt raised: the execution, or 0
    envelopes,       \* receipts signed
    delivered        \* receipts returned to callers

brokerVars == <<lease, uses, cancelled, events, releases>>
chainVars == <<prevReceipt, prevSigned, executions, receipts, raised, envelopes, delivered>>
vars == <<brokerVars, leaseLedger, job, chainVars>>

\* The clock does not move here: windows are the broker's and the gate's matter.
Now == 0

Base == [request \in Requests |-> Evaluate(request, Registry)]

\* The broker is given what the gate makes of the requests; only its operations
\* are used, so its bound plays no part.
GrantLists == {Base[request].matched_grant_ids : request \in Requests}
Broker == INSTANCE ReviewBroker WITH Times <- {Now, Now + 1}, MaxEvents <- 0

Idle == [stage |-> "idle"]
NoVia == [kind |-> "none"]

\* How a caller calls: run, or run_signed with a usable `now` or a naive one.
\* (run passes `now` on to redeem and does not look at it otherwise.)
Calls == {call \in [signed : BOOLEAN, naive : BOOLEAN] : call.naive => call.signed}

Init ==
    /\ Broker!Init
    /\ leaseLedger = {}
    /\ job = [r \in Runtimes |-> Idle]
    /\ prevReceipt = [r \in Runtimes |-> 0]
    /\ prevSigned = [r \in Runtimes |-> 0]
    /\ executions = << >>
    /\ receipts = << >>
    /\ raised = << >>
    /\ envelopes = << >>
    /\ delivered = {}

-----------------------------------------------------------------------------
(* The decision.                                                           *)

\* Calls that have a receipt, ended in create_receipt, or will do one of these.
CallsMade ==
    Len(receipts) + Len(raised)
        + Cardinality({r \in Runtimes : job[r].stage \in {"decided", "executed"}})

\* The call goes on with a decision, reached with a lease (via) or without.
Decided(r, call, request, verdict, via) ==
    /\ job[r] = Idle /\ CallsMade < MaxCalls
    /\ job' = [job EXCEPT ![r] = [stage |-> "decided", request |-> request,
                                  verdict |-> verdict, via |-> via,
                                  signed |-> call.signed, naive |-> call.naive]]
    /\ UNCHANGED chainVars

\* No lease is given, or the verdict is not REVIEW and a lease is not looked at.
WithoutLease(r, call, request) ==
    /\ Decided(r, call, request, Base[request].verdict, NoVia)
    /\ UNCHANGED <<brokerVars, leaseLedger>>

\* A signed lease for a REVIEW.  redeem raises on a naive `now` before it
\* changes anything, and so ends the call.
WithSignedLease(r, call, request, l) ==
    /\ Base[request].verdict = "REVIEW" /\ ~ call.naive
    /\ \/ /\ Redeemable(l, request, Base[request], Now)
          /\ Consume(l, Now)
          /\ Decided(r, call, request, "ALLOW",
                     [kind |-> "signed", lease_id |-> l.body.lease_id])
       \/ /\ ~ Redeemable(l, request, Base[request], Now)
          /\ Decided(r, call, request, "REVIEW", NoVia)
          /\ UNCHANGED leaseLedger
    /\ UNCHANGED brokerVars

\* Mutant: a lease the broker refuses still opens the gate.
WithBrokerLeaseLenient(r, call, request, id) ==
    /\ Base[request].verdict = "REVIEW" /\ ~ call.naive
    /\ Broker!Issued(id)
    /\ Decided(r, call, request, "ALLOW", [kind |-> "broker", lease_id |-> id])
    /\ \/ Broker!Redeem(id, request, Base[request], Now)
       \/ Broker!Reject(id, request, Base[request], Now)
    /\ UNCHANGED leaseLedger

\* A lease of the broker for a REVIEW: redeemed, rejected, or not known.
WithBrokerLease(r, call, request, id) ==
    /\ Base[request].verdict = "REVIEW" /\ ~ call.naive
    /\ \/ /\ Broker!Redeem(id, request, Base[request], Now)
          /\ Decided(r, call, request, "ALLOW", [kind |-> "broker", lease_id |-> id])
       \/ /\ Broker!Reject(id, request, Base[request], Now)
          /\ Decided(r, call, request, "REVIEW", NoVia)
       \/ /\ ~ Broker!Issued(id)
          /\ Decided(r, call, request, "REVIEW", NoVia)
          /\ UNCHANGED brokerVars
    /\ UNCHANGED leaseLedger

-----------------------------------------------------------------------------
(* Execution and receipts.                                                 *)

\* An ALLOW is executed; an exception of the executor becomes outcome FAILED.
Execute(r) ==
    /\ job[r].stage = "decided" /\ job[r].verdict = "ALLOW"
    /\ executions' = Append(executions, [by |-> r, request |-> job[r].request,
                                         via |-> job[r].via])
    /\ \E outcome \in {"SUCCEEDED", "FAILED"} :
          job' = [job EXCEPT ![r] = [stage |-> "executed", execution |-> Len(executions) + 1,
                                     outcome |-> outcome, signed |-> @.signed,
                                     naive |-> @.naive]]
    /\ UNCHANGED <<brokerVars, leaseLedger, prevReceipt, prevSigned, receipts, raised,
                   envelopes, delivered>>

\* Mutant: only a receipt that is returned at once advances the chain.
NewHeadIfReturned(r, n) ==
    prevReceipt' = IF job[r].signed THEN prevReceipt ELSE [prevReceipt EXCEPT ![r] = n]

\* self._previous_receipt_hash = receipt.receipt_hash
NewHead(r, n) == prevReceipt' = [prevReceipt EXCEPT ![r] = n]

\* create_receipt returns, for an execution (or 0) and its outcome; run returns
\* the receipt, and run_signed goes on with it.
Receipt(r, execution, outcome) ==
    LET n == Len(receipts) + 1
    IN  /\ receipts' = Append(receipts, [by |-> r, prev |-> prevReceipt[r],
                                         execution |-> execution, outcome |-> outcome])
        /\ NewHead(r, n)
        /\ IF job[r].signed
           THEN /\ job' = [job EXCEPT ![r] = [stage |-> "receipted", receipt |-> n,
                                              naive |-> @.naive]]
                /\ UNCHANGED delivered
           ELSE /\ job' = [job EXCEPT ![r] = Idle]
                /\ delivered' = delivered \union {n}
        /\ UNCHANGED <<brokerVars, leaseLedger, prevSigned, executions, raised, envelopes>>

ReceiptOfRefusal(r) ==
    /\ job[r].stage = "decided" /\ job[r].verdict # "ALLOW"
    /\ Receipt(r, 0, "NOT_EXECUTED")

ReceiptOfExecution(r) ==
    /\ job[r].stage = "executed"
    /\ Receipt(r, job[r].execution, job[r].outcome)

\* create_receipt raises: a result that is no mapping or holds what JSON has no
\* form for, text of the request or the result that UTF-8 cannot encode (a lone
\* surrogate in what echo gives back).  The call is outside run's try and before
\* the head is set, and run lets the exception through.  What the executor
\* raises past `except Exception` ends the call in the same way.
RaiseInReceipt(r) ==
    /\ Len(raised) < MaxRaises
    /\ \/ job[r].stage = "decided" /\ job[r].verdict # "ALLOW" /\ raised' = Append(raised, 0)
       \/ job[r].stage = "executed" /\ raised' = Append(raised, job[r].execution)
    /\ job' = [job EXCEPT ![r] = Idle]
    /\ UNCHANGED <<brokerVars, leaseLedger, prevReceipt, prevSigned, executions, receipts,
                   envelopes, delivered>>

\* Mutant: the head of the signed chain is the receipt instead of the envelope.
NewSignedHeadByReceipt(r, n) == prevSigned' = [prevSigned EXCEPT ![r] = job[r].receipt]

\* self._previous_signed_receipt_hash = envelope.envelope_hash
NewSignedHead(r, n) == prevSigned' = [prevSigned EXCEPT ![r] = n]

\* run_signed signs the receipt and returns both.
SignReceipt(r) ==
    /\ job[r].stage = "receipted" /\ ~ job[r].naive
    /\ envelopes' = Append(envelopes, [by |-> r, receipt |-> job[r].receipt,
                                       prev |-> prevSigned[r]])
    /\ NewSignedHead(r, Len(envelopes) + 1)
    /\ delivered' = delivered \union {job[r].receipt}
    /\ job' = [job EXCEPT ![r] = Idle]
    /\ UNCHANGED <<brokerVars, leaseLedger, prevReceipt, executions, receipts, raised>>

\* run_signed looks at the time zone of `now` only here, and raises.
RaiseNaive(r) ==
    /\ job[r].stage = "receipted" /\ job[r].naive
    /\ job' = [job EXCEPT ![r] = Idle]
    /\ UNCHANGED <<brokerVars, leaseLedger, chainVars>>

\* verify_envelope_chain of the envelopes numbered ns, whose signatures hold:
\* each names the one before it, and the first what the caller expects.
VerifyEnvelopeChain(ns, expected_previous) ==
    \A k \in DOMAIN ns :
        envelopes[ns[k]].prev = IF k = 1 THEN expected_previous ELSE ns[k - 1]

-----------------------------------------------------------------------------
(* The human reviewer, at the broker.                                      *)

Approve(id, request) ==
    /\ Broker!IssueForReview(id, request, Base[request], Now, Now + 1)
    /\ UNCHANGED <<leaseLedger, job, chainVars>>

Withdraw(id) ==
    /\ Broker!Cancel(id, Now)
    /\ UNCHANGED <<leaseLedger, job, chainVars>>

Call(r, call) ==
    \E request \in Requests :
        \/ WithoutLease(r, call, request)
        \/ \E l \in SignedLeases : WithSignedLease(r, call, request, l)
        \/ \E id \in LeaseIds : WithBrokerLease(r, call, request, id)

Complete(r) ==
    \/ Execute(r) \/ ReceiptOfRefusal(r) \/ ReceiptOfExecution(r)
    \/ RaiseInReceipt(r) \/ SignReceipt(r) \/ RaiseNaive(r)

\* The bound is reached and every call is over.
Full ==
    /\ CallsMade >= MaxCalls /\ \A r \in Runtimes : job[r] = Idle
    /\ UNCHANGED vars

Next ==
    \/ \E r \in Runtimes : Complete(r) \/ \E call \in Calls : Call(r, call)
    \/ \E id \in LeaseIds : Withdraw(id) \/ \E request \in Requests : Approve(id, request)
    \/ Full

Spec == Init /\ [][Next]_vars

-----------------------------------------------------------------------------
\* Type invariant: stages of run and run_signed, and chain heads that name
\* receipts and envelopes there are.
TypeOK ==
    /\ \A r \in Runtimes :
          /\ job[r].stage \in {"idle", "decided", "executed", "receipted"}
          /\ prevReceipt[r] \in 0 .. Len(receipts)
          /\ prevSigned[r] \in 0 .. Len(envelopes)
    /\ delivered \subseteq DOMAIN receipts
    /\ \A n \in DOMAIN receipts : receipts[n].execution \in 0 .. Len(executions)
    /\ \A k \in DOMAIN raised : raised[k] \in 0 .. Len(executions)

\* One approval, one execution, whichever runtime it is presented to and
\* however calls interleave: no two executions were released by the same lease.
ApprovalsExecuteOnce ==
    \A i, j \in DOMAIN executions :
        (executions[i].via = executions[j].via /\ executions[i].via # NoVia) => i = j

\* The request was allowed outright, or needed review and was released by a lease
\* a human issued for this very request and these review grants.
Permitted(request, via) ==
    LET base == Base[request]
        approved(l) == l.request = request /\ l.review_grant_ids = base.matched_grant_ids
    IN  \/ base.verdict = "ALLOW" /\ via = NoVia
        \/ base.verdict = "REVIEW" /\ via.kind = "signed"
             /\ \E row \in leaseLedger :
                   row.lease_id = via.lease_id /\ approved(row.envelope.body)
        \/ base.verdict = "REVIEW" /\ via.kind = "broker"
             /\ approved(lease[via.lease_id])
             /\ \E k \in DOMAIN releases : releases[k].lease_id = via.lease_id

\* What runs was permitted, by the policy or by a human's lease.
ExecutionsFollowPolicy ==
    \A i \in DOMAIN executions : Permitted(executions[i].request, executions[i].via)

\* The receipts behind each receipt, itself included.
Chain == ChainOf(receipts)

Pending(i) == \E r \in Runtimes : job[r].stage = "executed" /\ job[r].execution = i

Receipted(i) == \E n \in DOMAIN receipts : receipts[n].execution = i

\* create_receipt raised after execution i.
Raised(i) == \E k \in DOMAIN raised : raised[k] = i

Chained(i) == \E n \in Chain[prevReceipt[executions[i].by]] : receipts[n].execution = i

\* An execution escapes the chain in one way only: create_receipt raised in its
\* very call.  Then no receipt is ever made of it, and later ones link past it
\* without a gap.  Otherwise its receipt is behind the head its runtime will link
\* the next receipt to, even when run_signed raised afterwards, so that whoever
\* checks later receipts notices one that is missing.
ExecutionsOnChainOrRaised ==
    \A i \in DOMAIN executions :
        Pending(i) \/ Chained(i) \/ (Raised(i) /\ ~ Receipted(i))

\* The envelopes a runtime has signed.
Own(r) == {e \in DOMAIN envelopes : envelopes[e].by = r}

\* The signed receipts of a runtime pass verify_envelope_chain in the order in
\* which they were signed, a selection with a gap does not, and they run along
\* the chain of plain receipts ("a second chain above the existing plain receipt
\* chain").  A missing tail is not noticed: nothing after it links to it.
SignedChainFollowsPlain ==
    \A r \in Runtimes :
        /\ \A k \in 0 .. Len(envelopes) : \A ns \in [1 .. k -> Own(r)] :
              (\A i, j \in 1 .. k : i < j => ns[i] < ns[j]) =>
                 (VerifyEnvelopeChain(ns, 0) <=>
                     \A i \in 1 .. k : \A d \in Own(r) : d < ns[i] => \E j \in 1 .. k : ns[j] = d)
        /\ \A d, e \in Own(r) :
              d <= e => envelopes[d].receipt \in Chain[envelopes[e].receipt]

\* "Receipt for every attempt": once its call is over, the receipt of an
\* execution is in the hands of the caller.
ReceiptForEveryAttempt ==
    \A i \in DOMAIN executions :
        \/ Pending(i)
        \/ \E r \in Runtimes : job[r].stage = "receipted"
                                 /\ receipts[job[r].receipt].execution = i
        \/ \E n \in delivered : receipts[n].execution = i

-----------------------------------------------------------------------------
(* The strengthening that makes the invariants above inductive.            *)

Vias ==
    {NoVia} \union [kind : {"broker"}, lease_id : LeaseIds]
            \union [kind : {"signed"}, lease_id : {l.body.lease_id : l \in SignedLeases}]

Jobs ==
    {Idle}
    \union [stage : {"decided"}, request : Requests, verdict : {"ALLOW", "REVIEW", "DENY"},
            via : Vias, signed : BOOLEAN, naive : BOOLEAN]
    \union [stage : {"executed"}, execution : Nat, outcome : {"SUCCEEDED", "FAILED"},
            signed : BOOLEAN, naive : BOOLEAN]
    \union [stage : {"receipted"}, receipt : Nat, naive : BOOLEAN]

Executions == [by : Runtimes, request : Requests, via : Vias]
Receipts ==
    [by : Runtimes, prev : Nat, execution : Nat, outcome : {"SUCCEEDED", "FAILED", "NOT_EXECUTED"}]
SignedReceipts == [by : Runtimes, receipt : Nat, prev : Nat]

Types ==
    /\ job \in [Runtimes -> Jobs]
    /\ prevReceipt \in [Runtimes -> Nat] /\ prevSigned \in [Runtimes -> Nat]
    /\ executions \in Seq(Executions) /\ receipts \in Seq(Receipts) /\ raised \in Seq(Nat)
    /\ envelopes \in Seq(SignedReceipts)

\* A decision to execute, and every lease behind a decision, is permitted; a
\* lease behind a decision is behind nothing else.
DecisionSound(r) ==
    job[r].stage = "decided" =>
        /\ job[r].verdict = "ALLOW" \/ job[r].via # NoVia => Permitted(job[r].request, job[r].via)
        /\ job[r].via # NoVia =>
              /\ \A i \in DOMAIN executions : executions[i].via # job[r].via
              /\ \A s \in Runtimes \ {r} :
                    job[s].stage = "decided" => job[s].via # job[r].via

PolicyInv ==
    /\ \A r \in Runtimes : DecisionSound(r)
    /\ ApprovalsExecuteOnce
    /\ ExecutionsFollowPolicy

\* Receipts link backwards, and a call in progress holds its own execution, of
\* which nothing is known yet, or the receipt that is its runtime's head.
JobLinked(r) ==
    /\ job[r].stage = "executed" => /\ job[r].execution \in DOMAIN executions
                                    /\ executions[job[r].execution].by = r
                                    /\ ~ Receipted(job[r].execution)
                                    /\ ~ Raised(job[r].execution)
    /\ job[r].stage = "receipted" => job[r].receipt = prevReceipt[r] /\ prevReceipt[r] # 0

PlainLinks ==
    /\ Linked(receipts)
    /\ \A n \in DOMAIN receipts : receipts[n].execution \in 0 .. Len(executions)
    /\ \A k \in DOMAIN raised : raised[k] \in 0 .. Len(executions)
    /\ \A r \in Runtimes : prevReceipt[r] \in 0 .. Len(receipts) /\ JobLinked(r)
    /\ delivered \subseteq DOMAIN receipts
    /\ ExecutionsOnChainOrRaised

\* p is the last of r's envelopes before place e, or 0 when there is none.
LastBefore(r, e, p) ==
    /\ p < e /\ (p # 0 => p \in Own(r))
    /\ \A d \in Own(r) : d < e => d <= p

\* An envelope links to the one its runtime signed before, and what it signs is
\* behind the head of the plain chain, and before what is signed later.
SignedLinks ==
    \A r \in Runtimes :
        /\ LastBefore(r, Len(envelopes) + 1, prevSigned[r])
        /\ \A e \in Own(r) :
              /\ LastBefore(r, e, envelopes[e].prev)
              /\ envelopes[e].receipt \in Chain[prevReceipt[r]]
              /\ \A d \in Own(r) : d <= e => envelopes[d].receipt \in Chain[envelopes[e].receipt]

IInv == Types /\ Broker!IInv /\ PolicyInv /\ PlainLinks /\ SignedLinks

=============================================================================
