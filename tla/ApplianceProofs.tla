-------------------------- MODULE ApplianceProofs --------------------------
(***************************************************************************)
(* The safety properties of the appliance for any number of clients, any   *)
(* requests, registries and lease names, and any bounds.                   *)
(***************************************************************************)
EXTENDS ApplianceInvariants, ChainLemmas, SequenceTheorems, FiniteSetTheorems

USE DEF Registries

\* The gate decides one of three verdicts.
LEMMA EvaluateVerdict ==
    ASSUME NEW request, NEW registry
    PROVE  Evaluate(request, registry).verdict \in {"ALLOW", "REVIEW", "DENY"}
  BY DEF Evaluate, GateDecision

-----------------------------------------------------------------------------
(* The executor inside the appliance: its own proofs, which are about any  *)
(* permits and requests presented to it.                                   *)

Executor == INSTANCE ExecutorProofs WITH Permits <- {}, Times <- Nat

\* The two instances of the executor say the same.
LEMMA SameFault ==
    ASSUME NEW permit, NEW request, NEW t
    PROVE  /\ PermitFault(permit, request, t) = Executor!PermitFault(permit, request, t)
           /\ NoPermit = Executor!NoPermit
  BY DEF PermitFault, Executor!PermitFault, Expired, Executor!Expired, Binds, Executor!Binds,
         VerifyEnvelope, Executor!VerifyEnvelope, ExecutorTrust, Executor!ExecutorTrust,
         NoPermit, Executor!NoPermit

\* What a permit that passes every check of the executor has been shown to be.
LEMMA PermitFaultNone ==
    ASSUME NEW permit, NEW request, NEW t,
           PermitFault(permit, request, t) = "none"
    PROVE  /\ permit # NoPermit
           /\ permit.intact
           /\ permit.key = "gate" /\ permit.type = "execution_permit"
           /\ ~ (t < permit.body.issued_at)
           /\ ~ (t >= permit.body.expires_at)
           /\ request = permit.body.request
  BY SameFault, Executor!PermitFaultNone

\* The types are the same in both.
LEMMA SameTypes ==
    ASSUME NEW ps, NEW rs
    PROVE  /\ ExecTypeOK(ps, rs) <=> Executor!ExecTypeOK(ps, rs)
           /\ ExecTypeOK(ps, rs)' <=> Executor!ExecTypeOK(ps, rs)'
  BY DEF ExecTypeOK, Executor!ExecTypeOK, Presentable, Executor!Presentable, Rows, Executor!Rows,
         Attempts, Executor!Attempts, Outcomes, Executor!Outcomes, Refusals, Executor!Refusals,
         NoJob, Executor!NoJob, NoPermit, Executor!NoPermit

\* So is what the ledger and the attempts say of each other.
LEMMA SameSound ==
    /\ ExecSound <=> Executor!ExecSound
    /\ ExecSound' <=> Executor!ExecSound'
  BY DEF ExecSound, Executor!ExecSound, LedgerSound, Executor!LedgerSound,
         ExecJobSound, Executor!ExecJobSound, AttemptsSound, Executor!AttemptsSound,
         OneAttemptPerPermit, Executor!OneAttemptPerPermit

\* The executor takes the same steps in both.
LEMMA SameSteps == ExecSteps \/ ExecFaults => Executor!ExecSteps \/ Executor!ExecFaults
  <1>1. ExecConsume => Executor!ExecConsume
    BY SameFault DEF ExecConsume, Executor!ExecConsume, Unused, Executor!Unused,
       NoJob, Executor!NoJob, transportVars, Executor!transportVars
  <1>2. ExecRefuse => Executor!ExecRefuse
    BY SameFault DEF ExecRefuse, Executor!ExecRefuse, Unused, Executor!Unused,
       NoJob, Executor!NoJob, transportVars, Executor!transportVars
  <1>3. ExecRun => Executor!ExecRun
    BY DEF ExecRun, Executor!ExecRun, Outcomes, Executor!Outcomes,
       transportVars, Executor!transportVars
  <1>4. ExecRespond => Executor!ExecRespond
    BY DEF ExecRespond, Executor!ExecRespond, Send, Executor!Send, ExecReply,
       Executor!ExecReply, SignExecutionResult, Executor!SignExecutionResult,
       SignPayload, Executor!SignPayload, NoJob, Executor!NoJob
  <1>5. ExecDown => Executor!ExecDown
    BY DEF ExecDown, Executor!ExecDown, ResetHeld, Executor!ResetHeld, Held, Executor!Held,
       Reset, Executor!Reset, NoJob, Executor!NoJob
  <1>6. ExecRestart => Executor!ExecRestart
    BY DEF ExecRestart, Executor!ExecRestart, transportVars, Executor!transportVars
  <1>7. ExecConsumeFails => Executor!ExecConsumeFails
    BY SameFault DEF ExecConsumeFails, Executor!ExecConsumeFails,
       NoJob, Executor!NoJob, transportVars, Executor!transportVars
  <1> QED
    BY <1>1, <1>2, <1>3, <1>4, <1>5, <1>6, <1>7 DEF ExecSteps, Executor!ExecSteps, ExecFaults,
       Executor!ExecFaults, ExecBrokenPipe, Executor!ExecBrokenPipe, ExecCrash, Executor!ExecCrash

\* One step of the executor keeps its types, and ledger, job and attempts
\* consistent.
LEMMA ExecutorKeeps ==
    ASSUME NEW ps, NEW rs, ExecTypeOK(ps, rs), now \in Nat,
           \A p \in ps : p.body.issued_at \in Nat /\ p.body.expires_at \in Nat,
           ExecSound, ExecSteps \/ ExecFaults
    PROVE  ExecTypeOK(ps, rs)' /\ ExecSound'
  <1>1. Executor!ExecTypeOK(ps, rs) /\ Executor!ExecSound
        /\ (Executor!ExecSteps \/ Executor!ExecFaults)
    BY SameTypes, SameSound, SameSteps
  <1>2. Executor!ExecTypeOK(ps, rs)'
    BY <1>1, Executor!ExecTypeStep
  <1>3. Executor!ExecSound'
    BY <1>1, Executor!ExecSoundStep
  <1> QED
    BY <1>2, <1>3, SameTypes, SameSound

\* Every other step leaves ledger and attempts alone and starts no attempt.
LEMMA ExecutorQuiet ==
    ASSUME ExecSound, permitLedger' = permitLedger, attempts' = attempts,
           execJob' = execJob \/ execJob'.stage \notin {"authorized", "executed"}
    PROVE  ExecSound'
  BY SameSound, Executor!QuietStep

-----------------------------------------------------------------------------
(* The gate.                                                               *)

\* The steps that touch what the gate layer speaks about, and all others.
LEMMA GateCases ==
    ASSUME [Next]_vars
    PROVE  \/ UNCHANGED leases /\ (GateSteps \/ GateFaults)
           \/ UNCHANGED leases /\ \E registry \in Edits : EditRegistry(registry)
           \/ UNCHANGED leases /\ \E c \in Clients, r \in Requests, lease \in LeasesOrNone :
                                      Submit(c, r, lease)
           \/ Approve
           \/ Tick
           \/ UNCHANGED <<now, gateVars, leases>>
  <1>1. CASE GateStep \/ Crash \/ StorageFails \/ Restart \/ Edit \/ Approve \/ Tick
    BY <1>1 DEF GateStep, GateFaults, Crash, StorageFails, Restart, Edit, ExecCrash, ExecDown,
         VerCrash, VerDown, ExecRestart, VerRestart, ExecConsumeFails, VerSaveFails,
         transportVars
  <1>2. CASE ExecStep \/ VerStep \/ RestartBridge \/ Finished \/ UNCHANGED vars
    BY <1>2 DEF ExecStep, VerStep, RestartBridge, Finished, vars, ExecSteps, VerSteps,
         ExecConsume, ExecRefuse, ExecRun, ExecRespond, ExecBrokenPipe, ExecDown,
         VerSign, VerRefuse, VerTruncate, VerSave, VerRespond, VerBrokenPipe, VerDown,
         BridgeRestart, transportVars
  <1>3. ASSUME NEW c \in Clients, ClientStep(c) \/ GiveUp(c)
        PROVE  UNCHANGED <<now, gateVars, leases>>
    BY <1>3 DEF ClientStep, GiveUp, Proceed, NotExecuted, Execute, ExecutionRejected,
         Finalize, Verified, CallFails, Abandon
  <1>4. ASSUME NEW c \in Clients, Start(c)
        PROVE  \/ UNCHANGED leases /\ \E r \in Requests, lease \in LeasesOrNone :
                                         Submit(c, r, lease)
               \/ UNCHANGED <<now, gateVars, leases>>
    BY <1>4 DEF Start, PresentDirectly, PresentResult, PlannerFails, transportVars, LeasesOrNone
  <1> QED
    BY <1>1, <1>2, <1>3, <1>4 DEF Next

\* Evaluating a request without redeeming a lease.
LEMMA GateEvaluateStep ==
    ASSUME GateInv, GateEvaluate, UNCHANGED leases PROVE GateInv'
  <1> DEFINE m == Head(gateQueue)
             base == Evaluate(m.request, gateRegistry)
  <1>1. m \in GateMessages /\ Tail(gateQueue) \in Seq(GateMessages)
    BY DEF GateInv, GateTypes, GateEvaluate
  <1>2. gateJob' = [stage |-> "decided", client |-> m.client, request |-> m.request,
                    base |-> base, verdict |-> base.verdict, lease |-> NoLease]
    BY DEF GateEvaluate
  <1>3. base \in Bases /\ base.verdict \in {"ALLOW", "REVIEW", "DENY"}
    BY <1>1, EvaluateVerdict DEF Bases, GateMessages, GateInv, GateTypes
  <1>4. /\ UNCHANGED <<now, policySince, gateRegistry, registryFile, leaseLedger, permits, gateUp>>
        /\ gateQueue' = Tail(gateQueue)
    BY DEF GateEvaluate, transportVars
  <1>5. GateTypes'
    <2>1. gateJob' \in [stage : {"decided"}, client : Clients, request : Requests,
                        base : Bases, verdict : {"ALLOW", "REVIEW", "DENY"},
                        lease : LeasesOrNone]
      BY <1>1, <1>2, <1>3 DEF GateMessages, LeasesOrNone
    <2> QED
      BY <1>1, <1>4, <2>1 DEF GateInv, GateTypes, GateEvaluate, GateMessages, LeasesOrNone
  <1>6. GateJobSound'
    BY <1>2, <1>4 DEF GateJobSound, Authorized
  <1>7. PermitsSound'
    BY <1>4 DEF GateInv, PermitsSound, PermitSound, OlderThanPolicy, LeaseSpentOn, Authorized,
         Redeemed, LeasesOrNone
  <1> QED
    BY <1>5, <1>6, <1>7 DEF GateInv

\* Redeeming a lease: the row is new, so no permit carries the lease yet.
LEMMA GateRedeemStep ==
    ASSUME GateInv, GateRedeem, UNCHANGED leases PROVE GateInv'
  <1> DEFINE m == Head(gateQueue)
             base == Evaluate(m.request, gateRegistry)
             row == [lease_id |-> m.lease.body.lease_id, envelope |-> m.lease, at |-> now]
  <1>1. m \in GateMessages /\ Tail(gateQueue) \in Seq(GateMessages)
    BY DEF GateInv, GateTypes, GateRedeem
  <1>2. gateJob' = [stage |-> "decided", client |-> m.client, request |-> m.request,
                    base |-> base, verdict |-> "ALLOW", lease |-> m.lease]
    BY DEF GateRedeem
  <1>3. base \in Bases
    BY <1>1 DEF Bases, GateMessages, GateInv, GateTypes
  <1>4. /\ UNCHANGED <<now, policySince, gateRegistry, registryFile, permits, gateUp>>
        /\ gateQueue' = Tail(gateQueue)
        /\ leaseLedger' = leaseLedger \union {row}
    BY DEF GateRedeem, Consume, transportVars
  <1>5. /\ m.lease \in leases
        /\ base.verdict = "REVIEW"
        /\ m.lease.body.request = m.request
        /\ m.lease.body.review_grant_ids = base.matched_grant_ids
        /\ ~ Redeemed(m.lease)
    BY <1>1 DEF GateRedeem, Redeemable, Acceptable, LeaseForRequest, SamePolicy, LeaseUnused, Redeemed,
         GateMessages, LeasesOrNone
  <1>6. GateTypes'
    <2>1. gateJob' \in [stage : {"decided"}, client : Clients, request : Requests,
                        base : Bases, verdict : {"ALLOW", "REVIEW", "DENY"},
                        lease : LeasesOrNone]
      BY <1>1, <1>2, <1>3 DEF GateMessages, LeasesOrNone
    <2> QED
      BY <1>1, <1>4, <2>1 DEF GateInv, GateTypes, GateRedeem, GateMessages, LeasesOrNone
  <1>7. \A lease : Redeemed(lease) => Redeemed(lease)'
    BY <1>4 DEF Redeemed
  <1>8. GateJobSound'
    <2>1. Redeemed(gateJob.lease)'
      <3>1. row \in leaseLedger' /\ row.lease_id = gateJob'.lease.body.lease_id
        BY <1>2, <1>4
      <3> QED
        BY <3>1 DEF Redeemed
    <2>2. \A p \in permits : p.body.lease # NoLease =>
             p.body.lease.body.lease_id # m.lease.body.lease_id
      BY <1>5 DEF GateInv, PermitsSound, LeaseSpentOn, Redeemed
    <2> QED
      BY <1>2, <1>4, <1>5, <2>1, <2>2 DEF GateJobSound, Authorized, Redeemed
  <1>9. PermitsSound'
    BY <1>4, <1>7 DEF GateInv, PermitsSound, PermitSound, OlderThanPolicy, LeaseSpentOn,
         Authorized, Redeemed, LeasesOrNone
  <1> QED
    BY <1>6, <1>8, <1>9 DEF GateInv

\* Signing a permit: it inherits the decision's authority, and its lease is in no
\* other permit.
LEMMA GateRespondStep ==
    ASSUME GateInv, GateRespond, UNCHANGED leases PROVE GateInv'
  <1> DEFINE permit == IssueExecutionPermit(gateJob, now)
  <1>1. UNCHANGED <<now, policySince, gateRegistry, registryFile, leaseLedger, gateUp, gateQueue>>
    BY DEF GateRespond
  <1>2. gateJob' = NoJob
    BY DEF GateRespond
  <1>3. \/ /\ gateJob.stage = "decided" /\ gateJob.verdict = "ALLOW"
           /\ permits' = permits \union {permit}
        \/ permits' = permits
    BY DEF GateRespond
  <1>4. GateTypes' /\ GateJobSound'
    BY <1>1, <1>2 DEF GateInv, GateTypes, GateJobSound, NoJob, GateMessages, LeasesOrNone
  <1>5. CASE permits' = permits
    BY <1>1, <1>4, <1>5 DEF GateInv, PermitsSound, PermitSound, OlderThanPolicy, LeaseSpentOn,
         Authorized, Redeemed, LeasesOrNone
  <1>6. CASE /\ gateJob.stage = "decided" /\ gateJob.verdict = "ALLOW"
             /\ permits' = permits \union {permit}
    <2> HIDE DEF permit
    <2>1. /\ permit.type = "execution_permit" /\ permit.key = "gate" /\ permit.intact
          /\ permit.body.request = gateJob.request
          /\ permit.body.lease = gateJob.lease
          /\ permit.body.issued_at = now
          /\ permit.body.expires_at = now + PermitTTL
          /\ permit.body.registry_version = gateRegistry.version
      BY DEF permit, IssueExecutionPermit, SignPayload
    <2>2. /\ gateJob.request \in Requests /\ gateJob.lease \in LeasesOrNone
          /\ now \in Nat /\ gateRegistry \in Registries
      BY <1>6, BoundsAssumption DEF GateInv, GateTypes, NoJob
    <2>3. Authorized(Evaluate(gateJob.request, gateRegistry), gateJob.request, gateJob.lease)
      BY <1>6 DEF GateInv, GateJobSound
    <2>4. gateJob.lease # NoLease =>
             /\ Redeemed(gateJob.lease)
             /\ \A p \in permits : p.body.lease # NoLease =>
                    p.body.lease.body.lease_id # gateJob.lease.body.lease_id
      BY <1>6 DEF GateInv, GateJobSound
    <2>5. PermitSound(permit) /\ OlderThanPolicy(permit)
      BY <2>1, <2>2, <2>3 DEF PermitSound, OlderThanPolicy, Authorized
    <2>6. \A p \in permits : PermitSound(p)' /\ OlderThanPolicy(p)'
      BY <1>1 DEF GateInv, PermitsSound, PermitSound, OlderThanPolicy, Authorized, LeasesOrNone
    <2>7. \A p : p = permit => PermitSound(p)' /\ OlderThanPolicy(p)'
      BY <1>1, <2>5 DEF PermitSound, OlderThanPolicy, Authorized, LeasesOrNone
    <2>8. \A p \in permits' : LeaseSpentOn(p)'
      BY <1>1, <1>6, <2>1, <2>4 DEF GateInv, PermitsSound, LeaseSpentOn, Redeemed
    <2> QED
      BY <1>4, <1>6, <2>6, <2>7, <2>8 DEF GateInv, PermitsSound
  <1> QED
    BY <1>3, <1>5, <1>6

\* The gate dies: the decision it was working on is lost.
LEMMA GateDownStep ==
    ASSUME GateInv, GateDown, UNCHANGED leases PROVE GateInv'
  <1>1. GateTypes' /\ GateJobSound'
    <2>1. gateQueue' \in Seq(GateMessages')
      BY DEF GateDown
    <2> QED
      BY <2>1 DEF GateDown, GateInv, GateTypes, GateJobSound, NoJob, GateMessages, LeasesOrNone
  <1>2. PermitsSound'
    BY DEF GateDown, GateInv, PermitsSound, PermitSound, OlderThanPolicy, LeaseSpentOn,
         Authorized, Redeemed, LeasesOrNone
  <1> QED
    BY <1>1, <1>2 DEF GateInv

\* A new gate process: every permit so far is older than the registry it loads.
LEMMA GateRestartStep ==
    ASSUME GateInv, GateRestart, UNCHANGED leases PROVE GateInv'
  <1>1. UNCHANGED <<now, registryFile, gateQueue, gateJob, leaseLedger, permits>>
        /\ policySince' = now /\ gateRegistry' = registryFile /\ gateJob = NoJob
    BY DEF GateRestart, transportVars, GateInv, GateTypes
  <1>2. GateTypes' /\ GateJobSound'
    BY <1>1, BoundsAssumption DEF GateInv, GateTypes, GateJobSound, NoJob, GateMessages, LeasesOrNone
  <1>3. PermitsSound'
    BY <1>1, BoundsAssumption DEF GateInv, GateTypes, PermitsSound, PermitSound, OlderThanPolicy, LeaseSpentOn,
         Authorized, Redeemed, LeasesOrNone
  <1> QED
    BY <1>2, <1>3 DEF GateInv

\* A submission queues a request, with a lease some human signed or none.
LEMMA SubmitStep ==
    ASSUME GateInv, UNCHANGED leases,
           NEW c \in Clients, NEW r \in Requests, NEW lease \in LeasesOrNone,
           Submit(c, r, lease)
    PROVE  GateInv'
  <1>1. UNCHANGED <<now, registryFile, gateRegistry, gateUp, gateJob, leaseLedger, permits,
                    policySince>>
    BY DEF Submit, transportVars
  <1>2. gateQueue' \in Seq(GateMessages)
    <2>1. [client |-> c, request |-> r, lease |-> lease] \in GateMessages
      BY DEF GateMessages
    <2> QED
      BY <2>1 DEF Submit, CallGate, GateInv, GateTypes
  <1> QED
    BY <1>1, <1>2 DEF GateInv, GateTypes, GateJobSound, PermitsSound, PermitSound,
         OlderThanPolicy, LeaseSpentOn, Authorized, Redeemed, GateMessages, LeasesOrNone

\* A human signs a lease: what was authorized stays authorized.
LEMMA ApproveStep ==
    ASSUME GateInv, Approve PROVE GateInv'
  <1>1. UNCHANGED <<now, gateVars>>
    BY DEF Approve, transportVars
  <1>2. PICK lease : leases' = leases \union {lease} /\ lease.type = "review_lease"
    <2>1. PICK request, base, id, ttl :
             leases' = leases \union {IssueSignedReviewLease(request, base, id, ttl)}
      BY DEF Approve, ApproveReview
    <2>2. IssueSignedReviewLease(request, base, id, ttl).type = "review_lease"
      BY DEF IssueSignedReviewLease, SignPayload
    <2> QED
      BY <2>1, <2>2
  <1>3. GateTypes'
    <2>1. GateMessages \subseteq GateMessages'
      BY <1>2 DEF GateMessages, LeasesOrNone
    <2>2. gateQueue \in Seq(GateMessages')
      BY <2>1, SeqMonotonic DEF GateInv, GateTypes
    <2> QED
      BY <1>1, <1>2, <2>2 DEF GateInv, GateTypes, gateVars, LeasesOrNone
  <1>4. GateJobSound' /\ PermitsSound'
    BY <1>1, <1>2 DEF GateInv, GateJobSound, PermitsSound, PermitSound, OlderThanPolicy,
         LeaseSpentOn, Authorized, Redeemed, LeasesOrNone, gateVars
  <1> QED
    BY <1>3, <1>4 DEF GateInv

\* The clock advances.
LEMMA TickStep ==
    ASSUME GateInv, Tick PROVE GateInv'
  <1>1. now \in Nat /\ now' \in 0 .. MaxClock /\ now' = now + 1 /\ UNCHANGED <<gateVars, leases>>
    BY BoundsAssumption DEF Tick, GateInv, GateTypes
  <1>2. GateTypes' /\ GateJobSound'
    BY <1>1 DEF GateInv, GateTypes, GateJobSound, Authorized, Redeemed, GateMessages,
         LeasesOrNone, gateVars
  <1>3. PermitsSound'
    BY <1>1 DEF GateInv, PermitsSound, PermitSound, OlderThanPolicy, LeaseSpentOn,
         Authorized, Redeemed, LeasesOrNone, gateVars
  <1> QED
    BY <1>2, <1>3 DEF GateInv

\* A ledger that fails leaves nothing behind but a handler that will say so.
LEMMA GateRedeemFailsStep ==
    ASSUME GateInv, GateRedeemFails, UNCHANGED leases PROVE GateInv'
  <1>1. Head(gateQueue) \in GateMessages /\ Tail(gateQueue) \in Seq(GateMessages)
    BY DEF GateInv, GateTypes, GateRedeemFails
  <1>2. gateJob' \in [stage : {"failed"}, client : Clients]
    BY <1>1 DEF GateRedeemFails, GateMessages
  <1>3. GateTypes'
    BY <1>1, <1>2 DEF GateInv, GateTypes, GateRedeemFails, GateMessages, LeasesOrNone,
         transportVars
  <1>4. GateJobSound'
    BY <1>2 DEF GateJobSound
  <1>5. PermitsSound'
    BY DEF GateInv, PermitsSound, PermitSound, OlderThanPolicy, LeaseSpentOn, Authorized,
         Redeemed, LeasesOrNone, GateRedeemFails, transportVars
  <1> QED
    BY <1>3, <1>4, <1>5 DEF GateInv

\* The gate layer is inductive by itself.
LEMMA GateStepInv == GateInv /\ [Next]_vars => GateInv'
  <1> SUFFICES ASSUME GateInv, [Next]_vars PROVE GateInv'
    OBVIOUS
  <1>1. CASE UNCHANGED leases /\ (GateSteps \/ GateFaults)
    BY <1>1, GateEvaluateStep, GateRedeemStep, GateRedeemFailsStep, GateRespondStep,
       GateDownStep, GateRestartStep DEF GateSteps, GateFaults, GateBrokenPipe, GateCrash
  <1>2. ASSUME UNCHANGED leases, NEW registry \in Edits, EditRegistry(registry)
        PROVE  GateInv'
    BY <1>2 DEF EditRegistry, transportVars, GateInv, GateTypes, GateJobSound, PermitsSound,
         PermitSound, OlderThanPolicy, LeaseSpentOn, Authorized, Redeemed, GateMessages,
         LeasesOrNone
  <1>3. CASE UNCHANGED <<now, gateVars, leases>>
    BY <1>3 DEF gateVars, GateInv, GateTypes, GateJobSound, PermitsSound, PermitSound,
         OlderThanPolicy, LeaseSpentOn, Authorized, Redeemed, GateMessages, LeasesOrNone
  <1> QED
    BY <1>1, <1>2, <1>3, GateCases, SubmitStep, ApproveStep, TickStep

-----------------------------------------------------------------------------
(* The executor.                                                           *)

\* Permits have the fields the executor compares with the clock.
LEMMA PermitWindows ==
    ASSUME GateInv
    PROVE  /\ now \in Nat
           /\ \A p \in permits : p.body.issued_at \in Nat /\ p.body.expires_at \in Nat
  BY BoundsAssumption, GateAssumption DEF GateInv, GateTypes, PermitsSound, PermitSound

\* What clients send the executor are requests with a permit of the gate or none.
LEMMA CallExecutorSends ==
    ASSUME NEW c \in Clients, NEW r \in Requests, NEW permit \in permits \union {NoPermit},
           CallExecutor(c, r, permit)
    PROVE  \/ \E m \in Presentable(permits, Requests) : execQueue' = Append(execQueue, m)
           \/ UNCHANGED execQueue
  <1>1. [client |-> c, request |-> r, permit |-> permit] \in Presentable(permits, Requests)
    BY DEF Presentable
  <1> QED
    BY <1>1 DEF CallExecutor

\* The steps that touch what the executor layer speaks about, and all others.
LEMMA ExecCases ==
    ASSUME [Next]_vars, ClientTypes
    PROVE  \/ UNCHANGED <<permits, now>> /\ (ExecSteps \/ ExecFaults)
           \/ GateRespond /\ UNCHANGED execVars
           \/ /\ UNCHANGED <<permits, now, execUp, execJob, permitLedger, attempts>>
              /\ \E m \in Presentable(permits, Requests) : execQueue' = Append(execQueue, m)
           \/ Tick /\ UNCHANGED <<permits, execVars>>
           \/ UNCHANGED <<permits, now, execVars>>
  <1>1. CASE GateStep \/ Tick \/ Approve \/ Edit
    BY <1>1 DEF GateStep, GateSteps, GateEvaluate, GateRedeem, GateBrokenPipe, GateDown, Tick,
         Approve, Edit, EditRegistry, gateVars, transportVars
  <1>2. CASE ExecStep \/ Crash \/ StorageFails \/ Restart
    BY <1>2 DEF ExecStep, ExecSteps, Crash, StorageFails, Restart, ExecFaults, GateCrash,
         GateDown, GateRestart, GateRedeemFails, VerCrash, VerDown, VerRestart, VerSaveFails,
         ExecCrash, ExecRestart, ExecDown, ExecConsumeFails,
         ExecConsume, ExecRefuse, ExecRun, ExecRespond, ExecBrokenPipe, gateVars, transportVars
  <1>3. CASE VerStep \/ RestartBridge \/ Finished \/ UNCHANGED vars
    BY <1>3 DEF VerStep, RestartBridge, Finished, vars, VerSteps, VerSign, VerRefuse,
         VerTruncate, VerSave, VerRespond, VerBrokenPipe, VerDown, BridgeRestart, gateVars,
         transportVars
  <1>4. ASSUME NEW c \in Clients, Execute(c)
        PROVE  /\ UNCHANGED <<permits, now, execUp, execJob, permitLedger, attempts>>
               /\ \/ \E m \in Presentable(permits, Requests) : execQueue' = Append(execQueue, m)
                  \/ UNCHANGED execQueue
    <2>1. sub[c].request \in Requests /\ reply[c].permit \in permits
      <3>1. sub[c].request \in Requests
        BY <1>4 DEF Execute, ClientTypes, Holding, Waiting
      <3>2. reply[c] \in Answers /\ reply[c].kind = "permit"
        BY <1>4 DEF Execute, ClientTypes
      <3> QED
        BY <3>1, <3>2 DEF Answers, NoReply, Reset
    <2> QED
      BY <1>4, <2>1, CallExecutorSends DEF Execute, gateVars
  <1>5. ASSUME NEW c \in Clients, ClientStep(c) \/ GiveUp(c), ~ Execute(c)
        PROVE  UNCHANGED <<permits, now, execVars>>
    BY <1>5 DEF ClientStep, GiveUp, Proceed, NotExecuted, ExecutionRejected,
         Finalize, Verified, CallFails, Abandon, gateVars
  <1>6. ASSUME NEW c \in Clients, NEW r \in Requests, NEW permit \in permits \union {NoPermit},
               PresentDirectly(c, r, permit)
        PROVE  /\ UNCHANGED <<permits, now, execUp, execJob, permitLedger, attempts>>
               /\ \/ \E m \in Presentable(permits, Requests) : execQueue' = Append(execQueue, m)
                  \/ UNCHANGED execQueue
    BY <1>6, CallExecutorSends DEF PresentDirectly, gateVars, transportVars
  <1>7. ASSUME NEW c \in Clients, Start(c),
               ~ \E r \in Requests, permit \in permits \union {NoPermit} :
                     PresentDirectly(c, r, permit)
        PROVE  UNCHANGED <<permits, now, execVars>>
    BY <1>7 DEF Start, Submit, PresentResult, PlannerFails, gateVars, transportVars
  <1>8. ASSUME NEW c \in Clients, ClientStep(c) \/ Start(c) \/ GiveUp(c)
        PROVE  \/ /\ UNCHANGED <<permits, now, execUp, execJob, permitLedger, attempts>>
                  /\ \E m \in Presentable(permits, Requests) : execQueue' = Append(execQueue, m)
               \/ UNCHANGED <<permits, now, execVars>>
    BY <1>4, <1>5, <1>6, <1>7, <1>8 DEF execVars
  <1> QED
    BY <1>1, <1>2, <1>3, <1>8 DEF Next

\* The executor layer is inductive beside the other two.
LEMMA ExecStepInv ==
    ASSUME GateInv, ClientTypes, ExecInv, [Next]_vars
    PROVE  ExecInv'
  <1> USE PermitWindows
  <1>1. CASE UNCHANGED <<permits, now>> /\ (ExecSteps \/ ExecFaults)
    <2>1. PICK ps : ps = permits
      OBVIOUS
    <2>2. ExecTypeOK(ps, Requests) /\ ExecSound
          /\ \A p \in ps : p.body.issued_at \in Nat /\ p.body.expires_at \in Nat
      BY <2>1 DEF ExecInv
    <2>3. ExecTypeOK(ps, Requests)' /\ ExecSound'
      BY <1>1, <2>2, ExecutorKeeps
    <2>4. \A row \in permitLedger' : row.at <= now'
      BY <1>1 DEF ExecSteps, ExecFaults, ExecConsume, ExecRefuse, ExecConsumeFails, ExecRun,
           ExecRespond, ExecBrokenPipe, ExecCrash, ExecDown, ExecRestart, ExecInv
    <2> QED
      BY <1>1, <2>1, <2>3, <2>4 DEF ExecInv
  <1>2. CASE UNCHANGED <<now, execVars>> /\ permits \subseteq permits'
    <2>1. Presentable(permits, Requests) \subseteq Presentable(permits', Requests)
          /\ Attempts(permits, Requests) \subseteq Attempts(permits', Requests)
          /\ Rows(permits) \subseteq Rows(permits')
      BY <1>2 DEF Presentable, Attempts, Rows
    <2>2. execQueue \in Seq(Presentable(permits', Requests))
          /\ attempts \in Seq(Attempts(permits', Requests))
      BY <2>1, SeqMonotonic DEF ExecInv, ExecTypeOK
    <2>3. ExecTypeOK(permits, Requests)'
      BY <1>2, <2>1, <2>2 DEF ExecInv, ExecTypeOK, execVars, Presentable, Attempts, Rows
    <2> QED
      BY <1>2, <2>3, ExecutorQuiet DEF ExecInv, execVars
  <1>3. ASSUME UNCHANGED <<permits, now, execUp, execJob, permitLedger, attempts>>,
               NEW m \in Presentable(permits, Requests), execQueue' = Append(execQueue, m)
        PROVE  ExecInv'
    <2>1. execQueue' \in Seq(Presentable(permits, Requests))
      BY <1>3 DEF ExecInv, ExecTypeOK
    <2>2. ExecTypeOK(permits, Requests)'
      BY <1>3, <2>1 DEF ExecInv, ExecTypeOK, Presentable, Attempts, Rows
    <2> QED
      BY <1>3, <2>2, ExecutorQuiet DEF ExecInv
  <1>4. CASE Tick /\ UNCHANGED <<permits, execVars>>
    <2>1. ExecTypeOK(permits, Requests)'
      BY <1>4 DEF ExecInv, ExecTypeOK, Presentable, Attempts, Rows, execVars
    <2>2. \A row \in permitLedger : row.at \in Nat
      BY DEF ExecInv, ExecTypeOK, Rows
    <2> QED
      BY <1>4, <2>1, <2>2, ExecutorQuiet DEF ExecInv, Tick, execVars
  <1>5. GateRespond => permits \subseteq permits' /\ now' = now
    BY DEF GateRespond
  <1> QED
    BY <1>1, <1>2, <1>3, <1>4, <1>5, ExecCases DEF execVars

-----------------------------------------------------------------------------
(* The verifier and the clients.                                           *)

\* What a submission learns is added to what it holds.
LEMMA LearnAdds ==
    ASSUME NEW c \in Clients, NEW more, Learn(c, more), sub = [d \in Clients |-> sub[d]]
    PROVE  /\ sub' = [d \in Clients |-> sub'[d]]
           /\ \A d \in Clients \ {c} : sub'[d] = sub[d]
           /\ DOMAIN sub'[c] = DOMAIN more \union DOMAIN sub[c]
           /\ \A field \in DOMAIN more : sub'[c][field] = more[field]
           /\ \A field \in DOMAIN sub[c] \ DOMAIN more : sub'[c][field] = sub[c][field]
  BY DEF Learn

\* Nothing that was issued, attempted, signed or minted is ever taken back.
LEMMA Growth ==
    ASSUME [Next]_vars, GateInv, ExecInv, VerTypes
    PROVE  /\ permits \subseteq permits'
           /\ \A i \in DOMAIN attempts : i \in DOMAIN attempts' /\ attempts'[i] = attempts[i]
           /\ SignedResults \subseteq SignedResults'
           /\ Len(minted) \in Nat /\ Len(minted') \in Nat /\ Len(minted) <= Len(minted')
           /\ DOMAIN minted = 1 .. Len(minted) /\ DOMAIN minted' = 1 .. Len(minted')
           /\ \A n \in DOMAIN minted : minted'[n] = minted[n]
  <1>1. permits \subseteq permits'
    <2>1. CASE GateStep
      BY <2>1 DEF GateStep, GateSteps, GateEvaluate, GateRedeem, GateRespond, GateBrokenPipe,
           GateDown
    <2>2. CASE ~ GateStep
      <3>1. CASE GateRespond
        BY <3>1 DEF GateRespond
      <3>2. CASE ~ GateRespond
        BY <2>2, <3>2, GateCases DEF GateSteps, GateFaults, GateEvaluate, GateRedeem,
             GateRedeemFails, GateBrokenPipe, GateCrash, GateDown, GateRestart, EditRegistry, Submit, Approve, Tick, gateVars
      <3> QED
        BY <3>1, <3>2
    <2> QED
      BY <2>1, <2>2
  <1>2. CASE Tick
    <2>1. UNCHANGED <<attempts, minted>> /\ now \in Nat /\ now' = now + 1
      BY <1>2, PermitWindows DEF Tick, execVars, verVars
    <2>2. SignedResults \subseteq SignedResults'
      BY <2>1 DEF SignedResults, SignExecutionResult, SignPayload
    <2> QED
      BY <1>1, <2>1, <2>2 DEF VerTypes
  <1>3. CASE ExecStep
    <2>1. UNCHANGED <<minted, now>>
      BY <1>3 DEF ExecStep, verVars, ExecSteps, ExecConsume, ExecRefuse, ExecRun, ExecRespond,
           ExecBrokenPipe, ExecDown, transportVars
    <2>2. \A i \in DOMAIN attempts : i \in DOMAIN attempts' /\ attempts'[i] = attempts[i]
      <3>1. CASE ExecRun
        <4>1. PICK a : attempts' = Append(attempts, a)
          BY <3>1 DEF ExecRun
        <4> QED
          BY <4>1 DEF ExecInv, ExecTypeOK
      <3>2. CASE ~ ExecRun
        BY <1>3, <3>2 DEF ExecStep, ExecSteps, ExecConsume, ExecRefuse, ExecRespond,
             ExecBrokenPipe, ExecDown
      <3> QED
        BY <3>1, <3>2
    <2>3. SignedResults \subseteq SignedResults'
      BY <2>1, <2>2 DEF SignedResults, SignExecutionResult, SignPayload
    <2> QED
      BY <1>1, <2>1, <2>2, <2>3 DEF VerTypes
  <1>4. CASE VerStep
    <2>1. UNCHANGED <<attempts, now>>
      BY <1>4 DEF VerStep, execVars, VerSteps, VerSign, VerRefuse, VerTruncate, VerSave,
           VerRespond, VerBrokenPipe, VerDown, transportVars
    <2>2. CASE VerSign
      <3>1. PICK receipt : minted' = Append(minted, receipt)
        BY <2>2 DEF VerSign
      <3>2. minted \in Seq(Receipts)
        BY DEF VerTypes
      <3>3. /\ Len(minted') = Len(minted) + 1 /\ DOMAIN minted' = 1 .. Len(minted')
            /\ \A n \in DOMAIN minted : minted'[n] = minted[n]
            /\ Len(minted) \in Nat /\ DOMAIN minted = 1 .. Len(minted)
        BY <3>1, <3>2
      <3> QED
        BY <1>1, <2>1, <3>3 DEF SignedResults
    <2>3. CASE ~ VerSign
      <3>1. UNCHANGED minted
        BY <1>4, <2>3 DEF VerStep, VerSteps, VerRefuse, VerTruncate, VerSave, VerRespond,
             VerBrokenPipe, VerDown
      <3> QED
        BY <1>1, <2>1, <3>1 DEF SignedResults, VerTypes
    <2> QED
      BY <2>2, <2>3
  <1>5. CASE ~ Tick /\ ~ ExecStep /\ ~ VerStep
    <2>1. UNCHANGED <<attempts, minted, now>>
      <3>1. CASE GateStep \/ Crash \/ StorageFails \/ RestartBridge \/ Restart \/ Edit \/ Approve
                   \/ Finished \/ UNCHANGED vars
        BY <3>1 DEF GateStep, GateSteps, GateEvaluate, GateRedeem, GateRespond, GateBrokenPipe,
             GateDown, Crash, StorageFails, GateRedeemFails, ExecConsumeFails, VerSaveFails, GateCrash, ExecCrash, ExecDown, VerCrash, VerDown, RestartBridge,
             BridgeRestart, Restart, GateRestart, ExecRestart, VerRestart, Edit, EditRegistry,
             Approve, Finished, vars, execVars, verVars, transportVars
      <3>2. ASSUME NEW c \in Clients, ClientStep(c) \/ Start(c) \/ GiveUp(c)
            PROVE  UNCHANGED <<attempts, minted, now>>
        BY <3>2 DEF ClientStep, Start, GiveUp, Proceed, NotExecuted, Execute,
             ExecutionRejected, Finalize, Verified, CallFails, Abandon, Submit, PresentDirectly,
             PresentResult, PlannerFails, execVars, verVars, transportVars
      <3> QED
        BY <1>5, <3>1, <3>2 DEF Next
    <2> QED
      BY <1>1, <2>1 DEF SignedResults, VerTypes
  <1> QED
    BY <1>2, <1>3, <1>4, <1>5

\* What clients send the verifier: a result the executor signed.
LEMMA CallVerifierSends ==
    ASSUME NEW c \in Clients, NEW r \in Requests, NEW permit \in PermitsOrNone,
           NEW result \in SignedResults, CallVerifier(c, r, permit, result)
    PROVE  \/ \E m \in VerMessages : /\ verQueue' = Append(verQueue, m)
                                     /\ m.client = c /\ m.permit = permit
                                     /\ End(c, "verifier")
           \/ UNCHANGED verQueue
  <1> DEFINE m == [client |-> c, request |-> r, permit |-> permit, result |-> result]
  <1>1. m \in VerMessages
    BY DEF VerMessages
  <1> QED
    BY <1>1 DEF CallVerifier

\* A finalized submission sends its own permit on, with the result it was given.
LEMMA FinalizeSends ==
    ASSUME NEW c \in Clients, Finalize(c), ClientTypes
    PROVE  /\ UNCHANGED <<verUp, verJob, chainFile, minted>>
           /\ "permit" \in DOMAIN sub[c]
           /\ reply[c].result \in SignedResults
           /\ \/ \E m \in VerMessages : /\ verQueue' = Append(verQueue, m)
                                        /\ m.client = c /\ m.permit = sub[c].permit
                                        /\ End(c, "verifier")
              \/ UNCHANGED verQueue
  <1>1. /\ sub[c].request \in Requests /\ "permit" \in DOMAIN sub[c]
        /\ sub[c].permit \in PermitsOrNone
    BY DEF Finalize, ClientTypes, Holding, Waiting
  <1>2. reply[c].result \in SignedResults
    <2>1. reply[c] \in Answers /\ reply[c].kind = "executed"
      BY DEF Finalize, ClientTypes
    <2> QED
      BY <2>1 DEF Answers, NoReply, Reset
  <1>3. CallVerifier(c, sub[c].request, sub[c].permit, reply[c].result)
        /\ UNCHANGED <<verUp, verJob, chainFile, minted>>
    BY DEF Finalize
  <1> QED
    BY <1>1, <1>2, <1>3, CallVerifierSends

\* The results clients hold are results the executor signed.
LEMMA HeldResults ==
    ASSUME ClientTypes PROVE Results \subseteq SignedResults
  BY DEF Results, ClientTypes, Holding

\* The steps that touch the verifier, and all others.
LEMMA VerCases ==
    ASSUME [Next]_vars
    PROVE  \/ UNCHANGED <<bridgeVars, permits, now>> /\ (VerSteps \/ VerFaults)
           \/ \E c \in Clients : Finalize(c)
           \/ \E c \in Clients, r \in Requests, permit \in permits, result \in Results :
                  PresentResult(c, r, permit, result)
           \/ UNCHANGED verVars
  <1>1. CASE GateStep \/ ExecStep \/ Approve \/ Tick \/ RestartBridge \/ Edit \/ Finished
             \/ UNCHANGED vars
    BY <1>1 DEF GateStep, ExecStep, Approve, Tick, RestartBridge, BridgeRestart, Edit, Finished, vars
  <1>2. CASE VerStep \/ Crash \/ StorageFails \/ Restart
    BY <1>2 DEF VerStep, VerSteps, VerSign, VerRefuse, VerTruncate, VerSave, VerRespond,
         VerBrokenPipe, VerDown, Crash, StorageFails, Restart, VerFaults, VerCrash, VerRestart,
         VerSaveFails, GateCrash, GateDown, GateRedeemFails, ExecCrash, ExecDown,
         ExecConsumeFails, gateVars, transportVars
  <1>3. ASSUME NEW c \in Clients, ClientStep(c) \/ GiveUp(c), ~ Finalize(c)
        PROVE  UNCHANGED verVars
    BY <1>3 DEF ClientStep, GiveUp, Proceed, NotExecuted, Execute, ExecutionRejected,
         Verified, CallFails, Abandon
  <1>4. ASSUME NEW c \in Clients, Start(c)
        PROVE  \/ \E r \in Requests, permit \in permits, result \in Results :
                     PresentResult(c, r, permit, result)
               \/ UNCHANGED verVars
    BY <1>4 DEF Start, Submit, PresentDirectly, PlannerFails
  <1> QED
    BY <1>1, <1>2, <1>3, <1>4 DEF Next

\* What the verifier signs names a permit of the gate and an attempt that was
\* made with it.
LEMMA FinalizableProves ==
    ASSUME NEW m \in VerMessages, Finalizable(m)
    PROVE  /\ m.permit \in permits
           /\ \E i \in DOMAIN attempts :
                 /\ attempts[i].permit = m.permit
                 /\ attempts[i].request = m.request
                 /\ attempts[i].outcome = m.result.body.outcome
           /\ m.result.body.outcome \in Outcomes
  <1>1. m.permit \in permits
    BY DEF VerMessages, PermitsOrNone, NoPermit, Finalizable, VerifyEnvelope
  <1>2. PICK i \in DOMAIN attempts, t \in 0 .. now : m.result = SignExecutionResult(attempts[i], t)
    BY DEF VerMessages, SignedResults
  <1> QED
    BY <1>1, <1>2 DEF Finalizable, ResultProves, SignExecutionResult, SignPayload, Outcomes

\* The verifier's variables keep their types, and every receipt it signs is
\* about an attempt.
LEMMA VerTypesStep ==
    ASSUME [Next]_vars, GateInv, ExecInv, VerTypes, ClientTypes, ReceiptsProveAttempts
    PROVE  VerTypes' /\ ReceiptsProveAttempts'
  <1>1. /\ permits \subseteq permits'
        /\ \A i \in DOMAIN attempts : i \in DOMAIN attempts' /\ attempts'[i] = attempts[i]
        /\ SignedResults \subseteq SignedResults'
        /\ Len(minted) \in Nat /\ Len(minted') \in Nat /\ Len(minted) <= Len(minted')
        /\ DOMAIN minted = 1 .. Len(minted) /\ DOMAIN minted' = 1 .. Len(minted')
        /\ \A n \in DOMAIN minted : minted'[n] = minted[n]
    BY Growth
  <1>2. VerMessages \subseteq VerMessages' /\ Receipts \subseteq Receipts'
    BY <1>1 DEF VerMessages, PermitsOrNone, Receipts
  <1>3. verQueue \in Seq(VerMessages') /\ minted \in Seq(Receipts')
    BY <1>2, SeqMonotonic DEF VerTypes
  <1>4. CASE UNCHANGED <<verJob, chainFile, minted>> /\ ~ (VerSteps \/ VerFaults)
    <2>1. ASSUME verQueue' \in Seq(VerMessages') PROVE VerTypes'
      BY <1>1, <1>3, <1>4, <2>1 DEF VerTypes
    <2>2. ReceiptsProveAttempts'
      BY <1>1, <1>4 DEF ReceiptsProveAttempts
    <2>3. CASE UNCHANGED verQueue
      BY <1>3, <2>1, <2>2, <2>3
    <2>4. ASSUME NEW m \in VerMessages, verQueue' = Append(verQueue, m)
          PROVE  verQueue' \in Seq(VerMessages')
      BY <1>2, <1>3, <2>4
    <2>5. ASSUME NEW c \in Clients, Finalize(c) PROVE verQueue' \in Seq(VerMessages')
      BY <1>3, <2>4, <2>5, FinalizeSends
    <2>6. ASSUME NEW c \in Clients, NEW r \in Requests, NEW permit \in permits,
                 NEW result \in Results, PresentResult(c, r, permit, result)
          PROVE  verQueue' \in Seq(VerMessages')
      <3>1. permit \in PermitsOrNone /\ result \in SignedResults
            /\ CallVerifier(c, r, permit, result)
        BY <2>6, HeldResults DEF PermitsOrNone, PresentResult
      <3> QED
        BY <1>3, <2>4, <3>1, CallVerifierSends
    <2> QED
      BY <1>4, <2>1, <2>2, <2>3, <2>5, <2>6, VerCases DEF verVars
  <1>5. CASE VerSign
    <2> DEFINE m == Head(verQueue)
               receipt == CreateReceipt(m, chainFile.head)
    <2>1. m \in VerMessages /\ Finalizable(m)
      BY <1>5 DEF VerSign, VerTypes
    <2>2. /\ m.permit \in permits
          /\ \E i \in DOMAIN attempts :
                /\ attempts[i].permit = m.permit
                /\ attempts[i].request = m.request
                /\ attempts[i].outcome = m.result.body.outcome
          /\ m.result.body.outcome \in Outcomes
      BY <2>1, FinalizableProves
    <2>3. receipt \in Receipts
      BY <2>1, <2>2 DEF CreateReceipt, Receipts, VerMessages, VerTypes
    <2>4. minted' = Append(minted, receipt)
      BY <1>5 DEF VerSign
    <2>5. Len(minted') = Len(minted) + 1 /\ minted'[Len(minted) + 1] = receipt
          /\ minted' \in Seq(Receipts')
      BY <1>2, <1>3, <2>3, <2>4
    <2>6. /\ verJob' = [stage |-> "signed", client |-> m.client, receipt |-> Len(minted) + 1]
          /\ verQueue' = Tail(verQueue) /\ verQueue # << >> /\ chainFile' = chainFile
      BY <1>5 DEF VerSign
    <2>7. verQueue' \in Seq(VerMessages')
      BY <1>3, <2>6
    <2>8. VerTypes'
      BY <1>1, <2>1, <2>5, <2>6, <2>7 DEF VerTypes, VerMessages
    <2>9. ReceiptsProveAttempts'
      <3>1. receipt.permit = m.permit /\ receipt.request = m.request
            /\ receipt.outcome = m.result.body.outcome
        BY DEF CreateReceipt
      <3>2. \A n \in DOMAIN minted' : n \in DOMAIN minted \/ n = Len(minted) + 1
        BY <1>1, <2>5
      <3>3. \A n \in DOMAIN minted : \E i \in DOMAIN attempts :
               /\ attempts[i].permit = minted'[n].permit
               /\ attempts[i].request = minted'[n].request
               /\ attempts[i].outcome = minted'[n].outcome
        BY <1>1 DEF ReceiptsProveAttempts
      <3>4. \A n \in DOMAIN minted' : \E i \in DOMAIN attempts :
               /\ attempts[i].permit = minted'[n].permit
               /\ attempts[i].request = minted'[n].request
               /\ attempts[i].outcome = minted'[n].outcome
        BY <2>2, <2>5, <3>1, <3>2, <3>3
      <3> QED
        BY <1>1, <3>4 DEF ReceiptsProveAttempts
    <2> QED
      BY <2>8, <2>9
  <1>6. CASE (VerSteps \/ VerFaults) /\ ~ VerSign
    <2>1. UNCHANGED minted
      BY <1>6 DEF VerSteps, VerFaults, VerRefuse, VerTruncate, VerSave, VerSaveFails,
           VerRespond, VerBrokenPipe, VerDown, VerCrash, VerRestart
    <2>2. ReceiptsProveAttempts'
      BY <1>1, <2>1 DEF ReceiptsProveAttempts
    <2>3. CASE VerRefuse
      <3>1. Head(verQueue) \in VerMessages /\ verQueue' = Tail(verQueue) /\ verQueue # << >>
        BY <2>3 DEF VerRefuse, VerTypes
      <3>2. verQueue' \in Seq(VerMessages')
        BY <1>3, <3>1
      <3> QED
        BY <1>1, <1>3, <2>1, <2>2, <2>3, <3>1, <3>2 DEF VerRefuse, VerTypes, VerMessages
    <2>4. CASE VerTruncate \/ VerSave
      <3>1. verJob.client \in Clients /\ verJob.receipt \in DOMAIN minted
            /\ verJob = [stage |-> verJob.stage, client |-> verJob.client, receipt |-> verJob.receipt]
        BY <2>4 DEF VerTruncate, VerSave, VerTypes, NoJob
      <3>2. PICK stage \in {"saving", "saved"} : verJob' = [verJob EXCEPT !.stage = stage]
        BY <2>4 DEF VerTruncate, VerSave
      <3>3. verJob' = [stage |-> stage, client |-> verJob.client, receipt |-> verJob.receipt]
        BY <3>1, <3>2
      <3>4. /\ chainFile' \in [torn : BOOLEAN, head : 0 .. Len(minted)]
            /\ UNCHANGED verQueue
        <4>1. 0 \in 0 .. Len(minted) /\ verJob.receipt \in 0 .. Len(minted)
          BY <1>1, <3>1
        <4>2. CASE VerTruncate
          BY <4>1, <4>2 DEF VerTruncate
        <4>3. CASE VerSave
          BY <4>1, <4>3 DEF VerSave
        <4> QED
          BY <2>4, <4>2, <4>3
      <3> QED
        BY <1>1, <1>3, <2>1, <2>2, <3>1, <3>3, <3>4 DEF VerTypes
    <2>5. CASE VerRespond \/ VerDown \/ VerRestart
      <3>1. verQueue' \in Seq(VerMessages')
        <4>1. verQueue' = verQueue \/ verQueue' = << >>
          BY <2>5 DEF VerRespond, VerDown, VerRestart
        <4> QED
          BY <1>3, <4>1, EmptySeq
      <3> QED
        BY <1>1, <1>3, <2>1, <2>2, <2>5, <3>1 DEF VerRespond, VerDown, VerRestart, VerTypes
    <2>6. CASE VerSaveFails
      <3>1. /\ verJob' = [stage |-> "failed", client |-> verJob.client]
            /\ verJob.client \in Clients
            /\ UNCHANGED <<verQueue, chainFile>>
        BY <2>6 DEF VerSaveFails, VerTypes, NoJob
      <3> QED
        BY <1>1, <1>3, <2>1, <2>2, <3>1 DEF VerTypes
    <2> QED
      BY <1>6, <2>3, <2>4, <2>5, <2>6 DEF VerSteps, VerFaults, VerBrokenPipe, VerCrash
  <1>7. ASSUME NEW c \in Clients, Finalize(c) PROVE UNCHANGED <<verJob, chainFile, minted>>
    BY <1>7 DEF Finalize
  <1>8. ASSUME NEW c \in Clients, NEW r \in Requests, NEW permit \in permits,
               NEW result \in Results, PresentResult(c, r, permit, result)
        PROVE  UNCHANGED <<verJob, chainFile, minted>>
    BY <1>8 DEF PresentResult
  <1> QED
    BY <1>4, <1>5, <1>6, <1>7, <1>8, VerCases DEF verVars

\* How the answers on the sockets change.
LEMMA ReplyCases ==
    ASSUME [Next]_vars
    PROVE  \/ GateRespond \/ ExecRespond \/ VerRespond
           \/ \E dropped : reply' = [c \in Clients |-> IF c \in dropped THEN Reset ELSE reply[c]]
           \/ \E c \in Clients : TakeReply(c)
           \/ UNCHANGED reply
  <1>1. ASSUME NEW queue, NEW job, ResetHeld(queue, job)
        PROVE  \E dropped : reply' = [c \in Clients |-> IF c \in dropped THEN Reset ELSE reply[c]]
    BY <1>1 DEF ResetHeld
  <1>2. CASE GateStep \/ ExecStep \/ VerStep
    BY <1>1, <1>2 DEF GateStep, ExecStep, VerStep, GateSteps, ExecSteps, VerSteps, GateEvaluate,
         GateRedeem, GateBrokenPipe, GateDown, ExecConsume, ExecRefuse, ExecRun, ExecBrokenPipe,
         ExecDown, VerSign, VerRefuse, VerTruncate, VerSave, VerBrokenPipe, VerDown,
         transportVars
  <1>3. CASE Crash \/ StorageFails
    BY <1>1, <1>3 DEF Crash, StorageFails, GateCrash, GateDown, ExecCrash, ExecDown, VerCrash,
         VerDown, GateRedeemFails, ExecConsumeFails, VerSaveFails, transportVars
  <1>4. CASE Approve \/ Tick \/ RestartBridge \/ Restart \/ Edit \/ Finished \/ UNCHANGED vars
    BY <1>4 DEF Approve, Tick, RestartBridge, BridgeRestart, Restart, GateRestart, ExecRestart,
         VerRestart, Edit, EditRegistry, Finished, vars, transportVars
  <1>5. ASSUME NEW c \in Clients, ClientStep(c) \/ Start(c) \/ GiveUp(c)
        PROVE  TakeReply(c) \/ UNCHANGED reply
    BY <1>5 DEF ClientStep, Start, GiveUp, Proceed, NotExecuted, Execute, ExecutionRejected,
         Finalize, Verified, CallFails, Abandon, Submit, PresentDirectly, PresentResult,
         PlannerFails, transportVars
  <1> QED
    BY <1>2, <1>3, <1>4, <1>5 DEF Next

\* A socket carries one of the services' answers; a receipt comes from the
\* verifier's job.
LEMMA ReplyStep ==
    ASSUME [Next]_vars, GateInv, ExecInv, VerTypes, ClientTypes
    PROVE  /\ reply' \in [Clients -> Answers']
           /\ \A c \in Clients : reply'[c].kind = "verified" =>
                 \/ reply'[c] = reply[c]
                 \/ /\ verJob.stage = "saved" /\ verJob.client = c
                    /\ reply'[c].receipt = verJob.receipt
  <1>1. Answers \subseteq Answers'
    BY Growth DEF Answers
  <1>2. reply \in [Clients -> Answers'] /\ {NoReply, Reset, [kind |-> "error"]} \subseteq Answers'
    BY <1>1 DEF ClientTypes, Answers
  <1>3. ASSUME NEW c \in Clients, NEW answer \in Answers', Send(c, answer)
        PROVE  /\ reply' \in [Clients -> Answers'] /\ reply'[c] = answer
               /\ \A d \in Clients \ {c} : reply'[d] = reply[d]
    BY <1>2, <1>3 DEF Send
  <1>4. CASE GateRespond
    <2>1. /\ gateJob.client \in Clients
          /\ gateJob.stage = "decided" => gateJob.base \in Bases
      BY <1>4 DEF GateRespond, GateInv, GateTypes, NoJob
    <2>2. ASSUME NEW permit \in permits' PROVE [kind |-> "permit", permit |-> permit] \in Answers'
      BY <2>2 DEF Answers
    <2>3. gateJob.stage = "decided" => [kind |-> "verdict", base |-> gateJob.base] \in Answers'
      BY <2>1 DEF Answers, Bases
    <2>4. PICK answer \in Answers' : Send(gateJob.client, answer) /\ answer.kind # "verified"
      BY <1>2, <1>4, <2>2, <2>3 DEF GateRespond
    <2> QED
      BY <1>3, <2>1, <2>4
  <1>5. CASE ExecRespond
    <2>1. execJob.client \in Clients
      BY <1>5 DEF ExecRespond, ExecInv, ExecTypeOK, NoJob
    <2>2. CASE execJob.stage = "executed"
      <3>1. PICK i \in DOMAIN attempts :
               attempts[i] = [permit |-> execJob.permit, request |-> execJob.request,
                              outcome |-> execJob.outcome]
        BY <2>2 DEF ExecInv, ExecSound, ExecJobSound
      <3>2. SignExecutionResult(execJob, now) = SignExecutionResult(attempts[i], now)
        BY <3>1 DEF SignExecutionResult
      <3>3. SignExecutionResult(execJob, now) \in SignedResults
        BY <3>2, PermitWindows DEF SignedResults
      <3>4. [kind |-> "executed", result |-> SignExecutionResult(execJob, now)] \in Answers'
        BY <1>1, <3>3 DEF Answers
      <3> QED
        BY <1>3, <1>5, <2>1, <2>2, <3>4 DEF ExecRespond, ExecReply
    <2>3. CASE execJob.stage = "refused"
      <3>1. execJob.reason \in Refusals
        BY <2>3 DEF ExecInv, ExecTypeOK, NoJob
      <3>2. [kind |-> "refused", reason |-> execJob.reason] \in Answers'
        BY <3>1 DEF Answers
      <3> QED
        BY <1>3, <1>5, <2>1, <2>3, <3>2 DEF ExecRespond, ExecReply
    <2> QED
      BY <1>5, <2>2, <2>3 DEF ExecRespond
  <1>6. CASE VerRespond
    <2>1. verJob.client \in Clients
      BY <1>6 DEF VerRespond, Answerable, VerTypes, NoJob
    <2>2. CASE verJob.stage = "failed"
      BY <1>2, <1>3, <1>6, <2>1, <2>2 DEF VerRespond
    <2>3. CASE verJob.stage = "saved"
      <3>1. verJob.receipt \in DOMAIN minted
        BY <2>3 DEF VerTypes, NoJob
      <3>2. [kind |-> "verified", receipt |-> verJob.receipt] \in Answers'
        BY <1>1, <3>1 DEF Answers
      <3> QED
        BY <1>3, <1>6, <2>1, <2>3, <3>2 DEF VerRespond
    <2> QED
      BY <1>6, <2>2, <2>3 DEF VerRespond, Answerable
  <1>7. ASSUME NEW dropped, reply' = [c \in Clients |-> IF c \in dropped THEN Reset ELSE reply[c]]
        PROVE  reply' \in [Clients -> Answers']
               /\ \A c \in Clients : reply'[c].kind = "verified" => reply'[c] = reply[c]
    BY <1>2, <1>7 DEF Reset
  <1>8. ASSUME NEW c \in Clients, TakeReply(c)
        PROVE  reply' \in [Clients -> Answers']
               /\ \A d \in Clients : reply'[d].kind = "verified" => reply'[d] = reply[d]
    BY <1>2, <1>8 DEF TakeReply, NoReply
  <1> QED
    BY <1>2, <1>4, <1>5, <1>6, <1>7, <1>8, ReplyCases

\* A submission at the verifier stays there with the permit it holds, until it is
\* over; one that was verified stays as it is.
Keeps(c) ==
    /\ AtVerifier(c) => /\ AtVerifier(c)'
                        /\ "permit" \in DOMAIN sub[c] =>
                              "permit" \in DOMAIN sub'[c] /\ sub'[c].permit = sub[c].permit
    /\ pc[c] = "VERIFIED" => pc'[c] = "VERIFIED" /\ sub'[c] = sub[c]
    /\ pc'[c] = "VERIFIED" => pc[c] = "VERIFIED" \/ Verified(c)

\* A submission that moves on leaves the others alone.
LEMMA OneClientMoves ==
    ASSUME [Next]_vars, GateInv, ExecInv, VerTypes, ClientTypes,
           NEW c \in Clients, NEW status, End(c, status),
           status \in Waiting \union Statuses,
           sub' = [d \in Clients |-> sub'[d]],
           \A d \in Clients \ {c} : sub'[d] = sub[d],
           Holding(c)', Keeps(c)
    PROVE  /\ pc' \in [Clients -> {"idle"} \union Waiting \union Statuses]
           /\ sub' = [d \in Clients |-> sub'[d]]
           /\ \A d \in Clients : Holding(d)' /\ Keeps(d)
  <1>1. PermitsOrNone \subseteq PermitsOrNone' /\ SignedResults \subseteq SignedResults'
    BY Growth DEF PermitsOrNone
  <1>2. pc' \in [Clients -> {"idle"} \union Waiting \union Statuses]
        /\ \A d \in Clients \ {c} : pc'[d] = pc[d]
    BY DEF End, ClientTypes
  <1>3. \A d \in Clients \ {c} : Holding(d)'
    BY <1>1, <1>2 DEF ClientTypes, Holding
  <1>4. \A d \in Clients \ {c} : Keeps(d)
    BY <1>2 DEF Keeps, AtVerifier
  <1> QED
    BY <1>2, <1>3, <1>4

\* A submission starts, or moves from one service to the next, with what it was
\* given.
LEMMA ClientMoveStep ==
    ASSUME [Next]_vars, GateInv, ExecInv, VerTypes, ClientTypes,
           NEW c \in Clients, ClientStep(c) \/ Start(c) \/ GiveUp(c)
    PROVE  /\ pc' \in [Clients -> {"idle"} \union Waiting \union Statuses]
           /\ sub' = [d \in Clients |-> sub'[d]]
           /\ \A d \in Clients : Holding(d)' /\ Keeps(d)
  <1> DEFINE Goal == /\ pc' \in [Clients -> {"idle"} \union Waiting \union Statuses]
                     /\ sub' = [d \in Clients |-> sub'[d]]
                     /\ \A d \in Clients : Holding(d)' /\ Keeps(d)
  <1> SUFFICES Goal
    OBVIOUS
  <1> HIDE DEF Goal
  <1>1. /\ PermitsOrNone \subseteq PermitsOrNone' /\ SignedResults \subseteq SignedResults'
        /\ permits \subseteq PermitsOrNone'
    BY Growth DEF PermitsOrNone
  <1>2. sub = [d \in Clients |-> sub[d]] /\ Holding(c) /\ DOMAIN pc = Clients
    BY DEF ClientTypes
  <1>3. ASSUME NEW status, End(c, status) PROVE pc'[c] = status
    BY <1>2, <1>3 DEF End
  <1>4. ASSUME NEW status \in Waiting \union Statuses, End(c, status),
               sub' = [d \in Clients |-> sub'[d]],
               \A d \in Clients \ {c} : sub'[d] = sub[d],
               Holding(c)', Keeps(c)
        PROVE  Goal
    BY <1>4, OneClientMoves DEF Goal
  <1>5. ASSUME NEW status \in Waiting \union Statuses, End(c, status),
                NEW more, Learn(c, more), Holding(c)', Keeps(c)
         PROVE  Goal
    <2>1. sub' = [d \in Clients |-> sub'[d]] /\ \A d \in Clients \ {c} : sub'[d] = sub[d]
      BY <1>2, <1>5, LearnAdds
    <2> QED
      BY <1>4, <1>5, <2>1
  <1>6. ASSUME NEW status \in Waiting \union Statuses, End(c, status),
                UNCHANGED sub, Holding(c)', Keeps(c)
         PROVE  Goal
    <2>1. sub' = [d \in Clients |-> sub'[d]] /\ \A d \in Clients \ {c} : sub'[d] = sub[d]
      BY <1>2, <1>6
    <2> QED
      BY <1>4, <1>6, <2>1
  <1>7. ASSUME NEW r \in Requests, NEW lease, Submit(c, r, lease) PROVE Goal
    <2>1. PICK status \in {"gate", "ERROR"} : End(c, status)
      BY <1>7 DEF Submit, CallGate
    <2>2. Learn(c, [by |-> "bridge", request |-> r]) /\ pc[c] = "idle"
      BY <1>7 DEF Submit
    <2>3. Holding(c)' /\ Keeps(c)
      BY <1>1, <1>2, <1>3, <2>1, <2>2, LearnAdds DEF Holding, Keeps, Waiting, AtVerifier
    <2> QED
      BY <1>5, <2>1, <2>2, <2>3 DEF Waiting, Statuses
  <1>8. CASE PlannerFails(c)
    <2>1. Holding(c)' /\ Keeps(c)
      BY <1>1, <1>2, <1>3, <1>8 DEF PlannerFails, Holding, Keeps, Waiting, AtVerifier
    <2> QED
      BY <1>8, <1>6, <2>1 DEF PlannerFails, Waiting, Statuses
  <1>9. ASSUME NEW r \in Requests, NEW permit \in PermitsOrNone, PresentDirectly(c, r, permit)
        PROVE  Goal
    <2>1. PICK status \in {"executor", "ERROR"} : End(c, status)
      BY <1>9 DEF PresentDirectly, CallExecutor
    <2>2. Learn(c, [by |-> "caller", request |-> r, permit |-> permit]) /\ pc[c] = "idle"
      BY <1>9 DEF PresentDirectly
    <2>3. Holding(c)' /\ Keeps(c)
      BY <1>1, <1>2, <1>3, <2>1, <2>2, LearnAdds DEF Holding, Keeps, Waiting, AtVerifier
    <2> QED
      BY <1>5, <2>1, <2>2, <2>3 DEF Waiting, Statuses
  <1>10. ASSUME NEW r \in Requests, NEW permit \in PermitsOrNone, NEW result \in SignedResults,
               PresentResult(c, r, permit, result)
        PROVE  Goal
    <2>1. PICK status \in {"verifier", "ERROR"} : End(c, status)
      BY <1>10 DEF PresentResult, CallVerifier
    <2>2. Learn(c, [by |-> "caller", request |-> r, permit |-> permit, result |-> result])
          /\ pc[c] = "idle"
      BY <1>10 DEF PresentResult
    <2>3. Holding(c)' /\ Keeps(c)
      BY <1>1, <1>2, <1>3, <2>1, <2>2, LearnAdds DEF Holding, Keeps, Waiting, AtVerifier
    <2> QED
      BY <1>5, <2>1, <2>2, <2>3 DEF Waiting, Statuses
  <1>11. CASE NotExecuted(c)
    <2>1. Learn(c, [base |-> reply[c].base]) /\ pc[c] = "gate" /\ End(c, "NOT_EXECUTED")
      BY <1>11 DEF NotExecuted
    <2>2. Holding(c)' /\ Keeps(c)
      BY <1>1, <1>2, <1>3, <2>1, LearnAdds DEF Holding, Keeps, Waiting, AtVerifier
    <2> QED
      BY <1>5, <2>1, <2>2 DEF Waiting, Statuses
  <1>12. CASE Execute(c)
    <2>1. PICK status \in {"executor", "ERROR"} : End(c, status)
      BY <1>12 DEF Execute, CallExecutor
    <2>2. Learn(c, [permit |-> reply[c].permit]) /\ pc[c] = "gate"
      BY <1>12 DEF Execute
    <2>3. reply[c].permit \in permits
      <3>1. reply[c] \in Answers /\ reply[c].kind = "permit"
        BY <1>12 DEF Execute, ClientTypes
      <3> QED
        BY <3>1 DEF Answers, NoReply, Reset
    <2>4. Holding(c)' /\ Keeps(c)
      BY <1>1, <1>2, <1>3, <2>1, <2>2, <2>3, LearnAdds DEF Holding, Keeps, Waiting, AtVerifier
    <2> QED
      BY <1>5, <2>1, <2>2, <2>4 DEF Waiting, Statuses
  <1>13. CASE Finalize(c)
    <2>1. PICK status \in {"verifier", "ERROR"} : End(c, status)
      BY <1>13 DEF Finalize, CallVerifier
    <2>2. Learn(c, [result |-> reply[c].result]) /\ pc[c] = "executor"
      BY <1>13 DEF Finalize
    <2>3. Holding(c)' /\ Keeps(c)
      BY <1>1, <1>2, <1>3, <1>13, <2>1, <2>2, FinalizeSends, LearnAdds
         DEF Holding, Keeps, Waiting, AtVerifier
    <2> QED
      BY <1>5, <2>1, <2>2, <2>3 DEF Waiting, Statuses
  <1>14. CASE Verified(c)
    <2>1. Learn(c, [receipt |-> reply[c].receipt]) /\ pc[c] = "verifier" /\ End(c, "VERIFIED")
      BY <1>14 DEF Verified
    <2>2. Holding(c)' /\ Keeps(c)
      BY <1>1, <1>2, <1>3, <1>14, <2>1, LearnAdds DEF Holding, Keeps, Waiting, AtVerifier
    <2> QED
      BY <1>5, <2>1, <2>2 DEF Waiting, Statuses
  <1>15. CASE ExecutionRejected(c) \/ CallFails(c) \/ Abandon(c)
    <2>1. PICK status \in {"EXECUTION_REJECTED", "ERROR"} : End(c, status)
      BY <1>15 DEF ExecutionRejected, CallFails, Abandon
    <2>2. UNCHANGED sub /\ pc[c] \in Waiting
      BY <1>15 DEF ExecutionRejected, CallFails, Abandon, Waiting
    <2>3. Holding(c)' /\ Keeps(c)
      BY <1>1, <1>2, <1>3, <2>1, <2>2 DEF Holding, Keeps, Waiting, AtVerifier
    <2> QED
      BY <1>6, <2>1, <2>2, <2>3 DEF Waiting, Statuses
  <1>16. permits \union {NoPermit} = PermitsOrNone /\ permits \subseteq PermitsOrNone
    BY DEF PermitsOrNone
  <1> QED
    BY <1>7, <1>8, <1>9, <1>10, <1>11, <1>12, <1>13, <1>14, <1>15, <1>16, HeldResults
       DEF ClientStep, Start, GiveUp, Proceed

\* The steps that touch the clients, and all others.
LEMMA ClientCases ==
    ASSUME [Next]_vars
    PROVE  \/ \E c \in Clients : ClientStep(c) \/ Start(c) \/ GiveUp(c)
           \/ BridgeRestart
           \/ UNCHANGED <<pc, sub, bridgeRegistry, closed>>
  <1>1. CASE GateStep \/ ExecStep \/ VerStep
    BY <1>1 DEF GateStep, ExecStep, VerStep, GateSteps, ExecSteps, VerSteps, GateEvaluate,
         GateRedeem, GateRespond, GateBrokenPipe, GateDown, ExecConsume, ExecRefuse, ExecRun,
         ExecRespond, ExecBrokenPipe, ExecDown, VerSign, VerRefuse, VerTruncate, VerSave,
         VerRespond, VerBrokenPipe, VerDown, transportVars, bridgeVars, bridgeStore
  <1>2. CASE Approve \/ Tick \/ Crash \/ StorageFails \/ Restart \/ Edit \/ Finished
             \/ UNCHANGED vars
    BY <1>2 DEF Approve, Tick, Crash, StorageFails, Restart, Edit, Finished, vars,
         GateRedeemFails, ExecConsumeFails, VerSaveFails, GateCrash, GateDown,
         ExecCrash, ExecDown, VerCrash, VerDown, GateRestart, ExecRestart, VerRestart,
         EditRegistry, transportVars, bridgeVars, bridgeStore
  <1> QED
    BY <1>1, <1>2 DEF Next, RestartBridge

\* The clients' variables keep their types, and no step takes a submission back
\* from the verifier.
LEMMA ClientTypesStep ==
    ASSUME [Next]_vars, GateInv, ExecInv, VerTypes, ClientTypes
    PROVE  ClientTypes' /\ \A c \in Clients : Keeps(c)
  <1>1. PermitsOrNone \subseteq PermitsOrNone' /\ SignedResults \subseteq SignedResults'
    BY Growth DEF PermitsOrNone
  <1>2. reply' \in [Clients -> Answers']
    BY ReplyStep
  <1>3. ASSUME NEW c \in Clients, ClientStep(c) \/ Start(c) \/ GiveUp(c)
        PROVE  ClientTypes' /\ \A d \in Clients : Keeps(d)
    <2>1. UNCHANGED bridgeRegistry /\ closed' \subseteq Clients
      BY <1>3 DEF ClientStep, Start, GiveUp, Proceed, NotExecuted, Execute, ExecutionRejected,
           Finalize, Verified, CallFails, Abandon, Submit, PresentDirectly, PresentResult,
           PlannerFails, transportVars, bridgeStore, ClientTypes
    <2>2. bridgeRegistry' \in Registries
      BY <2>1 DEF ClientTypes
    <2> QED
      BY <1>2, <1>3, <2>1, <2>2, ClientMoveStep DEF ClientTypes
  <1>4. CASE BridgeRestart
    <2>1. /\ pc' \in [Clients -> {"idle"} \union Waiting \union Statuses]
          /\ \A c \in Clients : pc'[c] = pc[c] \/ (pc[c] \in Waiting /\ pc'[c] = "ERROR")
          /\ UNCHANGED sub
      BY <1>4 DEF BridgeRestart, ClientTypes, Statuses
    <2>2. \A c \in Clients : Holding(c)'
      BY <1>1, <2>1 DEF Holding, ClientTypes, Waiting
    <2>3. \A c \in Clients : Keeps(c)
      BY <2>1 DEF Keeps, AtVerifier, Waiting
    <2>4. bridgeRegistry' \in Registries /\ closed' \subseteq Clients
      BY <1>4 DEF BridgeRestart, GateInv, GateTypes, ClientTypes
    <2> QED
      BY <1>2, <2>1, <2>2, <2>3, <2>4 DEF ClientTypes
  <1>5. CASE UNCHANGED <<pc, sub, bridgeRegistry, closed>>
    <2>1. \A c \in Clients : Holding(c)'
      BY <1>1, <1>5 DEF Holding, ClientTypes
    <2>2. \A c \in Clients : Keeps(c)
      BY <1>5 DEF Keeps, AtVerifier
    <2> QED
      BY <1>2, <1>5, <2>1, <2>2 DEF ClientTypes
  <1> QED
    BY <1>3, <1>4, <1>5, ClientCases

\* What waits at the verifier is for the permit of the submission that sent it.
LEMMA OwnQueueStep ==
    ASSUME [Next]_vars, GateInv, ExecInv, VerTypes, ClientTypes, OwnReceipts, VerTypes',
           ClientTypes', \A c \in Clients : Keeps(c)
    PROVE  \A i \in DOMAIN verQueue' :
              LET m == verQueue'[i]
              IN  /\ pc'[m.client] \notin {"idle", "gate", "executor"}
                  /\ "permit" \in DOMAIN sub'[m.client]
                  /\ m.permit = sub'[m.client].permit
  <1> DEFINE Own(m) == /\ pc'[m.client] \notin {"idle", "gate", "executor"}
                       /\ "permit" \in DOMAIN sub'[m.client]
                       /\ m.permit = sub'[m.client].permit
  <1> SUFFICES \A i \in DOMAIN verQueue' : Own(verQueue'[i])
    OBVIOUS
  <1>2. verQueue \in Seq(VerMessages) /\ verQueue' \in Seq(VerMessages')
    BY DEF VerTypes
  <1>3. \A i \in DOMAIN verQueue : Own(verQueue[i])
    <2> SUFFICES ASSUME NEW i \in DOMAIN verQueue PROVE Own(verQueue[i])
      OBVIOUS
    <2>1. verQueue[i] \in VerMessages
      BY <1>2
    <2>2. verQueue[i].client \in Clients
      BY <2>1 DEF VerMessages
    <2> QED
      BY <2>2 DEF OwnReceipts, Keeps, AtVerifier
  <1>4. CASE UNCHANGED verQueue
    BY <1>3, <1>4
  <1>5. CASE verQueue # << >> /\ verQueue' = Tail(verQueue)
    <2>1. \A i \in DOMAIN verQueue' : i + 1 \in DOMAIN verQueue /\ verQueue'[i] = verQueue[i + 1]
      BY <1>2, <1>5
    <2> QED
      BY <1>3, <2>1
  <1>6. CASE verQueue' = << >>
    BY <1>6
  <1>7. ASSUME NEW c \in Clients, NEW m, verQueue' = Append(verQueue, m), Own(m)
        PROVE  \A i \in DOMAIN verQueue' : Own(verQueue'[i])
    <2>1. \A i \in DOMAIN verQueue' :
             \/ i \in DOMAIN verQueue /\ verQueue'[i] = verQueue[i]
             \/ verQueue'[i] = m
      BY <1>2, <1>7
    <2> QED
      BY <1>3, <1>7, <2>1
  <1>8. sub = [d \in Clients |-> sub[d]] /\ pc \in [Clients -> {"idle"} \union Waiting \union Statuses]
    BY DEF ClientTypes
  <1>9. ASSUME NEW c \in Clients, Finalize(c)
        PROVE  \A i \in DOMAIN verQueue' : Own(verQueue'[i])
    <2>1. CASE UNCHANGED verQueue
      BY <1>4, <2>1
    <2>2. ASSUME NEW m \in VerMessages, verQueue' = Append(verQueue, m), m.client = c,
                 m.permit = sub[c].permit, End(c, "verifier")
          PROVE  \A i \in DOMAIN verQueue' : Own(verQueue'[i])
      <3>1. "permit" \in DOMAIN sub'[c] /\ sub'[c].permit = sub[c].permit
        BY <1>8, <1>9, FinalizeSends, LearnAdds DEF Finalize
      <3>2. Own(m)
        BY <1>8, <2>2, <3>1 DEF End
      <3> QED
        BY <1>7, <2>2, <3>2
    <2> QED
      BY <1>9, <2>1, <2>2, FinalizeSends
  <1>10. ASSUME NEW c \in Clients, NEW r \in Requests, NEW permit \in permits,
                NEW result \in Results, PresentResult(c, r, permit, result)
         PROVE  \A i \in DOMAIN verQueue' : Own(verQueue'[i])
    <2>1. CASE UNCHANGED verQueue
      BY <1>4, <2>1
    <2>2. ASSUME NEW m \in VerMessages, verQueue' = Append(verQueue, m), m.client = c,
                 m.permit = permit, End(c, "verifier")
          PROVE  \A i \in DOMAIN verQueue' : Own(verQueue'[i])
      <3>1. "permit" \in DOMAIN sub'[c] /\ sub'[c].permit = permit
        BY <1>8, <1>10, LearnAdds DEF PresentResult
      <3>2. Own(m)
        BY <1>8, <2>2, <3>1 DEF End
      <3> QED
        BY <1>7, <2>2, <3>2
    <2>3. permit \in PermitsOrNone /\ result \in SignedResults
          /\ CallVerifier(c, r, permit, result)
      BY <1>10, HeldResults DEF PermitsOrNone, PresentResult
    <2> QED
      BY <2>1, <2>2, <2>3, CallVerifierSends
  <1>11. CASE VerSteps \/ VerFaults
    BY <1>4, <1>5, <1>6, <1>11 DEF VerSteps, VerFaults, VerSign, VerRefuse, VerTruncate,
         VerSave, VerSaveFails, VerRespond, VerBrokenPipe, VerCrash, VerDown, VerRestart
  <1> QED
    BY <1>4, <1>9, <1>10, <1>11, VerCases DEF verVars

\* The verifier's job, its answers and the receipts clients hold are for the
\* permit of the submission they belong to.
LEMMA OwnReceiptsStep ==
    ASSUME [Next]_vars, GateInv, ExecInv, VerTypes, ClientTypes, OwnReceipts, VerTypes',
           ClientTypes', \A c \in Clients : Keeps(c)
    PROVE  OwnReceipts'
  <1>1. /\ DOMAIN minted = 1 .. Len(minted) /\ Len(minted) \in Nat
        /\ \A n \in DOMAIN minted : n \in DOMAIN minted' /\ minted'[n] = minted[n]
    BY Growth
  <1>2. verJob'.stage \in {"signed", "saving", "saved"} =>
          /\ pc'[verJob'.client] \notin {"idle", "gate", "executor"}
          /\ "permit" \in DOMAIN sub'[verJob'.client]
          /\ minted'[verJob'.receipt].permit = sub'[verJob'.client].permit
    <2>1. CASE verJob.stage \in {"signed", "saving", "saved"}
               /\ verJob'.client = verJob.client /\ verJob'.receipt = verJob.receipt
      <3>1. verJob.client \in Clients /\ verJob.receipt \in DOMAIN minted
        BY <2>1 DEF VerTypes, NoJob
      <3> QED
        BY <1>1, <2>1, <3>1 DEF OwnReceipts, Keeps, AtVerifier
    <2>2. CASE VerSign
      <3> DEFINE m == Head(verQueue)
      <3>1. m \in VerMessages /\ m = verQueue[1] /\ 1 \in DOMAIN verQueue
        BY <2>2 DEF VerSign, VerTypes
      <3>2. m.client \in Clients /\ AtVerifier(m.client) /\ "permit" \in DOMAIN sub[m.client]
            /\ m.permit = sub[m.client].permit
        BY <3>1 DEF OwnReceipts, VerMessages
      <3>3. /\ verJob' = [stage |-> "signed", client |-> m.client, receipt |-> Len(minted) + 1]
            /\ minted' = Append(minted, CreateReceipt(m, chainFile.head))
        BY <2>2 DEF VerSign
      <3>4. minted'[Len(minted) + 1].permit = m.permit
        <4>1. minted'[Len(minted) + 1] = CreateReceipt(m, chainFile.head)
          BY <1>1, <3>3 DEF VerTypes
        <4> QED
          BY <4>1 DEF CreateReceipt
      <3> QED
        BY <3>2, <3>3, <3>4 DEF Keeps, AtVerifier
    <2>3. CASE UNCHANGED verJob
      BY <2>1, <2>3
    <2>4. CASE VerTruncate \/ VerSave
      <3>1. /\ verJob.stage \in {"signed", "saving", "saved"}
            /\ verJob = [stage |-> verJob.stage, client |-> verJob.client, receipt |-> verJob.receipt]
        BY <2>4 DEF VerTruncate, VerSave, VerTypes, NoJob
      <3>2. PICK stage : verJob' = [verJob EXCEPT !.stage = stage]
        BY <2>4 DEF VerTruncate, VerSave
      <3>3. verJob'.client = verJob.client /\ verJob'.receipt = verJob.receipt
        BY <3>1, <3>2
      <3> QED
        BY <2>1, <3>1, <3>3
    <2>5. CASE VerRefuse \/ VerSaveFails \/ VerRespond \/ VerDown
      BY <2>5 DEF VerRefuse, VerSaveFails, VerRespond, VerDown, NoJob
    <2>6. (\E c \in Clients : Finalize(c)) => UNCHANGED verJob
      BY DEF Finalize
    <2>7. (\E c \in Clients, r \in Requests, permit \in permits, result \in Results :
              PresentResult(c, r, permit, result)) => UNCHANGED verJob
      BY DEF PresentResult
    <2>8. VerRestart => UNCHANGED verJob
      BY DEF VerRestart
    <2> QED
      BY <2>2, <2>3, <2>4, <2>5, <2>6, <2>7, <2>8, VerCases
         DEF verVars, VerSteps, VerFaults, VerBrokenPipe, VerCrash
  <1>3. ASSUME NEW c \in Clients, reply'[c].kind = "verified"
        PROVE  /\ AtVerifier(c)'
               /\ "permit" \in DOMAIN sub'[c]
               /\ minted'[reply'[c].receipt].permit = sub'[c].permit
    <2>1. CASE reply'[c] = reply[c]
      <3>1. reply[c].receipt \in DOMAIN minted
        BY <1>3, <2>1 DEF ClientTypes, Answers, NoReply, Reset
      <3> QED
        BY <1>1, <1>3, <2>1, <3>1 DEF OwnReceipts, Keeps, AtVerifier
    <2>2. CASE verJob.stage = "saved" /\ verJob.client = c /\ reply'[c].receipt = verJob.receipt
      <3>1. verJob.receipt \in DOMAIN minted
        BY <2>2 DEF VerTypes, NoJob
      <3> QED
        BY <1>1, <2>2, <3>1 DEF OwnReceipts, Keeps, AtVerifier
    <2> QED
      BY <1>3, <2>1, <2>2, ReplyStep
  <1>4. ASSUME NEW c \in Clients, pc'[c] = "VERIFIED"
        PROVE  /\ "receipt" \in DOMAIN sub'[c]
               /\ sub'[c].receipt \in DOMAIN minted'
               /\ minted'[sub'[c].receipt].permit = sub'[c].permit
    <2>1. CASE pc[c] = "VERIFIED"
      BY <1>1, <2>1 DEF OwnReceipts, Keeps
    <2>2. CASE Verified(c)
      <3>1. reply[c].kind = "verified" /\ Learn(c, [receipt |-> reply[c].receipt])
        BY <2>2 DEF Verified
      <3>2. /\ "permit" \in DOMAIN sub[c] /\ minted[reply[c].receipt].permit = sub[c].permit
            /\ reply[c].receipt \in DOMAIN minted
        BY <3>1 DEF OwnReceipts, ClientTypes, Answers, NoReply, Reset
      <3>3. /\ "receipt" \in DOMAIN sub'[c] /\ sub'[c].receipt = reply[c].receipt
            /\ sub'[c].permit = sub[c].permit
        BY <3>1, <3>2, LearnAdds DEF ClientTypes
      <3> QED
        BY <1>1, <3>2, <3>3
    <2> QED
      BY <1>4, <2>1, <2>2 DEF Keeps
  <1> QED
    BY <1>2, <1>3, <1>4, OwnQueueStep DEF OwnReceipts, AtVerifier

\* The verifier and client layer is inductive beside the other two.
LEMMA ReceiptStepInv ==
    ASSUME [Next]_vars, GateInv, ExecInv, ReceiptInv PROVE ReceiptInv'
  <1>1. VerTypes' /\ ReceiptsProveAttempts'
    BY VerTypesStep DEF ReceiptInv
  <1>2. ClientTypes' /\ \A c \in Clients : Keeps(c)
    BY ClientTypesStep DEF ReceiptInv
  <1>3. OwnReceipts'
    BY <1>1, <1>2, OwnReceiptsStep DEF ReceiptInv
  <1> QED
    BY <1>1, <1>2, <1>3 DEF ReceiptInv

-----------------------------------------------------------------------------
(* The chain of receipts.                                                  *)

\* The steps that move the chain, and all others.
LEMMA ChainCases ==
    ASSUME [Next]_vars
    PROVE  \/ VerSign \/ VerTruncate \/ VerSave
           \/ /\ UNCHANGED <<chainFile, minted>>
              /\ verJob' = verJob \/ verJob'.stage \notin {"signed", "saving", "saved"}
  <1>1. CASE VerSteps \/ VerFaults
    BY <1>1 DEF VerSteps, VerFaults, VerRefuse, VerSaveFails, VerRespond, VerBrokenPipe,
         VerCrash, VerDown, VerRestart, NoJob
  <1>2. ASSUME NEW c \in Clients, Finalize(c) PROVE UNCHANGED <<verJob, chainFile, minted>>
    BY <1>2 DEF Finalize
  <1>3. ASSUME NEW c \in Clients, NEW r \in Requests, NEW permit \in permits,
               NEW result \in Results, PresentResult(c, r, permit, result)
        PROVE  UNCHANGED <<verJob, chainFile, minted>>
    BY <1>3 DEF PresentResult
  <1> QED
    BY <1>1, <1>2, <1>3, VerCases DEF verVars

\* Only a receipt whose head is on file becomes one that clients hold or take.
LEMMA DeliveredStep ==
    ASSUME [Next]_vars, GateInv, ExecInv, VerTypes, ClientTypes
    PROVE  \A n \in Delivered' : n \in Delivered \/ (verJob'.stage = "saved" /\ n = verJob'.receipt)
  <1>1. ASSUME NEW c \in Clients, pc'[c] = "VERIFIED" PROVE sub'[c].receipt \in Delivered
    <2>1. CASE pc[c] = "VERIFIED"
      BY <2>1, ClientTypesStep DEF Keeps, Delivered
    <2>2. CASE Verified(c)
      <3>1. reply[c].kind = "verified" /\ Learn(c, [receipt |-> reply[c].receipt])
        BY <2>2 DEF Verified
      <3>2. sub'[c].receipt = reply[c].receipt
        BY <3>1, LearnAdds DEF ClientTypes
      <3> QED
        BY <3>1, <3>2 DEF Delivered
    <2> QED
      BY <1>1, <2>1, <2>2, ClientTypesStep DEF Keeps
  <1>2. ASSUME NEW c \in Clients, reply'[c].kind = "verified" PROVE reply'[c].receipt \in Delivered
    BY <1>2, ReplyStep DEF Delivered
  <1> QED
    BY <1>1, <1>2 DEF Delivered

\* The chain layer is inductive beside the other three.
LEMMA ChainStepInv ==
    ASSUME [Next]_vars, GateInv, ExecInv, ReceiptInv, ChainInv PROVE ChainInv'
  <1>1. /\ Len(minted) \in Nat /\ DOMAIN minted = 1 .. Len(minted)
        /\ chainFile \in [torn : BOOLEAN, head : 0 .. Len(minted)] /\ Linked(minted)
    BY Growth DEF ReceiptInv, VerTypes, ChainInv
  <1>2. \A n \in Delivered' : n \in Delivered \/ (verJob'.stage = "saved" /\ n = verJob'.receipt)
    BY DeliveredStep DEF ReceiptInv
  <1>3. PICK h \in 0 .. Len(minted) : /\ Delivered \subseteq Chain[h]
                                      /\ ~ chainFile.torn => chainFile.head = h
    BY DEF ChainInv
  <1>4. CASE VerSign
    <2> DEFINE m == Head(verQueue)
               e == CreateReceipt(m, chainFile.head)
    <2>1. /\ minted' = Append(minted, e) /\ e.prev = chainFile.head
          /\ UNCHANGED chainFile /\ ~ chainFile.torn
          /\ verJob' = [stage |-> "signed", client |-> m.client, receipt |-> Len(minted) + 1]
      BY <1>4 DEF VerSign, Finalizable, CreateReceipt
    <2>2. Extended(minted, minted', e)
      BY <1>1, <2>1 DEF Extended, ReceiptInv, VerTypes
    <2> HIDE DEF e, m
    <2>3. PICK t : t = minted' /\ Extended(minted, t, e)
      BY <2>2
    <2>4. Linked(t) /\ \A k \in 0 .. Len(minted) : ChainOf(t)[k] = ChainOf(minted)[k]
      BY <1>1, <2>1, <2>3, ChainExtends
    <2>5. Linked(minted') /\ Chain'[h] = Chain[h] /\ h \in 0 .. Len(minted')
      BY <1>1, <2>2, <2>3, <2>4 DEF Chain, Extended
    <2>6. Delivered' \subseteq Delivered
      BY <1>2, <2>1
    <2>7. minted'[verJob'.receipt].prev = chainFile'.head
      BY <2>1, <2>2 DEF Extended
    <2> QED
      BY <1>3, <2>1, <2>5, <2>6, <2>7 DEF ChainInv
  <1>5. ASSUME UNCHANGED minted, NEW g \in 0 .. Len(minted), Delivered' \subseteq Chain[g],
               ~ chainFile'.torn => chainFile'.head = g
        PROVE  /\ Linked(minted')
               /\ \E k \in 0 .. Len(minted') : /\ Delivered' \subseteq Chain'[k]
                                               /\ ~ chainFile'.torn => chainFile'.head = k
    BY <1>1, <1>5 DEF Chain
  <1>6. CASE VerTruncate \/ VerSave
    <2>1. /\ UNCHANGED minted /\ Chain' = Chain
          /\ verJob.receipt \in DOMAIN minted
          /\ verJob = [stage |-> verJob.stage, client |-> verJob.client, receipt |-> verJob.receipt]
      BY <1>6 DEF VerTruncate, VerSave, ReceiptInv, VerTypes, NoJob, Chain
    <2>2. /\ Chain[verJob.receipt] = {verJob.receipt} \union Chain[minted[verJob.receipt].prev]
          /\ verJob.receipt \in 0 .. Len(minted)
      BY <1>1, <2>1, ChainUnfolds DEF Chain
    <2>3. CASE VerTruncate
      <3>1. verJob'.stage = "saving" /\ verJob'.receipt = verJob.receipt
        BY <2>1, <2>3 DEF VerTruncate
      <3>2. chainFile'.torn /\ Delivered \subseteq Chain[verJob.receipt]
        BY <1>3, <2>2, <2>3 DEF VerTruncate, ChainInv
      <3>3. Delivered' \subseteq Chain[verJob.receipt]
        BY <1>2, <3>1, <3>2
      <3> QED
        BY <1>5, <2>1, <2>2, <3>1, <3>2, <3>3 DEF ChainInv
    <2>4. CASE VerSave
      <3>1. verJob'.stage = "saved" /\ verJob'.receipt = verJob.receipt
        BY <2>1, <2>4 DEF VerSave
      <3>2. /\ ~ chainFile'.torn /\ chainFile'.head = verJob.receipt
            /\ Delivered \subseteq Chain[verJob.receipt]
        BY <2>4 DEF VerSave, ChainInv
      <3>3. Delivered' \subseteq Chain[verJob.receipt]
        BY <1>2, <2>2, <3>1, <3>2
      <3> QED
        BY <1>5, <2>1, <2>2, <3>1, <3>2, <3>3 DEF ChainInv
    <2> QED
      BY <1>6, <2>3, <2>4
  <1>7. CASE /\ UNCHANGED <<chainFile, minted>>
             /\ verJob' = verJob \/ verJob'.stage \notin {"signed", "saving", "saved"}
    <2>1. Chain' = Chain
      BY <1>7 DEF Chain
    <2>2. Delivered' \subseteq Delivered
      BY <1>2, <1>7 DEF Delivered
    <2>3. verJob' = verJob => /\ verJob.stage = "saving" => Delivered' \subseteq Chain[verJob.receipt]
      BY <2>2 DEF ChainInv
    <2> QED
      BY <1>3, <1>5, <1>7, <2>1, <2>2, <2>3 DEF ChainInv
  <1> QED
    BY <1>4, <1>6, <1>7, ChainCases

-----------------------------------------------------------------------------
(* The invariant and what follows from it.                                 *)

\* The four layers together are an inductive invariant of the appliance.
THEOREM Inductive == Spec => []IInv
  <1>1. Init => IInv
    <2> SUFFICES ASSUME Init PROVE IInv
      OBVIOUS
    <2> USE DEF Init, TransportInit, GateInit, ExecInit, VerInit, BridgeInit, NoJob
    <2>1. GateInv
      BY BoundsAssumption, EmptySeq
         DEF GateInv, GateTypes, GateJobSound, PermitsSound
    <2>2. ExecInv
      BY EmptySeq DEF ExecInv, ExecTypeOK, ExecSound, LedgerSound, ExecJobSound, AttemptsSound,
         OneAttemptPerPermit
    <2>3. VerTypes /\ ReceiptsProveAttempts
      BY EmptySeq DEF VerTypes, ReceiptsProveAttempts
    <2>4. ClientTypes
      BY DEF ClientTypes, Holding, Answers, Waiting, NoReply
    <2>5. OwnReceipts
      BY DEF OwnReceipts, NoReply
    <2>6. ChainInv
      <3>1. Linked(minted)
        BY EmptySeq DEF Linked
      <3>2. Delivered = {}
        BY DEF Delivered, NoReply
      <3> QED
        BY <3>1, <3>2, EmptySeq DEF ChainInv
    <2> QED
      BY <2>1, <2>2, <2>3, <2>4, <2>5, <2>6 DEF IInv, ReceiptInv
  <1>2. IInv /\ [Next]_vars => IInv'
    BY GateStepInv, ExecStepInv, ReceiptStepInv, ChainStepInv DEF IInv, ReceiptInv
  <1> QED
    BY <1>1, <1>2, PTL DEF Spec

\* Type correctness of the composition.
THEOREM TypeCorrect == Spec => []TypeOK
  <1>1. IInv => TypeOK
    <2> SUFFICES ASSUME IInv PROVE TypeOK
      OBVIOUS
    <2>1. \A c \in Clients : reply[c].kind \in {"none", "reset", "verdict", "permit", "refused",
                                               "executed", "verified", "error"}
      <3>1. \A c \in Clients : reply[c] \in Answers
        BY DEF IInv, ReceiptInv, ClientTypes
      <3>2. \A a \in Answers : a.kind \in {"none", "reset", "verdict", "permit", "refused",
                                         "executed", "verified", "error"}
        BY DEF Answers, NoReply, Reset
      <3> QED
        BY <3>1, <3>2
    <2>2. gateJob.stage \in {"idle", "decided", "failed"}
      BY DEF IInv, GateInv, GateTypes, NoJob
    <2>3. execJob.stage \in {"idle", "authorized", "refused", "executed"}
      BY DEF IInv, ExecInv, ExecTypeOK, NoJob
    <2>4. verJob.stage \in {"idle", "signed", "saving", "saved", "failed"}
      BY DEF IInv, ReceiptInv, VerTypes, NoJob
    <2>5. /\ now \in 0 .. MaxClock /\ closed \subseteq Clients
          /\ gateRegistry \in Registries /\ registryFile \in Registries
          /\ bridgeRegistry \in Registries
          /\ \A c \in Clients : pc[c] \in {"idle"} \union Waiting \union Statuses
          /\ chainFile \in [torn : BOOLEAN, head : 0 .. Len(minted)]
      BY DEF IInv, GateInv, GateTypes, ReceiptInv, ClientTypes, VerTypes
    <2> QED
      BY <2>1, <2>2, <2>3, <2>4, <2>5 DEF TypeOK
  <1> QED
    BY <1>1, Inductive, PTL

\* Every attempt carries a permit of the gate, for the request that ran.
LEMMA AttemptsCarryPermits ==
    ASSUME IInv, NEW i \in DOMAIN attempts
    PROVE  /\ attempts[i].permit \in permits
           /\ attempts[i].permit.body.request = attempts[i].request
           /\ PermitSound(attempts[i].permit) /\ LeaseSpentOn(attempts[i].permit)
  <1>1. attempts[i] \in Attempts(permits, Requests)
    BY DEF IInv, ExecInv, ExecTypeOK
  <1>2. attempts[i].permit \in permits
    BY <1>1 DEF Attempts
  <1>3. attempts[i].permit.body.request = attempts[i].request
    BY DEF IInv, ExecInv, ExecSound, AttemptsSound
  <1> QED
    BY <1>2, <1>3 DEF IInv, GateInv, PermitsSound

\* What ran was authorized under a registry of the version its permit names,
\* by the policy alone or by the policy and a human who reviewed this request.
THEOREM AttemptsAuthorizedAlways == Spec => []AttemptsAuthorized
  <1>1. IInv => AttemptsAuthorized
    <2> SUFFICES ASSUME IInv, NEW i \in DOMAIN attempts
                 PROVE  \E registry \in Registries :
                            /\ attempts[i].permit.body.registry_version = registry.version
                            /\ Authorized(Evaluate(attempts[i].request, registry),
                                          attempts[i].request, attempts[i].permit.body.lease)
      BY DEF AttemptsAuthorized
    <2> QED
      BY AttemptsCarryPermits DEF PermitSound
  <1> QED
    BY <1>1, Inductive, PTL

\* Where a version names one registry, what ran was allowed by the registry
\* named in its permit: a denied request never runs, a request that needs
\* review runs only as a human saw and signed it.
THEOREM AttemptsFollowPolicyAlways ==
    ASSUME VersionsIdentify PROVE Spec => []AttemptsFollowPolicy
  <1>1. AttemptsAuthorized => AttemptsFollowPolicy
    <2> SUFFICES ASSUME AttemptsAuthorized, NEW i \in DOMAIN attempts,
                        NEW registry \in Registries,
                        attempts[i].permit.body.registry_version = registry.version
                 PROVE  Authorized(Evaluate(attempts[i].request, registry),
                                   attempts[i].request, attempts[i].permit.body.lease)
      BY DEF AttemptsFollowPolicy, Authorized
    <2> QED
      BY VersionsIdentify DEF AttemptsAuthorized, VersionsIdentify
  <1> QED
    BY <1>1, AttemptsAuthorizedAlways, PTL

\* One approval, at most one execution: a lease id stands in one permit, a
\* permit id in one attempt, across crashes, retries and replays.
THEOREM OneAttemptPerApprovalAlways == Spec => []OneAttemptPerApproval
  <1>1. IInv => OneAttemptPerApproval
    <2> SUFFICES ASSUME IInv, NEW i \in DOMAIN attempts, NEW j \in DOMAIN attempts,
                        attempts[i].permit.body.lease # NoLease,
                        attempts[j].permit.body.lease # NoLease,
                        attempts[i].permit.body.lease.body.lease_id
                          = attempts[j].permit.body.lease.body.lease_id
                 PROVE  i = j
      BY DEF OneAttemptPerApproval
    <2>1. attempts[j].permit = attempts[i].permit
      BY AttemptsCarryPermits DEF LeaseSpentOn
    <2> QED
      BY <2>1 DEF IInv, ExecInv, ExecSound, OneAttemptPerPermit
  <1> QED
    BY <1>1, Inductive, PTL

\* A policy that denies a request stops it within one permit lifetime of being
\* loaded, although the executor never reads the registry.
THEOREM StaleAuthorityBoundedAlways == Spec => []StaleAuthorityBounded
  <1>1. IInv => StaleAuthorityBounded
    <2> SUFFICES ASSUME IInv, NEW row \in permitLedger,
                        Evaluate(row.envelope.body.request, gateRegistry).verdict = "DENY"
                 PROVE  row.at < policySince + PermitTTL
      BY DEF StaleAuthorityBounded
    <2>1. row.envelope \in permits /\ row.at \in Nat
      BY DEF IInv, ExecInv, ExecTypeOK, Rows
    <2>2. row.at < row.envelope.body.expires_at
      BY DEF IInv, ExecInv, ExecSound, LedgerSound
    <2>3. /\ row.envelope.body.expires_at = row.envelope.body.issued_at + PermitTTL
          /\ row.envelope.body.issued_at \in Nat
          /\ row.envelope.body.issued_at <= policySince /\ policySince \in Nat
      BY <2>1, BoundsAssumption
         DEF IInv, GateInv, GateTypes, PermitsSound, PermitSound, OlderThanPolicy
    <2> QED
      BY <2>1, <2>2, <2>3, GateAssumption
  <1> QED
    BY <1>1, Inductive, PTL

\* Every receipt the verifier signs is about an attempt that was made, with the
\* outcome it had, whoever asked for it and however often.
THEOREM ReceiptsProveAttemptsAlways == Spec => []ReceiptsProveAttempts
  <1>1. IInv => ReceiptsProveAttempts
    BY DEF IInv, ReceiptInv
  <1> QED
    BY <1>1, Inductive, PTL

\* A submission reported VERIFIED was executed exactly once, with the outcome its
\* receipt states.
THEOREM VerifiedMeansExecutedOnceAlways == Spec => []VerifiedMeansExecutedOnce
  <1>1. IInv => VerifiedMeansExecutedOnce
    <2> SUFFICES ASSUME IInv, NEW c \in Clients, pc[c] = "VERIFIED"
                 PROVE  LET own == {i \in DOMAIN attempts : attempts[i].permit = sub[c].permit}
                        IN  /\ Cardinality(own) = 1
                            /\ \A i \in own : attempts[i].outcome = minted[sub[c].receipt].outcome
      BY DEF VerifiedMeansExecutedOnce
    <2> DEFINE own == {i \in DOMAIN attempts : attempts[i].permit = sub[c].permit}
    <2>1. sub[c].receipt \in DOMAIN minted /\ minted[sub[c].receipt].permit = sub[c].permit
      BY DEF IInv, ReceiptInv, OwnReceipts
    <2>2. PICK i \in DOMAIN attempts :
             /\ attempts[i].permit = sub[c].permit
             /\ attempts[i].outcome = minted[sub[c].receipt].outcome
      BY <2>1 DEF IInv, ReceiptInv, ReceiptsProveAttempts
    <2>3. own = {i}
      BY <2>2 DEF IInv, ExecInv, ExecSound, OneAttemptPerPermit
    <2>4. Cardinality(own) = 1
      BY <2>3, FS_Singleton
    <2> QED
      BY <2>2, <2>3, <2>4
  <1> QED
    BY <1>1, Inductive, PTL

\* Receipts that clients hold are on one chain, and the chain-state file leads
\* back to all of them unless a crash tore it.
THEOREM DeliveredReceiptsChainedAlways == Spec => []DeliveredReceiptsChained
  <1>1. IInv => DeliveredReceiptsChained
    <2> SUFFICES ASSUME IInv PROVE DeliveredReceiptsChained
      OBVIOUS
    <2>1. /\ Len(minted) \in Nat /\ DOMAIN minted = 1 .. Len(minted) /\ Linked(minted)
      BY DEF IInv, ReceiptInv, VerTypes, ChainInv
    <2>2. PICK h \in 0 .. Len(minted) : /\ Delivered \subseteq Chain[h]
                                        /\ ~ chainFile.torn => chainFile.head = h
      BY DEF IInv, ChainInv
    <2>3. \A i, j \in Chain[h] : i \in Chain[j] \/ j \in Chain[i]
      BY <2>1, ChainsAreLines DEF Chain
    <2> QED
      BY <2>2, <2>3 DEF DeliveredReceiptsChained, Delivered
  <1> QED
    BY <1>1, Inductive, PTL

-----------------------------------------------------------------------------
(* Calls and answers.                                                      *)

\* A service takes the first call of its backlog in hand.
LEMMA HeldTaken ==
    ASSUME NEW S, NEW queue \in Seq(S), NEW job, NEW job2,
           queue # << >>, job.stage = "idle",
           job2.stage # "idle", job2.client = Head(queue).client
    PROVE  /\ Held(Tail(queue), job2) = Held(queue, job)
           /\ Apart(queue, job) => Apart(Tail(queue), job2)
  <1>1. /\ Len(queue) \in Nat /\ DOMAIN queue = 1 .. Len(queue) /\ Len(queue) # 0
        /\ Head(queue) = queue[1]
        /\ DOMAIN Tail(queue) = 1 .. Len(queue) - 1
        /\ \A i \in 1 .. Len(queue) - 1 : Tail(queue)[i] = queue[i + 1]
    OBVIOUS
  <1>2. \A i \in 1 .. Len(queue) - 1 : i + 1 \in 1 .. Len(queue) /\ i + 1 # 1
    BY <1>1
  <1>3. \A i \in 1 .. Len(queue) : i = 1 \/ (i - 1 \in 1 .. Len(queue) - 1 /\ (i - 1) + 1 = i)
    BY <1>1
  <1>4. Held(Tail(queue), job2) \subseteq Held(queue, job)
    BY <1>1, <1>2 DEF Held
  <1>5. Held(queue, job) \subseteq Held(Tail(queue), job2)
    <2> SUFFICES ASSUME NEW i \in 1 .. Len(queue) PROVE queue[i].client \in Held(Tail(queue), job2)
      BY <1>1 DEF Held
    <2>1. CASE i = 1
      BY <1>1, <2>1 DEF Held
    <2>2. CASE i # 1
      <3>1. queue[i] = Tail(queue)[i - 1] /\ i - 1 \in DOMAIN Tail(queue)
        BY <1>1, <1>3, <2>2
      <3> QED
        BY <3>1 DEF Held
    <2> QED
      BY <2>1, <2>2
  <1>6. ASSUME Apart(queue, job) PROVE Apart(Tail(queue), job2)
    <2>1. ASSUME NEW i \in DOMAIN Tail(queue), NEW j \in DOMAIN Tail(queue),
                 Tail(queue)[i].client = Tail(queue)[j].client
          PROVE  i = j
      <3>1. i + 1 = j + 1
        BY <1>1, <1>2, <1>6, <2>1 DEF Apart
      <3> QED
        BY <1>1, <3>1
    <2>2. ASSUME NEW i \in DOMAIN Tail(queue) PROVE Tail(queue)[i].client # job2.client
      BY <1>1, <1>2, <1>6 DEF Apart
    <2> QED
      BY <2>1, <2>2 DEF Apart
  <1> QED
    BY <1>4, <1>5, <1>6

\* A service is called.
LEMMA HeldCalled ==
    ASSUME NEW S, NEW queue \in Seq(S), NEW job, NEW m, m.client \notin Held(queue, job)
    PROVE  /\ Held(Append(queue, m), job) = Held(queue, job) \union {m.client}
           /\ Apart(queue, job) => Apart(Append(queue, m), job)
  <1>1. /\ Len(queue) \in Nat /\ DOMAIN queue = 1 .. Len(queue)
        /\ DOMAIN Append(queue, m) = 1 .. Len(queue) + 1
        /\ Append(queue, m)[Len(queue) + 1] = m
        /\ \A i \in 1 .. Len(queue) : Append(queue, m)[i] = queue[i]
    <2>1. queue \in Seq(S \union {m})
      OBVIOUS
    <2> QED
      BY <2>1
  <1>2. \A i \in 1 .. Len(queue) + 1 : i \in 1 .. Len(queue) \/ i = Len(queue) + 1
    BY <1>1
  <1>3. Len(queue) + 1 \in 1 .. Len(queue) + 1 /\ 1 .. Len(queue) \subseteq 1 .. Len(queue) + 1
    BY <1>1
  <1> DEFINE queue2 == Append(queue, m)
  <1> HIDE DEF queue2
  <1>4. /\ DOMAIN queue2 = 1 .. Len(queue) + 1
        /\ queue2[Len(queue) + 1] = m
        /\ \A i \in 1 .. Len(queue) : queue2[i] = queue[i]
    BY <1>1 DEF queue2
  <1>5. Held(queue2, job) = Held(queue, job) \union {m.client}
    BY <1>1, <1>2, <1>3, <1>4 DEF Held
  <1>6. ASSUME Apart(queue, job) PROVE Apart(queue2, job)
    <2>1. m.client \notin {queue[i].client : i \in 1 .. Len(queue)}
          /\ (job.stage # "idle" => m.client # job.client)
      BY <1>1 DEF Held
    <2> QED
      BY <1>1, <1>2, <1>4, <1>6, <2>1 DEF Apart
  <1> QED
    BY <1>5, <1>6 DEF queue2

\* A service has answered, or is no more.
LEMMA HeldAnswered ==
    ASSUME NEW queue, NEW job, NEW job2, job.stage # "idle", job2.stage = "idle"
    PROVE  Apart(queue, job) => /\ Held(queue, job2) = Held(queue, job) \ {job.client}
                                /\ job.client \in Held(queue, job)
                                /\ Apart(queue, job2)
  BY DEF Held, Apart

\* A process that is no more holds no connection.
LEMMA HeldDropped == Held(<< >>, NoJob) = {} /\ Apart(<< >>, NoJob)
  BY EmptySeq DEF Held, Apart, NoJob

\* The clients whose connections each service holds, as a function.
At == [s \in Waiting |-> HeldBy[s]]

\* What a step does for clients and their calls: a service answers one, or ends
\* and resets all it holds; a client calls, is done, or closes its socket.
Answers1(s, d) ==
    /\ d \in At[s] \ closed
    /\ At' = [At EXCEPT ![s] = @ \ {d}]
    /\ reply'[d].kind \in Understood[s] /\ reply' = [reply EXCEPT ![d] = reply'[d]]
    /\ UNCHANGED <<pc, closed>>

Resets(s) ==
    /\ At' = [At EXCEPT ![s] = {}]
    /\ reply' = [c \in Clients |-> IF c \in At[s] \ closed THEN Reset ELSE reply[c]]
    /\ UNCHANGED <<pc, closed>>

\* The client acts: it has not called yet, or has its answer.
Acts(c) == pc[c] = "idle" \/ (pc[c] \in Waiting /\ reply[c] # NoReply)

Calls(c, s) ==
    /\ Acts(c)
    /\ At' = [At EXCEPT ![s] = @ \union {c}]
    /\ pc' = [pc EXCEPT ![c] = s]
    /\ reply' = [reply EXCEPT ![c] = NoReply]
    /\ UNCHANGED closed

IsDone(c) ==
    /\ Acts(c)
    /\ \E status \in Statuses : pc' = [pc EXCEPT ![c] = status]
    /\ reply' = [reply EXCEPT ![c] = NoReply]
    /\ UNCHANGED <<At, closed>>

Leave(gone) ==
    /\ pc' = [c \in Clients |-> IF c \in gone THEN "ERROR" ELSE pc[c]]
    /\ closed' = closed \union gone
    /\ UNCHANGED <<At, reply>>

Moves ==
    \/ \E s \in Waiting, d \in Clients : Answers1(s, d)
    \/ \E s \in Waiting : Resets(s)
    \/ \E c \in Clients, s \in Waiting : Calls(c, s)
    \/ \E c \in Clients : IsDone(c)
    \/ \E gone \in SUBSET Clients : Leave(gone)
    \/ UNCHANGED <<At, reply, pc, closed>>

\* Where the call of a client is.
Place(c) == {s \in Waiting : c \in At[s]}

\* NoCallForgotten and what is beside it, by places.
Kept ==
    /\ \A c \in Clients \ closed :
          /\ pc[c] \in Waiting => \/ Place(c) = {pc[c]} /\ reply[c] = NoReply
                                  \/ Place(c) = {} /\ reply[c].kind \in Understood[pc[c]]
          /\ pc[c] \notin Waiting => Place(c) = {} /\ reply[c] = NoReply
    /\ \A c \in closed : pc[c] = "ERROR"

\* Kept says what NoCallForgotten says.
LEMMA KeptIs ==
    /\ Kept <=> (NoCallForgotten /\ \A c \in closed : pc[c] = "ERROR")
    /\ Kept' <=> (NoCallForgotten' /\ \A c \in closed' : pc'[c] = "ERROR")
  <1>1. /\ \A c : Place(c) = {s \in Waiting : c \in HeldBy[s]}
        /\ \A c : Place(c)' = {s \in Waiting : c \in HeldBy'[s]}
    BY DEF Place, At
  <1> QED
    BY <1>1 DEF Kept, NoCallForgotten

\* Each of these moves leaves every call in its place.
LEMMA MovesKeep ==
    ASSUME ClientTypes, Kept, Moves PROVE Kept'
  <1>1. /\ DOMAIN At = Waiting /\ DOMAIN reply = Clients /\ DOMAIN pc = Clients
        /\ closed \subseteq Clients
        /\ Waiting = {"gate", "executor", "verifier"}
        /\ "ERROR" \notin Waiting /\ "idle" \notin Waiting /\ Waiting \intersect Statuses = {}
    BY DEF ClientTypes, At, Waiting, Statuses
  <1>2. /\ NoReply.kind \notin {"reset", "verdict", "permit", "error", "refused", "executed", "verified"}
        /\ \A s \in Waiting : "reset" \in Understood[s] /\ NoReply.kind \notin Understood[s]
        /\ Reset.kind = "reset"
    BY DEF NoReply, Reset, Understood, Waiting
  <1>3. ASSUME NEW s \in Waiting, NEW d \in Clients, Answers1(s, d) PROVE Kept'
    <2>1. reply'[d].kind \in Understood[s] /\ reply' = [reply EXCEPT ![d] = reply'[d]]
      BY <1>3 DEF Answers1
    <2>2. d \notin closed /\ s \in Place(d)
      BY <1>3 DEF Answers1, Place
    <2>3. pc[d] = s /\ Place(d) = {s}
      BY <2>2 DEF Kept
    <2>4. Place(d)' = {}
      BY <1>1, <1>3, <2>3 DEF Answers1, Place
    <2>5. \A c \in Clients \ {d} : Place(c)' = Place(c)
      BY <1>1, <1>3 DEF Answers1, Place
    <2> QED
      BY <1>1, <1>3, <2>1, <2>3, <2>4, <2>5 DEF Answers1, Kept
  <1>4. ASSUME NEW s \in Waiting, Resets(s) PROVE Kept'
    <2>1. \A c \in Clients : Place(c)' = Place(c) \ {s}
      BY <1>1, <1>4 DEF Resets, Place
    <2>2. \A c \in Clients \ closed :
             reply'[c] = IF s \in Place(c) THEN Reset ELSE reply[c]
      BY <1>4 DEF Resets, Place
    <2> QED
      BY <1>2, <1>4, <2>1, <2>2 DEF Resets, Kept
  <1>5. ASSUME NEW d \in Clients, Acts(d) PROVE d \notin closed /\ Place(d) = {}
    BY <1>1, <1>2, <1>5 DEF Acts, Kept
  <1>6. ASSUME NEW d \in Clients, NEW s \in Waiting, Calls(d, s) PROVE Kept'
    <2>1. d \notin closed /\ Place(d) = {}
      BY <1>5, <1>6 DEF Calls
    <2>2. Place(d)' = {s}
      BY <1>1, <1>6, <2>1 DEF Calls, Place
    <2>3. \A c \in Clients \ {d} : Place(c)' = Place(c)
      BY <1>1, <1>6 DEF Calls, Place
    <2> QED
      BY <1>1, <1>6, <2>1, <2>2, <2>3 DEF Calls, Kept
  <1>7. ASSUME NEW d \in Clients, IsDone(d) PROVE Kept'
    <2>1. d \notin closed /\ Place(d) = {}
      BY <1>5, <1>7 DEF IsDone
    <2>2. \A c \in Clients : Place(c)' = Place(c)
      BY <1>7 DEF IsDone, Place
    <2> QED
      BY <1>1, <1>7, <2>1, <2>2 DEF IsDone, Kept
  <1>8. ASSUME NEW gone \in SUBSET Clients, Leave(gone) PROVE Kept'
    <2>1. \A c \in Clients : Place(c)' = Place(c)
      BY <1>8 DEF Leave, Place
    <2> QED
      BY <1>1, <1>8, <2>1 DEF Leave, Kept
  <1>9. ASSUME UNCHANGED <<At, reply, pc, closed>> PROVE Kept'
    BY <1>9 DEF Place, Kept
  <1> QED
    BY <1>3, <1>4, <1>6, <1>7, <1>8, <1>9 DEF Moves

\* A step that touches one service only.
LEMMA OneService ==
    /\ UNCHANGED <<execQueue, execJob, verQueue, verJob>> =>
          /\ At' = [At EXCEPT !["gate"] = Held(gateQueue', gateJob')]
          /\ AllApart /\ Apart(gateQueue', gateJob') => AllApart'
    /\ UNCHANGED <<gateQueue, gateJob, verQueue, verJob>> =>
          /\ At' = [At EXCEPT !["executor"] = Held(execQueue', execJob')]
          /\ AllApart /\ Apart(execQueue', execJob') => AllApart'
    /\ UNCHANGED <<gateQueue, gateJob, execQueue, execJob>> =>
          /\ At' = [At EXCEPT !["verifier"] = Held(verQueue', verJob')]
          /\ AllApart /\ Apart(verQueue', verJob') => AllApart'
  <1> DEFINE g == Held(gateQueue, gateJob)
             e == Held(execQueue, execJob)
             v == Held(verQueue, verJob)
  <1>1. /\ g' = Held(gateQueue', gateJob') /\ e' = Held(execQueue', execJob')
        /\ v' = Held(verQueue', verJob')
    BY DEF Held
  <1>2. /\ DOMAIN At = Waiting /\ DOMAIN At' = Waiting
        /\ At["gate"] = g /\ At["executor"] = e /\ At["verifier"] = v
        /\ At'["gate"] = g' /\ At'["executor"] = e' /\ At'["verifier"] = v'
        /\ At = [s \in Waiting |-> At[s]] /\ At' = [s \in Waiting |-> At'[s]]
    BY DEF At, HeldBy, Waiting
  <1>3. /\ UNCHANGED <<gateQueue, gateJob>> => g' = g
        /\ UNCHANGED <<execQueue, execJob>> => e' = e
        /\ UNCHANGED <<verQueue, verJob>> => v' = v
    BY DEF Held
  <1>4. AllApart' = (Apart(gateQueue', gateJob') /\ Apart(execQueue', execJob')
                        /\ Apart(verQueue', verJob'))
    BY DEF AllApart, Apart
  <1> HIDE DEF g, e, v
  <1>5. /\ UNCHANGED <<execQueue, execJob, verQueue, verJob>> =>
              At' = [At EXCEPT !["gate"] = g']
        /\ UNCHANGED <<gateQueue, gateJob, verQueue, verJob>> =>
              At' = [At EXCEPT !["executor"] = e']
        /\ UNCHANGED <<gateQueue, gateJob, execQueue, execJob>> =>
              At' = [At EXCEPT !["verifier"] = v']
    BY <1>2, <1>3 DEF Waiting
  <1> QED
    BY <1>1, <1>4, <1>5 DEF AllApart

\* The kinds of answers that a service gives.
LEMMA GivenAreUnderstood ==
    /\ "verdict" \in Understood["gate"] /\ "permit" \in Understood["gate"]
    /\ "error" \in Understood["gate"]
    /\ "refused" \in Understood["executor"] /\ "executed" \in Understood["executor"]
    /\ "verified" \in Understood["verifier"] /\ "error" \in Understood["verifier"]
  <1>1. /\ Understood["gate"] = {"verdict", "permit", "error", "reset"}
        /\ Understood["executor"] = {"refused", "executed", "error", "reset"}
        /\ Understood["verifier"] = {"verified", "error", "reset"}
    BY DEF Understood
  <1> QED
    BY <1>1

\* What a client finds on its socket is what it was sent.
LEMMA Received ==
    ASSUME ClientTypes, NEW d \in Clients, NEW r, Send(d, r),
           NEW s, r.kind \in Understood[s]
    PROVE  reply'[d].kind \in Understood[s] /\ reply' = [reply EXCEPT ![d] = reply'[d]]
  <1>1. reply' = [reply EXCEPT ![d] = r] /\ DOMAIN reply = Clients
    BY DEF Send, ClientTypes
  <1>2. reply'[d] = r
    BY <1>1
  <1> QED
    BY <1>1, <1>2

\* The gate's steps, and its end.
LEMMA GateMoves ==
    ASSUME ClientTypes, GateInv, AllApart, GateSteps \/ GateCrash \/ GateRedeemFails,
           UNCHANGED <<execQueue, execJob, verQueue, verJob, pc>>
    PROVE  Moves /\ AllApart'
  <1>1. /\ At' = [At EXCEPT !["gate"] = Held(gateQueue', gateJob')]
        /\ Apart(gateQueue', gateJob') => AllApart'
        /\ At["gate"] = Held(gateQueue, gateJob) /\ Apart(gateQueue, gateJob)
    BY OneService DEF At, HeldBy, AllApart, Waiting
  <1>2. gateQueue \in Seq(GateMessages)
    BY DEF GateInv, GateTypes
  <1>3. CASE GateEvaluate \/ GateRedeem \/ GateRedeemFails
    <2>1. /\ gateQueue # << >> /\ gateJob.stage = "idle" /\ gateQueue' = Tail(gateQueue)
          /\ gateJob'.stage # "idle" /\ gateJob'.client = Head(gateQueue).client
          /\ UNCHANGED <<reply, closed>>
      BY <1>3 DEF GateEvaluate, GateRedeem, GateRedeemFails, NoJob, transportVars
    <2>2. Held(gateQueue', gateJob') = Held(gateQueue, gateJob) /\ Apart(gateQueue', gateJob')
      BY <1>1, <1>2, <2>1, HeldTaken
    <2>3. UNCHANGED At
      BY <1>1, <2>2 DEF At
    <2> QED
      BY <1>1, <2>1, <2>2, <2>3 DEF Moves
  <1>4. CASE GateRespond
    <2>1. /\ gateJob.stage # "idle" /\ gateJob'.stage = "idle" /\ gateQueue' = gateQueue
          /\ gateJob.client \in Clients /\ gateJob.client \notin closed /\ closed' = closed
      BY <1>4 DEF GateRespond, Send, NoJob, GateInv, GateTypes
    <2>2. /\ Held(gateQueue', gateJob') = Held(gateQueue, gateJob) \ {gateJob.client}
          /\ gateJob.client \in Held(gateQueue, gateJob) /\ Apart(gateQueue', gateJob')
      BY <1>1, <2>1, HeldAnswered
    <2>3. /\ reply'[gateJob.client].kind \in Understood["gate"]
          /\ reply' = [reply EXCEPT ![gateJob.client] = reply'[gateJob.client]]
      <3>1. CASE gateJob.stage = "decided" /\ gateJob.verdict = "ALLOW"
        <4> DEFINE permit == IssueExecutionPermit(gateJob, now)
                   r == [kind |-> "permit", permit |-> permit]
        <4>1. Send(gateJob.client, r) /\ r.kind = "permit"
          BY <1>4, <3>1 DEF GateRespond
        <4> HIDE DEF r
        <4> QED
          BY <2>1, <4>1, Received, GivenAreUnderstood
      <3>2. CASE gateJob.stage = "decided" /\ gateJob.verdict # "ALLOW"
        <4> DEFINE r == [kind |-> "verdict", base |-> gateJob.base]
        <4>1. Send(gateJob.client, r) /\ r.kind = "verdict"
          BY <1>4, <3>2 DEF GateRespond
        <4> HIDE DEF r
        <4> QED
          BY <2>1, <4>1, Received, GivenAreUnderstood
      <3>3. CASE gateJob.stage = "failed"
        <4> DEFINE r == [kind |-> "error"]
        <4>1. Send(gateJob.client, r) /\ r.kind = "error"
          BY <1>4, <3>3 DEF GateRespond
        <4> HIDE DEF r
        <4> QED
          BY <2>1, <4>1, Received, GivenAreUnderstood
      <3> QED
        BY <1>4, <3>1, <3>2, <3>3 DEF GateRespond
    <2>4. Answers1("gate", gateJob.client)
      BY <1>1, <2>1, <2>2, <2>3 DEF Answers1
    <2> QED
      BY <1>1, <2>1, <2>2, <2>4 DEF Moves, Waiting
  <1>5. CASE GateBrokenPipe \/ GateCrash
    <2>1. /\ gateQueue' = << >> /\ gateJob' = NoJob /\ closed' = closed
          /\ ResetHeld(gateQueue, gateJob)
      BY <1>5 DEF GateBrokenPipe, GateCrash, GateDown
    <2>2. Held(gateQueue', gateJob') = {} /\ Apart(gateQueue', gateJob')
      BY <2>1, HeldDropped
    <2>3. Resets("gate")
      BY <1>1, <2>1, <2>2 DEF Resets, ResetHeld
    <2> QED
      BY <1>1, <2>2, <2>3 DEF Moves, Waiting
  <1> QED
    BY <1>3, <1>4, <1>5 DEF GateSteps

\* The executor's steps, and its end.
LEMMA ExecMoves ==
    ASSUME ClientTypes, ExecInv, AllApart, ExecSteps \/ ExecCrash \/ ExecConsumeFails,
           UNCHANGED <<gateQueue, gateJob, verQueue, verJob, pc>>
    PROVE  Moves /\ AllApart'
  <1>1. /\ At' = [At EXCEPT !["executor"] = Held(execQueue', execJob')]
        /\ Apart(execQueue', execJob') => AllApart'
        /\ At["executor"] = Held(execQueue, execJob) /\ Apart(execQueue, execJob)
    BY OneService DEF At, HeldBy, AllApart, Waiting
  <1>2. execQueue \in Seq(Presentable(permits, Requests))
    BY DEF ExecInv, ExecTypeOK
  <1>3. CASE ExecConsume \/ ExecRefuse \/ ExecConsumeFails
    <2>1. /\ execQueue # << >> /\ execJob.stage = "idle" /\ execQueue' = Tail(execQueue)
          /\ execJob'.stage # "idle" /\ execJob'.client = Head(execQueue).client
          /\ UNCHANGED <<reply, closed>>
      BY <1>3 DEF ExecConsume, ExecRefuse, ExecConsumeFails, NoJob, transportVars
    <2>2. Held(execQueue', execJob') = Held(execQueue, execJob) /\ Apart(execQueue', execJob')
      BY <1>1, <1>2, <2>1, HeldTaken
    <2>3. UNCHANGED At
      BY <1>1, <2>2 DEF At
    <2> QED
      BY <1>1, <2>1, <2>2, <2>3 DEF Moves
  <1>4. CASE ExecRun
    <2>1. /\ execJob.stage # "idle" /\ execJob'.stage # "idle" /\ execJob'.client = execJob.client
          /\ UNCHANGED <<execQueue, reply, closed>>
      BY <1>4 DEF ExecRun, transportVars
    <2>2. Held(execQueue', execJob') = Held(execQueue, execJob) /\ Apart(execQueue', execJob')
      BY <1>1, <2>1 DEF Held, Apart
    <2>3. UNCHANGED At
      BY <1>1, <2>2 DEF At
    <2> QED
      BY <1>1, <2>1, <2>2, <2>3 DEF Moves
  <1>5. CASE ExecRespond
    <2>1. /\ execJob.stage # "idle" /\ execJob'.stage = "idle" /\ execQueue' = execQueue
          /\ execJob.client \in Clients /\ execJob.client \notin closed /\ closed' = closed
      BY <1>5 DEF ExecRespond, Send, NoJob, ExecInv, ExecTypeOK
    <2>2. /\ Held(execQueue', execJob') = Held(execQueue, execJob) \ {execJob.client}
          /\ execJob.client \in Held(execQueue, execJob) /\ Apart(execQueue', execJob')
      BY <1>1, <2>1, HeldAnswered
    <2>3. /\ reply'[execJob.client].kind \in Understood["executor"]
          /\ reply' = [reply EXCEPT ![execJob.client] = reply'[execJob.client]]
      <3>1. Send(execJob.client, ExecReply(execJob, now))
        BY <1>5 DEF ExecRespond
      <3>2. ExecReply(execJob, now).kind \in {"executed", "refused"}
        BY DEF ExecReply
      <3> QED
        BY <2>1, <3>1, <3>2, Received, GivenAreUnderstood
    <2>4. Answers1("executor", execJob.client)
      BY <1>1, <2>1, <2>2, <2>3 DEF Answers1
    <2> QED
      BY <1>1, <2>1, <2>2, <2>4 DEF Moves, Waiting
  <1>6. CASE ExecBrokenPipe \/ ExecCrash
    <2>1. /\ execQueue' = << >> /\ execJob' = NoJob /\ closed' = closed
          /\ ResetHeld(execQueue, execJob)
      BY <1>6 DEF ExecBrokenPipe, ExecCrash, ExecDown
    <2>2. Held(execQueue', execJob') = {} /\ Apart(execQueue', execJob')
      BY <2>1, HeldDropped
    <2>3. Resets("executor")
      BY <1>1, <2>1, <2>2 DEF Resets, ResetHeld
    <2> QED
      BY <1>1, <2>2, <2>3 DEF Moves, Waiting
  <1> QED
    BY <1>3, <1>4, <1>5, <1>6 DEF ExecSteps

\* The verifier's steps, and its end.
LEMMA VerMoves ==
    ASSUME ClientTypes, VerTypes, AllApart, VerSteps \/ VerCrash \/ VerSaveFails,
           UNCHANGED <<gateQueue, gateJob, execQueue, execJob, pc>>
    PROVE  Moves /\ AllApart'
  <1>1. /\ At' = [At EXCEPT !["verifier"] = Held(verQueue', verJob')]
        /\ Apart(verQueue', verJob') => AllApart'
        /\ At["verifier"] = Held(verQueue, verJob) /\ Apart(verQueue, verJob)
    BY OneService DEF At, HeldBy, AllApart, Waiting
  <1>2. verQueue \in Seq(VerMessages)
    BY DEF VerTypes
  <1>3. CASE VerSign \/ VerRefuse
    <2>1. /\ verQueue # << >> /\ verJob.stage = "idle" /\ verQueue' = Tail(verQueue)
          /\ verJob'.stage # "idle" /\ verJob'.client = Head(verQueue).client
          /\ UNCHANGED <<reply, closed>>
      BY <1>3 DEF VerSign, VerRefuse, NoJob, transportVars
    <2>2. Held(verQueue', verJob') = Held(verQueue, verJob) /\ Apart(verQueue', verJob')
      BY <1>1, <1>2, <2>1, HeldTaken
    <2>3. UNCHANGED At
      BY <1>1, <2>2 DEF At
    <2> QED
      BY <1>1, <2>1, <2>2, <2>3 DEF Moves
  <1>4. CASE VerTruncate \/ VerSave \/ VerSaveFails
    <2>1. /\ verJob.stage # "idle" /\ verJob'.stage # "idle" /\ verJob'.client = verJob.client
          /\ UNCHANGED <<verQueue, reply, closed>>
      BY <1>4 DEF VerTruncate, VerSave, VerSaveFails, VerTypes, NoJob, transportVars
    <2>2. Held(verQueue', verJob') = Held(verQueue, verJob) /\ Apart(verQueue', verJob')
      BY <1>1, <2>1 DEF Held, Apart
    <2>3. UNCHANGED At
      BY <1>1, <2>2 DEF At
    <2> QED
      BY <1>1, <2>1, <2>2, <2>3 DEF Moves
  <1>5. CASE VerRespond
    <2>1. /\ verJob.stage # "idle" /\ verJob'.stage = "idle" /\ verQueue' = verQueue
          /\ verJob.client \in Clients /\ verJob.client \notin closed /\ closed' = closed
      BY <1>5 DEF VerRespond, Answerable, Send, NoJob, VerTypes
    <2>2. /\ Held(verQueue', verJob') = Held(verQueue, verJob) \ {verJob.client}
          /\ verJob.client \in Held(verQueue, verJob) /\ Apart(verQueue', verJob')
      BY <1>1, <2>1, HeldAnswered
    <2>3. /\ reply'[verJob.client].kind \in Understood["verifier"]
          /\ reply' = [reply EXCEPT ![verJob.client] = reply'[verJob.client]]
      <3> DEFINE r == IF verJob.stage = "failed" THEN [kind |-> "error"]
                      ELSE [kind |-> "verified", receipt |-> verJob.receipt]
      <3>1. Send(verJob.client, r) /\ r.kind \in {"verified", "error"}
        BY <1>5 DEF VerRespond
      <3> HIDE DEF r
      <3> QED
        BY <2>1, <3>1, Received, GivenAreUnderstood
    <2>4. Answers1("verifier", verJob.client)
      BY <1>1, <2>1, <2>2, <2>3 DEF Answers1
    <2> QED
      BY <1>1, <2>1, <2>2, <2>4 DEF Moves, Waiting
  <1>6. CASE VerBrokenPipe \/ VerCrash
    <2>1. /\ verQueue' = << >> /\ verJob' = NoJob /\ closed' = closed
          /\ ResetHeld(verQueue, verJob)
      BY <1>6 DEF VerBrokenPipe, VerCrash, VerDown
    <2>2. Held(verQueue', verJob') = {} /\ Apart(verQueue', verJob')
      BY <2>1, HeldDropped
    <2>3. Resets("verifier")
      BY <1>1, <2>1, <2>2 DEF Resets, ResetHeld
    <2> QED
      BY <1>1, <2>2, <2>3 DEF Moves, Waiting
  <1> QED
    BY <1>3, <1>4, <1>5, <1>6 DEF VerSteps

\* A client that acts has no call under way, and no answer but one to the call
\* it waits for.
LEMMA ActorsFree ==
    ASSUME ClientTypes, Kept, NEW c \in Clients, Acts(c)
    PROVE  /\ c \notin closed /\ Place(c) = {}
           /\ pc[c] \notin Waiting => reply = [reply EXCEPT ![c] = NoReply]
  <1>1. "ERROR" \notin Waiting /\ "idle" \notin Waiting
    BY DEF Waiting
  <1>2. c \notin closed /\ Place(c) = {} /\ (pc[c] \notin Waiting => reply[c] = NoReply)
    BY <1>1 DEF Acts, Kept
  <1> QED
    BY <1>2 DEF ClientTypes

\* A client calls a service, or finds it down.
LEMMA CallsMove ==
    ASSUME ClientTypes, GateInv, ExecInv, VerTypes, AllApart,
           NEW c \in Clients, Acts(c), Place(c) = {}, UNCHANGED closed,
           reply' = [reply EXCEPT ![c] = NoReply]
    PROVE  /\ (\E r, l : CallGate(c, r, l))
                 /\ UNCHANGED <<gateJob, execQueue, execJob, verQueue, verJob>>
                 => Moves /\ AllApart'
           /\ (\E r, p : CallExecutor(c, r, p))
                 /\ UNCHANGED <<gateQueue, gateJob, execJob, verQueue, verJob>>
                 => Moves /\ AllApart'
           /\ (\E r, p, q : CallVerifier(c, r, p, q))
                 /\ UNCHANGED <<gateQueue, gateJob, execQueue, execJob, verJob>>
                 => Moves /\ AllApart'
  <1>1. /\ DOMAIN At = Waiting /\ At["gate"] = Held(gateQueue, gateJob)
        /\ At["executor"] = Held(execQueue, execJob) /\ At["verifier"] = Held(verQueue, verJob)
        /\ c \notin At["gate"] /\ c \notin At["executor"] /\ c \notin At["verifier"]
    BY DEF At, HeldBy, Place, Waiting
  <1>2. ASSUME End(c, "ERROR"),
               UNCHANGED <<gateQueue, gateJob, execQueue, execJob, verQueue, verJob>>
        PROVE  Moves /\ AllApart'
    <2>1. UNCHANGED At /\ AllApart'
      BY <1>2 DEF At, HeldBy, Held, AllApart, Apart
    <2>2. IsDone(c)
      BY <1>2, <2>1 DEF IsDone, End, Statuses
    <2> QED
      BY <2>1, <2>2 DEF Moves
  <1>3. ASSUME NEW r, NEW l, CallGate(c, r, l),
               UNCHANGED <<gateJob, execQueue, execJob, verQueue, verJob>>
        PROVE  Moves /\ AllApart'
    <2>1. CASE ~ gateUp
      BY <1>2, <1>3, <2>1 DEF CallGate
    <2>2. CASE gateUp
      <3> DEFINE m == [client |-> c, request |-> r, lease |-> l]
      <3>1. gateQueue' = Append(gateQueue, m) /\ m.client = c /\ pc' = [pc EXCEPT ![c] = "gate"]
        BY <1>3, <2>2 DEF CallGate, End
      <3> HIDE DEF m
      <3>2. gateQueue \in Seq(GateMessages)
        BY DEF GateInv, GateTypes
      <3>3. /\ Held(gateQueue', gateJob') = Held(gateQueue, gateJob) \union {c}
            /\ Apart(gateQueue', gateJob')
        BY <1>1, <1>3, <3>1, <3>2, HeldCalled DEF AllApart
      <3>4. AllApart' /\ At' = [At EXCEPT !["gate"] = @ \union {c}]
        BY <1>1, <1>3, <3>3, OneService
      <3> QED
        BY <3>1, <3>4 DEF Moves, Calls, Waiting
    <2> QED
      BY <2>1, <2>2
  <1>4. ASSUME NEW r, NEW p, CallExecutor(c, r, p),
               UNCHANGED <<gateQueue, gateJob, execJob, verQueue, verJob>>
        PROVE  Moves /\ AllApart'
    <2>1. CASE ~ execUp
      BY <1>2, <1>4, <2>1 DEF CallExecutor
    <2>2. CASE execUp
      <3> DEFINE m == [client |-> c, request |-> r, permit |-> p]
      <3>1. execQueue' = Append(execQueue, m) /\ m.client = c /\ pc' = [pc EXCEPT ![c] = "executor"]
        BY <1>4, <2>2 DEF CallExecutor, End
      <3> HIDE DEF m
      <3>2. execQueue \in Seq(Presentable(permits, Requests))
        BY DEF ExecInv, ExecTypeOK
      <3>3. /\ Held(execQueue', execJob') = Held(execQueue, execJob) \union {c}
            /\ Apart(execQueue', execJob')
        BY <1>1, <1>4, <3>1, <3>2, HeldCalled DEF AllApart
      <3>4. AllApart' /\ At' = [At EXCEPT !["executor"] = @ \union {c}]
        BY <1>1, <1>4, <3>3, OneService
      <3> QED
        BY <3>1, <3>4 DEF Moves, Calls, Waiting
    <2> QED
      BY <2>1, <2>2
  <1>5. ASSUME NEW r, NEW p, NEW q, CallVerifier(c, r, p, q),
               UNCHANGED <<gateQueue, gateJob, execQueue, execJob, verJob>>
        PROVE  Moves /\ AllApart'
    <2>1. CASE ~ verUp
      BY <1>2, <1>5, <2>1 DEF CallVerifier
    <2>2. CASE verUp
      <3> DEFINE m == [client |-> c, request |-> r, permit |-> p, result |-> q]
      <3>1. verQueue' = Append(verQueue, m) /\ m.client = c /\ pc' = [pc EXCEPT ![c] = "verifier"]
        BY <1>5, <2>2 DEF CallVerifier, End
      <3> HIDE DEF m
      <3>2. verQueue \in Seq(VerMessages)
        BY DEF VerTypes
      <3>3. /\ Held(verQueue', verJob') = Held(verQueue, verJob) \union {c}
            /\ Apart(verQueue', verJob')
        BY <1>1, <1>5, <3>1, <3>2, HeldCalled DEF AllApart
      <3>4. AllApart' /\ At' = [At EXCEPT !["verifier"] = @ \union {c}]
        BY <1>1, <1>5, <3>3, OneService
      <3> QED
        BY <3>1, <3>4 DEF Moves, Calls, Waiting
    <2> QED
      BY <2>1, <2>2
  <1> QED
    BY <1>3, <1>4, <1>5

\* What a submission does next.
LEMMA ClientMoves ==
    ASSUME IInv, Kept, AllApart, NEW c \in Clients, ClientStep(c) \/ Start(c) \/ GiveUp(c)
    PROVE  Moves /\ AllApart'
  <1>1. ClientTypes /\ GateInv /\ ExecInv /\ VerTypes
    BY DEF IInv, ReceiptInv
  <1>2. NoReply.kind = "none"
    BY DEF NoReply
  <1>3. ASSUME UNCHANGED <<gateQueue, gateJob, execQueue, execJob, verQueue, verJob>>
        PROVE  UNCHANGED At /\ AllApart'
    BY <1>3 DEF At, HeldBy, Held, AllApart, Apart
  <1>4. CASE ClientStep(c)
    <2>1. Acts(c) /\ reply' = [reply EXCEPT ![c] = NoReply] /\ UNCHANGED closed
      BY <1>2, <1>4 DEF ClientStep, Proceed, NotExecuted, Execute, ExecutionRejected, Finalize,
           Verified, CallFails, TakeReply, Acts, Waiting
    <2>2. Place(c) = {}
      BY <1>1, <2>1, ActorsFree
    <2>3. CASE Execute(c)
      <3>1. CallExecutor(c, sub[c].request, reply[c].permit)
            /\ UNCHANGED <<gateQueue, gateJob, execJob, verQueue, verJob>>
        BY <2>3 DEF Execute, gateVars, verVars
      <3> QED
        BY <1>1, <2>1, <2>2, <3>1, CallsMove
    <2>4. CASE Finalize(c)
      <3>1. CallVerifier(c, sub[c].request, sub[c].permit, reply[c].result)
            /\ UNCHANGED <<gateQueue, gateJob, execQueue, execJob, verJob>>
        BY <2>4 DEF Finalize, gateVars, execVars
      <3> QED
        BY <1>1, <2>1, <2>2, <3>1, CallsMove
    <2>5. CASE NotExecuted(c) \/ ExecutionRejected(c) \/ Verified(c) \/ CallFails(c)
      <3>1. /\ \E status \in Statuses : pc' = [pc EXCEPT ![c] = status]
            /\ UNCHANGED <<gateQueue, gateJob, execQueue, execJob, verQueue, verJob>>
        BY <2>5 DEF NotExecuted, ExecutionRejected, Verified, CallFails, End, Statuses,
             gateVars, execVars, verVars
      <3>2. IsDone(c)
        BY <1>3, <2>1, <3>1 DEF IsDone
      <3> QED
        BY <1>3, <3>1, <3>2 DEF Moves
    <2> QED
      BY <1>4, <2>3, <2>4, <2>5 DEF ClientStep, Proceed
  <1>5. CASE Start(c)
    <2>1. pc[c] = "idle" /\ Acts(c) /\ UNCHANGED <<reply, closed>>
      BY <1>5 DEF Start, Submit, PresentDirectly, PresentResult, PlannerFails, transportVars, Acts
    <2>2. Place(c) = {} /\ reply' = [reply EXCEPT ![c] = NoReply]
      BY <1>1, <2>1, ActorsFree DEF Waiting
    <2>3. ASSUME NEW r, NEW l, Submit(c, r, l) PROVE Moves /\ AllApart'
      <3>1. CallGate(c, r, l) /\ UNCHANGED <<gateJob, execQueue, execJob, verQueue, verJob>>
        BY <2>3 DEF Submit, execVars, verVars
      <3> QED
        BY <1>1, <2>1, <2>2, <3>1, CallsMove
    <2>4. ASSUME NEW r, NEW p, PresentDirectly(c, r, p) PROVE Moves /\ AllApart'
      <3>1. CallExecutor(c, r, p) /\ UNCHANGED <<gateQueue, gateJob, execJob, verQueue, verJob>>
        BY <2>4 DEF PresentDirectly, gateVars, verVars
      <3> QED
        BY <1>1, <2>1, <2>2, <3>1, CallsMove
    <2>5. ASSUME NEW r, NEW p, NEW q, PresentResult(c, r, p, q) PROVE Moves /\ AllApart'
      <3>1. CallVerifier(c, r, p, q)
            /\ UNCHANGED <<gateQueue, gateJob, execQueue, execJob, verJob>>
        BY <2>5 DEF PresentResult, gateVars, execVars
      <3> QED
        BY <1>1, <2>1, <2>2, <3>1, CallsMove
    <2>6. ASSUME PlannerFails(c) PROVE Moves /\ AllApart'
      <3>1. /\ \E status \in Statuses : pc' = [pc EXCEPT ![c] = status]
            /\ UNCHANGED <<gateQueue, gateJob, execQueue, execJob, verQueue, verJob>>
        BY <2>6 DEF PlannerFails, End, Statuses, gateVars, execVars, verVars
      <3>2. IsDone(c)
        BY <1>3, <2>1, <2>2, <3>1 DEF IsDone
      <3> QED
        BY <1>3, <3>1, <3>2 DEF Moves
    <2> QED
      BY <1>5, <2>3, <2>4, <2>5, <2>6 DEF Start
  <1>6. CASE GiveUp(c)
    <2>1. /\ pc' = [pc EXCEPT ![c] = "ERROR"] /\ closed' = closed \union {c} /\ reply' = reply
          /\ UNCHANGED <<gateQueue, gateJob, execQueue, execJob, verQueue, verJob>>
      BY <1>6 DEF GiveUp, Abandon, End, gateVars, execVars, verVars
    <2>2. pc' = [d \in Clients |-> IF d \in {c} THEN "ERROR" ELSE pc[d]]
      BY <1>1, <2>1 DEF ClientTypes
    <2>3. Leave({c})
      BY <1>3, <2>1, <2>2 DEF Leave
    <2> QED
      BY <1>3, <2>1, <2>3 DEF Moves
  <1> QED
    BY <1>4, <1>5, <1>6

\* Every step leaves every call in its place.
LEMMA CallStep ==
    ASSUME IInv, CallInv, [Next]_vars PROVE CallInv'
  <1>1. ClientTypes /\ GateInv /\ ExecInv /\ VerTypes /\ Kept /\ AllApart
    BY KeptIs DEF IInv, ReceiptInv, CallInv
  <1>2. ASSUME UNCHANGED <<gateQueue, gateJob, execQueue, execJob, verQueue, verJob>>
        PROVE  UNCHANGED At /\ AllApart'
    BY <1>1, <1>2 DEF At, HeldBy, Held, AllApart, Apart
  <1>3. Moves /\ AllApart'
    <2>1. CASE GateStep
      <3>1. UNCHANGED <<execQueue, execJob, verQueue, verJob, pc>>
        BY <2>1 DEF GateStep, execVars, verVars, bridgeVars
      <3> QED
        BY <1>1, <2>1, <3>1, GateMoves DEF GateStep
    <2>2. CASE ExecStep
      <3>1. UNCHANGED <<gateQueue, gateJob, verQueue, verJob, pc>>
        BY <2>2 DEF ExecStep, gateVars, verVars, bridgeVars
      <3> QED
        BY <1>1, <2>2, <3>1, ExecMoves DEF ExecStep
    <2>3. CASE VerStep
      <3>1. UNCHANGED <<gateQueue, gateJob, execQueue, execJob, pc>>
        BY <2>3 DEF VerStep, gateVars, execVars, bridgeVars
      <3> QED
        BY <1>1, <2>3, <3>1, VerMoves DEF VerStep
    <2>4. CASE \E c \in Clients : ClientStep(c) \/ Start(c) \/ GiveUp(c)
      BY <1>1, <2>4, ClientMoves
    <2>5. CASE Crash \/ StorageFails
      <3>1. CASE (GateCrash \/ GateRedeemFails) /\ UNCHANGED <<execVars, verVars, bridgeVars>>
        BY <1>1, <3>1, GateMoves DEF execVars, verVars, bridgeVars
      <3>2. CASE (ExecCrash \/ ExecConsumeFails) /\ UNCHANGED <<gateVars, verVars, bridgeVars>>
        BY <1>1, <3>2, ExecMoves DEF gateVars, verVars, bridgeVars
      <3>3. CASE (VerCrash \/ VerSaveFails) /\ UNCHANGED <<gateVars, execVars, bridgeVars>>
        BY <1>1, <3>3, VerMoves DEF gateVars, execVars, bridgeVars
      <3> QED
        BY <2>5, <3>1, <3>2, <3>3 DEF Crash, StorageFails
    <2>6. CASE RestartBridge
      <3> DEFINE own == {c \in Clients : pc[c] \in Waiting /\ sub[c].by = "bridge"}
      <3>1. /\ pc' = [c \in Clients |-> IF c \in own THEN "ERROR" ELSE pc[c]]
            /\ closed' = closed \union own /\ reply' = reply
            /\ UNCHANGED <<gateQueue, gateJob, execQueue, execJob, verQueue, verJob>>
        BY <2>6 DEF RestartBridge, BridgeRestart, gateVars, execVars, verVars
      <3>2. own \in SUBSET Clients
        OBVIOUS
      <3> HIDE DEF own
      <3>3. Leave(own)
        BY <1>2, <3>1 DEF Leave
      <3> QED
        BY <1>2, <3>1, <3>2, <3>3 DEF Moves
    <2>7. CASE Approve \/ Tick \/ Restart \/ Edit \/ Finished \/ UNCHANGED vars
      <3>1. UNCHANGED <<gateQueue, gateJob, execQueue, execJob, verQueue, verJob,
                        reply, pc, closed>>
        BY <2>7 DEF Approve, Tick, Restart, Edit, Finished, vars, GateRestart, ExecRestart,
             VerRestart, EditRegistry, gateVars, execVars, verVars, bridgeVars, transportVars
      <3> QED
        BY <1>2, <3>1 DEF Moves
    <2> QED
      BY <2>1, <2>2, <2>3, <2>4, <2>5, <2>6, <2>7 DEF Next
  <1>4. Kept'
    BY <1>1, <1>3, MovesKeep
  <1> QED
    BY <1>3, <1>4, KeptIs DEF CallInv

\* No call is ever forgotten: while a client waits, its request is with the
\* service it waits for or an answer it goes on with is on its socket, through
\* every crash, refusal, broken pipe and retry.
THEOREM NoCallForgottenAlways == Spec => []NoCallForgotten
  <1>1. Init => CallInv
    <2> SUFFICES ASSUME Init PROVE CallInv
      OBVIOUS
    <2>1. /\ gateQueue = << >> /\ gateJob = NoJob /\ execQueue = << >> /\ execJob = NoJob
          /\ verQueue = << >> /\ verJob = NoJob
          /\ closed = {} /\ reply = [c \in Clients |-> NoReply] /\ pc = [c \in Clients |-> "idle"]
      BY DEF Init, TransportInit, GateInit, ExecInit, VerInit, BridgeInit
    <2>2. AllApart /\ \A s \in Waiting : HeldBy[s] = {}
      BY <2>1, HeldDropped DEF AllApart, HeldBy, Waiting
    <2> QED
      BY <2>1, <2>2 DEF CallInv, NoCallForgotten, Waiting
  <1>2. IInv /\ CallInv /\ [Next]_vars => CallInv'
    BY CallStep
  <1>3. CallInv => NoCallForgotten
    BY DEF CallInv
  <1> QED
    BY <1>1, <1>2, <1>3, Inductive, PTL DEF Spec

-----------------------------------------------------------------------------
(* The appliance implements GovernedExecution.                             *)

\* The refinement mapping of Promise.
Spent     == {row.envelope : row \in permitLedger}
Performed == [i \in DOMAIN attempts |-> attempts[i].permit]
Certified == {minted[n].permit : n \in DOMAIN minted}

\* The permits acted on, as the promise and as the appliance name them.
LEMMA ActedIs ==
    Promise!Acted = {attempts[i].permit : i \in DOMAIN attempts}
  BY DEF Promise!Acted

\* Consuming a permit spends it.
LEMMA ConsumeSpends ==
    ASSUME IInv, ExecConsume, UNCHANGED <<permits, minted>> PROVE Promise!Next
  <1> DEFINE permit == Head(execQueue).permit
  <1>1. PermitFault(permit, Head(execQueue).request, now) = "none"
        /\ Unused(permit) /\ attempts' = attempts
        /\ permitLedger' = permitLedger \union
               {[permit_id |-> permit.body.permit_id, envelope |-> permit, at |-> now]}
    BY DEF ExecConsume
  <1>2. permit \in permits
    <2>1. Head(execQueue) \in Presentable(permits, Requests)
      BY DEF ExecConsume, IInv, ExecInv, ExecTypeOK
    <2> QED
      BY <1>1, <2>1, PermitFaultNone DEF Presentable
  <1>3. \A other \in Spent : other.body.permit_id # permit.body.permit_id
    BY <1>1 DEF Spent, Unused, IInv, ExecInv, ExecSound, LedgerSound
  <1>4. Spent' = Spent \union {permit}
    <2> DEFINE row == [permit_id |-> permit.body.permit_id, envelope |-> permit, at |-> now]
    <2>1. permitLedger' = permitLedger \union {row} /\ row.envelope = permit
      BY <1>1
    <2> HIDE DEF row, permit
    <2> QED
      BY <2>1 DEF Spent
  <1>5. Performed' = Performed /\ Certified' = Certified
    BY <1>1 DEF Performed, Certified
  <1> QED
    BY <1>2, <1>3, <1>4, <1>5 DEF Promise!Next, Promise!Spend, Spent, Performed, Certified

\* Running the adapter performs a permit that was spent and not acted on.
LEMMA RunPerforms ==
    ASSUME IInv, ExecRun, UNCHANGED <<permits, minted>> PROVE Promise!Next
  <1>1. PICK attempt : attempts' = Append(attempts, attempt) /\ attempt.permit = execJob.permit
    BY DEF ExecRun
  <1>2. execJob.permit \in Spent
    BY DEF ExecRun, Spent, IInv, ExecInv, ExecSound, ExecJobSound
  <1>3. execJob.permit \notin Promise!Acted
    BY ActedIs DEF ExecRun, IInv, ExecInv, ExecSound, ExecJobSound
  <1>4. Performed' = Append(Performed, execJob.permit)
    <2>1. attempts \in Seq(Attempts(permits, Requests)) /\ Len(attempts) \in Nat
          /\ DOMAIN attempts = 1 .. Len(attempts)
      BY DEF IInv, ExecInv, ExecTypeOK
    <2>2. /\ DOMAIN attempts' = 1 .. Len(attempts) + 1
          /\ \A i \in 1 .. Len(attempts) : attempts'[i] = attempts[i]
          /\ attempts'[Len(attempts) + 1] = attempt
      BY <1>1, <2>1
    <2>3. Performed \in Seq(permits) /\ Len(Performed) = Len(attempts)
      <3>1. \A i \in 1 .. Len(attempts) : attempts[i].permit \in permits
        <4>1. \A a \in Attempts(permits, Requests) : a.permit \in permits
          BY DEF Attempts
        <4>2. \A i \in 1 .. Len(attempts) : attempts[i] \in Attempts(permits, Requests)
          BY <2>1
        <4> QED
          BY <4>1, <4>2
      <3>2. Performed \in [1 .. Len(attempts) -> permits]
        BY <2>1, <3>1 DEF Performed
      <3> QED
        BY <2>1, <3>2
    <2>4. /\ DOMAIN Performed' = 1 .. Len(attempts) + 1
          /\ Performed' = [i \in DOMAIN Performed' |-> Performed'[i]]
      BY <2>2 DEF Performed
    <2>5. execJob.permit \in permits
      BY DEF ExecRun, IInv, ExecInv, ExecTypeOK, NoJob
    <2>6. Append(Performed, execJob.permit) \in Seq(permits)
          /\ DOMAIN Append(Performed, execJob.permit) = 1 .. Len(attempts) + 1
      BY <2>1, <2>3, <2>5, AppendProperties
    <2>7. \A i \in 1 .. Len(attempts) + 1 : Performed'[i] = Append(Performed, execJob.permit)[i]
      BY <1>1, <2>1, <2>2, <2>3 DEF Performed
    <2>8. Append(Performed, execJob.permit)
            = [i \in 1 .. Len(attempts) + 1 |-> Append(Performed, execJob.permit)[i]]
      BY <2>6
    <2> QED
      BY <2>4, <2>7, <2>8
  <1>5. Spent' = Spent /\ Certified' = Certified
    BY DEF ExecRun, Spent, Certified
  <1> QED
    BY <1>2, <1>3, <1>4, <1>5 DEF Promise!Next, Promise!Perform, Spent, Performed, Certified

\* Signing a receipt certifies a permit that was acted on.
LEMMA SignCertifies ==
    ASSUME IInv, VerSign, UNCHANGED <<permits, permitLedger, attempts>> PROVE Promise!Next
  <1> DEFINE m == Head(verQueue)
  <1>1. m \in VerMessages /\ Finalizable(m)
        /\ minted' = Append(minted, CreateReceipt(m, chainFile.head))
    BY DEF VerSign, IInv, ReceiptInv, VerTypes
  <1>2. m.permit \in Promise!Acted
    BY <1>1, FinalizableProves, ActedIs
  <1>3. Certified' = Certified \union {m.permit}
    <2>1. minted \in Seq(Receipts) /\ Len(minted) \in Nat /\ DOMAIN minted = 1 .. Len(minted)
      BY DEF IInv, ReceiptInv, VerTypes
    <2>2. /\ DOMAIN minted' = 1 .. Len(minted) + 1
          /\ \A n \in 1 .. Len(minted) : minted'[n] = minted[n]
          /\ minted'[Len(minted) + 1].permit = m.permit
      <3>1. minted'[Len(minted) + 1] = CreateReceipt(m, chainFile.head)
        BY <1>1, <2>1
      <3> QED
        BY <1>1, <2>1, <3>1 DEF CreateReceipt
    <2> QED
      BY <2>1, <2>2 DEF Certified
  <1>4. Spent' = Spent /\ Performed' = Performed
    BY DEF Spent, Performed
  <1> QED
    BY <1>2, <1>3, <1>4 DEF Promise!Next, Promise!Certify, Spent, Performed, Certified

\* The appliance implements its abstract specification: each of its steps grants,
\* spends, performs or certifies a permit as promised, or changes nothing there.
THEOREM Implements == Spec => ImplementsGovernedExecution
  <1>1. Init => Promise!Init
    BY EmptySeq DEF Init, GateInit, ExecInit, VerInit, Promise!Init
  <1>2. IInv /\ [Next]_vars => [Promise!Next]_Promise!vars
    <2> SUFFICES ASSUME IInv, [Next]_vars
                 PROVE  Promise!Next \/ UNCHANGED Promise!vars
      OBVIOUS
    <2>1. CASE GateRespond /\ UNCHANGED <<permitLedger, attempts, minted>>
      BY <2>1 DEF GateRespond, Promise!Next, Promise!Grant, Promise!vars
    <2>2. CASE UNCHANGED <<permits, permitLedger, attempts, minted>>
      BY <2>2 DEF Promise!vars
    <2>3. CASE ExecStep
      <3>1. UNCHANGED <<permits, minted>>
        BY <2>3 DEF ExecStep, gateVars, verVars
      <3>2. CASE ~ ExecConsume /\ ~ ExecRun
        BY <2>2, <2>3, <3>1, <3>2 DEF ExecStep, ExecSteps, ExecRefuse, ExecRespond,
             ExecBrokenPipe, ExecDown
      <3> QED
        BY <2>3, <3>1, <3>2, ConsumeSpends, RunPerforms DEF ExecStep
    <2>4. CASE VerStep
      <3>1. UNCHANGED <<permits, permitLedger, attempts>>
        BY <2>4 DEF VerStep, gateVars, execVars
      <3>2. CASE ~ VerSign
        BY <2>2, <2>4, <3>1, <3>2 DEF VerStep, VerSteps, VerRefuse, VerTruncate, VerSave,
             VerRespond, VerBrokenPipe, VerDown
      <3> QED
        BY <2>4, <3>1, <3>2, SignCertifies DEF VerStep
    <2>5. CASE GateStep
      BY <2>1, <2>2, <2>5 DEF GateStep, GateSteps, GateEvaluate, GateRedeem, GateBrokenPipe,
           GateDown, GateRespond, execVars, verVars
    <2>6. CASE Approve \/ Tick \/ Crash \/ StorageFails \/ RestartBridge \/ Restart \/ Edit
               \/ Finished \/ UNCHANGED vars
      <3>1. UNCHANGED <<permits, permitLedger, attempts, minted>>
        BY <2>6 DEF Approve, Tick, Crash, StorageFails, RestartBridge, BridgeRestart, Restart,
             Edit, Finished, vars, GateRedeemFails, ExecConsumeFails, VerSaveFails, GateCrash, GateDown, ExecCrash, ExecDown, VerCrash, VerDown, GateRestart,
             ExecRestart, VerRestart, EditRegistry, gateVars, execVars, verVars
      <3> QED
        BY <2>2, <3>1
    <2>7. ASSUME NEW c \in Clients, ClientStep(c) \/ Start(c) \/ GiveUp(c)
          PROVE  UNCHANGED <<permits, permitLedger, attempts, minted>>
      BY <2>7 DEF ClientStep, Start, GiveUp, Proceed, NotExecuted, Execute, ExecutionRejected,
           Finalize, Verified, CallFails, Abandon, Submit, PresentDirectly, PresentResult,
           PlannerFails, gateVars, execVars, verVars
    <2> QED
      BY <2>2, <2>3, <2>4, <2>5, <2>6, <2>7 DEF Next
  <1> QED
    BY <1>1, <1>2, Inductive, PTL DEF Spec, ImplementsGovernedExecution, Promise!Spec

=============================================================================
