---------------------------- MODULE GateService ----------------------------
(***************************************************************************)
(* The gate process (gate_handler): evaluation of a request against the    *)
(* registry loaded at start, one-shot redemption of a signed review lease  *)
(* (SignedReview) and issue of an execution permit.                        *)
(*                                                                         *)
(* A request takes two steps: decide (evaluate, and redeem the lease in a  *)
(* committed SQLite transaction), then sign the permit with a second       *)
(* reading of the clock and answer.  Between them the process may die.     *)
(***************************************************************************)
EXTENDS ReviewSigner, CapabilityGate, SignedReview

CONSTANT PermitTTL         \* permit_ttl_seconds, in ticks

ASSUME GateAssumption == PermitTTL \in Nat \ {0}

VARIABLES
    registryFile,    \* the registry file on disk, edited by the operator
    gateRegistry,    \* the registry the running gate process loaded
    gateUp, gateQueue, gateJob,
    permits,         \* execution permits the gate has answered with
    policySince      \* history: when the gate loaded its registry

gateVars == <<registryFile, gateRegistry, gateUp, gateQueue, gateJob, leaseLedger,
              permits, policySince>>

GateInit(registry) ==
    /\ registryFile = registry
    /\ gateRegistry = registry
    /\ gateUp = TRUE
    /\ gateQueue = << >>
    /\ gateJob = NoJob
    /\ leaseLedger = {}
    /\ permits = {}
    /\ policySince = 0

-----------------------------------------------------------------------------
\* authorize, without a lease to redeem or with one that is refused: the base
\* decision stands.  A lease sent with an ALLOW or DENY is not looked at.
GateEvaluate ==
    /\ gateUp /\ gateJob = NoJob /\ gateQueue # << >>
    /\ LET m == Head(gateQueue)
           base == Evaluate(m.request, gateRegistry)
       IN  /\ ~ (m.lease # NoLease /\ Redeemable(m.lease, m.request, base, now))
           /\ gateJob' = [stage |-> "decided", client |-> m.client, request |-> m.request,
                          base |-> base, verdict |-> base.verdict, lease |-> NoLease]
    /\ gateQueue' = Tail(gateQueue)
    /\ UNCHANGED <<registryFile, gateRegistry, gateUp, leaseLedger, permits, policySince,
                   transportVars>>

\* authorize, with a REVIEW decision and a lease that is redeemed: the row is
\* committed before any permit exists.
GateRedeem ==
    /\ gateUp /\ gateJob = NoJob /\ gateQueue # << >>
    /\ LET m == Head(gateQueue)
           base == Evaluate(m.request, gateRegistry)
       IN  /\ m.lease # NoLease /\ Redeemable(m.lease, m.request, base, now)
           /\ Consume(m.lease, now)
           /\ gateJob' = [stage |-> "decided", client |-> m.client, request |-> m.request,
                          base |-> base, verdict |-> "ALLOW", lease |-> m.lease]
    /\ gateQueue' = Tail(gateQueue)
    /\ UNCHANGED <<registryFile, gateRegistry, gateUp, permits, policySince, transportVars>>

\* authorize raises: SQLite fails in the insertion for an acceptable lease
\* (locked, disk full), and the row is rolled back.
GateRedeemFails ==
    /\ gateUp /\ gateJob = NoJob /\ gateQueue # << >>
    /\ LET m == Head(gateQueue)
       IN  /\ m.lease # NoLease
           /\ Acceptable(m.lease, m.request, Evaluate(m.request, gateRegistry), now)
           /\ gateJob' = [stage |-> "failed", client |-> m.client]
    /\ gateQueue' = Tail(gateQueue)
    /\ UNCHANGED <<registryFile, gateRegistry, gateUp, leaseLedger, permits, policySince,
                   transportVars>>

\* issue_execution_permit.  The default permit id is the request id and the
\* second of issue; the lease, if one was redeemed, is named in the grants.
IssueExecutionPermit(job, t) ==
    SignPayload("execution_permit", "gate",
        [permit_id |-> <<job.request.id, Second(t)>>, request |-> job.request,
         gate_verdict |-> job.verdict, authority_effect |-> "EXECUTION_ONCE",
         matched_grant_ids |-> job.base.matched_grant_ids, lease |-> job.lease,
         registry_version |-> gateRegistry.version,
         issued_at |-> t, expires_at |-> t + PermitTTL])

\* The answer carries a permit exactly when the decision is ALLOW; an exception
\* is answered ok = False.
GateRespond ==
    /\ gateUp /\ gateJob.stage \in {"decided", "failed"}
    /\ \/ /\ gateJob.stage = "decided" /\ gateJob.verdict = "ALLOW"
          /\ LET permit == IssueExecutionPermit(gateJob, now)
             IN  /\ Send(gateJob.client, [kind |-> "permit", permit |-> permit])
                 /\ permits' = permits \union {permit}
       \/ /\ gateJob.stage = "decided" /\ gateJob.verdict # "ALLOW"
          /\ Send(gateJob.client, [kind |-> "verdict", base |-> gateJob.base])
          /\ UNCHANGED permits
       \/ /\ gateJob.stage = "failed"
          /\ Send(gateJob.client, [kind |-> "error"])
          /\ UNCHANGED permits
    /\ gateJob' = NoJob
    /\ UNCHANGED <<registryFile, gateRegistry, gateUp, gateQueue, leaseLedger, policySince,
                   now, closed>>

-----------------------------------------------------------------------------
(* The end of the process and a new one; the operator's edits.             *)

GateDown ==
    /\ gateUp' = FALSE
    /\ gateJob' = NoJob
    /\ gateQueue' = << >>
    /\ ResetHeld(gateQueue, gateJob)
    /\ UNCHANGED <<registryFile, gateRegistry, leaseLedger, permits, policySince, now, closed>>

\* The answer to a client that closed its socket: a permit it carried is lost.
GateBrokenPipe ==
    /\ gateUp /\ gateJob.stage \in {"decided", "failed"} /\ gateJob.client \in closed
    /\ GateDown

GateCrash == gateUp /\ GateDown

\* run_service: the registry is read once, here.
GateRestart ==
    /\ ~ gateUp
    /\ gateUp' = TRUE
    /\ gateRegistry' = registryFile
    /\ policySince' = now
    /\ UNCHANGED <<registryFile, gateQueue, gateJob, leaseLedger, permits, transportVars>>

EditRegistry(registry) ==
    /\ registryFile' = registry
    /\ UNCHANGED <<gateRegistry, gateUp, gateQueue, gateJob, leaseLedger, permits,
                   policySince, transportVars>>

GateSteps == GateEvaluate \/ GateRedeem \/ GateRespond \/ GateBrokenPipe
GateFaults == GateCrash \/ GateRestart \/ GateRedeemFails

=============================================================================
