-------------------------- MODULE ExecutorService --------------------------
(***************************************************************************)
(* The executor process (executor_handler) with its permit replay ledger   *)
(* (ExecutionPermitLedger, verify_and_consume_execution_permit).           *)
(*                                                                         *)
(* One request is handled at a time, in four steps between which time      *)
(* passes, clients give up and the process may die: verify the permit and  *)
(* consume it (one committed SQLite transaction), run the adapter, sign    *)
(* the result and answer.  Only the ledger survives the process.           *)
(***************************************************************************)
EXTENDS Transport, Envelopes

VARIABLES
    execUp,          \* the process runs and its socket is bound
    execQueue,       \* connections waiting in the listen backlog
    execJob,         \* the request being handled
    permitLedger,    \* execution_permit_use rows [permit_id, envelope, at]
    attempts         \* calls of executor.execute, in the order made

execVars == <<execUp, execQueue, execJob, permitLedger, attempts>>

NoPermit == [type |-> "absent"]
Outcomes == {"SUCCEEDED", "FAILED"}

ExecInit ==
    /\ execUp = TRUE
    /\ execQueue = << >>
    /\ execJob = NoJob
    /\ permitLedger = {}
    /\ attempts = << >>

-----------------------------------------------------------------------------
(* Verification and consumption of a permit.                               *)

\* Mutants: the expiry bound is inclusive; the digest is not compared; the
\* ledger's key is the envelope hash alone; the INSERT replaces a row.
ExpiredInclusive(permit, t) == t > permit.body.expires_at
BindsAnyRequest(permit, request) == request.id = permit.body.request.id
UnusedByEnvelope(permit) ==
    \A row \in permitLedger : row.envelope # permit
UnusedIgnored(permit) == permit.body.permit_id = permit.body.permit_id

\* The permit's window is half open: its expiry instant is already outside.
Expired(permit, t) == t >= permit.body.expires_at

\* Equality of request digests, and of the five fields compared after it.
Binds(permit, request) == request = permit.body.request

\* The checks of verify_and_consume_execution_permit before the ledger, in the
\* code's order: why the permit is refused, or "none".
PermitFault(permit, request, t) ==
    IF permit = NoPermit THEN "signed_execution_permit_required"
    ELSE IF ~ VerifyEnvelope(permit, ExecutorTrust,
                "execution_permit_issuer", "execution_permit") THEN "permit_unverified"
    ELSE IF permit.body.authority_effect # "EXECUTION_ONCE" THEN "permit_authority_invalid"
    ELSE IF permit.body.gate_verdict # "ALLOW" THEN "permit_gate_not_allow"
    ELSE IF t < permit.body.issued_at THEN "permit_not_yet_valid"
    ELSE IF Expired(permit, t) THEN "permit_expired"
    ELSE IF ~ Binds(permit, request) THEN "permit_request_digest_mismatch"
    ELSE "none"

\* The INSERT succeeds: permit_id is the primary key, envelope_hash is UNIQUE.
Unused(permit) ==
    \A row \in permitLedger :
        row.permit_id # permit.body.permit_id /\ row.envelope # permit

\* The handler is called with the request at the head of the backlog and the
\* permit is consumed.
ExecConsume ==
    /\ execUp /\ execJob = NoJob /\ execQueue # << >>
    /\ LET m == Head(execQueue)
       IN  /\ PermitFault(m.permit, m.request, now) = "none"
           /\ Unused(m.permit)
           /\ permitLedger' = permitLedger \union
                  {[permit_id |-> m.permit.body.permit_id, envelope |-> m.permit, at |-> now]}
           /\ execJob' = [stage |-> "authorized", client |-> m.client,
                          request |-> m.request, permit |-> m.permit]
    /\ execQueue' = Tail(execQueue)
    /\ UNCHANGED <<execUp, attempts, transportVars>>

\* The handler refuses: no permit at all (an exception, answered ok = False), a
\* failed check, or a row of the ledger in the way.
ExecRefuse ==
    /\ execUp /\ execJob = NoJob /\ execQueue # << >>
    /\ LET m == Head(execQueue)
           fault == PermitFault(m.permit, m.request, now)
       IN  /\ fault = "none" => ~ Unused(m.permit)
           /\ execJob' = [stage |-> "refused", client |-> m.client, permit |-> m.permit,
                          reason |-> IF fault = "none" THEN "permit_already_used" ELSE fault]
    /\ execQueue' = Tail(execQueue)
    /\ UNCHANGED <<execUp, permitLedger, attempts, transportVars>>

\* Any other error of SQLite (locked, disk full) is rolled back and raised: the
\* accept loop answers ok = False.
ExecConsumeFails ==
    /\ execUp /\ execJob = NoJob /\ execQueue # << >>
    /\ LET m == Head(execQueue)
       IN  /\ PermitFault(m.permit, m.request, now) = "none"
           /\ execJob' = [stage |-> "refused", client |-> m.client, permit |-> m.permit,
                          reason |-> "ledger_error"]
    /\ execQueue' = Tail(execQueue)
    /\ UNCHANGED <<execUp, permitLedger, attempts, transportVars>>

-----------------------------------------------------------------------------
(* Execution and answer.                                                   *)

\* Mutant: what the adapter raises is passed on as the outcome.
ExecRunRaw ==
    /\ execUp /\ execJob.stage = "authorized"
    /\ \E outcome \in {"SUCCEEDED", "RuntimeError"} :
          /\ attempts' = Append(attempts, [permit |-> execJob.permit,
                                           request |-> execJob.request,
                                           outcome |-> outcome])
          /\ execJob' = [stage |-> "executed", client |-> execJob.client,
                         request |-> execJob.request, permit |-> execJob.permit,
                         outcome |-> outcome]
    /\ UNCHANGED <<execUp, execQueue, permitLedger, transportVars>>

\* The adapter runs; any exception it raises becomes outcome FAILED.
ExecRun ==
    /\ execUp /\ execJob.stage = "authorized"
    /\ \E outcome \in Outcomes :
          /\ attempts' = Append(attempts, [permit |-> execJob.permit,
                                           request |-> execJob.request,
                                           outcome |-> outcome])
          /\ execJob' = [stage |-> "executed", client |-> execJob.client,
                         request |-> execJob.request, permit |-> execJob.permit,
                         outcome |-> outcome]
    /\ UNCHANGED <<execUp, execQueue, permitLedger, transportVars>>

\* sign_execution_result.
SignExecutionResult(job, t) ==
    SignPayload("execution_result", "executor",
        [permit |-> job.permit, request |-> job.request,
         outcome |-> job.outcome, executed_at |-> t])

ExecReply(job, t) ==
    IF job.stage = "executed"
    THEN [kind |-> "executed", result |-> SignExecutionResult(job, t)]
    ELSE [kind |-> "refused", reason |-> job.reason]

ExecRespond ==
    /\ execUp /\ execJob.stage \in {"executed", "refused"}
    /\ Send(execJob.client, ExecReply(execJob, now))
    /\ execJob' = NoJob
    /\ UNCHANGED <<execUp, execQueue, permitLedger, attempts, now, closed>>

-----------------------------------------------------------------------------
(* The end of the process and a new one.                                   *)

ExecDown ==
    /\ execUp' = FALSE
    /\ execJob' = NoJob
    /\ execQueue' = << >>
    /\ ResetHeld(execQueue, execJob)
    /\ UNCHANGED <<permitLedger, attempts, now, closed>>

\* sendall to a client that closed its socket: the accept loop is left.
ExecBrokenPipe ==
    /\ execUp /\ execJob.stage \in {"executed", "refused"}
    /\ execJob.client \in closed
    /\ ExecDown

\* A crash, a kill or the shutdown operation, at any moment.
ExecCrash == execUp /\ ExecDown

\* run_service: the ledger is reopened, the socket is bound again.
ExecRestart ==
    /\ ~ execUp
    /\ execUp' = TRUE
    /\ UNCHANGED <<execQueue, execJob, permitLedger, attempts, transportVars>>

ExecSteps == ExecConsume \/ ExecRefuse \/ ExecRun \/ ExecRespond \/ ExecBrokenPipe
ExecFaults == ExecCrash \/ ExecRestart \/ ExecConsumeFails

-----------------------------------------------------------------------------
(* Properties of the executor, whoever its clients are.                    *)

\* Two calls of executor.execute never carry the same permit id: one permit,
\* one attempt, across crashes, retries and concurrent presentations
\* (consume-before-execute in executor_handler).
OneAttemptPerPermit ==
    \A i, j \in DOMAIN attempts :
        attempts[i].permit.body.permit_id = attempts[j].permit.body.permit_id => i = j

\* What runs is what the gate signed: a permit under the gate's key for exactly
\* the request that ran, consumed at a time inside the permit's window, its row
\* in the ledger before the attempt.
AttemptsWerePermitted ==
    \A i \in DOMAIN attempts :
        LET p == attempts[i].permit
        IN  /\ p.intact /\ p.key = "gate" /\ p.type = "execution_permit"
            /\ p.body.request = attempts[i].request
            /\ \E row \in permitLedger :
                  /\ row.envelope = p
                  /\ p.body.issued_at <= row.at
                  /\ row.at < p.body.expires_at

-----------------------------------------------------------------------------
(* The types of the executor's variables, given the permits and requests   *)
(* that may be presented, and the inductive invariant behind the two       *)
(* properties.                                                             *)

Refusals ==
    {"signed_execution_permit_required", "permit_unverified", "permit_authority_invalid",
     "permit_gate_not_allow", "permit_not_yet_valid", "permit_expired",
     "permit_request_digest_mismatch", "permit_already_used", "ledger_error"}

Presentable(ps, rs) == [client : Clients, request : rs, permit : ps \union {NoPermit}]
Rows(ps) == [permit_id : {p.body.permit_id : p \in ps}, envelope : ps, at : Nat]
Attempts(ps, rs) == [permit : ps, request : rs, outcome : Outcomes]

ExecTypeOK(ps, rs) ==
    /\ execUp \in BOOLEAN
    /\ execQueue \in Seq(Presentable(ps, rs))
    /\ execJob \in {NoJob}
         \union [stage : {"authorized"}, client : Clients, request : rs, permit : ps]
         \union [stage : {"refused"}, client : Clients,
                 permit : ps \union {NoPermit}, reason : Refusals]
         \union [stage : {"executed"}, client : Clients, request : rs, permit : ps,
                 outcome : Outcomes]
    /\ permitLedger \subseteq Rows(ps)
    /\ attempts \in Seq(Attempts(ps, rs))

\* A ledger row records the consumption of a permit that verifies, inside its
\* window, under its own id; no two rows share an id.
LedgerSound ==
    /\ \A row \in permitLedger :
          /\ row.permit_id = row.envelope.body.permit_id
          /\ row.envelope.intact
          /\ row.envelope.key = "gate" /\ row.envelope.type = "execution_permit"
          /\ row.envelope.body.issued_at <= row.at
          /\ row.at < row.envelope.body.expires_at
    /\ \A r1, r2 \in permitLedger : r1.permit_id = r2.permit_id => r1 = r2

\* The attempt a handler is about to make is backed by a row and was not made;
\* the attempt it just made is on record.
ExecJobSound ==
    /\ execJob.stage = "authorized" =>
          /\ execJob.permit.body.request = execJob.request
          /\ \E row \in permitLedger : row.envelope = execJob.permit
          /\ \A i \in DOMAIN attempts :
                attempts[i].permit.body.permit_id # execJob.permit.body.permit_id
    /\ execJob.stage = "executed" =>
          \E i \in DOMAIN attempts :
              attempts[i] = [permit |-> execJob.permit, request |-> execJob.request,
                             outcome |-> execJob.outcome]

\* Every attempt already made is backed by a row.
AttemptsSound ==
    \A i \in DOMAIN attempts :
        /\ attempts[i].permit.body.request = attempts[i].request
        /\ \E row \in permitLedger : row.envelope = attempts[i].permit

ExecSound == LedgerSound /\ ExecJobSound /\ AttemptsSound /\ OneAttemptPerPermit

=============================================================================
