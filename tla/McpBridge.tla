----------------------------- MODULE McpBridge -----------------------------
(***************************************************************************)
(* The clients of the appliance: HarborMCPBridge.submit_action_request,    *)
(* which takes one request through planner, gate, executor and verifier,   *)
(* and direct callers of executor and verifier (the appliance demo, an     *)
(* operator who retries after a lost answer).  Every client makes one      *)
(* submission; a retry is another client with the same request.  The       *)
(* planner is stateless and returns the intent as the request, so its call *)
(* is the part of Submit that may fail.                                    *)
(***************************************************************************)
EXTENDS GateService, ExecutorService, VerifierService

VARIABLES
    pc,              \* the service a submission waits for, or its status
    sub,             \* what a submission holds: by whom it was made, request,
                     \* permit, result...
    receiptLog,      \* FinalizedReceiptLog: receipts in the order appended
    bridgeRegistry   \* the registry the bridge process loaded for its dry runs

bridgeStore == <<receiptLog, bridgeRegistry>>
bridgeVars == <<pc, sub, bridgeStore>>

Waiting == {"gate", "executor", "verifier"}
Statuses == {"NOT_EXECUTED", "EXECUTION_REJECTED", "VERIFIED", "ERROR"}

BridgeInit(registry) ==
    /\ pc = [c \in Clients |-> "idle"]
    /\ sub = [c \in Clients |-> << >>]
    /\ receiptLog = << >>
    /\ bridgeRegistry = registry

End(c, status) == pc' = [pc EXCEPT ![c] = status]

\* What the submission learns is added to what it holds.
Learn(c, more) ==
    sub' = [sub EXCEPT ![c] =
               [field \in DOMAIN more \union DOMAIN sub[c] |->
                   IF field \in DOMAIN more THEN more[field] ELSE sub[c][field]]]

\* The answer is taken off the socket and the call is over.
TakeReply(c) == reply' = [reply EXCEPT ![c] = NoReply]

\* UnixJsonClient.call on the gate, or ConnectionRefusedError when it is down.
CallGate(c, request, lease) ==
    IF gateUp
    THEN /\ End(c, "gate")
         /\ gateQueue' = Append(gateQueue, [client |-> c, request |-> request, lease |-> lease])
    ELSE End(c, "ERROR") /\ UNCHANGED gateQueue

CallExecutor(c, request, permit) ==
    IF execUp
    THEN /\ End(c, "executor")
         /\ execQueue' = Append(execQueue, [client |-> c, request |-> request, permit |-> permit])
    ELSE End(c, "ERROR") /\ UNCHANGED execQueue

CallVerifier(c, request, permit, result) ==
    IF verUp
    THEN /\ End(c, "verifier")
         /\ verQueue' = Append(verQueue, [client |-> c, request |-> request,
                                          permit |-> permit, result |-> result])
    ELSE End(c, "ERROR") /\ UNCHANGED verQueue

-----------------------------------------------------------------------------
\* submit_action_request up to the call of the gate.
Submit(c, request, lease) ==
    /\ pc[c] = "idle"
    /\ CallGate(c, request, lease)
    /\ Learn(c, [by |-> "bridge", request |-> request])
    /\ UNCHANGED <<bridgeStore, registryFile, gateRegistry, gateUp, gateJob, leaseLedger,
                   permits, policySince, execVars, verVars, transportVars>>

\* The planner does not answer, or answers with an error: no "request" key.
PlannerFails(c) ==
    /\ pc[c] = "idle"
    /\ End(c, "ERROR")
    /\ UNCHANGED <<sub, bridgeStore, gateVars, execVars, verVars, transportVars>>

\* A caller of its own presents a request and a permit, or none, to the
\* executor.
PresentDirectly(c, request, permit) ==
    /\ pc[c] = "idle"
    /\ CallExecutor(c, request, permit)
    /\ Learn(c, [by |-> "caller", request |-> request, permit |-> permit])
    /\ UNCHANGED <<bridgeStore, gateVars, execUp, execJob, permitLedger, attempts, verVars,
                   transportVars>>

\* A caller of its own asks the verifier for a receipt, for instance again
\* after a lost answer.
PresentResult(c, request, permit, result) ==
    /\ pc[c] = "idle"
    /\ CallVerifier(c, request, permit, result)
    /\ Learn(c, [by |-> "caller", request |-> request, permit |-> permit, result |-> result])
    /\ UNCHANGED <<bridgeStore, gateVars, execVars, verUp, verJob, chainFile, minted,
                   transportVars>>

\* The gate's decision is not ALLOW.
NotExecuted(c) ==
    /\ pc[c] = "gate" /\ reply[c].kind = "verdict"
    /\ End(c, "NOT_EXECUTED")
    /\ Learn(c, [base |-> reply[c].base])
    /\ TakeReply(c)
    /\ UNCHANGED <<bridgeStore, gateVars, execVars, verVars, now, closed>>

\* The permit is passed on to the executor.
Execute(c) ==
    /\ pc[c] = "gate" /\ reply[c].kind = "permit"
    /\ CallExecutor(c, sub[c].request, reply[c].permit)
    /\ Learn(c, [permit |-> reply[c].permit])
    /\ TakeReply(c)
    /\ UNCHANGED <<bridgeStore, gateVars, execUp, execJob, permitLedger, attempts, verVars,
                   now, closed>>

\* executed is not True in the executor's answer.
ExecutionRejected(c) ==
    /\ pc[c] = "executor" /\ reply[c].kind = "refused"
    /\ End(c, "EXECUTION_REJECTED")
    /\ TakeReply(c)
    /\ UNCHANGED <<sub, bridgeStore, gateVars, execVars, verVars, now, closed>>

\* The signed result is passed on to the verifier.
Finalize(c) ==
    /\ pc[c] = "executor" /\ reply[c].kind = "executed"
    /\ CallVerifier(c, sub[c].request, sub[c].permit, reply[c].result)
    /\ Learn(c, [result |-> reply[c].result])
    /\ TakeReply(c)
    /\ UNCHANGED <<bridgeStore, gateVars, execVars, verUp, verJob, chainFile, minted,
                   now, closed>>

\* verified is True: the bridge appends the receipt to its log and returns it.
Verified(c) ==
    /\ pc[c] = "verifier" /\ reply[c].kind = "verified"
    /\ End(c, "VERIFIED")
    /\ Learn(c, [receipt |-> reply[c].receipt])
    /\ receiptLog' = IF sub[c].by = "bridge" THEN Append(receiptLog, reply[c].receipt)
                                             ELSE receiptLog
    /\ TakeReply(c)
    /\ UNCHANGED <<bridgeRegistry, gateVars, execVars, verVars, now, closed>>

\* The connection was reset, or the verifier answered with an error.
CallFails(c) ==
    /\ pc[c] \in Waiting /\ reply[c].kind \in {"reset", "error"}
    /\ End(c, "ERROR")
    /\ TakeReply(c)
    /\ UNCHANGED <<sub, bridgeStore, gateVars, execVars, verVars, now, closed>>

\* Mutant: the socket stays open when the call times out.
AbandonOpen(c) ==
    /\ pc[c] \in Waiting
    /\ End(c, "ERROR")
    /\ UNCHANGED <<sub, bridgeStore, gateVars, execVars, verVars, transportVars>>

\* The client's socket timeout, or the death of the client: the submission is
\* over, its socket is closed, the request it sent stays where it is.
Abandon(c) ==
    /\ pc[c] \in Waiting
    /\ End(c, "ERROR")
    /\ closed' = closed \union {c}
    /\ UNCHANGED <<sub, bridgeStore, gateVars, execVars, verVars, now, reply>>

\* The bridge process ends, and with it its calls; a new one reads the registry
\* file, once.
BridgeRestart ==
    LET own == {c \in Clients : pc[c] \in Waiting /\ sub[c].by = "bridge"}
    IN  /\ pc' = [c \in Clients |-> IF c \in own THEN "ERROR" ELSE pc[c]]
        /\ closed' = closed \union own
        /\ bridgeRegistry' = registryFile
        /\ UNCHANGED <<sub, receiptLog, gateVars, execVars, verVars, now, reply>>

\* check_capability: a dry run of the gate on the bridge's registry.
CheckCapability(request) == Evaluate(request, bridgeRegistry)

\* The step a submission takes on the answer it waits for.
Proceed(c) ==
    \/ NotExecuted(c) \/ Execute(c) \/ ExecutionRejected(c)
    \/ Finalize(c) \/ Verified(c) \/ CallFails(c)

=============================================================================
