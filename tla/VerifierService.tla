-------------------------- MODULE VerifierService --------------------------
(***************************************************************************)
(* The verifier process (verifier_handler, final_receipt_from_appliance):  *)
(* it checks a permit and an execution result, signs a final receipt       *)
(* chained to the previous one, and keeps the head of the chain in a file. *)
(*                                                                         *)
(* The file is rewritten in place by Path.write_text, which truncates it   *)
(* before it writes: a process that dies in between leaves a file that is  *)
(* not JSON, and load_chain raises on it from then on.  A receipt is       *)
(* identified by its place in `minted`, the hash link to its predecessor   *)
(* by that predecessor's place.                                            *)
(***************************************************************************)
EXTENDS Transport, Envelopes

VARIABLES
    verUp, verQueue, verJob,
    chainFile,       \* [torn, head]: head is the receipt it names, 0 for no file
    minted           \* receipts signed so far, delivered or not

verVars == <<verUp, verQueue, verJob, chainFile, minted>>

VerInit ==
    /\ verUp = TRUE
    /\ verQueue = << >>
    /\ verJob = NoJob
    /\ chainFile = [torn |-> FALSE, head |-> 0]
    /\ minted = << >>

\* verify_execution_result: signed by the executor, for this permit (hash and
\* id) and for this request.
ResultProves(result, permit, request) ==
    /\ VerifyEnvelope(result, VerifierTrust, "executor_result_signer", "execution_result")
    /\ result.body.permit = permit
    /\ result.body.request = request
    /\ result.body.outcome \in {"SUCCEEDED", "FAILED"}

\* load_chain reads the file, and final_receipt_from_appliance accepts.
Finalizable(m) ==
    /\ ~ chainFile.torn
    /\ VerifyEnvelope(m.permit, VerifierTrust, "execution_permit_issuer", "execution_permit")
    /\ ResultProves(m.result, m.permit, m.request)

\* Mutant: whatever was executed is reported as a success.
CreateReceiptOptimistic(m, previous) ==
    [prev |-> previous, permit |-> m.permit, request |-> m.request, outcome |-> "SUCCEEDED"]

\* create_receipt: the outcome is the one the executor signed.
CreateReceipt(m, previous) ==
    [prev |-> previous, permit |-> m.permit, request |-> m.request,
     outcome |-> m.result.body.outcome]

\* The receipt is created and signed, chained to the head just loaded.
VerSign ==
    /\ verUp /\ verJob = NoJob /\ verQueue # << >>
    /\ LET m == Head(verQueue)
       IN  /\ Finalizable(m)
           /\ minted' = Append(minted, CreateReceipt(m, chainFile.head))
           /\ verJob' = [stage |-> "signed", client |-> m.client, receipt |-> Len(minted) + 1]
    /\ verQueue' = Tail(verQueue)
    /\ UNCHANGED <<verUp, chainFile, transportVars>>

\* Mutant: a request that cannot be finalized goes to the back of the queue.
VerRefuseRequeue ==
    /\ verUp /\ verJob = NoJob /\ verQueue # << >>
    /\ ~ Finalizable(Head(verQueue))
    /\ verQueue' = Append(Tail(verQueue), Head(verQueue))
    /\ UNCHANGED <<verUp, verJob, chainFile, minted, transportVars>>

\* The handler raises: the accept loop answers ok = False.
VerRefuse ==
    /\ verUp /\ verJob = NoJob /\ verQueue # << >>
    /\ ~ Finalizable(Head(verQueue))
    /\ verJob' = [stage |-> "failed", client |-> Head(verQueue).client]
    /\ verQueue' = Tail(verQueue)
    /\ UNCHANGED <<verUp, chainFile, minted, transportVars>>

\* save_chain: the file is opened for writing, which empties it, ...
VerTruncate ==
    /\ verUp /\ verJob.stage = "signed"
    /\ chainFile' = [torn |-> TRUE, head |-> 0]
    /\ verJob' = [verJob EXCEPT !.stage = "saving"]
    /\ UNCHANGED <<verUp, verQueue, minted, transportVars>>

\* Mutant: the head is the number of the next receipt.
VerSaveNext ==
    /\ verUp /\ verJob.stage = "saving"
    /\ chainFile' = [torn |-> FALSE, head |-> verJob.receipt + 1]
    /\ verJob' = [verJob EXCEPT !.stage = "saved"]
    /\ UNCHANGED <<verUp, verQueue, minted, transportVars>>

\* ... and then holds the new head.
VerSave ==
    /\ verUp /\ verJob.stage = "saving"
    /\ chainFile' = [torn |-> FALSE, head |-> verJob.receipt]
    /\ verJob' = [verJob EXCEPT !.stage = "saved"]
    /\ UNCHANGED <<verUp, verQueue, minted, transportVars>>

\* The open fails, or the write does and leaves the file empty: the handler
\* raises, and the process goes on.
VerSaveFails ==
    /\ verUp /\ verJob.stage \in {"signed", "saving"}
    /\ verJob' = [stage |-> "failed", client |-> verJob.client]
    /\ UNCHANGED <<verUp, verQueue, chainFile, minted, transportVars>>

\* Mutant: the receipt is answered as soon as it is signed.
AnswerableWhenSigned(job) == job.stage \in {"signed", "saved", "failed"}

\* The handler has returned or raised: the chain head is on disk by then.
Answerable(job) == job.stage \in {"saved", "failed"}

VerRespond ==
    /\ verUp /\ Answerable(verJob)
    /\ Send(verJob.client, IF verJob.stage = "failed"
                           THEN [kind |-> "error"]
                           ELSE [kind |-> "verified", receipt |-> verJob.receipt])
    /\ verJob' = NoJob
    /\ UNCHANGED <<verUp, verQueue, chainFile, minted, now, closed>>

-----------------------------------------------------------------------------
VerDown ==
    /\ verUp' = FALSE
    /\ verJob' = NoJob
    /\ verQueue' = << >>
    /\ ResetHeld(verQueue, verJob)
    /\ UNCHANGED <<chainFile, minted, now, closed>>

VerBrokenPipe ==
    /\ verUp /\ Answerable(verJob) /\ verJob.client \in closed
    /\ VerDown

VerCrash == verUp /\ VerDown

VerRestart ==
    /\ ~ verUp
    /\ verUp' = TRUE
    /\ UNCHANGED <<verQueue, verJob, chainFile, minted, transportVars>>

VerSteps == VerSign \/ VerRefuse \/ VerTruncate \/ VerSave \/ VerRespond \/ VerBrokenPipe
VerFaults == VerCrash \/ VerRestart \/ VerSaveFails

=============================================================================
