------------------------ MODULE ApplianceInvariants ------------------------
(***************************************************************************)
(* The inductive invariant behind the safety properties of the appliance,  *)
(* in four layers: the gate and what it signs, the executor and its ledger, *)
(* what travels back to clients and through the verifier, and the chain of *)
(* receipts.  Each layer rests on the ones before it.                      *)
(***************************************************************************)
EXTENDS Appliance

Bases == {Evaluate(r, registry) : r \in Requests, registry \in Registries}
LeasesOrNone == leases \union {NoLease}

-----------------------------------------------------------------------------
(* The gate.                                                               *)

GateMessages == [client : Clients, request : Requests, lease : LeasesOrNone]

GateTypes ==
    /\ now \in 0 .. MaxClock
    /\ policySince \in 0 .. now
    /\ gateRegistry \in Registries /\ registryFile \in Registries
    /\ gateQueue \in Seq(GateMessages)
    /\ gateJob \in {NoJob}
         \union [stage : {"decided"}, client : Clients, request : Requests, base : Bases,
                 verdict : {"ALLOW", "REVIEW", "DENY"}, lease : LeasesOrNone]
         \union [stage : {"failed"}, client : Clients]
    /\ gateUp \/ gateJob = NoJob
    /\ \A lease \in leases : lease.type = "review_lease"

\* What the policy and the human together say of a request.
Authorized(base, request, lease) ==
    \/ base.verdict = "ALLOW" /\ lease = NoLease
    \/ /\ base.verdict = "REVIEW"
       /\ lease \in leases
       /\ lease.body.request = request
       /\ lease.body.review_grant_ids = base.matched_grant_ids

Redeemed(lease) == \E row \in leaseLedger : row.lease_id = lease.body.lease_id

\* A decision is about the registry in force, and a positive one is authorized;
\* the lease it redeemed is in the ledger and in no permit yet.
GateJobSound ==
    gateJob.stage = "decided" =>
        /\ gateJob.base = Evaluate(gateJob.request, gateRegistry)
        /\ gateJob.verdict = "ALLOW" => Authorized(gateJob.base, gateJob.request, gateJob.lease)
        /\ gateJob.lease # NoLease =>
              /\ Redeemed(gateJob.lease)
              /\ \A p \in permits : p.body.lease # NoLease =>
                     p.body.lease.body.lease_id # gateJob.lease.body.lease_id

\* A permit is signed by the gate, names its window and its time of issue, and
\* was authorized under a registry of the version it names.
PermitSound(p) ==
    /\ p.type = "execution_permit" /\ p.key = "gate" /\ p.intact
    /\ p.body.request \in Requests
    /\ p.body.lease \in LeasesOrNone
    /\ p.body.issued_at \in 0 .. now
    /\ p.body.expires_at = p.body.issued_at + PermitTTL
    /\ \E registry \in Registries :
          /\ registry.version = p.body.registry_version
          /\ Authorized(Evaluate(p.body.request, registry), p.body.request, p.body.lease)

\* What the registry in force denies was permitted before it came into force.
OlderThanPolicy(p) ==
    Evaluate(p.body.request, gateRegistry).verdict = "DENY" => p.body.issued_at <= policySince

\* A permit's lease is in the ledger, and in no other permit.
LeaseSpentOn(p) ==
    p.body.lease # NoLease =>
        /\ Redeemed(p.body.lease)
        /\ \A q \in permits : q.body.lease # NoLease /\
               q.body.lease.body.lease_id = p.body.lease.body.lease_id => q = p

PermitsSound == \A p \in permits : PermitSound(p) /\ OlderThanPolicy(p) /\ LeaseSpentOn(p)

GateInv == GateTypes /\ GateJobSound /\ PermitsSound

-----------------------------------------------------------------------------
(* The executor: what clients can present are permits of the gate.         *)

ExecInv ==
    /\ ExecTypeOK(permits, Requests)
    /\ ExecSound
    /\ \A row \in permitLedger : row.at <= now

-----------------------------------------------------------------------------
(* The verifier and the clients.                                           *)

\* What the executor signed so far of the attempts made, or may have.
SignedResults == {SignExecutionResult(attempts[i], t) : i \in DOMAIN attempts, t \in 0 .. now}

PermitsOrNone == permits \union {NoPermit}

VerMessages == [client : Clients, request : Requests, permit : PermitsOrNone,
                result : SignedResults]

Receipts == [prev : Nat, permit : permits, request : Requests, outcome : Outcomes]

VerTypes ==
    /\ verQueue \in Seq(VerMessages)
    /\ minted \in Seq(Receipts)
    /\ chainFile \in [torn : BOOLEAN, head : 0 .. Len(minted)]
    /\ verJob \in {NoJob}
         \union [stage : {"signed", "saving", "saved"}, client : Clients,
                 receipt : DOMAIN minted]
         \union [stage : {"failed"}, client : Clients]

Answers ==
    {NoReply, Reset, [kind |-> "error"]}
    \union [kind : {"verdict"}, base : Bases]
    \union [kind : {"permit"}, permit : permits]
    \union [kind : {"refused"}, reason : Refusals]
    \union [kind : {"executed"}, result : SignedResults]
    \union [kind : {"verified"}, receipt : DOMAIN minted]

\* What a submission holds comes from the services.
Holding(c) ==
    /\ "permit" \in DOMAIN sub[c] => sub[c].permit \in PermitsOrNone
    /\ "result" \in DOMAIN sub[c] => sub[c].result \in SignedResults
    /\ pc[c] \in Waiting \union {"VERIFIED"} =>
          /\ {"request", "by"} \subseteq DOMAIN sub[c]
          /\ sub[c].request \in Requests
    /\ pc[c] \in {"executor", "verifier", "VERIFIED"} => "permit" \in DOMAIN sub[c]

ClientTypes ==
    /\ bridgeRegistry \in Registries
    /\ closed \subseteq Clients
    /\ reply \in [Clients -> Answers]
    /\ pc \in [Clients -> {"idle"} \union Waiting \union Statuses]
    /\ sub = [c \in Clients |-> sub[c]]
    /\ \A c \in Clients : Holding(c)

\* A submission that has reached the verifier.
AtVerifier(c) == pc[c] \notin {"idle", "gate", "executor"}

\* The verifier works, and answers, on the permit of the submission that called
\* it; so does the receipt of a submission that is over.
OwnReceipts ==
    /\ \A i \in DOMAIN verQueue :
          LET m == verQueue[i]
          IN  /\ AtVerifier(m.client)
              /\ "permit" \in DOMAIN sub[m.client]
              /\ m.permit = sub[m.client].permit
    /\ verJob.stage \in {"signed", "saving", "saved"} =>
          /\ AtVerifier(verJob.client)
          /\ "permit" \in DOMAIN sub[verJob.client]
          /\ minted[verJob.receipt].permit = sub[verJob.client].permit
    /\ \A c \in Clients : reply[c].kind = "verified" =>
          /\ AtVerifier(c)
          /\ "permit" \in DOMAIN sub[c]
          /\ minted[reply[c].receipt].permit = sub[c].permit
    /\ \A c \in Clients : pc[c] = "VERIFIED" =>
          /\ "receipt" \in DOMAIN sub[c]
          /\ sub[c].receipt \in DOMAIN minted
          /\ minted[sub[c].receipt].permit = sub[c].permit

ReceiptInv == VerTypes /\ ClientTypes /\ ReceiptsProveAttempts /\ OwnReceipts

\* The receipts that clients hold or will take, and the one about to be answered.
Delivered ==
    {sub[c].receipt : c \in {d \in Clients : pc[d] = "VERIFIED"}}
    \union {reply[c].receipt : c \in {d \in Clients : reply[d].kind = "verified"}}
    \union (IF verJob.stage = "saved" THEN {verJob.receipt} ELSE {})

\* One chain leads back to all of them: that of the head on file or, while the
\* file is empty, that of the head about to be written; after a crash in between
\* the chain is still there, but nothing names it.
ChainInv ==
    /\ Linked(minted)
    /\ \E h \in 0 .. Len(minted) : /\ Delivered \subseteq Chain[h]
                                   /\ ~ chainFile.torn => chainFile.head = h
    /\ verJob.stage = "signed" => /\ ~ chainFile.torn
                                  /\ minted[verJob.receipt].prev = chainFile.head
    /\ verJob.stage = "saving" => /\ chainFile.torn
                                  /\ Delivered \subseteq Chain[verJob.receipt]
    /\ verJob.stage = "saved" => ~ chainFile.torn /\ chainFile.head = verJob.receipt

IInv == GateInv /\ ExecInv /\ ReceiptInv /\ ChainInv

-----------------------------------------------------------------------------
(* Calls and answers, beside the four layers.                              *)

\* No client is twice in what a service holds.
Apart(queue, job) ==
    /\ \A i, j \in DOMAIN queue : queue[i].client = queue[j].client => i = j
    /\ job.stage # "idle" => \A i \in DOMAIN queue : queue[i].client # job.client

AllApart ==
    Apart(gateQueue, gateJob) /\ Apart(execQueue, execJob) /\ Apart(verQueue, verJob)

\* Who closed his socket gave up, and calls no more.
CallInv == NoCallForgotten /\ AllApart /\ \A c \in closed : pc[c] = "ERROR"

-----------------------------------------------------------------------------
(* What the theorems about policy speak of.                                *)

\* No two registry files share a version: the operator gives each edit its own.
VersionsIdentify == \A a, b \in Registries : a.version = b.version => a = b

\* AttemptsFollowPolicy without that hypothesis: what ran was authorized under
\* some registry of the version its permit names.
AttemptsAuthorized ==
    \A i \in DOMAIN attempts : \E registry \in Registries :
        LET permit == attempts[i].permit.body
        IN  /\ permit.registry_version = registry.version
            /\ Authorized(Evaluate(attempts[i].request, registry), attempts[i].request,
                          permit.lease)

=============================================================================
