----------------------------- MODULE Appliance -----------------------------
(***************************************************************************)
(* The governed-execution appliance: gate, executor, verifier and review   *)
(* signer processes, their clients, a human reviewer, an operator who      *)
(* edits the registry file, a wall clock, crashes and restarts.            *)
(***************************************************************************)
EXTENDS McpBridge, HashChain, FiniteSets

CONSTANTS
    Requests,        \* what clients submit
    Registry,        \* the registry file at the start
    Edits,           \* registries the operator may put in its place
    LeaseNames,      \* lease ids a reviewer may choose himself
    MaxClock, MaxLeases, MaxCrashes, MaxAbandons, MaxEdits    \* bounds

ASSUME ClientsAssumption == Clients \subseteq Nat
ASSUME BoundsAssumption == MaxClock \in Nat

VARIABLE spent       \* how much of each bound is used up

vars == <<transportVars, gateVars, leases, execVars, verVars, bridgeVars, spent>>

Init ==
    /\ TransportInit
    /\ GateInit(Registry)
    /\ leases = {}
    /\ ExecInit
    /\ VerInit
    /\ BridgeInit(Registry)
    /\ spent = [crashes |-> 0, abandons |-> 0, edits |-> 0]

-----------------------------------------------------------------------------
(* The steps of the program.                                               *)

GateStep == GateSteps /\ UNCHANGED <<leases, execVars, verVars, bridgeVars, spent>>
ExecStep == ExecSteps /\ UNCHANGED <<leases, gateVars, verVars, bridgeVars, spent>>
VerStep  == VerSteps  /\ UNCHANGED <<leases, gateVars, execVars, bridgeVars, spent>>
ClientStep(c) == Proceed(c) /\ UNCHANGED <<leases, spent>>

-----------------------------------------------------------------------------
(* The steps of its surroundings.                                          *)

\* Clients are numbered in the order in which they start.
First(c) == \A d \in Clients : d < c => pc[d] # "idle"

\* Signed execution results in the hands of clients.
Results == {sub[d].result : d \in {c \in Clients : "result" \in DOMAIN sub[c]}}

Start(c) ==
    /\ First(c)
    /\ \/ \E r \in Requests, lease \in leases \union {NoLease} : Submit(c, r, lease)
       \/ \E r \in Requests, permit \in permits \union {NoPermit} : PresentDirectly(c, r, permit)
       \/ \E r \in Requests, permit \in permits, result \in Results : PresentResult(c, r, permit, result)
       \/ PlannerFails(c)
    /\ UNCHANGED <<leases, spent>>

\* What a human may be shown of a request: the gate's answer to a submission, or
\* a dry run of the bridge.
Shown ==
    {[request |-> sub[c].request, base |-> sub[c].base] :
        c \in {d \in Clients : pc[d] = "NOT_EXECUTED"}}
    \union {[request |-> r, base |-> CheckCapability(r)] : r \in Requests}

\* The human approves it.  The review signer takes request and decision from its
\* caller and compares them with nothing; a caller that sends a decision nobody
\* was shown gets a lease that redeem refuses, because its review grants are not
\* those that match (SamePolicy), so only decisions that were shown are explored.
Approve ==
    /\ Cardinality(leases) < MaxLeases
    /\ \E shown \in Shown, ttl \in LeaseTTLs :
          \E id \in LeaseNames \union {DefaultLeaseId(shown.request)} :
              ApproveReview(shown.request, shown.base, id, ttl)
    /\ UNCHANGED <<transportVars, gateVars, execVars, verVars, bridgeVars, spent>>

Tick ==
    /\ now < MaxClock
    /\ now' = now + 1
    /\ UNCHANGED <<closed, reply, gateVars, leases, execVars, verVars, bridgeVars, spent>>

Crash ==
    /\ spent.crashes < MaxCrashes
    /\ spent' = [spent EXCEPT !.crashes = @ + 1]
    /\ \/ GateCrash /\ UNCHANGED <<execVars, verVars>>
       \/ ExecCrash /\ UNCHANGED <<gateVars, verVars>>
       \/ VerCrash /\ UNCHANGED <<gateVars, execVars>>
    /\ UNCHANGED <<leases, bridgeVars>>

\* An error of SQLite or of a file, in a service that stays up.
StorageFails ==
    /\ spent.crashes < MaxCrashes
    /\ spent' = [spent EXCEPT !.crashes = @ + 1]
    /\ \/ GateRedeemFails /\ UNCHANGED <<execVars, verVars>>
       \/ ExecConsumeFails /\ UNCHANGED <<gateVars, verVars>>
       \/ VerSaveFails /\ UNCHANGED <<gateVars, execVars>>
    /\ UNCHANGED <<leases, bridgeVars>>

\* The bridge dies and is started again.
RestartBridge ==
    /\ spent.crashes < MaxCrashes
    /\ spent' = [spent EXCEPT !.crashes = @ + 1]
    /\ BridgeRestart
    /\ UNCHANGED leases

Restart ==
    /\ \/ GateRestart /\ UNCHANGED <<execVars, verVars>>
       \/ ExecRestart /\ UNCHANGED <<gateVars, verVars>>
       \/ VerRestart /\ UNCHANGED <<gateVars, execVars>>
    /\ UNCHANGED <<leases, bridgeVars, spent>>

GiveUp(c) ==
    /\ spent.abandons < MaxAbandons
    /\ spent' = [spent EXCEPT !.abandons = @ + 1]
    /\ Abandon(c)
    /\ UNCHANGED leases

Edit ==
    /\ spent.edits < MaxEdits
    /\ spent' = [spent EXCEPT !.edits = @ + 1]
    /\ \E registry \in Edits : EditRegistry(registry)
    /\ UNCHANGED <<leases, execVars, verVars, bridgeVars>>

\* Every submission is over; the appliance idles.
Finished ==
    /\ \A c \in Clients : pc[c] \in Statuses
    /\ UNCHANGED vars

Next ==
    \/ GateStep \/ ExecStep \/ VerStep
    \/ \E c \in Clients : ClientStep(c) \/ Start(c) \/ GiveUp(c)
    \/ Approve \/ Tick \/ Crash \/ StorageFails \/ RestartBridge \/ Restart \/ Edit \/ Finished

Spec == Init /\ [][Next]_vars

\* The services and the clients are running programs: each keeps taking the
\* steps it can take.  Nothing is assumed of people, faults and restarts.
Fairness ==
    /\ WF_vars(GateStep) /\ WF_vars(ExecStep) /\ WF_vars(VerStep)
    /\ \A c \in Clients : WF_vars(ClientStep(c))

FairSpec == Spec /\ Fairness

-----------------------------------------------------------------------------
(* Properties.                                                             *)

\* Type invariant of the composition: clock, sockets, registries in force,
\* stages of the handlers, and a chain file that names a receipt ever signed.
TypeOK ==
    /\ now \in 0 .. MaxClock
    /\ closed \subseteq Clients
    /\ gateRegistry \in {Registry} \union Edits
    /\ registryFile \in {Registry} \union Edits
    /\ bridgeRegistry \in {Registry} \union Edits
    /\ \A c \in Clients : pc[c] \in {"idle"} \union Waiting \union Statuses
    /\ \A c \in Clients : reply[c].kind \in {"none", "reset", "verdict", "permit", "refused",
                                             "executed", "verified", "error"}
    /\ gateJob.stage \in {"idle", "decided", "failed"}
    /\ execJob.stage \in {"idle", "authorized", "refused", "executed"}
    /\ verJob.stage \in {"idle", "signed", "saving", "saved", "failed"}
    /\ chainFile \in [torn : BOOLEAN, head : 0 .. Len(minted)]

Registries == {Registry} \union Edits

\* What ran was allowed by the registry named in its permit: outright, or after
\* a human reviewed exactly this request under exactly these grants; a denied
\* request never runs (gate_handler's use of evaluate and redeem).
AttemptsFollowPolicy ==
    \A i \in DOMAIN attempts, registry \in Registries :
        LET permit == attempts[i].permit.body
            base == Evaluate(attempts[i].request, registry)
        IN  permit.registry_version = registry.version =>
                \/ base.verdict = "ALLOW" /\ permit.lease = NoLease
                \/ /\ base.verdict = "REVIEW"
                   /\ permit.lease \in leases
                   /\ permit.lease.body.request = attempts[i].request
                   /\ permit.lease.body.review_grant_ids = base.matched_grant_ids

\* One human approval, at most one execution: two attempts never stem from
\* leases with the same id, whatever is retried, replayed, crashed or timed out
\* on the way from redeem to execute.
OneAttemptPerApproval ==
    \A i, j \in DOMAIN attempts :
        LET a == attempts[i].permit.body.lease
            b == attempts[j].permit.body.lease
        IN  (a # NoLease /\ b # NoLease /\ i # j) => a.body.lease_id # b.body.lease_id

\* Authority outlives a policy that denies it by less than one permit lifetime:
\* the executor does not read the registry, so a permit issued before the gate
\* was restarted with a registry that denies the request stays usable, but only
\* until it expires.
StaleAuthorityBounded ==
    \A row \in permitLedger :
        (/\ Evaluate(row.envelope.body.request, gateRegistry).verdict = "DENY"
         /\ policySince <= row.at)
        => row.at < policySince + PermitTTL

\* Every receipt the verifier signs, delivered or not, is about an attempt that
\* was made, with the outcome it had.
ReceiptsProveAttempts ==
    \A n \in DOMAIN minted : \E i \in DOMAIN attempts :
        /\ attempts[i].permit = minted[n].permit
        /\ attempts[i].request = minted[n].request
        /\ attempts[i].outcome = minted[n].outcome

\* The receipts behind each receipt, itself included.
Chain == ChainOf(minted)

\* The receipts clients hold never fork: of any two, one is an ancestor of the
\* other, and the chain-state file, unless torn, leads back to all of them,
\* although receipts that were signed and lost with a crash do fork.
DeliveredReceiptsChained ==
    LET held == {sub[c].receipt : c \in {d \in Clients : pc[d] = "VERIFIED"}}
    IN  /\ \A m, n \in held : m \in Chain[n] \/ n \in Chain[m]
        /\ ~ chainFile.torn => held \subseteq Chain[chainFile.head]

\* A submission reported VERIFIED ran: exactly one attempt was made with its
\* permit, and the receipt it returned has that attempt's outcome.
VerifiedMeansExecutedOnce ==
    \A c \in Clients : pc[c] = "VERIFIED" =>
        LET own == {i \in DOMAIN attempts : attempts[i].permit = sub[c].permit}
        IN  /\ Cardinality(own) = 1
            /\ \A i \in own : attempts[i].outcome = minted[sub[c].receipt].outcome

\* The appliance implements GovernedExecution.
Promise == INSTANCE GovernedExecution WITH
    granted   <- permits,
    spent     <- {row.envelope : row \in permitLedger},
    performed <- [i \in DOMAIN attempts |-> attempts[i].permit],
    certified <- {minted[n].permit : n \in DOMAIN minted}

ImplementsGovernedExecution == Promise!Spec

\* A client that waits for a service is released, by an answer or a reset: no
\* request is dropped without a word, by an error path or by a dying process.
EveryCallEnds ==
    \A c \in Clients : pc[c] \in Waiting ~> pc[c] \notin Waiting

\* The clients whose connections each service holds.
HeldBy ==
    [gate |-> Held(gateQueue, gateJob), executor |-> Held(execQueue, execJob),
     verifier |-> Held(verQueue, verJob)]

\* The answers a submission goes on with, by the service it waits for.
Understood ==
    [gate     |-> {"verdict", "permit", "error", "reset"},
     executor |-> {"refused", "executed", "error", "reset"},
     verifier |-> {"verified", "error", "reset"}]

\* What EveryCallEnds rests on: a client that waits has its request with the
\* service it waits for and no other, or has an answer to it that it goes on
\* with; nothing is under way for a client that does not wait.  Answers never
\* meet the wrong call, and requests never outlive it, unless the socket was
\* closed (UnixJsonClient.call opens one socket a call and closes it).
NoCallForgotten ==
    \A c \in Clients \ closed :
        LET at == {s \in Waiting : c \in HeldBy[s]}
        IN  IF pc[c] \in Waiting
            THEN \/ at = {pc[c]} /\ reply[c] = NoReply
                 \/ at = {} /\ reply[c].kind \in Understood[pc[c]]
            ELSE at = {} /\ reply[c] = NoReply

\* "permit_already_used" is said only of a permit that was used
\* (verify_and_consume_execution_permit; docs: "the SQLite permit replay ledger
\* has not already consumed the permit").
AlreadyUsedMeansUsed ==
    (execJob.stage = "refused" /\ execJob.reason = "permit_already_used")
        => \E row \in permitLedger : row.envelope = execJob.permit

=============================================================================
