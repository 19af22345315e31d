# Autonomy Harbor: specifications, model checks and proofs

This directory holds TLA+ specifications of the governed-execution core of
Autonomy Harbor (`src/personal_agent_runtime`), TLC configurations that check
them on small instances, and proofs checked by TLAPS. Names follow the Python
source; the table `map` in `PROJECT.json` gives the lines behind each
definition.

## 1. The system and its parts

| part (file) | state it keeps | operations | talks to |
|---|---|---|---|
| capability gate (`gate.py`) | none; evaluates a request against a registry | `evaluate` | called by gate service, runtime, bridge |
| envelopes, trust stores (`verifiable.py`) | none | `sign_payload`, `verify_envelope` | every signing or verifying part |
| signed review authorizer (`verifiable.py`) | SQLite table of used leases | `redeem` | gate service, runtime |
| review signer service (`appliance_services.py`) | none (key) | `approve_review` | a human, the caller |
| gate service | registry read at start, lease ledger | `authorize` | bridge; signs permits for the executor |
| executor service (`appliance.py`, `appliance_services.py`) | SQLite table of used permits | `execute` | bridge; runs adapters |
| verifier service | file with the head of the receipt chain | `finalize` | bridge |
| planner service | none | `propose` | bridge |
| transport (`appliance.py`) | listen backlog, sockets | `call`, accept loop, `shutdown` | all services |
| MCP bridge (`mcp_server.py`) | registry snapshot, receipt log | `submit_action_request`, dry run, reading the log | the services |
| review broker (`review_broker.py`) | leases, uses, cancellations, event chain | `register`, `issue_for_review`, `cancel`, `redeem` | runtime, a human |
| runtime (`runtime.py`) | heads of two receipt chains | `run`, `run_signed` | gate, broker, authorizer, executor |
| promotion gate (`promotion.py`) | none | `build_promotion_request`, `diff_registries`, `evaluate` | operator, PRSP issuer |
| registry attestation (`verifiable.py`) | none | `attest_capability_registry` and its verification | capability authority, runtime constructor |
| adapter registry (`adapters.py`) | bindings, ids | `register`, `execute`, `manifest`, `build_adapter_registry` | executor service |
| sandbox (`executor.py`), GitHub adapter (`github_adapter.py`) | files; issues at GitHub | `read_text`, `write_text`, `echo`; `get_repo`, `create_issue` | adapter registry |
| repo maintainer (`repo_maintainer.py`) | none | `load_repo_snapshot`, `select`, `build_receipt`, `to_action_request` | operator, runtime |
| command line (`cli.py`) | none | - | all |

What is hard here is not the code of any one handler but what happens between
them. Authority travels as signed documents (a lease from a human, a permit
from the gate, a result from the executor, a receipt from the verifier) through
a client that may retry, time out, replay or die; each service is one process
with a backlog that may die between any two of its steps and keeps only a
SQLite file or a JSON file; identifiers have a resolution of one second; the
policy changes under documents in flight. `hazards` in `PROJECT.json` lists
these points at their lines, with the properties that watch them.

What makes each part correct:

* gate: the verdict is the most restrictive one its matching grants justify;
* authorizer, broker: one approval releases one execution, of what was approved;
* executor: one permit, one attempt, of the request in the permit, in its window;
* verifier: receipts only for attempts that happened; delivered receipts form one chain;
* transport: a caller is never left waiting, and never leaves the accept loop stuck;
* receipt log: what it returns is the receipt appended last;
* promotion: what is enforced rests on passing evidence for exactly that registry;
* adapters: registered whole or not at all; an outcome tells what happened;
* triage: the best proposals, fixed by the digest in the receipt;
* runtime: as broker and authorizer, and an execution escapes its receipt chain
  only where making that receipt raises;
* the whole: authority is granted, spent once, acted on once, then certified.

## 2. Modules

| module | models | notes |
|---|---|---|
| `CapabilityGate` | `gate.py` | pure operators; a glob is the set of names it matches |
| `RegistryPolicy` | a registry edited grant by grant | the gate against a declarative reading |
| `PromotionGate` | `promotion.py`, registry attestation | pure operators; a digest is the value digested |
| `Promotion` | the way of a registry from the editor to a runtime | `EXTENDS RegistryPolicy, PromotionGate` |
| `Envelopes` | `sign_payload`, `verify_envelope`, trust stores | a hash is the value hashed; `intact` stands for hashes and signature |
| `HashChain`, `Sublists` | receipts linked by hash; a comprehension with a condition | recursive functions; `Sublist` says what `SelectSeq` says in a form that can be reasoned about |
| `SignedReview` | `SignedReviewAuthorizer`, `ReplayLedger` | used by `GateService` and `Runtime` |
| `Transport` | `UnixJsonClient`, `serve_unix_json` | coarse: clock, closed sockets, replies, resets |
| `ServiceLoop` | the same, step by step | instances on one path, backlog, silent peers |
| `ReceiptLog` | `FinalizedReceiptLog` | lines in pieces, lock, `tail`, `find` |
| `BridgeProcess` | the threads of a bridge around both | `EXTENDS ServiceLoop, ReceiptLog` |
| `ReviewSigner` | `review_signer_handler` | leases in human hands |
| `GateService` | `gate_handler` | decide, then sign and answer; crash, restart, registry edits |
| `ExecutorService` | `executor_handler`, permit ledger | consume, run, sign and answer; crash, restart |
| `VerifierService` | `verifier_handler`, chain file | sign, truncate, save, answer; crash, restart |
| `McpBridge` | `submit_action_request`, `check_capability`, direct callers | one client per submission; a retry is another client |
| `Appliance` | composition with reviewer, operator, clock and faults | `EXTENDS McpBridge` |
| `ApplianceInvariants` | the inductive invariant of `Appliance`, in layers | checked by TLC before it was proved |
| `GovernedExecution` | abstract specification of the appliance | refined by `Appliance` |
| `ExecutorEnvironment` | the executor with the most general environment | what `ExecutorProofs` is about |
| `ReviewBroker` | `review_broker.py` | one action per method |
| `Runtime` | `runtime.py` | several runtimes over one broker and one ledger |
| `RepoMaintainer` | `repo_maintainer.py` | pure operators: scores, both sorts (by ranks), receipt |
| `Adapters` | `adapters.py`, `executor.py`, `github_adapter.py` | registry, handlers, files and issues |
| `Maintenance` | triage and the executor's adapters together | `EXTENDS RepoMaintainer, Adapters` |
| `ExecutorProofs`, `ReviewBrokerProofs`, `ApplianceProofs`, `RuntimeProofs`, `BridgeProofs`, `PromotionProofs`, `MaintenanceProofs` | theorems | section 5 |
| `ChainLemmas` | lemmas | growing sequences, least members, iterated functions, chains |
| `MC*` | instances for TLC | |

### State and actions against the code

*Services.* A handler is cut into actions where the code commits something or
reads the clock again, because the process can die and time can pass there:
the executor's `ExecConsume` (the committed INSERT), `ExecRun` (the adapter),
`ExecRespond` (sign, answer); the gate's `GateEvaluate`/`GateRedeem` and
`GateRespond`; the verifier's `VerSign`, `VerTruncate`, `VerSave`,
`VerRespond`. `Path.write_text` truncates before it writes, so the chain file
is *torn* in between; `load_chain` raises on a torn file, and nothing in the
code repairs it: from then on every `finalize` is answered with an error until
someone deletes the file. A service that answers a client that closed its
socket leaves its accept loop with `BrokenPipeError` (the `sendall` is outside
the `try`), which is `*BrokenPipe`; the kernel then resets every connection
held by the process (`ResetHeld`). Only ledgers, the chain file and the
registry file survive. Storage may also fail in a process that stays up
(`StorageFails`): SQLite is locked or full (`GateRedeemFails`,
`ExecConsumeFails`), or the chain file cannot be opened or written
(`VerSaveFails`, which may leave it torn). What was not committed is not acted
on, and the caller is answered an error.

*Registry.* The gate reads its file when it starts (`GateRestart`) and so does
the bridge (`BridgeRestart`), so `registryFile`, `gateRegistry` and
`bridgeRegistry` may all differ. A permit names the registry version it was
issued under. A human approves what he was shown: the gate's answer to a
submission or a dry run of the bridge (`Shown`). The review signer signs
whatever decision its caller sends; a lease with other grants than those that
match is refused when it is redeemed, so only decisions that were shown are
explored.

*Ids.* The default permit id is `(request id, second)`. `TicksPerSecond` sets
how many clock readings fall into a second. A lease id is chosen by the
reviewer (and may repeat) or built the same way.

*Broker.* Every method changes state under one lock, so a method is one action.
What it uses from before the lock (the decision, the clock reading) may be
stale by then and is therefore arbitrary.

*Runtime.* `run` is cut at the decision (where a lease is used up), the
execution and the receipt; `run_signed` adds signing, and raises there on a
`now` without a time zone. `create_receipt` stands after the `try` around the
executor and before the head is set, and may raise (`RaiseInReceipt`): on a
result that is no mapping, on text that UTF-8 cannot encode, such as a lone
surrogate that `echo` gives back. The call ends there, with the execution made
and the chain unmoved. A runtime that stops inside a call was killed there.

*Sockets.* `Transport` treats a call as one message in a queue. `ServiceLoop`
takes it apart: unlink, bind, chmod and listen of an instance (chmod ends it
when another instance has unlinked the path in between), connect, send and close
of a peer, accept, read, answer and the end of the process. `connect` is refused
when nothing listens and when the backlog is full. A peer that closes its
socket ends the instance that answers it, also when it never sent anything: the
empty input is answered with an error, and that answer is outside the `try`. A
shutdown leaves the loop by `return`, so the unlink after the loop is never
reached and the path stays.

*Receipt log.* A line reaches the file in two pieces, so that a death or a
failed write leaves the first behind and the next line is glued to it. A
receipt `splits` when its text has U+0085, U+2028 or U+2029: `json.dumps` with
`ensure_ascii=False` writes them as they are and `splitlines` cuts there. The
newest receipt of a request is the one appended last, which is what `find` looks
for; threads need not append in the order in which the verifier numbered their
receipts. A tear between the last brace of a line and its newline, which leaves
a whole receipt, is left out.

*Promotion.* `Promotion` has one action per call and lets the file be edited
between any two. What counts is the chain of bindings: evidence to the digest of
the request, request to the digest of the proposed registry, attestation to its
content, constructor to the attestation. Grants of one id keep their order in
the digest, because Python's sort is stable.

*Adapters.* `Register` is what `register` leaves behind, whether it returns or
raises. It strips the adapter's id (`Stripped`), refuses one that is blank or
taken and keeps the stripped id; `Manifest` reports the id as it was written, as
`manifest` does. The POST of `create_issue` fails before or after GitHub has acted;
`write_text` fails before or after the truncation; either is the outcome FAILED.
A path is represented by the file it resolves to (`FileOf`), which is what
`_safe_path` looks at.

*Triage.* `Select` and `InputDigest` sort as the code does, by (score, name) and
by name, both stable and on lower-cased names. A stable sort is written as what it
gives: the element with n others ahead of it is at place n + 1. The signals of an
observation are a list in which none is repeated.

### Abstractions

SHA-256 is free of collisions and Ed25519 signatures cannot be made without the
key. Malformed documents (missing or extra fields) take the refusal path of a
failed check. Texts are model values, so an answer of a service that cannot be
encoded does not occur. In `ExecutorService` an adapter call returns or raises;
what it does to files and to GitHub is `Adapters`. Between a proposal of
`Maintenance` and its dispatch stand review and permit, which are `Appliance`'s.
SQLite commits survive the process; loss of the disk or of synced writes is
outside. An error of SQLite in the in-process runtime ends a call that has
changed nothing, which is a stuttering step. In `Appliance` there is one process
per role; two of one role on one socket are `ServiceLoop`'s.

## 3. Runs

| run | instance | states | shows |
|---|---|---|---|
| `executor` | 2 clients, 2 requests with one id, 5 envelopes (two share a permit id, one by the wrong key, one altered), clock 0..2 in any order, the ledger failing at any time | 930 k | `OneAttemptPerPermit`, `AttemptsWerePermitted` whoever calls |
| `appliance_faults` | 2 clients, 1 request, clock 0..2, permit life 2, 2 crashes or storage errors, 1 timeout | 2.6 M | `VerifiedMeansExecutedOnce`, `DeliveredReceiptsChained`, `ImplementsGovernedExecution` |
| `appliance_authority` | 2 clients, a request that needs review, 2 leases with default ids or one the reviewer repeats, 2 possible edits of the registry, 1 crash, storage error or restart of the bridge | 1.1 M | `AttemptsFollowPolicy`, `OneAttemptPerApproval`, `StaleAuthorityBounded`, `ReceiptsProveAttempts` |
| `appliance_liveness` | 2 clients, 1 crash or storage error, 1 timeout, weak fairness | 100 k | `EveryCallEnds`, `NoCallForgotten` |
| `appliance_collision` | 2 clients, 2 ticks per second | - | violation: `AlreadyUsedMeansUsed` |
| `broker` | 2 leases, 2 requests, 2 policies, 3 clock readings, 5 events | 2.6 M | four properties of the broker |
| `broker_record` | one naive timestamp | - | violation: `CancellationsOnRecord` |
| `runtime` | 2 runtimes (symmetric), 3 requests, 3 signed leases (two share an id, one altered), 1 broker lease, 3 calls past the decision, 1 raise of `create_receipt` | 769 k | `ApprovalsExecuteOnce`, `ExecutionsFollowPolicy`, `ExecutionsOnChainOrRaised`, `SignedChainFollowsPlain` |
| `runtime_receipts` | 1 runtime, `create_receipt` never raises | - | violation: `ReceiptForEveryAttempt` |
| `registry` | all registries of up to 3 grants out of 4, two of which share an id, 2 of the registries put forward, evidence good, foreign, skipped, inconsistent or altered, 1 start | 157 k | `VerdictIsJustified`, `OnlyGrantsWiden`, `PromotedOnEvidence`, `DigestFixesPolicy`, `ExpansionFlagged` |
| `bridge` | 2 threads, 1 stranger, 2 instances of the verifier, backlog 1, 1 failed write or death of the bridge, weak fairness | 339 k | `FindNeverStale`, `ReadableUntilFault`, `EveryCallReturns`, `LoopResumes` |
| `maintenance` | 6 snapshots of 5 observations (2 spellings of one name, 1 archived), limits 1 and 2, 5 configurations, 6 own adapters (ids with white space and a blank one), 12 requests, 2 issues | 605 k | `AdaptersWhole`, `WritesConfined`, `OutcomeTellsEffect`, `DigestFixesSelection`, `SelectedAreBest` |

**Why the bounds are enough.** A double use needs two presentations, so two
clients; a lease can be had from a dry run, so no third is needed to learn the
verdict, and the second client may be the one that asks again for an old result.
One crash places a restart between any two steps; the second one in
`appliance_faults` lets the retry be hit as well. The clock of the composed
appliance reaches the expiry of every permit issued at 0, and at that reading the
permit has expired; the readings of `executor` also lie before the issue and after
the expiry. Three calls of `runtime` let one that raises fall between two that
are signed. `runtime_receipts` keeps `MaxRaises` at 0, so that what it shows is
due to the naive timestamp alone. Three grants are enough
for an overlap of all three effects and for a repeated id that hides a grant
from the delta. Two instances and a backlog of one let the second unlink the
path of the first while calls wait in it, and let a caller find the backlog
full. Two issues show a second one after a lost answer. `MaxClock`, `MaxLeases`,
`MaxCrashes` (crashes, restarts of the bridge and storage errors together),
`MaxAbandons`, `MaxEdits`, `MaxEvents`, `MaxCalls`, `MaxRaises`, `MaxGrants`,
`MaxStarts`, `MaxInstances`, `MaxFaults` and `MaxIssues` are the only bounds;
each is a guard of one kind of action.

**Fairness.** `FairSpec` of the appliance assumes weak fairness of each service's
steps and of each client's reaction to its reply: these are running loops that
are never disabled by another process. Nothing is assumed of people, of restarts,
of crashes or of client timeouts, so `EveryCallEnds` does not lean on the timeout
or on a supervisor. It can, because every client of that model sends its line
when it connects. `BridgeProcess` drops this: a stranger may hold the loop for
ever, and then only the caller's own timeout ends its call. There the timeout is
part of the caller's steps, which are weakly fair (`settimeout` covers connect,
send and recv), beside the steps of a started service. Nothing is assumed of
strangers, faults and of who starts a process. A stranger that stays silent does
block its instance: `LoopResumes` is stated for callers only.

**Deadlock** is checked in every run: `Finished` and `Full` are the only resting
places, and both are stated.

## 4. Findings

* `appliance_collision`: two permits for one request issued within a second
  have the same id (`appliance.py:166`), so the second is refused as
  `permit_already_used` although it never was; for a reviewed request the lease
  is used up as well. It errs on the safe side: `OneAttemptPerPermit` holds.
* `broker_record`: `cancel` marks the lease before it may raise on a naive
  timestamp (`review_broker.py:193`, `:200`); the cancellation then holds
  without an event and cannot be repeated. `NoReleaseOnceCancelled` shows that
  it does hold.
* Not a run of its own, but stated in `ReadableUntilFault` and `ExpansionFlagged`:
  one verified receipt whose text has U+0085, U+2028 or U+2029 makes
  `list_receipts` raise from then on, and `get_receipt` for everything logged
  before it (`mcp_server.py:46`, `:52`, `:60`); and
  `has_possible_authority_expansion` (`promotion.py:63`) stays false when a
  proposal only removes a DENY or REVIEW grant, or changes a grant whose id a
  later one repeats.
* `runtime_receipts`: `run_signed` rejects a naive timestamp only after the
  action ran (`runtime.py:190`), and the receipt is lost to the caller, against
  the README's "Receipt for every attempt". `ExecutionsOnChainOrRaised` shows
  that the gap is visible in the next receipt.
* Stated in `ExecutionsOnChainOrRaised` rather than by a run of its own: when
  `create_receipt` raises after an execution (`runtime.py:161`, outside the `try`
  whose comment at `:157` says "receipt must survive executor failure"), there
  is no receipt of that attempt, ever, and the next one links past it: nothing
  shows the gap. The property says that this is the only way off the chain.

## 5. Proofs

Every safety invariant and every action property that a passing run checks is
also proved for all values of the constants, and so is the refinement of
`GovernedExecution`. The runs come first all the same: each inductive invariant
below was checked by TLC on the instances of section 3 before it was proved, and
the mutants of `PROJECT.json` show on the same instances that each property can
fail.

The argument has one form throughout. The properties speak of what has happened
(attempts, releases, receipts), and are not inductive: when one more thing
happens, nothing in them says that it was not there before. The invariant `IInv`
adds what the handlers in progress and the ledgers know. One lemma per action
shows that a step keeps it; `Inductive` is `Spec => []IInv`, and the properties
follow.

### Assumptions

All are named `ASSUME`s, and TLC evaluates them on its instances.

| assumption | says | because |
|---|---|---|
| `PermitsAssumption`, `BrokerAssumption` | clock readings and window fields are natural numbers, "no permit" is no envelope | timestamps are parsed before they are compared |
| `GateAssumption`, `SignerAssumption` | lifetimes and the clock's resolution are positive | `ttl_seconds` below 1 is rejected (`appliance.py:162`, `verifiable.py:367`) |
| `ClientsAssumption` | clients are numbered | only the order in which they start uses it |
| `BacklogAssumption`, `PeersAssumption`, `CallersAssumption` | the backlog is positive; "nobody" is no peer and no caller | `listen(16)`; `None` is not a thread |
| `DomainsAssumption` | some domain is required | `PromotionRequest` raises on none (`promotion.py:108`) |
| `BaselineAssumption` | the registry at the start is a registry | the runtime was given a `CapabilityRegistry` |
| `StrippedAssumption` | "sandbox" and "github" have no white space around them | `str.strip` |
| `LimitsAssumption` | limits are at least 1 | `select` raises below 1 |
| `SnapshotsAssumption`, `ConfigsAssumption`, `CustomAssumption`, `FilesAssumption` | lists of well-formed entries; other adapters are not the two of the executor | dataclasses and the conversions of the loaders |
| `BoundsAssumption`, `BoundAssumption` | bounds are natural numbers | bounds of the model only |

`AttemptsFollowPolicyAlways` has one hypothesis beside them, `VersionsIdentify`:
no two registry files share a version. The permit names the version, not the
content, so the property could not be meant otherwise;
`AttemptsAuthorizedAlways` holds without it and says that *some* registry of
that version authorized the attempt.

### Executor (`ExecutorProofs`, about `ExecutorEnvironment`)

`IInv` is the type invariant with

* `LedgerSound`: a row stands for a permit that verifies, under its own id,
  used inside its window, and ids are unique (this is what the primary key gives);
* `ExecJobSound`: the permit a handler is about to act on has a row and no
  attempt yet;
* `AttemptsSound`: every attempt has a row;
* `OneAttemptPerPermit`.

`ConsumeStep` shows that a new row was not there before, so the job it
authorizes has no attempt; `RunStep` that the attempt uses up exactly this
fact; `QuietStep` that no other step touches ledger, attempts and an authorized
job, except to drop the job. A crash loses the job but not the row, which is why
the argument survives restarts. These lemmas are stated for any sets of permits
and requests, so that the proofs about the appliance, where the set of permits
grows, use them instead of repeating them.

### Appliance (`ApplianceProofs`, invariant in `ApplianceInvariants`)

Four layers, each resting on the ones before:

1. `GateInv`: a permit is signed by the gate inside its clock, was authorized
   under a registry of the version it names, and is the only permit of its
   lease, whose row is in the ledger; a ledger that failed leaves a handler that
   will only say so; a decision in progress has redeemed its
   lease and no permit has it yet; what the registry in force denies was
   permitted before it was loaded. This is where `OneAttemptPerApproval` and
   `StaleAuthorityBounded` come from: lease to permit is one-to-one here, permit
   to attempt in the executor.
2. `ExecInv`: the executor's invariant, for the permits issued so far.
3. `ReceiptInv`: results are what the executor signed for attempts that
   happened, receipts are about attempts (`ReceiptsProveAttempts`), and a call
   of the verifier works on the permit of the submission that made it
   (`OwnReceipts`, from which `VerifiedMeansExecutedOnce`).
4. `ChainInv`: one head leads back to every receipt that clients hold or are
   about to be given; it is the head on file unless the file is torn. Receipts
   that were signed and lost may fork, delivered ones cannot.

`Implements` maps each step: `GateRespond` grants, `ExecConsume` spends,
`ExecRun` performs, `VerSign` certifies, and every other step changes nothing
that `GovernedExecution` speaks of.

`NoCallForgottenAlways` is separate from the four layers (`CallInv`). It is the
safety half of `EveryCallEnds`: a client that waits has its request with the
service it waits for and no other, or an answer it goes on with; nothing is
under way for one that does not wait. `GateMoves`, `ExecMoves`, `VerMoves` and
`ClientMoves` sort all steps of the program into five kinds of moves (a service
answers or resets, a client calls, is done or leaves), and `MovesKeep` shows that
each leaves every call in its place. What remains for `EveryCallEnds` is that
the service takes a step, which is fairness.

### Review broker and runtime (`ReviewBrokerProofs`, `RuntimeProofs`)

The broker's strengthening is `BookKeeping`: the use counter, the set of
cancelled leases and the lease table account for every event and every release,
and an issued lease has its issue on record, which puts it before whatever else
happens to the lease (`IssuedFirst`); one lemma per method. The runtime's
invariant contains the broker's, and the runtime's proofs use the broker's
lemmas through an instance of `ReviewBrokerProofs`. Beside it:

* `PolicyInv`: a decision to execute is permitted, and the lease behind it is
  behind no other decision and no execution;
* `PlainLinks`: receipts link backwards, and every execution is pending, on the
  chain of its runtime, or raised in its receipt and without one. An execution
  in progress has neither receipt nor raise yet, so that it gets one of the two,
  once;
* `SignedLinks`: an envelope links to the one its runtime signed before it, and
  its receipt lies on the plain chain before those signed later. The proof of
  `SignedChainFollowsPlain` turns this into what `verify_envelope_chain`
  computes for any selection of envelopes.

### Bridge (`BridgeProofs`)

`OneConnection`: a peer is in one backlog or one connection, once, so that no
line is answered twice. `Threads`: past its call a thread has its answer, and
while it appends it holds the lock. `AppendedInOrder` places the receipts
appended in the file in their order, torn pieces between them; `FindNeverStale`
is read off it. `LinesWhole`: without a fault lines have both their pieces, but
for the one being written, which gives `ReadableUntilFault`.

### Gate and promotion (`PromotionProofs`)

The verdict of `evaluate` is read off the *set* of matching grants
(`VerdictReads`): that gives `VerdictIsJustified`, and with `NoWider` (who
carries every restriction of another registry and no permission beyond it lets
no request further) `OnlyGrantsWiden` for every edit of a registry of any
length, `DigestFixesPolicy`, and `ExpansionFlagged` for deltas without a flag.
`PromotedOnEvidence` rests on `HandedOn`: each link of the chain of bindings
(request, decision, attestation, registry in force) is a conjunct.

### Triage and adapters (`MaintenanceProofs`)

`AdaptersWhole`: `RegisterKeeps` for one adapter, whatever ids and bindings it
has, and a walk over a configuration (`BuiltIsWhole`). `Whole` relates the tables
through `Stripped`, of which only the ids of the two adapters that come with the
executor are known (`StrippedAssumption`). `DispatchTells` goes
through the outcomes of the two adapters and the effect each admits to; it gives
`OutcomeTellsEffect` and `WritesConfined`. `InOrderLists` shows that places listed
by ranks are all places, once, in order; `RankedRearranged` that a rearrangement
which preserves the order of the names leaves the ranking alone; the digest is
such a rearrangement (`DigestRanks`), hence `DigestFixesSelection`.

### What is not proved

*Liveness.* `EveryCallEnds`, `EveryCallReturns` and `LoopResumes` are checked by
TLC under the fairness of section 3. *Expected violations* are runs only.
*Recursion.* The definitions that recur (`ChainOf`, `Sublist`, scores, the
configured registry) are recursive functions. What they compute at every place
is proved by looking at the least place where it fails (`LeastMember`), with a
function that satisfies the recursion shown to exist first (`Iterated`,
`KeptExists`).

## 6. Not modelled, and the plan

Not modelled: key generation, key files and file modes of `initialize_appliance`
(I/O; the trust stores it writes are `Envelopes`), the registration of tools with
the MCP library, argument parsing, printing and demonstrations (`cli.py`), the
wording of titles, bodies and rationales, HTTP headers and URL quoting. Two
verifiers that write one chain-state file at the same time are a hazard without a
property: they fork the chain, and nothing in the code prevents it. Installing a
promoted registry is left to people by the code; the model has an external
action for it, and a change of the registry in force while a request against it
is being decided is a hazard without a property, since nothing in the code
compares the two.

What is left, in this order:

1. the safety half of `EveryCallReturns` for `BridgeProcess`: a caller that is
   connected is in the backlog or the connection of an instance that has not
   ended, or will find its socket reset;
2. the broker as an implementation of "one approval, at most one release, none
   after a cancellation", stated as an abstract specification that both
   `ReviewBroker` and the ledger of `SignedReview` refine.
