----------------------------- MODULE Promotion -----------------------------
(***************************************************************************)
(* From a registry under edit to the registry a runtime enforces: a        *)
(* promotion request is built against the registry in force, the PRSP      *)
(* issuer signs evidence for it, the promotion gate decides, the           *)
(* capability authority attests the proposed registry, and a runtime that  *)
(* requires a signed registry is started with the file as it is by then.   *)
(* The file may be edited, and another promotion begun, between any two    *)
(* steps.                                                                  *)
(***************************************************************************)
EXTENDS RegistryPolicy, PromotionGate

CONSTANTS
    Baseline,        \* the registry in force at the start
    Signings,        \* what may be signed as evidence, and what becomes of it:
                     \* records [receipt, key, effect, intact]
    Proposals,       \* registries that may be put forward
    MaxStarts        \* bound on the runtimes started

ASSUME BaselineAssumption == IsRegistry(Baseline)
ASSUME BoundsAssumption == MaxGrants \in Nat /\ MaxStarts \in Nat

VARIABLES
    active,          \* the registry the running runtime enforces
    request,         \* the promotion request at hand
    evidence,        \* the signed evidence at hand
    decision,        \* the decision that makes a request eligible, until used
    attestation,     \* the signed registry, and the decision it rests on
    grounds,         \* history: the decision behind the active registry
    starts

promotionVars == <<request, evidence, decision, attestation>>
vars == <<registry, active, promotionVars, grounds, starts>>

None == [kind |-> "none"]

Init ==
    /\ registry = Baseline
    /\ active = registry
    /\ request = None /\ evidence = None /\ decision = None /\ attestation = None
    /\ grounds = None
    /\ starts = 0

Edit ==
    /\ EditRegistry
    /\ UNCHANGED <<active, promotionVars, grounds, starts>>

\* build_promotion_request, under the one id the requester uses.
BuildRequest ==
    /\ registry \in Proposals
    /\ request' = BuildPromotionRequest("promotion", active, registry)
    /\ UNCHANGED <<registry, active, evidence, decision, attestation, grounds, starts>>

\* Evidence for the request at hand: signed by its issuer, or by the holder of
\* another key, claiming authority, or altered afterwards.
SignEvidence ==
    /\ request # None
    /\ \E s \in Signings :
          evidence' = [SignPrspPromotionEvidence(request, s.receipt, s.key, s.effect)
                          EXCEPT !.intact = s.intact]
    /\ UNCHANGED <<registry, active, request, decision, attestation, grounds, starts>>

\* The gate is asked; anything but PASS is no ground for what follows.
Decide ==
    /\ request # None /\ evidence # None
    /\ decision' = IF EvaluatePromotion(request, evidence) = "PASS"
                   THEN [kind |-> "eligible", request |-> request, evidence |-> evidence]
                   ELSE None
    /\ UNCHANGED <<registry, active, request, evidence, attestation, grounds, starts>>

\* The capability authority signs the file if it is what the decision is about.
Attest ==
    /\ decision # None
    /\ RegistryDigest(registry) = decision.request.proposed_registry_digest
    /\ attestation' = [kind |-> "attested", decision |-> decision,
                       envelope |-> AttestCapabilityRegistry(registry, "authority")]
    /\ decision' = None
    /\ UNCHANGED <<registry, active, request, evidence, grounds, starts>>

\* PersonalAgentRuntime(require_signed_registry=True): it raises, or enforces
\* the file it was given.
StartRuntime ==
    /\ starts < MaxStarts
    /\ starts' = starts + 1
    /\ attestation # None
    /\ IF VerifyAttestation(registry, attestation.envelope)
       THEN active' = registry /\ grounds' = attestation.decision
       ELSE UNCHANGED <<active, grounds>>
    /\ UNCHANGED <<registry, promotionVars>>

Next == Edit \/ BuildRequest \/ SignEvidence \/ Decide \/ Attest \/ StartRuntime

Spec == Init /\ [][Next]_vars

-----------------------------------------------------------------------------
\* Type invariant: registries of bounded length, requests that name the domains
\* they need evidence of (PromotionRequest.__post_init__).
TypeOK ==
    /\ registry.grants \in UNION {[1 .. n -> Grants] : n \in 0 .. MaxGrants}
    /\ active.grants \in UNION {[1 .. n -> Grants] : n \in 0 .. MaxGrants}
    /\ request # None => request.required_domains = RequiredDomains
    /\ decision.kind \in {"none", "eligible"} /\ attestation.kind \in {"none", "attested"}
    /\ starts \in 0 .. MaxStarts

\* Whatever was edited, replayed or exchanged on the way, a promoted registry
\* rests on evidence for it: its issuer signed, for the promotion to exactly
\* the policy in force, a simulation in which every required domain was
\* exercised and nothing that ran came out worse than PASS (evaluate and
\* verify_capability_registry_attestation together).
PromotedOnEvidence ==
    grounds # None =>
        LET body == grounds.evidence.body
            results == body.prsp_receipt.results
        IN  /\ grounds.evidence.intact /\ grounds.evidence.key = "prsp"
            /\ body.authority_effect = "EVIDENCE_ONLY"
            /\ body.promotion_request_digest.proposed_registry_digest = RegistryDigest(active)
            /\ \A i \in DOMAIN results : results[i].status \in {"PASS", "SKIP"}
            /\ \A domain \in RequiredDomains : \E i \in DOMAIN results :
                  results[i].domain = domain /\ results[i].status = "PASS"

\* The digest that evidence and attestation are bound to fixes the policy: two
\* registry files of one digest, in whatever order and with whatever repeated
\* ids, give every request the same verdict on the same grants.
DigestFixesPolicy ==
    RegistryDigest(registry) = RegistryDigest(active) =>
        \A r \in Requests :
            LET d == Evaluate(r, registry)
                e == Evaluate(r, active)
            IN  /\ d.verdict = e.verdict
                /\ {d.matched_grant_ids[k] : k \in DOMAIN d.matched_grant_ids} =
                      {e.matched_grant_ids[k] : k \in DOMAIN e.matched_grant_ids}

RepeatsIds(reg) == \E i, j \in DOMAIN reg.grants : i # j /\ reg.grants[i].id = reg.grants[j].id

\* What has_possible_authority_expansion leaves out: a proposal that gives some
\* request more than the active registry does is flagged, unless it only takes
\* restrictions away or a file repeats a grant id, of which the delta sees the
\* last.
ExpansionFlagged ==
    LET delta == DiffRegistries(active, registry)
    IN  \/ HasPossibleAuthorityExpansion(delta)
        \/ \E id \in delta.removed : GrantsById(active)[id].effect \in {"DENY", "REVIEW"}
        \/ RepeatsIds(active) \/ RepeatsIds(registry)
        \/ \A r \in Requests :
              Rank(Evaluate(r, registry).verdict) <= Rank(Evaluate(r, active).verdict)

-----------------------------------------------------------------------------
(* The strengthening that makes PromotedOnEvidence inductive.              *)

\* A decision that the gate made for a request as the code builds them.
Eligible(d) ==
    /\ d.kind = "eligible"
    /\ d.request.required_domains = RequiredDomains
    /\ EvaluatePromotion(d.request, d.evidence) = "PASS"

\* What is handed on from step to step: a decision as the gate made it, a
\* signature on what the decision is about, and the decision in force.
HandedOn ==
    /\ request # None => request.required_domains = RequiredDomains
    /\ decision # None => Eligible(decision)
    /\ attestation # None =>
          /\ attestation.kind = "attested" /\ Eligible(attestation.decision)
          /\ attestation.envelope.body = attestation.decision.request.proposed_registry_digest
    /\ grounds # None =>
          Eligible(grounds) /\ RegistryDigest(active) = grounds.request.proposed_registry_digest

IInv == IsRegistry(registry) /\ IsRegistry(active) /\ starts \in 0 .. MaxStarts /\ HandedOn

=============================================================================
