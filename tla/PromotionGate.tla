---------------------------- MODULE PromotionGate ----------------------------
(***************************************************************************)
(* Registry digests and deltas, promotion requests and the promotion gate  *)
(* (promotion.py), and the attestation of a registry (verifiable.py).      *)
(*                                                                         *)
(* SHA-256 is taken to be collision free: a digest is the value it is the  *)
(* digest of.  A PRSP simulation receipt is [app_id, overall_gate,         *)
(* results], its results a sequence of [domain, status].                   *)
(***************************************************************************)
EXTENDS Envelopes, Sublists

CONSTANTS
    AppId,               \* the application whose registry is promoted
    RequiredDomains      \* domains of which a promotion needs evidence

ASSUME DomainsAssumption == RequiredDomains # {}

GrantIds(registry) == {registry.grants[i].id : i \in DOMAIN registry.grants}

WithId(registry, id) ==
    Sublist(registry.grants, {i \in DOMAIN registry.grants : registry.grants[i].id = id})

\* {g.grant_id: _grant_view(g) for g in registry.grants}: of grants with one
\* id, the last stays.
GrantsById(registry) ==
    [id \in GrantIds(registry) |-> LET s == WithId(registry, id) IN s[Len(s)]]

\* Mutant: the grants are digested as the dictionary that the delta uses.
RegistryDigestById(registry) ==
    [version |-> registry.version, grants |-> GrantsById(registry)]

\* registry_digest, and the payload of an attestation: the grants sorted by id.
\* The sort is stable, so what remains of the order of the file is the order
\* among grants of one id.
RegistryDigest(registry) ==
    [version |-> registry.version,
     grants |-> [id \in GrantIds(registry) |-> WithId(registry, id)]]

\* Mutant: a grant counts as changed when its effect is another one.
DiffRegistriesByEffect(baseline, proposed) ==
    LET old == GrantsById(baseline)
        new == GrantsById(proposed)
    IN  [added   |-> DOMAIN new \ DOMAIN old,
         removed |-> DOMAIN old \ DOMAIN new,
         changed |-> {id \in DOMAIN old \intersect DOMAIN new :
                         old[id].effect # new[id].effect}]

\* diff_registries.
DiffRegistries(baseline, proposed) ==
    LET old == GrantsById(baseline)
        new == GrantsById(proposed)
    IN  [added   |-> DOMAIN new \ DOMAIN old,
         removed |-> DOMAIN old \ DOMAIN new,
         changed |-> {id \in DOMAIN old \intersect DOMAIN new : old[id] # new[id]}]

HasPossibleAuthorityExpansion(delta) == delta.added # {} \/ delta.changed # {}

\* Mutant: the required domains are an iterator that was used up before.
BuildPromotionRequestBare(promotion_id, baseline, proposed) ==
    [promotion_id |-> promotion_id, app_id |-> AppId,
     baseline_registry_digest |-> RegistryDigest(baseline),
     proposed_registry_digest |-> RegistryDigest(proposed),
     capability_delta |-> DiffRegistries(baseline, proposed), required_domains |-> {}]

\* build_promotion_request.  The digest of a request covers all of it.
BuildPromotionRequest(promotion_id, baseline, proposed) ==
    [promotion_id |-> promotion_id, app_id |-> AppId,
     baseline_registry_digest |-> RegistryDigest(baseline),
     proposed_registry_digest |-> RegistryDigest(proposed),
     capability_delta |-> DiffRegistries(baseline, proposed),
     required_domains |-> RequiredDomains]

-----------------------------------------------------------------------------
(* Evidence and the gate.                                                  *)

Gates == {"PASS", "REVIEW", "HOLD", "REJECT"}

\* sign_prsp_promotion_evidence with the payload prsp_promotion_evidence_payload.
SignPrspPromotionEvidence(request, receipt, key, effect) ==
    SignPayload("prsp_promotion_evidence", key,
        [promotion_request_digest |-> request, promotion_id |-> request.promotion_id,
         app_id |-> request.app_id, prsp_receipt |-> receipt, authority_effect |-> effect])

\* The statuses of a receipt that count.
Active(results) == {results[i].status : i \in DOMAIN results} \ {"SKIP"}

\* recompute_prsp_gate: the worst status that is not SKIP, HOLD if there is none.
RecomputePrspGate(results) ==
    LET active == Active(results)
    IN  IF active = {} THEN "HOLD"
        ELSE IF "REJECT" \in active THEN "REJECT"
        ELSE IF "HOLD" \in active THEN "HOLD"
        ELSE IF "REVIEW" \in active THEN "REVIEW"
        ELSE "PASS"

\* PRSPSimulationReceipt.from_dict does not raise.
WellFormed(receipt) ==
    /\ receipt.overall_gate \in Gates
    /\ \A i \in DOMAIN receipt.results : receipt.results[i].status \in Gates \union {"SKIP"}

Covered(results) ==
    {results[i].domain : i \in {k \in DOMAIN results : results[k].status # "SKIP"}}

\* Mutant: evidence is tied to the promotion by its id alone.
BoundById(body, request) ==
    body.promotion_id = request.promotion_id /\ body.app_id = request.app_id

\* The evidence was signed for exactly this request.
Bound(body, request) ==
    /\ body.promotion_request_digest = request
    /\ body.promotion_id = request.promotion_id
    /\ body.app_id = request.app_id

PromotionTrust == {<<"prsp", "promotion_evidence_issuer">>,
                   <<"authority", "capability_authority">>}

\* PRSPPromotionGate.evaluate: the verdict of the decision.
EvaluatePromotion(request, evidence) ==
    LET body == evidence.body
        receipt == body.prsp_receipt
        computed == RecomputePrspGate(receipt.results)
    IN  IF \/ ~ VerifyEnvelope(evidence, PromotionTrust, "promotion_evidence_issuer",
                               "prsp_promotion_evidence")
           \/ body.authority_effect # "EVIDENCE_ONLY"
           \/ ~ Bound(body, request)
           \/ ~ WellFormed(receipt)
           \/ receipt.app_id # request.app_id
           \/ computed # receipt.overall_gate
        THEN "REJECT"
        ELSE IF request.required_domains \ Covered(receipt.results) # {} THEN "HOLD"
        ELSE computed

-----------------------------------------------------------------------------
(* Attestation.                                                            *)

AttestCapabilityRegistry(registry, key) ==
    SignPayload("capability_registry", key, RegistryDigest(registry))

\* verify_capability_registry_attestation(...).ok.
VerifyAttestation(registry, envelope) ==
    /\ VerifyEnvelope(envelope, PromotionTrust, "capability_authority", "capability_registry")
    /\ envelope.body = RegistryDigest(registry)

=============================================================================
