----------------------------- MODULE Envelopes -----------------------------
(***************************************************************************)
(* Signed envelopes and trust stores (verifiable.py, appliance.py).        *)
(*                                                                         *)
(* An envelope is [type, key, intact, body].  SHA-256 is taken to be       *)
(* collision free, so the hash of a value is the value: an envelope hash   *)
(* is the envelope and a request digest is the request.  intact is FALSE   *)
(* for an envelope whose stored hashes or signature do not match its       *)
(* fields; every such envelope fails verification for one of the reasons   *)
(* payload_hash_mismatch, envelope_hash_mismatch or signature_invalid.     *)
(***************************************************************************)

\* sign_payload: an intact envelope under the signer's key.  The keys are
\* "review", "gate", "executor" and "verifier", one for each signing process.
SignPayload(type, key, body) ==
    [type |-> type, key |-> key, intact |-> TRUE, body |-> body]

\* The trust stores initialize_appliance writes, as pairs of key and role.
GateTrust     == {<<"review", "review_issuer">>}
ExecutorTrust == {<<"gate", "execution_permit_issuer">>}
VerifierTrust == {<<"gate", "execution_permit_issuer">>,
                  <<"executor", "executor_result_signer">>}

\* verify_envelope(...).ok with a required role and an expected payload type.
VerifyEnvelope(envelope, trust, role, type) ==
    /\ envelope.intact
    /\ <<envelope.key, role>> \in trust
    /\ envelope.type = type

=============================================================================
