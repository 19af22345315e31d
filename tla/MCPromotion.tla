---------------------------- MODULE MCPromotion ----------------------------
(***************************************************************************)
(* Four grants of the three effects, two of them with one id, over two     *)
(* ordinary capabilities and a protected one; registries of up to three    *)
(* grants under edit, repetitions included, of which two may be put        *)
(* forward.  Simulation receipts: one that passes, one with a hidden HOLD, *)
(* one that skips a domain, one for another application, and the first     *)
(* under a wrong key, with a claim of authority, or altered.               *)
(***************************************************************************)
EXTENDS Promotion

MCRequests ==
    {[capability |-> c, action |-> "write", resource |-> r] :
        c \in {"file", "mail", "runtime.gate"}, r \in {"doc", "etc"}}

G(id, effect, capability, resources) ==
    [id |-> id, effect |-> effect, capability |-> capability, actions |-> {"write"},
     resources |-> resources]

all  == G("all", "ALLOW", {"file", "mail", "runtime.gate"}, {"doc", "etc"})
ask1 == G("ask", "REVIEW", {"mail"}, {"doc", "etc"})
ask2 == G("ask", "REVIEW", {"file"}, {"etc"})
no   == G("no", "DENY", {"file", "mail"}, {"etc"})

MCGrants == {all, ask1, ask2, no}

MCBaseline == [version |-> 1, grants |-> <<all, no>>]
MCProposals == {[version |-> 1, grants |-> g] : g \in {<<all>>, <<ask2>>}}

Result(domain, status) == [domain |-> domain, status |-> status]
Simulated(app, gate, results) == [app_id |-> app, overall_gate |-> gate, results |-> results]

passing == Simulated("app", "PASS", <<Result("authorization", "PASS"), Result("security", "PASS")>>)
hidden  == Simulated("app", "PASS", <<Result("authorization", "PASS"), Result("security", "HOLD")>>)
skipped == Simulated("app", "PASS", <<Result("authorization", "PASS"), Result("security", "SKIP")>>)
foreign == [passing EXCEPT !.app_id = "other"]

Signing(receipt, key, effect, intact) ==
    [receipt |-> receipt, key |-> key, effect |-> effect, intact |-> intact]

MCSignings ==
    {Signing(receipt, "prsp", "EVIDENCE_ONLY", TRUE) : receipt \in {passing, hidden, skipped, foreign}}
    \union {Signing(passing, "authority", "EVIDENCE_ONLY", TRUE),
            Signing(passing, "prsp", "GRANT", TRUE),
            Signing(passing, "prsp", "EVIDENCE_ONLY", FALSE)}

=============================================================================
