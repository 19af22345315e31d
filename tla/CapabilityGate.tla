--------------------------- MODULE CapabilityGate ---------------------------
(***************************************************************************)
(* The deterministic capability gate (gate.py).                            *)
(*                                                                         *)
(* A request is a record [id, capability, action, resource, payload].      *)
(* A grant is a record [id, effect, capability, actions, resources] in     *)
(* which a glob pattern is represented by the set of names it matches, and *)
(* a tuple of patterns (any of which may match) by the union of their      *)
(* sets.  A registry is a record [version, grants] whose grants are a      *)
(* sequence: the order of the file is the order of matched_grant_ids.      *)
(***************************************************************************)
EXTENDS Sublists

CONSTANT
    Protected        \* capabilities under a protected control-plane prefix

Matches(grant, request) ==
    /\ request.capability \in grant.capability
    /\ request.action \in grant.actions
    /\ request.resource \in grant.resources

\* The ids of the matching grants of one effect, in registry order.
MatchedIds(request, registry, effect) ==
    LET places == {i \in DOMAIN registry.grants : /\ Matches(registry.grants[i], request)
                                                  /\ registry.grants[i].effect = effect}
        matches == Sublist(registry.grants, places)
    IN  [i \in DOMAIN matches |-> matches[i].id]

GateDecision(verdict, ids) == [verdict |-> verdict, matched_grant_ids |-> ids]

\* Mutants: ALLOW is looked at first; the first matching grant decides.
EvaluateAllowFirst(request, registry) ==
    LET ids(effect) == MatchedIds(request, registry, effect)
    IN  IF request.capability \in Protected THEN GateDecision("DENY", << >>)
        ELSE IF ids("ALLOW") # << >> THEN GateDecision("ALLOW", ids("ALLOW"))
        ELSE IF ids("REVIEW") # << >> THEN GateDecision("REVIEW", ids("REVIEW"))
        ELSE GateDecision("DENY", << >>)
EvaluateFirstMatch(request, registry) ==
    LET places == {i \in DOMAIN registry.grants : Matches(registry.grants[i], request)}
        matches == Sublist(registry.grants, places)
    IN  IF request.capability \in Protected \/ matches = << >>
        THEN GateDecision("DENY", << >>)
        ELSE GateDecision(matches[1].effect, <<matches[1].id>>)

\* CapabilityGate.evaluate: protected names are denied outright, no match is a
\* denial, and DENY beats REVIEW beats ALLOW.
Evaluate(request, registry) ==
    LET ids(effect) == MatchedIds(request, registry, effect)
    IN  IF request.capability \in Protected THEN GateDecision("DENY", << >>)
        ELSE IF ids("DENY") # << >> THEN GateDecision("DENY", ids("DENY"))
        ELSE IF ids("REVIEW") # << >> THEN GateDecision("REVIEW", ids("REVIEW"))
        ELSE IF ids("ALLOW") # << >> THEN GateDecision("ALLOW", ids("ALLOW"))
        ELSE GateDecision("DENY", << >>)

=============================================================================
