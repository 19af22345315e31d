--------------------------- MODULE RegistryPolicy ---------------------------
(***************************************************************************)
(* A capability registry under edit, grant by grant, and what the gate     *)
(* makes of every request after each edit: the gate's algorithm against a  *)
(* declarative reading of it, and what an edit may do to authority.        *)
(***************************************************************************)
EXTENDS CapabilityGate, FiniteSets

CONSTANTS
    Requests,        \* requests the gate may be asked about
    Grants,          \* grants the operator may add
    MaxGrants        \* bound on the length of a registry

VARIABLE registry    \* the registry file under edit

IsRegistry(reg) ==
    /\ reg = [version |-> reg.version, grants |-> reg.grants]
    /\ reg.grants \in Seq(Grants) /\ Len(reg.grants) <= MaxGrants

\* A grant is inserted before position i, or at the end.
Add(grant, i) ==
    /\ Len(registry.grants) < MaxGrants
    /\ registry' = [registry EXCEPT !.grants =
                       SubSeq(@, 1, i - 1) \o <<grant>> \o SubSeq(@, i, Len(@))]

Remove(i) ==
    registry' = [registry EXCEPT !.grants = SubSeq(@, 1, i - 1) \o SubSeq(@, i + 1, Len(@))]

\* Two neighbours change places.
Swap(i) ==
    /\ i + 1 \in DOMAIN registry.grants
    /\ registry' = [registry EXCEPT !.grants[i] = registry.grants[i + 1],
                                    !.grants[i + 1] = registry.grants[i]]

EditRegistry ==
    \/ \E grant \in Grants, i \in 1 .. Len(registry.grants) + 1 : Add(grant, i)
    \/ \E i \in DOMAIN registry.grants : Remove(i) \/ Swap(i)

-----------------------------------------------------------------------------
Matching(request, effect) ==
    {i \in DOMAIN registry.grants :
        Matches(registry.grants[i], request) /\ registry.grants[i].effect = effect}

\* The verdict of evaluate, read off the registry as a set: permission needs an
\* explicit grant that nothing restricts, outside the control plane; a decision
\* names exactly the grants it rests on.
VerdictIsJustified ==
    \A request \in Requests :
        LET d == Evaluate(request, registry)
            deny == Matching(request, "DENY")
            review == Matching(request, "REVIEW")
            allow == Matching(request, "ALLOW")
        IN  /\ d.verdict = "ALLOW" <=> /\ request.capability \notin Protected
                                       /\ deny = {} /\ review = {} /\ allow # {}
            /\ d.verdict = "REVIEW" <=> /\ request.capability \notin Protected
                                        /\ deny = {} /\ review # {}
            /\ d.matched_grant_ids # << >> =>
                  {d.matched_grant_ids[k] : k \in DOMAIN d.matched_grant_ids} =
                     {registry.grants[i].id : i \in Matching(request, d.verdict)}

Rank(verdict) == CASE verdict = "DENY" -> 0 [] verdict = "REVIEW" -> 1 [] verdict = "ALLOW" -> 2

Count(reg, effects) == Cardinality({i \in DOMAIN reg.grants : reg.grants[i].effect \in effects})

\* A step adds a permission, takes a restriction away or widens nothing.
WidenedByGrants ==
    \/ Count(registry', {"ALLOW", "REVIEW"}) > Count(registry, {"ALLOW", "REVIEW"})
    \/ Count(registry', {"DENY", "REVIEW"}) < Count(registry, {"DENY", "REVIEW"})
    \/ \A request \in Requests :
          Rank(Evaluate(request, registry').verdict) <= Rank(Evaluate(request, registry).verdict)

\* No request gains authority unless the edit added an ALLOW or REVIEW grant or
\* took away a DENY or REVIEW grant: adding restrictions, removing permissions
\* and moving grants about never widen what the gate lets through.
OnlyGrantsWiden == [][WidenedByGrants]_registry

=============================================================================
