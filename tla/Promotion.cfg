\* A registry is edited, promoted, attested and enforced, with edits and other promotions in between.
SPECIFICATION Spec
CONSTANTS
    Protected = {"runtime.gate"}
    Requests <- MCRequests
    Grants <- MCGrants
    MaxGrants = 3
    AppId = "app"
    RequiredDomains = {"authorization", "security"}
    Baseline <- MCBaseline
    Signings <- MCSignings
    Proposals <- MCProposals
    MaxStarts = 1
INVARIANTS
    TypeOK
    VerdictIsJustified
    PromotedOnEvidence
    DigestFixesPolicy
    ExpansionFlagged
PROPERTIES
    OnlyGrantsWiden
