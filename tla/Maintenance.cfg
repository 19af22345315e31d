\* Snapshots change under triage; the executor is restarted, extended and given requests.
SPECIFICATION Spec
CONSTANTS
    Stripped <- MCStripped
    RepoNames <- MCRepoNames
    FileOf <- MCFileOf
    Inside <- MCInside
    Snapshots <- MCSnapshots
    Limits = {1, 2}
    Configs <- MCConfigs
    Custom <- MCCustom
    Requests <- MCRequests
    InitialFiles <- MCInitialFiles
    MaxIssues = 2
INVARIANTS
    TypeOK
    AdaptersWhole
    WritesConfined
    DigestFixesSelection
    SelectedAreBest
PROPERTY
    OutcomeTellsEffect
