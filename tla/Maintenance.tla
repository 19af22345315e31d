----------------------------- MODULE Maintenance -----------------------------
(***************************************************************************)
(* Triage and the executor's adapters together: a snapshot of repositories *)
(* is read again and again, receipts with proposals are built from it, and *)
(* the executor, restarted with other configurations and given adapters of *)
(* its own, dispatches proposals and other requests.  Review and permits   *)
(* stand between a proposal and its dispatch; they are Appliance's.        *)
(***************************************************************************)
EXTENDS RepoMaintainer, Adapters

CONSTANTS
    Snapshots,       \* contents of the snapshot file
    Limits,          \* the limits triage is asked for
    Configs,         \* executor configurations
    Custom,          \* adapters that are registered by hand
    Requests,        \* requests that are no proposals
    InitialFiles,    \* the files before anything is dispatched
    MaxIssues        \* bound: issues created

VARIABLES snapshot, receipt

vars == <<snapshot, receipt, adapters, issues, files, last>>

NoReceipt == [selected |-> << >>, limit |-> 0, input_digest |-> "none"]

ASSUME LimitsAssumption == Limits \subseteq Nat \ {0}

\* A snapshot and a configuration are lists of well-formed entries (the
\* dataclass RepoObservation, the conversions in load_repo_snapshot).
ASSUME SnapshotsAssumption ==
    \A s \in Snapshots :
        /\ s \in Seq(Range(s))
        /\ \A o \in Range(s) : /\ o.lower \in Nat /\ o.archived \in BOOLEAN
                              /\ o.signals \in Seq(Range(o.signals))

ASSUME ConfigsAssumption ==
    \A config \in Configs :
        /\ config \in Seq(Range(config))
        /\ \A item \in Range(config) : item.enabled \in BOOLEAN /\ item.token \in BOOLEAN

\* An adapter of the executor's own is neither of the two that come with it,
\* and binds a list of keys; it may have any id and any keys, theirs included.
ASSUME CustomAssumption ==
    \A a \in Custom : a.kind = "custom" /\ a.bindings \in Seq(Bindings(a))

ASSUME FilesAssumption == InitialFiles \in [DOMAIN InitialFiles -> {"absent", "old", "new", "empty"}]

ASSUME BoundAssumption == MaxIssues \in Nat

\* An executor runs when it has a registry, which holds the sandbox adapter.
Running == adapters # EmptyRegistry

Init ==
    /\ snapshot \in Snapshots
    /\ receipt = NoReceipt
    /\ adapters = EmptyRegistry
    /\ issues = << >>
    /\ files = InitialFiles
    /\ last = [outcome |-> "none"]

\* load_repo_snapshot, of a file that has changed since.
LoadRepoSnapshot(s) ==
    /\ s # snapshot
    /\ snapshot' = s
    /\ UNCHANGED <<receipt, adapters, issues, files, last>>

\* cli maintain
Maintain(limit) ==
    /\ receipt' = BuildReceipt(snapshot, limit)
    /\ UNCHANGED <<snapshot, adapters, issues, files, last>>

\* executor_handler builds the registry or raises, and the service does not start.
StartExecutor(config) ==
    /\ adapters' = IF Buildable(config) THEN BuildAdapterRegistry(config) ELSE EmptyRegistry
    /\ UNCHANGED <<snapshot, receipt, issues, files, last>>

\* AdapterRegistry.register by a caller that survives AdapterConflict.
RegisterCustom(adapter) ==
    /\ Running
    /\ adapters' = Register(adapters, adapter)
    /\ UNCHANGED <<snapshot, receipt, issues, files, last>>

\* The executor runs an adapter.
Run(request) ==
    /\ Running
    /\ request.action = "create_issue" => Len(issues) < MaxIssues
    /\ Dispatch(request)
    /\ UNCHANGED <<snapshot, receipt, adapters>>

Propose(k) == Run(ToActionRequest(receipt.selected[k]))

Next ==
    \/ \E s \in Snapshots : LoadRepoSnapshot(s)
    \/ \E limit \in Limits : Maintain(limit)
    \/ \E config \in Configs : StartExecutor(config)
    \/ \E adapter \in Custom : RegisterCustom(adapter)
    \/ \E k \in DOMAIN receipt.selected : Propose(k)
    \/ \E request \in Requests : Run(request)

Spec == Init /\ [][Next]_vars

-----------------------------------------------------------------------------
(* Properties.                                                             *)

AllAdapters == Custom \union {SandboxAdapter, GitHubAdapter(TRUE), GitHubAdapter(FALSE)}

\* Type invariant of triage, registry and world: the functions and sequences of
\* RepoMaintainer and AdapterRegistry, at most limit candidates, one adapter a
\* binding.
TypeOK ==
    /\ snapshot \in Snapshots
    /\ Len(receipt.selected) <= receipt.limit
    /\ Range(receipt.selected) \subseteq {Candidate(o) : o \in UNION {Range(s) : s \in Snapshots}}
    /\ adapters.ids \subseteq {Stripped[a.id] : a \in AllAdapters}
    /\ Range(adapters.by_binding) \subseteq AllAdapters
    /\ issues \in Seq(RepoNames) /\ Len(issues) <= MaxIssues
    /\ files \in [DOMAIN InitialFiles -> {"absent", "old", "new", "empty"}]
    /\ last.outcome \in {"none", "SUCCEEDED", "FAILED"}

\* AdapterRegistry.register leaves a whole adapter or nothing, whatever raised
\* before: the ids taken are those manifest reports, stripped (manifest itself
\* gives the adapter's attribute, with the white space); no two it reports differ
\* in white space alone, none is blank, and each is reported with all the
\* bindings of one adapter.
AdaptersWhole ==
    LET reported == DOMAIN Manifest(adapters)
    IN  /\ {Stripped[id] : id \in reported} = adapters.ids
        /\ "" \notin adapters.ids
        /\ \A id, other \in reported : Stripped[id] = Stripped[other] => id = other
        /\ \A id \in reported :
              \E a \in AllAdapters : a.id = id /\ Bindings(a) = Manifest(adapters)[id]

\* The adapter that a request is dispatched to is of that kind.
HandledBy(kind, request) ==
    LET key == <<request.capability, request.action>>
    IN  key \in DOMAIN adapters.by_binding /\ adapters.by_binding[key].kind = kind

ToldEffect ==
    LET request == last'.request
        succeeded == last'.outcome = "SUCCEEDED"
        interrupted == last'.outcome = "FAILED" /\ last'.reason \in {"transport", "io"}
        target == FileOf[request.resource]
    IN  CASE succeeded /\ HandledBy("github", request) /\ request.action = "create_issue" ->
                issues' = Append(issues, request.resource) /\ files' = files
          [] succeeded /\ HandledBy("sandbox", request) /\ request.action = "write_text" ->
                files' = [files EXCEPT ![target] = "new"] /\ issues' = issues
          [] interrupted ->
                /\ issues' \in {issues, Append(issues, request.resource)}
                /\ \A f \in DOMAIN files : files'[f] # files[f] => f = target
          [] OTHER -> worldVars' = worldVars

\* An adapter's answer tells what happened to the world: after SUCCEEDED exactly
\* the requested issue or text is there in addition, and after FAILED something
\* changed only where the transport or the operating system failed half-way
\* (UrllibGitHubTransport.request, _write_text), never for a request refused.
OutcomeTellsEffect == [][last' # last \/ worldVars' # worldVars => ToldEffect]_vars

\* _safe_path confines the sandbox adapter whatever path is requested: no file
\* outside the sandbox root is written, created or truncated.
WritesConfined ==
    \A f \in DOMAIN files \ Inside : files[f] = InitialFiles[f]

\* A receipt's input_digest fixes its proposals: a snapshot with that digest,
\* its entries perhaps in another order, gives the same selection (select sorts
\* by score and name, build_receipt digests in the order of names).
DigestFixesSelection ==
    receipt # NoReceipt /\ InputDigest(snapshot) = receipt.input_digest
        => Select(snapshot, receipt.limit) = receipt.selected

\* The proposals of a receipt are the best of what was observed: none is for
\* an archived repository, and a live one that is left out scores no higher than
\* any that is proposed; nothing live is left out while there is room.
SelectedAreBest ==
    LET observed == receipt.input_digest
        live == {i \in DOMAIN observed : ~ observed[i].archived}
        chosen == {receipt.selected[k] : k \in DOMAIN receipt.selected}
    IN  receipt # NoReceipt =>
            /\ \A c \in chosen : \E i \in live : Candidate(observed[i]) = c
            /\ \A i \in live : Candidate(observed[i]) \notin chosen =>
                \A c \in chosen : c.score >= Score(observed[i])
            /\ Len(receipt.selected) = Min({receipt.limit, Cardinality(live)})

-----------------------------------------------------------------------------
(* The strengthening that makes the invariants inductive.                  *)

\* The tables of an AdapterRegistry agree: a key leads to an adapter whose id is
\* taken, and a taken id is that of one adapter, to which exactly its keys lead.
Whole(registry) ==
    LET bound == registry.by_binding
    IN  /\ "" \notin registry.ids
        /\ \A b \in DOMAIN bound :
              bound[b] \in AllAdapters /\ Stripped[bound[b].id] \in registry.ids
        /\ \A id \in registry.ids : \E a \in AllAdapters :
              /\ Stripped[a.id] = id /\ Bindings(a) # {}
              /\ Bindings(a) = {b \in DOMAIN bound : bound[b] = a}
              /\ \A b \in DOMAIN bound : Stripped[bound[b].id] = id => bound[b] = a

\* A receipt was built from some snapshot, which may be gone.
IInv ==
    /\ TypeOK /\ WritesConfined /\ Whole(adapters)
    /\ receipt # NoReceipt =>
          \E s \in Snapshots, limit \in Limits : receipt = BuildReceipt(s, limit)

=============================================================================
