------------------------------ MODULE Adapters ------------------------------
(***************************************************************************)
(* The executor's adapters: AdapterRegistry and its construction from the  *)
(* configuration (adapters.py), the sandbox adapter (executor.py), the     *)
(* GitHub adapter (github_adapter.py), and the world they act on: issues   *)
(* at GitHub and files.                                                    *)
(*                                                                         *)
(* An adapter is [kind, id, bindings, token]: its bindings are a sequence  *)
(* of pairs of capability and action.  Its id is as its author wrote it;   *)
(* the registry keeps it stripped.  A request's payload is "valid" when it *)
(* has what its action requires and "invalid" otherwise.                   *)
(***************************************************************************)
EXTENDS Naturals, Sequences, SequencesExt, TLC

CONSTANTS
    Stripped,        \* Stripped[id]: the id without white space around it
    RepoNames,       \* resources of the form owner/repo
    FileOf,          \* FileOf[resource]: the file a path resolves to
    Inside           \* the files under the sandbox root

ASSUME StrippedAssumption ==
    Stripped["sandbox"] = "sandbox" /\ Stripped["github"] = "github"

VARIABLES
    adapters,        \* AdapterRegistry: _by_binding and _ids
    issues,          \* resources of the issues created, in order
    files,           \* files[f]: "absent", "old", "new", or "empty" when truncated
    last             \* the request dispatched last, its outcome and the reason

worldVars == <<issues, files>>

-----------------------------------------------------------------------------
(* AdapterRegistry.                                                        *)

EmptyRegistry == [by_binding |-> << >>, ids |-> {}]

Bindings(adapter) == Range(adapter.bindings)

\* The k-th binding is taken, by another adapter or by this one.
Conflicts(registry, adapter, k) ==
    \/ adapter.bindings[k] \in DOMAIN registry.by_binding
    \/ \E j \in 1 .. k - 1 : adapter.bindings[j] = adapter.bindings[k]

\* register does not raise.
Registrable(registry, adapter) ==
    /\ Stripped[adapter.id] \notin registry.ids \union {""}
    /\ adapter.bindings # << >>
    /\ \A k \in DOMAIN adapter.bindings : ~ Conflicts(registry, adapter, k)

\* Mutant: bindings are installed while they are looked at.
RegisterEagerly(registry, adapter) ==
    LET free == {adapter.bindings[k] : k \in
                    {i \in DOMAIN adapter.bindings :
                        \A j \in 1 .. i : ~ Conflicts(registry, adapter, j)}}
    IN  IF Stripped[adapter.id] \in registry.ids \union {""} THEN registry
        ELSE [by_binding |-> registry.by_binding @@ [b \in free |-> adapter],
              ids |-> IF Registrable(registry, adapter)
                      THEN registry.ids \union {Stripped[adapter.id]} ELSE registry.ids]

\* What register leaves, when it returns and when it raises: all the bindings
\* of an adapter are checked before any is installed.
Register(registry, adapter) ==
    IF Registrable(registry, adapter)
    THEN [by_binding |-> [b \in DOMAIN registry.by_binding \union Bindings(adapter) |->
                             IF b \in Bindings(adapter) THEN adapter ELSE registry.by_binding[b]],
          ids |-> registry.ids \union {Stripped[adapter.id]}]
    ELSE registry

\* Manifest(registry)[id]: the bindings reported of a bound adapter, under its
\* id as it was written.
Manifest(registry) ==
    LET bound == registry.by_binding
    IN  [id \in {bound[b].id : b \in DOMAIN bound} |->
            {b \in DOMAIN bound : bound[b].id = id}]

-----------------------------------------------------------------------------
(* build_adapter_registry.                                                 *)

SandboxAdapter ==
    [kind |-> "sandbox", id |-> "sandbox", token |-> FALSE,
     bindings |-> << <<"tool.echo", "echo">>, <<"filesystem.read", "read_text">>,
                     <<"filesystem.write", "write_text">> >>]

GitHubAdapter(token) ==
    [kind |-> "github", id |-> "github", token |-> token,
     bindings |-> << <<"github.repo.read", "get_repo">>,
                     <<"github.issue.create", "create_issue">> >>]

\* A configuration item is [enabled, type, token]: token when the variable it
\* names is set in the environment.  Built(config)[k] is the registry after the
\* first k items, none of which raised.
Built(config) ==
    LET built[k \in 0 .. Len(config)] ==
            IF k = 0 THEN Register(EmptyRegistry, SandboxAdapter)
            ELSE IF config[k].enabled
                 THEN Register(built[k - 1], GitHubAdapter(config[k].token))
            ELSE built[k - 1]
    IN  built

\* No enabled item has an unknown type, and each adapter can be registered in
\* its turn.
Buildable(config) ==
    \A k \in DOMAIN config : config[k].enabled =>
        /\ config[k].type = "github"
        /\ Registrable(Built(config)[k - 1], GitHubAdapter(config[k].token))

BuildAdapterRegistry(config) == Built(config)[Len(config)]

-----------------------------------------------------------------------------
(* What a dispatched request does.                                         *)

Outcome(request, outcome, reason) ==
    last' = [request |-> request, outcome |-> outcome, reason |-> reason]

Fails(request, reason) == Outcome(request, "FAILED", reason) /\ UNCHANGED worldVars

Succeeds(request) == Outcome(request, "SUCCEEDED", "none")

\* UrllibGitHubTransport.request: it fails before GitHub has acted, or after (the
\* answer times out, or is no object), or returns.
Transport(request, effect) ==
    \/ Fails(request, "transport")
    \/ /\ effect
       /\ Succeeds(request) \/ Outcome(request, "FAILED", "transport")

\* GitHubAdapter._get_repo
GetRepo(request) ==
    \/ request.resource \notin RepoNames /\ Fails(request, "resource")
    \/ request.resource \in RepoNames /\ Transport(request, UNCHANGED worldVars)

\* GitHubAdapter._create_issue: resource, payload and token are looked at before
\* the POST.
CreateIssue(adapter, request) ==
    \/ request.resource \notin RepoNames /\ Fails(request, "resource")
    \/ /\ request.resource \in RepoNames
       /\ \/ request.payload # "valid" /\ Fails(request, "payload")
          \/ request.payload = "valid" /\ ~ adapter.token /\ Fails(request, "token")
          \/ /\ request.payload = "valid" /\ adapter.token
             /\ Transport(request, issues' = Append(issues, request.resource) /\ UNCHANGED files)

\* Mutant: only the text of the path is looked at, for a leading slash.
SafePathTextual(resource) == resource # "/etc"

\* SandboxedExecutor._safe_path: the resolved path is under the root.
SafePath(resource) == FileOf[resource] \in Inside

\* SandboxedExecutor._read_text
ReadText(request) ==
    \/ ~ SafePath(request.resource) /\ Fails(request, "escape")
    \/ /\ SafePath(request.resource)
       /\ \/ files[FileOf[request.resource]] = "absent" /\ Fails(request, "not_found")
          \/ /\ files[FileOf[request.resource]] # "absent"
             /\ (Succeeds(request) /\ UNCHANGED worldVars) \/ Fails(request, "io")

WriteTo(resource, text) ==
    files' = [files EXCEPT ![FileOf[resource]] = text] /\ UNCHANGED issues

\* Mutant: the file is opened before the payload is looked at.
WriteTextOpenFirst(request) ==
    \/ ~ SafePath(request.resource) /\ Fails(request, "escape")
    \/ /\ SafePath(request.resource) /\ request.payload # "valid"
       /\ WriteTo(request.resource, "empty") /\ Outcome(request, "FAILED", "payload")
    \/ /\ SafePath(request.resource) /\ request.payload = "valid"
       /\ WriteTo(request.resource, "new") /\ Succeeds(request)

\* SandboxedExecutor._write_text: the file is truncated and then written, and
\* the operating system may fail either step.
WriteText(request) ==
    \/ ~ SafePath(request.resource) /\ Fails(request, "escape")
    \/ /\ SafePath(request.resource)
       /\ \/ request.payload # "valid" /\ Fails(request, "payload")
          \/ /\ request.payload = "valid"
             /\ \/ Fails(request, "io")
                \/ WriteTo(request.resource, "empty") /\ Outcome(request, "FAILED", "io")
                \/ WriteTo(request.resource, "new") /\ Succeeds(request)

\* SandboxedExecutor.execute: the action alone chooses the handler.
SandboxExecute(request) ==
    \/ request.action = "echo" /\ Succeeds(request) /\ UNCHANGED worldVars
    \/ request.action = "read_text" /\ ReadText(request)
    \/ request.action = "write_text" /\ WriteText(request)

\* GitHubAdapter.execute
GitHubExecute(adapter, request) ==
    \/ request.action = "get_repo" /\ GetRepo(request)
    \/ request.action = "create_issue" /\ CreateIssue(adapter, request)

\* An adapter of the executor's own, whose effects are not modelled.
CustomExecute(request) ==
    (Succeeds(request) \/ Outcome(request, "FAILED", "custom")) /\ UNCHANGED worldVars

\* AdapterRegistry.execute under the executor's try: what an adapter raises,
\* and having none, is the outcome FAILED.
Dispatch(request) ==
    LET key == <<request.capability, request.action>>
    IN  \/ /\ key \notin DOMAIN adapters.by_binding
           /\ Fails(request, "adapter_not_found")
        \/ /\ key \in DOMAIN adapters.by_binding
           /\ LET adapter == adapters.by_binding[key]
              IN  \/ adapter.kind = "sandbox" /\ SandboxExecute(request)
                  \/ adapter.kind = "github" /\ GitHubExecute(adapter, request)
                  \/ adapter.kind = "custom" /\ CustomExecute(request)

=============================================================================
