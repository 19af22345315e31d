------------------------- MODULE MaintenanceProofs -------------------------
(***************************************************************************)
(* Triage and the executor's adapters for any snapshots, configurations,   *)
(* adapters, requests, files and paths.                                    *)
(***************************************************************************)
EXTENDS Maintenance, ChainLemmas, SequenceTheorems, FiniteSetTheorems

-----------------------------------------------------------------------------
(* The adapter registry.                                                   *)

Keys == UNION {Bindings(a) : a \in AllAdapters}

\* Registries whose tables agree, as a set.
WholeRegistries ==
    {registry \in [by_binding : UNION {[B -> AllAdapters] : B \in SUBSET Keys},
                   ids : SUBSET {Stripped[a.id] : a \in AllAdapters}] : Whole(registry)}

\* The two adapters that come with the executor bind lists of keys, as others do.
LEMMA BindingsAreLists ==
    ASSUME NEW a \in AllAdapters
    PROVE  /\ a.bindings \in Seq(Bindings(a))
           /\ a.bindings # << >> => Bindings(a) # {}
  <1>1. a.bindings \in Seq(Bindings(a))
    <2>1. CASE a \in Custom
      BY <2>1, CustomAssumption
    <2>2. CASE a = SandboxAdapter
      BY <2>2 DEF SandboxAdapter, Bindings, Range
    <2>3. CASE a \in {GitHubAdapter(TRUE), GitHubAdapter(FALSE)}
      BY <2>3 DEF GitHubAdapter, Bindings, Range
    <2> QED
      BY <2>1, <2>2, <2>3 DEF AllAdapters
  <1>2. a.bindings # << >> => a.bindings[1] \in Bindings(a)
    BY <1>1 DEF Bindings, Range
  <1> QED
    BY <1>1, <1>2

\* register keeps a registry whole, whatever adapter it is given.
LEMMA RegisterKeeps ==
    ASSUME NEW registry \in WholeRegistries, NEW a \in AllAdapters
    PROVE  Register(registry, a) \in WholeRegistries
  <1> DEFINE bound == registry.by_binding
             next == Register(registry, a)
             after == [b \in DOMAIN bound \union Bindings(a) |->
                          IF b \in Bindings(a) THEN a ELSE bound[b]]
  <1>1. CASE ~ Registrable(registry, a)
    BY <1>1 DEF Register
  <1>2. CASE Registrable(registry, a)
    <2>1. /\ bound \in [DOMAIN bound -> AllAdapters] /\ DOMAIN bound \subseteq Keys
          /\ registry.ids \subseteq {Stripped[b.id] : b \in AllAdapters} /\ Whole(registry)
      BY DEF WholeRegistries
    <2>2. /\ next = [by_binding |-> after, ids |-> registry.ids \union {Stripped[a.id]}]
          /\ next.by_binding = after /\ next.ids = registry.ids \union {Stripped[a.id]}
      BY <1>2 DEF Register
    <2>3. /\ Stripped[a.id] \notin registry.ids \union {""} /\ Bindings(a) # {}
          /\ Bindings(a) \intersect DOMAIN bound = {}
      BY <1>2, BindingsAreLists DEF Registrable, Conflicts, Bindings, Range
    <2>4. Bindings(a) \subseteq Keys
      BY DEF Keys
    <2>9. /\ DOMAIN after = DOMAIN bound \union Bindings(a)
          /\ \A b \in DOMAIN bound : after[b] = bound[b]
          /\ \A b \in Bindings(a) : after[b] = a
          /\ after \in [DOMAIN bound \union Bindings(a) -> AllAdapters]
      BY <2>1, <2>3
    <2> HIDE DEF next, after
    <2>5. ASSUME NEW b \in DOMAIN next.by_binding
          PROVE  /\ next.by_binding[b] \in AllAdapters
                 /\ Stripped[next.by_binding[b].id] \in next.ids
      BY <2>1, <2>2, <2>9, <2>5 DEF Whole
    <2>6. ASSUME NEW id \in next.ids
          PROVE  \E c \in AllAdapters :
                     /\ Stripped[c.id] = id /\ Bindings(c) # {}
                     /\ Bindings(c) = {b \in DOMAIN next.by_binding : next.by_binding[b] = c}
                     /\ \A b \in DOMAIN next.by_binding :
                           Stripped[next.by_binding[b].id] = id => next.by_binding[b] = c
      <3>1. CASE id = Stripped[a.id]
        <4>1. \A b \in DOMAIN bound : Stripped[bound[b].id] # id /\ bound[b] # a
          BY <2>1, <2>3, <3>1 DEF Whole
        <4>2. Bindings(a) = {b \in DOMAIN next.by_binding : next.by_binding[b] = a}
          BY <2>2, <2>9, <2>3, <4>1
        <4>3. \A b \in DOMAIN next.by_binding :
                  Stripped[next.by_binding[b].id] = id => next.by_binding[b] = a
          BY <2>2, <2>9, <4>1
        <4> QED
          BY <2>3, <3>1, <4>2, <4>3
      <3>2. CASE id \in registry.ids
        <4>1. PICK c \in AllAdapters :
                  /\ Stripped[c.id] = id /\ Bindings(c) # {}
                  /\ Bindings(c) = {b \in DOMAIN bound : bound[b] = c}
                  /\ \A b \in DOMAIN bound : Stripped[bound[b].id] = id => bound[b] = c
          BY <2>1, <3>2 DEF Whole
        <4>2. a # c /\ Stripped[a.id] # id
          BY <2>3, <3>2, <4>1
        <4>3. {b \in DOMAIN bound : bound[b] = c}
                 = {b \in DOMAIN next.by_binding : next.by_binding[b] = c}
          BY <2>2, <2>9, <4>2
        <4>4. \A b \in DOMAIN next.by_binding :
                  Stripped[next.by_binding[b].id] = id => next.by_binding[b] = c
          BY <2>2, <2>9, <4>1, <4>2
        <4> QED
          BY <4>1, <4>3, <4>4
      <3> QED
        BY <2>2, <3>1, <3>2
    <2>7. Whole(next)
      <3>1. "" \notin next.ids
        BY <2>1, <2>2, <2>3 DEF Whole
      <3> QED
        BY <2>5, <2>6, <3>1 DEF Whole
    <2>8. next \in [by_binding : UNION {[B -> AllAdapters] : B \in SUBSET Keys},
                    ids : SUBSET {Stripped[b.id] : b \in AllAdapters}]
      <3>1. DOMAIN bound \union Bindings(a) \in SUBSET Keys
        BY <2>1, <2>4
      <3>2. registry.ids \union {Stripped[a.id]} \in SUBSET {Stripped[b.id] : b \in AllAdapters}
        BY <2>1
      <3>3. after \in UNION {[B -> AllAdapters] : B \in SUBSET Keys}
        BY <2>9, <3>1
      <3> QED
        BY <2>2, <3>2, <3>3
    <2> QED
      BY <2>7, <2>8 DEF WholeRegistries, next
  <1> QED
    BY <1>1, <1>2

\* An executor that has not started has a whole registry: an empty one.
LEMMA EmptyIsWhole == EmptyRegistry \in WholeRegistries
  <1>1. << >> \in [{} -> AllAdapters] /\ DOMAIN << >> = {}
    OBVIOUS
  <1>2. << >> \in UNION {[B -> AllAdapters] : B \in SUBSET Keys}
    BY <1>1
  <1> QED
    BY <1>1, <1>2 DEF WholeRegistries, EmptyRegistry, Whole

\* f is what Built defines.
IsBuilt(f, config) ==
    f = [k \in 0 .. Len(config) |->
            IF k = 0 THEN Register(EmptyRegistry, SandboxAdapter)
            ELSE IF config[k].enabled THEN Register(f[k - 1], GitHubAdapter(config[k].token))
            ELSE f[k - 1]]

\* The executor starts with a whole registry, whatever its configuration.
LEMMA BuiltIsWhole ==
    ASSUME NEW config \in Configs
    PROVE  BuildAdapterRegistry(config) \in WholeRegistries
  <1> DEFINE first == Register(EmptyRegistry, SandboxAdapter)
             step == [k \in 1 .. Len(config) |-> [r \in WholeRegistries |->
                         IF config[k].enabled THEN Register(r, GitHubAdapter(config[k].token))
                         ELSE r]]
  <1>1. /\ Len(config) \in Nat
        /\ \A k \in 1 .. Len(config) : config[k].token \in BOOLEAN
    <2>1. config \in Seq(Range(config)) /\ \A item \in Range(config) : item.token \in BOOLEAN
      BY ConfigsAssumption
    <2>2. \A k \in DOMAIN config : config[k] \in Range(config)
      BY DEF Range
    <2> QED
      BY <2>1, <2>2
  <1>2. first \in WholeRegistries
    <2>1. SandboxAdapter \in AllAdapters
      BY DEF AllAdapters
    <2> QED
      BY <2>1, EmptyIsWhole, RegisterKeeps
  <1>3. ASSUME NEW k \in 1 .. Len(config), NEW r \in WholeRegistries
        PROVE  Register(r, GitHubAdapter(config[k].token)) \in WholeRegistries
    <2>1. GitHubAdapter(config[k].token) \in AllAdapters
      <3>1. config[k].token \in {TRUE, FALSE}
        BY <1>1
      <3>2. CASE config[k].token = TRUE
        BY <3>2 DEF AllAdapters
      <3>3. CASE config[k].token = FALSE
        BY <3>3 DEF AllAdapters
      <3> QED
        BY <3>1, <3>2, <3>3
    <2> QED
      BY <2>1, RegisterKeeps
  <1>4. step \in [1 .. Len(config) -> [WholeRegistries -> WholeRegistries]]
    BY <1>3
  <1>5. PICK f \in [0 .. Len(config) -> WholeRegistries] :
            f[0] = first /\ \A n \in 1 .. Len(config) : f[n] = step[n][f[n - 1]]
    <2> DEFINE l == Len(config)
               S == WholeRegistries
    <2>1. l \in Nat /\ first \in S /\ step \in [1 .. l -> [S -> S]]
      BY <1>1, <1>2, <1>4
    <2> HIDE DEF first, step, l, S
    <2>2. \E f \in [0 .. l -> S] : f[0] = first /\ \A n \in 1 .. l : f[n] = step[n][f[n - 1]]
      BY <2>1, Iterated
    <2> QED
      BY <2>2 DEF l, S
  <1>6. IsBuilt(f, config)
    <2>1. ASSUME NEW n \in 0 .. Len(config)
          PROVE  f[n] = IF n = 0 THEN first
                        ELSE IF config[n].enabled
                             THEN Register(f[n - 1], GitHubAdapter(config[n].token))
                        ELSE f[n - 1]
      <3>1. CASE n = 0
        BY <1>5, <3>1
      <3>2. CASE n # 0
        <4>1. n \in 1 .. Len(config) /\ n - 1 \in 0 .. Len(config)
          BY <1>1, <3>2
        <4>2. f[n - 1] \in WholeRegistries
          BY <4>1
        <4>3. f[n] = step[n][f[n - 1]]
          BY <1>5, <4>1, Zenon
        <4>4. step[n][f[n - 1]] = IF config[n].enabled
                                  THEN Register(f[n - 1], GitHubAdapter(config[n].token))
                                  ELSE f[n - 1]
          BY <4>1, <4>2, Zenon
        <4> QED
          BY <3>2, <4>3, <4>4, Zenon
      <3> QED
        BY <3>1, <3>2
    <2> HIDE DEF first, step
    <2>2. f = [n \in 0 .. Len(config) |-> f[n]]
      BY <1>5
    <2> QED
      BY <2>1, <2>2, Zenon DEF IsBuilt, first
  <1>7. PICK g : IsBuilt(g, config) /\ Built(config) = g
    <2>1. Built(config) = CHOOSE g : IsBuilt(g, config)
      BY DEF Built, IsBuilt
    <2> QED
      BY <1>6, <2>1
  <1> DEFINE A == {k \in Nat : g[k] \in WholeRegistries}
  <1>8. 0 \in A
    <2>1. g[0] = first
      BY <1>1, <1>7 DEF IsBuilt
    <2> QED
      BY <1>2, <2>1
  <1>9. ASSUME NEW n \in 0 .. Len(config) - 1, n \in A PROVE n + 1 \in A
    <2> DEFINE m == n + 1
    <2>1. m \in 1 .. Len(config) /\ m \in 0 .. Len(config) /\ m # 0 /\ m - 1 = n /\ m \in Nat
      BY <1>1
    <2> HIDE DEF m
    <2>2. g[m] = IF config[m].enabled THEN Register(g[n], GitHubAdapter(config[m].token)) ELSE g[n]
      BY <1>7, <2>1, Zenon DEF IsBuilt
    <2>3. g[n] \in WholeRegistries
      BY <1>9
    <2>4. g[m] \in WholeRegistries
      BY <1>3, <2>1, <2>2, <2>3
    <2> QED
      BY <2>1, <2>4 DEF m
  <1>10. \A n \in 0 .. Len(config) : n \in A
    <2> HIDE DEF A
    <2> QED
      BY <1>1, <1>8, <1>9, Induction
  <1> QED
    BY <1>1, <1>7, <1>10 DEF BuildAdapterRegistry

-----------------------------------------------------------------------------
(* What adapters do.                                                       *)

\* Every answer of an adapter tells what happened to the world.
LEMMA DispatchTells ==
    ASSUME NEW request, Dispatch(request)
    PROVE  last'.request = request /\ last'.outcome \in {"SUCCEEDED", "FAILED"} /\ ToldEffect
  <1> DEFINE key == <<request.capability, request.action>>
             adapter == adapters.by_binding[key]
             target == FileOf[request.resource]
  <1>1. ASSUME NEW reason, Fails(request, reason)
        PROVE  last'.request = request /\ last'.outcome = "FAILED" /\ ToldEffect
    <2>1. /\ last'.request = request /\ last'.outcome = "FAILED"
          /\ issues' = issues /\ files' = files
      BY <1>1 DEF Fails, Outcome, worldVars
    <2> QED
      BY <2>1 DEF ToldEffect, worldVars
  <1>2. ASSUME NEW reason \in {"transport", "io"}, Outcome(request, "FAILED", reason),
               issues' \in {issues, Append(issues, request.resource)},
               \A f \in DOMAIN files : files'[f] # files[f] => f = target
        PROVE  last'.request = request /\ last'.outcome = "FAILED" /\ ToldEffect
    BY <1>2 DEF Outcome, ToldEffect
  <1>3. ASSUME Succeeds(request) \/ \E reason : Outcome(request, "FAILED", reason),
               UNCHANGED worldVars,
               HandledBy("github", request) => request.action # "create_issue",
               HandledBy("sandbox", request) => request.action # "write_text"
        PROVE  last'.request = request /\ last'.outcome \in {"SUCCEEDED", "FAILED"} /\ ToldEffect
    <2>1. /\ last'.request = request /\ last'.outcome \in {"SUCCEEDED", "FAILED"}
          /\ issues' = issues /\ files' = files
      BY <1>3 DEF Succeeds, Outcome, worldVars
    <2> QED
      BY <1>3, <2>1 DEF ToldEffect, worldVars
  <1>4. ASSUME NEW kind PROVE HandledBy(kind, request) =>
            key \in DOMAIN adapters.by_binding /\ adapter.kind = kind
    BY DEF HandledBy
  <1>5. CASE key \notin DOMAIN adapters.by_binding
    BY <1>1, <1>5 DEF Dispatch
  <1>6. CASE key \in DOMAIN adapters.by_binding /\ adapter.kind = "sandbox" /\ SandboxExecute(request)
    <2>1. CASE request.action = "echo"
      BY <1>3, <1>4, <1>6, <2>1 DEF SandboxExecute
    <2>2. CASE request.action = "read_text" /\ ReadText(request)
      BY <1>1, <1>3, <1>4, <1>6, <2>2 DEF ReadText
    <2>3. CASE request.action = "write_text" /\ WriteText(request)
      <3>1. ASSUME NEW text, WriteTo(request.resource, text)
            PROVE  /\ issues' = issues
                   /\ files' = [files EXCEPT ![target] = text]
                   /\ \A f \in DOMAIN files : files'[f] # files[f] => f = target
        BY <3>1 DEF WriteTo
      <3>2. CASE WriteTo(request.resource, "empty") /\ Outcome(request, "FAILED", "io")
        BY <1>2, <3>1, <3>2
      <3>3. CASE WriteTo(request.resource, "new") /\ Succeeds(request)
        <4>1. last'.request = request /\ last'.outcome = "SUCCEEDED"
          BY <3>3 DEF Succeeds, Outcome
        <4>2. HandledBy("sandbox", request) /\ ~ HandledBy("github", request)
          BY <1>6 DEF HandledBy
        <4> QED
          BY <2>3, <3>1, <3>3, <4>1, <4>2 DEF ToldEffect
      <3> QED
        BY <1>1, <2>3, <3>2, <3>3 DEF WriteText
    <2> QED
      BY <1>6, <2>1, <2>2, <2>3 DEF SandboxExecute
  <1>7. CASE key \in DOMAIN adapters.by_binding /\ adapter.kind = "github"
             /\ GitHubExecute(adapter, request)
    <2>1. CASE request.action = "get_repo" /\ GetRepo(request)
      BY <1>1, <1>3, <1>4, <1>7, <2>1 DEF GetRepo, Transport
    <2>2. CASE request.action = "create_issue" /\ CreateIssue(adapter, request)
      <3> DEFINE effect == issues' = Append(issues, request.resource) /\ UNCHANGED files
      <3>1. CASE effect /\ Outcome(request, "FAILED", "transport")
        BY <1>2, <3>1
      <3>2. CASE effect /\ Succeeds(request)
        <4>1. last'.request = request /\ last'.outcome = "SUCCEEDED"
          BY <3>2 DEF Succeeds, Outcome
        <4>2. HandledBy("github", request)
          BY <1>7 DEF HandledBy
        <4> QED
          BY <2>2, <3>2, <4>1, <4>2, <1>4, <1>7 DEF ToldEffect
      <3> QED
        BY <1>1, <2>2, <3>1, <3>2 DEF CreateIssue, Transport
    <2> QED
      BY <1>7, <2>1, <2>2 DEF GitHubExecute
  <1>8. CASE key \in DOMAIN adapters.by_binding /\ adapter.kind = "custom" /\ CustomExecute(request)
    BY <1>3, <1>4, <1>8 DEF CustomExecute
  <1> QED
    BY <1>5, <1>6, <1>7, <1>8 DEF Dispatch

\* What is dispatched changes files under the sandbox root only, and adds at most
\* an issue for a repository.
LEMMA DispatchConfined ==
    ASSUME NEW request, Dispatch(request)
    PROVE  /\ \/ files' = files
              \/ /\ FileOf[request.resource] \in Inside
                 /\ \E text \in {"empty", "new"} :
                       files' = [files EXCEPT ![FileOf[request.resource]] = text]
           /\ \/ issues' = issues
              \/ /\ request.action = "create_issue" /\ request.resource \in RepoNames
                 /\ issues' = Append(issues, request.resource)
  <1> DEFINE adapter == adapters.by_binding[<<request.capability, request.action>>]
  <1>1. ASSUME NEW reason, Fails(request, reason) PROVE files' = files /\ issues' = issues
    BY <1>1 DEF Fails, worldVars
  <1>2. CASE SandboxExecute(request)
    BY <1>1, <1>2 DEF SandboxExecute, ReadText, WriteText, WriteTo, SafePath, worldVars
  <1>3. CASE GitHubExecute(adapter, request)
    BY <1>1, <1>3 DEF GitHubExecute, GetRepo, CreateIssue, Transport, worldVars
  <1> QED
    BY <1>1, <1>2, <1>3 DEF Dispatch, CustomExecute, worldVars

-----------------------------------------------------------------------------
(* Registry and world are kept in order.                                   *)

\* The registry is whole, with the types of its tables.
RegistryInv == adapters \in WholeRegistries

WorldInv ==
    /\ issues \in Seq(RepoNames) /\ Len(issues) <= MaxIssues
    /\ files \in [DOMAIN InitialFiles -> {"absent", "old", "new", "empty"}]
    /\ last.outcome \in {"none", "SUCCEEDED", "FAILED"}
    /\ WritesConfined

\* No step tears the registry, a restart of the executor included.
LEMMA RegistryStep == RegistryInv /\ [Next]_vars => RegistryInv'
  <1> SUFFICES ASSUME RegistryInv, [Next]_vars PROVE RegistryInv'
    OBVIOUS
  <1>1. ASSUME NEW config \in Configs, StartExecutor(config) PROVE RegistryInv'
    BY <1>1, BuiltIsWhole, EmptyIsWhole DEF StartExecutor, RegistryInv
  <1>2. ASSUME NEW a \in Custom, RegisterCustom(a) PROVE RegistryInv'
    <2>1. a \in AllAdapters
      BY DEF AllAdapters
    <2> QED
      BY <1>2, <2>1, RegisterKeeps DEF RegisterCustom, RegistryInv
  <1>3. CASE UNCHANGED adapters
    BY <1>3 DEF RegistryInv
  <1> QED
    BY <1>1, <1>2, <1>3 DEF Next, vars, LoadRepoSnapshot, Maintain, Propose, Run

\* Files, issues and the last outcome keep their types, and the sandbox holds.
LEMMA WorldStep == WorldInv /\ [Next]_vars => WorldInv'
  <1> SUFFICES ASSUME WorldInv, [Next]_vars PROVE WorldInv'
    OBVIOUS
  <1>1. ASSUME NEW request, Run(request) PROVE WorldInv'
    <2>1. last'.outcome \in {"SUCCEEDED", "FAILED"}
      BY <1>1, DispatchTells DEF Run
    <2>2. issues' \in Seq(RepoNames) /\ Len(issues') <= MaxIssues
      <3>1. CASE issues' = issues
        BY <3>1 DEF WorldInv
      <3>2. CASE request.action = "create_issue" /\ request.resource \in RepoNames
                 /\ issues' = Append(issues, request.resource)
        BY <1>1, <3>2, BoundAssumption DEF WorldInv, Run
      <3> QED
        BY <1>1, <3>1, <3>2, DispatchConfined DEF Run
    <2>3. /\ files' \in [DOMAIN InitialFiles -> {"absent", "old", "new", "empty"}]
          /\ \A f \in DOMAIN files : f \notin Inside => files'[f] = files[f]
      <3>1. \/ files' = files
            \/ /\ FileOf[request.resource] \in Inside
               /\ \E text \in {"empty", "new"} :
                     files' = [files EXCEPT ![FileOf[request.resource]] = text]
        BY <1>1, DispatchConfined DEF Run
      <3> QED
        BY <3>1 DEF WorldInv
    <2>4. WritesConfined'
      BY <2>3 DEF WorldInv, WritesConfined
    <2> QED
      BY <2>1, <2>2, <2>3, <2>4 DEF WorldInv
  <1>2. CASE UNCHANGED <<issues, files, last>>
    BY <1>2 DEF WorldInv, WritesConfined
  <1> QED
    BY <1>1, <1>2 DEF Next, vars, LoadRepoSnapshot, Maintain, StartExecutor, RegisterCustom, Propose

-----------------------------------------------------------------------------
(* Sorting.                                                                *)

\* A strict total order of places.
IsOrder(places, ahead) ==
    /\ \A i \in places : <<i, i>> \notin ahead
    /\ \A i, j \in places : i # j => <<i, j>> \in ahead \/ <<j, i>> \in ahead
    /\ \A i, j, k \in places : <<i, j>> \in ahead /\ <<j, k>> \in ahead => <<i, k>> \in ahead

\* The places that come before i; their number is i's rank.
Ahead(places, ahead, i) == {j \in places : <<j, i>> \in ahead}

\* A place has fewer others before it than one that comes later.
LEMMA RanksDiffer ==
    ASSUME NEW places, IsFiniteSet(places), NEW ahead, IsOrder(places, ahead),
           NEW i \in places, NEW j \in places, <<i, j>> \in ahead
    PROVE  Cardinality(Ahead(places, ahead, i)) < Cardinality(Ahead(places, ahead, j))
  <1> DEFINE I == Ahead(places, ahead, i)
             J == Ahead(places, ahead, j)
  <1>1. I \subseteq J /\ i \in J /\ i \notin I /\ J \subseteq places
    BY DEF Ahead, IsOrder
  <1> HIDE DEF I, J
  <1>2. IsFiniteSet(J)
    BY <1>1, FS_Subset
  <1>3. /\ IsFiniteSet(I) /\ Cardinality(I) <= Cardinality(J)
        /\ Cardinality(J) = Cardinality(I) => J = I
    BY <1>1, <1>2, FS_Subset
  <1>4. Cardinality(I) \in Nat /\ Cardinality(J) \in Nat
    BY <1>2, <1>3, FS_CardinalityType
  <1> QED
    BY <1>1, <1>3, <1>4 DEF I, J

\* InOrder lists every place once, in the order.
LEMMA InOrderLists ==
    ASSUME NEW places, IsFiniteSet(places), NEW ahead, IsOrder(places, ahead)
    PROVE  LET order == InOrder(places, ahead)
               n == Cardinality(places)
           IN  /\ n \in Nat
               /\ order \in [1 .. n -> places]
               /\ \A k \in 1 .. n : Cardinality(Ahead(places, ahead, order[k])) = k - 1
               /\ \A i \in places : /\ Cardinality(Ahead(places, ahead, i)) + 1 \in 1 .. n
                                    /\ order[Cardinality(Ahead(places, ahead, i)) + 1] = i
               /\ \A k, l \in 1 .. n : k < l <=> <<order[k], order[l]>> \in ahead
  <1> DEFINE order == InOrder(places, ahead)
             n == Cardinality(places)
             Rank(i) == Cardinality(Ahead(places, ahead, i))
             rank == [i \in places |-> Rank(i) + 1]
  <1>1. n \in Nat
    BY FS_CardinalityType
  <1>2. ASSUME NEW i \in places PROVE Rank(i) \in Nat /\ Rank(i) + 1 \in 1 .. n
    <2> DEFINE I == Ahead(places, ahead, i)
    <2>1. I \subseteq places /\ i \notin I
      BY DEF Ahead, IsOrder
    <2> HIDE DEF I
    <2>2. /\ IsFiniteSet(I) /\ Cardinality(I) <= n
          /\ n = Cardinality(I) => places = I
      BY <2>1, FS_Subset
    <2>3. Cardinality(I) \in Nat
      BY <2>2, FS_CardinalityType
    <2>4. Cardinality(I) # n
      BY <2>1, <2>2
    <2> QED
      BY <1>1, <2>2, <2>3, <2>4 DEF I
  <1>3. ASSUME NEW i \in places, NEW j \in places PROVE Rank(i) < Rank(j) <=> <<i, j>> \in ahead
    <2>1. CASE <<i, j>> \in ahead
      BY <2>1, RanksDiffer
    <2>2. CASE i = j
      BY <1>2, <2>2 DEF IsOrder
    <2>3. CASE <<j, i>> \in ahead
      <3>1. Rank(j) < Rank(i)
        BY <2>3, RanksDiffer
      <3>2. <<i, j>> \notin ahead
        BY <2>3 DEF IsOrder
      <3> HIDE DEF Rank
      <3> QED
        BY <1>2, <3>1, <3>2
    <2> QED
      BY <2>1, <2>2, <2>3 DEF IsOrder
  <1> HIDE DEF Rank
  <1>4. ASSUME NEW i \in places, NEW j \in places, Rank(i) = Rank(j) PROVE i = j
    <2>1. Rank(i) \in Nat /\ Rank(j) \in Nat
      BY <1>2
    <2>2. ~ (<<i, j>> \in ahead) /\ ~ (<<j, i>> \in ahead)
      BY <1>3, <1>4, <2>1
    <2> QED
      BY <2>2 DEF IsOrder
  <1>5. rank \in Injection(places, 1 .. n)
    <2>1. rank \in [places -> 1 .. n]
      BY <1>2
    <2>2. \A i, j \in places : rank[i] = rank[j] => i = j
      BY <1>2, <1>4
    <2> QED
      BY <2>1, <2>2 DEF Injection, IsInjective
  <1>6. rank \in Surjection(places, 1 .. n)
    <2>1. IsFiniteSet(1 .. n) /\ Cardinality(1 .. n) = n
      BY <1>1, FS_Interval
    <2> HIDE DEF rank, n
    <2> QED
      BY <1>5, <2>1, FS_Injection DEF n
  <1>7. ASSUME NEW k \in 1 .. n PROVE order[k] \in places /\ Rank(order[k]) = k - 1
    <2>1. PICK i \in places : rank[i] = k
      BY <1>6 DEF Surjection
    <2>2. Rank(i) = k - 1
      BY <1>2, <2>1
    <2>3. order[k] = CHOOSE j \in places : Rank(j) = k - 1
      BY DEF InOrder, Rank, Ahead
    <2> HIDE DEF order
    <2> QED
      BY <2>2, <2>3
  <1>8. order \in [1 .. n -> places]
    <2> DEFINE pick(k) == CHOOSE i \in places : Cardinality({j \in places : <<j, i>> \in ahead}) = k - 1
    <2>1. order = [k \in 1 .. n |-> pick(k)]
      BY DEF InOrder
    <2> HIDE DEF order, pick
    <2>2. \A k \in 1 .. n : pick(k) \in places
      BY <1>7, <2>1
    <2> QED
      BY <2>1, <2>2
  <1> HIDE DEF order
  <1>9. ASSUME NEW i \in places PROVE order[Rank(i) + 1] = i
    <2>1. Rank(i) + 1 \in 1 .. n /\ Rank(i) \in Nat
      BY <1>2
    <2>2. order[Rank(i) + 1] \in places /\ Rank(order[Rank(i) + 1]) = Rank(i)
      BY <1>7, <2>1
    <2> QED
      BY <1>4, <2>2
  <1>10. ASSUME NEW k \in 1 .. n, NEW l \in 1 .. n
         PROVE  k < l <=> <<order[k], order[l]>> \in ahead
    <2>1. Rank(order[k]) = k - 1 /\ Rank(order[l]) = l - 1 /\ k \in Int /\ l \in Int
      BY <1>7
    <2> QED
      BY <1>3, <1>7, <2>1
  <1> QED
    BY <1>1, <1>2, <1>7, <1>8, <1>9, <1>10 DEF order, Rank

-----------------------------------------------------------------------------
(* Scores are integers.                                                    *)

\* A weight is an integer, whatever key it is looked up by (dict.get with 0).
LEMMA WeightIsInt ==
    ASSUME NEW key
    PROVE  Weight(ClassWeights, key) \in Int /\ Weight(SignalWeights, key) \in Int
  <1>1. Weight(ClassWeights, key) \in Int
    <2>1. \A k \in DOMAIN ClassWeights : ClassWeights[k] \in Int
      BY DEF ClassWeights
    <2> QED
      BY <2>1 DEF Weight
  <1>2. Weight(SignalWeights, key) \in Int
    <2>1. \A k \in DOMAIN SignalWeights : SignalWeights[k] \in Int
      BY DEF SignalWeights
    <2> QED
      BY <2>1 DEF Weight
  <1> QED
    BY <1>1, <1>2

\* f is what SignalScore defines.
IsSum(f, signals) ==
    f = [k \in 0 .. Len(signals) |->
            IF k = 0 THEN 0 ELSE f[k - 1] + Weight(SignalWeights, signals[k])]

\* The sum over the signals of an observation is an integer.
LEMMA SignalScoreIsInt ==
    ASSUME NEW S, NEW signals \in Seq(S)
    PROVE  SignalScore(signals) \in Int
  <1> DEFINE l == Len(signals)
             w(k) == Weight(SignalWeights, signals[k])
             step == [k \in 1 .. l |-> [x \in Int |-> x + w(k)]]
  <1>1. l \in Nat
    OBVIOUS
  <1>2. \A k \in 1 .. l : w(k) \in Int
    BY WeightIsInt
  <1> HIDE DEF w
  <1>3. step \in [1 .. l -> [Int -> Int]]
    BY <1>2
  <1>4. PICK f \in [0 .. l -> Int] : f[0] = 0 /\ \A n \in 1 .. l : f[n] = step[n][f[n - 1]]
    <2> DEFINE S1 == Int
               zero == 0
    <2>1. zero \in S1 /\ step \in [1 .. l -> [S1 -> S1]]
      BY <1>3
    <2> HIDE DEF step, l, S1, zero
    <2>2. \E f \in [0 .. l -> S1] : f[0] = zero /\ \A n \in 1 .. l : f[n] = step[n][f[n - 1]]
      BY <1>1, <2>1, Iterated
    <2> QED
      BY <2>2 DEF S1, zero
  <1>5. IsSum(f, signals)
    <2>1. ASSUME NEW n \in 0 .. l PROVE f[n] = IF n = 0 THEN 0 ELSE f[n - 1] + w(n)
      <3>1. CASE n \in 1 .. l
        <4>1. n - 1 \in 0 .. l /\ n # 0
          BY <1>1, <3>1
        <4>2. f[n - 1] \in Int
          BY <1>4, <4>1
        <4>3. step[n] = [x \in Int |-> x + w(n)]
          BY <3>1
        <4> HIDE DEF step, l
        <4>4. f[n] = step[n][f[n - 1]]
          BY <1>4, <3>1
        <4> QED
          BY <4>1, <4>2, <4>3, <4>4
      <3> QED
        BY <1>4, <3>1
    <2>2. f = [n \in 0 .. l |-> f[n]]
      OBVIOUS
    <2> QED
      BY <2>1, <2>2, Zenon DEF IsSum, w
  <1>6. PICK g : IsSum(g, signals) /\ SignalScore(signals) = g[l]
    <2>1. SignalScore(signals) = (CHOOSE g : IsSum(g, signals))[l]
      BY DEF SignalScore, IsSum
    <2> QED
      BY <1>5, <2>1
  <1>7. \A n \in 0 .. l : g[n] = IF n = 0 THEN 0 ELSE g[n - 1] + w(n)
    BY <1>6, Zenon DEF IsSum, w
  <1> DEFINE A == {k \in Nat : g[k] \in Int}
  <1> HIDE DEF step, l
  <1>8. 0 \in A
    BY <1>1, <1>7
  <1>9. ASSUME NEW n \in 0 .. l - 1, n \in A PROVE n + 1 \in A
    <2>0. n + 1 \in 1 .. l /\ n + 1 \in Nat /\ (n + 1) - 1 = n /\ n + 1 \in 0 .. l /\ n + 1 # 0
      BY <1>1
    <2>1. n + 1 \in 1 .. l /\ n + 1 \in Nat /\ g[n + 1] = g[n] + w(n + 1)
      BY <1>7, <2>0
    <2> QED
      BY <1>2, <1>9, <2>1
  <1>10. \A n \in 0 .. l : n \in A
    <2> HIDE DEF A, l
    <2> QED
      BY <1>1, <1>8, <1>9, Induction
  <1> QED
    BY <1>1, <1>6, <1>10

\* What RepoObservation holds.
IsObservation(o) ==
    o.lower \in Nat /\ o.archived \in BOOLEAN /\ o.signals \in Seq(Range(o.signals))

\* What both sorts look at: an integer score and a name.
LEMMA CandidateKeys ==
    ASSUME NEW o, IsObservation(o)
    PROVE  /\ Candidate(o).score = Score(o) /\ Candidate(o).lower = o.lower
           /\ Score(o) \in Int /\ o.lower \in Nat
  <1>1. SignalScore(o.signals) \in Int
    BY SignalScoreIsInt DEF IsObservation
  <1>2. Weight(ClassWeights, o.repo_class) \in Int
    BY WeightIsInt
  <1>3. (IF o.archived THEN SignalWeights["archived"] ELSE 0) \in Int
    BY DEF SignalWeights
  <1>4. Score(o) \in Int
    BY <1>1, <1>2, <1>3 DEF Score
  <1> QED
    BY <1>4 DEF Candidate, IsObservation

-----------------------------------------------------------------------------
(* The two orders.                                                         *)

IsSnapshot(s) == s \in Seq(Range(s)) /\ \A i \in DOMAIN s : IsObservation(s[i])

ByScore(s) == Stably(Candidates(s), Precedes)
ByName(s) == Stably(s, LAMBDA a, b : a.lower < b.lower)

\* The order of select: by score downwards, then by name, then as in the file.
LEMMA ByScoreIs ==
    ASSUME NEW s, IsSnapshot(s), NEW i \in DOMAIN s, NEW j \in DOMAIN s
    PROVE  <<i, j>> \in ByScore(s) <=>
               \/ Score(s[i]) > Score(s[j])
               \/ /\ Score(s[i]) = Score(s[j])
                  /\ s[i].lower < s[j].lower \/ (s[i].lower = s[j].lower /\ i < j)
  <1> DEFINE c == Candidates(s)
  <1>1. /\ DOMAIN c = DOMAIN s /\ c[i] = Candidate(s[i]) /\ c[j] = Candidate(s[j])
    BY DEF Candidates
  <1>2. /\ c[i].score = Score(s[i]) /\ c[i].lower = s[i].lower
        /\ c[j].score = Score(s[j]) /\ c[j].lower = s[j].lower
        /\ Score(s[i]) \in Int /\ Score(s[j]) \in Int
        /\ s[i].lower \in Nat /\ s[j].lower \in Nat
    BY <1>1, CandidateKeys DEF IsSnapshot
  <1> HIDE DEF c
  <1>3. <<i, j>> \in ByScore(s) <=>
            Precedes(c[i], c[j]) \/ (~ Precedes(c[j], c[i]) /\ i < j)
    BY <1>1 DEF ByScore, Stably, c
  <1>4. i \in Nat /\ j \in Nat
    BY DEF IsSnapshot
  <1> QED
    BY <1>2, <1>3, <1>4 DEF Precedes

\* The order of the digest: by name, then as in the file.
LEMMA ByNameIs ==
    ASSUME NEW s, IsSnapshot(s), NEW i \in DOMAIN s, NEW j \in DOMAIN s
    PROVE  <<i, j>> \in ByName(s) <=>
               s[i].lower < s[j].lower \/ (s[i].lower = s[j].lower /\ i < j)
  <1>1. <<i, j>> \in ByName(s) <=>
            s[i].lower < s[j].lower \/ (~ (s[j].lower < s[i].lower) /\ i < j)
    BY DEF ByName, Stably
  <1>2. s[i].lower \in Nat /\ s[j].lower \in Nat /\ i \in Nat /\ j \in Nat
    BY DEF IsSnapshot, IsObservation
  <1> QED
    BY <1>1, <1>2

\* Places of a snapshot, all or some, are totally ordered by either.
LEMMA OrdersOfSnapshot ==
    ASSUME NEW s, IsSnapshot(s), NEW places, places \subseteq DOMAIN s
    PROVE  /\ IsFiniteSet(places)
           /\ IsOrder(places, ByScore(s)) /\ IsOrder(places, ByName(s))
  <1>1. Len(s) \in Nat /\ DOMAIN s = 1 .. Len(s)
    BY DEF IsSnapshot
  <1>2. IsFiniteSet(places)
    <2>1. IsFiniteSet(1 .. Len(s)) /\ places \subseteq 1 .. Len(s)
      BY <1>1, FS_Interval
    <2> QED
      BY <2>1, FS_Subset
  <1>3. \A i \in places : i \in DOMAIN s /\ i \in Int /\ s[i].lower \in Int /\ Score(s[i]) \in Int
    BY <1>1, CandidateKeys DEF IsSnapshot
  <1>4. IsOrder(places, ByScore(s))
    <2> DEFINE sc == [i \in places |-> Score(s[i])]
    <2>1. ASSUME NEW i \in places, NEW j \in places
          PROVE  <<i, j>> \in ByScore(s) <=>
                     \/ sc[i] > sc[j]
                     \/ sc[i] = sc[j] /\ s[i].lower < s[j].lower
                     \/ sc[i] = sc[j] /\ s[i].lower = s[j].lower /\ i < j
      BY ByScoreIs
    <2>2. \A i \in places : sc[i] \in Int
      BY <1>3
    <2> HIDE DEF sc
    <2> QED
      BY <1>3, <2>1, <2>2 DEF IsOrder
  <1>5. IsOrder(places, ByName(s))
    <2>1. ASSUME NEW i \in places, NEW j \in places
          PROVE  <<i, j>> \in ByName(s) <=>
                     s[i].lower < s[j].lower \/ (s[i].lower = s[j].lower /\ i < j)
      BY ByNameIs
    <2> QED
      BY <1>3, <2>1 DEF IsOrder
  <1> QED
    BY <1>2, <1>4, <1>5

\* An image under a function that is one to one has as many elements.
LEMMA SameNumber ==
    ASSUME NEW X, IsFiniteSet(X), NEW f, X \subseteq DOMAIN f,
           \A x, y \in X : f[x] = f[y] => x = y
    PROVE  IsFiniteSet({f[x] : x \in X}) /\ Cardinality({f[x] : x \in X}) = Cardinality(X)
  <1> DEFINE Y == {f[x] : x \in X}
             g == [x \in X |-> f[x]]
  <1>1. g \in Bijection(X, Y)
    BY DEF Bijection, Injection, Surjection, IsInjective
  <1> HIDE DEF g, Y
  <1>2. ExistsBijection(X, Y)
    BY <1>1 DEF ExistsBijection
  <1> QED
    BY <1>2, FS_Bijection DEF Y

\* t is s rearranged so that names that are the same stay in their order.
Rearranged(s, t, pi) ==
    /\ pi \in Bijection(DOMAIN s, DOMAIN t)
    /\ \A i \in DOMAIN s : t[pi[i]] = s[i]
    /\ \A i, j \in DOMAIN s : s[i].lower = s[j].lower /\ i < j => pi[i] < pi[j]

\* Such a rearrangement makes no difference to the ranking.
LEMMA RankedRearranged ==
    ASSUME NEW s, IsSnapshot(s), NEW t, IsSnapshot(t), NEW pi, Rearranged(s, t, pi)
    PROVE  Ranked(s) = Ranked(t)
  <1> DEFINE P == Considered(s)
             Q == Considered(t)
             R == ByScore(s)
             S == ByScore(t)
  <1>1. /\ P \subseteq DOMAIN s /\ Q \subseteq DOMAIN t
        /\ IsFiniteSet(P) /\ IsFiniteSet(Q) /\ IsOrder(P, R) /\ IsOrder(Q, S)
    <2>1. P \subseteq DOMAIN s /\ Q \subseteq DOMAIN t
      BY DEF Considered
    <2> QED
      BY <2>1, OrdersOfSnapshot
  <1>2. /\ pi \in [DOMAIN s -> DOMAIN t]
        /\ \A i, j \in DOMAIN s : pi[i] = pi[j] => i = j
        /\ \A k \in DOMAIN t : \E i \in DOMAIN s : pi[i] = k
    BY DEF Rearranged, Bijection, Injection, Surjection, IsInjective
  <1>3. ASSUME NEW i \in DOMAIN s, NEW j \in DOMAIN s
        PROVE  <<i, j>> \in R <=> <<pi[i], pi[j]>> \in S
    <2>1. t[pi[i]] = s[i] /\ t[pi[j]] = s[j] /\ pi[i] \in DOMAIN t /\ pi[j] \in DOMAIN t
      BY <1>2 DEF Rearranged
    <2>2. i \in Int /\ j \in Int /\ pi[i] \in Int /\ pi[j] \in Int
      BY <2>1 DEF IsSnapshot
    <2>3. s[i].lower = s[j].lower => (i < j <=> pi[i] < pi[j])
      BY <1>2, <2>2 DEF Rearranged
    <2>4. <<i, j>> \in R <=>
              \/ Score(s[i]) > Score(s[j])
              \/ /\ Score(s[i]) = Score(s[j])
                 /\ s[i].lower < s[j].lower \/ (s[i].lower = s[j].lower /\ i < j)
      BY ByScoreIs
    <2>5. <<pi[i], pi[j]>> \in S <=>
              \/ Score(s[i]) > Score(s[j])
              \/ /\ Score(s[i]) = Score(s[j])
                 /\ s[i].lower < s[j].lower \/ (s[i].lower = s[j].lower /\ pi[i] < pi[j])
      BY <2>1, ByScoreIs
    <2> QED
      BY <2>3, <2>4, <2>5
  <1>4. Q = {pi[i] : i \in P}
    BY <1>2 DEF Considered, Rearranged
  <1> HIDE DEF P, Q, R, S
  <1>5. Cardinality(Q) = Cardinality(P)
    <2>1. P \subseteq DOMAIN pi /\ \A x, y \in P : pi[x] = pi[y] => x = y
      BY <1>1, <1>2
    <2> QED
      BY <1>1, <1>4, <2>1, SameNumber
  <1> DEFINE n == Cardinality(P)
             before == InOrder(P, R)
             after == InOrder(Q, S)
  <1>6. /\ n \in Nat /\ before \in [1 .. n -> P]
        /\ \A k \in 1 .. n : Cardinality(Ahead(P, R, before[k])) = k - 1
    BY <1>1, InOrderLists
  <1>7. /\ after \in [1 .. n -> Q]
        /\ \A i \in Q : after[Cardinality(Ahead(Q, S, i)) + 1] = i
    BY <1>1, <1>5, InOrderLists
  <1> HIDE DEF before, after, n
  <1>8. ASSUME NEW k \in 1 .. n PROVE after[k] = pi[before[k]]
    <2> DEFINE i == before[k]
               X == Ahead(P, R, i)
    <2>1. i \in P /\ pi[i] \in Q /\ i \in DOMAIN s
      BY <1>1, <1>4, <1>6
    <2>2. Ahead(Q, S, pi[i]) = {pi[j] : j \in X}
      <3>1. \A j \in P : <<j, i>> \in R <=> <<pi[j], pi[i]>> \in S
        BY <1>1, <1>3, <2>1
      <3> HIDE DEF i
      <3> QED
        BY <1>4, <3>1 DEF Ahead
    <2>3. X \subseteq P
      BY DEF Ahead
    <2> HIDE DEF X
    <2>4. Cardinality({pi[j] : j \in X}) = Cardinality(X)
      <3>1. IsFiniteSet(X)
        BY <1>1, <2>3, FS_Subset
      <3>2. X \subseteq DOMAIN pi /\ \A x, y \in X : pi[x] = pi[y] => x = y
        BY <1>1, <1>2, <2>3
      <3> QED
        BY <3>1, <3>2, SameNumber
    <2>5. Cardinality(Ahead(Q, S, pi[i])) = k - 1 /\ k \in Int
      BY <1>6, <2>2, <2>4 DEF X
    <2>6. after[Cardinality(Ahead(Q, S, pi[i])) + 1] = pi[i]
      BY <1>7, <2>1
    <2> QED
      BY <2>5, <2>6
  <1>9. ASSUME NEW k \in 1 .. n PROVE Candidates(t)[after[k]] = Candidates(s)[before[k]]
    <2>1. before[k] \in DOMAIN s /\ pi[before[k]] \in DOMAIN t
      BY <1>1, <1>2, <1>6
    <2>2. t[pi[before[k]]] = s[before[k]]
      BY <2>1 DEF Rearranged
    <2> QED
      BY <1>8, <2>1, <2>2 DEF Candidates
  <1>10. Ranked(s) = [k \in 1 .. n |-> Candidates(s)[before[k]]]
    <2>1. Ranked(s) = [k \in DOMAIN before |-> Candidates(s)[before[k]]]
      BY DEF Ranked, before, P, R, ByScore
    <2> QED
      BY <1>6, <2>1
  <1>11. Ranked(t) = [k \in 1 .. n |-> Candidates(t)[after[k]]]
    <2>1. Ranked(t) = [k \in DOMAIN after |-> Candidates(t)[after[k]]]
      BY DEF Ranked, after, Q, S, ByScore
    <2> QED
      BY <1>7, <2>1
  <1> QED
    BY <1>9, <1>10, <1>11

\* The digest is a snapshot, and one with the ranking of what was digested.
LEMMA DigestRanks ==
    ASSUME NEW s, IsSnapshot(s)
    PROVE  /\ IsSnapshot(InputDigest(s))
           /\ Ranked(InputDigest(s)) = Ranked(s)
           /\ \A i \in DOMAIN InputDigest(s) : InputDigest(s)[i] \in Range(s)
  <1> DEFINE D == DOMAIN s
             R == ByName(s)
             order == InOrder(D, R)
             t == InputDigest(s)
             rank == [i \in D |-> Cardinality(Ahead(D, R, i)) + 1]
  <1>1. /\ Len(s) \in Nat /\ D = 1 .. Len(s) /\ Cardinality(D) = Len(s)
        /\ IsFiniteSet(D) /\ IsOrder(D, R)
    <2>1. Len(s) \in Nat /\ D = 1 .. Len(s)
      BY DEF IsSnapshot
    <2>2. Cardinality(D) = Len(s)
      <3>1. ASSUME NEW l \in Nat PROVE Cardinality(1 .. l) = l
        BY FS_Interval
      <3> QED
        BY <2>1, <3>1
    <2> QED
      BY <2>1, <2>2, OrdersOfSnapshot
  <1> HIDE DEF D, R
  <1>2. /\ order \in [D -> D]
        /\ \A k \in D : Cardinality(Ahead(D, R, order[k])) = k - 1
        /\ \A i \in D : rank[i] \in D /\ order[rank[i]] = i
        /\ \A k, l \in D : k < l <=> <<order[k], order[l]>> \in R
    BY <1>1, InOrderLists
  <1> HIDE DEF order
  <1>3. t = [k \in D |-> s[order[k]]]
    BY DEF InputDigest, order, D, R, ByName
  <1> HIDE DEF t
  <1>4. /\ t \in Seq(Range(s)) /\ DOMAIN t = D
        /\ \A k \in D : t[k] \in Range(s)
    <2>1. \A k \in D : s[order[k]] \in Range(s)
      BY <1>2 DEF D, Range
    <2> QED
      BY <1>1, <1>3, <2>1
  <1>5. IsSnapshot(t)
    <2>1. \A k \in D : t[k] \in Range(t)
      BY <1>4 DEF Range
    <2>2. t \in Seq(Range(t))
      BY <1>1, <1>3, <2>1
    <2>3. \A k \in D : IsObservation(t[k])
      BY <1>2, <1>3 DEF IsSnapshot, D
    <2> QED
      BY <1>4, <2>2, <2>3 DEF IsSnapshot
  <1>6. Rearranged(s, t, rank)
    <2>1. \A i \in D : rank[i] \in D /\ order[rank[i]] = i
      BY <1>2
    <2>2. rank \in [D -> D]
      BY <2>1
    <2>3. \A k \in D : order[k] \in D /\ rank[order[k]] = k
      BY <1>1, <1>2
    <2> HIDE DEF rank
    <2>4. rank \in Bijection(D, D)
      BY <2>1, <2>2, <2>3 DEF Bijection, Injection, Surjection, IsInjective
    <2>5. \A i \in D : t[rank[i]] = s[i]
      BY <1>3, <2>1
    <2>6. ASSUME NEW i \in D, NEW j \in D, s[i].lower = s[j].lower, i < j
          PROVE  rank[i] < rank[j]
      <3>1. <<i, j>> \in R
        BY <2>6, ByNameIs DEF R, D
      <3> QED
        BY <1>2, <2>1, <3>1
    <2> QED
      BY <1>4, <2>4, <2>5, <2>6 DEF Rearranged, D
  <1>7. Ranked(s) = Ranked(t)
    BY <1>5, <1>6, RankedRearranged
  <1> QED
    BY <1>4, <1>5, <1>7 DEF t

-----------------------------------------------------------------------------
(* Receipts.                                                               *)

Lesser(limit, n) == IF limit < n THEN limit ELSE n

\* select, place by place.
LEMMA SelectIs ==
    ASSUME NEW s, IsSnapshot(s), NEW limit \in Nat
    PROVE  LET order == InOrder(Considered(s), ByScore(s))
               n == Cardinality(Considered(s))
           IN  /\ n \in Nat
               /\ Len(Select(s, limit)) = Lesser(limit, n)
               /\ DOMAIN Select(s, limit) = 1 .. Lesser(limit, n)
               /\ \A k \in 1 .. Lesser(limit, n) :
                     order[k] \in Considered(s) /\ Select(s, limit)[k] = Candidate(s[order[k]])
  <1> DEFINE P == Considered(s)
             order == InOrder(P, ByScore(s))
             n == Cardinality(P)
             m == Lesser(limit, n)
             ranked == Ranked(s)
             X == {Candidate(s[i]) : i \in P}
  <1>1. P \subseteq DOMAIN s
    BY DEF Considered
  <1>2. n \in Nat /\ order \in [1 .. n -> P]
    BY <1>1, OrdersOfSnapshot, InOrderLists
  <1>3. ranked = [k \in DOMAIN order |-> Candidates(s)[order[k]]]
    BY DEF Ranked, ByScore
  <1>4. Select(s, limit) = SubSeq(ranked, 1, IF limit < Len(ranked) THEN limit ELSE Len(ranked))
    BY DEF Select
  <1>5. \A i \in P : Candidates(s)[i] = Candidate(s[i]) /\ Candidates(s)[i] \in X
    BY <1>1 DEF Candidates
  <1> HIDE DEF P, order, n, ranked, X
  <1>6. ranked \in Seq(X) /\ Len(ranked) = n
    BY <1>2, <1>3, <1>5
  <1>7. m \in Nat /\ m <= n
    BY <1>2 DEF Lesser
  <1>8. Select(s, limit) = SubSeq(ranked, 1, m)
    BY <1>4, <1>6 DEF Lesser
  <1>9. /\ Len(Select(s, limit)) = m /\ DOMAIN Select(s, limit) = 1 .. m
        /\ \A k \in 1 .. m : Select(s, limit)[k] = ranked[k]
    BY <1>2, <1>6, <1>7, <1>8
  <1>10. ASSUME NEW k \in 1 .. m PROVE order[k] \in P /\ ranked[k] = Candidate(s[order[k]])
    <2>1. k \in 1 .. n
      BY <1>2, <1>7
    <2> QED
      BY <1>2, <1>3, <1>5, <2>1
  <1> QED
    BY <1>2, <1>9, <1>10 DEF P, order, n

ReceiptInv ==
    /\ snapshot \in Snapshots
    /\ receipt # NoReceipt =>
          \E s \in Snapshots, limit \in Limits : receipt = BuildReceipt(s, limit)

\* The snapshots of an instance are lists of observations.
LEMMA SnapshotsAre == ASSUME NEW s \in Snapshots PROVE IsSnapshot(s)
  <1>1. \A i \in DOMAIN s : s[i] \in Range(s)
    BY DEF Range
  <1> QED
    BY <1>1, SnapshotsAssumption DEF IsSnapshot, IsObservation

\* A receipt stays what build_receipt made of a snapshot and a limit.
LEMMA ReceiptStep == ReceiptInv /\ [Next]_vars => ReceiptInv'
  <1> SUFFICES ASSUME ReceiptInv, [Next]_vars PROVE ReceiptInv'
    OBVIOUS
  <1>1. ASSUME NEW s \in Snapshots, LoadRepoSnapshot(s) PROVE ReceiptInv'
    BY <1>1 DEF LoadRepoSnapshot, ReceiptInv
  <1>2. ASSUME NEW limit \in Limits, Maintain(limit) PROVE ReceiptInv'
    BY <1>2 DEF Maintain, ReceiptInv
  <1>3. CASE UNCHANGED <<snapshot, receipt>>
    BY <1>3 DEF ReceiptInv
  <1> QED
    BY <1>1, <1>2, <1>3 DEF Next, vars, StartExecutor, RegisterCustom, Propose, Run

\* The receipt's parts, and what its selection is in terms of its digest.
LEMMA ReceiptIs ==
    ASSUME ReceiptInv, receipt # NoReceipt
    PROVE  /\ receipt.limit \in Nat \ {0}
           /\ \E s \in Snapshots : /\ receipt.selected = Select(s, receipt.limit)
                                   /\ receipt.input_digest = InputDigest(s)
                                   /\ IsSnapshot(s) /\ IsSnapshot(InputDigest(s))
           /\ receipt.selected = Select(receipt.input_digest, receipt.limit)
  <1>1. PICK s \in Snapshots, limit \in Limits : receipt = BuildReceipt(s, limit)
    BY DEF ReceiptInv
  <1>2. /\ receipt.limit = limit /\ receipt.selected = Select(s, limit)
        /\ receipt.input_digest = InputDigest(s)
    BY <1>1 DEF BuildReceipt
  <1>3. IsSnapshot(s) /\ IsSnapshot(InputDigest(s)) /\ Ranked(InputDigest(s)) = Ranked(s)
    BY SnapshotsAre, DigestRanks
  <1>4. Select(InputDigest(s), limit) = Select(s, limit)
    BY <1>3 DEF Select
  <1> QED
    BY <1>2, <1>3, <1>4, LimitsAssumption

\* A receipt holds at most limit candidates, from the snapshots.
LEMMA ReceiptTyped ==
    ASSUME ReceiptInv
    PROVE  /\ Len(receipt.selected) <= receipt.limit
           /\ Range(receipt.selected)
                 \subseteq {Candidate(o) : o \in UNION {Range(s) : s \in Snapshots}}
  <1>1. CASE receipt = NoReceipt
    BY <1>1 DEF NoReceipt, Range
  <1>2. CASE receipt # NoReceipt
    <2>1. PICK s \in Snapshots : receipt.selected = Select(s, receipt.limit) /\ IsSnapshot(s)
      BY <1>2, ReceiptIs
    <2>2. receipt.limit \in Nat
      BY <1>2, ReceiptIs
    <2> DEFINE n == Cardinality(Considered(s))
               m == Lesser(receipt.limit, n)
    <2>3. /\ n \in Nat /\ Len(receipt.selected) = m /\ DOMAIN receipt.selected = 1 .. m
          /\ \A k \in 1 .. m : \E i \in Considered(s) : receipt.selected[k] = Candidate(s[i])
      BY <2>1, <2>2, SelectIs
    <2>4. \A i \in Considered(s) : s[i] \in Range(s)
      BY DEF Considered, Range
    <2>5. m <= receipt.limit
      BY <2>2, <2>3 DEF Lesser
    <2> HIDE DEF m, n
    <2>6. ASSUME NEW c \in Range(receipt.selected)
          PROVE  c \in {Candidate(o) : o \in UNION {Range(r) : r \in Snapshots}}
      <3>1. PICK k \in 1 .. m : c = receipt.selected[k]
        BY <2>3, <2>6 DEF Range
      <3>2. PICK i \in Considered(s) : c = Candidate(s[i])
        BY <2>3, <3>1
      <3> QED
        BY <2>4, <3>2
    <2> QED
      BY <2>3, <2>5, <2>6
  <1> QED
    BY <1>1, <1>2

\* Equal digests give equal rankings, and equal rankings one selection.
LEMMA DigestFixes == ReceiptInv => DigestFixesSelection
  <1> SUFFICES ASSUME ReceiptInv, receipt # NoReceipt, InputDigest(snapshot) = receipt.input_digest
               PROVE  Select(snapshot, receipt.limit) = receipt.selected
    BY DEF DigestFixesSelection
  <1>1. IsSnapshot(snapshot)
    BY SnapshotsAre DEF ReceiptInv
  <1>2. Ranked(snapshot) = Ranked(receipt.input_digest)
    BY <1>1, DigestRanks
  <1>3. receipt.selected = Select(receipt.input_digest, receipt.limit)
    BY ReceiptIs
  <1> QED
    BY <1>2, <1>3 DEF Select

\* Who is selected stands before who is not in the ranking by score.
LEMMA BestSelected == ReceiptInv => SelectedAreBest
  <1> SUFFICES ASSUME ReceiptInv, receipt # NoReceipt PROVE SelectedAreBest
    BY DEF SelectedAreBest
  <1> DEFINE observed == receipt.input_digest
             live == {i \in DOMAIN observed : ~ observed[i].archived}
             selected == receipt.selected
             chosen == {selected[k] : k \in DOMAIN selected}
             order == InOrder(live, ByScore(observed))
             n == Cardinality(live)
             m == Lesser(receipt.limit, n)
  <1>1. live = Considered(observed)
    BY DEF Considered
  <1>2. IsSnapshot(observed) /\ receipt.limit \in Nat \ {0} /\ selected = Select(observed, receipt.limit)
    BY ReceiptIs
  <1>3. /\ n \in Nat /\ Len(selected) = m /\ DOMAIN selected = 1 .. m
        /\ \A k \in 1 .. m : order[k] \in live /\ selected[k] = Candidate(observed[order[k]])
    <2> HIDE DEF observed, selected
    <2>1. live = Considered(observed)
      BY <1>1
    <2> HIDE DEF live
    <2> QED
      BY <1>2, <2>1, SelectIs
  <1>4. /\ \A i \in live : \E k \in 1 .. n : order[k] = i
        /\ order \in [1 .. n -> live]
        /\ \A k, l \in 1 .. n : k < l => <<order[k], order[l]>> \in ByScore(observed)
    <2>1. live \subseteq DOMAIN observed
      OBVIOUS
    <2> HIDE DEF observed, live
    <2>2. IsFiniteSet(live) /\ IsOrder(live, ByScore(observed))
      BY <1>2, <2>1, OrdersOfSnapshot
    <2> QED
      BY <2>2, InOrderLists
  <1>5. m \in Nat /\ m <= n
    BY <1>2, <1>3 DEF Lesser
  <1>6. live \subseteq DOMAIN observed
    OBVIOUS
  <1> HIDE DEF observed, live, selected, order, n, m
  <1>7. ASSUME NEW c \in chosen PROVE \E i \in live : Candidate(observed[i]) = c
    BY <1>3, <1>7
  <1>8. ASSUME NEW i \in live, Candidate(observed[i]) \notin chosen, NEW c \in chosen
        PROVE  c.score >= Score(observed[i])
    <2>1. PICK k \in 1 .. m : c = selected[k]
      BY <1>3, <1>8
    <2>2. PICK l \in 1 .. n : order[l] = i
      BY <1>4
    <2>3. l \notin 1 .. m
      BY <1>3, <1>8, <2>2
    <2>4. k \in 1 .. n /\ k < l
      BY <1>3, <1>5, <2>1, <2>2, <2>3
    <2>5. <<order[k], i>> \in ByScore(observed)
      BY <1>4, <2>2, <2>4
    <2>6. order[k] \in DOMAIN observed /\ i \in DOMAIN observed
      BY <1>3, <1>6, <2>1
    <2>7. /\ Score(observed[order[k]]) \in Int /\ Score(observed[i]) \in Int
          /\ c.score = Score(observed[order[k]])
      BY <1>2, <1>3, <2>1, <2>6, CandidateKeys DEF IsSnapshot
    <2>8. Score(observed[order[k]]) > Score(observed[i]) \/ Score(observed[order[k]]) = Score(observed[i])
      BY <1>2, <2>5, <2>6, ByScoreIs
    <2> QED
      BY <2>7, <2>8
  <1>9. Len(selected) = Min({receipt.limit, n})
    <2> DEFINE limit == receipt.limit
    <2>1. limit \in Nat /\ n \in Nat /\ m \in {limit, n} /\ m <= limit /\ m <= n
      BY <1>2, <1>3 DEF m, Lesser
    <2> HIDE DEF limit
    <2>2. Min({limit, n}) \in {limit, n} /\ Min({limit, n}) <= limit /\ Min({limit, n}) <= n
      BY <2>1 DEF Min
    <2>3. Min({limit, n}) = m
      BY <2>1, <2>2
    <2> QED
      BY <1>3, <2>3 DEF limit
  <1> QED
    BY <1>7, <1>8, <1>9 DEF SelectedAreBest, observed, live, selected, n

-----------------------------------------------------------------------------
(* The theorems.                                                           *)

\* Registry, world and receipt keep their invariants side by side.
THEOREM Inductive == Spec => [](RegistryInv /\ WorldInv /\ ReceiptInv)
  <1>1. Init => RegistryInv /\ WorldInv /\ ReceiptInv
    BY EmptyIsWhole, FilesAssumption, BoundAssumption
       DEF Init, RegistryInv, WorldInv, ReceiptInv, WritesConfined
  <1> QED
    BY <1>1, RegistryStep, WorldStep, ReceiptStep, PTL DEF Spec

\* Type correctness of triage, registry and world: at most limit candidates,
\* each of an observation, whatever the score weights sum up to; at most one
\* adapter a binding, of those that exist.
THEOREM TypeCorrect == Spec => []TypeOK
  <1>1. RegistryInv /\ WorldInv /\ ReceiptInv => TypeOK
    <2> SUFFICES ASSUME RegistryInv, WorldInv, ReceiptInv PROVE TypeOK
      OBVIOUS
    <2>1. snapshot \in Snapshots
      BY DEF ReceiptInv
    <2>2. adapters.ids \subseteq {Stripped[a.id] : a \in AllAdapters}
          /\ Range(adapters.by_binding) \subseteq AllAdapters
      <3>1. adapters.ids \in SUBSET {Stripped[a.id] : a \in AllAdapters} /\ Whole(adapters)
        BY DEF RegistryInv, WholeRegistries
      <3>2. \A b \in DOMAIN adapters.by_binding : adapters.by_binding[b] \in AllAdapters
        BY <3>1 DEF Whole
      <3>3. Range(adapters.by_binding) \subseteq AllAdapters
        BY <3>2 DEF Range
      <3> QED
        BY <3>1, <3>3
    <2> QED
      BY <2>1, <2>2, ReceiptTyped DEF TypeOK, WorldInv
  <1> QED
    BY <1>1, Inductive, PTL

\* The strengthening the runs check holds of every instance.
THEOREM StrengtheningHolds == Spec => []IInv
  <1>1. RegistryInv /\ WorldInv /\ ReceiptInv /\ TypeOK => IInv
    BY DEF RegistryInv, WholeRegistries, WorldInv, ReceiptInv, IInv
  <1> QED
    BY <1>1, Inductive, TypeCorrect, PTL

\* AdapterRegistry.register leaves a whole adapter or nothing, for any custom
\* adapters, whatever white space is around their ids, and however often and in whatever order registrations raise and
\* executors are restarted with other configurations.
THEOREM AdaptersWholeAlways == Spec => []AdaptersWhole
  <1>1. RegistryInv => AdaptersWhole
    <2> SUFFICES ASSUME RegistryInv PROVE AdaptersWhole
      OBVIOUS
    <2> DEFINE bound == adapters.by_binding
    <2>1. /\ "" \notin adapters.ids
          /\ \A b \in DOMAIN bound : Stripped[bound[b].id] \in adapters.ids
          /\ \A id \in adapters.ids : \E a \in AllAdapters :
                /\ Stripped[a.id] = id /\ Bindings(a) # {}
                /\ Bindings(a) = {b \in DOMAIN bound : bound[b] = a}
                /\ \A b \in DOMAIN bound : Stripped[bound[b].id] = id => bound[b] = a
      <3>1. Whole(adapters)
        BY DEF RegistryInv, WholeRegistries
      <3> QED
        BY <3>1 DEF Whole
    <2>2. DOMAIN Manifest(adapters) = {bound[b].id : b \in DOMAIN bound}
          /\ \A id \in DOMAIN Manifest(adapters) :
                Manifest(adapters)[id] = {b \in DOMAIN bound : bound[b].id = id}
      BY DEF Manifest
    <2>3. ASSUME NEW id \in adapters.ids
          PROVE  \E b \in DOMAIN bound : Stripped[bound[b].id] = id
      <3>1. PICK a \in AllAdapters :
                /\ Stripped[a.id] = id /\ Bindings(a) # {}
                /\ Bindings(a) = {b \in DOMAIN bound : bound[b] = a}
        BY <2>1
      <3>2. PICK b \in DOMAIN bound : bound[b] = a
        BY <3>1
      <3> QED
        BY <3>1, <3>2
    <2>4. {Stripped[id] : id \in DOMAIN Manifest(adapters)} = adapters.ids
      <3>1. ASSUME NEW id \in DOMAIN Manifest(adapters) PROVE Stripped[id] \in adapters.ids
        <4>1. PICK b \in DOMAIN bound : bound[b].id = id
          BY <2>2, <3>1
        <4> QED
          BY <2>1, <4>1
      <3>2. ASSUME NEW id \in adapters.ids
            PROVE  \E reported \in DOMAIN Manifest(adapters) : Stripped[reported] = id
        BY <2>2, <2>3
      <3> QED
        BY <3>1, <3>2
    <2>5. ASSUME NEW id \in DOMAIN Manifest(adapters)
          PROVE  \E a \in AllAdapters :
                     /\ a.id = id /\ Bindings(a) = Manifest(adapters)[id]
                     /\ \A other \in DOMAIN Manifest(adapters) :
                           Stripped[id] = Stripped[other] => other = a.id
      <3>1. Manifest(adapters)[id] = {b \in DOMAIN bound : bound[b].id = id}
        BY <2>2, <2>5
      <3>2. PICK k \in DOMAIN bound : bound[k].id = id
        BY <2>2, <2>5
      <3>3. PICK a \in AllAdapters :
                /\ Bindings(a) = {b \in DOMAIN bound : bound[b] = a}
                /\ \A b \in DOMAIN bound : Stripped[bound[b].id] = Stripped[id] => bound[b] = a
        BY <2>1, <3>2
      <3>4. a.id = id
        BY <3>2, <3>3
      <3>5. {b \in DOMAIN bound : bound[b].id = id} = {b \in DOMAIN bound : bound[b] = a}
        BY <3>3, <3>4
      <3>6. \A other \in DOMAIN Manifest(adapters) : Stripped[id] = Stripped[other] => other = a.id
        BY <2>2, <3>3
      <3> QED
        BY <3>1, <3>3, <3>4, <3>5, <3>6
    <2>6. \A id, other \in DOMAIN Manifest(adapters) :
              Stripped[id] = Stripped[other] => id = other
      BY <2>5
    <2> QED
      BY <2>1, <2>4, <2>5, <2>6 DEF AdaptersWhole
  <1> QED
    BY <1>1, Inductive, PTL

\* _safe_path confines the sandbox adapter, for any set of files and any request.
THEOREM WritesConfinedAlways == Spec => []WritesConfined
  <1>1. WorldInv => WritesConfined
    BY DEF WorldInv
  <1> QED
    BY <1>1, Inductive, PTL

\* An adapter's answer tells what happened to the world: no request, refused,
\* failed or interrupted half-way, changes more than its outcome admits.
THEOREM OutcomeTellsEffectAlways == Spec => OutcomeTellsEffect
  <1>1. [Next]_vars => [last' # last \/ worldVars' # worldVars => ToldEffect]_vars
    <2> SUFFICES ASSUME Next, last' # last \/ worldVars' # worldVars PROVE ToldEffect
      OBVIOUS
    <2>1. PICK request : Run(request)
      BY DEF Next, LoadRepoSnapshot, Maintain, StartExecutor, RegisterCustom, Propose, worldVars
    <2> QED
      BY <2>1, DispatchTells DEF Run
  <1> QED
    BY <1>1, PTL DEF Spec, OutcomeTellsEffect

\* A receipt's input_digest fixes its proposals, for snapshots of any length and
\* any scores: the order of the entries in the file does not matter.
THEOREM DigestFixesSelectionAlways == Spec => []DigestFixesSelection
  BY DigestFixes, Inductive, PTL

\* The proposals of a receipt are the best of what was observed, and as many as
\* there is room for.
THEOREM SelectedAreBestAlways == Spec => []SelectedAreBest
  BY BestSelected, Inductive, PTL

=============================================================================
