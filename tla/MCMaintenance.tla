---------------------------- MODULE MCMaintenance ----------------------------
(* A small instance of Maintenance for TLC.                                *)
EXTENDS Maintenance

Obs(name, lower, class, archived, signals) ==
    [full_name |-> name, lower |-> lower, repo_class |-> class, archived |-> archived,
     signals |-> signals]

\* Two spellings of one name with equal scores, a repository that scores the same,
\* one that scores lowest, and one that would win were it not archived.
Axe == Obs("o/Axe", 1, "optional", FALSE, <<"missing_tests", "spec_only">>)
axe == Obs("o/axe", 1, "optional", FALSE, <<"missing_adapter", "spec_only">>)
Bow == Obs("o/bow", 2, "core_candidate", FALSE, <<"missing_tests">>)
Cap == Obs("o/cap", 3, "unlisted", FALSE, << >>)
Den == Obs("o/den", 4, "core", TRUE, <<"production_blocker", "runtime_integration_gap", "spec_only">>)

MCSnapshots ==
    {<<Axe, axe, Bow>>, <<axe, Axe, Bow>>, <<Bow, Axe, axe>>,
     <<Cap, Den, Axe>>, <<Den, Axe, Cap>>, <<Den>>}

MCRepoNames == {"o/Axe", "o/axe", "o/bow", "o/cap", "o/den"}

MCFileOf ==
    [r \in MCRepoNames \union {"note", "sub/../note", "link", "../up", "/etc"} |->
        CASE r \in {"note", "sub/../note"} -> "note"
          [] r \in {"link", "../up", "/etc"} -> "outside"
          [] OTHER -> r]

MCInside == {"note"}

MCInitialFiles == [f \in {"note", "outside"} |-> IF f = "note" THEN "absent" ELSE "old"]

Item(enabled, type, token) == [enabled |-> enabled, type |-> type, token |-> token]

MCConfigs ==
    {<< >>, <<Item(TRUE, "github", TRUE)>>,
     <<Item(FALSE, "slack", TRUE), Item(TRUE, "github", FALSE)>>,
     <<Item(TRUE, "github", TRUE), Item(TRUE, "github", TRUE)>>, <<Item(TRUE, "slack", FALSE)>>}

Own(id, bindings) == [kind |-> "custom", id |-> id, token |-> FALSE, bindings |-> bindings]

\* One that never conflicts, one with the same id but for a blank and one with a
\* blank id, one whose second binding is GitHub's, one that binds a key twice,
\* one without bindings.
MCCustom ==
    {Own("chat", << <<"chat.post", "post">> >>),
     Own("chat ", << <<"chat.read", "read">> >>),
     Own(" ", << <<"void.read", "read">> >>),
     Own("mirror", << <<"repo.list", "list">>, <<"github.repo.read", "get_repo">> >>),
     Own("twice", << <<"chat.post", "post">>, <<"chat.post", "post">> >>), Own("none", << >>)}

MCStripped ==
    [id \in {a.id : a \in MCCustom} \union {"sandbox", "github"} |->
        CASE id = "chat " -> "chat" [] id = " " -> "" [] OTHER -> id]

Ask(capability, action, resource, payload) ==
    [capability |-> capability, action |-> action, resource |-> resource, payload |-> payload]

MCRequests ==
    {Ask("filesystem.write", "write_text", "note", "valid"),
     Ask("filesystem.write", "write_text", "sub/../note", "invalid"),
     Ask("filesystem.write", "write_text", "link", "valid"),
     Ask("filesystem.write", "write_text", "/etc", "valid"),
     Ask("filesystem.read", "read_text", "note", "valid"),
     Ask("filesystem.read", "read_text", "../up", "valid"),
     Ask("tool.echo", "echo", "note", "valid"),
     Ask("chat.post", "post", "note", "valid"),
     Ask("github.repo.read", "get_repo", "o/bow", "valid"),
     Ask("github.repo.read", "get_repo", "note", "valid"),
     Ask("github.issue.create", "create_issue", "o/bow", "invalid"),
     Ask("github.issue.create", "create_issue", "note", "valid")}

=============================================================================
