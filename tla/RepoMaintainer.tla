--------------------------- MODULE RepoMaintainer ---------------------------
(***************************************************************************)
(* Repository triage (repo_maintainer.py): which of the observed           *)
(* repositories are proposed for maintenance, and the receipt of it.       *)
(*                                                                         *)
(* An observation is [full_name, lower, repo_class, archived, signals]:    *)
(* lower is the place of full_name.lower() in the order of strings, two    *)
(* spellings of one name having the same place.  Of the fields that only   *)
(* reach the text of a proposal nothing depends; the digest covers them as *)
(* it covers the others.  The signals are a list without repetitions       *)
(* (RepoObservation.__post_init__).                                        *)
(***************************************************************************)
EXTENDS Integers, Sequences, FiniteSets, SequencesExt, FiniteSetsExt

ClassWeights ==
    [core |-> 30, core_candidate |-> 28, core_promotion_gate |-> 26, optional_core |-> 16,
     optional |-> 8, experimental |-> 4, legacy |-> -25]

SignalWeights ==
    [runtime_integration_gap |-> 28, spec_only |-> 20, missing_tests |-> 14,
     missing_adapter |-> 14, production_blocker |-> 22, duplicate_role |-> 5,
     stale_reference |-> 5, already_integrated |-> -20, legacy |-> -30, archived |-> -60]

\* dict.get(key, 0)
Weight(weights, key) == IF key \in DOMAIN weights THEN weights[key] ELSE 0

TaskBySignal ==
    << <<"production_blocker", "production_gap">>,
       <<"runtime_integration_gap", "integration_adapter">>,
       <<"spec_only", "implementation_gap">>, <<"missing_tests", "test_gap">>,
       <<"missing_adapter", "adapter_gap">>, <<"duplicate_role", "consolidation_review">> >>

TaskType(obs) ==
    LET hits == {k \in DOMAIN TaskBySignal : TaskBySignal[k][1] \in Range(obs.signals)}
    IN  IF hits = {} THEN "maintenance_review" ELSE TaskBySignal[Min(hits)][2]

\* The weights of the signals, added up.
SignalScore(signals) ==
    LET sum[k \in 0 .. Len(signals)] ==
            IF k = 0 THEN 0 ELSE sum[k - 1] + Weight(SignalWeights, signals[k])
    IN  sum[Len(signals)]

Score(obs) ==
    Weight(ClassWeights, obs.repo_class) + SignalScore(obs.signals)
        + IF obs.archived THEN SignalWeights["archived"] ELSE 0

Candidate(obs) ==
    [full_name |-> obs.full_name, lower |-> obs.lower, score |-> Score(obs),
     task_type |-> TaskType(obs)]

-----------------------------------------------------------------------------
(* Sorting.  A list is sorted by putting its places in order, which is     *)
(* given as the set of pairs of which the first comes before the second.   *)

\* The pairs of places of s in a stable sort by the strict order Before.
Stably(s, Before(_, _)) ==
    {p \in (DOMAIN s) \X (DOMAIN s) :
        LET a == s[p[1]]
            b == s[p[2]]
        IN  Before(a, b) \/ (~ Before(b, a) /\ p[1] < p[2])}

\* The k-th of the places is the one that k - 1 others come before.
InOrder(places, ahead) ==
    [k \in 1 .. Cardinality(places) |->
        CHOOSE i \in places : Cardinality({j \in places : <<j, i>> \in ahead}) = k - 1]

\* Mutant: equal scores stay in the order of the snapshot.
PrecedesByScore(a, b) == a.score > b.score

\* The key (-score, full_name.lower()).
Precedes(a, b) == a.score > b.score \/ (a.score = b.score /\ a.lower < b.lower)

\* Mutant: archived repositories are ranked with the others.
ConsideredAll(observations) == DOMAIN observations

\* The places of the repositories that are not archived.
Considered(observations) == {i \in DOMAIN observations : ~ observations[i].archived}

Candidates(observations) == [i \in DOMAIN observations |-> Candidate(observations[i])]

\* The candidates of the repositories considered, as list.sort leaves them.
Ranked(observations) ==
    LET candidates == Candidates(observations)
        order == InOrder(Considered(observations), Stably(candidates, Precedes))
    IN  [k \in DOMAIN order |-> candidates[order[k]]]

\* Mutant: the slice is one too long.
SelectOneMore(observations, limit) ==
    LET ranked == Ranked(observations)
    IN  SubSeq(ranked, 1, IF limit < Len(ranked) THEN limit + 1 ELSE Len(ranked))

\* RepoMaintainer.select, for limit >= 1.
Select(observations, limit) ==
    LET ranked == Ranked(observations)
    IN  SubSeq(ranked, 1, IF limit < Len(ranked) THEN limit ELSE Len(ranked))

\* The canonical input, of which input_digest is the digest.
InputDigest(observations) ==
    LET order == InOrder(DOMAIN observations,
                         Stably(observations, LAMBDA a, b : a.lower < b.lower))
    IN  [k \in DOMAIN observations |-> observations[order[k]]]

\* RepoMaintainer.build_receipt.
BuildReceipt(observations, limit) ==
    [observed_repositories |-> Len(observations), limit |-> limit,
     selected |-> Select(observations, limit), input_digest |-> InputDigest(observations)]

\* MaintenanceCandidate.to_action_request: a title and a body are always there.
ToActionRequest(candidate) ==
    [capability |-> "github.issue.create", action |-> "create_issue",
     resource |-> candidate.full_name, payload |-> "valid"]

=============================================================================
