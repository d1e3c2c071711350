--------------------------- MODULE InnovationHistory ---------------------------
(***************************************************************************)
(* The innovation sandbox: a workflow job checks out the main branch, runs *)
(* scripts/besaz_innovate.py, which experiments on a candidate and adds    *)
(* its run to experiment-history.json, and pushes; a rejected push starts  *)
(* over from the branch as it is then.  The jobs are serialised, but other *)
(* writers push to main, and the answer to a push can be lost.             *)
(***************************************************************************)
EXTENDS Collections, Integers, FiniteSets

CONSTANTS
    Runs,          \* GITHUB_RUN_IDs; a job that is run again keeps its id
    Architecture,  \* component ids of canonical_contracts, in their order
    MaxAttempts,   \* of a job to publish: 5 in the workflow
    MaxReruns,     \* bound: how often a job is run again
    MaxOthers,     \* bound: commits of other writers
    Malformed      \* a history file that is not what the script writes

ASSUME InnovationAssumption ==
    /\ MaxAttempts \in Nat \ {0} /\ MaxReruns \in Nat /\ MaxOthers \in Nat
    /\ Architecture \in Seq(STRING) /\ Len(Architecture) >= 4
    /\ Malformed \notin Seq(Runs)

VARIABLES
    main,        \* the branch: [commits, history, report]
    job,         \* what each job is doing
    published    \* ghost: how many pushes the branch took, and the runs among them

innovationVars == <<main, job, published>>

-----------------------------------------------------------------------------

\* The scores of the script's three fixtures, and whether they are repeatable.
Fixtures ==
    <<[baseline |-> 50, variant |-> 75, repeatable |-> TRUE],
      [baseline |-> 80, variant |-> 70, repeatable |-> TRUE],
      [baseline |-> 70, variant |-> 70, repeatable |-> FALSE]>>

Candidate(kind, sources) == [kind |-> kind, sources |-> sources]

Failures(experiments) ==
    SelectSeq(experiments, LAMBDA e : e.outcome \in {"FAIL", "INCONCLUSIVE"})

\* generate_candidates: every contract lacks evidence, so the first is the first gap.
\* A candidate's id is the hash of what it is; no two of these are alike.
GenerateCandidates(experiments) ==
    LET first == Architecture[1]
        failed == Failures(experiments)
    IN  <<Candidate("COMBINE", SubSeq(Architecture, 1, 2)),
          Candidate("TRANSFER", <<first, Architecture[Len(Architecture)]>>),
          Candidate("EXTEND", <<first>>),
          Candidate("REVERSE", <<first>>),
          Candidate("REORDER", SubSeq(Architecture, 1, 3)),
          Candidate("REMOVE", SubSeq(Architecture, 1, 3))>>
        \o (IF failed = <<>> THEN <<>>
            ELSE <<Candidate("CONTRADICTION", <<failed[1].candidate>>)>>)
        \o <<Candidate("EMERGENT", SubSeq(Architecture, 1, 4))>>

RunSandbox(candidate, fixture) ==
    LET outcome == IF fixture.variant > fixture.baseline THEN "PASS"
                   ELSE IF fixture.variant < fixture.baseline THEN "FAIL"
                   ELSE "INCONCLUSIVE"
    IN  [candidate |-> candidate, outcome |-> outcome,
         next_action |-> IF outcome = "PASS" /\ fixture.repeatable
                         THEN "retain_candidate" ELSE "revise_or_reject"]

Experiments ==
    LET probe == GenerateCandidates(<<>>)[1]
    IN  [i \in DOMAIN Fixtures |-> RunSandbox(probe, Fixtures[i])]

Report(r) ==
    [run |-> r, experiments |-> Experiments, candidates |-> GenerateCandidates(Experiments)]

RecordedAgain(history, r) == Append(history, r)

\* The history with the run at its end, once.
Recorded(history, r) == Append(Picked(history, {i \in DOMAIN history : history[i] # r}), r)

-----------------------------------------------------------------------------

InnovationInit ==
    /\ main \in [commits : {<<>>}, history : {<<>>, Malformed}, report : {Malformed}]
    /\ job = [r \in Runs |-> [at |-> "queued", attempt |-> 0, reruns |-> 0]]
    /\ published = [pushes |-> 0, runs |-> {}]

Active(r) == job[r].at \in {"checkout", "script", "push"}

\* The concurrency group lets one job run at a time.
StartJob(r) ==
    /\ job[r].at = "queued"
    /\ \A s \in Runs : ~Active(s)
    /\ job' = [job EXCEPT ![r] = [at |-> "checkout", attempt |-> 1, reruns |-> @.reruns]]
    /\ UNCHANGED <<main, published>>

\* git fetch, git reset --hard origin/main.
Checkout(r) ==
    /\ job[r].at = "checkout"
    /\ job' = [job EXCEPT ![r] = [at |-> "script", attempt |-> @.attempt,
                                  reruns |-> @.reruns, base |-> main]]
    /\ UNCHANGED <<main, published>>

\* The script and the commit; a history it cannot read fails the job.
RunScript(r) ==
    /\ job[r].at = "script"
    /\ job' = [job EXCEPT ![r] =
           IF @.base.history = Malformed
           THEN [at |-> "ended", attempt |-> @.attempt, reruns |-> @.reruns]
           ELSE [@ EXCEPT !.at = "push"]]
    /\ UNCHANGED <<main, published>>

\* The branch takes a commit made on its head only.
FastForward(r) == main.commits = job[r].base.commits

\* After a push that failed, or whose answer was lost, the job starts over.
Retried(r) ==
    [at |-> IF job[r].attempt < MaxAttempts THEN "checkout" ELSE "ended",
     attempt |-> job[r].attempt + 1, reruns |-> job[r].reruns]

Push(r) ==
    /\ job[r].at = "push"
    /\ FastForward(r)
    /\ main' = [commits |-> Append(job[r].base.commits, r),
                history |-> Recorded(job[r].base.history, r),
                report |-> Report(r)]
    /\ published' = [pushes |-> published.pushes + 1, runs |-> published.runs \cup {r}]
    /\ \E heard \in BOOLEAN :
           job' = [job EXCEPT ![r] =
               IF heard THEN [at |-> "ended", attempt |-> @.attempt, reruns |-> @.reruns]
               ELSE Retried(r)]

PushFails(r) ==
    /\ job[r].at = "push"
    /\ job' = [job EXCEPT ![r] = Retried(r)]
    /\ UNCHANGED <<main, published>>

\* The runner is lost, with its working copy.
LoseRunner(r) ==
    /\ Active(r)
    /\ job' = [job EXCEPT ![r] = [at |-> "ended", attempt |-> @.attempt, reruns |-> @.reruns]]
    /\ UNCHANGED <<main, published>>

Rerun(r) ==
    /\ job[r].at = "ended" /\ job[r].reruns < MaxReruns
    /\ job' = [job EXCEPT ![r] =
           [at |-> "queued", attempt |-> 0, reruns |-> @.reruns + 1]]
    /\ UNCHANGED <<main, published>>

\* A commit that leaves the sandbox's files alone.
OthersPush ==
    /\ Len(SelectSeq(main.commits, LAMBDA c : c = "other")) < MaxOthers
    /\ main' = [main EXCEPT !.commits = Append(@, "other")]
    /\ published' = [published EXCEPT !.pushes = @ + 1]
    /\ UNCHANGED job

InnovationNext ==
    \/ \E r \in Runs : \/ StartJob(r) \/ Checkout(r) \/ RunScript(r) \/ Push(r)
                       \/ PushFails(r) \/ LoseRunner(r) \/ Rerun(r)
    \/ OthersPush

InnovationSpec == InnovationInit /\ [][InnovationNext]_innovationVars

-----------------------------------------------------------------------------

FailureShown(report) ==
    Failures(report.experiments) # <<>> =>
        Candidate("CONTRADICTION", <<Failures(report.experiments)[1].candidate>>)
            \in {report.candidates[i] : i \in DOMAIN report.candidates}

\* Whatever is retried, run again, lost or pushed in between, a published run is in
\* the history once, no commit of the branch is lost, the report is that of the run
\* that ends the history, and it shows what failed.
RunsStayOnRecord ==
    /\ Len(main.commits) = published.pushes
    /\ \A r \in published.runs :
           /\ main.history # Malformed
           /\ Cardinality({i \in DOMAIN main.history : main.history[i] = r}) = 1
    /\ published.runs # {} =>
           /\ main.report.run = main.history[Len(main.history)]
           /\ FailureShown(main.report)
=============================================================================
