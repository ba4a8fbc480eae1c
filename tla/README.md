# practice-forge: a TLA+ model

practice-forge ingests textbooks, distils the concepts of their problems, and issues execution-verified
practice sets to university courses, promising never to issue a concept to a course twice (`README.md:6-8`). It is a
Python program of several processes: a FastAPI server, Celery workers, and a command line, over one PostgreSQL
database, one message broker, some files, and rate-limited LLM APIs. This directory models the parts where those
processes meet, checks them with TLC on small instances, and proves what matters most with TLAPS for every instance.

Paths below are relative to the repository; `pf/` stands for `src/practice_forge/`.

## 1. The system and what is modelled

| component | source | state | operations | module |
|---|---|---|---|---|
| problem-set endpoints | `api/routers/problem_sets.py` | `jobs` rows | generate, reshuffle, new-set, remaining concepts | `ProblemSets` |
| generation worker | `worker/tasks.py` | `jobs.status`, `variants`, `problem_sets`, `issued_ledger` | `generate_task`, `new_set_task`, `reshuffle_task` | `ProblemSets` |
| issued ledger | `pf/db/models.py:351-404` | two unique indexes | insert | `ProblemSets`, `ConceptIssuance` |
| daily quota | `pf/llm/rate_limiter.py:66-105` | a JSON file, a lock per object | `acquire` | `RateLimiter` |
| request pacing | `pf/llm/rate_limiter.py:41-63` | a token bucket | `acquire` | `TokenBucket` |
| chunked upload | `api/routers/books.py` | `jobs` row, the uploaded file | initiate, HEAD, PATCH | `Upload` |
| ingest and dedup | `pf/ingest/`, `ingest_task` | `books`, `pages` | ingest, match, resume | `Ingest` |
| distillation and clustering | `pf/concepts/` | `concept_cards`, `concept_clusters` | `run_concept_distillation` | `Distillation` |
| structure and contents | `pf/structure/` | `sections` | `pf structure` | `BookPipeline` |
| detection | `pf/detection/` | `source_problems` | `pf detect`, in batches that resume | `BookPipeline` |
| figures, scoring | `pf/figures/`, `pf/scoring/` | `source_problems.is_solvable`, `candidate_scores` | `pf figures`, `pf score` | `BookPipeline` |
| LLM batches | `pf/llm/batching.py` | none | `call_batch` | `Batching` |
| selection | `pf/selection/selection.py` | none (reads scores) | `run_selection` | `Selection` |
| variants, code generation, re-verification | `pf/variants/`, `pf/codegen/`, `pf/verification/reverify.py` | `variants` | generate, solve, solve again | `Verification` |
| sandbox | `pf/sandbox/runner.py` | none | run a program | `Verification` (how runs end) |
| rendering | `pf/render/render.py` | the files of a set | `pf render` | `Verification` |
| calibration, blind re-solve | `pf/verification/` | none | compare answers | `AnswerComparison` |
| progress stream | `api/routers/jobs.py` | none | poll until terminal | its end is `QueuedJobSettles`, `UploadSettles` |
| command line | `pf/cli/main.py` | none | calls the stages | the commands of `BookPipeline`, `Verification`, `Ingest`, `Distillation` |
| chat, auth, profiles, migrations, web client | | | | not modelled, see 7 |

How they interact:

- The API commits a `jobs` row and sends its id through the broker; a worker task reads the row and moves its status.
  The row and the message are not one transaction.
- Tasks share the tables and nothing else. They are guarded by unique indexes only; there are no row locks and the
  isolation level is PostgreSQL's default, read committed. Every read that a later commit relies on can be stale.
- Celery acknowledges a message when it is taken and does not retry: a task whose worker dies is not run again.
- An exception in a task is caught and recorded as FAILED by the same session. When the exception is a refused commit,
  that session cannot commit any more, the handler's commit raises too, and the row keeps the status RUNNING
  (`worker/tasks.py:344-347`, `pf/db/base.py:43-53`). The models call this outcome `aborted`.
- Upload handlers compare with a row they read, await the request body and a thread, and then write the row.
- All LLM calls of all processes go through quota counts kept in one JSON file.
- Clusters of concepts, made by distillation, are what selection draws from and what the ledger holds.
- The stages of the command line hand a book on through tables. Each is run by hand, skips what is there already, and
  commits by batch or by row. Nothing keeps two from running at once or in another order than the documented one:
  detection, figure classification and distillation share the flag `is_solvable`, code generation, re-verification
  and rendering the rows of `variants`.

What is hard here: interleavings of tasks that read and then commit; a crash between two commits; messages sent after
a commit; the resumption of partial work; state read before an `await`; and a file that several processes rewrite.
`PROJECT.json` lists each such hazard at its line, with the properties that watch it.

## 2. Modules

Each module names every code operation as one action: the code between two points at which another process can look
at, or change, the shared state. A `pc` (and `task`) per job, request or run holds the place in the code. The data is
abstract: concepts, files, problems and jobs are model values.

**`ConceptIssuance`** is the abstract promise: a course holds concepts by job; `Issue` gives a job a set of concepts
none of which the course holds; `Deliver` reports a job that holds some. `ProblemSets` is shown to implement it.

**`ProblemSets`**. `req` and `status` are the `jobs` columns; `psets` and `ledger` are the rows of the two tables; a
job names the set it makes. `Generate`, `Reshuffle` and `NewSet` commit a job, `Publish` sends its message. The task:
`StartTask`, then `Select` (S7, over the concepts not in the ledger) or `LoadOriginal` (a reshuffle), `GenerateItem`
per concept (S8 and S9, any outcome), `AllItemsDone`, `NextRunNumber` (read long before it is used), `PersistSet`,
`WriteLedger`, `Finish`. `TaskRaises`, `Crash` and `PublishFails` are the failures. Selection is abstracted to any
choice from any pool it may see; how it chooses is left to a module of its own.

**`RateLimiter`**. `file` is the JSON file: counts by key, or `Torn` when it does not parse. `Lock`, `Load`, `Truncate`
and `Write` are the steps of `acquire` under the lock of one object; several objects share the file. Since
`Path.write_text` truncates before it writes, `Truncate` and `Write` are two steps, and a late writer may leave the
tail of another's text. A key carries the date, so midnight is a change of key.

**`TokenBucket`**. The bucket in units of 1/Window token, which makes the arithmetic of the refill exact. `Take` and
`Sleep` are the two outcomes of a turn of the loop; a sleeper may wake late. An observer opens a window at any moment.

**`Upload`**. One job, its file, and PATCH requests: `Patch` (the checks), `Stream`, `Write`, `Save`, `Publish`, with
`Disconnect` and `Die`; and per request the ingest task it may have started: `StartTask`, `MarkRunning`, `EndTask`,
`CrashTask`. The ways a PATCH may end are told apart: `refused`, `answered`, `dropped` (the connection was lost and
nothing else happened), `lost` (the API process died before the row was updated) and `unpublished` (the row says QUEUED,
and the message was not sent). SQLAlchemy writes a column only when its value differs from what the session read: that
is why `MarkRunning` looks at `saw` and why an empty chunk leaves `received` alone.

**`Ingest`**. A book is identified by its file (`file_sha256` is unique). A run is a Celery task, which commits page
by page, or a command, which commits once; either is for a discipline, which the book it inserts belongs to (`shelf`).
`LookUp` by hash, whatever the discipline of the row it finds, `ReadPresent` to resume, `Match` against the books of the
run's discipline that are DONE (`Candidates`), `InsertBook`/`PersistPage`/`FinishBook` or `CommitBook`/`CommitPages`,
`End`. What metadata and MinHash can tell apart is the constant `EditionOf`.

**`Distillation`**. A card is identified by its problem, a cluster by its representative. `Batch` commits the cards of
one LLM call, any subset of which was answered well; `LoadClusters` and `Place` are `_cluster_cards` over the run's
own view, and `CommitClusters` writes whole member lists back. `Similar` is the relation the fingerprints and the
cosine threshold decide: symmetric and reflexive, not transitive.

**`BookPipeline`** is the way from pages to scored cards: `StartStructure`/`FinishStructure`, `StartDetect`,
`ConfirmBatch`, `FinishDetect`, `StartFigures`/`FinishFigures`, `StartDistill`, `DistillBatch`, `StartScore`,
`ScoreBatch`, and `Raise`, each for a slot in which one command runs. A command reads its rows when it starts and
commits what it decides later, by batch or at its end; `IngestPage` lets the last pages come in meanwhile. The text of
a book is a sequence of lines of a few kinds; `SectionsFrom` and `Spans` are what the stages cut from it, and
`Candidates` is what is kept of the spans: the code cuts the text of each at `MAX_CANDIDATE_CHARS` = 4000. Characters are
not counted in the model; `reach`, part of a book, says of each line how far a candidate that starts there can go
(`Kept`). `PointsAtFigure` looks at what was kept. Fixed for a book is how well each title fits each page, free is what
the model answers. `IsBook` says what a text must be for the theorems: its lines are in the order of its pages, and a
reach ends neither before its line nor before that of an earlier one.

**`Batching`** is `call_batch` as a function of the array that the model sent, and `Aligned`, what its callers rely on.

**`Selection`** is one run of the greedy selection. `Gather` builds the pool and its tiers, `Consider` looks at one
concept, `NextPass` goes from tier to tier, to filling up and to relaxing the similarity; `Refuse` is the error for a
mix that does not add up. `ScaledMix`, `SectionCap` and `Thirds` are the arithmetic, in whole numbers: for all
targets below 500 the scaled mix was compared with the floating-point code.

**`Verification`** is what happens to the selected concepts. Three kinds of command solve problems (`pf generate`, the
worker's job, `run_reverify`): `Take` a concept or a row, `Solve` it with one program or two, `Save`, `Finish`; `Cut` is
the quota that is spent before a call. An update writes the columns that differ from what the session had read
(`Flushed`). `pf render` reads its rows and writes the programs, one file each, the handout and the manual one after the
other, and may stop between any two (`WriteCode` once per program, `WriteHandout`, `WriteManual`, `StopRender`). Of a
program, the model knows how the sandbox reports its run.

**`AnswerComparison`** holds the verdicts of calibration (`Match`) and of the blind re-solve (`Agrees`), and what they
are held against: whether each value can have a result of its own (`Assignable`).

**`Practice`** composes the three: a selection ends, `Hand` gives one of the selected sets to the commands of
`Verification` and clears what the selection leaves behind, so that the state graph is the sum of the two and not
their product. The ghosts `doubled`, `mixed` and `torn` remember which commands overlapped or were cut short. The
comparisons of `AnswerComparison` write nothing; they are looked at once, when the set has been handed over.

**`MC*`** give the constants their instances and add ghosts: `overlapped` remembers whether two tasks, runs or requests
were ever under way at once, so that one run checks what holds in general and what holds as long as nothing overlaps;
in `MCRateLimiter` `used` and `died` do the same for limiters and cut-off saves. `MCBookPipeline` remembers which
commands overlapped, started early or out of order, and what was shown to the model. A ghost is written and never read
by a step, so it restricts nothing; the theorems about a property with a ghost are about the specification with it.

**`*Proofs`** hold the theorems. Definitions headed `Fault:` are plausible bugs of the definition that follows; the
project's mutants put them in its place, and each property is refuted by one.

## 3. Runs

| run | instance | what it shows |
|---|---|---|
| `problem_sets` | 3 jobs, 2 courses, 2 concepts, sizes 1 and 2, 2 workers | the ledger answers for stored sets, all or nothing; DONE sets are disjoint; a FAILED job consumed nothing; numbering has no gap; reshuffles stay inside their original; "remaining" is right |
| `problem_sets_settle` | 3 jobs, 1 course, 2 concepts, 2 workers | refinement of `ConceptIssuance`; each queued job settles; without overlap no index is hit and only a death makes a concept repeat |
| `problem_sets_repeat` | 2 jobs | *violation*: two stored sets of a course share a concept |
| `rate_limiter` | 2 threads on one limiter, 1 on another, 2 keys with quotas 2 and 1 | no call is refused early; through one limiter, with no save cut off, the quota holds and the file is exact |
| `token_bucket` | rpm 3, window 5, clock to 14 | at most 2·rpm acquisitions in any window |
| `upload` | 3 PATCHes, 3 bytes | the resume offset is backed by the file; ingest starts on whole files; the job comes to rest whatever connections drop, unless a commit of QUEUED is not published or a task ends without a word; without overlap one ingest |
| `ingest` | 3 runs, 3 files, 2 editions, 2 disciplines, 2-3 pages | DONE books are complete; reports name ingested books of the right edition and discipline; without overlap no index refuses, and only a death stores an edition twice in a discipline |
| `distillation` | 4 runs, 2 at a time, 2 books, 4 problems | clusters are disjoint and hold cards that match their representative; without overlap no two clusters match, and only interruptions leave cards without a cluster |
| `distillation_rerun` | 3 runs one at a time | *violation*: re-running leaves the interrupted cards without a cluster |
| `book_pipeline` | 2 books, 5 commands, 2 at a time, batches of 2, the last page late | every page read has one section; candidates are disjoint, and every line from its heading on is in one or past the cap of its own; every element of an answer lands on its own candidate; commands that do not overlap store nothing twice, and one that ends well has had every candidate answered; no derivation gets a card, and no problem without its figure does when the stages are run in order |
| `practice` | 4 concepts, 2 sections, 1024 pools, 10 requests; then 4 commands, 2 at a time, on 2 concepts, 3 programs | caps hold, relaxations are reported, a set is short only when blocked; a verified answer is what its own program printed; the files of a render agree; one verified variant per concept; verdicts on answers are those of an exact matching |
| `selection_short` | the same pools | *violation*: a set short of its target is returned as one that reaches it |

Deadlock is not checked: faculty, clients and operators may stop asking, and a system at rest is right.

**Bounds.** `Jobs`, `Patches`, `Runs` and `MaxCalls` bound how much happens; nothing else is cut. Two concurrent tasks
and a third job are enough for every pairwise race in `ProblemSets` together with one earlier or later set (a new set
after a failed one, a reshuffle of an unfinished one), two concepts for a partial overlap, two courses for a leak
between them. Three PATCHes give a late one after a resumed one after a lost one; three bytes give a chunk before,
across and after the resume offset. Three runs of `Ingest` are a crash, a rescan and a resumption, or two
scans for one discipline and one for another; four of
`Distillation` an interruption in each book and both re-runs. `MaxTime` lets a window of 5 begin after a burst and
end before the clock does, with sleeps cut at 1 of the 5 seconds.

In `BookPipeline` one of the two books has a table of contents with a title that fits two pages (a running header) and
contents of up to `MaxEntries` = 2 rows in any order, one perhaps malformed; the other has none, but a chapter heading
after the first page, two problems on one page, a problem header without items that runs over a page, a problem
that points at a figure, and one that is too long and points at a figure only past the cap. `BatchSize` = 2 gives batches that are full, partial and single, and `MaxMissing` = 1 a page
that comes in while a command runs. Five commands (`MaxCommands`) are two of detection, with figures, distillation and
scoring or structure between or beside them. `Practice` has pools of four concepts in two sections, with labels,
physics-informed ones and similar pairs in all the arrangements named in `MCPools`, `MaxPerSection` = 2 (3 in the
code) and `MaxPhysics` = 1 (2), targets of 2 and 3; with these every cap binds in some pool and every pass is reached.
Four commands are, for instance, a generation, two overlapping re-verifications and a render; `MaxVariants` = 2 is one
row per concept or two of one. Of the three programs two print different answers, and one has printed its answer when
it is killed for its memory and still exits with 0. The comparisons use up to three results and two values, with a
unit that scales and one that shifts, and a tolerance of a tenth (`Inverse_tol`) where the code has a hundredth. A
process that could run for ever is bounded by these alone, so that all liveness is checked on complete state graphs
without constraints.

**Symmetry** is used on jobs, courses, concepts, runs and slots in runs without liveness; no definition picks one of
them.

**Fairness** is weak and on the steps of processes that are running: a worker takes messages and continues its task
(`problem_sets_settle`), a handler continues a request and a worker its ingest task (`upload`). It is per job or
request, as Celery and the event loop serve each. Users, failures, crashes and lost messages are never owed. Publishing
a message is not owed to a job in `ProblemSets`: a queued row whose message was never sent stays QUEUED for ever, and
`QueuedJobSettles` therefore starts where the broker has the message.

## 4. What the checks found

Three are runs that TLC refutes, with the line of the repository each contradicts in `PROJECT.json`.

1. *A concept is repeated* (`problem_sets_repeat`). A set is committed, and can be listed and downloaded, before its
   ledger rows, in another transaction (`worker/tasks.py:213`, `244`). `db/models.py:391-392` says "in the same
   transaction". Two tasks at once, or a death in between, suffice.
2. *Concepts are lost* (`distillation_rerun`). The cards of committed batches of an interrupted run are skipped by the
   run that resumes, and so get no cluster; selection never draws them.
3. *A short set is not reported* (`selection_short`). Only the size of the pool is compared with the target. When the
   caps leave less, the set is returned short, with `can_reach_target` true and perhaps no relaxation.
   `ShortOnlyIfBlocked` shows that nothing but the caps can do that.

The others are the exceptions that properties make, each found as a counterexample of the property without it:

- Several limiters share the file but not the lock, so together they exceed the daily quota; and a death inside
  `write_text` restarts the count of the day. `QuotaKeptByOneLimiter` is about one limiter and no such death.
- Two PATCHes with the last chunk both pass the checks, which are not repeated after the awaits, and start two ingest
  tasks. `OneAtATimeIngestedOnce` is about a client that waits.
- A job whose last PATCH was cut short between its commit of QUEUED and the broker stays QUEUED, and one whose task
  ended without recording anything stays RUNNING (`UploadSettles`). A dropped connection, or a death before the row is
  updated, does no such harm.
- A partial book is not a candidate for a match, and a resumed one is not matched: two books for one edition
  (`OneAtATimeDuplicatesOnlyAfterCrash`). The property is about the books of one discipline, as the match is
  (`pipeline.py:327`): scans of an edition for two disciplines are two books. The lookup by hash has no such filter: the
  same file uploaded for another discipline is answered with the book of the first (`ReportedBookReady`).
- The text of a problem past the cap of 4000 characters is in no candidate (`CandidatesTile` says that nothing else is
  lost after an item begins); the comment at `detection.py:39-48` tells of a span of 14000. A figure referred to only
  there is not noticed, so `OrderedCardsStaySolvable` is about the text that was stored.
- Two detect commands store a problem twice, and so does a later one when a page came in since and the last candidate grew
  (`OneAtATimeStoredOnce`). A second structure run adds its sections beside those of the first
  (`PagesHaveOneSection` is about each run).
- A problem distilled before its figure was classified keeps its card (`OrderedCardsStaySolvable`).
- When the quota is spent between two attempts, `run_reverify` returns with a new program beside the old answer, which
  the caller's session commits; two runs of it at once mix columns of both (`AnswerIsFromItsCode`).
- The docstring of the bucket says "at most `rpm` acquisitions per rolling 60s window"; the bound it keeps, and that is
  proved, is twice that.

## 5. Proofs

All theorems hold for every value of the constants under the named assumptions next to their declarations (finite sets
where cardinalities are taken, positive sizes, sentinels outside the sets they stand beside, texts that are books,
answers that are numbers). Every invariant that a passing run checks is a theorem, and so is the refinement.

- **`ProblemSetsProofs`**. None of the properties is inductive: that a FAILED job left no ledger row, for instance,
  needs to know where each job stands. `IInv` adds, by topic: `JobInv` (the columns of a job against its place),
  `SetInv` (a stored set against its job), `LedgerInv` (a job's rows are all there or none is, no concept is held
  twice), `RunInv` (a number that was read is at most one past the numbers in use, since sets are only added) and
  `SourceInv` (a reshuffle, from its filing on, has a stored original and never took a concept from elsewhere).
  `Invariance` proves `Spec => []IInv` with one step per action and per part; `LedgerIsBacked`, `LedgerIsAtomic`,
  `DoneSetsNeverOverlap`, `FailureIssuesNothing`, `RunNumbersNeverSkip`, `ReshuffleStaysInside`, `RemainingIsExact`
  (which also counts, so the concepts must be finitely many) and `TypeCorrect` follow. `Implementation`
  proves `Spec => KeepsPromise`: `WriteLedger` is `Issue`, the `Finish` of an issuing job is `Deliver`, all else stutters.
  `SerialTasksCommit` and `SerialRepeatsNeedACrash` add what holds while `overlapped` is false: the one running task
  read everything that is stored, so its number is free and its concepts are those no ledger row has.
- **`RateLimiterProofs`**. `NeverRefusedEarly` rests on `SaveInv`: what a caller is about to save was counted from
  calls that were let through. `LockNeverKept` on `LockInv`. `QuotaWithOneLimiter`, for any number of threads on one
  limiter and deaths anywhere but inside a save, on `ExactInv`: the file is exact whenever nobody writes.
  `QuotaWhileOneLimiterIsUsed` carries it over to the ghosts: as long as `used` has one limiter and nobody `died` in a save.
- **`TokenBucketProofs`**. `RateBounded` rests on `Paid`: what was acquired in the window has been paid from the bucket
  as it was when the window opened, or from the refill since. `SleepsAreBounded` on `Slept`: the bucket of a sleeping
  caller holds what it slept for so far, but for the last sleep.
- **`UploadProofs`**. `OffsetIsBacked` and `IngestsWholeFiles` rest on `UploadInv`: what each handler has checked or
  written stays written, since the file only grows. `IngestedOnceOneAtATime`: without overlap, a request that starts an
  ingest leaves a row that no later PATCH passes the checks of.
- **`IngestProofs`**. `DoneMeansComplete` and `ReportsAreReady` rest on `IngestInv`: what a run still has to persist
  and what is there make up the file, although others persist it too. `NeverRefusedOneAtATime` and
  `DuplicatesNeedACrash`, which is about each discipline, follow what the one running run has looked up: it still holds
  when the run inserts.
- **`DistillationProofs`**. `ClustersStayDisjoint` and `ClustersStaySound` rest on two facts about the clusters in the
  table together with those in the sessions of runs, which may be stale: `FreshInv` (a card still to be placed is in no
  cluster, and with one run only) and `HomeInv` (sessions may differ in what they know of a cluster, but a card has the
  same representative wherever it is seen). So a lost update can lose members, but never put a card into two clusters.
  `DistinctOneAtATime` and `OrphansNeedAnInterruption`: the clusters of the one running session are those of the table
  with what it placed since, and it commits them all or is interrupted.
- **`PracticeProofs`**. Of selection, `MixAddsUp`: the scaled quotas of the tiers add up to the target, for every
  target. On it rests that the pass of a tier, which counts only what it took itself, never makes the set too large, and
  that a set of full size without a report has the quota of each tier: `Tiered` says that no tier is over its quota before
  a pass fills up. `CapsAreHeld`, `RelaxationsReported` and `ShortIsBlocked` follow from `Invariance`; the last needs
  that a concept refused for a cap in the last pass stays refused (`Tried`), as sets only grow.
  Of solving and rendering, `PracticeInvariance`, in three parts that each hold as long as their ghost is FALSE.
  `SoundInv`: a lone re-verification has its rows in memory as they are in the table (`MemoryOf`), so what it writes
  back makes a pair that belongs together; for `AnswersFromTheirCode`. `SingleInv`: a concept that `generate` is at has
  no verified variant of `generate`, and no re-verification makes one verified again; for `OneVerified`. `FilesInv`: the
  files written so far, program by program (`Written`), are of the pages the one render has read, those not yet written
  (`Unwritten`) still of the manual before; for `FilesAgree`.
  Of the verdicts, `VerdictsHold`: `MatchAssigns` (the results taken so far are an assignment of the values so far),
  `AssignableMatches` (no result taken was of use to a later value) and `AgreesIs` (of finitely many ratios, compared
  without division, one is least).
- **`BookPipelineProofs`**. Of the text: `Tiles` (headings, the items under them, where each ends, and `CutOff`, what the
  cap takes away, wherever it falls), `ChaptersSplit`
  and `SectionsSplit` (page ranges from any increasing first pages, two of which may be equal), `FirstPagesAre` (the
  contents give such pages, however titles fit). So `SectionsPartition` and `DetectionTiles` hold for every book. Of the
  commands: `BookInv` says that copies of a span are numbered apart, that what a detect command has left is cut from the
  pages it saw and, when it ran alone, was not stored (`ChosenWell`, `LeftOnce`), that what it passed over had been
  shown (`ShownSoFar`, `StoredSoFar`, `StoredWhole`), and that what a distill run has loaded was solvable (`LoadedCards`).
  `StoredOnce`, `NothingOverlooked`, `NoCardForDerivations` and `CardsStaySolvable` follow. `AnswersLand` is about
  `call_batch` and answers of any length.

The inductive invariants, `TypeOK` of each module (`PracticeTypes`, `PipelineTypes` and the `TypeCorrect` of the others),
`LockNeverKept`, `SleepsAreBounded` and `QuotaWithOneLimiter` are theorems only; they were checked with TLC before
they were proved.

Induction: the induction theorems of the library take an operator, which the provers cannot instantiate. Where a proof
needs one, it takes the least counterexample instead (`LeastExists`, from the well-foundedness of the strict subset
ordering in `FiniteSetTheorems`). This also reaches the folds `Results` and `Match`: `ResultsUnfold` and `MatchUnfolds`
show that the recursive function by which the library defines a fold exists, `UnfoldsBy` what one turn of the loop does,
and the rest is an invariant of the loop.

Only model-checked: liveness (`QueuedJobSettles`, `UploadSettles`), which needs fairness and ENABLED, out of the
prover's reach. The runs remain what shows that every action can happen, and the three violations.

## 6. Plan

Done, in order of importance: the issuing of sets; the quota; upload; ingest; distillation; the stages from pages to
scores; selection; solving, solving again and rendering; the comparison of answers; and proofs of all of their
invariants. Next:

1. `Selection` as the `Select` of `ProblemSets`: a refinement in which only the returned set is visible.
2. An abstract specification of the daily quota, which one limiter implements: a count that only grows, up to `rpd`.
3. Action properties: that a DONE job, a DONE book and an issued concept stay what they are; that tables only grow.

## 7. Not modelled

- Authentication, chat, profiles, migrations, the web client: no shared state of their own, or outside the process.
  Of the sandbox, Docker and its limits; of rendering, layout and the Typst compiler. Their failure is a failure of the
  task or command that calls them.
- `HEAD`, listings, downloads and the stream only read. That the stream ends is the liveness of the job.
- Text: extraction, fingerprints, embeddings, prompts and the reading of numbers are abstracted to page sets, to the
  relations `EditionOf` and `Similar`, to kinds of lines and how far a cap reaches from each, and to values. Cluster centroids are not modelled; nothing
  modelled reads them.
- The topics of a section and of a card, the suitability scores and the extension types: constraints on them are
  reported and nothing else, and a variant's extension is a label.
- Backends and routes of the LLM client, and its costs: a call answers or raises.
- One bucket and one book's uploads at a time: jobs of different uploads share nothing. The buckets of several limiters
  add up, which the model of one bucket does not show.
- Whether a mix inherited by a new set adds up to its count: `Selection` refuses one that does not, `ProblemSets`
  leaves the mix out.
- `is_recycled` and `canonical_book_id` are read by the code and set by nothing; they are constants here.
