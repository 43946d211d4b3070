# Career Scout MCP: specifications and proofs

TLA+ models of the career-scout-mcp server, the TLC configurations that check
them on small instances, and TLAPS proofs of the properties that matter most for
every value of the constants. Paths below are relative to the package
`src/src/career_scout_mcp/` unless they start with `src/`.

## 1. The system

An MCP server over a dataset of job postings. A client asks it to have a posting
scored by an LLM against a rubric file; scores are kept in SQLite, listed,
summarised and rendered into an HTML digest. Scores the operator disagrees with
are tagged in a second database, from which a prompt for refining the rubric is
made. Several server processes may share the data (one per stdio client, plus an
HTTP one run by systemd), and a script reseeds the synthetic part of the dataset
at any time.

| component | state | operations | correct when | hard part |
|---|---|---|---|---|
| scoring client (`scoring/client.py`) | none | `score_posting`: call the LLM, slice the JSON object out of the completion, decode, validate | a score is that of the first object of the completion, and only of an acceptable one; every failure is a `ScoringError` | noisy completions; a call of up to 300 s; which exceptions each `try` names |
| rubric loader (`scoring/rubric.py`) | the rubric file, edited by the operator | `load_current_rubric`, `_extract_version` | the version stored with a score is that of the text the LLM saw | the file changes or vanishes during the LLM call |
| store (`storage/db.py`) | `scout.db`, `tagged_mismatches.db`, WAL, one write lock each | a connection per call, pragmas, `init_schemas`, `healthcheck` | foreign keys hold; the lock never outlives its transaction | concurrent writers, cancellation, crash inside a transaction |
| queries, writes (`storage/queries.py`) | rows of `scores`, `tagged_mismatches` | `insert_score`, `insert_tagged_mismatch` | a row is stored exactly when the caller is told so | busy timeout; a failed INSERT that leaves a transaction open |
| queries, reads | none | `get_posting`, `get_latest_score`, `query_postings_filtered`, `get_scores_history`, `list_tagged_mismatches`, `get_stats_summary` | what is read agrees with what callers were told before | rows committed in another order than their stamps; equal stamps; five SELECTs, five snapshots |
| tools (`primitives/tools.py`) | `current.html` | `rescore_posting`, `tag_mismatched_score`, `query_postings`, `regenerate_digest` | see the rows above; the digest file is whole and not older than a finished render | the digest is overwritten in place |
| resources (`primitives/resources.py`) | none | `digest_current`, `scores_history`, `rubric_current`, `config_scrapers`, `stats_summary` | serve a digest or the placeholder | reading while a render writes |
| prompts (`primitives/prompts.py`) | none | `tune_rubric`, `analyze_digest_trends` | the rubric shown is the one the mismatches are about | the rubric is read before the awaited query |
| seed script (`src/scripts/seed_db.py`) | rows `synth-...` of `postings` | DELETE, then the SQL file | synthetic postings all present or all absent; safe to rerun | `executescript` commits in between; scores refer to the rows |
| server (`server.py`), CLI (`__main__.py`), configuration (`config.py`) | the settings, constant once a process runs; the files `init_schemas` creates | launch, refusal of bad settings, `init_schemas`, binding, bearer check | whoever serves has its schema; the systemd unit comes back after a failure | two schema scripts interleaved, killed or locked out; settings that pass one check and fail the next |
| health (`health.py`) | none | the probe of Ollama beside one count in each database | the status is true of the time it was made in | three findings of three instants |
| logging (`logging.py`) | none | redacting sink | every line is redacted | order of patterns |

How they interact. A tool call is an asyncio task. `rescore_posting` awaits a
read of the posting, loads the rubric synchronously, awaits the LLM, then awaits
the insertion: other tasks, other processes and the script run at each await.
Calls share nothing in memory; they meet in SQLite (one writer at a time, readers
see the last commit), in the rubric file and in `current.html`. `tune_rubric`
loads the rubric synchronously and then awaits the list of mismatches. A server
process checks its settings on import, runs two schema scripts, each statement of
which commits by itself, and only then serves. The code of
`regenerate_digest` after its query has no await, so it holds the event loop of
its own process and nothing else.

## 2. Modules

| module | models | relation |
|---|---|---|
| `Scoring` | `score_posting` from the LLM's reply on, as an operator from replies to results or exceptions | used by `Rescore`, `Client` |
| `Client` | one call of `score_posting`, with a declarative reading of the completion to judge it by | extends `Scoring` |
| `Rubric` | `_extract_version` over lines | used by `Rescore` |
| `ScoutStore` | abstract: what `scout.db` promises to its readers, with no locks, calls or transactions | implemented by `Rescore` |
| `Rescore` | concurrent `rescore_posting` calls, SQLite's write lock, the seed script, rubric edits, the wall clock | extends `Scoring`, `Rubric`; instantiates `ScoutStore` |
| `Paging` | ORDER BY, LIMIT and OFFSET as the set of pages SQL may answer with | used by `Queries`, `Tagging` |
| `Queries` | the SELECTs of `queries.py` over a snapshot, each as a set of possible answers | used by `Reads` |
| `RescoreHistory` | `Rescore` with two history variables: which calls lost their posting on the way, which script runs were overtaken | extends `Rescore` |
| `Reads` | readers (lists, digest rows, history, statistics) beside the writers of `Rescore` | extends `Rescore`, `Queries` |
| `Journal` | abstract: what `tagged_mismatches.db` promises to those who tag | implemented by `Tagging` |
| `Tagging` | `tag_mismatched_score` calls on the second database and `tune_rubric` prompts beside a rubric that is edited | extends `Paging`; instantiates `Journal` |
| `Startup` | settings, command line, `init_schemas`, the two transports, health, systemd | stands alone: it is about what the other modules take as given |
| `Digest` | `regenerate_digest` and `digest_current` over `current.html`, several processes | stands alone; a score commit is one action |
| `ScoringProofs`, `ClientProofs`, `RescoreProofs`, `PagingProofs`, `ReadsProofs`, `TaggingProofs`, `StartupProofs`, `DigestProofs` | the theorems | extend the modules they are about, `RescoreProofs` the one with the history |
| `MCScoring`, `MCRescore`, `MCReads`, `MCTagging`, `MCStartup`, `MCDigest` | instances for TLC; `MCRescore` extends `RescoreHistory` | |

### Rescore: state and actions

A call goes through `idle`, `reading` (before the SELECT of `get_posting`),
`loading`, `scoring` (awaiting the LLM), `inserting` (row built, lock not taken),
`inserted` or `aborting` (inside the transaction), `committed`, `done`.

| action | code |
|---|---|
| `Start`, `GetPosting` | `tools.py:89-91`; `ValueError` when there is no row |
| `LoadRubric` | `tools.py:93`, `rubric.py:62-75`; `FileNotFoundError` when there is no file |
| `LlmReply` | `client.py:120-166`, then `insert_score` up to its first await: `now` is taken here |
| `BeginInsert` | the implicit BEGIN and the INSERT, `queries.py:323-329`; the foreign key is checked under the lock, and a refused INSERT leaves the transaction open |
| `BusyTimeout` | `db.py:111`, "database is locked" after 5 s |
| `Commit`, `Return` | `queries.py:330-334`, `tools.py:104` |
| `CloseAborted` | the exception closes the connection, `db.py:118`: rollback |
| `Abandon` | cancellation at any await, or the end of the process |
| `SeedDelete`, `SeedAbort`, `SeedCommit`, `SeedInsert` | `seed_db.py:28-31`; `executescript` commits the deletion first, then the one INSERT commits on its own |
| `SeedBusyTimeout`, `SeedKill` | the script fails to get the lock, or is killed, at each statement |
| `EditRubric`, `Tick` | the environment |

`GetPosting` and the SELECTs take no lock: in WAL mode a reader sees the last
commit and neither waits nor is waited for.

`RescoreHistory` adds `gone`, the calls whose posting was deleted after they had
found it and before they ended, and `overtaken`, the script runs to which another
run put the rows back between their two commits. `Observe` reads each step of
`Rescore` and hinders none.

### Tagging: state and actions

`tags` is the table, `writer` its write lock. A call goes through `idle`,
`inserting` (stamped, waiting for the lock), `inserted` (inside the transaction),
`committed`, `done`; a prompt through `idle`, `invoked`, `listing` and its end.

| action | code |
|---|---|
| `Start` | `tools.py:117`, `queries.py:341-349`: the blank checks, then `now` |
| `BeginInsert`, `BusyTimeout` | `queries.py:350-355`; the cursor's `lastrowid` is set here |
| `Commit`, `Return` | `queries.py:356-360`, `tools.py:122-126` |
| `Abandon` | cancellation at any await, or the end of the process |
| `Invoke`, `LoadRubric` | `prompts.py:39-47` and the check of `limit`, `queries.py:255-256`; a missing file comes before a bad limit |
| `ListTags` | the SELECT, `queries.py:258-264`, and the two answers of `prompts.py:49-82` |
| `EditRubric`, `Tick` | the environment |

`prior`, `since` and `before` are history variables: which calls were answered
before a call started, what the rubric file has held since a prompt was invoked,
and which calls were answered before it loaded the rubric. No guard reads them.

### Startup: state and actions

A process is `down`, in the script of `scout` or `tagged` (at statement `at`),
`binding` or `serving`. `objects` holds the tables and indexes each database has,
`lock` its writer.

| action | code |
|---|---|
| `Launch` | `config.py:83-150`, `__main__.py:17-55`: refused (`ValidationError` on import, `ValueError` from the port of the environment, `SystemExit` from argparse or the missing token) or on to `init_schemas` |
| `Present` | CREATE ... IF NOT EXISTS of an object that is there: no lock is needed |
| `BeginCreate`, `CommitCreate` | one of an object that is not: lock, create, commit, `db.py:143-149` |
| `BusyTimeout` | `db.py:111`; the process ends with "database is locked" |
| `Bind` | `server.py:93`, `server.py:112-118`; stdio has nothing to bind, an address in use or with no such name ends the process |
| `Stop`, `Kill`, `Rotate` | the client or operator; a kill at any step; `scout.db` replaced by an empty file |
| `AskHealth`, `Count`, `CheckOllama`, `AnswerHealth` | `health.py:57-92`, `db.py:152-182`: `scout.db` is counted before `tagged_mismatches.db`, Ollama at any time |
| `Restart` | the unit's `Restart=on-failure` |

Three facts the code takes from its libraries were tried out with them: creating
an object that exists takes no lock; a missing one, while another connection
writes, raises "database is locked"; and `[::1]` with its brackets, which
`config.py` strips to validate and `__main__.py` does not, is no name a socket can
be bound to.

### What is abstracted

Rationale, model name, prompt text and the columns no query filters by are left
out. A completion is a sequence of tokens: whole objects, opening braces that
nothing closes, closing braces that close nothing, and prose. `Body` says what the
decoder makes of an object or of what an unclosed brace begins: `json.loads` decodes
that first value before it looks at what follows ("Extra data"), so an integer too
long or a nesting too deep raises its own exception whatever stands behind it. A
rubric is a sequence of lines (a stamp, blank, plain); a digest document is a run
of blocks labelled with the number of commits it was rendered from. Blank-string
checks on arguments are left out. The wall clock never goes back (it is the
operating system's UTC clock; a clock that is set back reorders the stamps and
falls outside the model); reading the rubric file is one step. Posting columns
are constant, since the only writer reinserts the same rows. In `Reads` the count
of mismatches, which comes from the other database, is any number. A tagged row
is the call it came from and its stamp; posting, band and reason are texts the
code passes on. In `Startup` the indexes of one script are one object, a host is
one of four kinds (empty, loopback, bracketed loopback, elsewhere), texts of ports
are numbers or not, and `Rotate` does not happen inside the first script (its
tables would go to the file that was moved away). An IPv6 literal without brackets
behaves as `127.0.0.1` does, accepted and bindable, and is not listed apart. The
first connection to a fresh file takes its lock for a moment in `PRAGMA journal_mode
= WAL` (`db.py:108`), before `busy_timeout` is set three lines below; the driver's own
timeout is five seconds as well and the exception is the one of `BusyTimeout`, so
this is not a step of its own. One health answer is made at a
time; more of them would not share anything.

## 3. Runs

| run | question | instance | states |
|---|---|---|---|
| `scoring` | Is a score that of the first object only, and never lost but for a cause? | every completion of up to 3 tokens of 9 objects, 3 unclosed openings, a stray brace and prose; all call failures | 5,900 |
| `first_object` (violation) | "We isolate the first {...} block" | up to 2 tokens | |
| `scoring_failures` (violation) | "All failures collapse to ScoringError" | up to 2 tokens | |
| `rescore` | Do tables, callers and the lock agree at every interleaving, is `ScoutStore` implemented, does every call end and is the lock given back? | 2 calls, 2 script runs, 2 ids, 2 rubrics, 2 replies, no symmetry | 406,000 |
| `seed_rerun` (violation) | "Safe to re-run" | 1 call, 1 script run | |
| `missing_posting` (violation) | "Raises ValueError if posting not found" | 1 call, 1 script run | |
| `reads` | Do lists, history and statistics agree with what callers were told? | 2 calls, 1 script run, 1 reader, 7 requests, answers of up to 2 rows, 2 instants | 1,050,000 |
| `latest_tie` (violation) | "A posting joined with its latest score" | 2 calls, one instant | |
| `digest` | What does overwriting in place still guarantee? | 3 renders, 2 processes, 1 commit, 1 kill or failed write | 1,280,000 |
| `tagging` | Do acknowledgements name the right rows, are prompts live and complete, and is `Journal` implemented? | 2 calls and a refused one, 2 prompts, limits 0, 1, 2, a rubric that is one of two texts or missing, 2 instants | 1,243,000 |
| `startup` | Does whoever serves have its schema, is health true, and does the unit come back? | the unit and a client, 7 environments, 6 command lines, 2 kills, 1 rotation | 220,000 |
| `torn_digest` (violation) | "the most recent digest HTML, or a placeholder" | 1 render, 1 process | |

### What they show

*scoring.* `ScoresOnlyTheFirstObject`: a result is that of the object the first
opening brace of the completion begins, and that object passes the schema; it is
never a fragment, or a later object in place of an unacceptable first one.
`FailsForCause`: prose and fences cost nothing, and what escapes the promise of
`ScoringError` (`scoring_failures`) is a response without choices, or a completion
whose first brace begins what is beyond the limits of the decoder, whatever follows
it; nothing else. The operator is compared with a declarative reading of the
completion (`Leads`, `Framed`, `Acceptable`), not with itself. That a first
acceptable object is also scored when a second one follows, as the documentation
says, does not hold: the slice runs to the last brace (`first_object`).

*rescore.* `ReferentialIntegrity`: no score without its posting, although the
posting was looked up minutes before. `OutcomeMatchesStore`: a call that returned
has exactly its row, one that failed has none, an abandoned one has at most one.
`ScoreTracedToRubric`: the stored version is the stamp of the text that was sent.
`LockHeldByTransaction`: the lock is held exactly inside a live transaction.
`SynthLostOnlyBetweenCommits`: synthetic postings go missing only through a run
between its two commits. `FailuresExplained` bounds the two violations below: the
driver's `IntegrityError` reaches a call only for a synthetic posting that a run
deleted after the call had found it and before it ended (`gone`), and a run only
over scores of its postings or because another run put them back between its two
commits (`overtaken`). `CallsTerminate` and `LockReleased`: every call that was
started ends, and whoever takes the write lock gives it back. `ImplementsStore`:
readers cannot tell the system from `ScoutStore`. `IInv` is the inductive
invariant of the proofs. Violations that belong to this module: after one rescore
of a synthetic posting every reseeding fails on the foreign key (`seed_rerun`),
and a posting deleted during the LLM call surfaces as `sqlite3.IntegrityError`
(`missing_posting`).

*reads.* Rows are stamped before they wait for the lock, so commit order and
stamp order differ; only calls that do not overlap are stamped in order
(`Timeline`). Still, `ListsNoSupersededScore`: a list never shows a score
that a later call had replaced before the query was made; `HistoryNewestFirst`:
the same for the order and the cut of the history; `ListsEveryScoredPosting`: the
join loses no posting that has a returned score and passes the filters, whatever
the script deletes; `StatsOnlyGrow`: the five snapshots of the statistics are
torn in one direction only. "Later" is real time: the variables `prior` and
`before` record which calls were over when a call started or a reader asked.
Equal stamps are the exception, and `latest_tie` shows what they cause; that they
are the only cause is proved (`TwiceOnlyInATie`).

*digest.* `WholeInOneProcess`: with one process and no kill or failed write a
reader never sees a partial file, because the writing holds the event loop.
`AloneRenderIsComplete`: a render no other overlapped leaves its whole document.
`DigestKeepsUp`: a whole document in the file is never older than the commits
before a finished render was invoked, unless an overlapping render put it there.
`torn_digest`: a kill, or a full disk, between truncation and the last block
leaves a partial file that is then served.

*tagging.* `AckNamesRow`: the id a caller is told is that of its own row, although
it is taken after the lock was given back. `PromptRubricIsLive`: the rubric of a
prompt is one the file held while the prompt was being made, also when the
operator replaces its text or removes it and puts it back.
`PromptKeepsNewestTags`: the prompt lists every mismatch acknowledged before its
rubric was loaded, or its list is full of none that is older; stamps taken before
the lock do not harm this, for calls of which one was over before the other.
`ImplementsJournal`: at most one row per call, an answer only with its row, a
refusal only without. `TaggingInv` is the inductive invariant.

*startup.* `ServesWithSchema`: a process that serves has all tables and indexes of
both databases, however scripts interleave or are cut off; a replaced `scout.db`
is the exception, and only until some server is launched. `HealthHonest`: "ok" is
answered only if each database could be read at some time while the answer was
made, "degraded" beside a running Ollama only if one could not. `ServiceRecovers`:
with settings a server can serve with, the unit serves again after each failure,
unless stopped or its address is another's. `StartupInv` is the inductive
invariant.

### Why the bounds are enough

Calls interact pairwise, through the lock, the tables and the rubric: two calls
give a holder and a waiter, an older and a newer row. Two script runs give the
interleaving in which one deletes what the other inserted. One synthetic posting
and one other suffice because the script treats all synthetic rows alike; before
the script has run, the synthetic one is also the posting that does not exist. One
reply is scored and one is refused: what replies there are is the question of
`scoring`. `OneSynthetic` leaves out two calls that are both for the other
posting, which no script touches; it constrains a variable no step changes, so
whole behaviours are left out and liveness is checked on those that remain. The
proofs remove these bounds for the safety properties of `Rescore`. Two stamped
texts tell a right version from a wrong one. `reads` answers histories of two
rows, so that one can supersede the other, and uses two instants, so that stamps
can tie, agree or disagree with the commit order; exploration stops once the last
reader is answered (`Explored`), because its answer and what it is compared with
are fixed from then on, and where the rubric is missing, which only ends calls
that are about to send it. `tagging` has a holder and a waiter of the lock, a list
that is cut and one that is not, two rubric texts of which either can replace the
other, and two prompts so that one could leave something to the other. Prompts
only read, so one of the two has the limit that is refused and ends once it has
the rubric (`OneRefused`); the call with the blank argument comes last
(`BlankLast`), since it changes nothing but its own outcome. `startup` has two
servers because start-ups meet in pairs, at a lock or an address, and two kills so
that a restart can be killed again; one rotation, since the first start-up after
it undoes it. The proofs remove the bounds of `tagging`, `startup`, `digest`,
`reads` and `scoring` for all but liveness. In `digest` the newer document is the
shorter one, so that remains of the older could survive; one kill or failure is
enough to tear it. Completions of three tokens hold an object between two others.
The constants of the code (`MaxScore` 100, `MaxLimit` 1000, limits 20 and 50) are
scaled down to 1 or 2; every comparison with them is kept and both sides of it are
reached.

Deadlock is checked in `digest` and `torn_digest`, where the file can always be
read again. The other configurations say `CHECK_DEADLOCK FALSE`: a completion is
scored once; calls, scripts, prompts and readers are finitely many, each invoked
once, and an instance really stops when all are over.

### Fairness

`Fairness` (in `FairSpec` and `FairHistorySpec`) is weak fairness of `CallStep(c)`
for each call and of `SeedStep` (or the lock timeout) for each script that has
deleted. A call that was started goes on because each of its awaits is bounded:
the LLM call has `timeout=300` (`client.py:120-131`), the wait for the lock has
`busy_timeout` 5 s (`db.py:111`) and the event loop resumes tasks whose await is
over. Nothing is assumed of `Start`, `SeedDelete`, `Abandon`, the operator or the
clock, nor that the lock is ever obtained: `BusyTimeout` is an alternative at the
same place.

`Startup`'s `FairSpec` has weak fairness of `StartupStep(p)`: a process that is
starting does one thing after another, and its one wait is the 5 s of
`busy_timeout`, which ends either way. `Restart` is fair because the unit file
(`src/deploy/systemd/career-scout-mcp.service`) says `Restart=on-failure` with
`RestartSec=10`, slow enough for systemd's default limit on restarts never to be
reached. Kills and rotations are bounded, nothing is assumed of clients, and
health answers need no fairness. A start-up that fails for the lock fails because
another has it, which either creates an object or is killed: this is why the unit
is not locked out for ever.

## 4. Theorems

`ScoringProofs`: whatever the reply, a score that `score_posting` returns is in range
with one of the three bands (`ReturnedScoreIsValid`). It carries the type of stored
rows below. What
`SelectInSeq` and `SelectLastInSeq` return is stated once, as the least or the
greatest index with a property (`FirstIndex`, `LastIndex`).

`ClientProofs`, for completions of any length over any tokens; objects are not
braces (`ObjectsAssumption`), and a reply is a text or one of the faults the code
meets (`ReplyAssumption`, `TokensAssumption`):

- `ScoresTheFirstObject`: `Spec => []ScoresOnlyTheFirstObject`, and
  `FailuresHaveTheirCause`: `Spec => []FailsForCause`. No induction over the text is
  needed: the slice begins with the token that leads the text (`SliceLeads`), it is
  one token when the text frames one object (`FramedIsSlice`), and what becomes of a
  slice is a case analysis on its first value (`TextOutcomes`, `RaisedOutcome`).

`RescoreProofs`, for any finite or infinite sets of calls and scripts, any ids,
rubric texts and replies that satisfy the named assumptions of the modules
(disjointness of the id sets and of the writers; sentinels that are not ordinary
values; replies whose fault is a known exception):

- `Invariance`: `Spec => []IInv`. None of the properties is inductive alone.
  That no score loses its posting needs what a transaction has checked to stay
  true until it commits (`Checked`), which needs that only the holder of the
  lock is inside a transaction (`LockHeldByTransaction`); that a stored row is
  its call's own needs that a draft is never rebuilt after it was stored
  (`Drafts`, `Stored`). `IInv` is the conjunction, with one step lemma per
  conjunct and one step per action in each.
- `TypeCorrect`, `ReferencesHold`, `LockNeverLeaks`, `OutcomesHold` follow.
- `ScoresAreTraced` assumes in addition that every rubric text in use has a
  stamp of its own; without this a version does not tell the text.
- `VersionIsOfTheTextSent` says what that version is without a search
  (`VersionRead`): the stamp of the first line that is not blank, of the text that
  call was given, however often the file was edited. It needs no such assumption.
- `FailuresAreExplained`: `HistorySpec => []FailuresExplained`. It rests on `Found`:
  a posting a call has looked up is there or the call is in `gone`, and a run that
  waits to reinsert finds its rows there only if it is in `overtaken`. Every
  behaviour with history is one of `Rescore` (`HistoryOnlyLooks`), so `IInv` holds of
  it.
- `RowsAreNeverRewritten`, an action property: `scores` is a log. The readers'
  proofs build on it.
- `SynthRestored` adds `AllOrNothing` (synthetic postings come and go together).
- `Refinement`: `Spec => ImplementsStore`. Commits map to `AddScore`, `SeedCommit`
  to `RemoveSynth`, `SeedInsert` to `LoadSynth`, all else to stuttering; the
  guards of the abstract actions come from `Checked` and `Stored`.

`PagingProofs`: a first page, in whichever order, has all rows or is full, and
none twice (`ShortPage`); newest first, it leaves out none with a key greater than
one it has (`FirstPage`). Both come from what `SetToSeqs` yields (`Arrangement`).

`ReadsProofs`, for any calls, scripts and readers, and any requests the tools make
(the history is never asked for with an offset). Of the ids it is assumed that
there are finitely many, since a count of an infinite table is no number
(`PostingsAssumption`):

- `ReadsInvariance`: `ReadsSpec => []ReadsInv`, which is `IInv`, whose step lemmas
  carry over since a reader changes nothing of a writer's, with what a reader was
  told of calls that are over (`Asked`) and how stamps relate to real time: rows
  are committed in another order than they are stamped, but a call that starts
  after another is over is not stamped earlier (`Chronology`), and with what the
  statistics have gathered so far (`Gathered`).
- `ReadersOnlyLook`: `ReadsSpec => Spec`, so every theorem about `Rescore` holds of
  the composition, `ReadTablesAreTheStore` (`ImplementsStore`) among them.
- `StatisticsOnlyGrow`: from `Gathered`. The first count covers the returned calls
  since each has a row of its own (`CountedApart`); later ones cover more because
  rows are only added (`RowsGrow`); and the bands add up to all rows, by three
  disjoint sets of them (`BandTotals`), not by induction.
- `NoSupersededScores`, `EveryScoredPostingListed`, `HistoryIsNewestFirst`: each
  when the answer is fetched, from `Chronology`, `ReferentialIntegrity`, `ShortPage`
  and `FirstPage` (`LaterStamp`, `LatestRowExists`, `NewAnswer`), and ever after,
  because rows added later are by calls that had not returned when the reader
  asked (`OldAnswer`).
- `TwiceListedIsATie`, the bound on what `latest_tie` finds: no answer has
  a row twice, and one posting appears in two rows only if their stamps tie.
- `StampsFollowCalls` and `ReadsTypeCorrect` follow from the invariant.

`TaggingProofs`, for any sets of calls, prompts and rubrics, any limits and clock:

- `TaggingInvariance`: `Spec => []TaggingInv`. An acknowledgement is right because
  the id a cursor was given is still the next one when its row is committed
  (`Positions`), which needs the lock (`LockHeldByInsert`). A prompt is complete
  because stamps agree with real time for calls that did not overlap
  (`Chronology`) and because of `FirstPage`.
- `TaggingTypeCorrect`, `AcksNameRows`, `PromptRubricsAreLive`;
  `PromptsKeepNewestTags`, with one lemma for the SELECT, one for a call that is
  acknowledged and one for rows that are appended afterwards.
- `TaggingIsAJournal`: `Commit` maps to `AppendEntry`, `Return` to `Acknowledge`,
  refusals to `Refuse`, all else to stuttering.

`StartupProofs`, for any servers, environments and command lines:

- `StartupInvariance`: `Spec => []StartupInv`. A process in a script has what the
  statements behind it create (`Scripted`), one past a script has all of it
  (`SchemaLeft`), and a finding of a health check was true when it was made
  (`Witnessed`).
- `StartupTypeCorrect`, `ServersHaveSchema`, `HealthIsHonest` follow, the last as
  an action property.

`DigestProofs`, for any processes, renders, sizes, commits and faults; the one
assumption beyond types is that no document is empty and `NoFile` is no document:

- `DigestInvariance`: `Spec => []DigestInv`. Whoever writes while no other render
  is active has a prefix of its own document in the file (`OwnBlocks`), which
  needs that overlapping renders know of each other (`Overlaps`); within one
  process there is one writer at a time (`Exclusive`, `ProcessFile`); and after a
  render has opened the file, it holds only holes, blocks no older than the
  render's start and blocks of its rivals (`FreshBlocks`), because a render that
  is no rival started after it was over.
- `DigestTypeCorrect`, `ReadersSeeWholeFiles`, `AloneRendersAreComplete`,
  `DigestsKeepUp` follow.

Model-checked only: liveness (`CallsTerminate`, `LockReleased`, `ServiceRecovers`),
which is outside the proof system's reach, and the violations, which are
counterexamples and need no proof. Every safety property a passing run checks has
its theorem.

## 5. Findings

`PROJECT.json` quotes each one: the first object of a completion is not isolated
from a second one or a brace behind it, and the completion is refused; exceptions
that escape the promise of `ScoringError`; the seed script is not safe to rerun
once a synthetic posting has a score; a posting deleted during the LLM call
surfaces as the driver's own exception; two scores stamped alike list their
posting twice; `current.html` is torn by a kill or a failed write.

A run shows that each happens; a theorem says how far it goes:
`ScoresOnlyTheFirstObject` for the second object (no other is scored in place of
the first), `FailsForCause` for the exceptions, `FailuresExplained` for the script
and the missing posting, `TwiceOnlyInATie` for the listing, and
`WholeInOneProcess` for the digest, which is whole where no process is killed and
no write fails.

## 6. Not modelled

- The registration of tools, resources, prompts and health with the MCP library,
  and the bearer check (`server.py:52-75`): done once on import, and a comparison
  per request; neither changes state.
- `rubric_current` is one `load_current_rubric`, `config_scrapers` returns a
  constant, and nothing calls `get_latest_score`.
- `logging.py`: string rewriting with no other component depending on it, and no
  state.
- The host given on the command line is taken as it is, and is bound or not. With a
  bracketed IPv6 literal as the bind setting, which `config.py:115-136` accepts and
  `__main__.py:17` passes on with its brackets, `Bind` only ever fails;
  `ServiceRecovers` leaves that setting out (`Servable`).
- Power loss with `synchronous = NORMAL` (`db.py:110`): the last commits may be
  undone; the code makes no promise about it.
- Replacing `scout.db` as a whole ("rotated", `db.py:11`) while calls write to it:
  `Startup` has it for what start-up and health see, `Rescore` does not, since no
  code does it.
- What the LLM, Ollama and the MCP client do: any answer, at any time.
- Wording: prompts, HTML, log lines, the text of errors.

## 7. Plan

Written so far, in this order: `Scoring`, `Rubric`, `ScoutStore`, `Rescore` and
its proofs, `RescoreHistory`, `Digest`, `Queries`, `Reads`, `Paging`, `Journal`,
`Tagging` and its proofs, `Startup` and its proofs, the proofs of `Digest` and of
`Reads`, `Client` and its proofs. To come:

1. `Digest` composed with `Reads`, so that a document is made of listed rows and
   "the render covers every score returned before it" becomes a property.
2. The redaction of log lines, should another component ever depend on it.
