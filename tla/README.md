# OpenGrimoire in TLA+

OpenGrimoire is a web application for rulebooks. A user uploads a PDF; a
background worker cuts it into sections, has a language model enrich them, and
indexes them; a chat agent answers questions from the index. One process holds a
FastAPI application (the web thread) and one worker thread. Everything they keep
is in SQLite files (one shared, one per user) and in one directory per document.

This directory holds TLA+ modules of its core, TLC configurations that check
them on small instances, and TLAPS proofs of their invariants for instances of
any size. `PROJECT.json` relates each definition to source lines.

1. [The system](#1-the-system)
2. [The modules](#2-the-modules)
3. [What the runs check](#3-what-the-runs-check)
4. [What is proved](#4-what-is-proved)
5. [Where code and documents disagree](#5-where-code-and-documents-disagree)
6. [What is left out](#6-what-is-left-out)
7. [Not modelled](#7-not-modelled)

To run: `tlc -config MCJobQueue.cfg MCJobQueue` (likewise for the others),
`tlapm JobQueueProofs.tla` (likewise the other seven modules named `...Proofs`).

## 1. The system

### Inventory

| Component | State it keeps | Operations | Source |
|---|---|---|---|
| Ingest queue | `queue_jobs`: status, attempts, lease, creation time | enqueue, claim, heartbeat, complete | `storage/shared_db.py` |
| Queue worker | the thread, its current job, a heartbeat task, a stop event | poll, run with a timeout, fail, stop | `queue/worker.py`, `main.py` |
| Processing pipeline | `docs`, `documents_fts`, the document's directory | extract, copy a known book, structure, tier, enrich, index | `pipeline/` |
| Registry of shared books | `shared_books`, `user_books` | register, link, unlink, find a source | `storage/shared_db.py` |
| Document handlers | as above, from the web thread | upload, reprocess, delete | `web/routes.py` |
| Collections and sharing | `collections`, `collection_members`, `orphans` | share, unshare, resolve, delete, sweep | `web/routes.py`, `storage/resolver.py`, `storage/cleanup.py` |
| Upload quota | a cached storage figure per user | check, account, invalidate | `web/routes.py`, `storage/limits.py` |
| Query agent | per run: a state machine with counters | one round per model answer, tool calls | `agent/loop.py` |
| Query tools | a cache of keywords per collection | search, read, grep, list | `agent/tools.py`, `agent/query_builder.py` |
| Chat sessions | `sessions`, `turns`; a stream in the browser | ask, stream, continue, stop, delete | `agent/routes.py`, `agent/history.py`, `web/static/chat.js` |
| LLM gateway | clients, a lock, settings | call, stream, reload | `gateway/ollama.py` |
| Accounts | `users`, session cookies | register, log in, approve, reject | `auth/`, `web/admin_routes.py`, `cli/` |
| Schema migrations, connections | a version table in each database, a pool of connections per thread | run the missing migrations at each opening, close into the pool | `storage/migrations.py` |
| Extraction, structure | none | PDF to text, text to a tree of headings, the tree to files | `pipeline/extract.py`, `pipeline/structure.py`, `pipeline/tier.py` |
| Usage log | an append-only table | append | `usage/tokens.py` |

### How the parts interact

- *Web thread to worker*: only through `queue_jobs`. Upload and reprocess append
  a row, the worker claims the oldest one. Nothing tells the worker that a
  document was deleted while its job runs.
- *Worker and web thread on the same document*: both change the row, the index
  rows and the directory, with no lock between them. Each SQLite statement that
  commits is atomic; nothing spans two databases, or a database and a directory.
- *User to user*: a second user's copy of a known book is made by reading the
  first user's database and directory.
- *Member to owner*: a shared collection stays in the database and the directory
  of its owner; `collection_members` in the shared database leads a member there.
- *Browser to chat handlers*: a question is a POST or a stream. Each may break
  before or after its turn was stored, and the browser cannot tell.
- *Any thread to a database*: every opening runs the migrations that are missing,
  every closing puts the connection in a pool. One connection at a time writes.
- *Search to worker*: a search runs its queries in a thread of its own, one after the
  other, while the worker and the web thread change the index between them.
- *Agent to model*: a call at a time, the answer is not trusted. Tool calls are
  checked against the loop's own state.

### What is hard, and what makes each part correct

- **Queue**: process ends at any point, leases that run out, a heartbeat that
  writes whatever the row says, an attempts bound tested in the wrong place,
  database calls outside every handler. Correct when a run owns its job, a job
  with an outcome stays finished, no retry happens without a cause, and every job
  gets an outcome.
- **Pipeline**: some thirty effects, each followed by a possible process end, a
  timeout at an await that leaves tasks behind, a checkpoint trusted by later
  runs, deletion at any point. Correct when a document shown as done is complete
  and indexed once, enrichment is not lost, the PDF is kept, a deleted document
  stays deleted, and no document stays unfinished.
- **Agent**: any sequence of answers, several tool calls in one. Correct when a
  run ends within its budget, keeps to the limits of its states, repeats nothing
  and does not leave the answering state.
- **Collections and quota**: rows and directories removed one after the other,
  directories that resist, a list of leftovers in a file, a storage figure that is
  read, cached, and used after an await, an owner who is found through a row.
  Correct when a listed document has its file, what is left over is known to the
  sweep, the quota is passed by no more than concurrency explains, and a deleted
  collection leads nobody anywhere.
- **Chat sessions**: a question that is asked again because its connection broke,
  continued or stopped in one tab while another asks, a session deleted while the
  agent runs, an old history that is brought over by whoever reads it first. Correct
  when a question is stored once unless something broke, the old history is not hidden
  by a turn that comes before it, and every tab sees an end.
- **Accounts**: a request is verified, awaits, and then changes an account; the
  cookie, the page and the table may each be of another moment. Correct when only
  active administrators change accounts, in the name their page shows, and one
  of them remains.
- **Migrations and connections**: threads that read the version and then run the same
  scripts, statements that commit one by one and may raise, a connection that is
  closed in the middle of a transaction. Correct when the version never claims what
  is not there, an opening can be retried, its user sees the whole schema, and
  writers get through.
- **Structure and search**: headings whose levels jump, a cascade of queries of two
  to four stages over an index that is emptied and filled meanwhile, a cache of
  keywords that outlives what it is about. Correct when each section is in the right
  chapter, what is printed and indexed all the time is found, and the answer says
  rightly how it was found.
- **Gateway**: a client that is swapped and closed while others use it (section 7).

The hazards, with the line where each bites and the properties that speak of it,
are listed in `PROJECT.json`.

## 2. The modules

| Module | What it is |
|---|---|
| `JobLifecycle` | the promise: a job is submitted, taken a bounded number of times, settled once |
| `JobQueue` | the table and the worker that implement it |
| `JobQueueProofs` | theorems about `JobQueue` |
| `Pipeline` | what a job and the web handlers do to documents; its jobs follow `JobLifecycle` |
| `PipelineProofs` | theorems about `Pipeline` |
| `Book` | how the headings of a book become nested sections with pages |
| `Library` | the sections of `Book` as files and index rows, and searches among them |
| `LibraryProofs` | theorems about `Book` and `Library` |
| `Connections` | one database: its migrations, its lock, and the pools of connections |
| `ConnectionsProofs` | theorems about `Connections` |
| `AgentLoop` | one run of the query agent |
| `AgentLoopProofs` | theorems about `AgentLoop` |
| `ChatSessions` | a chat session, its handlers, and the browser tabs that show it |
| `ChatSessionsProofs` | theorems about `ChatSessions` |
| `Collections` | a collection, its members, uploads against the quota, deletion and the sweep |
| `CollectionsProofs` | theorems about `Collections` |
| `Accounts` | accounts, sessions, the verification of requests, and administration |
| `AccountsProofs` | theorems about `Accounts` |
| `MCJobQueue`, `MCPipeline`, `MCAgentLoop`, `MCChatSessions`, `MCCollections`, `MCAccounts`, `MCConnections`, `MCLibrary` | instances for TLC |

Definitions that begin with the comment *Mistake* are
used by no specification. Each is a plausible error in the definition after it,
kept to show that a property would notice.

How they fit together: `JobQueue` implements `JobLifecycle` by the refinement
`Lifecycle == INSTANCE JobLifecycle WITH ...`, and `Pipeline` takes its jobs from the
same module, so that what `Pipeline` assumes of the queue is what the queue was
shown to do. `Library` extends `Book`. The others meet at the databases: each takes
for granted what `Connections` shows, a whole schema and a lock that is got.

### JobLifecycle and JobQueue

`JobLifecycle` has `status` and `attempts` and three actions, `Submit`, `Take`
and `Settle`. `JobQueue` has the columns of `queue_jobs` (`status`, `attempts`,
`lease`, `created`) and the fields of `QueueWorker` (`pc`, `cur`, `hb`,
`stopping`). An action is a stretch of worker code without an `await`, up to its
one commit:

| Code | Actions |
|---|---|
| `enqueue_job` | `Enqueue`; `clock` may stand still between inserts, as stamps have a resolution of a second |
| `claim_next_job` | `Claim` by way of `Claimable`, `Oldest`, `ClaimNextJob`: the row is picked first, its attempts are looked at after |
| `_heartbeat_loop` | `Heartbeat`, `HeartbeatDies` |
| `run_job` as the queue sees it | `FinishCopy`, `FinishIndexed` then `Register`, `RunFails`, `RegisterFails` |
| `wait_for(..., JOB_RUN_TIMEOUT)` and `_fail_job` | `TimesOut`, `TimesOutUnrecorded` |
| `run_forever`, `stop`, the lifespan handler | `Start`, `Stop`, `LeaveLoop`, `ExitStopped` |
| an exception that no handler takes | `ThreadDies`; `ClaimRaises` for the one that `run_once` does take |
| the world | `Kill`, `LeaseExpires` |

Time is a lease that is live or expired. `LeaseExpires` may come at any moment,
also while the worker runs (a heartbeat that could not write): earlier than the
code's clock allows, so that safety does not rest on the length of a lease.
`RunFails` may leave `done`, because `complete_job(error="")` takes an empty
message for no error.

### Pipeline

State: the owner's `docs` row (`row`, `checkpoint`), its index rows (`fts`: per
section, how many rows with and without keywords), the directory (`pdf`,
`files`), the registry (`registered`, and `linked`: the rank of a document's link by
creation, 0 for none), the jobs, and what is in memory: `run` (the local variables
of `run_job`), `ghosts` (enrich tasks that outlive a cancelled run) and `web` (where
the web handler is). A crash empties the last three. Three history variables, which no
guard reads, let the properties say exactly what was lost: `cut`, the steps of a
document that a process end left undone at one of the three places where that strands
it; `partial`, the documents whose rows may be incomplete since they, or the source they
were copied from, were interrupted while rows were deleted or rebuilt; and `stale`, the
sections whose enrichment was overwritten, or interrupted, after the checkpoint
recorded it.

An action is the code up to and including one commit, one change of the directory
or one await, in source order; the state named by `run.at` says what comes next.

| Code | Actions |
|---|---|
| `upload`, `reprocess_doc` | `UploadStore`, `CreateDoc`, `Enqueue`; `Reprocess`, `Enqueue` |
| `delete_doc_route` | `DeleteRows`, `DeleteDoc`, `UnlinkBook`, `RemoveDir` |
| stage 1 | `StartExtract`, `Extract` |
| a known book (`runner.py:59-106`) | `MatchSharedBook`, `RemoveOwnDir`, `CopySourceDir`, `CopySourceRows`, `CopySourceMeta`, `LinkCopy`, `CopyDone`, `CopyComplete` |
| stages 2 and 3 | `Tier` |
| stage 4 | `PlanEnrichment`, `EnrichLeaf`, `CheckpointLeaf`, `EnrichEnds` |
| stage 5 | `ClearRows`, `IndexLeaf`, `DocDone`, `CompleteJob`, `RegisterBook`, `LinkBook` |
| the handler of `run_job` | `StageRaises`, `FailDoc`, `FailJob` |
| timeout and `_fail_job` | `TimesOut`, `FailTimedOutJob`, `FailTimedOutDoc`, `GhostEnriches` |

`NextJobs` is looser than `Oldest` of `JobQueue`: an interrupted job may have been
reclaimed before or after its lease ran out relative to younger ones, so it may
be picked, or passed over, whenever no older job is queued. Nor does a job that used
up its attempts block the others here, as it does in `JobQueue`
(`JobsSettleOrBlocked`); `pipeline_solo` allows one attempt more than process ends.

### Book and Library

`Book` is the stack of `_build_tree`: `heads` are the headings that were recognised,
in the order of the pages, `done` how many are in the tree, `parent` the section each
was put into, `stack` the ones still open. Which lines are headings is an input, and
so is the level of each. A page is the grain of the text.

`Library` adds what the pages say (`prints`), the document's row (`listed`,
`deleting`), the job that processes it (`stage`), the keywords in its files
(`keyed`), its rows (`index`: for each section with a row, the keywords), the cached
keywords of the collection (`cache`) and a `search`. What is printed, asked for and given as
a keyword are items: words, and phrases with the words they hold. A row matches a
phrase where it stands and then its words.

| Code | Actions and operators |
|---|---|
| `_build_tree`, `_collect_text`, `_fallback_chapter` | `CloseSection`, `AddSection`; `Collected`; `Sections` |
| `tier_document` | `Leaves`: a section with sections inside is a directory, and the rest are files |
| stages 3 to 5, `index_document` | `TierAndEnrich`, `ClearRows`, `IndexRow`, one commit each |
| the end of a run, however it comes; `reprocess_doc`; `delete_doc` | `RunStops`; `Reprocess`; `DeleteRows`, `DeleteDoc` |
| `expand_terms`, `build_query_cascade` | `Expand`, `Cascade` |
| `fts_search`: the documents, `_keyword_synonyms`, the stages, `match_mode` | `Ask`, `FindKeywords`, `RunStage`, `Mode` |
| `_KEYWORD_CACHE_TTL` | `CacheExpires` |

What a search may count on is `seen`: the rows that were there when it began and that
no other thread has taken away since.

### Connections

State: what exists in the database (`schema`, as parts of versions), the rows of its
version table as committed and as the open transaction leaves them (`versions`,
`pending`), whose connection holds the write lock (`writer`) and whether that
connection lies in a pool (`leaked`), and where each thread is (`at`, `goal`,
`pooled`). `kind` says whether it is the shared database or a user's: their migrations
differ, and so does the way they set the version.

| Code | Actions |
|---|---|
| `init_shared_db_with_migrations`, `init_user_db_with_migrations` | `Open`, `ReadVersion` |
| `executescript`, a statement at a time | `RunStatement`, `EndScript` |
| `_add_column` | `AddColumn`: a column that is there is no failure |
| `_ensure_user_version_table` | `EnsureVersion`, `SeedVersion` |
| `_set_shared_version`, `_set_user_version`, the commit after | `SetVersion`, `CommitVersion` |
| a statement that raises | `InitFails`, `WriteFails` |
| a handler's writes | `StartWrite`, `Write`, `Commit` |
| `PoolConn.close`, or no `finally` in the handler | `Close`, `Drop` |
| the world | `Exit` |

SQLite is modelled from how the code uses it: DDL commits by itself, the first
`INSERT` or `UPDATE` of a transaction takes the lock, a commit or the end of the
connection gives it up. A statement waits for the lock; that it raises after the 30
seconds of `busy_timeout` is left out, so that `WritersGetThrough` speaks of the
waiting itself. `Open` lets only the web thread create a user's database: jobs and
tools come after a collection that was made through it.

### AgentLoop

The variables are those of `run_stream`: `state`, `total_iterations` (`iter`),
`state_iterations`, the two counters of the state, `files_read` and
`searches_done` (`seen`, one set: a path is not a query), `consecutive_dedups`, and
how many tool calls of the current answer are left. `prose` and `ran` are history
variables: they let `StateLimits` and `NoRepetition` be stated, and no action reads
them. The language model is an environment that may answer a call with tool
calls, prose, nothing or an exception; each tool call of an answer is an action.

### ChatSessions

State: the session's row (`session`), whether it has a history from before the turns
table (`legacy`), its `turns` by their questions, `access` (what `resolve_collection`
would find), the requests sent (`reqs`, with how far each has come and whether the
browser is still connected) and each tab: its page, whether `chat.js` was bound to
its form, whether the Send button can be used, the request it waits for, and the
question whose budget ran out. `missed` is a history variable: the questions whose own
request tried to bring an old history over and failed.

| Code | Actions |
|---|---|
| forms, `chat.js` submit and buttons | `Start`, `Ask`, `KeepLooking`, `StopLooking` |
| what the browser does with a response | `Deliver`; `Fails` when it is none: the question is posted again |
| `start_session`, `continue_session` | `ReceiveStart`, `ReceiveQuestion`, then `PostAnswers` |
| `continue_session_stream` | `ReceiveQuestion`, then `StreamAnswers`, `StreamExhausted`, `StreamErrs`, or `Cancel` when nobody listens |
| `stop_session`, `view_session`, `delete_session` | `ReceiveStop`, `Open`, `DeleteSession` |
| `load_history`, `append_turn` | `LoadHistory`, or `BackfillFails`, whose failure is rolled back and swallowed so that the handler goes on; `AppendTurn` |
| an exception in a handler | `Raises`: a stream has stored its turn by then or not, a POST has not |
| the world | `Break`, `Unshare` |

A handler is two actions with the run of the agent between them: what the run does
is `AgentLoop`, that it ends is `AgentLoop!RunEnds`. `chat.js` binds itself to the
form that is there when it is loaded; a page that htmx swapped in is unbound and
its form posts.

### Collections

State: the collection in its creator's database (`shelf`), `collection_members` in
the order of joining (`members`), per document the user in whose `tree` it was stored,
the sets of documents with a directory (`dirs`) and with a row (`rows`),
`orphans.json` (`orphans`), the `cache` of storage figures, the `uploads` that await
a file, each with its own figure, and `web`: which handler is between two commits
or changes of the disk. Handlers share an event loop and only an upload awaits, so
while `web` is not idle no other handler runs. `peak` is a history variable: the
most uploads ever in progress at once.

| Code | Actions |
|---|---|
| `resolve_collection`, `_resolve_owner` | `Owner`, `IsOwner` |
| create, share, unshare | `Create`, `Share`, `Unshare` |
| `_user_storage_used` and its cache | `Used`, `ShowStorage`, `Expire`, `Invalidate` |
| `upload` | `StartUpload`, `ReceiveFile` and `CreateDoc` for each file, `EndUpload`, `UploadRaises` |
| `delete_collection_route` | `DeleteCollection`, `DeleteRow`, `DeleteShelf`, `RemoveDir` or `RemoveDirFails` and `RecordOrphan`, `RemoveMembers`, `DeletionRaises` |
| `delete_doc_route` | `DeleteDoc`, `RemoveDocDir` |
| startup | `Start`, `Sweep`, `SweepFails`, `ClearOrphan`, `ClearFails`, `Serve` |

Whoever has a row is led to the first owner with a row, and only without one to her
own database. The handlers ask for the role, then work in the tree they are led to,
whoever's it is: the model follows them there.

### Accounts

State: the columns `status` and `admin` of `users`, per browser its `cookie` and the
session for which its `page` was rendered, which sessions are `expired`, and the
requests between the middleware and their handler (`reqs`). A session is a signed
record of what was true at its login; its `id` stands for the CSRF token in it.
`overlapped` is a history variable.

| Code | Actions |
|---|---|
| `register_submit`, `login_submit`, `logout` | `Register`, `Login`, `Logout` |
| any page | `ShowPage` |
| `AuthMiddleware.dispatch` | `Post`, by `Middleware`: the table (`Verified`) or, if it fails, the cookie |
| `require_csrf`, `is_admin` | `Allowed`, `CsrfHolds`; `Refuse` otherwise |
| the three routes of administrators | `ApproveUser`, `RejectUser`, `CreateUserRoute` |
| `cli` | `Bootstrap`, `CreateCommand`, `ApproveCommand`, `RejectCommand` |
| time | `Expire` |

A request may name any account and carry the token of any page, as those of
`tests/test_admin_approval.py` do: the page of administrators lists pending accounts
only, and its buttons alone could not make two administrators reject each other.

## 3. What the runs check

### Runs that pass

| Run | Instance | What it shows |
|---|---|---|
| `queue` | 3 jobs, 1 worker, 2 attempts, 2 process ends, 2 failing database calls | `RunOwnsItsJob`, `OutcomeHasNoLease`, `OutcomeStands`, `RetriesHaveCauses`, and that `JobQueue` implements `JobLifecycle` (`LifecycleSpec`). `JobsSettleOrBlocked`: a queued job without an outcome has one of three causes, its attempts ran out, such a job stands before it, or the thread is dead; `RetriesHaveCauses` says what it takes for attempts to run out |
| `pipeline_solo` | 1 document of 2 sections, uploaded, reprocessed and deleted, 2 process ends, 1 timeout | `DoneIsSearchable`, `NoDuplicateRows`; `UnfinishedHasJob` and `DocsSettle`: a document that is queued ends up done, failed or deleted, unless a process end strands it at one of two places |
| `pipeline_share` | a book of 1 section that one user uploads twice and another user once, 3 jobs of 2 attempts, two documents may be reprocessed, one of these deleted, 1 process end | copies, and copies of copies, of sources that are processed again, interrupted or deleted. `DoneIsSearchable`, with the rows an interruption took as its exception. `EnrichedUnlessRewritten`: a section that the checkpoint calls enriched, under the document's own name or its source's, is enriched in the index unless its enrichment is `stale`. `PdfKept`: a listed document has its PDF unless the process ended while a copy replaced its directory, or another user's document of the book was deleted. `DuplicatesAreCopies`: a section gets a second row from the copy path only, and over a row of its own only in a run that is not the document's first |
| `agent_loop` | 2 files, 2 queries, 8 rounds, 2 calls per answer, limits 3/2/2 | `StateLimits`, `NoRepetition`, `RunEnds` |
| `sessions_tabs` | 2 tabs, 2 questions, 3 requests, 1 broken connection, 1 exception, deletion and unsharing | `DuplicatesHaveCauses`: a question has one turn, a second only after something broke, never a third. `LegacyKept`: an old history comes before every new turn, unless the first turn is a question whose own request swallowed the failure to bring it over. `DeletedTakesNothingNew`: a deleted session gets turns only of runs already in progress. `TabsSettle`: no tab waits for ever |
| `collections` | 2 users, 3 documents, 2 uploads at once, a quota of 1 file, 2 directories that resist, 1 exception, 1 process end | `RowsHaveFiles`: a listed document has its directory. `LeaksHaveCauses`, `OrphansStayListed`: what is left over is known to the sweep until it is gone, but for exceptions and process ends. `QuotaByConcurrency`: several uploads at once pass the quota, each by no more than the quota. `GoneForAll`: a deleted collection leads nobody anywhere |
| `accounts` | 2 users, 2 browsers, 2 sessions, 2 requests at once, 1 failing verification, 1 rejection on the command line | `AdminRemains`: without those last three, an administrator remains. `ActiveAdminsDecide`: who changes an account is an active administrator, with the same exceptions. `ActsAsShown`: a form acts for the user whose page it is. |
| `connections` | either kind of database, from any earlier version, 2 threads, 2 versions of 2 statements and an `ALTER`, 2 statements that raise, 2 process ends | `VersionHonest`: the version never claims what is not there. `UsersSeeSchema`: an open connection sees the whole schema. `RetrySafe`: an opening raises only because a statement failed or the process ended. `NobodyWaitsForEver`: openings and writes get through while no transaction lies in a pool |
| `library` | every book of 2 pages and 2 headings of 2 levels, 4 queries, reprocessing, deletion, stale keywords | `NearestParent`: each section is in the nearest earlier one of a lower level. `FoundIfPrinted`: no match means that no page with the word was in the index all the time. `StaleKeywordsHarmless`: cached keywords change no result of a query without a phrase of the synonyms. `StrictestFirst`: the query that is said to have found the results did, and no stricter one could have |

The type invariants of all modules are theorems (section 4). So are `RowMatchesRuns`,
`SynthesisIsFinal`, `AccountsStand`, `OneVersion`, `OneSection` and the refinements of
`JobLifecycle` by `Pipeline` and of `Book` by `Library`, which no run checks again.

### Runs that show a disagreement

`pipeline_resume`, `collections_member` and `connections_leak` each check one sentence of
the documents, of a page or of a comment, and TLC shows a behaviour of the code that
breaks it: see section 5. Each uses the smallest instance in which that happens.

### Bounds

- *Jobs*: two jobs have an order, and three can have a blocked, a running and a
  waiting one at once. As many process ends as attempts let a job use up its
  attempts; two failing calls let a heartbeat die and a later call fail. Counters
  are capped by the guards of the actions that count and by nothing else.
- *Documents*: three documents of two users are a source, a copy, and a copy of the
  copy for the user who has the source: the fewest in which a copy lacks rows that were
  taken from a document of its own user. Two sections, in `pipeline_solo`, are needed
  for a partly enriched or partly indexed document; for what passes from one document
  to another one section is enough, which has its row, its enrichment and its PDF or
  has not. Two jobs of one document are the one it was uploaded with and a
  reprocessing, in either order after an interruption; three attempts outlast two
  process ends. In `pipeline_share` a third job reprocesses a source or its copy, or
  makes a copy of the copy, and one process end with two attempts resumes any run at
  any effect. There are no timeouts in it: the tasks they leave behind touch files
  only, which `pipeline_solo` and the theorems cover.
- *Agent*: 15 rounds and limits of 5/5/3 in the code; 8 rounds and 3/2/2 keep
  the order (the budget is larger than each limit, less than needed for going back
  and forth for ever) and two calls per answer suffice for one to change the
  state under the other. The theorems of section 4 hold for all values.

- *Chat*: a question can be asked in one tab, again in the same by a fallback, and
  once more to continue it: three requests, with a second tab in between. One
  session suffices, as no handler looks at another. When the requests are used up,
  a question whose stream broke is not asked again, as if the user had left.
- *Collections*: a creator and one other are a member, a co-owner, or a creator who was
  made a member; more users are covered by the theorem. With a quota of one file,
  two uploads already pass it, and a third document shows that they pass it no
  further; a list of two orphans can lose one.
- *Accounts*: two administrators can reject each other; two sessions are two of one
  user, or a cookie and a page of different users. The theorems hold for all.
- *Connections*: two versions are one that another thread may have reached and one
  it may not; two statements make a script that stops in the middle; two threads are
  those of the program (the threads of tools behave like the worker's). A pool of two
  can be empty, half full and full. The theorems hold for any.
- *Library*: two headings are two chapters or a chapter and its section, on one page
  or on two, with a page before or after. The queries are a word that begins
  another, a synonym that may not be a prefix, a phrase of the synonyms, and two words.
  Keywords go to the first section or to none. There is one document in the
  collection; the search knows documents only as a set. Everything the run checks is a
  theorem for any bounds, words and queries. The module finds the terms of a query that
  begin a phrase by what distinguishes them (`Starts`), and `MCLibrary` compares that with
  the loop of `expand_terms` for every query of up to six of three terms.

`CHECK_DEADLOCK FALSE` is in every configuration: an idle worker with nothing to
claim is a stutter, not a step, and a thread that died, a spent bound of the
environment and a finished agent run are real stops.

### Fairness

Weak fairness, except for the lock of a database, and only for what something in the
deployment makes happen:

- the worker's own steps: the thread is scheduled;
- `Start`: the container is restarted (`restart: unless-stopped`);
- an outcome of a run: `JOB_RUN_TIMEOUT` ends each run;
- `ExitStopped`: the shutdown waits for the thread for a bounded time;
- `LeaseExpires`: time passes;
- in `Pipeline`: the handler in progress, the worker's next effect and its next
  claim. Calls of the model are bounded by `OLLAMA_TIMEOUT`;
- in `AgentLoop`: the loop, each model call ending in an answer or an exception;
- in `ChatSessions`: the server works on each request, and a response that is
  written arrives, or the connection breaks.

In `Connections` it is strong for `Initialise` and `Write`: a thread that needs the lock
is disabled whenever the other has it, and is let in only because SQLite's busy
handler asks again and again for 30 seconds while a transaction of the code lasts
milliseconds. `Commit` and `Close` are weakly fair, as a handler goes on.

Nobody has to upload, delete, stop or kill anything. No fairness is assumed of
heartbeats.

## 4. What is proved

The theorems hold for any sets of jobs, workers, files, queries, users, browsers
and documents and any values of the bounds, under the assumptions that the
modules state (`NoJob` is no job, the bounds are natural numbers, limits of a
state are positive). TLC evaluates these assumptions in every run.

| Theorem | States | Assumes |
|---|---|---|
| `JobQueueProofs!TypeCorrect` | `[]TypeOK`, with the attempts bound | nothing |
| `JobQueueProofs!RowsMatchRuns` | `[]RowMatchesRuns` | nothing: any number of workers |
| `JobQueueProofs!ImplementsLifecycle` | `LifecycleSpec` | nothing: any number of workers |
| `JobQueueProofs!SoleWorkerSafe` | `[]RunOwnsItsJob` | one worker |
| `JobQueueProofs!SoleWorkerLease` | `[]OutcomeHasNoLease` | one worker |
| `JobQueueProofs!SoleWorkerRetries` | `[]RetriesHaveCauses` | one worker |
| `JobQueueProofs!SoleWorkerOutcomeStands` | `OutcomeStands` | one worker |
| `AgentLoopProofs!TypeCorrect` | `[]TypeOK`, with the budget of rounds | nothing |
| `AgentLoopProofs!LimitsKept` | `[]StateLimits` | nothing |
| `AgentLoopProofs!NothingTwice` | `[]NoRepetition` | nothing |
| `AgentLoopProofs!SynthesisStays` | `SynthesisIsFinal` | nothing |
| `CollectionsProofs!TypeCorrect` | `[]TypeOK` | nothing |
| `CollectionsProofs!QuotaIsKept` | `[]QuotaByConcurrency` | nothing: any number of uploads at once |
| `CollectionsProofs!FilesStay` | `[]RowsHaveFiles` | nothing |
| `CollectionsProofs!LeaksAreListed` | `[]LeaksHaveCauses` | nothing |
| `CollectionsProofs!GoneIsGone` | `[]GoneForAll` | nothing |
| `CollectionsProofs!ListIsKept` | `OrphansStayListed` | nothing |
| `AccountsProofs!TypeCorrect` | `[]TypeOK` | nothing |
| `AccountsProofs!LockoutNeedsCause` | `[]AdminRemains` | nothing |
| `AccountsProofs!ChangesAreAdmins` | `ActiveAdminsDecide` | nothing |
| `AccountsProofs!PagesDecide` | `ActsAsShown` | nothing |
| `AccountsProofs!DecisionsStand` | `AccountsStand` | nothing |
| `PipelineProofs!TypeCorrect` | `[]TypeOK` | nothing |
| `PipelineProofs!NoneForgotten` | `[]UnfinishedHasJob` | nothing |
| `PipelineProofs!UsesLifecycle` | `Queue!Spec`: the jobs of `Pipeline` implement `JobLifecycle` | nothing |
| `PipelineProofs!SearchableDone` | `[]DoneIsSearchable` | nothing |
| `PipelineProofs!OnlyCopiesDuplicate` | `DuplicatesAreCopies` | nothing |
| `PipelineProofs!DuplicatesNeedReruns` | `[]NoDuplicateRows` while no document is claimed twice | nothing |
| `PipelineProofs!IndexedOnce` | `[]NoDuplicateRows` | no two users have one book |
| `PipelineProofs!EnrichmentShown` | `[]EnrichedUnlessRewritten` | nothing |
| `PipelineProofs!PdfListed` | `[]PdfKept` | nothing |
| `ConnectionsProofs!TypeCorrect` | `[]TypeOK` | nothing |
| `ConnectionsProofs!SchemaHonest` | `[]VersionHonest` | nothing |
| `ConnectionsProofs!UsersServed` | `[]UsersSeeSchema` | nothing |
| `ConnectionsProofs!VersionUnique` | `[]OneVersion` | nothing |
| `ConnectionsProofs!RetriesSafe` | `RetrySafe` | nothing |
| `LibraryProofs!TreeIsRight` | `[]NearestParent`, of `Book` | nothing |
| `LibraryProofs!PagesAreOnce` | `[]OneSection`, of `Book` | nothing |
| `LibraryProofs!LibraryIsBook` | `BookSpec`: `Library` implements `Book` | nothing |
| `LibraryProofs!LibraryType` | `[]TypeOK` | nothing |
| `LibraryProofs!LibraryTree` | `[]NearestParent`, of `Library` | nothing |
| `LibraryProofs!NothingMissed` | `[]FoundIfPrinted` | nothing |
| `LibraryProofs!CacheIsHarmless` | `[]StaleKeywordsHarmless` | nothing |
| `LibraryProofs!ModeIsRight` | `[]StrictestFirst` | nothing |
| `ChatSessionsProofs!TypeCorrect` | `[]TypeOK` | nothing |
| `ChatSessionsProofs!RepeatsHaveCauses` | `[]DuplicatesHaveCauses` | nothing |
| `ChatSessionsProofs!HistoryKept` | `[]LegacyKept` | nothing |
| `ChatSessionsProofs!DeletedIsClosed` | `DeletedTakesNothingNew` | nothing |

**The queue.** `RowMatchesRuns` is inductive together with the fact that a worker
that runs has a job and one that does not has none. That is enough for the
refinement: a claim is a `Take` because the statement bounds the attempts of the
row it picked; `complete_job` of a run is a `Settle` or, from `registering`, the one
revision of `done` that the abstract specification allows; all else stutters.

The other four need one worker, and are false for two: `heartbeat_job` and
`complete_job` name the job and not the claim. The invariant `SoleInv` strengthens
them. A run owns its job because the only other claimant would be the same
worker. The retries are the delicate part: `attempts <= 1 + exits + faults` is not
inductive alone, since a claim raises the left side and not the right. It needs
`RetriesArePaidFor`: a row in `processing` that nobody holds has had *every* attempt
interrupted, so its attempts are at most `exits + faults`, and a claim may add one.

**The agent.** The counters form a chain `prose <= stateIter <= iter <=
MaxIterations` (`RoundsCounted`), which needs that a streamed round is counted before
it is known to be prose. `WithinLimits` adds the position inside a round: while a
streamed answer is pending a state may have used its last round, and before a
call it may not. `NothingTwice` follows from `RanIsSeen`: what ran is what is
remembered, once each, whatever the state did meanwhile. `SynthesisStays` needs no
invariant, only that each action that runs a tool tests the state first.

**Collections.** `RowsHaveFiles` is an instance of one rule, "the row goes first": the
documents whose directory some handler is about to take (`Condemned`) and the ones
listed for the sweep have no row. That is inductive with one more fact, that a
document being stored is new and so on no list (`FilesSafe`). `QuietSafe` is the
converse before anything raises or ends: a directory has a row, is listed, or is
attended to by the handler in progress (`Attended`); and a deleted collection has
lost its members or is about to.

`TypeOK` needs a bound on the figures that are cached and counted, and has one
because no directory's name is used again (`Counted`: no figure exceeds the documents
ever stored in the tree, `Names`). `QuotaByConcurrency` cannot be had from what is stored
alone: a request goes on with a figure that others have made stale. `QuotaSafe` adds to
the files of a tree the room that the requests in it still believe to have (`Free`). Of
both together there is a quota at most for each request that was ever in progress at
once, or raised; and no more than what is cached and a quota for each request in
progress or that raised, since the others dropped the cached figure when they ended. A
request that begins adds one quota to the right side and at most one to the left; a
file that arrives moves one unit from the room to the files.

**Accounts.** `AdminRemains` alone is not inductive: a request that was verified may
come from somebody who was rejected since, and reject the last one.
`VerifiedStands` adds that while nothing excuses there is one request at most, and
the table still says of its sender what the middleware found. `ActsAsShown` needs
that two sessions with one token are the same login (`LoginsDiffer`), whether in a
cookie, behind a form or in a request, and that the sender is taken for the user
of the cookie or for nobody (`SenderIsUser`); the fallback keeps that.

**The pipeline.** `UnfinishedHasJob` alone is not inductive, for a document has two
records of its progress in two databases. `JobInv` adds that a run holds a job of its
document that has no outcome until the run records one (`RunHoldsJob`), and that
between the commit of the document's outcome and that of the job's a document which a
reprocessing has made unfinished again has another job (`OtherJobWaits`). The two
exceptions of `UnfinishedHasJob` are the states in which the proof of a process end
would fail without them. `RunHoldsJob` is also what the refinement needs: an outcome
is recorded for a job that has none, or is the revision that `JobLifecycle` allows.

What a document owes to others is in `ShareInv`, for any number of users with one book
and through any reprocessing and process ends. A document is `Served` if it has all its
rows or is `Incomplete`: deleted, being deleted, or interrupted while its rows were
replaced (`partial`). The order of the stages gives the rest: a run makes a document
unfinished before it touches files or rows and done after them (`NotDone`), a directory
once filled is `Whole`, and whatever is linked is whole and served but for the rows
that its own reprocessing is inserting. As the one worker does either that or a copy,
what `MatchSharedBook` finds is served (`SourceIs`), and stays so or becomes incomplete
while it is copied (`Kept`, which every step of the web handlers and of other documents'
runs grants). A copy of an incomplete document is put among the incomplete ones, which
is what the exception of `DoneIsSearchable` needs: nothing else remembers the source.

`DuplicatesAreCopies` needs that there is no row where one is about to be inserted
(`IndexInv`): stage 5 has deleted them all, and `run.todo` has those still to come. For
the first run of a document the copy finds no row either. So no book is indexed twice
unless it is shared and processed again (`IndexedOnce`, `DuplicatesNeedReruns`).

For `EnrichedUnlessRewritten`, `EnrichInv` follows the work from the model into the index:
a section whose checkpoint entry is not outdated, or is about to be written, has its
summary in the file (`Written`), then in its row or in the file that is still to be indexed
(`Indexed`), and in its row when the run is over (`Shown`). Stage 3 outdates everything, and
what is interrupted before stage 5 is outdated with it, for the next run trusts the
checkpoint. What a copy takes over was enriched in its source or outdated there
(`Fetched`). An orphaned task may still write a file, but never into the index.

`PdfKept` rests on the directories (`PdfInv`): one without a PDF is what a copy of a deleted
source's has left (`DirHasPdf`), or a deleted document's; a run that writes the leaf files
anew has read the PDF (`ReadPdf`), and the directory that a copy is about to take was
there when it was chosen, so that only a deletion takes it away (`SourceDir`).

**Connections.** `ConnInv` says for each thread what of the schema is there by the
point it has reached (`DueAt`), which no other thread takes away because the schema
only grows; that a thread in a transaction holds the lock (`HoldsAt`); and that a
user's database without a version is open in the web thread alone (`First`), so that
only one thread can seed its version. `VersionHonest` follows with the uncommitted
version included: a thread sets it after its script, and a version read in the
meantime by another thread is not lower than what that one goes on from.

**Books.** The stack is right because of what is *not* on it (`StackIs`): all sections
between two entries of the stack, and between the last one and the next heading, are
of no lower level than the later of the two (`Gap`). So what is popped can never be a
parent again, and the top that is left is the nearest section of a lower level.
`PagesAreOnce` needs only that the headings are in the order of the pages.

**Search.** `Library` changes the book as `Book` does or not at all, which gives
`LibraryIsBook` and with it the tree. Of the index and a search, `LibraryInv` says that
rows are of sections whose place is settled (`ShelfIs`), that the rows a search counts on
are still there, and that none of them was found by a query of the cascade that was
tried (`SearchIs`). A step of another thread leaves the text alone, and keeps the rows
or empties the index (`Keeps`); in the second case nothing is counted on any more. The
rest is about one query: the loose one finds all that has one of the single terms, and
every term not in a phrase is in a group; the strict one finds all that has a word of
every group. Keywords only add phrases that hold the term they are added to, so the
rows they match are matched by the term (`LibraryAssumption`: what a phrase holds is
words). That the loop of `expand_terms` splits every query, of any length, into phrases
and single terms (`StartsExist`) is proved with the least length for which it would not,
in place of an induction.

**Chat sessions.** Everything needs that a tab waits for a request that was sent, and no
two for the same (`WaitsRight`). `LegacyKept` needs that an old history that was not
brought over yet has seen no request get past its first step, but for those that
failed to bring it over (`Untouched`), so that nothing else can be stored before it. The number of turns of a question cannot be
bounded by looking at the turns, which a step adds to; `RepeatsHaveCauses` counts with
them all that may still become one: requests that run, offers to go on, streams that
failed and will be asked again (`Tokens`). A step takes out of this set what it puts
in, or a connection breaks or a handler raises in it (`Paid`). The same set with a
place kept for asking a stream again has two members at most (`Twice`): it is a
plain POST that asks again, and nothing asks a third time. `Counts` does the
arithmetic for six kinds of steps, and `StepCounts` shows that every action is one of
them; a question asked for the first time needs `AskedFirst`, that nothing was stored
or offered of it before.

**Only model-checked.** `JobsSettleOrBlocked`, `DocsSettle`, `RunEnds`, `TabsSettle` and
`NobodyWaitsForEver` are liveness properties under fairness, which TLAPS does not
handle here. That `Starts` is what the loop of `expand_terms` finds is compared by
TLC for bounded queries: the loop is a recursion. All invariants and action properties of
the runs that pass are theorems, and hold more widely than in the runs; `NoDuplicateRows`
is false where the assumption of `IndexedOnce` is dropped, and `DuplicatesAreCopies` says
what holds in its place (section 5).

## 5. Where code and documents disagree

| Run | The documents | The code |
|---|---|---|
| `pipeline_resume` | design, line 206: the next run resumes from the last section that was not enriched | stage 3 rewrites all files, stage 4 then skips the sections the checkpoint names, and their summaries are lost |
| `collections_member` | `collection.html:45`: a member reads and adds books | a member is led to the first owner with a row, and no handler gives the owner one |
| `connections_leak` | `migrations.py:338`: the web loop and the worker can write concurrently without "database is locked" | a connection closed in the middle of a transaction goes to the pool with the lock, and nothing takes it out again: other threads do not write until the process ends |

The design is `docs/superpowers/specs/2026-08-02-rpg-manual-query-design.md`.

More are visible in the models with other settings and have no run of their own.

- *Connections*. A transaction is left open like that when a name is registered that is
  taken: `register_submit` (`auth/routes.py:118`) swallows the exception of the insert
  and closes the connection. `acquire_connection`, whose rollback would clear the
  transaction (`migrations.py:56`), is called nowhere: each opening makes a new connection.
- *Queue*. `README.md:132` says that the pipeline runs automatically. `claim_next_job`
  looks at the attempts of a row only after it was picked as the oldest one: a job
  that used up its attempts without an outcome stays the oldest, and no other is
  claimed any more (the second cause in `JobsSettleOrBlocked`). `worker.py:54` says that a
  transient database failure must not kill the thread; the calls around that handler
  are under none (`ThreadDies`).
- *Pipeline*. The exceptions in the properties are all reached. Upload and reprocessing
  commit the row and the job one after the other, and `_fail_job` (`worker.py:85`) the
  job and the row: a process end between leaves a document that no job will finish
  (`Abandoned`). A deletion that a process end cuts after its first commit leaves a
  document shown as done that no search finds (`LostRows`). So does, for a copy, the
  deletion or interrupted reprocessing of its source, whose status `MatchSharedBook`
  does not look at, and then for any copy of that copy (`partial`). A document that is
  copied a second time has every row twice (the last line of `DuplicatesAreCopies`): the
  copy path only inserts, though `test_user_db_fts.py:38` says re-indexing must not
  accumulate rows and the design, line 200, that stage 5 deletes all rows of the
  document first. The uploaded PDF is removed before the other one is there: the
  source may be deleted in between, or the process end (the exceptions of `PdfKept`).
  With reprocessing in `pipeline_resume` in place of the process end, `EnrichmentKept`
  fails the same way; `EnrichedUnlessRewritten` names both by `stale`. And a link of a
  deleted document that stays first (`UnlinkBook`) hides the other users who have the
  book (`Linked`), so it is processed again.
  A document deleted while its job runs gets its directory and rows back, though
  the design, line 437, says that they are removed: `run_job` never looks whether it
  still exists.
- *Chat*. When bringing an old history over fails, `load_history` (`history.py:30`) rolls
  back and returns the history as if it were stored; the turn that its caller
  then appends makes every later read pass it by, so the old history is hidden for good
  (`missed` in `LegacyKept`). `README.md:135` tells users to follow up by clicking a
  suggested question. After a streamed answer the Send button, which a suggestion
  clicks, stays disabled (`chat.js:209`; `Ask` needs `send`).
- *Search*. A word on a page before the first heading, or in a chapter's own text before
  its first section, is in no file and no row: the exceptions of `FoundIfPrinted`. Of two
  headings on one page the first gets no text, and an end before its beginning. The
  keywords that `_keyword_synonyms` adds change results only of a query with a phrase of
  the synonyms: any other keyword it adds holds the word it is added to
  (`StaleKeywordsHarmless`).
- *Accounts*. `admin_routes.py:106` says that an administrator who cannot reject
  herself prevents a lockout. With two requests at once, `AdminRemains` fails without
  its exception: both are verified before either handler runs.
- *Collections*. `LeaksHaveCauses` fails without its exception for process ends, though
  `cleanup.py:3` says that a crash between rows and files is recorded. The quota of
  `README.md:9` is passed by two uploads at once (`QuotaByConcurrency` with `peak` 2).
  A co-owner can share with the creator, who is then a member of somebody else's
  tree, though `routes.py:108` keeps an owner from being demoted.

Seen while reading, outside the models: `README.md:39` gives the agent 8 rounds,
`constants.py` 15; the comment at `loop.py:405` promises to go on with malformed
arguments, yet an argument of a wrong type leaves `run_stream` as an exception
(`ToolFails`); and the page that lists a book's chapters links each as
`<chapter>/index.md` (`tier.py:43`), though a chapter without sections is the file
`<chapter>.md`.

## 6. What is left out

- *Pipeline*: the five names of a document in progress are one, `working`. Copying a
  directory and writing the leaf files are each one step (a timeout in `Tier` leaves
  either none or all). Database calls that raise are in `JobQueue` only. Two links
  of the same second are ordered. The number of frontmatter blocks in a file, the
  progress figures, covers and the contents of sections are not modelled. A run
  with a missing gateway (stage 4 skipped) is one in which no enrichment gives
  anything. One web handler is in progress at a time; they have no await between
  their effects.
- *AgentLoop*: what answers say, citations, token counts, the nudges added to the
  conversation, and the cache that replays a file. A limit on the length of the
  tool calls of an answer (`MaxCalls`) is a bound of the model, not of the code.
- *ChatSessions*: what turns say, the usage log but as a call that raises, other
  sessions, and the list of sessions. A `start` that failed is not repeated. A
  stream whose browser is gone is cancelled at an await; a POST runs to its end.
- *Collections*: names, so renaming; files of several sizes, and the sections that
  processing adds to what a user has stored, which only make an upload stop
  earlier; the index rows and the job of a document (`Pipeline`), and so a job that
  brings a directory back (section 5). Rows of the same second are in one
  order. Database calls that raise are those of `DeletionRaises` and `UploadRaises`.
- *Accounts*: passwords, the change of one, the double-submit cookie of the login
  form, rate limits. Handlers read and write with no await between; the command
  line reads an account, which is never removed, and writes. No role is ever taken
  away by the program.
- *JobQueue*: the poll interval, and connections as such; a call that raises is an
  action.
- *Connections*: which handlers have a `finally` (each may do either); the end of a wait
  for the lock; the journal mode, whose conversion SQLite does; readers, which WAL
  keeps apart from the writer. A migration's statements are parts of a schema, not
  what they create.
- *Book and Library*: which lines are headings, and where on a page they stand; names of
  files and their order; ranks and snippets; the cutting of words and the stemming
  of FTS5; documents besides the one; summaries.

## 7. Not modelled

- *LLM gateway* (`gateway/ollama.py`). After a failed call it swaps in a new client and
  closes the old one. Its comment says that no caller can grab a client about to be
  closed; as read, a second failure of the same outage swaps and closes the fresh
  client that others already use, and calls begun before the swap still hold the old
  one. Those calls raise. For the callers, all of which are modelled, a call answers
  or raises, and that covers what a swap can do to them.
- *Query tools besides search* (`agent/tools.py`): reading a file, grep, the list of the
  index, the table and the calculator read or compute and keep nothing; the loop's
  limits on them are in `AgentLoop`. The confinement of paths is a matter of path
  names, which the models do not have.
- *Extraction and OCR* (`pipeline/extract.py`) run external programs; for `run_job` they
  give pages or raise.
- *Handlers that only show something* (a document, its tree, its cover, the search box,
  the lists) read what others wrote. Renaming a collection changes a name.
- *Usage log* (`usage/tokens.py`): rows are appended and summed for display.
- *Passwords, the login form's double-submit cookie, rate limits*: they decide whether a
  request is made, not what it may change.
- *Rendering, configuration, logging, scripts and benchmarks* keep no state that a
  property could be about.
