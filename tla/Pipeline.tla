------------------------------- MODULE Pipeline -------------------------------
(***************************************************************************)
(* What a job does to a document: PipelineRunner.run_job                   *)
(* (app/pipeline/runner.py) running in the worker thread, and the upload,  *)
(* reprocess and delete handlers (app/web/routes.py) running in the web    *)
(* thread, over the owner's database and directory and the registry of     *)
(* shared books.  The jobs follow module JobLifecycle, which JobQueue      *)
(* implements.                                                             *)
(*                                                                         *)
(* An action is the code up to and including one commit, one change of the *)
(* directory or one await.  The two threads interleave between actions, and*)
(* a crash of the process falls between any two.  The commit that only     *)
(* shows the user the name of a stage is part of the stage's next action.  *)
(***************************************************************************)
EXTENDS Naturals, Sequences, FiniteSets

CONSTANTS
  Docs,          \* doc ids (uuid4: never reused)
  Leaves,        \* the leaf sections the structure stage finds in a document
  Owner,         \* [Docs -> users]
  Hash,          \* [Docs -> content hashes], pipeline/content_hash.py
  NoDoc,
  Reprocessable, \* the documents whose owner may ask for reprocessing
  Deletable,     \* the documents whose owner may delete them
  MaxJobs,       \* bound: jobs enqueued
  MaxAttempts,   \* app.constants.MAX_JOB_ATTEMPTS
  MaxCrashes,    \* bound: ends of the process
  MaxTimeouts    \* bound: runs that reach JOB_RUN_TIMEOUT

ASSUME NoDocAssumption == NoDoc \notin Docs /\ IsFiniteSet(Docs)
ASSUME DocsAssumption ==
  /\ DOMAIN Owner = Docs /\ DOMAIN Hash = Docs
  /\ Reprocessable \subseteq Docs /\ Deletable \subseteq Docs
ASSUME BoundsAssumption ==
  /\ MaxJobs \in Nat /\ MaxAttempts \in Nat
  /\ MaxCrashes \in Nat /\ MaxTimeouts \in Nat

VARIABLES
  row,         \* docs.status; "none" and "deleted" when there is no row
  checkpoint,  \* docs.enrich_completed_paths, a set of <<doc, leaf>>
  fts,         \* documents_fts: for each leaf, rows without and with keywords
  pdf,         \* original.pdf is in the document's directory
  files,       \* the leaf files of the document's directory
  registered,  \* shared_books
  linked,      \* user_books: the rank of a link by created_at, 0 for none
  status,      \* queue_jobs.status
  attempts,    \* queue_jobs.attempts
  jobDoc,      \* queue_jobs.doc_id; job k is the k-th row enqueued
  run,         \* the worker's run_job: where it is and its local variables
  ghosts,      \* enrich tasks of a timed out run that are still scheduled
  web,         \* the web handler between two of its effects
  cut,         \* history: steps of a document that a process end left undone
  partial,     \* history: documents whose rows are not all of the last index
  stale,       \* history: <<doc, leaf>> of enrichments that were overwritten
  crashes,
  timeouts

docVars == <<row, checkpoint, fts>>
diskVars == <<pdf, files>>
shareVars == <<registered, linked>>
jobVars == <<status, attempts, jobDoc>>
boundVars == <<cut, partial, stale, crashes, timeouts>>
vars == <<docVars, diskVars, shareVars, jobVars, run, ghosts, web, boundVars>>

Jobs == 1 .. MaxJobs
Queue == INSTANCE JobLifecycle
           WITH Jobs <- Jobs, MaxAttempts <- MaxAttempts,
                status <- status, attempts <- attempts

Paths == Docs \X Leaves
RowStates == {"none", "queued", "working", "done", "failed", "deleted"}
\* A leaf file with (rich) or without (plain) a frontmatter block at its head.
FileStates == {"absent", "plain", "rich"}
Stages == {"start", "extract", "match", "remove", "copytree", "copyrows",
           "copymeta", "copylink", "copydone", "copycomplete", "tier", "plan",
           "enrich", "clear", "index", "complete", "register", "link",
           "failing", "failjob", "timedout", "timedoutdoc"}
CopyStages == {"remove", "copytree", "copyrows"}
WebSteps == {"row", "enqueue", "droprow", "unlink", "rmtree"}
Cuts == Docs \X {"enqueue", "timedoutdoc", "copytree"}

\* got: the checkpoint read from the source; todo: leaves this stage has left;
\* pending: enriched leaves whose result the consumer has not taken yet.
Runs == [job : Jobs, doc : Docs, at : Stages, src : Docs \cup {NoDoc},
         got : SUBSET Paths, todo : SUBSET Leaves, pending : SUBSET Leaves]
NoRun == [doc |-> NoDoc]
NoWeb == [doc |-> NoDoc]

RowExists(d) == row[d] \notin {"none", "deleted"}
DirExists(d) == pdf[d] \/ \E l \in Leaves : files[d][l] # "absent"
NoFiles == [l \in Leaves |-> "absent"]
NoRows == [l \in Leaves |-> [plain |-> 0, rich |-> 0]]

\* UPDATE docs SET ... WHERE doc_id = ?: nothing happens without a row.
WithRow(f, d, v) == IF RowExists(d) THEN [f EXCEPT ![d] = v] ELSE f

TypeOK ==
  /\ row \in [Docs -> RowStates]
  /\ checkpoint \in [Docs -> SUBSET Paths]
  /\ fts \in [Docs -> [Leaves -> [plain : Nat, rich : Nat]]]
  /\ pdf \in [Docs -> BOOLEAN]
  /\ files \in [Docs -> [Leaves -> FileStates]]
  /\ registered \subseteq {Hash[d] : d \in Docs}
  /\ linked \in [Docs -> Nat]
  /\ status \in [Jobs -> Queue!Statuses]
  /\ attempts \in [Jobs -> 0 .. MaxAttempts]
  /\ jobDoc \in Seq(Docs) /\ Len(jobDoc) <= MaxJobs
  /\ run \in Runs \cup {NoRun}
  /\ run # NoRun /\ run.at \in CopyStages => run.src \in Docs
  /\ ghosts \subseteq Paths
  /\ web \in [doc : Docs, at : WebSteps] \cup {NoWeb}
  /\ web # NoWeb /\ web.at \in {"row", "enqueue"} => Len(jobDoc) < MaxJobs
  /\ cut \subseteq Cuts /\ partial \subseteq Docs /\ stale \subseteq Paths
  /\ crashes \in 0 .. MaxCrashes
  /\ timeouts \in 0 .. MaxTimeouts

Init ==
  /\ row = [d \in Docs |-> "none"]
  /\ checkpoint = [d \in Docs |-> {}]
  /\ fts = [d \in Docs |-> NoRows]
  /\ pdf = [d \in Docs |-> FALSE]
  /\ files = [d \in Docs |-> NoFiles]
  /\ registered = {}
  /\ linked = [d \in Docs |-> 0]
  /\ Queue!Init
  /\ jobDoc = <<>>
  /\ run = NoRun
  /\ ghosts = {}
  /\ web = NoWeb
  /\ cut = {} /\ partial = {} /\ stale = {}
  /\ crashes = 0
  /\ timeouts = 0

-------------------------------------------------------------------------------
(* The web handlers.  They have no await between their effects, so one runs*)
(* at a time; the worker thread runs beside them.                          *)

\* upload: the file first, then the row, then the job.
UploadStore(d) ==
  /\ web = NoWeb /\ row[d] = "none" /\ ~DirExists(d)
  /\ Len(jobDoc) < MaxJobs
  /\ pdf' = [pdf EXCEPT ![d] = TRUE]
  /\ web' = [doc |-> d, at |-> "row"]
  /\ UNCHANGED <<docVars, files, shareVars, jobVars, run, ghosts, boundVars>>

CreateDoc ==
  /\ web # NoWeb /\ web.at = "row"
  /\ row' = [row EXCEPT ![web.doc] = "queued"]
  /\ web' = [web EXCEPT !.at = "enqueue"]
  /\ UNCHANGED <<checkpoint, fts, diskVars, shareVars, jobVars, run, ghosts,
                 boundVars>>

\* reprocess_doc: no look at the jobs the document may already have.
Reprocess(d) ==
  /\ web = NoWeb /\ d \in Reprocessable /\ RowExists(d)
  /\ Len(jobDoc) < MaxJobs
  /\ row' = [row EXCEPT ![d] = "queued"]
  /\ web' = [doc |-> d, at |-> "enqueue"]
  /\ UNCHANGED <<checkpoint, fts, diskVars, shareVars, jobVars, run, ghosts,
                 boundVars>>

\* enqueue_job, the last effect of both handlers.
Enqueue ==
  /\ web # NoWeb /\ web.at = "enqueue"
  /\ Queue!Submit(Len(jobDoc) + 1)
  /\ jobDoc' = Append(jobDoc, web.doc)
  /\ web' = NoWeb
  /\ cut' = cut \ ({web.doc} \X {"enqueue", "timedoutdoc"})
  /\ UNCHANGED <<docVars, diskVars, shareVars, run, ghosts, partial, stale,
                 crashes, timeouts>>

\* delete_doc_route, effect by effect: the index rows, ...
BeingDeleted(d) == web = [doc |-> d, at |-> "droprow"]

DeleteRows(d) ==
  /\ web = NoWeb /\ d \in Deletable /\ RowExists(d)
  /\ fts' = [fts EXCEPT ![d] = NoRows]
  /\ web' = [doc |-> d, at |-> "droprow"]
  /\ UNCHANGED <<row, checkpoint, diskVars, shareVars, jobVars, run, ghosts,
                 boundVars>>

\* ... the document's row, ...
DeleteDoc ==
  /\ web # NoWeb /\ web.at = "droprow"
  /\ row' = [row EXCEPT ![web.doc] = "deleted"]
  /\ checkpoint' = [checkpoint EXCEPT ![web.doc] = {}]
  /\ web' = [web EXCEPT !.at = "unlink"]
  /\ UNCHANGED <<fts, diskVars, shareVars, jobVars, run, ghosts, boundVars>>

Linked(h) == {d \in Docs : linked[d] > 0 /\ Hash[d] = h}

\* The ranks once d has no link: those of the later links move up.
Unlinked(d) ==
  [e \in Docs |-> IF e = d THEN 0
                  ELSE IF 0 < linked[d] /\ linked[d] < linked[e]
                    THEN linked[e] - 1
                    ELSE linked[e]]

\* ... the link, only if no other document is linked to the same book, ...
UnlinkBook ==
  /\ web # NoWeb /\ web.at = "unlink"
  /\ linked' = IF linked[web.doc] > 0 /\ Linked(Hash[web.doc]) # {web.doc}
                 THEN linked
                 ELSE Unlinked(web.doc)
  /\ web' = [web EXCEPT !.at = "rmtree"]
  /\ UNCHANGED <<docVars, diskVars, registered, jobVars, run, ghosts,
                 boundVars>>

\* ... and the directory.
RemoveDir ==
  /\ web # NoWeb /\ web.at = "rmtree"
  /\ pdf' = [pdf EXCEPT ![web.doc] = FALSE]
  /\ files' = [files EXCEPT ![web.doc] = NoFiles]
  /\ web' = NoWeb
  /\ UNCHANGED <<docVars, shareVars, jobVars, run, ghosts, boundVars>>

WebContinues ==
  CreateDoc \/ Enqueue \/ DeleteDoc \/ UnlinkBook \/ RemoveDir

-------------------------------------------------------------------------------
(* run_job.                                                                *)

\* The row the UPDATE of claim_next_job may pick: the oldest queued one, or an
\* interrupted one, once its lease is over, that no queued one is older than.
NextJobs ==
  {k \in 1 .. Len(jobDoc) :
     /\ status[k] \in {"queued", "processing"}
     /\ \A i \in 1 .. k - 1 : status[i] # "queued"}

Claim(k) ==
  /\ run = NoRun /\ k \in NextJobs
  /\ Queue!Take(k)
  /\ run' = [job |-> k, doc |-> jobDoc[k], at |-> "start", src |-> NoDoc,
             got |-> {}, todo |-> {}, pending |-> {}]
  /\ UNCHANGED <<docVars, diskVars, shareVars, jobDoc, ghosts, web, boundVars>>

At(stage) == run # NoRun /\ run.at = stage
Goto(stage) == run' = [run EXCEPT !.at = stage]

\* History: what the checkpoint says of the document's files no longer holds.
Outdated(d) == stale \cup {<<d, l>> : l \in Leaves}

\* Stage 1.
StartExtract ==
  /\ At("start")
  /\ row' = WithRow(row, run.doc, "working")
  /\ Goto("extract")
  /\ UNCHANGED <<checkpoint, fts, diskVars, shareVars, jobVars, ghosts, web,
                 boundVars>>

Extract ==
  /\ At("extract") /\ pdf[run.doc]
  /\ Goto("match")
  /\ UNCHANGED <<docVars, diskVars, shareVars, jobVars, ghosts, web, boundVars>>

\* The earliest link to a registered book, if it is another user's and its
\* directory is there, is copied instead of processing the document.
Earliest(h) ==
  {d \in Linked(h) : \A e \in Linked(h) : linked[d] <= linked[e]}

\* Mistakes, as in module JobQueue, precede the definition they mistake.
\* Mistake: the user's own link counts as a source.
SourcesOwn(d) ==
  {s \in Earliest(Hash[d]) : Hash[d] \in registered /\ DirExists(s)}

Sources(d) ==
  {s \in Earliest(Hash[d]) :
     Hash[d] \in registered /\ Owner[s] # Owner[d] /\ DirExists(s)}

MatchSharedBook ==
  /\ At("match")
  /\ \/ \E s \in Sources(run.doc) :
          run' = [run EXCEPT !.at = "remove", !.src = s]
     \/ Sources(run.doc) = {} /\ Goto("tier")
  /\ UNCHANGED <<docVars, diskVars, shareVars, jobVars, ghosts, web, boundVars>>

RemoveOwnDir ==
  /\ At("remove")
  /\ pdf' = [pdf EXCEPT ![run.doc] = FALSE]
  /\ files' = [files EXCEPT ![run.doc] = NoFiles]
  /\ Goto("copytree")
  /\ UNCHANGED <<docVars, shareVars, jobVars, ghosts, web, boundVars>>

CopySourceDir ==
  /\ At("copytree") /\ DirExists(run.src)
  /\ pdf' = [pdf EXCEPT ![run.doc] = pdf[run.src]]
  /\ files' = [files EXCEPT ![run.doc] = files[run.src]]
  /\ Goto("copyrows")
  /\ UNCHANGED <<docVars, shareVars, jobVars, ghosts, web, boundVars>>

\* Mistake: the rows are looked up under the new document's id.
CopyOwnRows ==
  /\ At("copyrows")
  /\ run' = [run EXCEPT !.at = "copymeta", !.got = checkpoint[run.src]]
  /\ UNCHANGED <<docVars, diskVars, shareVars, jobVars, ghosts, web, boundVars>>

\* The rows of a document that is deleted, or may lack some, are no full index.
Incomplete(d) == BeingDeleted(d) \/ row[d] = "deleted" \/ d \in partial

\* The rows of the source are added to whatever the document has.
CopySourceRows ==
  /\ At("copyrows")
  /\ fts' = [fts EXCEPT ![run.doc] =
               [l \in Leaves |->
                  [plain |-> @[l].plain + fts[run.src][l].plain,
                   rich  |-> @[l].rich + fts[run.src][l].rich]]]
  /\ run' = [run EXCEPT !.at = "copymeta",
                        !.got = IF RowExists(run.src) THEN checkpoint[run.src]
                                ELSE checkpoint[run.doc]]
  /\ partial' = IF Incomplete(run.src) THEN partial \cup {run.doc}
                                      ELSE partial \ {run.doc}
  /\ UNCHANGED <<row, checkpoint, diskVars, shareVars, jobVars, ghosts, web,
                 cut, stale, crashes, timeouts>>

\* The paths are copied as they are, under the source's doc id.
CopySourceMeta ==
  /\ At("copymeta")
  /\ checkpoint' = WithRow(checkpoint, run.doc, run.got)
  /\ stale' = {c \in Paths :
                <<IF c[1] = run.doc THEN run.src ELSE c[1], c[2]>> \in stale}
  /\ Goto("copylink")
  /\ UNCHANGED <<row, fts, diskVars, shareVars, jobVars, ghosts, web, cut,
                 partial, crashes, timeouts>>

\* INSERT OR REPLACE: a linked document is linked anew, with a new created_at.
LinkUserBook(d) ==
  linked' = [Unlinked(d) EXCEPT
               ![d] = Cardinality({e \in Docs \ {d} : linked[e] > 0}) + 1]

LinkCopy ==
  /\ At("copylink")
  /\ LinkUserBook(run.doc)
  /\ Goto("copydone")
  /\ UNCHANGED <<docVars, diskVars, registered, jobVars, ghosts, web, boundVars>>

CopyDone ==
  /\ At("copydone")
  /\ row' = WithRow(row, run.doc, "done")
  /\ Goto("copycomplete")
  /\ UNCHANGED <<checkpoint, fts, diskVars, shareVars, jobVars, ghosts, web,
                 boundVars>>

\* complete_job.
SettleJob(outcome) ==
  /\ status' = [status EXCEPT ![run.job] = outcome]
  /\ UNCHANGED <<attempts, jobDoc>>

CopyComplete ==
  /\ At("copycomplete")
  /\ SettleJob("done")
  /\ run' = NoRun
  /\ UNCHANGED <<docVars, diskVars, shareVars, ghosts, web, boundVars>>

Tiered(d) == [files EXCEPT ![d] = [l \in Leaves |-> "plain"]]

\* Stages 2 and 3: every leaf file is written anew, without frontmatter; the
\* directory is created if it is not there.
Tier ==
  /\ At("tier")
  /\ row' = WithRow(row, run.doc, "working")
  /\ files' = Tiered(run.doc)
  /\ stale' = Outdated(run.doc)
  /\ Goto("plan")
  /\ UNCHANGED <<checkpoint, fts, pdf, shareVars, jobVars, ghosts, web, cut,
                 partial, crashes, timeouts>>

\* Stage 4 skips the leaves of the checkpoint, or, when that is empty, the
\* leaves whose file has frontmatter.
PlanEnrichment ==
  /\ At("plan")
  /\ row' = WithRow(row, run.doc, "working")
  /\ LET done == IF checkpoint[run.doc] # {}
                   THEN {l \in Leaves : <<run.doc, l>> \in checkpoint[run.doc]}
                   ELSE {l \in Leaves : files[run.doc][l] = "rich"}
     IN  run' = [run EXCEPT !.at = "enrich", !.todo = Leaves \ done]
  /\ UNCHANGED <<checkpoint, fts, diskVars, shareVars, jobVars, ghosts, web,
                 boundVars>>

\* One enrich task: the model gives keywords, a summary only, or nothing that
\* can be used (the task raises or returns an empty result).
WriteFrontmatter(d, l) ==
  /\ files[d][l] # "absent"
  /\ files' = [files EXCEPT ![d][l] = "rich"]

EnrichLeaf(l) ==
  /\ At("enrich") /\ l \in run.todo
  /\ \/ /\ WriteFrontmatter(run.doc, l)
        /\ \E kept \in {{}, {l}} :
             run' = [run EXCEPT !.todo = @ \ {l}, !.pending = @ \cup kept]
     \/ /\ run' = [run EXCEPT !.todo = @ \ {l}]
        /\ UNCHANGED files
  /\ UNCHANGED <<docVars, pdf, shareVars, jobVars, ghosts, web, boundVars>>

\* The consumer checkpoints a leaf that has keywords.
CheckpointLeaf(l) ==
  /\ At("enrich") /\ l \in run.pending
  /\ checkpoint' =
       WithRow(checkpoint, run.doc, checkpoint[run.doc] \cup {<<run.doc, l>>})
  /\ stale' = stale \ {<<run.doc, l>>}
  /\ run' = [run EXCEPT !.pending = @ \ {l}]
  /\ UNCHANGED <<row, fts, diskVars, shareVars, jobVars, ghosts, web, cut,
                 partial, crashes, timeouts>>

EnrichEnds ==
  /\ At("enrich") /\ run.todo = {} /\ run.pending = {}
  /\ row' = WithRow(row, run.doc, "working")
  /\ Goto("clear")
  /\ UNCHANGED <<checkpoint, fts, diskVars, shareVars, jobVars, ghosts, web,
                 boundVars>>

\* Mistake: the rows of an earlier run stay.
ClearNothing ==
  /\ At("clear")
  /\ run' = [run EXCEPT !.at = "index", !.todo = Leaves]
  /\ UNCHANGED <<docVars, diskVars, shareVars, jobVars, ghosts, web, boundVars>>

\* Stage 5: the document's rows are deleted, then inserted leaf by leaf.
ClearRows ==
  /\ At("clear")
  /\ fts' = [fts EXCEPT ![run.doc] = NoRows]
  /\ run' = [run EXCEPT !.at = "index", !.todo = Leaves]
  /\ partial' = partial \ {run.doc}
  /\ UNCHANGED <<row, checkpoint, diskVars, shareVars, jobVars, ghosts, web,
                 cut, stale, crashes, timeouts>>

\* Mistake: the frontmatter is not parsed into the index.
IndexBody(l) ==
  /\ At("index") /\ l \in run.todo
  /\ files[run.doc][l] # "absent"
  /\ fts' = [fts EXCEPT ![run.doc][l].plain = @ + 1]
  /\ run' = [run EXCEPT !.todo = @ \ {l}]
  /\ UNCHANGED <<row, checkpoint, diskVars, shareVars, jobVars, ghosts, web,
                 boundVars>>

IndexLeaf(l) ==
  /\ At("index") /\ l \in run.todo
  /\ files[run.doc][l] # "absent"
  /\ fts' = IF files[run.doc][l] = "plain"
              THEN [fts EXCEPT ![run.doc][l].plain = @ + 1]
              ELSE [fts EXCEPT ![run.doc][l].rich = @ + 1]
  /\ run' = [run EXCEPT !.todo = @ \ {l}]
  /\ UNCHANGED <<row, checkpoint, diskVars, shareVars, jobVars, ghosts, web,
                 boundVars>>

\* Mistake: the document is done before its last leaf is indexed.
DocDoneEarly ==
  /\ At("index")
  /\ row' = WithRow(row, run.doc, "done")
  /\ Goto("complete")
  /\ UNCHANGED <<checkpoint, fts, diskVars, shareVars, jobVars, ghosts, web,
                 boundVars>>

DocDone ==
  /\ At("index") /\ run.todo = {}
  /\ row' = WithRow(row, run.doc, "done")
  /\ Goto("complete")
  /\ UNCHANGED <<checkpoint, fts, diskVars, shareVars, jobVars, ghosts, web,
                 boundVars>>

CompleteJob ==
  /\ At("complete")
  /\ SettleJob("done")
  /\ Goto("register")
  /\ UNCHANGED <<docVars, diskVars, shareVars, ghosts, web, boundVars>>

RegisterBook ==
  /\ At("register")
  /\ registered' = registered \cup {Hash[run.doc]}
  /\ Goto("link")
  /\ UNCHANGED <<docVars, diskVars, linked, jobVars, ghosts, web, boundVars>>

LinkBook ==
  /\ At("link")
  /\ LinkUserBook(run.doc)
  /\ run' = NoRun
  /\ UNCHANGED <<docVars, diskVars, registered, jobVars, ghosts, web, boundVars>>

\* Mistake: the handler fails the job and forgets the document.
RaisesPastDoc ==
  /\ \/ At("extract")
     \/ At("copytree") /\ ~DirExists(run.src)
     \/ At("index") /\ \E l \in run.todo : files[run.doc][l] = "absent"
  /\ Goto("failjob")
  /\ UNCHANGED <<docVars, diskVars, shareVars, jobVars, ghosts, web, boundVars>>

\* A stage raises: the PDF is gone or has no text, the directory to copy is
\* gone, a leaf file to index is gone.  The handler of run_job fails the
\* document, then the job.
StageRaises ==
  /\ \/ At("extract")
     \/ At("copytree") /\ ~DirExists(run.src)
     \/ At("index") /\ \E l \in run.todo : files[run.doc][l] = "absent"
  /\ Goto("failing")
  /\ UNCHANGED <<docVars, diskVars, shareVars, jobVars, ghosts, web, boundVars>>

FailDoc ==
  /\ At("failing")
  /\ row' = WithRow(row, run.doc, "failed")
  /\ Goto("failjob")
  /\ UNCHANGED <<checkpoint, fts, diskVars, shareVars, jobVars, ghosts, web,
                 boundVars>>

\* complete_job(error=str(e)): an exception without a message leaves "done".
FailJob ==
  /\ At("failjob")
  /\ \E outcome \in Queue!Outcomes : SettleJob(outcome)
  /\ run' = NoRun
  /\ UNCHANGED <<docVars, diskVars, shareVars, ghosts, web, boundVars>>

\* JOB_RUN_TIMEOUT cancels run_job at an await, past its handler, and leaves
\* the enrich tasks it had created on the loop and the thread that writes the
\* leaf files to its end.  _fail_job fails the job, then the document.
TimesOut ==
  /\ timeouts < MaxTimeouts
  /\ timeouts' = timeouts + 1
  /\ \/ /\ At("extract") \/ At("enrich")
        /\ UNCHANGED files
     \/ /\ At("tier")
        /\ files' \in {files, Tiered(run.doc)}
  /\ ghosts' = ghosts \cup ({run.doc} \X run.todo)
  /\ stale' = IF At("enrich") THEN Outdated(run.doc) ELSE stale
  /\ Goto("timedout")
  /\ UNCHANGED <<docVars, pdf, shareVars, jobVars, web, cut, partial, crashes>>

FailTimedOutJob ==
  /\ At("timedout")
  /\ SettleJob("failed")
  /\ Goto("timedoutdoc")
  /\ UNCHANGED <<docVars, diskVars, shareVars, ghosts, web, boundVars>>

\* Mistake: the timeout fails the job and forgets the document.
ForgetTimedOutDoc ==
  /\ At("timedoutdoc")
  /\ run' = NoRun
  /\ UNCHANGED <<docVars, diskVars, shareVars, jobVars, ghosts, web, boundVars>>

FailTimedOutDoc ==
  /\ At("timedoutdoc")
  /\ row' = WithRow(row, run.doc, "failed")
  /\ run' = NoRun
  /\ UNCHANGED <<checkpoint, fts, diskVars, shareVars, jobVars, ghosts, web,
                 boundVars>>

\* An orphaned enrich task runs on, whatever became of its document.
GhostEnriches(g) ==
  /\ g \in ghosts
  /\ ghosts' = ghosts \ {g}
  /\ WriteFrontmatter(g[1], g[2]) \/ UNCHANGED files
  /\ UNCHANGED <<docVars, pdf, shareVars, jobVars, run, web, boundVars>>

\* The process ends between two effects and is started again; the databases
\* and the directories are what is left.
Crash ==
  /\ crashes < MaxCrashes
  /\ run # NoRun \/ web # NoWeb \/ ghosts # {}
  /\ crashes' = crashes + 1
  /\ run' = NoRun /\ web' = NoWeb /\ ghosts' = {}
  /\ cut' = cut \cup {c \in Cuts : \/ web = [doc |-> c[1], at |-> c[2]]
                                   \/ run.doc = c[1] /\ At(c[2])}
  /\ partial' = partial \cup {d \in Docs : \/ BeingDeleted(d)
                                           \/ run.doc = d /\ At("index")}
  /\ stale' = IF \E stage \in {"copymeta", "enrich", "clear", "index"} : At(stage)
                THEN Outdated(run.doc) ELSE stale
  /\ UNCHANGED <<docVars, diskVars, shareVars, jobVars, timeouts>>

-------------------------------------------------------------------------------
RunContinues ==
  \/ StartExtract \/ Extract \/ MatchSharedBook
  \/ RemoveOwnDir \/ CopySourceDir \/ CopySourceRows \/ CopySourceMeta
  \/ LinkCopy \/ CopyDone \/ CopyComplete
  \/ Tier \/ PlanEnrichment \/ EnrichEnds \/ ClearRows
  \/ \E l \in Leaves : EnrichLeaf(l) \/ CheckpointLeaf(l) \/ IndexLeaf(l)
  \/ DocDone \/ CompleteJob \/ RegisterBook \/ LinkBook
  \/ StageRaises \/ FailDoc \/ FailJob
  \/ FailTimedOutJob \/ FailTimedOutDoc

ClaimNext == \E k \in Jobs : Claim(k)

Next ==
  \/ \E d \in Docs : UploadStore(d) \/ Reprocess(d) \/ DeleteRows(d)
  \/ WebContinues
  \/ ClaimNext \/ RunContinues \/ TimesOut
  \/ \E g \in Paths : GhostEnriches(g)
  \/ Crash

Spec == Init /\ [][Next]_vars

\* Both threads run: a handler and a run go on to their next effect, and an
\* idle worker claims what it can.  Nobody has to upload or delete anything.
Fairness == WF_vars(WebContinues) /\ WF_vars(ClaimNext) /\ WF_vars(RunContinues)

FairSpec == Spec /\ Fairness

-------------------------------------------------------------------------------
(* Properties.  A document is at rest when neither thread works on it.     *)

AtRest(d) == run.doc # d /\ web.doc # d
RowCount(d, l) == fts[d][l].plain + fts[d][l].rich
JobsOf(d) == {k \in 1 .. Len(jobDoc) : jobDoc[k] = d}

\* A document shown as done can be read and searched in full: every section
\* has its file and its index row, whatever runs, copies, failures, timeouts and
\* ends of the process came before.  Rows are lost in one way only, an
\* interruption: the process ends between the commits that delete the rows of a
\* document and its own row, or between those that delete and rebuild its index,
\* or a document is copied while its rows are deleted.  Such a document stays
\* incomplete, and so does a copy of it, until its index is next rebuilt.
LostRows(d) == BeingDeleted(d) \/ d \in partial

DoneIsSearchable ==
  \A d \in Docs, l \in Leaves :
    row[d] = "done" =>
      /\ files[d][l] # "absent"
      /\ RowCount(d, l) > 0 \/ LostRows(d)

\* test_user_db_fts.py:38: re-indexing must not accumulate duplicate rows that
\* pollute search results.
NoDuplicateRows ==
  \A d \in Docs, l \in Leaves : RowCount(d, l) <= 1

\* No second run has claimed a job of the document.
Once(d) ==
  \A i, j \in JobsOf(d) :
    attempts[i] <= 1 /\ (attempts[i] > 0 /\ attempts[j] > 0 => i = j)

\* The line above of the code as it is, for shared books and any reprocessing: a
\* section gets a second row only from the copy path, which deletes none, and
\* only from a source that has two or in a run that is not the document's first.
\* Nothing that resumes, is retried or is rebuilt indexes a section twice.
DuplicatesAreCopies ==
  [][\A d \in Docs, l \in Leaves :
       RowCount(d, l)' > 1 /\ RowCount(d, l)' > RowCount(d, l) =>
         /\ At("copyrows") /\ run.doc = d
         /\ RowCount(d, l) > 0 => ~Once(d)]_vars

\* The work of the enrichment is kept: a section the checkpoint calls enriched
\* has its summary and keywords in the index once the document is done.
EnrichmentKept ==
  \A d \in Docs, l \in Leaves :
    row[d] = "done" /\ AtRest(d) /\ <<d, l>> \in checkpoint[d] =>
      fts[d][l].rich > 0

\* The same for shared books and any reprocessing.  The checkpoint of a copy holds
\* the entries of its source: the copy is as enriched as that.  What is lost is
\* the enrichment of a run that was interrupted before it was indexed, or whose
\* files a later run has written anew without enriching them again.
Entry(d, l) == \E s \in Docs : <<s, l>> \in checkpoint[d]

EnrichedUnlessRewritten ==
  \A d \in Docs, l \in Leaves :
    row[d] = "done" /\ Entry(d, l) /\ <<d, l>> \notin stale =>
      fts[d][l].rich > 0 \/ LostRows(d)

\* The PDF that a citation opens (README.md:134) is there for every document
\* that is listed.  A copy removes the document's own directory first: the PDF is
\* gone if the process ends before the source's directory is copied, or if that
\* of a deleted source is gone, or has been written anew, by then.
SourceGone(d) ==
  \E s, t \in Docs :
    /\ Hash[s] = Hash[d] /\ Hash[t] = Hash[d] /\ Owner[s] # Owner[t]
    /\ row[s] = "deleted"

PdfKept ==
  \A d \in Docs :
    RowExists(d) /\ AtRest(d) =>
      pdf[d] \/ <<d, "copytree">> \in cut \/ SourceGone(d)

\* A document that is shown as queued or in progress has a job without an
\* outcome, unless the process ended at one of two places: in a handler
\* between the commit of the row and that of the job (two databases), or in
\* _fail_job between that of the job and that of the row.
BeingEnqueued(d) == web = [doc |-> d, at |-> "enqueue"]
FailsNow(d) == run.doc = d /\ At("timedoutdoc")
Abandoned(d) == <<d, "enqueue">> \in cut \/ <<d, "timedoutdoc">> \in cut

UnfinishedHasJob ==
  \A d \in Docs :
    row[d] \in {"queued", "working"} /\ ~BeingEnqueued(d) =>
      \/ \E k \in JobsOf(d) : status[k] \notin Queue!Outcomes
      \/ FailsNow(d) \/ Abandoned(d)

\* Every uploaded document ends up done, failed or deleted, with the same two
\* exceptions, whatever ends of the process come between.
DocsSettle ==
  \A d \in Docs :
    row[d] = "queued" ~>
      row[d] \in {"done", "failed", "deleted"} \/ Abandoned(d)
===============================================================================
