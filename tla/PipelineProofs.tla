---------------------------- MODULE PipelineProofs ----------------------------
(***************************************************************************)
(* Theorems about Pipeline, for any documents, sections, users, contents   *)
(* and bounds.                                                             *)
(***************************************************************************)
EXTENDS Pipeline, FiniteSetTheorems, TLAPS

\* The steps of the model, one per action: every proof below splits on them.
LEMMA NextCases ==
  ASSUME Next
  PROVE  \/ \E d \in Docs : UploadStore(d) \/ Reprocess(d) \/ DeleteRows(d)
         \/ CreateDoc \/ Enqueue \/ DeleteDoc \/ UnlinkBook \/ RemoveDir
         \/ \E k \in Jobs : Claim(k)
         \/ StartExtract \/ Extract \/ MatchSharedBook
         \/ RemoveOwnDir \/ CopySourceDir \/ CopySourceRows \/ CopySourceMeta
         \/ LinkCopy \/ CopyDone \/ CopyComplete
         \/ Tier \/ PlanEnrichment \/ EnrichEnds \/ ClearRows
         \/ \E l \in Leaves : EnrichLeaf(l) \/ CheckpointLeaf(l) \/ IndexLeaf(l)
         \/ DocDone \/ CompleteJob \/ RegisterBook \/ LinkBook
         \/ StageRaises \/ FailDoc \/ FailJob
         \/ FailTimedOutJob \/ FailTimedOutDoc \/ TimesOut
         \/ \E g \in Paths : GhostEnriches(g)
         \/ Crash
  BY DEF Next, WebContinues, ClaimNext, RunContinues

\* A run that is somewhere is a run; a web handler likewise.
LEMMA RunThere ==
  ASSUME TypeOK, NEW stage, At(stage)
  PROVE  /\ run \in Runs /\ run.at = stage /\ run.doc \in Docs
         /\ run.job \in Jobs /\ run # NoRun
  BY DEF TypeOK, At, Runs

LEMMA WebThere ==
  ASSUME TypeOK, web # NoWeb
  PROVE  web \in [doc : Docs, at : WebSteps] /\ web.doc \in Docs
  BY DEF TypeOK

LEMMA RunGoes ==
  ASSUME TypeOK, NEW stage, At(stage), NEW next \in Stages, Goto(next)
  PROVE  /\ run' \in Runs \cup {NoRun}
         /\ run'.at = next /\ run'.src = run.src
  BY RunThere DEF Goto, Runs

LEMMA SourceThere ==
  ASSUME TypeOK, NEW stage \in CopyStages, At(stage)
  PROVE  run.src \in Docs
  BY RunThere DEF TypeOK

LEMMA FrontmatterTyped ==
  ASSUME TypeOK, NEW d \in Docs, NEW l \in Leaves, WriteFrontmatter(d, l)
  PROVE  /\ files' \in [Docs -> [Leaves -> FileStates]]
         /\ \A e \in Docs, m \in Leaves :
              files'[e][m] = "absent" => files[e][m] = "absent"
<1>1. [files[d] EXCEPT ![l] = "rich"] \in [Leaves -> FileStates]
  BY DEF TypeOK, FileStates
<1>2. /\ files'[d] = [files[d] EXCEPT ![l] = "rich"]
      /\ \A e \in Docs \ {d} : files'[e] = files[e]
  BY DEF TypeOK, WriteFrontmatter
<1>3. \A m \in Leaves : files'[d][m] = "absent" => files[d][m] = "absent"
  BY <1>2 DEF TypeOK
<1> QED
  BY <1>1, <1>2, <1>3 DEF TypeOK, WriteFrontmatter

LEMMA IndexTyped ==
  ASSUME TypeOK, NEW d \in Docs, NEW l \in Leaves
  PROVE  /\ [fts EXCEPT ![d][l].plain = @ + 1]
              \in [Docs -> [Leaves -> [plain : Nat, rich : Nat]]]
         /\ [fts EXCEPT ![d][l].rich = @ + 1]
              \in [Docs -> [Leaves -> [plain : Nat, rich : Nat]]]
<1>1. fts[d][l] \in [plain : Nat, rich : Nat]
  BY DEF TypeOK
<1>2. /\ [fts[d][l] EXCEPT !.plain = @ + 1] \in [plain : Nat, rich : Nat]
      /\ [fts[d][l] EXCEPT !.rich = @ + 1] \in [plain : Nat, rich : Nat]
  BY <1>1
<1>3. /\ [fts[d] EXCEPT ![l].plain = @ + 1] \in [Leaves -> [plain : Nat, rich : Nat]]
      /\ [fts[d] EXCEPT ![l].rich = @ + 1] \in [Leaves -> [plain : Nat, rich : Nat]]
  BY <1>2 DEF TypeOK
<1> QED
  BY <1>3 DEF TypeOK

LEMMA RowTyped ==
  ASSUME TypeOK, NEW d \in Docs, NEW s \in RowStates
  PROVE  WithRow(row, d, s) \in [Docs -> RowStates]
  BY DEF TypeOK, WithRow

LEMMA LinkTyped ==
  ASSUME TypeOK, NEW d \in Docs
  PROVE  /\ Unlinked(d) \in [Docs -> Nat]
         /\ LinkUserBook(d) => linked' \in [Docs -> Nat]
<1>1. Unlinked(d) \in [Docs -> Nat]
  BY DEF Unlinked, TypeOK
<1>2. Cardinality({e \in Docs \ {d} : linked[e] > 0}) \in Nat
  BY NoDocAssumption, FS_Subset, FS_CardinalityType
<1> QED
  BY <1>1, <1>2 DEF LinkUserBook

LEMMA OutdatedTyped ==
  ASSUME TypeOK, NEW d \in Docs
  PROVE  Outdated(d) \subseteq Paths
  BY DEF Outdated, Paths, TypeOK

LEMMA TypeInit == Init => TypeOK
  BY BoundsAssumption
     DEF Init, TypeOK, Queue!Init, Queue!Statuses, RowStates, FileStates,
         NoRows, NoFiles, Jobs
LEMMA TypeStep == TypeOK /\ [Next]_vars => TypeOK'
<1> SUFFICES ASSUME TypeOK, [Next]_vars PROVE TypeOK'
  OBVIOUS
<1> USE DEF docVars, diskVars, shareVars, jobVars, boundVars, CopyStages
<1>1. CASE UNCHANGED vars
  BY <1>1 DEF vars, TypeOK
<1>2. ASSUME NEW d \in Docs, UploadStore(d) PROVE TypeOK'
  BY <1>2 DEF TypeOK, UploadStore, WebSteps
<1>3. ASSUME NEW d \in Docs, Reprocess(d) PROVE TypeOK'
  BY <1>3 DEF TypeOK, Reprocess, WebSteps, RowStates
<1>4. ASSUME NEW d \in Docs, DeleteRows(d) PROVE TypeOK'
  BY <1>4 DEF TypeOK, DeleteRows, WebSteps, NoRows
<1>5. CASE CreateDoc
  BY <1>5 DEF TypeOK, CreateDoc, WebSteps, RowStates
<1>6. CASE Enqueue
  <2>1. status' \in [Jobs -> Queue!Statuses]
    BY <1>6 DEF TypeOK, Enqueue, Queue!Submit, Queue!Statuses
  <2>2. web.doc \in Docs /\ Len(jobDoc) < MaxJobs
    BY <1>6, WebThere DEF TypeOK, Enqueue
  <2>3. jobDoc' \in Seq(Docs) /\ Len(jobDoc') <= MaxJobs
    BY <1>6, <2>2, BoundsAssumption DEF TypeOK, Enqueue
  <2> QED
    BY <1>6, <2>1, <2>3 DEF TypeOK, Enqueue, Queue!Submit
<1>7. CASE DeleteDoc
  BY <1>7 DEF TypeOK, DeleteDoc, WebSteps, RowStates
<1>8. CASE UnlinkBook
  BY <1>8, LinkTyped, WebThere DEF TypeOK, UnlinkBook, WebSteps
<1>9. CASE RemoveDir
  BY <1>9 DEF TypeOK, RemoveDir, NoFiles, FileStates
<1>10. ASSUME NEW k \in Jobs, Claim(k) PROVE TypeOK'
  <2>1. status' \in [Jobs -> Queue!Statuses]
    BY <1>10 DEF TypeOK, Claim, Queue!Take, Queue!Statuses
  <2>2. attempts' \in [Jobs -> 0 .. MaxAttempts]
    BY <1>10, BoundsAssumption DEF TypeOK, Claim, Queue!Take
  <2>3. jobDoc[k] \in Docs
    BY <1>10 DEF TypeOK, Claim, NextJobs
  <2>4. run' \in Runs /\ run'.at = "start"
    BY <1>10, <2>3 DEF Claim, Runs, Stages
  <2> QED
    BY <1>10, <2>1, <2>2, <2>4 DEF TypeOK, Claim
<1>11. CASE StartExtract \/ Extract
  BY <1>11, RunThere, RunGoes, RowTyped DEF TypeOK, StartExtract, Extract, RowStates, Stages
<1>12. CASE MatchSharedBook
  BY <1>12, RunThere, RunGoes DEF TypeOK, MatchSharedBook, Sources, Earliest, Linked, Stages, Runs
<1>13. CASE RemoveOwnDir
  BY <1>13, RunThere, RunGoes DEF TypeOK, RemoveOwnDir, NoFiles, FileStates, Stages
<1>14. CASE CopySourceDir
  BY <1>14, RunThere, SourceThere, RunGoes DEF TypeOK, CopySourceDir, Stages
<1>15. CASE CopySourceRows
  <2>1. run \in Runs /\ run.doc \in Docs /\ run.src \in Docs
    BY <1>15, RunThere, SourceThere DEF CopySourceRows
  <2>2. ASSUME NEW l \in Leaves
        PROVE  [plain |-> fts[run.doc][l].plain + fts[run.src][l].plain,
                rich  |-> fts[run.doc][l].rich + fts[run.src][l].rich]
                 \in [plain : Nat, rich : Nat]
    BY <2>1 DEF TypeOK
  <2>3. fts' \in [Docs -> [Leaves -> [plain : Nat, rich : Nat]]]
    BY <1>15, <2>1, <2>2 DEF TypeOK, CopySourceRows
  <2>4. run' \in Runs /\ run'.at = "copymeta"
    BY <1>15, <2>1 DEF TypeOK, CopySourceRows, Runs, Stages
  <2> QED
    BY <1>15, <2>3, <2>4 DEF TypeOK, CopySourceRows
<1>16. CASE CopySourceMeta
  <2>1. run \in Runs /\ run.doc \in Docs
    BY <1>16, RunThere DEF CopySourceMeta
  <2>2. checkpoint' \in [Docs -> SUBSET Paths]
    BY <1>16, <2>1 DEF TypeOK, CopySourceMeta, WithRow, Runs
  <2>3. stale' \subseteq Paths
    BY <1>16 DEF CopySourceMeta
  <2>4. run' \in Runs \cup {NoRun} /\ run'.at = "copylink"
    BY <1>16, RunGoes DEF CopySourceMeta, Stages
  <2> QED
    BY <1>16, <2>2, <2>3, <2>4 DEF TypeOK, CopySourceMeta
<1>17. CASE LinkCopy \/ LinkBook
  BY <1>17, RunThere, RunGoes, LinkTyped DEF TypeOK, LinkCopy, LinkBook, Stages
<1>18. CASE CopyDone
  BY <1>18, RunThere, RunGoes, RowTyped DEF TypeOK, CopyDone, RowStates, Stages
<1>19. CASE CopyComplete
  BY <1>19, RunThere DEF TypeOK, CopyComplete, SettleJob, Queue!Statuses, Queue!Outcomes
<1>20. CASE Tier
  <2>1. run.doc \in Docs /\ Outdated(run.doc) \subseteq Paths
    BY <1>20, RunThere, OutdatedTyped DEF Tier
  <2> QED
    BY <1>20, <2>1, RunGoes, RowTyped
       DEF TypeOK, Tier, Tiered, RowStates, FileStates, Stages
<1>21. CASE PlanEnrichment
  BY <1>21, RunThere, RowTyped DEF TypeOK, PlanEnrichment, RowStates, Stages, Runs
<1>22. CASE EnrichEnds
  BY <1>22, RunThere, RunGoes, RowTyped DEF TypeOK, EnrichEnds, RowStates, Stages
<1>23. CASE ClearRows
  BY <1>23, RunThere DEF TypeOK, ClearRows, NoRows, Stages, Runs
<1>24. ASSUME NEW l \in Leaves, EnrichLeaf(l) PROVE TypeOK'
  <2>1. run \in Runs /\ run.doc \in Docs /\ run.at = "enrich"
    BY <1>24, RunThere DEF EnrichLeaf
  <2>2. files' \in [Docs -> [Leaves -> FileStates]]
    BY <1>24, <2>1, FrontmatterTyped DEF TypeOK, EnrichLeaf
  <2>3. run' \in Runs /\ run'.at = "enrich"
    BY <1>24, <2>1 DEF EnrichLeaf, Runs
  <2> QED
    BY <1>24, <2>2, <2>3 DEF TypeOK, EnrichLeaf
<1>25. ASSUME NEW l \in Leaves, CheckpointLeaf(l) PROVE TypeOK'
  <2>1. run \in Runs /\ run.doc \in Docs /\ run.at = "enrich"
    BY <1>25, RunThere DEF CheckpointLeaf
  <2>2. checkpoint[run.doc] \cup {<<run.doc, l>>} \in SUBSET Paths
    BY <2>1 DEF TypeOK, Paths
  <2>3. checkpoint' \in [Docs -> SUBSET Paths]
    BY <1>25, <2>1, <2>2 DEF TypeOK, CheckpointLeaf, WithRow
  <2>4. run' \in Runs /\ run'.at = "enrich"
    BY <1>25, <2>1 DEF CheckpointLeaf, Runs
  <2> QED
    BY <1>25, <2>3, <2>4 DEF TypeOK, CheckpointLeaf
<1>26. ASSUME NEW l \in Leaves, IndexLeaf(l) PROVE TypeOK'
  <2>1. run \in Runs /\ run.doc \in Docs /\ run.at = "index"
    BY <1>26, RunThere DEF IndexLeaf
  <2>2. fts' \in [Docs -> [Leaves -> [plain : Nat, rich : Nat]]]
    BY <1>26, <2>1, IndexTyped DEF IndexLeaf
  <2>3. run' \in Runs /\ run'.at = "index"
    BY <1>26, <2>1 DEF IndexLeaf, Runs
  <2> QED
    BY <1>26, <2>2, <2>3 DEF TypeOK, IndexLeaf
<1>27. CASE DocDone
  BY <1>27, RunThere, RunGoes, RowTyped DEF TypeOK, DocDone, RowStates, Stages
<1>28. CASE CompleteJob
  BY <1>28, RunThere, RunGoes DEF TypeOK, CompleteJob, SettleJob, Queue!Statuses, Queue!Outcomes, Stages
<1>29. CASE RegisterBook
  BY <1>29, RunThere, RunGoes DEF TypeOK, RegisterBook, Stages
<1>30. CASE StageRaises
  BY <1>30, RunThere, RunGoes DEF TypeOK, StageRaises, Stages
<1>31. CASE FailDoc
  BY <1>31, RunThere, RunGoes, RowTyped DEF TypeOK, FailDoc, RowStates, Stages
<1>32. CASE FailJob
  BY <1>32, RunThere DEF TypeOK, FailJob, SettleJob, Queue!Statuses, Queue!Outcomes
<1>33. CASE FailTimedOutJob
  BY <1>33, RunThere, RunGoes DEF TypeOK, FailTimedOutJob, SettleJob, Queue!Statuses, Queue!Outcomes, Stages
<1>34. CASE FailTimedOutDoc
  BY <1>34, RunThere, RowTyped DEF TypeOK, FailTimedOutDoc, RowStates
<1>35. CASE TimesOut
  <2>1. run \in Runs /\ run.doc \in Docs
    BY <1>35, RunThere DEF TimesOut
  <2>2. run' \in Runs /\ run'.at = "timedout"
    BY <1>35, <2>1 DEF TimesOut, Goto, Runs, Stages
  <2>3. files' \in [Docs -> [Leaves -> FileStates]]
    <3>1. files' = files \/ files' = Tiered(run.doc)
      BY <1>35 DEF TimesOut
    <3>2. Tiered(run.doc) \in [Docs -> [Leaves -> FileStates]]
      BY <2>1 DEF TypeOK, Tiered, FileStates
    <3> QED
      BY <3>1, <3>2 DEF TypeOK
  <2>4. ghosts' \subseteq Paths
    BY <1>35, <2>1 DEF TypeOK, TimesOut, Runs, Paths
  <2>5. timeouts' \in 0 .. MaxTimeouts
    BY <1>35, BoundsAssumption DEF TypeOK, TimesOut
  <2>6. stale' \subseteq Paths
    BY <1>35, <2>1, OutdatedTyped DEF TypeOK, TimesOut
  <2> QED
    BY <1>35, <2>2, <2>3, <2>4, <2>5, <2>6 DEF TypeOK, TimesOut
<1>36. ASSUME NEW g \in Paths, GhostEnriches(g) PROVE TypeOK'
  <2>1. g[1] \in Docs /\ g[2] \in Leaves
    BY DEF Paths
  <2>2. files' \in [Docs -> [Leaves -> FileStates]]
    BY <1>36, <2>1, FrontmatterTyped DEF TypeOK, GhostEnriches
  <2> QED
    BY <1>36, <2>2 DEF TypeOK, GhostEnriches
<1>37. CASE Crash
  <2>1. crashes' \in 0 .. MaxCrashes /\ cut' \subseteq Cuts /\ partial' \subseteq Docs
    BY <1>37, BoundsAssumption DEF TypeOK, Crash
  <2>2. stale' \subseteq Paths
    <3>1. CASE \E stage : At(stage)
      BY <1>37, <3>1, RunThere, OutdatedTyped DEF TypeOK, Crash
    <3>2. CASE ~\E stage : At(stage)
      BY <1>37, <3>2 DEF TypeOK, Crash
    <3> QED
      BY <3>1, <3>2
  <2> QED
    BY <1>37, <2>1, <2>2 DEF TypeOK, Crash
<1> QED
  BY <1>1, <1>2, <1>3, <1>4, <1>5, <1>6, <1>7, <1>8, <1>9, <1>10, <1>11,
     <1>12, <1>13, <1>14, <1>15, <1>16, <1>17, <1>18, <1>19, <1>20, <1>21,
     <1>22, <1>23, <1>24, <1>25, <1>26, <1>27, <1>28, <1>29, <1>30, <1>31,
     <1>32, <1>33, <1>34, <1>35, <1>36, <1>37, NextCases

\* Every variable keeps its type: queue_jobs never counts more than
\* MAX_JOB_ATTEMPTS attempts, and run_job is only where run_job can be.
THEOREM TypeCorrect == Spec => []TypeOK
  BY TypeInit, TypeStep, PTL DEF Spec
-------------------------------------------------------------------------------
(* No document without a job.                                              *)

Unfinished == {"queued", "working"}

\* Where run_job is between two commits of the outcome, or past both.
Settling == {"copycomplete", "complete", "failjob"}
Settled == {"register", "link", "timedoutdoc"}

\* The run's job is a job of its document, without an outcome up to the
\* commit that records one.
RunHoldsJob ==
  run # NoRun =>
    /\ run.job \in JobsOf(run.doc)
    /\ run.at \notin Settled => status[run.job] = "processing"

\* Between the commit of the document's outcome and that of the job's, a
\* document that has become unfinished again has another job.
OtherJobWaits ==
  run # NoRun =>
    (/\ run.at \in Settling
     /\ row[run.doc] \in Unfinished /\ ~BeingEnqueued(run.doc)
     => \/ \E k \in JobsOf(run.doc) \ {run.job} : status[k] \notin Queue!Outcomes
        \/ Abandoned(run.doc))

JobInv == TypeOK /\ RunHoldsJob /\ OtherJobWaits /\ UnfinishedHasJob

\* A step of the run that leaves its job without an outcome may do to its
\* document what it likes.
LEMMA RunOn ==
  ASSUME JobInv, TypeOK',
         run # NoRun, run.at \notin Settling \cup Settled,
         run' # NoRun, run'.at \notin Settling \cup Settled,
         run'.doc = run.doc, run'.job = run.job,
         NEW s, row' = row \/ row' = WithRow(row, run.doc, s),
         UNCHANGED <<status, jobDoc, web>>,
         \A d \in Docs : Abandoned(d) => Abandoned(d)'
  PROVE  RunHoldsJob' /\ OtherJobWaits' /\ UnfinishedHasJob'
<1> USE DEF JobInv, JobsOf
<1>1. run.job \in JobsOf(run.doc) /\ status[run.job] = "processing"
  BY DEF RunHoldsJob
<1>2. RunHoldsJob'
  BY <1>1 DEF RunHoldsJob
<1>3. OtherJobWaits'
  BY DEF OtherJobWaits
<1>4. ASSUME NEW d \in Docs, row'[d] \in Unfinished, ~BeingEnqueued(d)'
      PROVE  \/ \E k \in JobsOf(d)' : status'[k] \notin Queue!Outcomes
             \/ Abandoned(d)'
  <2>1. CASE d = run.doc
    BY <1>1, <2>1 DEF Queue!Outcomes
  <2>2. CASE d # run.doc
    <3>1. row'[d] = row[d]
      BY <2>2 DEF WithRow, TypeOK
    <3>2. ~FailsNow(d) /\ ~BeingEnqueued(d)
      BY <1>4, <2>2 DEF FailsNow, BeingEnqueued
    <3> QED
      BY <1>4, <3>1, <3>2 DEF UnfinishedHasJob, Unfinished
  <2> QED
    BY <2>1, <2>2
<1> QED
  BY <1>2, <1>3, <1>4 DEF UnfinishedHasJob, Unfinished

\* A step beside the run that makes no document unfinished, but for the
\* handlers' that then enqueue a job.
LEMMA BesideRun ==
  ASSUME JobInv, UNCHANGED <<run, status, jobDoc, cut>>,
         \A d \in Docs : row'[d] \in Unfinished /\ ~BeingEnqueued(d)'
                           => row[d] \in Unfinished /\ ~BeingEnqueued(d)
  PROVE  RunHoldsJob' /\ OtherJobWaits' /\ UnfinishedHasJob'
<1> USE DEF JobInv, JobsOf, Abandoned
<1>1. RunHoldsJob'
  BY DEF RunHoldsJob
<1>2. OtherJobWaits'
  BY DEF OtherJobWaits, TypeOK, Runs
<1>3. UnfinishedHasJob'
  BY DEF UnfinishedHasJob, FailsNow, At, Unfinished
<1> QED
  BY <1>1, <1>2, <1>3

LEMMA JobsHeld == Spec => []JobInv
<1>1. Init => JobInv
  <2> SUFFICES ASSUME Init PROVE RunHoldsJob /\ OtherJobWaits /\ UnfinishedHasJob
    BY TypeInit DEF JobInv
  <2> QED
    BY DEF Init, RunHoldsJob, OtherJobWaits, UnfinishedHasJob
<1>2. JobInv /\ [Next]_vars => JobInv'
  <2> SUFFICES ASSUME JobInv, [Next]_vars
               PROVE  RunHoldsJob' /\ OtherJobWaits' /\ UnfinishedHasJob'
    BY TypeStep DEF JobInv
  <2> USE DEF docVars, diskVars, shareVars, jobVars, boundVars
  <2>t. TypeOK /\ TypeOK'
    BY TypeStep DEF JobInv
  <2> DEFINE Kept == RunHoldsJob' /\ OtherJobWaits' /\ UnfinishedHasJob'
  <2> HIDE DEF Kept
  <2>1. CASE UNCHANGED vars
    <3>1. \A d \in Docs : row'[d] \in Unfinished /\ ~BeingEnqueued(d)'
                            => row[d] \in Unfinished /\ ~BeingEnqueued(d)
      BY <2>1 DEF vars, BeingEnqueued
    <3> QED
      BY <2>1, <3>1, BesideRun DEF vars, Kept
  <2>2. ASSUME NEW d \in Docs, UploadStore(d) \/ DeleteRows(d) PROVE Kept
    <3>1. \A e \in Docs : row'[e] \in Unfinished /\ ~BeingEnqueued(e)'
                            => row[e] \in Unfinished /\ ~BeingEnqueued(e)
      BY <2>2, NoDocAssumption DEF UploadStore, DeleteRows, BeingEnqueued, NoWeb
    <3> QED
      BY <2>2, <3>1, BesideRun DEF UploadStore, DeleteRows, Kept
  <2>3. ASSUME NEW d \in Docs, Reprocess(d) PROVE Kept
    <3>1. \A e \in Docs : row'[e] \in Unfinished /\ ~BeingEnqueued(e)'
                            => row[e] \in Unfinished /\ ~BeingEnqueued(e)
      BY <2>3, <2>t, NoDocAssumption DEF Reprocess, BeingEnqueued, NoWeb, TypeOK
    <3> QED
      BY <2>3, <3>1, BesideRun DEF Reprocess, Kept
  <2>4. CASE CreateDoc
    <3>1. web' = [doc |-> web.doc, at |-> "enqueue"] /\ web.doc \in Docs
      BY <2>4, <2>t, WebThere DEF CreateDoc
    <3>2. \A e \in Docs : ~BeingEnqueued(e)
      BY <2>4 DEF CreateDoc, BeingEnqueued
    <3>3. \A e \in Docs : row'[e] \in Unfinished /\ ~BeingEnqueued(e)'
                            => row[e] \in Unfinished
      BY <2>4, <2>t, <3>1 DEF CreateDoc, BeingEnqueued, TypeOK
    <3> QED
      BY <2>4, <3>2, <3>3, BesideRun DEF CreateDoc, Kept
  <2>5. CASE DeleteDoc \/ UnlinkBook \/ RemoveDir
    <3>1. web' # [doc |-> web.doc, at |-> "enqueue"] /\ web.at # "enqueue"
      BY <2>5, <2>t, WebThere DEF DeleteDoc, UnlinkBook, RemoveDir, NoWeb
    <3>3. \A e \in Docs : row'[e] \in Unfinished => row[e] \in Unfinished
      BY <2>5, <2>t, WebThere
         DEF DeleteDoc, UnlinkBook, RemoveDir, TypeOK, Unfinished
    <3>4. \A e \in Docs : ~BeingEnqueued(e)
      BY <3>1 DEF BeingEnqueued
    <3> QED
      BY <2>5, <3>3, <3>4, BesideRun DEF DeleteDoc, UnlinkBook, RemoveDir, Kept
  <2>6. ASSUME NEW g \in Paths, GhostEnriches(g) PROVE Kept
    <3>1. \A d \in Docs : row'[d] \in Unfinished /\ ~BeingEnqueued(d)'
                            => row[d] \in Unfinished /\ ~BeingEnqueued(d)
      BY <2>6 DEF GhostEnriches, BeingEnqueued
    <3> QED
      BY <2>6, <3>1, BesideRun DEF GhostEnriches, Kept
  <2>7. CASE Enqueue
    <3>0. PICK w \in Docs : web = [doc |-> w, at |-> "enqueue"]
      BY <2>7, <2>t, WebThere DEF Enqueue
    <3>1. /\ jobDoc' = Append(jobDoc, w) /\ jobDoc \in Seq(Docs)
          /\ Len(jobDoc) + 1 \in Jobs /\ web' = NoWeb
          /\ status' = [status EXCEPT ![Len(jobDoc) + 1] = "queued"]
          /\ UNCHANGED <<row, run>>
      BY <2>7, <2>t, <3>0, BoundsAssumption
         DEF Enqueue, Queue!Submit, TypeOK, Jobs
    <3> DEFINE n == Len(jobDoc) + 1
    <3>2. n \in JobsOf(w)' /\ status'[n] \notin Queue!Outcomes
      <4>1. status'[n] = "queued"
        BY <3>1, <2>t DEF TypeOK
      <4>2. n \in 1 .. Len(jobDoc') /\ jobDoc'[n] = w
        BY <3>1
      <4> QED
        BY <4>1, <4>2 DEF JobsOf, Queue!Outcomes
    <3>3. ASSUME NEW d \in Docs, NEW k \in JobsOf(d)
          PROVE  k \in JobsOf(d)' /\ status'[k] = status[k] /\ k # n
      BY <3>1, <2>t DEF JobsOf, TypeOK
    <3>4. ASSUME NEW d \in Docs, d # w, Abandoned(d) PROVE Abandoned(d)'
      BY <2>7, <3>0, <3>4 DEF Enqueue, Abandoned
    <3>5. ASSUME NEW d \in Docs, d # w PROVE ~BeingEnqueued(d)
      BY <3>0, <3>5 DEF BeingEnqueued
    <3>6. RunHoldsJob'
      BY <2>t, <3>1, <3>3 DEF RunHoldsJob, JobInv, TypeOK, Runs
    <3> HIDE DEF n
    <3>7. ASSUME NEW d \in Docs, row'[d] \in Unfinished
          PROVE  \/ \E k \in JobsOf(d)' : status'[k] \notin Queue!Outcomes
                 \/ FailsNow(d)' \/ Abandoned(d)'
      <4>1. CASE d = w
        BY <3>2, <4>1
      <4>2. CASE d # w
        BY <3>1, <3>3, <3>4, <3>5, <3>7, <4>2
           DEF JobInv, UnfinishedHasJob, Unfinished, FailsNow, At
      <4> QED
        BY <4>1, <4>2
    <3>8. OtherJobWaits'
      <4> SUFFICES ASSUME run # NoRun, run.at \in Settling,
                          row[run.doc] \in Unfinished
                   PROVE  \/ \E k \in JobsOf(run.doc)' \ {run.job} :
                                status'[k] \notin Queue!Outcomes
                          \/ Abandoned(run.doc)'
        BY <3>1 DEF OtherJobWaits
      <4>1. PICK d \in Docs : d = run.doc /\ run.job \in JobsOf(d)
        BY <2>t DEF RunHoldsJob, JobInv, TypeOK, Runs
      <4>2. run' = run
        BY <3>1
      <4>3. CASE d = w
        <5>1. n # run.job
          BY <4>1, <3>3
        <5>2. n \in JobsOf(run.doc)' \ {run.job}
          BY <3>2, <4>1, <4>2, <4>3, <5>1
        <5> QED
          BY <3>2, <5>2
      <4>4. CASE d # w
        <5>1. \/ \E k \in JobsOf(d) \ {run.job} : status[k] \notin Queue!Outcomes
              \/ Abandoned(d)
          BY <3>5, <4>1, <4>4 DEF JobInv, OtherJobWaits
        <5>2. \/ \E k \in JobsOf(d)' \ {run.job} : status'[k] \notin Queue!Outcomes
              \/ Abandoned(d)'
          BY <3>3, <3>4, <4>4, <5>1
        <5> QED
          BY <4>1, <4>2, <5>2
      <4> QED
        BY <4>3, <4>4
    <3> QED
      BY <3>6, <3>7, <3>8 DEF UnfinishedHasJob, Kept, Unfinished
  <2>8. ASSUME NEW k \in Jobs, Claim(k) PROVE Kept
    <3>1. /\ k \in 1 .. Len(jobDoc) /\ run = NoRun /\ jobDoc[k] \in Docs
          /\ status' = [status EXCEPT ![k] = "processing"]
          /\ run' = [job |-> k, doc |-> jobDoc[k], at |-> "start", src |-> NoDoc,
                     got |-> {}, todo |-> {}, pending |-> {}]
          /\ UNCHANGED <<row, jobDoc, web, cut>>
      BY <2>8, <2>t DEF Claim, NextJobs, Queue!Take, TypeOK
    <3>2. RunHoldsJob'
      BY <3>1, <2>t DEF RunHoldsJob, JobsOf, TypeOK
    <3>3. OtherJobWaits'
      BY <3>1 DEF OtherJobWaits, Settling
    <3>4. \A j \in Jobs : status[j] \notin Queue!Outcomes
                            => status'[j] \notin Queue!Outcomes
      BY <3>1, <2>t DEF TypeOK, Queue!Outcomes
    <3>5. UnfinishedHasJob'
      <4>1. \A d \in Docs : JobsOf(d) \subseteq Jobs /\ JobsOf(d)' = JobsOf(d)
        BY <3>1, <2>t, BoundsAssumption DEF JobsOf, TypeOK, Jobs
      <4>2. \A d \in Docs : ~FailsNow(d)
        BY <3>1 DEF FailsNow, At
      <4> QED
        BY <3>1, <3>4, <4>1, <4>2
           DEF UnfinishedHasJob, JobInv, BeingEnqueued, Abandoned
    <3> QED
      BY <3>2, <3>3, <3>5 DEF Kept
  <2>9. CASE StartExtract \/ Tier \/ PlanEnrichment \/ EnrichEnds
    <3>1. run \in Runs /\ run # NoRun
          /\ run.at \in {"start", "tier", "plan", "enrich"}
      BY <2>9, <2>t, RunThere DEF StartExtract, Tier, PlanEnrichment, EnrichEnds
    <3>2. /\ run' # NoRun /\ run'.at \in {"extract", "plan", "enrich", "clear"}
          /\ run'.doc = run.doc /\ run'.job = run.job
      BY <2>9, <3>1, NoDocAssumption
         DEF StartExtract, Tier, PlanEnrichment, EnrichEnds, Goto, Runs, NoRun
    <3> QED
      BY <2>9, <2>t, <3>1, <3>2, RunOn
         DEF StartExtract, Tier, PlanEnrichment, EnrichEnds, Abandoned, Kept,
             Settling, Settled
  <2>10. CASE \/ Extract \/ MatchSharedBook \/ RemoveOwnDir \/ CopySourceDir
              \/ CopySourceRows \/ CopySourceMeta \/ LinkCopy \/ StageRaises
    <3>1. run \in Runs /\ run # NoRun /\ run.at \notin Settling \cup Settled
      <4>1. PICK stage \in CopyStages \cup
                   {"extract", "match", "copymeta", "copylink", "index"} : At(stage)
        BY <2>10
           DEF Extract, MatchSharedBook, RemoveOwnDir, CopySourceDir,
               CopySourceRows, CopySourceMeta, LinkCopy, StageRaises, CopyStages
      <4> QED
        BY <2>t, <4>1, RunThere DEF CopyStages, Settling, Settled
    <3>2. /\ run' # NoRun /\ run'.at \notin Settling \cup Settled
          /\ run'.doc = run.doc /\ run'.job = run.job
      BY <2>10, <3>1, NoDocAssumption
         DEF Extract, MatchSharedBook, RemoveOwnDir, CopySourceDir,
             CopySourceRows, CopySourceMeta, LinkCopy, StageRaises,
             Settling, Settled, Goto, Runs, NoRun
    <3> QED
      BY <2>10, <2>t, <3>1, <3>2, RunOn
         DEF Extract, MatchSharedBook, RemoveOwnDir, CopySourceDir,
             CopySourceRows, CopySourceMeta, LinkCopy, StageRaises,
             Abandoned, Kept
  <2>11. CASE TimesOut \/ ClearRows
    <3>1. run \in Runs /\ run # NoRun /\ run.at \notin Settling \cup Settled
      BY <2>11, <2>t, RunThere DEF TimesOut, ClearRows, Settling, Settled
    <3>2. /\ run' # NoRun /\ run'.at \notin Settling \cup Settled
          /\ run'.doc = run.doc /\ run'.job = run.job
      BY <2>11, <3>1, NoDocAssumption
         DEF TimesOut, ClearRows, Settling, Settled, Goto, Runs, NoRun
    <3>3. \A d \in Docs : Abandoned(d) => Abandoned(d)'
      BY <2>11 DEF TimesOut, ClearRows, Abandoned
    <3> QED
      BY <2>11, <2>t, <3>1, <3>2, <3>3, RunOn DEF TimesOut, ClearRows, Kept
  <2>12. ASSUME NEW l \in Leaves, EnrichLeaf(l) \/ CheckpointLeaf(l) \/ IndexLeaf(l)
         PROVE  Kept
    <3>1. run \in Runs /\ run # NoRun /\ run.at \notin Settling \cup Settled
      BY <2>12, <2>t, RunThere
         DEF EnrichLeaf, CheckpointLeaf, IndexLeaf, Settling, Settled
    <3>2. /\ run' # NoRun /\ run'.at \notin Settling \cup Settled
          /\ run'.doc = run.doc /\ run'.job = run.job
      BY <2>12, <3>1, NoDocAssumption
         DEF EnrichLeaf, CheckpointLeaf, IndexLeaf, Settling, Settled, Runs, NoRun
    <3> QED
      BY <2>12, <2>t, <3>1, <3>2, RunOn
         DEF EnrichLeaf, CheckpointLeaf, IndexLeaf, Abandoned, Kept
  <2>13. CASE CopyDone \/ DocDone \/ FailDoc
    <3>1. run \in Runs /\ run # NoRun /\ run.at \notin Settling \cup Settled
      BY <2>13, <2>t, RunThere DEF CopyDone, DocDone, FailDoc, Settling, Settled
    <3>2. PICK d \in Docs : d = run.doc
      BY <3>1 DEF Runs
    <3>3. /\ run' # NoRun /\ run'.at \in Settling
          /\ run'.doc = d /\ run'.job = run.job
      BY <2>13, <3>1, <3>2, NoDocAssumption
         DEF CopyDone, DocDone, FailDoc, Settling, Goto, Runs, NoRun
    <3>4. row'[d] \notin Unfinished /\ \A e \in Docs \ {d} : row'[e] = row[e]
      BY <2>13, <2>t, <3>2
         DEF CopyDone, DocDone, FailDoc, WithRow, RowExists, TypeOK, Unfinished
    <3>5. UNCHANGED <<status, jobDoc, web, cut>>
      BY <2>13 DEF CopyDone, DocDone, FailDoc
    <3>6. RunHoldsJob'
      BY <3>1, <3>2, <3>3, <3>5 DEF JobInv, RunHoldsJob, JobsOf, Settling, Settled
    <3>7. OtherJobWaits'
      BY <3>3, <3>4 DEF OtherJobWaits
    <3>8. UnfinishedHasJob'
      BY <3>1, <3>2, <3>4, <3>5
         DEF JobInv, UnfinishedHasJob, JobsOf, Unfinished, BeingEnqueued,
             FailsNow, At, Abandoned, Settled
    <3> QED
      BY <3>6, <3>7, <3>8 DEF Kept
  <2>14. CASE CopyComplete \/ CompleteJob \/ FailJob \/ FailTimedOutJob
    <3>1. /\ run \in Runs /\ run # NoRun
          /\ (run.at \in Settling \/ (FailTimedOutJob /\ run.at = "timedout"))
      <4>1. PICK stage \in Settling \cup {"timedout"} :
              At(stage) /\ (stage = "timedout" => FailTimedOutJob)
        BY <2>14
           DEF CopyComplete, CompleteJob, FailJob, FailTimedOutJob, Settling
      <4>2. run \in Runs /\ run # NoRun /\ run.at = stage
        BY <2>t, <4>1, RunThere
      <4> QED
        BY <4>1, <4>2
    <3>2. PICK d \in Docs : d = run.doc /\ run.job \in JobsOf(d)
      BY <3>1 DEF Runs, JobInv, RunHoldsJob
    <3>3. \/ run' = NoRun
          \/ /\ run' # NoRun /\ run'.doc = d /\ run'.job = run.job
             /\ \/ run'.at = "register"
                \/ run'.at = "timedoutdoc" /\ FailTimedOutJob
      BY <2>14, <3>1, <3>2, NoDocAssumption
         DEF CopyComplete, CompleteJob, FailJob, FailTimedOutJob, Goto, Runs, NoRun
    <3>4. UNCHANGED <<row, jobDoc, web, cut>>
      BY <2>14
         DEF CopyComplete, CompleteJob, FailJob, FailTimedOutJob, SettleJob
    <3>5. ASSUME NEW k \in Jobs, k # run.job PROVE status'[k] = status[k]
      BY <2>14, <2>t, <3>5
         DEF CopyComplete, CompleteJob, FailJob, FailTimedOutJob, SettleJob, TypeOK
    <3>6. RunHoldsJob'
      BY <3>2, <3>3, <3>4 DEF RunHoldsJob, JobsOf, Settled
    <3>7. OtherJobWaits'
      BY <3>3 DEF OtherJobWaits, Settling
    <3>8. \A e \in Docs : JobsOf(e) \subseteq Jobs /\ JobsOf(e)' = JobsOf(e)
      BY <2>t, <3>4, BoundsAssumption DEF JobsOf, TypeOK, Jobs
    <3>9. ASSUME NEW e \in Docs, e # d, NEW k \in JobsOf(e) PROVE k # run.job
      BY <3>2, <3>9 DEF JobsOf
    <3>10. ASSUME NEW e \in Docs, row'[e] \in Unfinished, ~BeingEnqueued(e)'
           PROVE  \/ \E k \in JobsOf(e)' : status'[k] \notin Queue!Outcomes
                  \/ FailsNow(e)' \/ Abandoned(e)'
      <4>1. row[e] \in Unfinished /\ ~BeingEnqueued(e)
            /\ (Abandoned(e) => Abandoned(e)')
        BY <3>4, <3>10 DEF BeingEnqueued, Abandoned
      <4>2. CASE e # d
        <5>1. ~FailsNow(e)
          BY <3>2, <4>2 DEF FailsNow
        <5>2. \/ \E k \in JobsOf(e) : status[k] \notin Queue!Outcomes
              \/ Abandoned(e)
          BY <4>1, <5>1 DEF JobInv, UnfinishedHasJob, Unfinished
        <5> QED
          BY <3>5, <3>8, <3>9, <4>1, <4>2, <5>2
      <4>3. CASE e = d /\ run.at \in Settling
        <5>1. \/ \E k \in JobsOf(d) \ {run.job} : status[k] \notin Queue!Outcomes
              \/ Abandoned(d)
          BY <3>1, <3>2, <4>1, <4>3 DEF JobInv, OtherJobWaits
        <5> QED
          BY <3>5, <3>8, <4>1, <4>3, <5>1
      <4>4. CASE e = d /\ run.at \notin Settling
        <5>1. run' # NoRun /\ run'.at = "timedoutdoc" /\ run'.doc = e
          BY <2>14, <2>t, <3>1, <3>2, <4>4, NoDocAssumption
             DEF FailTimedOutJob, Goto, Runs, NoRun
        <5> QED
          BY <5>1 DEF FailsNow, At
      <4> QED
        BY <4>2, <4>3, <4>4
    <3> QED
      BY <3>6, <3>7, <3>10 DEF UnfinishedHasJob, Kept, Unfinished
  <2>15. CASE RegisterBook \/ LinkBook
    <3>1. run \in Runs /\ run # NoRun /\ run.at \in {"register", "link"}
      BY <2>15, <2>t, RunThere DEF RegisterBook, LinkBook
    <3>2. \/ run' = NoRun
          \/ /\ run' # NoRun /\ run'.at = "link"
             /\ run'.doc = run.doc /\ run'.job = run.job
      BY <2>15, <3>1, NoDocAssumption
         DEF RegisterBook, LinkBook, Goto, Runs, NoRun
    <3>3. UNCHANGED <<row, status, jobDoc, web, cut>>
      BY <2>15 DEF RegisterBook, LinkBook
    <3>4. RunHoldsJob' /\ OtherJobWaits'
      BY <3>1, <3>2, <3>3
         DEF JobInv, RunHoldsJob, OtherJobWaits, JobsOf, Settling, Settled
    <3>5. UnfinishedHasJob'
      BY <3>1, <3>3
         DEF JobInv, UnfinishedHasJob, JobsOf, BeingEnqueued, FailsNow, At,
             Abandoned
    <3> QED
      BY <3>4, <3>5 DEF Kept
  <2>16. CASE FailTimedOutDoc
    <3>1. PICK d \in Docs : d = run.doc
      BY <2>16, <2>t, RunThere DEF FailTimedOutDoc
    <3>2. row'[d] \notin Unfinished /\ \A e \in Docs \ {d} : row'[e] = row[e]
      BY <2>16, <2>t, <3>1
         DEF FailTimedOutDoc, WithRow, RowExists, TypeOK, Unfinished
    <3>3. UNCHANGED <<status, jobDoc, web, cut>> /\ run' = NoRun
      BY <2>16 DEF FailTimedOutDoc
    <3>4. RunHoldsJob' /\ OtherJobWaits'
      BY <3>3 DEF RunHoldsJob, OtherJobWaits
    <3>5. UnfinishedHasJob'
      BY <3>1, <3>2, <3>3
         DEF JobInv, UnfinishedHasJob, JobsOf, Unfinished, BeingEnqueued,
             FailsNow, Abandoned
    <3> QED
      BY <3>4, <3>5 DEF Kept
  <2>17. CASE Crash
    <3>1. UNCHANGED <<row, status, jobDoc>> /\ run' = NoRun
      BY <2>17 DEF Crash
    <3>2. RunHoldsJob' /\ OtherJobWaits'
      BY <3>1 DEF RunHoldsJob, OtherJobWaits
    <3>3. ASSUME NEW d \in Docs, BeingEnqueued(d) \/ FailsNow(d) \/ Abandoned(d)
          PROVE  Abandoned(d)'
      <4>1. <<d, "enqueue">> \in Cuts /\ <<d, "timedoutdoc">> \in Cuts
        BY DEF Cuts
      <4>2. BeingEnqueued(d) => <<d, "enqueue">> \in cut'
        BY <2>17, <4>1 DEF Crash, BeingEnqueued
      <4>3. FailsNow(d) => <<d, "timedoutdoc">> \in cut'
        BY <2>17, <4>1 DEF Crash, FailsNow
      <4> QED
        BY <2>17, <3>3, <4>2, <4>3 DEF Abandoned, Crash
    <3>4. UnfinishedHasJob'
      BY <3>1, <3>3 DEF JobInv, UnfinishedHasJob, JobsOf, Unfinished
    <3> QED
      BY <3>2, <3>4 DEF Kept
  <2> QED
    BY <2>1, <2>2, <2>3, <2>4, <2>5, <2>6, <2>7, <2>8, <2>9, <2>10, <2>11,
       <2>12, <2>13, <2>14, <2>15, <2>16, <2>17, NextCases DEF Kept
<1> QED
  BY <1>1, <1>2, PTL DEF Spec

\* A document that is shown as queued or in progress has a job without an
\* outcome, but for the two places where a process end leaves it without one.
THEOREM NoneForgotten == Spec => []UnfinishedHasJob
<1>1. JobInv => UnfinishedHasJob
  BY DEF JobInv
<1> QED
  BY <1>1, JobsHeld, PTL

\* What the pipeline does to the jobs is what JobLifecycle allows, which is all
\* that JobQueue promises: run_job never settles a job it has not claimed, and
\* no handler submits a job twice.
THEOREM UsesLifecycle == Spec => Queue!Spec
<1>1. Init => Queue!Init
  BY DEF Init
<1>2. JobInv /\ [Next]_vars => [Queue!Next]_(Queue!lifecycleVars)
  <2> SUFFICES ASSUME JobInv, [Next]_vars
               PROVE  Queue!Next \/ UNCHANGED Queue!lifecycleVars
    OBVIOUS
  <2> USE DEF jobVars, Queue!lifecycleVars
  <2>1. TypeOK /\ RunHoldsJob
    BY DEF JobInv
  <2>2. CASE Enqueue
    <3>1. Len(jobDoc) + 1 \in Jobs /\ Queue!Submit(Len(jobDoc) + 1)
      BY <2>1, <2>2, BoundsAssumption DEF Enqueue, TypeOK, Jobs
    <3> QED
      BY <3>1 DEF Queue!Next
  <2>3. ASSUME NEW k \in Jobs, Claim(k) PROVE Queue!Next
    BY <2>3 DEF Claim, Queue!Next
  <2>4. CASE CopyComplete \/ CompleteJob \/ FailJob \/ FailTimedOutJob
    <3>1. run \in Runs /\ run # NoRun /\ run.at \notin Settled /\ run.job \in Jobs
      BY <2>1, <2>4, RunThere
         DEF CopyComplete, CompleteJob, FailJob, FailTimedOutJob, At, Settled
    <3>2. status[run.job] = "processing"
      BY <2>1, <3>1 DEF RunHoldsJob
    <3>3. \E outcome \in Queue!Outcomes : SettleJob(outcome)
      BY <2>4 DEF CopyComplete, CompleteJob, FailJob, FailTimedOutJob, Queue!Outcomes
    <3>4. Queue!Settle(run.job)
      BY <3>2, <3>3 DEF SettleJob, Queue!Settle
    <3> QED
      BY <3>1, <3>4 DEF Queue!Next
  <2>5. ASSUME NEW d \in Docs, UploadStore(d) \/ Reprocess(d) \/ DeleteRows(d)
        PROVE  UNCHANGED <<status, attempts>>
    BY <2>5 DEF UploadStore, Reprocess, DeleteRows
  <2>6. CASE CreateDoc \/ DeleteDoc \/ UnlinkBook \/ RemoveDir \/ Crash
    BY <2>6 DEF CreateDoc, DeleteDoc, UnlinkBook, RemoveDir, Crash
  <2>7. CASE \/ StartExtract \/ Extract \/ MatchSharedBook
             \/ RemoveOwnDir \/ CopySourceDir \/ CopySourceRows \/ CopySourceMeta
             \/ LinkCopy \/ CopyDone \/ Tier \/ PlanEnrichment \/ EnrichEnds
             \/ ClearRows \/ DocDone \/ RegisterBook \/ LinkBook
             \/ StageRaises \/ FailDoc \/ FailTimedOutDoc \/ TimesOut
    BY <2>7
       DEF StartExtract, Extract, MatchSharedBook, RemoveOwnDir, CopySourceDir,
           CopySourceRows, CopySourceMeta, LinkCopy, CopyDone, Tier,
           PlanEnrichment, EnrichEnds, ClearRows, DocDone, RegisterBook, LinkBook,
           StageRaises, FailDoc, FailTimedOutDoc, TimesOut
  <2>8. ASSUME NEW l \in Leaves, EnrichLeaf(l) \/ CheckpointLeaf(l) \/ IndexLeaf(l)
        PROVE  UNCHANGED <<status, attempts>>
    BY <2>8 DEF EnrichLeaf, CheckpointLeaf, IndexLeaf
  <2>9. ASSUME NEW g \in Paths, GhostEnriches(g)
        PROVE  UNCHANGED <<status, attempts>>
    BY <2>9 DEF GhostEnriches
  <2>10. CASE UNCHANGED vars
    BY <2>10 DEF vars
  <2> QED
    BY <2>2, <2>3, <2>4, <2>5, <2>6, <2>7, <2>8, <2>9, <2>10, NextCases
<1> QED
  BY <1>1, <1>2, JobsHeld, PTL DEF Spec, Queue!Spec
-------------------------------------------------------------------------------
(* The steps of the two threads on the rows of docs and queue_jobs.         *)

\* A run has claimed a job of the document.
Ran(d) == \E k \in JobsOf(d) : attempts[k] > 0

On(d) == run # NoRun /\ run.doc = d
OnAt(d, stages) == On(d) /\ run.at \in stages
Late == {"copycomplete", "complete", "register", "link"}

\* What the handlers know of the row they work on.
WebRow ==
  web # NoWeb =>
    /\ web.at = "row" => row[web.doc] = "none"
    /\ web.at \in {"unlink", "rmtree"} => row[web.doc] = "deleted"

\* A document that is claimed again is not processed once.
LEMMA ClaimsCount ==
  ASSUME TypeOK, [Next]_vars, NEW d \in Docs
  PROVE  /\ Ran(d) => Ran(d)'
         /\ Once(d)' => Once(d)
         /\ \A k \in Jobs : Claim(k) /\ jobDoc[k] = d =>
              Ran(d)' /\ (Once(d)' => ~Ran(d))
<1> USE DEF JobsOf
<1>1. ASSUME UNCHANGED <<attempts, jobDoc>>
      PROVE  (Ran(d)' <=> Ran(d)) /\ (Once(d)' <=> Once(d))
  BY <1>1 DEF Ran, Once
<1>2. ASSUME Enqueue
      PROVE  (Ran(d) => Ran(d)') /\ (Once(d)' => Once(d))
  <2>1. /\ jobDoc \in Seq(Docs) /\ jobDoc' = Append(jobDoc, web.doc)
        /\ attempts' = attempts
    BY <1>2 DEF Enqueue, Queue!Submit, TypeOK
  <2>2. \A k \in 1 .. Len(jobDoc) :
          k \in 1 .. Len(jobDoc') /\ jobDoc'[k] = jobDoc[k]
    BY <2>1
  <2>3. JobsOf(d) \subseteq JobsOf(d)'
    BY <2>2
  <2> QED
    BY <2>1, <2>3 DEF Ran, Once
<1>3. ASSUME NEW k \in Jobs, Claim(k)
      PROVE  /\ Ran(d) => Ran(d)'
             /\ Once(d)' => Once(d)
             /\ jobDoc[k] = d => Ran(d)' /\ (Once(d)' => ~Ran(d))
  <2>1. /\ attempts' = [attempts EXCEPT ![k] = @ + 1] /\ jobDoc' = jobDoc
        /\ k \in 1 .. Len(jobDoc)
    BY <1>3 DEF Claim, Queue!Take, NextJobs
  <2>2. \A i \in JobsOf(d) : i \in Jobs /\ attempts[i] \in Nat
    <3>1. MaxJobs \in Nat /\ Len(jobDoc) \in Nat /\ Len(jobDoc) <= MaxJobs
      BY BoundsAssumption DEF TypeOK
    <3>2. \A i \in JobsOf(d) : i \in Jobs
      BY <3>1 DEF Jobs
    <3>3. \A i \in Jobs : attempts[i] \in Nat
      BY BoundsAssumption DEF TypeOK
    <3> QED
      BY <3>2, <3>3
  <2>3. \A i \in JobsOf(d) :
          /\ i # k => attempts'[i] = attempts[i]
          /\ i = k => attempts'[i] = attempts[i] + 1
    BY <2>1, <2>2 DEF TypeOK
  <2>4. JobsOf(d)' = JobsOf(d)
    BY <2>1
  <2> HIDE DEF JobsOf
  <2>5. Ran(d) => Ran(d)'
    BY <2>2, <2>3, <2>4 DEF Ran
  <2>6. Once(d)' => Once(d)
    BY <2>2, <2>3, <2>4 DEF Once
  <2>7. ASSUME jobDoc[k] = d
        PROVE  Ran(d)' /\ (Once(d)' => ~Ran(d))
    <3>1. k \in JobsOf(d)
      BY <2>1, <2>7 DEF JobsOf
    <3>2. attempts'[k] = attempts[k] + 1 /\ attempts[k] \in Nat
      BY <2>2, <2>3, <3>1
    <3>3. Ran(d)'
      BY <2>4, <3>1, <3>2 DEF Ran
    <3>4. ASSUME Once(d)', NEW i \in JobsOf(d), attempts[i] > 0 PROVE FALSE
      <4>1. CASE i = k
        BY <2>4, <3>1, <3>2, <3>4, <4>1 DEF Once
      <4>2. CASE i # k
        BY <2>3, <2>4, <3>1, <3>2, <3>4, <4>2 DEF Once
      <4> QED
        BY <4>1, <4>2
    <3> QED
      BY <3>3, <3>4 DEF Ran
  <2> QED
    BY <2>5, <2>6, <2>7
<1>4. ASSUME NEW k \in Jobs, Claim(k) PROVE ~Enqueue /\ ~UNCHANGED vars
  <2>1. run = NoRun /\ run' # NoRun
    <3>1. jobDoc[k] \in Docs
      BY <1>4 DEF Claim, NextJobs, TypeOK
    <3> QED
      BY <1>4, <3>1, NoDocAssumption DEF Claim, NoRun
  <2> QED
    BY <2>1 DEF Enqueue, vars
<1>5. \/ UNCHANGED <<attempts, jobDoc>> \/ Enqueue
      \/ \E k \in Jobs : Claim(k)
  <2> USE DEF jobVars
  <2>1. CASE UNCHANGED vars
    BY <2>1 DEF vars
  <2>2. ASSUME NEW e \in Docs, UploadStore(e) \/ Reprocess(e) \/ DeleteRows(e)
        PROVE  UNCHANGED <<attempts, jobDoc>>
    BY <2>2 DEF UploadStore, Reprocess, DeleteRows
  <2>3. CASE CreateDoc \/ DeleteDoc \/ UnlinkBook \/ RemoveDir
    BY <2>3 DEF CreateDoc, DeleteDoc, UnlinkBook, RemoveDir
  <2>4. CASE \/ StartExtract \/ Extract \/ MatchSharedBook
             \/ RemoveOwnDir \/ CopySourceDir \/ CopySourceRows \/ CopySourceMeta
             \/ LinkCopy \/ CopyDone
    BY <2>4 DEF StartExtract, Extract, MatchSharedBook, RemoveOwnDir,
                CopySourceDir, CopySourceRows, CopySourceMeta, LinkCopy, CopyDone
  <2>5. CASE \/ CopyComplete \/ CompleteJob \/ FailJob \/ FailTimedOutJob
    BY <2>5 DEF CopyComplete, CompleteJob, FailJob, FailTimedOutJob, SettleJob
  <2>6. CASE Tier \/ PlanEnrichment \/ EnrichEnds \/ ClearRows \/ DocDone
             \/ RegisterBook \/ LinkBook \/ StageRaises \/ FailDoc
             \/ FailTimedOutDoc \/ TimesOut \/ Crash
    BY <2>6 DEF Tier, PlanEnrichment, EnrichEnds, ClearRows, DocDone,
                RegisterBook, LinkBook, StageRaises, FailDoc, FailTimedOutDoc,
                TimesOut, Crash
  <2>7. ASSUME NEW l \in Leaves, EnrichLeaf(l) \/ CheckpointLeaf(l) \/ IndexLeaf(l)
        PROVE  UNCHANGED <<attempts, jobDoc>>
    BY <2>7 DEF EnrichLeaf, CheckpointLeaf, IndexLeaf
  <2>8. ASSUME NEW g \in Paths, GhostEnriches(g)
        PROVE  UNCHANGED <<attempts, jobDoc>>
    BY <2>8 DEF GhostEnriches
  <2> QED
    BY <2>1, <2>2, <2>3, <2>4, <2>5, <2>6, <2>7, <2>8, NextCases
<1>6. CASE UNCHANGED <<attempts, jobDoc>>
  <2>1. ~\E k \in Jobs : Claim(k)
    <3>1. ASSUME NEW k \in Jobs, Claim(k) PROVE FALSE
      <4>1. attempts[k] \in Nat /\ attempts' = [attempts EXCEPT ![k] = @ + 1]
        BY <3>1, BoundsAssumption DEF TypeOK, Claim, Queue!Take
      <4>2. attempts'[k] = attempts[k] + 1
        BY <4>1 DEF TypeOK
      <4> QED
        BY <1>6, <4>1, <4>2
    <3> QED
      BY <3>1
  <2> QED
    BY <1>1, <1>6, <2>1
<1>7. CASE Enqueue
  BY <1>2, <1>4, <1>7
<1>8. CASE \E k \in Jobs : Claim(k)
  BY <1>3, <1>8
<1> QED
  BY <1>5, <1>6, <1>7, <1>8

\* The rows of docs: the run's UPDATEs find only rows that are there.
LEMMA RunRows ==
  ASSUME TypeOK, NEW d \in Docs, NEW e \in Docs,
         NEW s \in RowStates \ {"none", "deleted"},
         row' = WithRow(row, e, s)
  PROVE  /\ row'[d] = "none" <=> row[d] = "none"
         /\ row'[d] = "deleted" <=> row[d] = "deleted"
         /\ row'[d] = "done" => row[d] = "done" \/ (d = e /\ s = "done")
         /\ d = e /\ s # "done" => row'[d] # "done"
  BY DEF TypeOK, WithRow, RowExists

LEMMA WebRowStep ==
  ASSUME TypeOK, WebRow, [Next]_vars
  PROVE  WebRow'
<1> USE DEF docVars, diskVars, shareVars, jobVars, boundVars
<1>1. ASSUME UNCHANGED web,
             \A d \in Docs : /\ row[d] = "none" => row'[d] = "none"
                             /\ row[d] = "deleted" => row'[d] = "deleted"
      PROVE  WebRow'
  BY <1>1, WebThere DEF WebRow
<1>2. CASE UNCHANGED vars
  BY <1>1, <1>2 DEF vars
<1>3. ASSUME NEW d \in Docs, UploadStore(d) \/ Reprocess(d) \/ DeleteRows(d)
      PROVE  WebRow'
  BY <1>3 DEF UploadStore, Reprocess, DeleteRows, WebRow
<1>4. CASE CreateDoc \/ DeleteDoc \/ UnlinkBook \/ RemoveDir \/ Enqueue \/ Crash
  BY <1>4, WebThere
     DEF CreateDoc, DeleteDoc, UnlinkBook, RemoveDir, Enqueue, Crash, WebRow, TypeOK
<1>5. ASSUME NEW k \in Jobs, Claim(k) PROVE WebRow'
  BY <1>1, <1>5 DEF Claim
<1>6. CASE \/ Extract \/ MatchSharedBook \/ RemoveOwnDir \/ CopySourceDir
           \/ CopySourceRows \/ CopySourceMeta \/ LinkCopy \/ CopyComplete
           \/ ClearRows \/ CompleteJob \/ RegisterBook \/ LinkBook \/ StageRaises
           \/ FailJob \/ FailTimedOutJob \/ TimesOut
  BY <1>1, <1>6
     DEF Extract, MatchSharedBook, RemoveOwnDir, CopySourceDir, CopySourceRows,
         CopySourceMeta, LinkCopy, CopyComplete, ClearRows, CompleteJob,
         RegisterBook, LinkBook, StageRaises, FailJob, FailTimedOutJob, TimesOut
<1>7. ASSUME NEW l \in Leaves, EnrichLeaf(l) \/ CheckpointLeaf(l) \/ IndexLeaf(l)
      PROVE  WebRow'
  BY <1>1, <1>7 DEF EnrichLeaf, CheckpointLeaf, IndexLeaf
<1>8. ASSUME NEW g \in Paths, GhostEnriches(g) PROVE WebRow'
  BY <1>1, <1>8 DEF GhostEnriches
<1>9. CASE \/ StartExtract \/ CopyDone \/ Tier \/ PlanEnrichment \/ EnrichEnds
           \/ DocDone \/ FailDoc \/ FailTimedOutDoc
  <2>1. web' = web /\ \E s \in {"working", "done", "failed"} :
          row' = WithRow(row, run.doc, s)
    BY <1>9 DEF StartExtract, CopyDone, Tier, PlanEnrichment, EnrichEnds, DocDone,
                FailDoc, FailTimedOutDoc
  <2>2. run.doc \in Docs
    <3>1. \E stage : At(stage)
      BY <1>9 DEF StartExtract, CopyDone, Tier, PlanEnrichment, EnrichEnds, DocDone,
                  FailDoc, FailTimedOutDoc
    <3> QED
      BY <3>1, RunThere
  <2>3. \A d \in Docs : /\ row[d] = "none" => row'[d] = "none"
                        /\ row[d] = "deleted" => row'[d] = "deleted"
    BY <2>1, <2>2, RunRows DEF RowStates
  <2> QED
    BY <1>1, <2>1, <2>3
<1> QED
  BY <1>2, <1>3, <1>4, <1>5, <1>6, <1>7, <1>8, <1>9, NextCases

\* What becomes of a row, whatever the step.
LEMMA RowSteps ==
  ASSUME TypeOK, WebRow, [Next]_vars, NEW d \in Docs
  PROVE  /\ row[d] = "deleted" => row'[d] = "deleted"
         /\ row'[d] = "none" => row[d] = "none"
         /\ row'[d] = "done" => row[d] = "done" \/ (On(d) /\ (CopyDone \/ DocDone))
         /\ BeingDeleted(d) => BeingDeleted(d)' \/ row'[d] = "deleted" \/ Crash
<1> USE DEF docVars, diskVars, shareVars, jobVars, boundVars
<1> DEFINE Goal ==
      /\ row[d] = "deleted" => row'[d] = "deleted"
      /\ row'[d] = "none" => row[d] = "none"
      /\ row'[d] = "done" => row[d] = "done" \/ (On(d) /\ (CopyDone \/ DocDone))
      /\ BeingDeleted(d) => BeingDeleted(d)' \/ row'[d] = "deleted" \/ Crash
<1> SUFFICES Goal
  OBVIOUS
<1>1. ASSUME UNCHANGED <<row, web>> PROVE Goal
  BY <1>1 DEF BeingDeleted
<1>2. CASE UNCHANGED vars
  BY <1>1, <1>2 DEF vars
<1>3. ASSUME NEW e \in Docs, UploadStore(e) \/ Reprocess(e) \/ DeleteRows(e)
      PROVE  Goal
  <2>1. ~BeingDeleted(d)
    BY <1>3, NoDocAssumption DEF UploadStore, Reprocess, DeleteRows, BeingDeleted, NoWeb
  <2> QED
    BY <1>3, <2>1 DEF UploadStore, Reprocess, DeleteRows, TypeOK, RowExists
<1>4. CASE CreateDoc \/ DeleteDoc \/ UnlinkBook \/ RemoveDir \/ Enqueue
  BY <1>4, WebThere
     DEF CreateDoc, DeleteDoc, UnlinkBook, RemoveDir, Enqueue, WebRow, TypeOK,
         BeingDeleted
<1>5. CASE Crash
  BY <1>5 DEF Crash
<1>6. ASSUME NEW k \in Jobs, Claim(k) PROVE Goal
  BY <1>1, <1>6 DEF Claim
<1>7. CASE \/ Extract \/ MatchSharedBook \/ RemoveOwnDir \/ CopySourceDir
           \/ CopySourceRows \/ CopySourceMeta \/ LinkCopy \/ CopyComplete
           \/ ClearRows \/ CompleteJob \/ RegisterBook \/ LinkBook \/ StageRaises
           \/ FailJob \/ FailTimedOutJob \/ TimesOut
  BY <1>1, <1>7
     DEF Extract, MatchSharedBook, RemoveOwnDir, CopySourceDir, CopySourceRows,
         CopySourceMeta, LinkCopy, CopyComplete, ClearRows, CompleteJob,
         RegisterBook, LinkBook, StageRaises, FailJob, FailTimedOutJob, TimesOut
<1>8. ASSUME NEW l \in Leaves, EnrichLeaf(l) \/ CheckpointLeaf(l) \/ IndexLeaf(l)
      PROVE  Goal
  BY <1>1, <1>8 DEF EnrichLeaf, CheckpointLeaf, IndexLeaf
<1>9. ASSUME NEW g \in Paths, GhostEnriches(g) PROVE Goal
  BY <1>1, <1>9 DEF GhostEnriches
<1>10. CASE \/ StartExtract \/ CopyDone \/ Tier \/ PlanEnrichment \/ EnrichEnds
            \/ DocDone \/ FailDoc \/ FailTimedOutDoc
  <2>1. /\ web' = web
        /\ \E s \in {"working", "done", "failed"} :
             /\ row' = WithRow(row, run.doc, s)
             /\ s = "done" => CopyDone \/ DocDone
    BY <1>10 DEF StartExtract, CopyDone, Tier, PlanEnrichment, EnrichEnds, DocDone,
                 FailDoc, FailTimedOutDoc
  <2>2. run.doc \in Docs /\ run # NoRun
    <3>1. \E stage : At(stage)
      BY <1>10 DEF StartExtract, CopyDone, Tier, PlanEnrichment, EnrichEnds,
                   DocDone, FailDoc, FailTimedOutDoc
    <3> QED
      BY <3>1, RunThere
  <2> QED
    BY <2>1, <2>2, RunRows DEF RowStates, On, BeingDeleted
<1> HIDE DEF Goal
<1> QED
  BY <1>2, <1>3, <1>4, <1>5, <1>6, <1>7, <1>8, <1>9, <1>10, NextCases

\* A document is claimed, and linked, after its row is there.
RowFirst ==
  /\ \A d \in Docs :
       row[d] = "none" => JobsOf(d) = {} /\ ~On(d) /\ linked[d] = 0
  /\ web # NoWeb /\ web.at = "enqueue" => row[web.doc] # "none"

\* The links of the other documents, when one is linked or unlinked.
LEMMA LinksOfOthers ==
  ASSUME TypeOK, NEW d \in Docs, NEW e \in Docs, e # d
  PROVE  /\ Unlinked(d)[e] > 0 <=> linked[e] > 0
         /\ LinkUserBook(d) => (linked'[e] > 0 <=> linked[e] > 0)
<1>1. linked[e] \in Nat /\ linked[d] \in Nat
  BY DEF TypeOK
<1>2. Unlinked(d)[e] > 0 <=> linked[e] > 0
  BY <1>1 DEF Unlinked
<1>3. LinkUserBook(d) => linked'[e] = Unlinked(d)[e]
  BY DEF LinkUserBook, Unlinked
<1> QED
  BY <1>2, <1>3

LEMMA RowFirstStep ==
  ASSUME TypeOK, WebRow, RowFirst, [Next]_vars
  PROVE  RowFirst'
<1> USE DEF docVars, diskVars, shareVars, jobVars, boundVars
<1>0. \A d \in Docs : row'[d] = "none" => row[d] = "none"
  BY RowSteps
\* Steps that claim, link and enqueue nothing.
<1>1. ASSUME jobDoc' = jobDoc,
             run' = run \/ run' = NoRun \/ (run'.doc = run.doc /\ run # NoRun),
             \A d \in Docs : row[d] = "none" /\ linked[d] = 0 => linked'[d] = 0,
             web' = web \/ web' = NoWeb \/ web'.at # "enqueue"
      PROVE  RowFirst'
  <2>1. \A d \in Docs : JobsOf(d)' = JobsOf(d)
    BY <1>1 DEF JobsOf
  <2>2. \A d \in Docs : On(d)' => On(d)
    BY <1>1 DEF On
  <2>3. web' # NoWeb /\ web'.at = "enqueue" => row'[web'.doc] # "none"
    BY <1>0, <1>1, WebThere DEF RowFirst
  <2> QED
    BY <1>0, <1>1, <2>1, <2>2, <2>3 DEF RowFirst
<1>2. CASE UNCHANGED vars
  BY <1>1, <1>2 DEF vars
<1>3. ASSUME NEW d \in Docs, UploadStore(d) \/ DeleteRows(d)
      PROVE  RowFirst'
  BY <1>1, <1>3 DEF UploadStore, DeleteRows
<1>4. CASE CreateDoc \/ \E d \in Docs : Reprocess(d)
  <2>1. /\ UNCHANGED <<jobDoc, run, linked>>
        /\ web'.doc \in Docs /\ row'[web'.doc] # "none"
    <3>1. CASE CreateDoc
      BY <3>1, WebThere DEF CreateDoc, TypeOK
    <3>2. ASSUME NEW d \in Docs, Reprocess(d)
          PROVE  /\ UNCHANGED <<jobDoc, run, linked>>
                 /\ web'.doc \in Docs /\ row'[web'.doc] # "none"
      BY <3>2 DEF Reprocess, TypeOK
    <3> QED
      BY <1>4, <3>1, <3>2
  <2> QED
    BY <1>0, <2>1 DEF RowFirst, JobsOf, On
<1>5. CASE Enqueue
  <2>1. PICK w \in Docs : /\ row[w] # "none" /\ row' = row /\ web' = NoWeb
                          /\ jobDoc' = Append(jobDoc, w) /\ jobDoc \in Seq(Docs)
                          /\ UNCHANGED <<run, linked>>
    BY <1>5, WebThere DEF Enqueue, RowFirst, TypeOK
  <2>2. \A d \in Docs \ {w} : JobsOf(d)' = JobsOf(d)
    BY <2>1 DEF JobsOf
  <2> QED
    BY <2>1, <2>2 DEF RowFirst, On
<1>6. CASE DeleteDoc \/ RemoveDir
  BY <1>1, <1>6, WebThere DEF DeleteDoc, RemoveDir
<1>7. CASE UnlinkBook
  <2>1. web.doc \in Docs /\ web'.at # "enqueue" /\ UNCHANGED <<jobDoc, run>>
    BY <1>7, WebThere DEF UnlinkBook
  <2>2. \A d \in Docs : linked[d] = 0 => linked'[d] = 0
    <3> SUFFICES ASSUME NEW d \in Docs, linked[d] = 0 PROVE linked'[d] = 0
      OBVIOUS
    <3>1. linked[web.doc] \in Nat
      BY <2>1 DEF TypeOK
    <3>2. Unlinked(web.doc)[d] = 0
      BY <3>1 DEF Unlinked
    <3> QED
      BY <1>7, <3>2 DEF UnlinkBook
  <2> QED
    BY <1>1, <2>1, <2>2
<1>8. ASSUME NEW k \in Jobs, Claim(k) PROVE RowFirst'
  <2>1. /\ UNCHANGED <<row, web, linked, jobDoc>> /\ run'.doc = jobDoc[k]
        /\ k \in 1 .. Len(jobDoc)
    BY <1>8 DEF Claim, NextJobs
  <2>2. \A d \in Docs : JobsOf(d)' = JobsOf(d) /\ (run'.doc = d => k \in JobsOf(d))
    BY <2>1 DEF JobsOf
  <2> QED
    BY <2>1, <2>2 DEF RowFirst, On
<1>9. CASE LinkCopy \/ LinkBook
  <2>1. /\ run.doc \in Docs /\ run # NoRun /\ LinkUserBook(run.doc)
        /\ UNCHANGED <<jobDoc, web>> /\ (run' = NoRun \/ run'.doc = run.doc)
    <3>1. \E stage : At(stage)
      BY <1>9 DEF LinkCopy, LinkBook
    <3> QED
      BY <1>9, <3>1, RunThere DEF LinkCopy, LinkBook, Goto, Runs
  <2>2. row[run.doc] # "none"
    BY <2>1 DEF RowFirst, On
  <2>3. \A d \in Docs : row[d] = "none" /\ linked[d] = 0 => linked'[d] = 0
    <3> SUFFICES ASSUME NEW d \in Docs, row[d] = "none", linked[d] = 0
                 PROVE  linked'[d] = 0
      OBVIOUS
    <3>1. linked[run.doc] \in Nat /\ d # run.doc
      BY <2>1, <2>2 DEF TypeOK
    <3>2. Unlinked(run.doc)[d] = 0
      BY <3>1 DEF Unlinked
    <3>3. linked'[d] = Unlinked(run.doc)[d]
      BY <2>1, <3>1 DEF LinkUserBook, Unlinked
    <3> QED
      BY <3>2, <3>3
  <2> QED
    BY <1>1, <2>1, <2>3
<1>10. CASE \/ StartExtract \/ Extract \/ MatchSharedBook
            \/ RemoveOwnDir \/ CopySourceDir \/ CopySourceRows \/ CopySourceMeta
            \/ CopyDone \/ CopyComplete
            \/ Tier \/ PlanEnrichment \/ EnrichEnds \/ ClearRows
            \/ \E l \in Leaves : EnrichLeaf(l) \/ CheckpointLeaf(l) \/ IndexLeaf(l)
            \/ DocDone \/ CompleteJob \/ RegisterBook
            \/ StageRaises \/ FailDoc \/ FailJob
            \/ FailTimedOutJob \/ FailTimedOutDoc \/ TimesOut
  <2>1. (\E stage : At(stage)) /\ UNCHANGED <<jobDoc, web, linked>>
    BY <1>10
       DEF StartExtract, Extract, MatchSharedBook, RemoveOwnDir, CopySourceDir,
           CopySourceRows, CopySourceMeta, CopyDone, CopyComplete, Tier,
           PlanEnrichment, EnrichEnds, ClearRows, EnrichLeaf, CheckpointLeaf,
           IndexLeaf, DocDone, CompleteJob, RegisterBook, StageRaises, FailDoc,
           FailJob, FailTimedOutJob, FailTimedOutDoc, TimesOut, SettleJob
  <2>2. run \in Runs /\ run # NoRun
    BY <2>1, RunThere
  <2>3. run' = NoRun \/ run'.doc = run.doc
    BY <1>10, <2>2
       DEF StartExtract, Extract, MatchSharedBook, RemoveOwnDir, CopySourceDir,
           CopySourceRows, CopySourceMeta, CopyDone, CopyComplete, Tier,
           PlanEnrichment, EnrichEnds, ClearRows, EnrichLeaf, CheckpointLeaf,
           IndexLeaf, DocDone, CompleteJob, RegisterBook, StageRaises, FailDoc,
           FailJob, FailTimedOutJob, FailTimedOutDoc, TimesOut, Goto, Runs
  <2> QED
    BY <1>1, <2>1, <2>2, <2>3
<1>11. ASSUME NEW g \in Paths, GhostEnriches(g) PROVE RowFirst'
  BY <1>1, <1>11 DEF GhostEnriches
<1>12. CASE Crash
  BY <1>1, <1>12 DEF Crash
<1> QED
  BY <1>2, <1>3, <1>4, <1>5, <1>6, <1>7, <1>8, <1>9, <1>10, <1>11, <1>12, NextCases

\* A document that is deleted, or was interrupted, owes nobody its rows.
HasRows(d) == \A l \in Leaves : RowCount(d, l) > 0
Served(d) == HasRows(d) \/ Incomplete(d)

\* A directory has a file for every section, once it has been filled.
Full(d) == \A l \in Leaves : files[d][l] # "absent"
Whole(d) == DirExists(d) => Full(d)

Copied == {"copymeta", "copylink", "copydone", "copycomplete"}
Made == {"complete", "register", "link"}
Filled == {"copyrows", "plan", "enrich", "clear", "index"} \cup Copied \cup Made

\* What is copied is another user's document of the same book, complete or
\* lost.
SourceIs ==
  run # NoRun /\ run.at \in CopyStages =>
    /\ Hash[run.src] = Hash[run.doc] /\ Owner[run.src] # Owner[run.doc]
    /\ row[run.src] # "none" /\ Whole(run.src) /\ Served(run.src)

NotDone(d) == On(d) /\ run.at \notin Late \cup {"start"} => row[d] # "done"

DirIs(d) ==
  /\ linked[d] > 0 => Whole(d)
  /\ row[d] = "done" => Full(d)
  /\ OnAt(d, Filled) => Whole(d) /\ (row[d] # "deleted" => Full(d))

RowsAre(d) ==
  /\ row[d] = "done" \/ linked[d] > 0 => Served(d) \/ OnAt(d, {"index"})
  /\ OnAt(d, Copied \cup Made) => Served(d)
  /\ OnAt(d, {"index"}) =>
       \A l \in Leaves \ run.todo : RowCount(d, l) > 0 \/ Incomplete(d)

SearchInv(d) == NotDone(d) /\ DirIs(d) /\ RowsAre(d)

ShareInv ==
  /\ TypeOK /\ WebRow /\ RowFirst /\ SourceIs
  /\ \A d \in Docs : SearchInv(d)

\* What a step leaves of a document it does not work on.
Kept(d) ==
  /\ row[d] # "none" /\ Whole(d) => Whole(d)'
  /\ Full(d) => Full(d)' \/ row'[d] = "deleted"
  /\ Served(d) => Served(d)'
  /\ \A l \in Leaves : RowCount(d, l) > 0 => RowCount(d, l)' > 0 \/ Incomplete(d)'
  /\ Incomplete(d) => Incomplete(d)'
  /\ linked'[d] > 0 => linked[d] > 0

\* Only the run that fills the index of a document completes it.
LEMMA IncompleteStays ==
  ASSUME TypeOK, WebRow, [Next]_vars, NEW d \in Docs, Incomplete(d),
         d \in partial => d \in partial'
  PROVE  Incomplete(d)'
<1>1. CASE row[d] = "deleted" \/ d \in partial
  BY <1>1, RowSteps DEF Incomplete
<1>2. CASE BeingDeleted(d)
  <2>1. CASE Crash
    BY <1>2, <2>1 DEF Crash, Incomplete
  <2> QED
    BY <1>2, <2>1, RowSteps DEF Incomplete
<1> QED
  BY <1>1, <1>2 DEF Incomplete

\* The directory and the rows of a document that nothing has touched.
LEMMA KeptAsIs ==
  ASSUME TypeOK, WebRow, [Next]_vars, NEW d \in Docs,
         files'[d] = files[d], pdf'[d] = pdf[d], fts'[d] = fts[d],
         linked'[d] > 0 => linked[d] > 0, d \in partial => d \in partial'
  PROVE  Kept(d)
<1>1. Full(d)' <=> Full(d)
  BY DEF Full
<1>2. Whole(d)' <=> Whole(d)
  BY <1>1 DEF Whole, DirExists
<1>3. \A l \in Leaves : RowCount(d, l)' = RowCount(d, l)
  BY DEF RowCount
<1>4. Incomplete(d) => Incomplete(d)'
  BY IncompleteStays
<1>5. Served(d) => Served(d)'
  BY <1>3, <1>4 DEF Served, HasRows
<1> QED
  BY <1>1, <1>2, <1>3, <1>4, <1>5 DEF Kept

LEMMA WebKeeps ==
  ASSUME TypeOK, TypeOK', WebRow, [Next]_vars,
         NEW d \in Docs,
         \/ UNCHANGED vars
         \/ \E e \in Docs : UploadStore(e) \/ Reprocess(e) \/ DeleteRows(e)
         \/ CreateDoc \/ Enqueue \/ DeleteDoc \/ UnlinkBook \/ RemoveDir
         \/ \E g \in Paths : GhostEnriches(g)
         \/ (\E k \in Jobs : Claim(k)) \/ Crash
  PROVE  Kept(d)
<1> USE DEF docVars, diskVars, shareVars, jobVars, boundVars
<1>0. (d \in partial => d \in partial') /\ (Incomplete(d) => Incomplete(d)')
  <2>1. d \in partial => d \in partial'
    BY DEF vars, UploadStore, Reprocess, DeleteRows, CreateDoc, Enqueue, DeleteDoc,
           UnlinkBook, RemoveDir, GhostEnriches, Claim, Crash
  <2> QED
    BY <2>1, IncompleteStays
<1>1. ASSUME UNCHANGED <<files, pdf, fts, linked>> PROVE Kept(d)
  BY <1>0, <1>1, KeptAsIs
<1>2. CASE UNCHANGED vars
  BY <1>1, <1>2 DEF vars
<1>3. ASSUME NEW e \in Docs, UploadStore(e) PROVE Kept(d)
  <2>1. CASE d # e
    <3>1. /\ files'[d] = files[d] /\ pdf'[d] = pdf[d] /\ fts'[d] = fts[d]
          /\ linked' = linked
      BY <1>3, <2>1 DEF UploadStore, TypeOK
    <3> QED
      BY <1>0, <3>1, KeptAsIs
  <2>2. CASE d = e
    <3>1. row[d] = "none" /\ UNCHANGED <<files, fts, linked>>
      BY <1>3, <2>2 DEF UploadStore
    <3>2. Full(d)' <=> Full(d)
      BY <3>1 DEF Full
    <3>3. \A l \in Leaves : RowCount(d, l)' = RowCount(d, l)
      BY <3>1 DEF RowCount
    <3>4. Served(d) => Served(d)'
      BY <1>0, <3>3 DEF Served, HasRows
    <3> QED
      BY <1>0, <3>1, <3>2, <3>3, <3>4 DEF Kept
  <2> QED
    BY <2>1, <2>2
<1>4. ASSUME NEW e \in Docs, Reprocess(e) PROVE Kept(d)
  BY <1>1, <1>4 DEF Reprocess
<1>5. ASSUME NEW e \in Docs, DeleteRows(e) PROVE Kept(d)
  <2>1. CASE d # e
    <3>1. /\ files'[d] = files[d] /\ pdf'[d] = pdf[d] /\ fts'[d] = fts[d]
          /\ linked' = linked
      BY <1>5, <2>1 DEF DeleteRows, TypeOK
    <3> QED
      BY <1>0, <3>1, KeptAsIs
  <2>2. CASE d = e
    <3>1. Incomplete(d)' /\ UNCHANGED <<files, pdf, linked>>
      BY <1>5, <2>2 DEF DeleteRows, Incomplete, BeingDeleted
    <3>2. (Full(d)' <=> Full(d)) /\ (Whole(d)' <=> Whole(d))
      BY <3>1 DEF Full, Whole, DirExists
    <3>3. Served(d)'
      BY <3>1 DEF Served
    <3> QED
      BY <1>0, <3>1, <3>2, <3>3 DEF Kept
  <2> QED
    BY <2>1, <2>2
<1>6. CASE CreateDoc \/ Enqueue \/ DeleteDoc
  BY <1>1, <1>6 DEF CreateDoc, Enqueue, DeleteDoc
<1>7. CASE UnlinkBook
  <2>1. UNCHANGED <<files, pdf, fts>> /\ web.doc \in Docs
    BY <1>7, WebThere DEF UnlinkBook
  <2>2. linked'[d] > 0 => linked[d] > 0
    <3>1. CASE linked' = linked
      BY <3>1
    <3>2. CASE linked' = Unlinked(web.doc) /\ d # web.doc
      BY <2>1, <3>2, LinksOfOthers
    <3>3. CASE linked' = Unlinked(web.doc) /\ d = web.doc
      BY <3>3 DEF Unlinked
    <3> QED
      BY <1>7, <3>1, <3>2, <3>3 DEF UnlinkBook
  <2> QED
    BY <1>0, <2>1, <2>2, KeptAsIs
<1>8. CASE RemoveDir
  <2>1. CASE d # web.doc
    <3>1. /\ files'[d] = files[d] /\ pdf'[d] = pdf[d] /\ fts'[d] = fts[d]
          /\ linked' = linked
      BY <1>8, <2>1 DEF RemoveDir, TypeOK
    <3> QED
      BY <1>0, <3>1, KeptAsIs
  <2>2. CASE d = web.doc
    <3>1. /\ row'[d] = "deleted" /\ ~pdf'[d] /\ files'[d] = NoFiles
          /\ UNCHANGED <<fts, linked>>
      BY <1>8, <2>2 DEF RemoveDir, WebRow, TypeOK
    <3>2. Whole(d)'
      BY <3>1 DEF Whole, DirExists, NoFiles
    <3>3. Incomplete(d)' /\ Served(d)'
      BY <3>1 DEF Incomplete, Served
    <3> QED
      BY <1>0, <3>1, <3>2, <3>3 DEF Kept
  <2> QED
    BY <2>1, <2>2
<1>9. ASSUME NEW g \in Paths, GhostEnriches(g) PROVE Kept(d)
  <2>1. UNCHANGED <<pdf, fts, linked>>
    BY <1>9 DEF GhostEnriches
  <2>2. \A l \in Leaves : files'[d][l] = "absent" <=> files[d][l] = "absent"
    <3>1. /\ g[1] \in Docs /\ g[2] \in Leaves
          /\ \/ files' = files
             \/ /\ files[g[1]][g[2]] # "absent"
                /\ files' = [files EXCEPT ![g[1]][g[2]] = "rich"]
      BY <1>9 DEF GhostEnriches, WriteFrontmatter, Paths
    <3>2. CASE files' = files
      BY <3>2
    <3>3. CASE /\ files[g[1]][g[2]] # "absent"
               /\ files' = [files EXCEPT ![g[1]][g[2]] = "rich"]
      BY <3>1, <3>3 DEF TypeOK
    <3> QED
      BY <3>1, <3>2, <3>3
  <2>3. (Full(d)' <=> Full(d)) /\ (Whole(d)' <=> Whole(d))
    BY <2>1, <2>2 DEF Full, Whole, DirExists
  <2>4. \A l \in Leaves : RowCount(d, l)' = RowCount(d, l)
    BY <2>1 DEF RowCount
  <2>5. Served(d) => Served(d)'
    BY <1>0, <2>4 DEF Served, HasRows
  <2> QED
    BY <1>0, <2>1, <2>3, <2>4, <2>5 DEF Kept
<1>10. CASE (\E k \in Jobs : Claim(k)) \/ Crash
  BY <1>1, <1>10 DEF Claim, Crash
<1> QED
  BY <1>2, <1>3, <1>4, <1>5, <1>6, <1>7, <1>8, <1>9, <1>10

RunSteps ==
  \/ StartExtract \/ Extract \/ MatchSharedBook
  \/ RemoveOwnDir \/ CopySourceDir \/ CopySourceRows \/ CopySourceMeta
  \/ LinkCopy \/ CopyDone \/ CopyComplete
  \/ Tier \/ PlanEnrichment \/ EnrichEnds \/ ClearRows
  \/ \E l \in Leaves : EnrichLeaf(l) \/ CheckpointLeaf(l) \/ IndexLeaf(l)
  \/ DocDone \/ CompleteJob \/ RegisterBook \/ LinkBook
  \/ StageRaises \/ FailDoc \/ FailJob
  \/ FailTimedOutJob \/ FailTimedOutDoc \/ TimesOut

LEMMA RunKeeps ==
  ASSUME TypeOK, TypeOK', WebRow, [Next]_vars,
         NEW d \in Docs, RunSteps, run.doc # d
  PROVE  /\ Kept(d) /\ row'[d] = row[d] /\ ~On(d)'
         /\ fts'[d] = fts[d] /\ files'[d] = files[d] /\ pdf'[d] = pdf[d]
<1> USE DEF RunSteps, docVars, diskVars, shareVars, jobVars, boundVars
<1>1. run \in Runs /\ run # NoRun /\ run.doc \in Docs
  <2>1. \E stage : At(stage)
    BY DEF StartExtract, Extract, MatchSharedBook, RemoveOwnDir,
           CopySourceDir, CopySourceRows, CopySourceMeta, LinkCopy, CopyDone,
           CopyComplete, Tier, PlanEnrichment, EnrichEnds, ClearRows, EnrichLeaf,
           CheckpointLeaf, IndexLeaf, DocDone, CompleteJob, RegisterBook,
           LinkBook, StageRaises, FailDoc, FailJob, FailTimedOutJob,
           FailTimedOutDoc, TimesOut
  <2> QED
    BY <2>1, RunThere
<1>2. ~On(d)'
  BY <1>1
     DEF StartExtract, Extract, MatchSharedBook, RemoveOwnDir,
         CopySourceDir, CopySourceRows, CopySourceMeta, LinkCopy, CopyDone,
         CopyComplete, Tier, PlanEnrichment, EnrichEnds, ClearRows, EnrichLeaf,
         CheckpointLeaf, IndexLeaf, DocDone, CompleteJob, RegisterBook,
         LinkBook, StageRaises, FailDoc, FailJob, FailTimedOutJob,
         FailTimedOutDoc, TimesOut, Goto, Runs, On
<1>3. row'[d] = row[d]
  BY <1>1
     DEF StartExtract, Extract, MatchSharedBook, RemoveOwnDir,
         CopySourceDir, CopySourceRows, CopySourceMeta, LinkCopy, CopyDone,
         CopyComplete, Tier, PlanEnrichment, EnrichEnds, ClearRows, EnrichLeaf,
         CheckpointLeaf, IndexLeaf, DocDone, CompleteJob, RegisterBook,
         LinkBook, StageRaises, FailDoc, FailJob, FailTimedOutJob,
         FailTimedOutDoc, TimesOut, WithRow, TypeOK
<1>4. files'[d] = files[d] /\ pdf'[d] = pdf[d]
  BY <1>1
     DEF StartExtract, Extract, MatchSharedBook, RemoveOwnDir,
         CopySourceDir, CopySourceRows, CopySourceMeta, LinkCopy, CopyDone,
         CopyComplete, Tier, PlanEnrichment, EnrichEnds, ClearRows, EnrichLeaf,
         CheckpointLeaf, IndexLeaf, DocDone, CompleteJob, RegisterBook,
         LinkBook, StageRaises, FailDoc, FailJob, FailTimedOutJob,
         FailTimedOutDoc, TimesOut, WriteFrontmatter, Tiered, TypeOK
<1>5. fts'[d] = fts[d]
  BY <1>1
     DEF StartExtract, Extract, MatchSharedBook, RemoveOwnDir,
         CopySourceDir, CopySourceRows, CopySourceMeta, LinkCopy, CopyDone,
         CopyComplete, Tier, PlanEnrichment, EnrichEnds, ClearRows, EnrichLeaf,
         CheckpointLeaf, IndexLeaf, DocDone, CompleteJob, RegisterBook,
         LinkBook, StageRaises, FailDoc, FailJob, FailTimedOutJob,
         FailTimedOutDoc, TimesOut, TypeOK
<1>6. linked'[d] > 0 => linked[d] > 0
  <2>1. linked' = linked \/ LinkUserBook(run.doc)
    BY DEF StartExtract, Extract, MatchSharedBook, RemoveOwnDir,
         CopySourceDir, CopySourceRows, CopySourceMeta, LinkCopy, CopyDone,
         CopyComplete, Tier, PlanEnrichment, EnrichEnds, ClearRows, EnrichLeaf,
         CheckpointLeaf, IndexLeaf, DocDone, CompleteJob, RegisterBook,
         LinkBook, StageRaises, FailDoc, FailJob, FailTimedOutJob,
         FailTimedOutDoc, TimesOut
  <2> QED
    BY <1>1, <2>1, LinksOfOthers
<1>7. d \in partial => d \in partial'
  BY DEF StartExtract, Extract, MatchSharedBook, RemoveOwnDir, CopySourceDir,
         CopySourceRows, CopySourceMeta, LinkCopy, CopyDone, CopyComplete, Tier,
         PlanEnrichment, EnrichEnds, ClearRows, EnrichLeaf, CheckpointLeaf,
         IndexLeaf, DocDone, CompleteJob, RegisterBook, LinkBook, StageRaises,
         FailDoc, FailJob, FailTimedOutJob, FailTimedOutDoc, TimesOut
<1> QED
  BY <1>2, <1>3, <1>4, <1>5, <1>6, <1>7, KeptAsIs

LEMMA SearchBeside ==
  ASSUME ShareInv, [Next]_vars, NEW d \in Docs, Kept(d),
         row'[d] = "done" => row[d] = "done",
         On(d)' => run' = run \/ (run = NoRun /\ run'.at = "start"),
         On(d) => run' = run
  PROVE  SearchInv(d)'
<1>1. TypeOK /\ WebRow /\ RowFirst /\ SearchInv(d)
  BY DEF ShareInv
<1>2. /\ row[d] = "deleted" => row'[d] = "deleted"
      /\ Incomplete(d) => Incomplete(d)'
  BY <1>1, RowSteps DEF Kept
<1>3. linked[d] > 0 \/ On(d) => row[d] # "none"
  BY <1>1 DEF RowFirst, TypeOK
<1>4. \A stages \in {Filled, Copied \cup Made, {"index"}} :
        OnAt(d, stages)' => OnAt(d, stages) /\ run' = run
  BY DEF OnAt, On, Filled, Copied, Made
<1>5. NotDone(d)'
  BY <1>1 DEF SearchInv, NotDone, On, Late
<1>6. DirIs(d)'
  <2>1. linked'[d] > 0 => Whole(d)'
    BY <1>1, <1>3 DEF SearchInv, DirIs, Kept
  <2>2. row'[d] = "done" => Full(d)'
    BY <1>1 DEF SearchInv, DirIs, Kept
  <2>3. OnAt(d, Filled)' => Whole(d)' /\ (row'[d] # "deleted" => Full(d)')
    BY <1>1, <1>2, <1>3, <1>4 DEF SearchInv, DirIs, Kept, OnAt
  <2> QED
    BY <2>1, <2>2, <2>3 DEF DirIs
<1>7. RowsAre(d)'
  <2>1. OnAt(d, {"index"}) => OnAt(d, {"index"})'
    BY DEF OnAt, On
  <2>2. row'[d] = "done" \/ linked'[d] > 0 => Served(d)' \/ OnAt(d, {"index"})'
    BY <1>1, <2>1 DEF SearchInv, RowsAre, Kept
  <2>3. OnAt(d, Copied \cup Made)' => Served(d)'
    BY <1>1, <1>4 DEF SearchInv, RowsAre, Kept
  <2>4. OnAt(d, {"index"})' =>
          \A l \in Leaves \ run'.todo : RowCount(d, l)' > 0 \/ Incomplete(d)'
    BY <1>1, <1>2, <1>4 DEF SearchInv, RowsAre, Kept
  <2> QED
    BY <2>2, <2>3, <2>4 DEF RowsAre
<1> QED
  BY <1>5, <1>6, <1>7 DEF SearchInv

\* The source of a copy is what it was found to be, whatever the others do.
LEMMA SourceStays ==
  ASSUME ShareInv, [Next]_vars, SourceIs, run # NoRun,
         run.at \in CopyStages, Kept(run.src),
         run' # NoRun, run'.src = run.src, run'.doc = run.doc
  PROVE  SourceIs'
<1>1. TypeOK /\ WebRow /\ run.src \in Docs
  BY DEF ShareInv, TypeOK
<1>2. row'[run.src] # "none"
  BY <1>1, RowSteps DEF SourceIs
<1>3. Whole(run.src)' /\ Served(run.src)'
  <2>1. PICK s \in Docs : s = run.src
    BY <1>1
  <2>2. Whole(s)' /\ Served(s)'
    BY <2>1 DEF SourceIs, Kept
  <2>3. s = run'.src
    BY <2>1
  <2> QED
    BY <2>2, <2>3 DEF Whole, Full, DirExists, Served, HasRows, RowCount, Incomplete,
                      BeingDeleted
<1> QED
  BY <1>2, <1>3 DEF SourceIs

LEMMA SourceStep ==
  ASSUME ShareInv, TypeOK', [Next]_vars
  PROVE  SourceIs'
<1> USE DEF docVars, diskVars, shareVars, jobVars, boundVars
<1>0. TypeOK /\ WebRow /\ RowFirst /\ SourceIs
  BY DEF ShareInv
<1>1. ASSUME run' = NoRun \/ run'.at \notin CopyStages PROVE SourceIs'
  BY <1>1 DEF SourceIs
<1>2. ASSUME run' = run, \A d \in Docs : Kept(d) PROVE SourceIs'
  <2>1. CASE run # NoRun /\ run.at \in CopyStages
    <3>1. run.src \in Docs
      BY <1>0, <2>1 DEF TypeOK
    <3> QED
      BY <1>0, <1>2, <2>1, <3>1, SourceStays
  <2>2. CASE run = NoRun \/ run.at \notin CopyStages
    BY <1>1, <1>2, <2>2
  <2> QED
    BY <2>1, <2>2
<1>3. CASE \/ UNCHANGED vars
           \/ \E e \in Docs : UploadStore(e) \/ Reprocess(e) \/ DeleteRows(e)
           \/ CreateDoc \/ Enqueue \/ DeleteDoc \/ UnlinkBook \/ RemoveDir
           \/ \E g \in Paths : GhostEnriches(g)
  <2>1. run' = run
    BY <1>3 DEF vars, UploadStore, Reprocess, DeleteRows, CreateDoc, Enqueue,
                DeleteDoc, UnlinkBook, RemoveDir, GhostEnriches
  <2>2. \A d \in Docs : Kept(d)
    BY <1>0, <1>3, WebKeeps
  <2> QED
    BY <1>2, <2>1, <2>2
<1>4. ASSUME NEW k \in Jobs, Claim(k) PROVE SourceIs'
  BY <1>1, <1>4 DEF Claim, CopyStages
<1>5. CASE MatchSharedBook
  <2>1. run \in Runs /\ run # NoRun /\ run.doc \in Docs /\ run.at = "match"
    BY <1>0, <1>5, RunThere DEF MatchSharedBook, At
  <2>2. CASE Goto("tier")
    BY <1>1, <2>1, <2>2 DEF Goto, CopyStages, Runs
  <2>3. ASSUME NEW s \in Sources(run.doc),
               run' = [run EXCEPT !.at = "remove", !.src = s]
        PROVE  SourceIs'
    <3>1. /\ s \in Docs /\ linked[s] > 0 /\ Hash[s] = Hash[run.doc]
          /\ Owner[s] # Owner[run.doc]
      BY <2>3 DEF Sources, Earliest, Linked
    <3>2. /\ run'.src = s /\ run'.doc = run.doc
          /\ UNCHANGED <<row, checkpoint, fts, pdf, files, registered, linked,
                         web, partial>>
      BY <1>5, <2>1, <2>3 DEF MatchSharedBook, Runs
    <3>3. Whole(s) /\ Served(s) /\ row[s] # "none"
      BY <1>0, <2>1, <3>1
         DEF ShareInv, SearchInv, DirIs, RowsAre, OnAt, RowFirst, TypeOK
    <3>4. Whole(s)' /\ Served(s)' /\ row'[s] # "none"
      BY <3>2, <3>3 DEF Whole, Full, DirExists, Served, HasRows, RowCount,
                        Incomplete, BeingDeleted
    <3> QED
      BY <3>1, <3>2, <3>4 DEF SourceIs, Whole, Full, DirExists, Served, HasRows,
                              RowCount, Incomplete, BeingDeleted
  <2> QED
    BY <1>5, <2>2, <2>3 DEF MatchSharedBook
<1>6. CASE RemoveOwnDir \/ CopySourceDir
  <2>1. /\ run \in Runs /\ run # NoRun /\ run.at \in CopyStages
        /\ run.src \in Docs /\ run.src # run.doc
    <3>1. run \in Runs /\ run # NoRun /\ run.at \in CopyStages
      BY <1>0, <1>6, RunThere DEF RemoveOwnDir, CopySourceDir, At, CopyStages
    <3> QED
      BY <1>0, <3>1 DEF SourceIs, TypeOK
  <2>2. Kept(run.src)
    BY <1>0, <1>6, <2>1, RunKeeps DEF RunSteps
  <2>3. run'.src = run.src /\ run'.doc = run.doc
    BY <1>6, <2>1 DEF RemoveOwnDir, CopySourceDir, Goto, Runs
  <2>4. run' # NoRun
    BY <2>1, <2>3, NoDocAssumption DEF Runs, NoRun
  <2> QED
    BY <1>0, <2>1, <2>2, <2>3, <2>4, SourceStays
<1>7. CASE \/ StartExtract \/ Extract \/ CopySourceRows \/ CopySourceMeta
           \/ LinkCopy \/ CopyDone \/ CopyComplete
           \/ Tier \/ PlanEnrichment \/ EnrichEnds \/ ClearRows
           \/ \E l \in Leaves : EnrichLeaf(l) \/ CheckpointLeaf(l) \/ IndexLeaf(l)
           \/ DocDone \/ CompleteJob \/ RegisterBook \/ LinkBook
           \/ StageRaises \/ FailDoc \/ FailJob
           \/ FailTimedOutJob \/ FailTimedOutDoc \/ TimesOut
  <2>1. run \in Runs
    <3>1. \E stage : At(stage)
      BY <1>7
         DEF StartExtract, Extract, CopySourceRows, CopySourceMeta, LinkCopy,
             CopyDone, CopyComplete, Tier, PlanEnrichment, EnrichEnds, ClearRows,
             EnrichLeaf, CheckpointLeaf, IndexLeaf, DocDone, CompleteJob,
             RegisterBook, LinkBook, StageRaises, FailDoc, FailJob,
             FailTimedOutJob, FailTimedOutDoc, TimesOut
    <3> QED
      BY <1>0, <3>1, RunThere
  <2>2. run' = NoRun \/ run'.at \notin CopyStages
    BY <1>7, <2>1
       DEF StartExtract, Extract, CopySourceRows, CopySourceMeta, LinkCopy,
           CopyDone, CopyComplete, Tier, PlanEnrichment, EnrichEnds, ClearRows,
           EnrichLeaf, CheckpointLeaf, IndexLeaf, DocDone, CompleteJob,
           RegisterBook, LinkBook, StageRaises, FailDoc, FailJob,
           FailTimedOutJob, FailTimedOutDoc, TimesOut, At, Goto, Runs, CopyStages
  <2> QED
    BY <1>1, <2>2
<1>8. CASE Crash
  BY <1>1, <1>8 DEF Crash
<1> QED
  BY <1>3, <1>4, <1>5, <1>6, <1>7, <1>8, NextCases

\* Most steps of the run on its own document: they empty no directory and drop
\* no row.
LEMMA SearchGoesOn ==
  ASSUME ShareInv, [Next]_vars, NEW d \in Docs, On(d),
         Full(d) => Full(d)', Whole(d) => Whole(d)', HasRows(d) => HasRows(d)',
         linked'[d] > 0 => linked[d] > 0, d \in partial => d \in partial',
         row'[d] = "done" => row[d] = "done" /\ run.at # "start",
         run' = NoRun \/ (run' # NoRun /\ run'.doc = run.doc),
         run' # NoRun =>
           /\ run'.at \in Filled => run.at \in Filled \/ Full(d)'
           /\ run'.at \in Copied \cup Made => run.at \in Copied \cup Made
           /\ run.at \in Late => run'.at \in Late
           /\ run'.at # "index",
         run.at = "index" => Incomplete(d)
  PROVE  SearchInv(d)'
<1>1. TypeOK /\ WebRow /\ RowFirst /\ SearchInv(d)
  BY DEF ShareInv
<1>2. row[d] = "deleted" => row'[d] = "deleted"
  BY <1>1, RowSteps
<1>3. Served(d) => Served(d)'
  BY <1>1, IncompleteStays DEF Served
<1>4. OnAt(d, {"index"}) => Served(d)
  BY DEF OnAt, Served
<1>5. NotDone(d)'
  BY <1>1 DEF SearchInv, NotDone, On
<1>6. DirIs(d)'
  <2>1. OnAt(d, Filled)' => OnAt(d, Filled) \/ Full(d)'
    BY DEF OnAt, On
  <2>2. Full(d)' => Whole(d)'
    BY DEF Whole
  <2>3. OnAt(d, Filled)' => Whole(d)' /\ (row'[d] # "deleted" => Full(d)')
    BY <1>1, <1>2, <2>1, <2>2 DEF SearchInv, DirIs
  <2>4. (linked'[d] > 0 => Whole(d)') /\ (row'[d] = "done" => Full(d)')
    BY <1>1 DEF SearchInv, DirIs
  <2> QED
    BY <2>3, <2>4 DEF DirIs
<1>7. RowsAre(d)'
  <2>1. row'[d] = "done" \/ linked'[d] > 0 => Served(d)'
    BY <1>1, <1>3, <1>4 DEF SearchInv, RowsAre
  <2>2. OnAt(d, Copied \cup Made)' => Served(d)'
    BY <1>1, <1>3 DEF SearchInv, RowsAre, OnAt, On
  <2>3. ~OnAt(d, {"index"})'
    BY DEF OnAt, On
  <2> QED
    BY <2>1, <2>2, <2>3 DEF RowsAre
<1> QED
  BY <1>5, <1>6, <1>7 DEF SearchInv

\* What the plain steps of the run leave of its document.
LEMMA SearchPlain ==
  ASSUME ShareInv, TypeOK', [Next]_vars, NEW d \in Docs, On(d),
         \/ StartExtract \/ Extract \/ MatchSharedBook \/ CopySourceMeta
         \/ CopyComplete \/ Tier \/ PlanEnrichment \/ EnrichEnds
         \/ \E l \in Leaves : EnrichLeaf(l) \/ CheckpointLeaf(l)
         \/ CompleteJob \/ RegisterBook
         \/ StageRaises \/ FailDoc \/ FailJob
         \/ FailTimedOutJob \/ FailTimedOutDoc \/ TimesOut
  PROVE  SearchInv(d)'
<1> USE DEF docVars, diskVars, shareVars, jobVars, boundVars
<1>0. /\ TypeOK /\ SearchInv(d) /\ run.doc = d /\ run \in Runs /\ run # NoRun
      /\ run.at \in Stages
  BY DEF ShareInv, TypeOK, On, Runs
<1>1. UNCHANGED <<fts, pdf, linked, partial>>
  BY DEF StartExtract, Extract, MatchSharedBook, CopySourceMeta, CopyComplete, Tier,
         PlanEnrichment, EnrichEnds, EnrichLeaf, CheckpointLeaf, CompleteJob,
         RegisterBook, StageRaises, FailDoc, FailJob, FailTimedOutJob,
         FailTimedOutDoc, TimesOut
<1>2. HasRows(d) => HasRows(d)'
  BY <1>1 DEF HasRows, RowCount
<1>3. \/ \A l \in Leaves : files'[d][l] = "absent" <=> files[d][l] = "absent"
      \/ \A l \in Leaves : files'[d][l] # "absent"
  <2>1. ASSUME NEW l \in Leaves, EnrichLeaf(l)
        PROVE  \A m \in Leaves : files'[d][m] = "absent" <=> files[d][m] = "absent"
    <3>1. \/ files' = files
          \/ files[d][l] # "absent" /\ files' = [files EXCEPT ![d][l] = "rich"]
      BY <1>0, <2>1 DEF EnrichLeaf, WriteFrontmatter
    <3>2. CASE files' = files
      BY <3>2
    <3>3. CASE files[d][l] # "absent" /\ files' = [files EXCEPT ![d][l] = "rich"]
      BY <1>0, <3>3 DEF TypeOK
    <3> QED
      BY <3>1, <3>2, <3>3
  <2>2. ASSUME files' = Tiered(run.doc)
        PROVE  \A l \in Leaves : files'[d][l] # "absent"
    BY <1>0, <2>2 DEF Tiered, TypeOK
  <2>3. files' = files \/ files' = Tiered(run.doc) \/ \E l \in Leaves : EnrichLeaf(l)
    BY DEF StartExtract, Extract, MatchSharedBook, CopySourceMeta, CopyComplete,
           Tier, PlanEnrichment, EnrichEnds, CheckpointLeaf, CompleteJob,
           RegisterBook, StageRaises, FailDoc, FailJob, FailTimedOutJob,
           FailTimedOutDoc, TimesOut
  <2> QED
    BY <2>1, <2>2, <2>3
<1>4. (Full(d) => Full(d)') /\ (Whole(d) => Whole(d)')
  BY <1>1, <1>3 DEF Full, Whole, DirExists
<1>5. row'[d] = "done" => row[d] = "done" /\ run.at # "start"
  <2>1. row' = row \/ \E s \in {"working", "failed"} : row' = WithRow(row, run.doc, s)
    BY DEF StartExtract, Extract, MatchSharedBook, CopySourceMeta, CopyComplete,
           Tier, PlanEnrichment, EnrichEnds, EnrichLeaf, CheckpointLeaf,
           CompleteJob, RegisterBook, StageRaises, FailDoc, FailJob,
           FailTimedOutJob, FailTimedOutDoc, TimesOut
  <2>2. run.at = "start" => row' = WithRow(row, run.doc, "working")
    BY DEF StartExtract, Extract, MatchSharedBook, CopySourceMeta, CopyComplete,
           Tier, PlanEnrichment, EnrichEnds, EnrichLeaf, CheckpointLeaf,
           CompleteJob, RegisterBook, StageRaises, FailDoc, FailJob,
           FailTimedOutJob, FailTimedOutDoc, TimesOut, At
  <2> QED
    BY <1>0, <2>1, <2>2, RunRows DEF RowStates
<1>6. run' = NoRun \/ (run' # NoRun /\ run'.doc = run.doc)
  BY <1>0
     DEF StartExtract, Extract, MatchSharedBook, CopySourceMeta, CopyComplete,
         Tier, PlanEnrichment, EnrichEnds, EnrichLeaf, CheckpointLeaf,
         CompleteJob, RegisterBook, StageRaises, FailDoc, FailJob,
         FailTimedOutJob, FailTimedOutDoc, TimesOut, Goto, Runs
<1>7. run.at = "index" => Incomplete(d)
  <2>1. run.at = "index" => \E l \in Leaves : files[d][l] = "absent"
    BY <1>0
       DEF StartExtract, Extract, MatchSharedBook, CopySourceMeta, CopyComplete,
           Tier, PlanEnrichment, EnrichEnds, EnrichLeaf, CheckpointLeaf,
           CompleteJob, RegisterBook, StageRaises, FailDoc, FailJob,
           FailTimedOutJob, FailTimedOutDoc, TimesOut, At, Runs
  <2> QED
    BY <1>0, <2>1 DEF SearchInv, DirIs, OnAt, Full, Filled, Incomplete
<1>8. ASSUME run' # NoRun
      PROVE  /\ run'.at \in Filled => run.at \in Filled \/ Full(d)'
             /\ run'.at \in Copied \cup Made => run.at \in Copied \cup Made
             /\ run.at \in Late => run'.at \in Late
             /\ run'.at # "index"
  <2> DEFINE Step(from, to) == run.at = from /\ run'.at = to
  <2>1. CASE Tier
    <3>1. Step("tier", "plan") /\ Full(d)'
      BY <1>0, <2>1 DEF Tier, Tiered, At, Goto, Runs, Full, TypeOK
    <3> QED
      BY <3>1 DEF Copied, Made, Late
  <2>2. \/ Tier
        \/ run'.at \in {"extract", "match", "tier", "remove", "failing", "failjob",
                        "timedout", "timedoutdoc"} /\ run.at \notin Late
        \/ Step("copymeta", "copylink") \/ Step("plan", "enrich")
        \/ Step("enrich", "enrich") \/ Step("enrich", "clear")
        \/ Step("complete", "register") \/ Step("register", "link")
    <3>1. CASE StartExtract \/ Extract \/ MatchSharedBook
      BY <1>0, <3>1 DEF StartExtract, Extract, MatchSharedBook, At, Goto, Runs, Late
    <3>2. CASE CopySourceMeta \/ PlanEnrichment \/ EnrichEnds
               \/ CompleteJob \/ RegisterBook
      BY <1>0, <3>2
         DEF CopySourceMeta, PlanEnrichment, EnrichEnds, CompleteJob, RegisterBook,
             At, Goto, Runs
    <3>3. ASSUME NEW l \in Leaves, EnrichLeaf(l) \/ CheckpointLeaf(l)
          PROVE  Step("enrich", "enrich")
      BY <1>0, <3>3 DEF EnrichLeaf, CheckpointLeaf, At, Runs
    <3>4. CASE StageRaises \/ FailDoc \/ FailTimedOutJob \/ TimesOut
      BY <1>0, <3>4
         DEF StageRaises, FailDoc, FailTimedOutJob, TimesOut, At, Goto, Runs, Late
    <3> QED
      BY <1>8, <3>1, <3>2, <3>3, <3>4
         DEF CopyComplete, FailJob, FailTimedOutDoc
  <2> QED
    BY <2>1, <2>2 DEF Filled, Copied, Made, Late
<1> QED
  BY <1>1, <1>2, <1>4, <1>5, <1>6, <1>7, <1>8, SearchGoesOn

\* The steps that fill and empty the directory and the index.
LEMMA SearchFills ==
  ASSUME ShareInv, TypeOK', [Next]_vars, NEW d \in Docs, On(d),
         \/ RemoveOwnDir \/ CopySourceDir \/ CopySourceRows \/ LinkCopy \/ CopyDone
         \/ ClearRows \/ DocDone \/ LinkBook
         \/ \E l \in Leaves : IndexLeaf(l)
  PROVE  SearchInv(d)'
<1> USE DEF docVars, diskVars, shareVars, jobVars, boundVars
<1>0. /\ TypeOK /\ WebRow /\ RowFirst /\ SourceIs /\ SearchInv(d)
      /\ run.doc = d /\ run \in Runs /\ run # NoRun
  BY DEF ShareInv, TypeOK, On, Runs
<1>1. /\ row[d] = "deleted" => row'[d] = "deleted"
      /\ UNCHANGED partial => (Incomplete(d) => Incomplete(d)')
  BY <1>0, RowSteps, IncompleteStays
<1>2. CASE RemoveOwnDir
  <2>1. /\ run.at = "remove" /\ run'.at = "copytree"
        /\ UNCHANGED <<row, fts, linked, partial>>
        /\ ~pdf'[d] /\ files'[d] = NoFiles
    BY <1>0, <1>2 DEF RemoveOwnDir, At, Goto, Runs, TypeOK
  <2>2. Whole(d)' /\ row[d] # "done"
    BY <1>0, <2>1 DEF Whole, DirExists, NoFiles, SearchInv, NotDone, On, Late
  <2>3. NotDone(d)' /\ DirIs(d)'
    BY <2>1, <2>2 DEF NotDone, DirIs, OnAt, Filled, Copied, Made
  <2>4. HasRows(d) => HasRows(d)'
    BY <2>1 DEF HasRows, RowCount
  <2>5. RowsAre(d)'
    BY <1>0, <1>1, <2>1, <2>2, <2>4
       DEF SearchInv, RowsAre, OnAt, Copied, Made, Served
  <2> QED
    BY <2>3, <2>5 DEF SearchInv
<1>3. CASE CopySourceDir
  <2>1. /\ run.at = "copytree" /\ run'.at = "copyrows" /\ DirExists(run.src)
        /\ UNCHANGED <<row, fts, linked, partial>> /\ run.src \in Docs
        /\ files'[d] = files[run.src]
    BY <1>0, <1>3, SourceThere DEF CopySourceDir, CopyStages, At, Goto, Runs, TypeOK
  <2>2. Full(d)' /\ Whole(d)' /\ row[d] # "done"
    BY <1>0, <2>1
       DEF Whole, Full, SourceIs, CopyStages, SearchInv, NotDone, On, Late
  <2>3. NotDone(d)' /\ DirIs(d)'
    BY <2>1, <2>2 DEF NotDone, DirIs
  <2>4. HasRows(d) => HasRows(d)'
    BY <2>1 DEF HasRows, RowCount
  <2>5. RowsAre(d)'
    BY <1>0, <1>1, <2>1, <2>2, <2>4
       DEF SearchInv, RowsAre, OnAt, Copied, Made, Served
  <2> QED
    BY <2>3, <2>5 DEF SearchInv
<1>4. CASE CopySourceRows
  <2>1. /\ run.at = "copyrows" /\ run'.at = "copymeta" /\ run'.doc = d
        /\ UNCHANGED <<row, pdf, files, linked>> /\ run.src \in Docs
        /\ Hash[run.src] = Hash[d] /\ Owner[run.src] # Owner[d]
    BY <1>0, <1>4, SourceThere DEF CopySourceRows, CopyStages, At, Runs, SourceIs
  <2>2. row[d] # "done" /\ Whole(d) /\ (row[d] # "deleted" => Full(d))
    BY <1>0, <2>1 DEF SearchInv, NotDone, DirIs, On, OnAt, Late, Filled
  <2>3. NotDone(d)' /\ DirIs(d)'
    BY <2>1, <2>2 DEF NotDone, DirIs, Whole, Full, DirExists
  <2>4. Served(d)'
    <3>1. CASE Incomplete(run.src)
      BY <1>0, <1>4, <3>1 DEF CopySourceRows, Incomplete, Served
    <3>2. CASE HasRows(run.src)
      <4> SUFFICES ASSUME NEW l \in Leaves PROVE RowCount(d, l)' > 0
        BY DEF Served, HasRows
      <4>1. /\ fts'[d][l].plain = fts[d][l].plain + fts[run.src][l].plain
            /\ fts'[d][l].rich = fts[d][l].rich + fts[run.src][l].rich
        BY <1>0, <1>4, <2>1 DEF CopySourceRows, TypeOK
      <4>2. /\ fts[d][l].plain \in Nat /\ fts[d][l].rich \in Nat
            /\ fts[run.src][l].plain \in Nat /\ fts[run.src][l].rich \in Nat
        BY <1>0, <2>1 DEF TypeOK
      <4>3. fts[run.src][l].plain + fts[run.src][l].rich > 0
        BY <3>2 DEF HasRows, RowCount
      <4> QED
        BY <4>1, <4>2, <4>3 DEF RowCount
    <3> QED
      BY <1>0, <2>1, <3>1, <3>2 DEF SourceIs, CopyStages, Served
  <2>5. RowsAre(d)'
    BY <2>1, <2>4 DEF RowsAre, OnAt
  <2> QED
    BY <2>3, <2>5 DEF SearchInv
<1>5. CASE LinkCopy \/ LinkBook
  <2>1. /\ run.at \in {"copylink", "link"}
        /\ run' = NoRun \/ (run'.at = "copydone" /\ run.at = "copylink")
        /\ UNCHANGED <<row, pdf, files, fts, partial>>
    BY <1>0, <1>5 DEF LinkCopy, LinkBook, At, Goto, Runs
  <2>2. Whole(d) /\ (row[d] # "deleted" => Full(d)) /\ Served(d)
    BY <1>0, <2>1
       DEF SearchInv, DirIs, RowsAre, OnAt, On, Filled, Copied, Made
  <2>3. /\ Whole(d)' /\ (row'[d] # "deleted" => Full(d)')
        /\ Served(d)'
    BY <1>1, <2>1, <2>2 DEF Whole, Full, DirExists, Served, HasRows, RowCount
  <2>4. NotDone(d)'
    BY <1>0, <2>1 DEF SearchInv, NotDone, On, Late
  <2>5. DirIs(d)' /\ RowsAre(d)'
    BY <2>1, <2>3 DEF DirIs, RowsAre, OnAt, On
  <2> QED
    BY <2>4, <2>5 DEF SearchInv
<1>6. CASE CopyDone
  <2>1. /\ run.at = "copydone" /\ run'.at = "copycomplete"
        /\ UNCHANGED <<pdf, files, fts, partial>>
        /\ row' = WithRow(row, run.doc, "done")
    BY <1>0, <1>6 DEF CopyDone, At, Goto, Runs
  <2>2. row'[d] = "deleted" <=> row[d] = "deleted"
    BY <1>0, <2>1, RunRows DEF RowStates
  <2>3. Whole(d) /\ (row[d] # "deleted" => Full(d)) /\ Served(d)
    BY <1>0, <2>1
       DEF SearchInv, DirIs, RowsAre, OnAt, On, Filled, Copied, Made
  <2>4. /\ Whole(d)' /\ (row'[d] # "deleted" => Full(d)')
        /\ Served(d)'
    BY <1>1, <2>1, <2>2, <2>3 DEF Whole, Full, DirExists, Served, HasRows, RowCount
  <2>5. NotDone(d)' /\ DirIs(d)' /\ RowsAre(d)'
    BY <2>1, <2>4 DEF NotDone, DirIs, RowsAre, OnAt, On, Late
  <2> QED
    BY <2>5 DEF SearchInv
<1>7. CASE ClearRows
  <2>1. /\ run.at = "clear" /\ run'.at = "index" /\ run'.todo = Leaves
        /\ run'.doc = d /\ run' # NoRun
        /\ UNCHANGED <<row, pdf, files, linked>>
    BY <1>0, <1>7, NoDocAssumption DEF ClearRows, At, Runs, NoRun
  <2>2. row[d] # "done" /\ Whole(d) /\ (row[d] # "deleted" => Full(d))
    BY <1>0, <2>1 DEF SearchInv, NotDone, DirIs, On, OnAt, Late, Filled
  <2>3. NotDone(d)' /\ DirIs(d)'
    BY <2>1, <2>2 DEF NotDone, DirIs, Whole, Full, DirExists
  <2>4. RowsAre(d)'
    BY <2>1 DEF RowsAre, OnAt, On, Copied, Made
  <2> QED
    BY <2>3, <2>4 DEF SearchInv
<1>8. ASSUME NEW m \in Leaves, IndexLeaf(m) PROVE SearchInv(d)'
  <2>1. /\ run.at = "index" /\ run'.at = "index" /\ run'.todo = run.todo \ {m}
        /\ run'.doc = d /\ run' # NoRun
        /\ UNCHANGED <<row, pdf, files, linked, partial>>
        /\ fts' = IF files[d][m] = "plain"
                    THEN [fts EXCEPT ![d][m].plain = @ + 1]
                    ELSE [fts EXCEPT ![d][m].rich = @ + 1]
    BY <1>0, <1>8, NoDocAssumption DEF IndexLeaf, At, Runs, NoRun
  <2>2. row[d] # "done" /\ Whole(d) /\ (row[d] # "deleted" => Full(d))
    BY <1>0, <2>1 DEF SearchInv, NotDone, DirIs, On, OnAt, Late, Filled
  <2>3. NotDone(d)' /\ DirIs(d)'
    BY <2>1, <2>2 DEF NotDone, DirIs, Whole, Full, DirExists
  <2>4. ASSUME NEW l \in Leaves \ run'.todo PROVE RowCount(d, l)' > 0 \/ Incomplete(d)'
    <3>1. fts[d][l].plain \in Nat /\ fts[d][l].rich \in Nat
      BY <1>0 DEF TypeOK
    <3>2. l = m \/ l \in Leaves \ run.todo
      BY <2>1
    <3>3. CASE l = m
      <4>1. \/ /\ fts'[d][l].plain = fts[d][l].plain + 1
               /\ fts'[d][l].rich = fts[d][l].rich
            \/ /\ fts'[d][l].rich = fts[d][l].rich + 1
               /\ fts'[d][l].plain = fts[d][l].plain
        BY <1>0, <2>1, <3>3 DEF TypeOK
      <4> QED
        BY <3>1, <4>1 DEF RowCount
    <3>4. CASE l # m
      <4>1. fts'[d][l] = fts[d][l]
        BY <1>0, <2>1, <3>4 DEF TypeOK
      <4>2. RowCount(d, l) > 0 \/ Incomplete(d)
        BY <1>0, <2>1, <3>2, <3>4 DEF SearchInv, RowsAre, OnAt, On
      <4> QED
        BY <1>1, <2>1, <4>1, <4>2 DEF RowCount
    <3> QED
      BY <3>3, <3>4
  <2>5. RowsAre(d)'
    BY <2>1, <2>4 DEF RowsAre, OnAt, On, Copied, Made
  <2> QED
    BY <2>3, <2>5 DEF SearchInv
<1>9. CASE DocDone
  <2>1. /\ run.at = "index" /\ run'.at = "complete" /\ run.todo = {}
        /\ UNCHANGED <<pdf, files, fts, partial>>
        /\ row' = WithRow(row, run.doc, "done")
    BY <1>0, <1>9 DEF DocDone, At, Goto, Runs
  <2>2. row'[d] = "deleted" <=> row[d] = "deleted"
    BY <1>0, <2>1, RunRows DEF RowStates
  <2>3. Whole(d) /\ (row[d] # "deleted" => Full(d))
    BY <1>0, <2>1 DEF SearchInv, DirIs, OnAt, On, Filled
  <2>4. Served(d)
    <3>1. \A l \in Leaves : RowCount(d, l) > 0 \/ Incomplete(d)
      BY <1>0, <2>1 DEF SearchInv, RowsAre, OnAt, On
    <3> QED
      BY <3>1 DEF Served, HasRows
  <2>5. /\ Whole(d)' /\ (row'[d] # "deleted" => Full(d)')
        /\ Served(d)'
    BY <1>1, <2>1, <2>2, <2>3, <2>4
       DEF Whole, Full, DirExists, Served, HasRows, RowCount
  <2>6. NotDone(d)' /\ DirIs(d)' /\ RowsAre(d)'
    BY <2>1, <2>5 DEF NotDone, DirIs, RowsAre, OnAt, On, Late
  <2> QED
    BY <2>6 DEF SearchInv
<1> QED
  BY <1>2, <1>3, <1>4, <1>5, <1>6, <1>7, <1>8, <1>9

LEMMA SearchStep ==
  ASSUME ShareInv, [Next]_vars, NEW d \in Docs
  PROVE  SearchInv(d)'
<1>0. TypeOK /\ WebRow /\ TypeOK'
  BY TypeStep DEF ShareInv
<1>1. CASE \/ UNCHANGED vars
           \/ \E e \in Docs : UploadStore(e) \/ Reprocess(e) \/ DeleteRows(e)
           \/ CreateDoc \/ Enqueue \/ DeleteDoc \/ UnlinkBook \/ RemoveDir
           \/ \E g \in Paths : GhostEnriches(g)
           \/ \E k \in Jobs : Claim(k)
  <2>1. Kept(d)
    BY <1>0, <1>1, WebKeeps
  <2>2. run' = run \/ (run = NoRun /\ run'.at = "start")
    BY <1>1
       DEF docVars, diskVars, shareVars, jobVars, boundVars, vars, UploadStore,
           Reprocess, DeleteRows, CreateDoc, Enqueue, DeleteDoc, UnlinkBook,
           RemoveDir, GhostEnriches, Claim
  <2>3. row'[d] = "done" => row[d] = "done"
    <3>1. CASE UNCHANGED row
      BY <3>1
    <3>2. CASE CreateDoc \/ DeleteDoc \/ \E e \in Docs : Reprocess(e)
      BY <1>0, <3>2, WebThere DEF CreateDoc, DeleteDoc, Reprocess, TypeOK
    <3> QED
      BY <1>1, <3>1, <3>2
         DEF docVars, vars, UploadStore, DeleteRows, Enqueue, UnlinkBook,
             RemoveDir, GhostEnriches, Claim
  <2>4. On(d) => run' = run
    BY <2>2 DEF On
  <2> QED
    BY <2>1, <2>2, <2>3, <2>4, SearchBeside
<1>2. CASE RunSteps /\ run.doc # d
  BY <1>0, <1>2, RunKeeps, SearchBeside DEF On
<1>3. CASE RunSteps /\ run.doc = d
  <2>1. On(d)
    BY <1>0, <1>3, NoDocAssumption DEF On, NoRun
  <2> QED
    BY <1>0, <1>3, <2>1, SearchPlain, SearchFills DEF RunSteps
<1>4. CASE Crash
  <2>1. /\ row' = row /\ run' = NoRun /\ Kept(d) /\ SearchInv(d) /\ RowFirst
        /\ OnAt(d, {"index"}) => Incomplete(d)'
    BY <1>0, <1>4, WebKeeps
       DEF Crash, ShareInv, OnAt, On, At, Incomplete, docVars
  <2>2. linked'[d] > 0 => row[d] # "none" /\ linked[d] > 0
    BY <1>0, <2>1 DEF RowFirst, Kept, TypeOK
  <2>3. NotDone(d)' /\ DirIs(d)'
    BY <2>1, <2>2 DEF SearchInv, NotDone, DirIs, Kept, OnAt, On
  <2>4. RowsAre(d)'
    BY <2>1, <2>2 DEF SearchInv, RowsAre, Kept, Served, OnAt, On
  <2> QED
    BY <2>3, <2>4 DEF SearchInv
<1> QED
  BY <1>1, <1>2, <1>3, <1>4, NextCases DEF RunSteps

LEMMA ShareHolds == Spec => []ShareInv
<1>1. Init => ShareInv
  <2> SUFFICES ASSUME Init
               PROVE  /\ WebRow /\ RowFirst /\ SourceIs
                      /\ \A d \in Docs : SearchInv(d)
    BY TypeInit DEF ShareInv
  <2>1. /\ web = NoWeb /\ run = NoRun /\ jobDoc = <<>>
        /\ \A d \in Docs : row[d] = "none" /\ linked[d] = 0
    BY DEF Init
  <2> QED
    BY <2>1 DEF WebRow, RowFirst, JobsOf, SourceIs, SearchInv, NotDone, DirIs,
                RowsAre, On, OnAt
<1>2. ShareInv /\ [Next]_vars => ShareInv'
  <2> SUFFICES ASSUME ShareInv, [Next]_vars PROVE ShareInv'
    OBVIOUS
  <2>1. TypeOK /\ WebRow /\ RowFirst /\ TypeOK'
    BY TypeStep DEF ShareInv
  <2>2. \A d \in Docs : SearchInv(d)'
    BY SearchStep
  <2>3. WebRow' /\ RowFirst' /\ SourceIs'
    BY <2>1, WebRowStep, RowFirstStep, SourceStep
  <2> QED
    BY <2>1, <2>2, <2>3 DEF ShareInv
<1> QED
  BY <1>1, <1>2, PTL DEF Spec

\* A document shown as done is searchable, alone or shared, through any
\* reprocessing, retries and ends of the process: only what an interruption has
\* left incomplete, its own or its source's, is missing.
THEOREM SearchableDone == Spec => []DoneIsSearchable
<1>1. ShareInv => DoneIsSearchable
  BY DEF ShareInv, SearchInv, DirIs, RowsAre, NotDone, Served, HasRows, Incomplete,
         LostRows, Full, OnAt, On, Late, DoneIsSearchable
<1> QED
  BY <1>1, ShareHolds, PTL

-------------------------------------------------------------------------------
(* Duplicate rows.                                                          *)

Empty(d) == \A l \in Leaves : RowCount(d, l) = 0

\* Where the run has put nothing into the index yet.
Before == {"start", "extract", "match", "remove", "copytree", "copyrows",
           "tier", "plan", "enrich", "clear"}

IndexInv(d) ==
  /\ On(d) => Ran(d)
  /\ ~Ran(d) \/ (OnAt(d, Before) /\ Once(d)) => Empty(d)
  /\ OnAt(d, {"index"}) => \A l \in run.todo : RowCount(d, l) = 0

\* A step that inserts no row of the document.
LEMMA IndexCalm ==
  ASSUME TypeOK, NEW d \in Docs, IndexInv(d), Ran(d) => Ran(d)', Once(d)' => Once(d),
         fts'[d] = fts[d] \/ fts'[d] = NoRows,
         On(d)' => /\ On(d)
                   /\ run'.at \in Before => run.at \in Before
                   /\ run'.at = "index" => run.at = "index" /\ run'.todo = run.todo
  PROVE  IndexInv(d)'
<1>1. CASE fts'[d] = NoRows
  <2>1. \A l \in Leaves : RowCount(d, l)' = 0
    BY <1>1 DEF RowCount, NoRows
  <2>2. OnAt(d, {"index"})' => \A l \in run'.todo : RowCount(d, l)' = 0
    <3>1. On(d) => run.todo \subseteq Leaves
      BY DEF On, TypeOK, Runs
    <3> QED
      BY <2>1, <3>1 DEF OnAt
  <2> QED
    BY <2>1, <2>2 DEF IndexInv, OnAt, Empty
<1>2. CASE fts'[d] = fts[d]
  <2>1. \A l : RowCount(d, l)' = RowCount(d, l)
    BY <1>2 DEF RowCount
  <2> QED
    BY <2>1 DEF IndexInv, OnAt, Empty
<1> QED
  BY <1>1, <1>2

LEMMA IndexStep ==
  ASSUME TypeOK, TypeOK', [Next]_vars, NEW d \in Docs, IndexInv(d)
  PROVE  IndexInv(d)'
<1> USE DEF docVars, diskVars, shareVars, jobVars, boundVars
<1>0. IndexInv(d) /\ (Ran(d) => Ran(d)') /\ (Once(d)' => Once(d))
  BY ClaimsCount
<1>1. CASE \/ UNCHANGED vars
           \/ \E e \in Docs : UploadStore(e) \/ Reprocess(e) \/ DeleteRows(e)
           \/ CreateDoc \/ Enqueue \/ DeleteDoc \/ UnlinkBook \/ RemoveDir
           \/ \E g \in Paths : GhostEnriches(g)
           \/ Crash
  <2>1. run' = run \/ run' = NoRun
    BY <1>1 DEF vars, UploadStore, Reprocess, DeleteRows, CreateDoc, Enqueue,
                DeleteDoc, UnlinkBook, RemoveDir, GhostEnriches, Crash
  <2>2. fts' = fts \/ \E e \in Docs : fts' = [fts EXCEPT ![e] = NoRows]
    BY <1>1 DEF vars, UploadStore, Reprocess, DeleteRows, CreateDoc, Enqueue,
                DeleteDoc, UnlinkBook, RemoveDir, GhostEnriches, Crash
  <2>3. fts'[d] = fts[d] \/ fts'[d] = NoRows
    BY <2>2 DEF TypeOK
  <2> QED
    BY <1>0, <2>1, <2>3, IndexCalm DEF On
<1>2. ASSUME NEW k \in Jobs, Claim(k) PROVE IndexInv(d)'
  <2>1. /\ run = NoRun /\ fts' = fts /\ run'.doc = jobDoc[k] /\ run'.at = "start"
    BY <1>2 DEF Claim
  <2>2. CASE jobDoc[k] # d
    BY <1>0, <2>1, <2>2, IndexCalm DEF On
  <2>3. CASE jobDoc[k] = d
    <3>1. Ran(d)' /\ (Once(d)' => ~Ran(d))
      BY <1>2, <2>3, ClaimsCount
    <3>2. Once(d)' => Empty(d)'
      BY <1>0, <2>1, <3>1 DEF IndexInv, Empty, RowCount
    <3> QED
      BY <2>1, <3>1, <3>2 DEF IndexInv, OnAt
  <2> QED
    BY <2>2, <2>3
<1>3. CASE CopySourceRows
  <2>1. /\ run \in Runs /\ run.at = "copyrows" /\ run.src \in Docs /\ run # NoRun
        /\ run.doc \in Docs /\ run'.doc = run.doc /\ run'.at = "copymeta"
    BY <1>3, RunThere, SourceThere DEF CopySourceRows, CopyStages, At, Runs
  <2>2. CASE run.doc # d
    <3>1. fts'[d] = fts[d]
      BY <1>3, <2>1, <2>2 DEF CopySourceRows, TypeOK
    <3> QED
      BY <1>0, <2>1, <2>2, <3>1, IndexCalm DEF On
  <2>3. CASE run.doc = d
    <3>1. Ran(d)'
      BY <1>0, <2>1, <2>3 DEF IndexInv, On
    <3> QED
      BY <2>1, <3>1 DEF IndexInv, OnAt, Before
  <2> QED
    BY <2>2, <2>3
<1>4. CASE ClearRows
  <2>1. /\ run \in Runs /\ run # NoRun /\ run.doc \in Docs /\ run.at = "clear"
        /\ run'.doc = run.doc /\ run'.at = "index" /\ run'.todo = Leaves
        /\ fts' = [fts EXCEPT ![run.doc] = NoRows]
    BY <1>4, RunThere DEF ClearRows, At, Runs
  <2>2. CASE run.doc # d
    <3>1. fts'[d] = fts[d]
      BY <2>1, <2>2 DEF TypeOK
    <3> QED
      BY <1>0, <2>1, <2>2, <3>1, IndexCalm DEF On
  <2>3. CASE run.doc = d
    <3>1. Ran(d)'
      BY <1>0, <2>1, <2>3 DEF IndexInv, On
    <3>2. fts'[d] = NoRows
      BY <2>1, <2>3 DEF TypeOK
    <3>3. \A l \in Leaves : RowCount(d, l)' = 0
      BY <3>2 DEF RowCount, NoRows
    <3> QED
      BY <2>1, <3>1, <3>3 DEF IndexInv, OnAt, Before, Empty
  <2> QED
    BY <2>2, <2>3
<1>5. ASSUME NEW m \in Leaves, IndexLeaf(m) PROVE IndexInv(d)'
  <2>1. /\ run \in Runs /\ run # NoRun /\ run.doc \in Docs /\ run.at = "index"
        /\ run'.doc = run.doc /\ run'.at = "index" /\ run'.todo = run.todo \ {m}
        /\ m \in run.todo /\ run.todo \subseteq Leaves
        /\ \/ fts' = [fts EXCEPT ![run.doc][m].plain = @ + 1]
           \/ fts' = [fts EXCEPT ![run.doc][m].rich = @ + 1]
    BY <1>5, RunThere DEF IndexLeaf, At, Runs
  <2>2. CASE run.doc # d
    <3>1. fts'[d] = fts[d]
      BY <2>1, <2>2 DEF TypeOK
    <3> QED
      BY <1>0, <2>1, <2>2, <3>1, IndexCalm DEF On
  <2>3. CASE run.doc = d
    <3>1. Ran(d)' /\ RowCount(d, m) = 0
      BY <1>0, <2>1, <2>3 DEF IndexInv, OnAt, On
    <3>2. RowCount(d, m)' = 1
      <4>1. fts[d][m].plain \in Nat /\ fts[d][m].rich \in Nat
        BY DEF TypeOK
      <4>2. \/ /\ fts'[d][m].plain = fts[d][m].plain + 1
               /\ fts'[d][m].rich = fts[d][m].rich
            \/ /\ fts'[d][m].rich = fts[d][m].rich + 1
               /\ fts'[d][m].plain = fts[d][m].plain
        <5>1. CASE fts' = [fts EXCEPT ![run.doc][m].plain = @ + 1]
          BY <2>1, <2>3, <5>1 DEF TypeOK
        <5>2. CASE fts' = [fts EXCEPT ![run.doc][m].rich = @ + 1]
          BY <2>1, <2>3, <5>2 DEF TypeOK
        <5> QED
          BY <2>1, <5>1, <5>2
      <4> QED
        BY <3>1, <4>1, <4>2 DEF RowCount
    <3>3. ASSUME NEW l \in Leaves, l # m PROVE RowCount(d, l)' = RowCount(d, l)
      <4>1. fts'[d][l] = fts[d][l]
        BY <2>1, <2>3, <3>3 DEF TypeOK
      <4> QED
        BY <4>1 DEF RowCount
    <3>4. \A l \in run'.todo : RowCount(d, l)' = 0
      BY <1>0, <2>1, <2>3, <3>3 DEF IndexInv, OnAt, On
    <3> QED
      BY <2>1, <3>1, <3>4 DEF IndexInv, OnAt, Before
  <2> QED
    BY <2>2, <2>3
<1>6. CASE \/ StartExtract \/ Extract \/ MatchSharedBook
           \/ RemoveOwnDir \/ CopySourceDir \/ CopySourceMeta
           \/ LinkCopy \/ CopyDone \/ CopyComplete
           \/ Tier \/ PlanEnrichment \/ EnrichEnds
           \/ \E l \in Leaves : EnrichLeaf(l) \/ CheckpointLeaf(l)
           \/ DocDone \/ CompleteJob \/ RegisterBook \/ LinkBook
           \/ StageRaises \/ FailDoc \/ FailJob
           \/ FailTimedOutJob \/ FailTimedOutDoc \/ TimesOut
  <2>1. (\E stage : At(stage)) /\ fts' = fts
    BY <1>6
       DEF StartExtract, Extract, MatchSharedBook, RemoveOwnDir, CopySourceDir,
           CopySourceMeta, LinkCopy, CopyDone, CopyComplete, Tier, PlanEnrichment,
           EnrichEnds, EnrichLeaf, CheckpointLeaf, DocDone, CompleteJob,
           RegisterBook, LinkBook, StageRaises, FailDoc, FailJob,
           FailTimedOutJob, FailTimedOutDoc, TimesOut
  <2>2. run \in Runs /\ run # NoRun
    BY <2>1, RunThere
  <2>3. \/ run' = NoRun
        \/ /\ run'.doc = run.doc /\ run'.at # "index"
           /\ run'.at \in Before => run.at \in Before
    BY <1>6, <2>2
       DEF StartExtract, Extract, MatchSharedBook, RemoveOwnDir, CopySourceDir,
           CopySourceMeta, LinkCopy, CopyDone, CopyComplete, Tier, PlanEnrichment,
           EnrichEnds, EnrichLeaf, CheckpointLeaf, DocDone, CompleteJob,
           RegisterBook, LinkBook, StageRaises, FailDoc, FailJob,
           FailTimedOutJob, FailTimedOutDoc, TimesOut, At, Goto, Runs, Before
  <2> QED
    BY <1>0, <2>1, <2>2, <2>3, IndexCalm DEF On
<1> QED
  BY <1>1, <1>2, <1>3, <1>4, <1>5, <1>6, NextCases

LEMMA IndexHolds == Spec => [](TypeOK /\ \A d \in Docs : IndexInv(d))
<1> DEFINE Inv == TypeOK /\ \A d \in Docs : IndexInv(d)
<1>1. Init => Inv
  <2> SUFFICES ASSUME Init, NEW d \in Docs PROVE IndexInv(d)
    BY TypeInit
  <2>1. run = NoRun /\ \A l \in Leaves : RowCount(d, l) = 0
    BY DEF Init, RowCount, NoRows
  <2> QED
    BY <2>1 DEF IndexInv, On, OnAt, Empty
<1>2. Inv /\ [Next]_vars => Inv'
  BY TypeStep, IndexStep
<1> HIDE DEF Inv
<1>3. Spec => []Inv
  BY <1>1, <1>2, PTL DEF Spec
<1> QED
  BY <1>3 DEF Inv

\* What a step may do to the index rows of a document.
LEMMA RowsOfStep ==
  ASSUME TypeOK, [Next]_vars, NEW d \in Docs
  PROVE  \/ fts'[d] = fts[d] \/ fts'[d] = NoRows
         \/ CopySourceRows /\ run.doc = d
         \/ \E m \in Leaves : IndexLeaf(m) /\ run.doc = d
<1> USE DEF docVars, diskVars, shareVars, jobVars, boundVars
<1>1. CASE \/ UNCHANGED vars
           \/ \E e \in Docs : UploadStore(e) \/ Reprocess(e)
           \/ CreateDoc \/ Enqueue \/ DeleteDoc \/ UnlinkBook \/ RemoveDir
           \/ \E g \in Paths : GhostEnriches(g)
           \/ \E k \in Jobs : Claim(k)
           \/ Crash
  BY <1>1 DEF vars, UploadStore, Reprocess, CreateDoc, Enqueue, DeleteDoc, UnlinkBook,
              RemoveDir, GhostEnriches, Claim, Crash
<1>2. CASE \E e \in Docs : DeleteRows(e)
  BY <1>2 DEF DeleteRows, TypeOK
<1>3. CASE \/ StartExtract \/ Extract \/ MatchSharedBook
           \/ RemoveOwnDir \/ CopySourceDir \/ CopySourceMeta
           \/ LinkCopy \/ CopyDone \/ CopyComplete
           \/ Tier \/ PlanEnrichment \/ EnrichEnds
           \/ \E l \in Leaves : EnrichLeaf(l) \/ CheckpointLeaf(l)
           \/ DocDone \/ CompleteJob \/ RegisterBook \/ LinkBook
           \/ StageRaises \/ FailDoc \/ FailJob
           \/ FailTimedOutJob \/ FailTimedOutDoc \/ TimesOut
  BY <1>3 DEF StartExtract, Extract, MatchSharedBook, RemoveOwnDir, CopySourceDir,
              CopySourceMeta, LinkCopy, CopyDone, CopyComplete, Tier,
              PlanEnrichment, EnrichEnds, EnrichLeaf, CheckpointLeaf, DocDone,
              CompleteJob, RegisterBook, LinkBook, StageRaises, FailDoc, FailJob,
              FailTimedOutJob, FailTimedOutDoc, TimesOut
<1>4. CASE ClearRows
  BY <1>4, RunThere DEF ClearRows, TypeOK
<1>5. CASE CopySourceRows
  BY <1>5, RunThere DEF CopySourceRows, TypeOK
<1>6. ASSUME NEW m \in Leaves, IndexLeaf(m), run.doc # d
      PROVE  fts'[d] = fts[d]
  BY <1>6, RunThere DEF IndexLeaf, TypeOK
<1> QED
  BY <1>1, <1>2, <1>3, <1>4, <1>5, <1>6, NextCases

\* A section gets a second row from the copy path only, and over rows of its own
\* only in a run that is not the document's first.
Duplicates(d, l) == RowCount(d, l)' > 1 /\ RowCount(d, l)' > RowCount(d, l)

LEMMA WhoDuplicates ==
  ASSUME TypeOK, [Next]_vars, NEW d \in Docs, NEW l \in Leaves, IndexInv(d),
         Duplicates(d, l)
  PROVE  /\ CopySourceRows /\ run.doc = d /\ At("copyrows")
         /\ RowCount(d, l) > 0 => ~Once(d)
<1>1. fts'[d] # fts[d] /\ fts'[d] # NoRows
  <2>1. /\ fts[d][l].plain \in Nat /\ fts[d][l].rich \in Nat
        /\ RowCount(d, l)' > 1 /\ RowCount(d, l)' > RowCount(d, l)
    BY DEF TypeOK, Duplicates
  <2>2. fts'[d] # fts[d]
    BY <2>1 DEF RowCount
  <2>3. fts'[d] # NoRows
    BY <2>1 DEF RowCount, NoRows
  <2> QED
    BY <2>2, <2>3
<1>2. ASSUME NEW m \in Leaves, IndexLeaf(m), run.doc = d PROVE FALSE
  <2>1. /\ run # NoRun /\ run.at = "index" /\ m \in run.todo
        /\ fts[d][l] \in [plain : Nat, rich : Nat]
        /\ \/ fts' = [fts EXCEPT ![d][m].plain = @ + 1]
           \/ fts' = [fts EXCEPT ![d][m].rich = @ + 1]
    BY <1>2 DEF IndexLeaf, At, TypeOK
  <2>2. RowCount(d, m) = 0
    BY <1>2, <2>1 DEF IndexInv, OnAt, On
  <2>3. CASE l = m
    <3>1. RowCount(d, l)' = RowCount(d, l) + 1
      <4>1. \/ /\ fts'[d][l].plain = fts[d][l].plain + 1
               /\ fts'[d][l].rich = fts[d][l].rich
            \/ /\ fts'[d][l].rich = fts[d][l].rich + 1
               /\ fts'[d][l].plain = fts[d][l].plain
        <5>1. CASE fts' = [fts EXCEPT ![d][m].plain = @ + 1]
          BY <2>3, <5>1 DEF TypeOK
        <5>2. CASE fts' = [fts EXCEPT ![d][m].rich = @ + 1]
          BY <2>3, <5>2 DEF TypeOK
        <5> QED
          BY <2>1, <5>1, <5>2
      <4>2. fts[d][l].plain \in Nat /\ fts[d][l].rich \in Nat
        BY <2>1
      <4> QED
        BY <4>1, <4>2 DEF RowCount
    <3> QED
      BY <2>2, <2>3, <3>1 DEF Duplicates
  <2>4. CASE l # m
    <3>1. fts'[d][l] = fts[d][l]
      BY <2>1, <2>4 DEF TypeOK
    <3> QED
      BY <2>1, <3>1 DEF Duplicates, RowCount
  <2> QED
    BY <2>3, <2>4
<1>3. CopySourceRows /\ run.doc = d
  BY <1>1, <1>2, RowsOfStep
<1>4. At("copyrows") /\ OnAt(d, Before)
  BY <1>3 DEF CopySourceRows, At, OnAt, On, Before
<1>5. Once(d) => RowCount(d, l) = 0
  BY <1>4 DEF IndexInv, Empty
<1> QED
  BY <1>3, <1>4, <1>5

\* No retry, no resumption and no rebuilding indexes a section twice, whatever
\* raises, times out or ends, for books that are shared as well: only a copy does.
THEOREM OnlyCopiesDuplicate == Spec => DuplicatesAreCopies
<1>1. ASSUME TypeOK, \A d \in Docs : IndexInv(d), [Next]_vars
      PROVE  \A d \in Docs, l \in Leaves :
               RowCount(d, l)' > 1 /\ RowCount(d, l)' > RowCount(d, l) =>
                 /\ At("copyrows") /\ run.doc = d
                 /\ RowCount(d, l) > 0 => ~Once(d)
  BY <1>1, WhoDuplicates DEF Duplicates
<1>2. (TypeOK /\ \A d \in Docs : IndexInv(d)) /\ [Next]_vars =>
        [\A d \in Docs, l \in Leaves :
           RowCount(d, l)' > 1 /\ RowCount(d, l)' > RowCount(d, l) =>
             /\ At("copyrows") /\ run.doc = d
             /\ RowCount(d, l) > 0 => ~Once(d)]_vars
  BY <1>1
<1> QED
  BY <1>2, IndexHolds, PTL DEF Spec, DuplicatesAreCopies

\* A section that has one row at most has no more after a step that copies
\* nothing, or copies it to a document that is claimed for the first time.
LEMMA NoneYet ==
  ASSUME TypeOK, TypeOK', [Next]_vars, NoDuplicateRows, \A d \in Docs : IndexInv(d),
         CopySourceRows => Once(run.doc)
  PROVE  NoDuplicateRows'
<1> SUFFICES ASSUME NEW d \in Docs, NEW l \in Leaves, RowCount(d, l)' > 1
             PROVE  FALSE
  BY DEF NoDuplicateRows, RowCount, TypeOK
<1>1. RowCount(d, l) <= 1 /\ RowCount(d, l) \in Nat /\ RowCount(d, l)' \in Nat
  BY DEF NoDuplicateRows, RowCount, TypeOK
<1>2. /\ CopySourceRows /\ run.doc = d /\ At("copyrows")
      /\ RowCount(d, l) > 0 => ~Once(d)
  BY <1>1, WhoDuplicates DEF Duplicates
<1>3. RowCount(d, l) = 0
  BY <1>1, <1>2
<1>4. run.src \in Docs
  BY <1>2, SourceThere DEF CopyStages
<1>5. /\ fts'[d][l].plain = fts[d][l].plain + fts[run.src][l].plain
      /\ fts'[d][l].rich = fts[d][l].rich + fts[run.src][l].rich
  BY <1>2, <1>4 DEF CopySourceRows, TypeOK
<1>6. /\ fts[d][l].plain \in Nat /\ fts[d][l].rich \in Nat
      /\ fts[run.src][l].plain \in Nat /\ fts[run.src][l].rich \in Nat
  BY <1>4 DEF TypeOK
<1>7. fts[run.src][l].plain + fts[run.src][l].rich <= 1
  BY <1>4 DEF NoDuplicateRows, RowCount
<1>8. fts[d][l].plain + fts[d][l].rich = 0
  BY <1>3 DEF RowCount
<1>9. fts'[d][l].plain + fts'[d][l].rich > 1
  BY DEF RowCount
<1>10. fts[d][l].plain = 0 /\ fts[d][l].rich = 0
  BY <1>6, <1>8
<1>11. /\ fts'[d][l].plain = fts[run.src][l].plain
       /\ fts'[d][l].rich = fts[run.src][l].rich
  BY <1>5, <1>6, <1>10
<1> QED
  BY <1>6, <1>7, <1>9, <1>11

\* While no document is claimed a second time, no section is indexed twice,
\* copied or not, whatever raises, times out or ends.
THEOREM DuplicatesNeedReruns ==
  Spec => []((\A d \in Docs : Once(d)) => NoDuplicateRows)
<1> DEFINE AllOnce == \A d \in Docs : Once(d)
           Index == TypeOK /\ \A d \in Docs : IndexInv(d)
           Inv == AllOnce => NoDuplicateRows
<1>1. Init => Inv
  BY DEF Init, NoDuplicateRows, RowCount, NoRows
<1>2. Inv /\ Index /\ Index' /\ [Next]_vars => Inv'
  <2> SUFFICES ASSUME Inv, Index, TypeOK', [Next]_vars, AllOnce'
               PROVE  NoDuplicateRows'
    OBVIOUS
  <2>1. AllOnce
    BY ClaimsCount
  <2>2. CopySourceRows => Once(run.doc)
    BY <2>1, RunThere DEF CopySourceRows
  <2> QED
    BY <2>1, <2>2, NoneYet
<1>3. Spec => []Index
  BY IndexHolds
<1> HIDE DEF Inv, Index
<1>4. Spec => []Inv
  BY <1>1, <1>2, <1>3, PTL DEF Spec
<1> QED
  BY <1>4 DEF Inv

\* Documents that are nobody else's are never indexed twice, with any number of
\* reprocessings, failures, timeouts, deletions and ends of the process.
NoSharing == \A s, d \in Docs : Hash[s] = Hash[d] => Owner[s] = Owner[d]

THEOREM IndexedOnce == ASSUME NoSharing PROVE Spec => []NoDuplicateRows
<1> DEFINE Index == TypeOK /\ \A d \in Docs : IndexInv(d)
<1>1. Init => NoDuplicateRows
  BY DEF Init, NoDuplicateRows, RowCount, NoRows
<1>2. NoDuplicateRows /\ ShareInv /\ Index /\ Index' /\ [Next]_vars => NoDuplicateRows'
  <2> SUFFICES ASSUME NoDuplicateRows, ShareInv, Index, TypeOK', [Next]_vars
               PROVE  NoDuplicateRows'
    OBVIOUS
  <2>1. ~CopySourceRows
    <3> SUFFICES ASSUME CopySourceRows PROVE FALSE
      OBVIOUS
    <3>1. run # NoRun /\ run.at = "copyrows" /\ run.doc \in Docs /\ run.src \in Docs
      BY RunThere, SourceThere DEF CopySourceRows, CopyStages, At
    <3> QED
      BY <3>1 DEF ShareInv, SourceIs, CopyStages, NoSharing
  <2> QED
    BY <2>1, NoneYet
<1>3. Spec => []Index
  BY IndexHolds
<1> HIDE DEF Index
<1> QED
  BY <1>1, <1>2, <1>3, ShareHolds, PTL DEF Spec

-------------------------------------------------------------------------------
(* Enrichment.                                                              *)

\* The checkpoint has the section, and nothing has outdated that.
Fresh(d, l) == Entry(d, l) /\ <<d, l>> \notin stale

\* Where the index, the files and the checkpoint of the run's document are about
\* to change together; where nothing has been enriched yet.
Reworks == {"copymeta", "plan", "enrich", "clear", "index"}
Early == {"start", "extract", "match", "tier", "plan"}

\* How the work gets from the model, or from the source of a copy, into the index.
Shown(d) ==
  \A l \in Leaves :
    Fresh(d, l) /\ ~OnAt(d, Reworks) => fts[d][l].rich > 0 \/ Incomplete(d)

Written(d) ==
  \A l \in Leaves :
    OnAt(d, {"enrich", "clear"}) /\ (Fresh(d, l) \/ (run.at = "enrich" /\ l \in run.pending))
      => files[d][l] = "rich" \/ row[d] = "deleted"

Indexed(d) ==
  \A l \in Leaves :
    OnAt(d, {"index"}) /\ Fresh(d, l) =>
      \/ fts[d][l].rich > 0 \/ Incomplete(d)
      \/ files[d][l] = "rich" /\ l \in run.todo

Fetched(d) ==
  OnAt(d, {"copymeta"}) =>
    \A l \in Leaves, s \in Docs :
      <<s, l>> \in run.got /\ <<run.src, l>> \notin stale =>
        fts[d][l].rich > 0 \/ Incomplete(d)

NothingYet(d) ==
  /\ OnAt(d, {"plan"}) => \A l \in Leaves : <<d, l>> \in stale
  /\ OnAt(d, Early) => run.pending = {}

EnrichInv(d) ==
  Shown(d) /\ Written(d) /\ Indexed(d) /\ Fetched(d) /\ NothingYet(d)

\* Only the checkpoint of an enriched leaf and that of a copy are new.
LEMMA FreshSteps ==
  ASSUME TypeOK, [Next]_vars, NEW d \in Docs, NEW l \in Leaves, Fresh(d, l)'
  PROVE  \/ Fresh(d, l)
         \/ On(d) /\ (CheckpointLeaf(l) \/ CopySourceMeta)
<1> USE DEF docVars, diskVars, shareVars, jobVars, boundVars
<1>1. ASSUME checkpoint'[d] = checkpoint[d], <<d, l>> \in stale => <<d, l>> \in stale'
      PROVE  Fresh(d, l)
  BY <1>1 DEF Fresh, Entry
<1>2. CASE \/ UNCHANGED vars
           \/ \E e \in Docs : UploadStore(e) \/ Reprocess(e) \/ DeleteRows(e)
           \/ CreateDoc \/ Enqueue \/ UnlinkBook \/ RemoveDir
           \/ \E g \in Paths : GhostEnriches(g)
           \/ \E k \in Jobs : Claim(k)
  BY <1>1, <1>2 DEF vars, UploadStore, Reprocess, DeleteRows, CreateDoc, Enqueue,
                    UnlinkBook, RemoveDir, GhostEnriches, Claim
<1>3. CASE DeleteDoc
  <2>1. stale' = stale /\ (checkpoint'[d] = checkpoint[d] \/ checkpoint'[d] = {})
    BY <1>3 DEF DeleteDoc, TypeOK
  <2> QED
    BY <1>1, <2>1 DEF Fresh, Entry
<1>4. CASE \/ StartExtract \/ Extract \/ MatchSharedBook
           \/ RemoveOwnDir \/ CopySourceDir \/ CopySourceRows
           \/ LinkCopy \/ CopyDone \/ CopyComplete
           \/ PlanEnrichment \/ EnrichEnds \/ ClearRows
           \/ \E m \in Leaves : EnrichLeaf(m) \/ IndexLeaf(m)
           \/ DocDone \/ CompleteJob \/ RegisterBook \/ LinkBook
           \/ StageRaises \/ FailDoc \/ FailJob
           \/ FailTimedOutJob \/ FailTimedOutDoc
  BY <1>1, <1>4
     DEF StartExtract, Extract, MatchSharedBook, RemoveOwnDir, CopySourceDir,
         CopySourceRows, LinkCopy, CopyDone, CopyComplete, PlanEnrichment,
         EnrichEnds, ClearRows, EnrichLeaf, IndexLeaf, DocDone, CompleteJob,
         RegisterBook, LinkBook, StageRaises, FailDoc, FailJob, FailTimedOutJob,
         FailTimedOutDoc
<1>5. CASE Tier \/ TimesOut \/ Crash
  BY <1>1, <1>5 DEF Tier, TimesOut, Crash, Outdated
<1>6. ASSUME NEW m \in Leaves, CheckpointLeaf(m)
      PROVE  Fresh(d, l) \/ (On(d) /\ CheckpointLeaf(l))
  <2>1. run # NoRun /\ run.doc \in Docs /\ stale' = stale \ {<<run.doc, m>>}
    BY <1>6, RunThere DEF CheckpointLeaf
  <2>2. CASE run.doc # d
    <3>1. checkpoint'[d] = checkpoint[d]
      BY <1>6, <2>1, <2>2 DEF CheckpointLeaf, WithRow, TypeOK
    <3> QED
      BY <1>1, <2>1, <2>2, <3>1
  <2>3. CASE run.doc = d /\ l # m
    <3>1. \/ checkpoint'[d] = checkpoint[d]
          \/ checkpoint'[d] = checkpoint[d] \cup {<<d, m>>}
      BY <1>6, <2>1, <2>3 DEF CheckpointLeaf, WithRow, TypeOK
    <3> QED
      BY <2>1, <2>3, <3>1 DEF Fresh, Entry
  <2> QED
    BY <1>6, <2>1, <2>2, <2>3 DEF On
<1>7. CASE CopySourceMeta
  <2>1. run # NoRun /\ run.doc \in Docs
    BY <1>7, RunThere DEF CopySourceMeta
  <2>2. CASE run.doc # d
    <3>1. checkpoint'[d] = checkpoint[d]
      BY <1>7, <2>1, <2>2 DEF CopySourceMeta, WithRow, TypeOK
    <3>2. <<d, l>> \in stale => <<d, l>> \in stale'
      BY <1>7, <2>2 DEF CopySourceMeta, Paths
    <3> QED
      BY <1>1, <3>1, <3>2
  <2> QED
    BY <1>7, <2>1, <2>2 DEF On
<1> QED
  BY <1>2, <1>3, <1>4, <1>5, <1>6, <1>7, NextCases

\* A step that neither begins nor ends nor goes on with the rework.
LEMMA EnrichCalm ==
  ASSUME NEW d \in Docs, EnrichInv(d),
         \A l \in Leaves : Fresh(d, l)' => Fresh(d, l),
         fts'[d] = fts[d] \/ Incomplete(d)', Incomplete(d) => Incomplete(d)',
         ~OnAt(d, Reworks), ~OnAt(d, Reworks)',
         OnAt(d, Early)' => run'.pending = {}
  PROVE  EnrichInv(d)'
<1>1. Shown(d)'
  BY DEF EnrichInv, Shown
<1>2. Written(d)' /\ Indexed(d)' /\ Fetched(d)' /\ NothingYet(d)'
  BY DEF Written, Indexed, Fetched, NothingYet, OnAt, On, Reworks
<1> QED
  BY <1>1, <1>2 DEF EnrichInv

\* A step beside the run.
LEMMA EnrichWaits ==
  ASSUME NEW d \in Docs, EnrichInv(d), run' = run, stale' = stale,
         \A l \in Leaves : Fresh(d, l)' => Fresh(d, l),
         fts'[d] = fts[d] \/ Incomplete(d)', Incomplete(d) => Incomplete(d)',
         row[d] = "deleted" => row'[d] = "deleted",
         \A l \in Leaves :
           files[d][l] = "rich" => files'[d][l] = "rich" \/ row'[d] = "deleted"
  PROVE  EnrichInv(d)'
<1>1. \A stages : OnAt(d, stages)' <=> OnAt(d, stages)
  BY DEF OnAt, On
<1>2. Shown(d)'
  BY <1>1 DEF EnrichInv, Shown
<1>3. Written(d)'
  BY <1>1 DEF EnrichInv, Written
<1>4. Indexed(d)'
  BY <1>1 DEF EnrichInv, Indexed, Incomplete
<1>5. Fetched(d)' /\ NothingYet(d)'
  BY <1>1 DEF EnrichInv, Fetched, NothingYet
<1> QED
  BY <1>2, <1>3, <1>4, <1>5 DEF EnrichInv

LEMMA EnrichBeside ==
  ASSUME ShareInv, TypeOK', [Next]_vars, NEW d \in Docs, EnrichInv(d),
         \/ UNCHANGED vars
         \/ \E e \in Docs : UploadStore(e) \/ Reprocess(e) \/ DeleteRows(e)
         \/ CreateDoc \/ Enqueue \/ DeleteDoc \/ UnlinkBook \/ RemoveDir
         \/ \E g \in Paths : GhostEnriches(g)
  PROVE  EnrichInv(d)'
<1> USE DEF docVars, diskVars, shareVars, jobVars, boundVars
<1>0. TypeOK /\ WebRow
  BY DEF ShareInv
<1>1. UNCHANGED <<run, stale, partial>>
  BY DEF vars, UploadStore, Reprocess, DeleteRows, CreateDoc, Enqueue, DeleteDoc,
         UnlinkBook, RemoveDir, GhostEnriches
<1>2. \A l \in Leaves : Fresh(d, l)' => Fresh(d, l)
  <2> SUFFICES ASSUME NEW l \in Leaves, Fresh(d, l)', ~Fresh(d, l) PROVE FALSE
    OBVIOUS
  <2>1. run # NoRun /\ (CheckpointLeaf(l) \/ CopySourceMeta)
    BY <1>0, FreshSteps DEF On
  <2>2. run' # run
    BY <1>0, <2>1, RunThere DEF CheckpointLeaf, CopySourceMeta, Goto, Runs, At
  <2> QED
    BY <1>1, <2>2
<1>3. row[d] = "deleted" => row'[d] = "deleted"
  BY <1>0, RowSteps
<1>4. Incomplete(d) => Incomplete(d)'
  BY <1>0, <1>1, IncompleteStays
<1>5. fts'[d] = fts[d] \/ Incomplete(d)'
  <2>1. ASSUME NEW e \in Docs, DeleteRows(e) PROVE fts'[d] = fts[d] \/ Incomplete(d)'
    BY <1>0, <2>1 DEF DeleteRows, TypeOK, Incomplete, BeingDeleted
  <2> QED
    BY <2>1 DEF vars, UploadStore, Reprocess, CreateDoc, Enqueue, DeleteDoc,
                UnlinkBook, RemoveDir, GhostEnriches
<1>6. \A l \in Leaves :
        files[d][l] = "rich" => files'[d][l] = "rich" \/ row'[d] = "deleted"
  <2>1. CASE files' = files
    BY <2>1
  <2>2. CASE RemoveDir
    BY <1>0, <2>2 DEF RemoveDir, WebRow, TypeOK
  <2>3. ASSUME NEW g \in Paths, GhostEnriches(g), files' # files
        PROVE  \A l \in Leaves : files[d][l] = "rich" => files'[d][l] = "rich"
    <3>1. files' = [files EXCEPT ![g[1]][g[2]] = "rich"]
      BY <2>3 DEF GhostEnriches, WriteFrontmatter
    <3> QED
      BY <1>0, <3>1 DEF TypeOK
  <2> QED
    BY <2>1, <2>2, <2>3 DEF vars, UploadStore, Reprocess, DeleteRows, CreateDoc,
                            Enqueue, DeleteDoc, UnlinkBook
<1> QED
  BY <1>1, <1>2, <1>3, <1>4, <1>5, <1>6, EnrichWaits

\* The steps of the run on its document before and after the rework.
LEMMA EnrichPlain ==
  ASSUME ShareInv, TypeOK', [Next]_vars, NEW d \in Docs, On(d), EnrichInv(d),
         \/ StartExtract \/ Extract \/ MatchSharedBook \/ RemoveOwnDir
         \/ CopySourceDir \/ LinkCopy \/ CopyDone \/ CopyComplete
         \/ CompleteJob \/ RegisterBook \/ LinkBook \/ FailDoc \/ FailJob
         \/ FailTimedOutJob \/ FailTimedOutDoc
         \/ (StageRaises \/ TimesOut) /\ run.at \notin Reworks
  PROVE  EnrichInv(d)'
<1> USE DEF docVars, diskVars, shareVars, jobVars, boundVars
<1>0. /\ TypeOK /\ WebRow /\ run \in Runs /\ run # NoRun /\ run.doc = d
  BY DEF ShareInv, TypeOK, On
<1>1. UNCHANGED <<fts, partial>>
  BY DEF StartExtract, Extract, MatchSharedBook, RemoveOwnDir, CopySourceDir, LinkCopy,
         CopyDone, CopyComplete, CompleteJob, RegisterBook, LinkBook, FailDoc,
         FailJob, FailTimedOutJob, FailTimedOutDoc, StageRaises, TimesOut
<1>2. Incomplete(d) => Incomplete(d)'
  BY <1>0, <1>1, IncompleteStays
<1>3. run.at \notin Reworks
  BY DEF StartExtract, Extract, MatchSharedBook, RemoveOwnDir, CopySourceDir, LinkCopy,
         CopyDone, CopyComplete, CompleteJob, RegisterBook, LinkBook, FailDoc,
         FailJob, FailTimedOutJob, FailTimedOutDoc, At, Reworks
<1>4. \A l \in Leaves : Fresh(d, l)' => Fresh(d, l)
  BY <1>0, <1>3, FreshSteps DEF CheckpointLeaf, CopySourceMeta, At, Reworks
<1>5. \/ run' = NoRun
      \/ /\ run'.at \notin Reworks /\ run'.pending = run.pending
         /\ run'.at \in Early => run.at \in Early
  <2>1. CASE StartExtract \/ Extract \/ MatchSharedBook \/ RemoveOwnDir \/ CopySourceDir
    BY <1>0, <2>1 DEF StartExtract, Extract, MatchSharedBook, RemoveOwnDir,
                      CopySourceDir, At, Goto, Runs, Reworks, Early
  <2>2. CASE LinkCopy \/ CopyDone \/ CompleteJob \/ RegisterBook
    BY <1>0, <2>2 DEF LinkCopy, CopyDone, CompleteJob, RegisterBook, Goto, Runs,
                      Reworks, Early
  <2>3. CASE FailDoc \/ FailTimedOutJob \/ StageRaises \/ TimesOut
    BY <1>0, <2>3 DEF FailDoc, FailTimedOutJob, StageRaises, TimesOut, Goto, Runs,
                      Reworks, Early
  <2> QED
    BY <2>1, <2>2, <2>3
       DEF CopyComplete, LinkBook, FailJob, FailTimedOutDoc
<1>6. ~OnAt(d, Reworks) /\ ~OnAt(d, Reworks)' /\ (OnAt(d, Early)' => run'.pending = {})
  BY <1>0, <1>3, <1>5 DEF OnAt, On, EnrichInv, NothingYet
<1> QED
  BY <1>1, <1>2, <1>4, <1>6, EnrichCalm

\* The rework itself: the copy of what the source has, ...
LEMMA EnrichCopies ==
  ASSUME ShareInv, TypeOK', [Next]_vars, NEW d \in Docs, On(d),
         \A e \in Docs : EnrichInv(e), CopySourceRows \/ CopySourceMeta
  PROVE  EnrichInv(d)'
<1> USE DEF docVars, diskVars, shareVars, jobVars, boundVars
<1>0. /\ TypeOK /\ WebRow /\ SourceIs /\ run \in Runs /\ run # NoRun /\ run.doc = d
      /\ row[d] # "none"
  BY DEF ShareInv, TypeOK, On, RowFirst
<1>1. CASE CopySourceRows
  <2>1. /\ run.at = "copyrows" /\ run.src \in Docs /\ run.src # d
        /\ row[run.src] # "none" /\ stale' = stale
        /\ run'.at = "copymeta" /\ run'.doc = d /\ run'.src = run.src
        /\ run'.got = IF RowExists(run.src) THEN checkpoint[run.src] ELSE checkpoint[d]
    BY <1>0, <1>1, SourceThere DEF CopySourceRows, CopyStages, At, Runs, SourceIs
  <2>2. Incomplete(run.src) => Incomplete(d)'
    BY <1>0, <1>1 DEF CopySourceRows, Incomplete
  <2>3. ASSUME NEW l \in Leaves, NEW s \in Docs, <<s, l>> \in run'.got,
               <<run.src, l>> \notin stale
        PROVE  fts'[d][l].rich > 0 \/ Incomplete(d)'
    <3>1. CASE Incomplete(run.src)
      BY <2>2, <3>1
    <3>2. CASE ~Incomplete(run.src)
      <4>1. Fresh(run.src, l)
        BY <2>1, <2>3, <3>2 DEF Incomplete, RowExists, Fresh, Entry
      <4>2. fts[run.src][l].rich > 0
        BY <1>0, <2>1, <3>2, <4>1 DEF EnrichInv, Shown, OnAt, On
      <4>3. /\ fts'[d][l].rich = fts[d][l].rich + fts[run.src][l].rich
            /\ fts[d][l].rich \in Nat /\ fts[run.src][l].rich \in Nat
        BY <1>0, <1>1, <2>1 DEF CopySourceRows, TypeOK
      <4> QED
        BY <4>2, <4>3
    <3> QED
      BY <3>1, <3>2
  <2>4. Fetched(d)'
    BY <2>1, <2>3 DEF Fetched
  <2>5. Shown(d)' /\ Written(d)' /\ Indexed(d)' /\ NothingYet(d)'
    BY <1>0, <2>1, NoDocAssumption
       DEF Shown, Written, Indexed, NothingYet, OnAt, On, Reworks, Early, NoRun
  <2> QED
    BY <2>4, <2>5 DEF EnrichInv
<1>2. CASE CopySourceMeta
  <2>1. /\ run.at = "copymeta" /\ run'.at = "copylink"
        /\ UNCHANGED <<fts, partial>>
        /\ \A l \in Leaves : <<d, l>> \notin stale' => <<run.src, l>> \notin stale
    BY <1>0, <1>2 DEF CopySourceMeta, At, Goto, Runs, Paths
  <2>2. Incomplete(d) => Incomplete(d)'
    BY <1>0, <2>1, IncompleteStays
  <2>3. ASSUME NEW l \in Leaves, Fresh(d, l)'
        PROVE  fts[d][l].rich > 0 \/ Incomplete(d)
    <3>1. CASE ~RowExists(d)
      BY <1>0, <3>1 DEF RowExists, Incomplete
    <3>2. CASE RowExists(d)
      <4>1. checkpoint'[d] = run.got
        BY <1>0, <1>2, <3>2 DEF CopySourceMeta, WithRow, TypeOK
      <4>2. PICK s \in Docs : <<s, l>> \in run.got
        BY <2>3, <4>1 DEF Fresh, Entry
      <4>3. <<run.src, l>> \notin stale
        BY <2>1, <2>3 DEF Fresh
      <4> QED
        BY <1>0, <2>1, <4>2, <4>3 DEF EnrichInv, Fetched, OnAt, On
    <3> QED
      BY <3>1, <3>2
  <2>4. Shown(d)'
    BY <2>1, <2>2, <2>3 DEF Shown
  <2>5. Written(d)' /\ Indexed(d)' /\ Fetched(d)' /\ NothingYet(d)'
    BY <2>1 DEF Written, Indexed, Fetched, NothingYet, OnAt, Early
  <2> QED
    BY <2>4, <2>5 DEF EnrichInv
<1> QED
  BY <1>1, <1>2

\* ... the enrichment, ...
LEMMA EnrichWrites ==
  ASSUME ShareInv, TypeOK', [Next]_vars, NEW d \in Docs, On(d), EnrichInv(d),
         \/ Tier \/ PlanEnrichment \/ EnrichEnds
         \/ \E l \in Leaves : EnrichLeaf(l) \/ CheckpointLeaf(l)
  PROVE  EnrichInv(d)'
<1> USE DEF docVars, diskVars, shareVars, jobVars, boundVars
<1>0. /\ TypeOK /\ WebRow /\ run \in Runs /\ run # NoRun /\ run.doc = d
      /\ row[d] = "deleted" => row'[d] = "deleted"
  BY RowSteps DEF ShareInv, TypeOK, On
\* Nothing but the files matters while the leaves are enriched.
<1>1. ASSUME run' # NoRun, run'.at \in {"plan", "enrich", "clear"}, Written(d)', NothingYet(d)'
      PROVE  EnrichInv(d)'
  <2>1. Shown(d)' /\ Indexed(d)' /\ Fetched(d)'
    <3>1. run'.doc = d
      BY <1>0 DEF Tier, PlanEnrichment, EnrichEnds, EnrichLeaf, CheckpointLeaf, Goto, Runs
    <3> QED
      BY <1>1, <3>1 DEF Shown, Indexed, Fetched, OnAt, On, Reworks
  <2> QED
    BY <1>1, <2>1 DEF EnrichInv
<1>2. CASE Tier
  <2>1. /\ run.at = "tier" /\ run'.at = "plan" /\ run'.doc = d
        /\ run'.pending = run.pending /\ stale' = Outdated(d)
    BY <1>0, <1>2 DEF Tier, At, Goto, Runs
  <2>2. run.pending = {}
    BY <1>0, <2>1 DEF EnrichInv, NothingYet, OnAt, On, Early
  <2>3. Written(d)' /\ NothingYet(d)'
    BY <2>1, <2>2 DEF Written, NothingYet, OnAt, Outdated
  <2> QED
    BY <1>1, <2>1, <2>3, NoDocAssumption DEF NoRun
<1>3. CASE PlanEnrichment
  <2>1. /\ run.at = "plan" /\ run'.at = "enrich" /\ run'.doc = d
        /\ run'.pending = run.pending /\ UNCHANGED <<stale, checkpoint>>
    BY <1>0, <1>3 DEF PlanEnrichment, At, Runs
  <2>2. run.pending = {} /\ \A l \in Leaves : <<d, l>> \in stale
    BY <1>0, <2>1 DEF EnrichInv, NothingYet, OnAt, On, Early
  <2>3. Written(d)' /\ NothingYet(d)'
    BY <2>1, <2>2 DEF Written, NothingYet, OnAt, Early, Fresh
  <2> QED
    BY <1>1, <2>1, <2>3, NoDocAssumption DEF NoRun
<1>4. CASE EnrichEnds
  <2>1. /\ run.at = "enrich" /\ run'.at = "clear" /\ run'.doc = d
        /\ UNCHANGED <<files, stale, checkpoint>>
    BY <1>0, <1>4 DEF EnrichEnds, At, Goto, Runs
  <2>2. \A l \in Leaves : Fresh(d, l)' => files[d][l] = "rich" \/ row[d] = "deleted"
    BY <1>0, <2>1 DEF EnrichInv, Written, OnAt, On, Fresh, Entry
  <2>3. Written(d)' /\ NothingYet(d)'
    BY <1>0, <2>1, <2>2 DEF Written, NothingYet, OnAt, Early
  <2> QED
    BY <1>1, <2>1, <2>3, NoDocAssumption DEF NoRun
<1>5. ASSUME NEW m \in Leaves, EnrichLeaf(m) PROVE EnrichInv(d)'
  <2>1. /\ run.at = "enrich" /\ run'.at = "enrich" /\ run'.doc = d
        /\ UNCHANGED <<row, stale, checkpoint>>
        /\ \/ files' = files /\ run'.pending = run.pending
           \/ /\ files' = [files EXCEPT ![d][m] = "rich"]
              /\ run'.pending \subseteq run.pending \cup {m}
    BY <1>0, <1>5 DEF EnrichLeaf, WriteFrontmatter, At, Runs
  <2>2. ASSUME NEW l \in Leaves, Fresh(d, l)' \/ l \in run'.pending
        PROVE  files'[d][l] = "rich" \/ row[d] = "deleted"
    <3>1. CASE files' = [files EXCEPT ![d][m] = "rich"] /\ l = m
      BY <1>0, <3>1 DEF TypeOK
    <3>2. CASE Fresh(d, l) \/ l \in run.pending
      <4>1. files[d][l] = "rich" \/ row[d] = "deleted"
        BY <1>0, <2>1, <3>2 DEF EnrichInv, Written, OnAt, On
      <4> QED
        BY <1>0, <2>1, <4>1 DEF TypeOK
    <3> QED
      BY <2>1, <2>2, <3>1, <3>2 DEF Fresh, Entry
  <2>3. Written(d)' /\ NothingYet(d)'
    BY <2>1, <2>2 DEF Written, NothingYet, OnAt, Early
  <2> QED
    BY <1>1, <2>1, <2>3, NoDocAssumption DEF NoRun
<1>6. ASSUME NEW m \in Leaves, CheckpointLeaf(m) PROVE EnrichInv(d)'
  <2>1. /\ run.at = "enrich" /\ run'.at = "enrich" /\ run'.doc = d
        /\ UNCHANGED <<row, files>> /\ m \in run.pending
        /\ run'.pending = run.pending \ {m}
    BY <1>0, <1>6 DEF CheckpointLeaf, At, Runs
  <2>2. ASSUME NEW l \in Leaves, Fresh(d, l)' \/ l \in run'.pending
        PROVE  files[d][l] = "rich" \/ row[d] = "deleted"
    <3>1. Fresh(d, l) \/ l \in run.pending
      <4>1. CASE Fresh(d, l)'
        <5>1. \/ Fresh(d, l) \/ CheckpointLeaf(l) \/ CopySourceMeta
          BY <1>0, <4>1, FreshSteps
        <5> QED
          BY <2>1, <5>1 DEF CheckpointLeaf, CopySourceMeta, At
      <4> QED
        BY <2>1, <2>2, <4>1
    <3> QED
      BY <1>0, <2>1, <3>1 DEF EnrichInv, Written, OnAt, On
  <2>3. Written(d)' /\ NothingYet(d)'
    BY <2>1, <2>2 DEF Written, NothingYet, OnAt, Early
  <2> QED
    BY <1>1, <2>1, <2>3, NoDocAssumption DEF NoRun
<1> QED
  BY <1>2, <1>3, <1>4, <1>5, <1>6

\* ... and the index.
LEMMA EnrichIndexes ==
  ASSUME ShareInv, TypeOK', [Next]_vars, NEW d \in Docs, On(d), EnrichInv(d),
         ClearRows \/ DocDone \/ \E l \in Leaves : IndexLeaf(l)
  PROVE  EnrichInv(d)'
<1> USE DEF docVars, diskVars, shareVars, jobVars, boundVars
<1>0. /\ TypeOK /\ WebRow /\ run \in Runs /\ run # NoRun /\ run.doc = d
      /\ row[d] = "deleted" => row'[d] = "deleted"
  BY RowSteps DEF ShareInv, TypeOK, On
<1>1. /\ run.at \in {"clear", "index"} /\ UNCHANGED <<files, checkpoint, stale>>
      /\ \A l \in Leaves : Fresh(d, l)' => Fresh(d, l)
  BY <1>0 DEF ClearRows, DocDone, IndexLeaf, At, Fresh, Entry
<1>2. CASE ClearRows
  <2>1. /\ run.at = "clear" /\ run'.at = "index" /\ run'.doc = d /\ run'.todo = Leaves
    BY <1>0, <1>2 DEF ClearRows, At, Runs
  <2>2. \A l \in Leaves : Fresh(d, l) => files[d][l] = "rich" \/ row[d] = "deleted"
    BY <1>0, <2>1 DEF EnrichInv, Written, OnAt, On
  <2>3. Indexed(d)'
    BY <1>0, <1>1, <2>1, <2>2 DEF Indexed, Incomplete
  <2>4. Shown(d)' /\ Written(d)' /\ Fetched(d)' /\ NothingYet(d)'
    BY <1>0, <2>1, NoDocAssumption
       DEF Shown, Written, Fetched, NothingYet, OnAt, On, Reworks, Early, NoRun
  <2> QED
    BY <2>3, <2>4 DEF EnrichInv
<1>3. CASE DocDone
  <2>1. /\ run.at = "index" /\ run'.at = "complete" /\ run.todo = {}
        /\ UNCHANGED <<fts, partial>>
    BY <1>0, <1>3 DEF DocDone, At, Goto, Runs
  <2>2. \A l \in Leaves : Fresh(d, l) => fts[d][l].rich > 0 \/ Incomplete(d)
    BY <1>0, <2>1 DEF EnrichInv, Indexed, OnAt, On
  <2>3. Incomplete(d) => Incomplete(d)'
    BY <1>0, <2>1, IncompleteStays
  <2>4. Shown(d)'
    BY <1>1, <2>1, <2>2, <2>3 DEF Shown
  <2>5. Written(d)' /\ Indexed(d)' /\ Fetched(d)' /\ NothingYet(d)'
    BY <2>1 DEF Written, Indexed, Fetched, NothingYet, OnAt, Early
  <2> QED
    BY <2>4, <2>5 DEF EnrichInv
<1>4. ASSUME NEW m \in Leaves, IndexLeaf(m) PROVE EnrichInv(d)'
  <2>1. /\ run.at = "index" /\ run'.at = "index" /\ run'.doc = d
        /\ run'.todo = run.todo \ {m} /\ UNCHANGED partial
        /\ fts' = IF files[d][m] = "plain"
                    THEN [fts EXCEPT ![d][m].plain = @ + 1]
                    ELSE [fts EXCEPT ![d][m].rich = @ + 1]
    BY <1>0, <1>4 DEF IndexLeaf, At, Runs
  <2>2. Incomplete(d) => Incomplete(d)'
    BY <1>0, <2>1, IncompleteStays
  <2>3. \A l \in Leaves :
          /\ fts[d][l].rich \in Nat /\ fts'[d][l].rich >= fts[d][l].rich
          /\ l = m /\ files[d][m] = "rich" => fts'[d][l].rich > 0
    <3> SUFFICES ASSUME NEW l \in Leaves
                 PROVE  /\ fts[d][l].rich \in Nat /\ fts'[d][l].rich >= fts[d][l].rich
                        /\ l = m /\ files[d][m] = "rich" => fts'[d][l].rich > 0
      OBVIOUS
    <3>1. fts[d][l].rich \in Nat
      BY <1>0 DEF TypeOK
    <3>2. CASE files[d][m] = "plain"
      <4>1. fts'[d][l].rich = fts[d][l].rich
        BY <1>0, <2>1, <3>2 DEF TypeOK
      <4> QED
        BY <3>1, <3>2, <4>1
    <3>3. CASE files[d][m] # "plain"
      <4>1. fts' = [fts EXCEPT ![d][m].rich = @ + 1]
        BY <2>1, <3>3
      <4>2. fts'[d][l].rich = IF l = m THEN fts[d][l].rich + 1 ELSE fts[d][l].rich
        BY <1>0, <4>1 DEF TypeOK
      <4> QED
        BY <3>1, <4>2
    <3> QED
      BY <3>2, <3>3
  <2>4. ASSUME NEW l \in Leaves, Fresh(d, l)
        PROVE  \/ fts'[d][l].rich > 0 \/ Incomplete(d)'
               \/ files[d][l] = "rich" /\ l \in run'.todo
    <3>1. \/ fts[d][l].rich > 0 \/ Incomplete(d)
          \/ files[d][l] = "rich" /\ l \in run.todo
      BY <1>0, <2>1, <2>4 DEF EnrichInv, Indexed, OnAt, On
    <3>2. fts[d][l].rich > 0 => fts'[d][l].rich > 0
      <4>1. fts[d][l].rich \in Nat /\ fts'[d][l].rich >= fts[d][l].rich
            /\ fts'[d][l].rich \in Nat
        BY <2>3 DEF TypeOK
      <4> QED
        BY <4>1
    <3> QED
      BY <2>1, <2>2, <2>3, <3>1, <3>2
  <2>5. Indexed(d)'
    BY <1>1, <2>4 DEF Indexed
  <2>6. Shown(d)' /\ Written(d)' /\ Fetched(d)' /\ NothingYet(d)'
    BY <1>0, <2>1, NoDocAssumption
       DEF Shown, Written, Fetched, NothingYet, OnAt, On, Reworks, Early, NoRun
  <2> QED
    BY <2>5, <2>6 DEF EnrichInv
<1> QED
  BY <1>2, <1>3, <1>4

\* An interrupted rework outdates what it has not brought into the index.
LEMMA EnrichBreaks ==
  ASSUME ShareInv, TypeOK', [Next]_vars, NEW d \in Docs, EnrichInv(d),
         \/ Crash
         \/ On(d) /\ run.at \in Reworks /\ (StageRaises \/ TimesOut)
  PROVE  EnrichInv(d)'
<1> USE DEF docVars, diskVars, shareVars, jobVars, boundVars
<1>0. TypeOK /\ WebRow /\ SearchInv(d) /\ UNCHANGED <<fts, checkpoint>>
  BY DEF ShareInv, Crash, StageRaises, TimesOut
<1>1. d \in partial => d \in partial'
  BY DEF Crash, StageRaises, TimesOut
<1>2. Incomplete(d) => Incomplete(d)'
  BY <1>0, <1>1, IncompleteStays
<1>3. \A l \in Leaves : Fresh(d, l)' => Fresh(d, l)
  BY <1>0 DEF Crash, StageRaises, TimesOut, Outdated, Fresh, Entry
<1>4. ~OnAt(d, Reworks)' /\ ~OnAt(d, Early)'
  <2>1. CASE Crash
    BY <2>1 DEF Crash, OnAt, On
  <2>2. CASE On(d) /\ (StageRaises \/ TimesOut)
    BY <1>0, <2>2 DEF StageRaises, TimesOut, Goto, TypeOK, Runs, OnAt, On, Reworks, Early
  <2> QED
    BY <2>1, <2>2
<1>5. CASE ~OnAt(d, Reworks)
  BY <1>0, <1>2, <1>3, <1>4, <1>5, EnrichCalm
<1>6. CASE OnAt(d, Reworks) /\ StageRaises
  <2>1. row[d] = "deleted"
    BY <1>0, <1>6
       DEF StageRaises, At, OnAt, On, Reworks, SearchInv, DirIs, Filled, Full, TypeOK, Runs
  <2>2. Shown(d)'
    BY <1>2, <2>1 DEF Shown, Incomplete
  <2> QED
    BY <1>4, <2>2 DEF EnrichInv, Written, Indexed, Fetched, NothingYet, OnAt, Reworks, Early
<1>7. CASE OnAt(d, Reworks) /\ (Crash \/ TimesOut)
  <2>1. \A l \in Leaves : <<d, l>> \in stale'
    <3>1. CASE run.at = "plan"
      <4>1. \A l \in Leaves : <<d, l>> \in stale
        BY <1>7, <3>1 DEF EnrichInv, NothingYet, OnAt
      <4> QED
        BY <4>1 DEF Crash, StageRaises, TimesOut, Outdated
    <3>2. CASE run.at # "plan" /\ Crash
      BY <1>7, <3>2 DEF Crash, OnAt, On, Reworks, At, Outdated
    <3>3. CASE run.at # "plan" /\ TimesOut
      BY <1>7, <3>3 DEF TimesOut, OnAt, On, Reworks, At, Outdated
    <3> QED
      BY <1>7, <3>1, <3>2, <3>3
  <2>2. Shown(d)'
    BY <2>1 DEF Shown, Fresh
  <2> QED
    BY <1>4, <2>2 DEF EnrichInv, Written, Indexed, Fetched, NothingYet, OnAt, Reworks, Early
<1> QED
  BY <1>5, <1>6, <1>7 DEF OnAt

LEMMA EnrichStep ==
  ASSUME ShareInv, TypeOK', [Next]_vars, NEW d \in Docs, \A e \in Docs : EnrichInv(e)
  PROVE  EnrichInv(d)'
<1>0. TypeOK /\ WebRow /\ EnrichInv(d)
  BY DEF ShareInv
<1>1. ASSUME NEW k \in Jobs, Claim(k) PROVE EnrichInv(d)'
  <2>1. /\ run = NoRun /\ run'.at = "start" /\ run'.pending = {}
        /\ UNCHANGED <<fts, partial>>
    BY <1>1 DEF Claim, docVars, boundVars
  <2>2. \A l \in Leaves : Fresh(d, l)' => Fresh(d, l)
    BY <1>0, <2>1, FreshSteps DEF On
  <2>3. Incomplete(d) => Incomplete(d)'
    BY <1>0, <2>1, IncompleteStays
  <2>4. ~OnAt(d, Reworks) /\ ~OnAt(d, Reworks)' /\ (OnAt(d, Early)' => run'.pending = {})
    BY <2>1 DEF OnAt, On, Reworks
  <2> QED
    BY <1>0, <2>1, <2>2, <2>3, <2>4, EnrichCalm
<1>2. CASE RunSteps /\ run.doc # d
  <2>1. Kept(d) /\ ~On(d) /\ ~On(d)' /\ fts'[d] = fts[d]
    BY <1>0, <1>2, RunKeeps DEF On
  <2>2. \A l \in Leaves : Fresh(d, l)' => Fresh(d, l)
    BY <1>0, <2>1, FreshSteps
  <2> QED
    BY <1>0, <2>1, <2>2, EnrichCalm DEF Kept, OnAt
<1>3. CASE RunSteps /\ run.doc = d
  <2>1. On(d)
    BY <1>0, <1>3, NoDocAssumption DEF On, NoRun
  <2> QED
    BY <1>0, <1>3, <2>1, EnrichPlain, EnrichCopies, EnrichWrites, EnrichIndexes,
       EnrichBreaks DEF RunSteps
<1> QED
  BY <1>0, <1>1, <1>2, <1>3, EnrichBeside, EnrichBreaks, NextCases DEF RunSteps

\* The enrichment a document's checkpoint tells of is in its index, copied or not,
\* unless an interruption or a later run has outdated it.
THEOREM EnrichmentShown == Spec => []EnrichedUnlessRewritten
<1> DEFINE Inv == \A d \in Docs : EnrichInv(d)
<1>1. Init => Inv
  BY DEF Init, EnrichInv, Shown, Written, Indexed, Fetched, NothingYet, OnAt, On,
         Fresh, Entry
<1>2. ShareInv /\ ShareInv' /\ Inv /\ [Next]_vars => Inv'
  BY EnrichStep DEF ShareInv
<1>3. ShareInv /\ Inv => EnrichedUnlessRewritten
  <2> SUFFICES ASSUME ShareInv, Inv, NEW d \in Docs, NEW l \in Leaves,
                      row[d] = "done", Fresh(d, l)
               PROVE  fts[d][l].rich > 0 \/ LostRows(d)
    BY DEF EnrichedUnlessRewritten, Fresh
  <2>1. ~OnAt(d, Reworks)
    BY DEF ShareInv, SearchInv, NotDone, OnAt, Reworks, Late
  <2> QED
    BY <2>1 DEF EnrichInv, Shown, Incomplete, LostRows
<1> HIDE DEF Inv
<1> QED
  BY <1>1, <1>2, <1>3, ShareHolds, PTL DEF Spec
-------------------------------------------------------------------------------
(* The PDF of a listed document.                                           *)

\* The PDF of d is not where its listing says, and why.
Excused(d) == <<d, "copytree">> \in cut \/ SourceGone(d)

PdfIs(d) == RowExists(d) /\ ~OnAt(d, {"copytree"}) => pdf[d] \/ Excused(d)

\* A directory without the PDF is what a copy, or a deletion, has left.
DirHasPdf(d) == DirExists(d) => pdf[d] \/ row[d] = "deleted" \/ SourceGone(d)

\* A run that writes the directory anew has read the PDF.
ReadPdf(d) == OnAt(d, {"match", "tier"}) => pdf[d] \/ row[d] = "deleted"

SourceDir(d) ==
  OnAt(d, {"remove", "copytree"}) => DirExists(run.src) \/ row[run.src] = "deleted"

UploadedPdf(d) == web # NoWeb /\ web.at = "row" /\ web.doc = d => pdf[d]

PdfInv(d) ==
  PdfIs(d) /\ DirHasPdf(d) /\ ReadPdf(d) /\ SourceDir(d) /\ UploadedPdf(d)

\* What excuses a document excuses it for good.
LEMMA ExcusedStays ==
  ASSUME TypeOK, WebRow, [Next]_vars, NEW d \in Docs
  PROVE  /\ SourceGone(d) => SourceGone(d)'
         /\ Excused(d) => Excused(d)'
<1>1. SourceGone(d) => SourceGone(d)'
  <2>1. \A s \in Docs : row[s] = "deleted" => row'[s] = "deleted"
    BY RowSteps
  <2> QED
    BY <2>1, ZenonT(30) DEF SourceGone
<1>2. <<d, "copytree">> \in cut => <<d, "copytree">> \in cut'
  <2>1. CASE Enqueue
    BY <2>1 DEF Enqueue
  <2>2. CASE Crash
    BY <2>2 DEF Crash
  <2>3. CASE RunSteps
    BY <2>3
       DEF RunSteps, boundVars, StartExtract, Extract, MatchSharedBook,
           RemoveOwnDir, CopySourceDir, CopySourceRows, CopySourceMeta, LinkCopy,
           CopyDone, CopyComplete, Tier, PlanEnrichment, EnrichEnds, ClearRows,
           EnrichLeaf, CheckpointLeaf, IndexLeaf, DocDone, CompleteJob,
           RegisterBook, LinkBook, StageRaises, FailDoc, FailJob,
           FailTimedOutJob, FailTimedOutDoc, TimesOut
  <2>4. CASE \/ UNCHANGED vars
             \/ \E e \in Docs : UploadStore(e) \/ Reprocess(e) \/ DeleteRows(e)
             \/ CreateDoc \/ DeleteDoc \/ UnlinkBook \/ RemoveDir
             \/ \E g \in Paths : GhostEnriches(g)
             \/ \E k \in Jobs : Claim(k)
    BY <2>4
       DEF boundVars, vars, UploadStore, Reprocess, DeleteRows, CreateDoc,
           DeleteDoc, UnlinkBook, RemoveDir, GhostEnriches, Claim
  <2> QED
    BY <2>1, <2>2, <2>3, <2>4, NextCases DEF RunSteps
<1> QED
  BY <1>1, <1>2 DEF Excused

\* A source that is gone, or has lost its PDF, is gone for its copy as well.
LEMMA GoneWithSource ==
  ASSUME ShareInv, NEW d \in Docs, On(d), run.at \in CopyStages
  PROVE  row[run.src] = "deleted" \/ SourceGone(run.src) => SourceGone(d)
<1>1. /\ run.src \in Docs /\ run.doc = d
      /\ Hash[run.src] = Hash[d] /\ Owner[run.src] # Owner[d]
  BY DEF ShareInv, TypeOK, SourceIs, On
<1>2. row[run.src] = "deleted" => SourceGone(d)
  BY <1>1 DEF SourceGone
<1>3. SourceGone(run.src) => SourceGone(d)
  BY <1>1 DEF SourceGone
<1> QED
  BY <1>2, <1>3

\* A step that takes no PDF from a document that stays.
LEMMA PdfCalm ==
  ASSUME TypeOK, WebRow, [Next]_vars, NEW d \in Docs, PdfInv(d),
         pdf[d] => pdf'[d] \/ row'[d] = "deleted",
         DirExists(d)' => DirExists(d) \/ pdf'[d] \/ row'[d] = "deleted",
         RowExists(d)' => RowExists(d) \/ pdf'[d],
         OnAt(d, {"copytree"}) => OnAt(d, {"copytree"})',
         OnAt(d, {"match", "tier"})' => OnAt(d, {"match", "tier"}) \/ pdf'[d],
         SourceDir(d)',
         UploadedPdf(d)'
  PROVE  PdfInv(d)'
<1>1. row[d] = "deleted" => row'[d] = "deleted"
  BY RowSteps
<1>2. PdfIs(d)'
  BY <1>1, ExcusedStays DEF PdfInv, PdfIs, RowExists
<1>3. DirHasPdf(d)'
  BY <1>1, ExcusedStays DEF PdfInv, DirHasPdf
<1>4. ReadPdf(d)'
  BY <1>1 DEF PdfInv, ReadPdf
<1> QED
  BY <1>2, <1>3, <1>4 DEF PdfInv

\* The directories, when the run is not at work.
LEMMA WebDirs ==
  ASSUME TypeOK, WebRow, [Next]_vars, NEW d \in Docs,
         \/ UNCHANGED vars
         \/ \E e \in Docs : UploadStore(e) \/ Reprocess(e) \/ DeleteRows(e)
         \/ CreateDoc \/ Enqueue \/ DeleteDoc \/ UnlinkBook \/ RemoveDir
         \/ \E g \in Paths : GhostEnriches(g)
         \/ (\E k \in Jobs : Claim(k)) \/ Crash
  PROVE  /\ DirExists(d) => DirExists(d)' \/ row'[d] = "deleted"
         /\ DirExists(d)' => DirExists(d) \/ pdf'[d]
         /\ pdf[d] => pdf'[d] \/ row'[d] = "deleted"
<1> USE DEF docVars, diskVars, shareVars, jobVars, boundVars
<1> DEFINE Goal ==
      /\ DirExists(d) => DirExists(d)' \/ row'[d] = "deleted"
      /\ DirExists(d)' => DirExists(d) \/ pdf'[d]
      /\ pdf[d] => pdf'[d] \/ row'[d] = "deleted"
<1>1. CASE UNCHANGED <<pdf, files>>
  BY <1>1 DEF DirExists
<1>2. ASSUME NEW e \in Docs, UploadStore(e) PROVE Goal
  <2>1. UNCHANGED files /\ (pdf'[d] \/ pdf'[d] = pdf[d])
    BY <1>2 DEF UploadStore, TypeOK
  <2> QED
    BY <1>2, <2>1 DEF UploadStore, TypeOK, DirExists
<1>3. CASE RemoveDir
  <2>1. web.doc \in Docs
    BY <1>3, WebThere DEF RemoveDir
  <2>2. CASE d = web.doc
    <3>1. row'[d] = "deleted" /\ ~pdf'[d] /\ files'[d] = NoFiles
      BY <1>3, <2>1, <2>2 DEF RemoveDir, WebRow, TypeOK
    <3> QED
      BY <3>1 DEF DirExists, NoFiles
  <2>3. CASE d # web.doc
    <3>1. files'[d] = files[d] /\ pdf'[d] = pdf[d]
      BY <1>3, <2>1, <2>3 DEF RemoveDir, TypeOK
    <3> QED
      BY <3>1 DEF DirExists
  <2> QED
    BY <2>2, <2>3
<1>4. ASSUME NEW g \in Paths, GhostEnriches(g) PROVE Goal
  <2>1. /\ UNCHANGED pdf /\ g[1] \in Docs /\ g[2] \in Leaves
        /\ \/ files' = files
           \/ /\ files[g[1]][g[2]] # "absent"
              /\ files' = [files EXCEPT ![g[1]][g[2]] = "rich"]
    BY <1>4 DEF GhostEnriches, WriteFrontmatter, Paths
  <2>2. \A l \in Leaves : files'[d][l] = "absent" <=> files[d][l] = "absent"
    <3>1. CASE files' = files
      BY <3>1
    <3>2. CASE /\ files[g[1]][g[2]] # "absent"
               /\ files' = [files EXCEPT ![g[1]][g[2]] = "rich"]
      BY <2>1, <3>2 DEF TypeOK
    <3> QED
      BY <2>1, <3>1, <3>2
  <2> QED
    BY <2>1, <2>2 DEF DirExists
<1> QED
  BY <1>1, <1>2, <1>3, <1>4
     DEF vars, Reprocess, DeleteRows, CreateDoc, Enqueue, DeleteDoc, UnlinkBook,
         Claim, Crash

LEMMA PdfBeside ==
  ASSUME ShareInv, TypeOK', [Next]_vars, NEW d \in Docs, PdfInv(d),
         \/ UNCHANGED vars
         \/ \E e \in Docs : UploadStore(e) \/ Reprocess(e) \/ DeleteRows(e)
         \/ CreateDoc \/ Enqueue \/ DeleteDoc \/ UnlinkBook \/ RemoveDir
         \/ \E g \in Paths : GhostEnriches(g)
         \/ \E k \in Jobs : Claim(k)
  PROVE  PdfInv(d)'
<1> USE DEF docVars, diskVars, shareVars, jobVars, boundVars
<1>0. TypeOK /\ WebRow
  BY DEF ShareInv
<1>1. \A e \in Docs :
        /\ DirExists(e) => DirExists(e)' \/ row'[e] = "deleted"
        /\ DirExists(e)' => DirExists(e) \/ pdf'[e]
        /\ pdf[e] => pdf'[e] \/ row'[e] = "deleted"
  BY <1>0, WebDirs
<1>2. run' = run \/ (run = NoRun /\ run'.at = "start")
  BY DEF vars, UploadStore, Reprocess, DeleteRows, CreateDoc, Enqueue, DeleteDoc,
         UnlinkBook, RemoveDir, GhostEnriches, Claim
<1>3. /\ OnAt(d, {"copytree"}) => OnAt(d, {"copytree"})'
      /\ OnAt(d, {"match", "tier"})' => OnAt(d, {"match", "tier"})
  BY <1>2 DEF OnAt, On
<1>4. RowExists(d)' => RowExists(d) \/ pdf'[d]
  <2>1. CASE CreateDoc
    <3>1. CASE d = web.doc
      BY <2>1, <3>1 DEF CreateDoc, PdfInv, UploadedPdf
    <3>2. CASE d # web.doc
      BY <1>0, <2>1, <3>2 DEF CreateDoc, TypeOK, RowExists
    <3> QED
      BY <3>1, <3>2
  <2>2. CASE DeleteDoc \/ \E e \in Docs : Reprocess(e)
    BY <1>0, <2>2, WebThere DEF DeleteDoc, Reprocess, TypeOK, RowExists
  <2>3. CASE UNCHANGED row
    BY <2>3 DEF RowExists
  <2> QED
    BY <2>1, <2>2, <2>3
       DEF vars, UploadStore, DeleteRows, Enqueue, UnlinkBook, RemoveDir,
           GhostEnriches, Claim
<1>5. SourceDir(d)'
  <2>1. CASE OnAt(d, {"remove", "copytree"})'
    <3>1. run' = run /\ OnAt(d, {"remove", "copytree"})
      BY <1>2, <2>1 DEF OnAt, On
    <3>2. run.src \in Docs
      BY <1>0, <3>1 DEF OnAt, On, TypeOK, CopyStages
    <3>3. DirExists(run.src) \/ row[run.src] = "deleted"
      BY <3>1 DEF PdfInv, SourceDir
    <3>4. PICK s \in Docs : s = run.src
      BY <3>2
    <3>5. DirExists(s)' \/ row'[s] = "deleted"
      BY <1>0, <1>1, <3>3, <3>4, RowSteps
    <3>6. run'.src = s
      BY <3>1, <3>4
    <3> QED
      BY <3>5, <3>6 DEF SourceDir, DirExists
  <2> QED
    BY <2>1 DEF SourceDir
<1>6. UploadedPdf(d)'
  <2>1. CASE web' = web
    <3>1. row[d] = "none" /\ web # NoWeb /\ web.at = "row" /\ web.doc = d
          => row'[d] # "deleted"
      BY <1>0, <2>1, WebRowStep DEF WebRow
    <3> QED
      BY <1>0, <1>1, <2>1, <3>1 DEF WebRow, PdfInv, UploadedPdf
  <2>2. ASSUME NEW e \in Docs, UploadStore(e) PROVE UploadedPdf(d)'
    BY <1>0, <2>2 DEF UploadStore, UploadedPdf, TypeOK
  <2>3. CASE web' = NoWeb \/ web'.at # "row"
    BY <2>3 DEF UploadedPdf
  <2> QED
    BY <1>0, <2>1, <2>2, <2>3, WebThere
       DEF vars, Reprocess, DeleteRows, CreateDoc, Enqueue, DeleteDoc, UnlinkBook,
           RemoveDir, GhostEnriches, Claim
<1> QED
  BY <1>0, <1>1, <1>3, <1>4, <1>5, <1>6, PdfCalm

\* The run on its own document: it takes the PDF away in one place, ...
LEMMA PdfGoesOn ==
  ASSUME ShareInv, TypeOK', [Next]_vars, NEW d \in Docs, On(d), PdfInv(d), RunSteps,
         ~RemoveOwnDir, ~CopySourceDir, run.at # "copytree"
  PROVE  PdfInv(d)'
<1> USE DEF docVars, diskVars, shareVars, jobVars, boundVars
<1>0. /\ TypeOK /\ WebRow /\ run \in Runs /\ run # NoRun /\ run.doc = d
      /\ RowFirst
  BY DEF ShareInv, TypeOK, On
<1>1. pdf' = pdf /\ web' = web
  BY DEF RunSteps, StartExtract, Extract, MatchSharedBook, CopySourceRows,
         CopySourceMeta, LinkCopy, CopyDone, CopyComplete, Tier, PlanEnrichment,
         EnrichEnds, ClearRows, EnrichLeaf, CheckpointLeaf, IndexLeaf, DocDone,
         CompleteJob, RegisterBook, LinkBook, StageRaises, FailDoc, FailJob,
         FailTimedOutJob, FailTimedOutDoc, TimesOut
<1>2. RowExists(d)' => RowExists(d)
  <2>1. row' = row \/ \E s : row' = WithRow(row, d, s)
    BY <1>0
       DEF RunSteps, StartExtract, Extract, MatchSharedBook, CopySourceRows,
           CopySourceMeta, LinkCopy, CopyDone, CopyComplete, Tier, PlanEnrichment,
           EnrichEnds, ClearRows, EnrichLeaf, CheckpointLeaf, IndexLeaf, DocDone,
           CompleteJob, RegisterBook, LinkBook, StageRaises, FailDoc, FailJob,
           FailTimedOutJob, FailTimedOutDoc, TimesOut
  <2> QED
    BY <2>1 DEF WithRow, RowExists
<1>3. DirExists(d)' => DirExists(d) \/ pdf'[d] \/ row'[d] = "deleted"
  <2>1. CASE Tier \/ (TimesOut /\ At("tier"))
    <3>1. pdf[d] \/ row[d] = "deleted"
      BY <1>0, <2>1 DEF Tier, At, PdfInv, ReadPdf, OnAt, On
    <3> QED
      BY <1>0, <1>1, <3>1, RowSteps
  <2>2. ASSUME NEW l \in Leaves, EnrichLeaf(l)
        PROVE  DirExists(d)' => DirExists(d)
    <3>1. CASE files' = files
      BY <1>1, <3>1 DEF DirExists
    <3>2. CASE files[d][l] # "absent"
      BY <3>2 DEF DirExists
    <3> QED
      BY <1>0, <2>2, <3>1, <3>2 DEF EnrichLeaf, WriteFrontmatter
  <2>3. CASE files' = files
    BY <1>1, <2>3 DEF DirExists
  <2>4. \/ files' = files \/ Tier \/ (TimesOut /\ At("tier"))
        \/ \E l \in Leaves : EnrichLeaf(l)
    BY DEF RunSteps, StartExtract, Extract, MatchSharedBook, CopySourceRows,
           CopySourceMeta, LinkCopy, CopyDone, CopyComplete, PlanEnrichment,
           EnrichEnds, ClearRows, CheckpointLeaf, IndexLeaf, DocDone, CompleteJob,
           RegisterBook, LinkBook, StageRaises, FailDoc, FailJob,
           FailTimedOutJob, FailTimedOutDoc, TimesOut
  <2> QED
    BY <2>1, <2>2, <2>3, <2>4
<1>4. OnAt(d, {"match", "tier"})' => OnAt(d, {"match", "tier"}) \/ pdf'[d]
  <2>1. CASE Extract
    BY <1>0, <1>1, <2>1 DEF Extract
  <2>2. CASE MatchSharedBook
    BY <1>0, <2>2 DEF MatchSharedBook, At, OnAt, On
  <2>3. CASE ~Extract /\ ~MatchSharedBook
    BY <1>0, <2>3
       DEF RunSteps, StartExtract, CopySourceRows, CopySourceMeta, LinkCopy,
           CopyDone, CopyComplete, Tier, PlanEnrichment, EnrichEnds, ClearRows,
           EnrichLeaf, CheckpointLeaf, IndexLeaf, DocDone, CompleteJob,
           RegisterBook, LinkBook, StageRaises, FailDoc, FailJob,
           FailTimedOutJob, FailTimedOutDoc, TimesOut, At, Goto, Runs, OnAt, On
  <2> QED
    BY <2>1, <2>2, <2>3
<1>5. SourceDir(d)'
  <2>1. CASE MatchSharedBook
    <3>1. CASE Goto("tier")
      BY <1>0, <3>1 DEF Goto, Runs, SourceDir, OnAt, On
    <3>2. ASSUME NEW s \in Sources(d), run' = [run EXCEPT !.at = "remove", !.src = s]
          PROVE  SourceDir(d)'
      <4>1. DirExists(s) /\ run'.src = s /\ UNCHANGED <<pdf, files>>
        BY <1>0, <2>1, <3>2 DEF Sources, MatchSharedBook, Runs
      <4> QED
        BY <4>1 DEF SourceDir, DirExists
    <3> QED
      BY <1>0, <2>1, <3>1, <3>2 DEF MatchSharedBook
  <2>2. CASE ~MatchSharedBook
    <3>1. ~OnAt(d, {"remove", "copytree"})'
      BY <1>0, <2>2
         DEF RunSteps, StartExtract, Extract, CopySourceRows, CopySourceMeta,
             LinkCopy, CopyDone, CopyComplete, Tier, PlanEnrichment, EnrichEnds,
             ClearRows, EnrichLeaf, CheckpointLeaf, IndexLeaf, DocDone,
             CompleteJob, RegisterBook, LinkBook, StageRaises, FailDoc, FailJob,
             FailTimedOutJob, FailTimedOutDoc, TimesOut, At, Goto, Runs, OnAt, On
    <3> QED
      BY <3>1 DEF SourceDir
  <2> QED
    BY <2>1, <2>2
<1>6. UploadedPdf(d)'
  BY <1>1 DEF PdfInv, UploadedPdf
<1>7. ~OnAt(d, {"copytree"})
  BY DEF OnAt
<1> QED
  BY <1>0, <1>1, <1>2, <1>3, <1>4, <1>5, <1>6, <1>7, PdfCalm

\* ... and brings that of the source, if it is there.
LEMMA PdfCopies ==
  ASSUME ShareInv, TypeOK', [Next]_vars, NEW d \in Docs, On(d),
         \A e \in Docs : PdfInv(e),
         RemoveOwnDir \/ CopySourceDir \/ (StageRaises /\ run.at = "copytree")
  PROVE  PdfInv(d)'
<1> USE DEF docVars, diskVars, shareVars, jobVars, boundVars
<1>0. /\ TypeOK /\ WebRow /\ RowFirst /\ run \in Runs /\ run # NoRun /\ run.doc = d
      /\ run.at \in CopyStages /\ run.src \in Docs /\ run.src # d
      /\ UNCHANGED <<row, web, cut>>
  <2>1. run.at \in CopyStages
    BY DEF RemoveOwnDir, CopySourceDir, At, CopyStages
  <2> QED
    BY <2>1 DEF ShareInv, SourceIs, TypeOK, On, RemoveOwnDir, CopySourceDir,
                StageRaises
<1>1. /\ row[run.src] = "deleted" \/ SourceGone(run.src) => SourceGone(d)
      /\ SourceGone(d) => SourceGone(d)'
      /\ Excused(d) => Excused(d)'
  BY <1>0, GoneWithSource, ExcusedStays
<1>2. UploadedPdf(d)'
  BY <1>0 DEF WebRow, RowFirst, On, UploadedPdf
<1>3. CASE RemoveOwnDir
  <2>1. /\ run.at = "remove" /\ run'.at = "copytree" /\ run'.src = run.src
        /\ ~pdf'[d] /\ files'[d] = NoFiles
        /\ pdf'[run.src] = pdf[run.src] /\ files'[run.src] = files[run.src]
        /\ run'.doc = d /\ run' # NoRun
    BY <1>0, <1>3, NoDocAssumption DEF RemoveOwnDir, At, Goto, Runs, TypeOK, NoRun
  <2>2. ~DirExists(d)'
    BY <2>1 DEF DirExists, NoFiles
  <2>3. DirExists(run.src) \/ row[run.src] = "deleted"
    BY <1>0, <2>1 DEF PdfInv, SourceDir, OnAt, On
  <2>4. SourceDir(d)'
    BY <1>0, <2>1, <2>3 DEF SourceDir, DirExists
  <2>5. PdfIs(d)' /\ DirHasPdf(d)' /\ ReadPdf(d)'
    BY <2>1, <2>2 DEF PdfIs, DirHasPdf, ReadPdf, OnAt, On
  <2> QED
    BY <1>2, <2>4, <2>5 DEF PdfInv
<1>4. CASE CopySourceDir
  <2>1. /\ run.at = "copytree" /\ run'.at = "copyrows" /\ DirExists(run.src)
        /\ pdf'[d] = pdf[run.src]
    BY <1>0, <1>4 DEF CopySourceDir, At, Goto, Runs, TypeOK
  <2>2. pdf'[d] \/ SourceGone(d)
    BY <1>0, <1>1, <2>1 DEF PdfInv, DirHasPdf
  <2>3. PdfIs(d)' /\ DirHasPdf(d)'
    BY <1>1, <2>2 DEF PdfIs, DirHasPdf, Excused
  <2>4. ReadPdf(d)' /\ SourceDir(d)'
    BY <2>1 DEF ReadPdf, SourceDir, OnAt
  <2> QED
    BY <1>2, <2>3, <2>4 DEF PdfInv
<1>5. CASE StageRaises /\ run.at = "copytree"
  <2>1. ~DirExists(run.src) /\ run'.at = "failing" /\ UNCHANGED <<pdf, files>>
    BY <1>0, <1>5 DEF StageRaises, At, Goto, Runs
  <2>2. SourceGone(d)
    BY <1>0, <1>1, <1>5, <2>1 DEF PdfInv, SourceDir, OnAt, On
  <2>3. PdfIs(d)' /\ DirHasPdf(d)'
    BY <1>1, <2>2 DEF PdfIs, DirHasPdf, Excused
  <2>4. ReadPdf(d)' /\ SourceDir(d)'
    BY <2>1 DEF ReadPdf, SourceDir, OnAt
  <2> QED
    BY <1>2, <2>3, <2>4 DEF PdfInv
<1> QED
  BY <1>3, <1>4, <1>5

LEMMA PdfStep ==
  ASSUME ShareInv, TypeOK', [Next]_vars, NEW d \in Docs, \A e \in Docs : PdfInv(e)
  PROVE  PdfInv(d)'
<1>0. TypeOK /\ WebRow /\ PdfInv(d)
  BY DEF ShareInv
<1>1. CASE RunSteps /\ run.doc # d
  <2>1. /\ row'[d] = row[d] /\ ~On(d)' /\ ~On(d)
        /\ files'[d] = files[d] /\ pdf'[d] = pdf[d] /\ web' = web
    <3>1. web' = web
      BY <1>1
         DEF RunSteps, StartExtract, Extract, MatchSharedBook, RemoveOwnDir,
             CopySourceDir, CopySourceRows, CopySourceMeta, LinkCopy, CopyDone,
             CopyComplete, Tier, PlanEnrichment, EnrichEnds, ClearRows, EnrichLeaf,
             CheckpointLeaf, IndexLeaf, DocDone, CompleteJob, RegisterBook,
             LinkBook, StageRaises, FailDoc, FailJob, FailTimedOutJob,
             FailTimedOutDoc, TimesOut
    <3> QED
      BY <1>0, <1>1, <3>1, RunKeeps DEF On
  <2>2. /\ DirExists(d)' => DirExists(d)
        /\ RowExists(d)' => RowExists(d)
    BY <2>1 DEF DirExists, RowExists
  <2>3. SourceDir(d)' /\ UploadedPdf(d)'
    BY <1>0, <2>1 DEF SourceDir, PdfInv, UploadedPdf, OnAt
  <2> QED
    BY <1>0, <2>1, <2>2, <2>3, PdfCalm DEF OnAt
<1>2. CASE RunSteps /\ run.doc = d
  <2>1. On(d)
    BY <1>0, <1>2, NoDocAssumption DEF On, NoRun
  <2>2. CASE RemoveOwnDir \/ CopySourceDir \/ (StageRaises /\ run.at = "copytree")
    BY <2>1, <2>2, PdfCopies
  <2>3. CASE run.at # "copytree" /\ ~RemoveOwnDir /\ ~CopySourceDir
    BY <1>0, <1>2, <2>1, <2>3, PdfGoesOn
  <2>4. run.at = "copytree" => CopySourceDir \/ StageRaises
    BY <1>2
       DEF RunSteps, StartExtract, Extract, MatchSharedBook, RemoveOwnDir,
           CopySourceRows, CopySourceMeta, LinkCopy, CopyDone, CopyComplete,
           Tier, PlanEnrichment, EnrichEnds, ClearRows, EnrichLeaf,
           CheckpointLeaf, IndexLeaf, DocDone, CompleteJob, RegisterBook,
           LinkBook, FailDoc, FailJob, FailTimedOutJob, FailTimedOutDoc,
           TimesOut, At
  <2> QED
    BY <2>2, <2>3, <2>4
<1>3. CASE Crash
  <2>1. /\ UNCHANGED <<row, pdf, files>> /\ run' = NoRun /\ web' = NoWeb
        /\ OnAt(d, {"copytree"}) => <<d, "copytree">> \in cut'
    BY <1>3 DEF Crash, docVars, diskVars, OnAt, On, At, Cuts
  <2>2. PdfIs(d)'
    BY <1>0, <2>1, ExcusedStays DEF PdfInv, PdfIs, Excused, RowExists
  <2>3. DirHasPdf(d)'
    BY <1>0, <2>1, ExcusedStays DEF PdfInv, DirHasPdf, DirExists
  <2>4. ReadPdf(d)' /\ SourceDir(d)' /\ UploadedPdf(d)'
    BY <2>1 DEF ReadPdf, SourceDir, UploadedPdf, OnAt, On
  <2> QED
    BY <2>2, <2>3, <2>4 DEF PdfInv
<1> QED
  BY <1>0, <1>1, <1>2, <1>3, PdfBeside, NextCases DEF RunSteps

\* A listed document has its PDF, copied or not, unless the process ended while a
\* copy replaced its directory or another user's copy of the book was deleted.
THEOREM PdfListed == Spec => []PdfKept
<1> DEFINE Inv == \A d \in Docs : PdfInv(d)
<1>1. Init => Inv
  BY DEF Init, PdfInv, PdfIs, DirHasPdf, ReadPdf, SourceDir, UploadedPdf, OnAt, On,
         RowExists, DirExists, NoFiles
<1>2. ShareInv /\ ShareInv' /\ Inv /\ [Next]_vars => Inv'
  BY PdfStep DEF ShareInv
<1>3. Inv => PdfKept
  BY DEF PdfInv, PdfIs, PdfKept, AtRest, OnAt, On, Excused
<1> HIDE DEF Inv
<1> QED
  BY <1>1, <1>2, <1>3, ShareHolds, PTL DEF Spec
===============================================================================
