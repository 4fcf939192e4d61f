------------------------------ MODULE Collections ------------------------------
(***************************************************************************)
(* One collection, the users it is shared with and the documents uploaded  *)
(* to it (app/web/routes.py, app/storage/resolver.py, cleanup.py,          *)
(* limits.py): who reaches whose files, uploads against the quota of the   *)
(* owner, deletion of rows first and directories after, and the sweep of   *)
(* what a deletion could not remove.                                       *)
(*                                                                         *)
(* Handlers share one event loop.  Only an upload awaits, for each file;   *)
(* `web` is the handler between two commits or changes of the disk, and    *)
(* while it is not idle no other handler runs, but the process may end.    *)
(***************************************************************************)
EXTENDS Integers, Sequences, FiniteSets, SequencesExt

CONSTANTS
  Users, Nobody,
  Creator,     \* the user in whose database the collection is
  Docs, NoDoc,
  Uploads,     \* requests for upload that may be in progress at once
  Limit,       \* user_storage_limit, in files: all are of one size
  MaxStops,    \* bound: ends of the process
  MaxFaults,   \* bound: handlers that raise
  MaxStuck     \* bound: directories that cannot be removed

ASSUME UsersAssumption ==
  Creator \in Users /\ Nobody \notin Users /\ Nobody \notin Uploads
ASSUME DocsAssumption == IsFiniteSet(Docs) /\ NoDoc \notin Docs
ASSUME BoundsAssumption ==
  /\ Limit \in Nat /\ MaxStops \in Nat /\ MaxFaults \in Nat /\ MaxStuck \in Nat
  /\ IsFiniteSet(Uploads)

VARIABLES
  shelf,    \* the row of collections, in the creator's database
  members,  \* collection_members, in the order of added_at
  tree,     \* whose directory a document was stored in
  dirs,     \* the documents with a directory, and the PDF in it
  rows,     \* the documents with a row, in the database of that user
  orphans,  \* orphans.json
  cache,    \* _storage_cache
  uploads,  \* the uploads awaiting a file, with what they think is used
  web,
  stops, faults, stuck,
  peak      \* how many uploads were ever in progress at once

accessVars == <<shelf, members>>
diskVars == <<tree, dirs, rows, orphans>>
countVars == <<stops, faults, stuck, peak>>
vars == <<accessVars, diskVars, cache, uploads, web, countVars>>

Roles == {"member", "owner"}
Unknown == -1  \* nothing cached
NoUpload == [tree |-> Nobody, used |-> 0]
Idle == [at |-> "idle", by |-> Nobody, tree |-> Nobody, docs |-> {},
         doc |-> NoDoc]

\* "storing": an upload has written a file.  "rows", "dirs", "record": a
\* collection is deleted.  "doc": a document is.  "sweep", "clear": startup.
WebStates ==
  [at : {"idle", "storing", "rows", "dirs", "record", "doc", "down", "sweep",
         "clear"},
   by : Uploads \cup {Nobody}, tree : Users \cup {Nobody},
   docs : SUBSET Docs, doc : Docs \cup {NoDoc}]

\* The primary key of collection_members is the collection and the user.
TypeOK ==
  /\ shelf \in {"none", "open", "gone"}
  /\ members \in Seq([user : Users, role : Roles])
  /\ \A i, j \in DOMAIN members : members[i].user = members[j].user => i = j
  /\ tree \in [Docs -> Users \cup {Nobody}]
  /\ dirs \subseteq Docs /\ rows \subseteq Docs /\ orphans \subseteq Docs
  /\ cache \in [Users -> {Unknown} \cup 0 .. Cardinality(Docs)]
  /\ uploads \in [Uploads -> [tree : Users \cup {Nobody},
                              used : 0 .. Cardinality(Docs)]]
  /\ web \in WebStates
  /\ stops \in 0 .. MaxStops /\ faults \in 0 .. MaxFaults
  /\ stuck \in 0 .. MaxStuck /\ peak \in 0 .. Cardinality(Uploads)

Init ==
  /\ shelf = "none" /\ members = <<>>
  /\ tree = [d \in Docs |-> Nobody]
  /\ dirs = {} /\ rows = {} /\ orphans = {}
  /\ cache = [u \in Users |-> Unknown]
  /\ uploads = [h \in Uploads |-> NoUpload]
  /\ web = Idle
  /\ stops = 0 /\ faults = 0 /\ stuck = 0 /\ peak = 0

-------------------------------------------------------------------------------
(* Who reaches the collection.                                             *)

HasRow(u) == \E i \in DOMAIN members : members[i].user = u
RowRole(u) == (CHOOSE m \in ToSet(members) : m.user = u).role
Owners == {i \in DOMAIN members : members[i].role = "owner"}

\* resolve_collection: whoever has a row is led to the first owner with a row;
\* without such an owner, or a row, only the creator finds the collection, in
\* her own database.
ByRow(u) == HasRow(u) /\ Owners # {}
Owner(u) ==
  IF ByRow(u) THEN members[Min(Owners)].user
  ELSE IF u = Creator /\ shelf = "open" THEN Creator
  ELSE Nobody
IsOwner(u) == Owner(u) # Nobody /\ (ByRow(u) => RowRole(u) = "owner")

Resting == web.at = "idle"

Create ==
  /\ Resting /\ shelf = "none" /\ shelf' = "open"
  /\ UNCHANGED <<members, diskVars, cache, uploads, web, countVars>>

\* Mistake: a role given again is another row.
AddAnotherMember(v, role) ==
  members' = Append(members, [user |-> v, role |-> role])

\* add_collection_member: a row given again keeps its added_at.
AddMember(v, role) ==
  IF HasRow(v)
    THEN members' = [i \in DOMAIN members |->
           IF members[i].user = v THEN [user |-> v, role |-> role]
           ELSE members[i]]
    ELSE members' = Append(members, [user |-> v, role |-> role])

\* What is compared with the target is the owner the collection resolves to, not
\* the user who asks; and the owner gets no row.
Share(u, v, role) ==
  /\ Resting /\ IsOwner(u) /\ v # Owner(u)
  /\ AddMember(v, role)
  /\ UNCHANGED <<shelf, diskVars, cache, uploads, web, countVars>>

Unshare(u, v) ==
  /\ Resting /\ IsOwner(u) /\ v # Owner(u)
  /\ \E i \in DOMAIN members :
       members[i].user = v /\ members' = RemoveAt(members, i)
  /\ UNCHANGED <<shelf, diskVars, cache, uploads, web, countVars>>

-------------------------------------------------------------------------------
(* Uploads and the quota.                                                  *)

Stored(t) == Cardinality({d \in dirs : tree[d] = t})
Used(t) == IF cache[t] = Unknown THEN Stored(t) ELSE cache[t]
Invalidate(t) == cache' = [cache EXCEPT ![t] = Unknown]
InProgress(h) == uploads[h] # NoUpload
Ends(h) == uploads' = [uploads EXCEPT ![h] = NoUpload]

\* A page shows the storage of its user.
ShowStorage(u) ==
  /\ Resting /\ cache[u] = Unknown
  /\ cache' = [cache EXCEPT ![u] = Stored(u)]
  /\ UNCHANGED <<accessVars, diskVars, uploads, web, countVars>>

\* _STORAGE_TTL runs out.
Expire(u) ==
  /\ cache[u] # Unknown /\ Invalidate(u)
  /\ UNCHANGED <<accessVars, diskVars, uploads, web, countVars>>

\* Owner and storage are looked up once, before the first file is awaited.
StartUpload(h, u) ==
  LET t == Owner(u) IN
  /\ Resting /\ ~InProgress(h) /\ t # Nobody
  /\ uploads' = [uploads EXCEPT ![h] = [tree |-> t, used |-> Used(t)]]
  /\ cache' = [cache EXCEPT ![t] = Used(t)]
  /\ LET n == Cardinality({k \in Uploads : InProgress(k)}) + 1 IN
       peak' = IF n > peak THEN n ELSE peak
  /\ UNCHANGED <<accessVars, diskVars, web, stops, faults, stuck>>

\* Mistake: the files of one request are not added up.
ReceiveFileUncounted(h, d) ==
  /\ Resting /\ InProgress(h) /\ tree[d] = Nobody
  /\ uploads[h].used < Limit
  /\ tree' = [tree EXCEPT ![d] = uploads[h].tree]
  /\ dirs' = dirs \cup {d}
  /\ web' = [Idle EXCEPT !.at = "storing", !.by = h, !.doc = d]
  /\ UNCHANGED <<accessVars, rows, orphans, cache, uploads, countVars>>

\* A file is read, fits, and is written.  A file that is no PDF or does not fit
\* is passed over.
ReceiveFile(h, d) ==
  /\ Resting /\ InProgress(h) /\ tree[d] = Nobody
  /\ uploads[h].used < Limit
  /\ tree' = [tree EXCEPT ![d] = uploads[h].tree]
  /\ dirs' = dirs \cup {d}
  /\ uploads' = [uploads EXCEPT ![h].used = @ + 1]
  /\ web' = [Idle EXCEPT !.at = "storing", !.by = h, !.doc = d]
  /\ UNCHANGED <<accessVars, rows, orphans, cache, countVars>>

\* create_doc and enqueue_job, whatever became of the collection.
CreateDoc ==
  /\ web.at = "storing"
  /\ rows' = rows \cup {web.doc} /\ web' = Idle
  /\ UNCHANGED <<accessVars, tree, dirs, orphans, cache, uploads, countVars>>

EndUpload(h) ==
  /\ Resting /\ InProgress(h)
  /\ Invalidate(uploads[h].tree) /\ Ends(h)
  /\ UNCHANGED <<accessVars, diskVars, web, countVars>>

\* An upload raises, between two files or after it wrote one: the cached figure
\* stays.
UploadRaises(h) ==
  /\ Resting \/ (web.at = "storing" /\ web.by = h)
  /\ InProgress(h) /\ faults < MaxFaults
  /\ faults' = faults + 1 /\ Ends(h) /\ web' = Idle
  /\ UNCHANGED <<accessVars, diskVars, cache, stops, stuck, peak>>

-------------------------------------------------------------------------------
(* Deletion.                                                               *)

\* delete_collection_route, by the owner, in the tree the collection leads to.
DeleteCollection(u) ==
  /\ Resting /\ IsOwner(u)
  /\ web' = [Idle EXCEPT !.at = "rows", !.tree = Owner(u),
                         !.docs = {d \in rows : tree[d] = Owner(u)}]
  /\ UNCHANGED <<accessVars, diskVars, cache, uploads, countVars>>

DeleteRow(d) ==
  /\ web.at = "rows" /\ d \in web.docs /\ d \in rows
  /\ rows' = rows \ {d}
  /\ UNCHANGED <<accessVars, tree, dirs, orphans, cache, uploads, web,
                countVars>>

\* Mistake: the rows of the documents are left for later.
DeleteShelfFirst ==
  /\ web.at = "rows"
  /\ shelf' = IF web.tree = Creator /\ shelf = "open" THEN "gone" ELSE shelf
  /\ web' = [web EXCEPT !.at = "dirs"]
  /\ UNCHANGED <<members, diskVars, cache, uploads, countVars>>

\* The row of the collection, if it is in this user's database.
DeleteShelf ==
  /\ web.at = "rows" /\ web.docs \cap rows = {}
  /\ shelf' = IF web.tree = Creator /\ shelf = "open" THEN "gone" ELSE shelf
  /\ web' = [web EXCEPT !.at = "dirs"]
  /\ UNCHANGED <<members, diskVars, cache, uploads, countVars>>

RemoveDir(d) ==
  /\ web.at = "dirs" /\ d \in web.docs
  /\ dirs' = dirs \ {d}
  /\ web' = [web EXCEPT !.docs = @ \ {d}]
  /\ UNCHANGED <<accessVars, tree, rows, orphans, cache, uploads, countVars>>

\* Mistake: a directory that cannot be removed is passed over.
RemoveDirIgnored(d) ==
  /\ web.at = "dirs" /\ d \in web.docs \cap dirs /\ stuck < MaxStuck
  /\ stuck' = stuck + 1
  /\ web' = [web EXCEPT !.docs = @ \ {d}]
  /\ UNCHANGED <<accessVars, diskVars, cache, uploads, stops, faults, peak>>

RemoveDirFails(d) ==
  /\ web.at = "dirs" /\ d \in web.docs \cap dirs /\ stuck < MaxStuck
  /\ stuck' = stuck + 1
  /\ web' = [web EXCEPT !.at = "record", !.docs = @ \ {d}, !.doc = d]
  /\ UNCHANGED <<accessVars, diskVars, cache, uploads, stops, faults, peak>>

\* Mistake: the list is not read before it is written.
RecordOrphanAlone ==
  /\ web.at = "record"
  /\ orphans' = {web.doc}
  /\ web' = [web EXCEPT !.at = "dirs", !.doc = NoDoc]
  /\ UNCHANGED <<accessVars, tree, dirs, rows, cache, uploads, countVars>>

RecordOrphan ==
  /\ web.at = "record"
  /\ orphans' = orphans \cup {web.doc}
  /\ web' = [web EXCEPT !.at = "dirs", !.doc = NoDoc]
  /\ UNCHANGED <<accessVars, tree, dirs, rows, cache, uploads, countVars>>

\* Mistake: the rows of the members stay.
RemoveNoMembers ==
  /\ web.at = "dirs" /\ web.docs = {}
  /\ Invalidate(web.tree) /\ web' = Idle
  /\ UNCHANGED <<accessVars, diskVars, uploads, countVars>>

\* All rows of the collection go, whoever's tree was cleared.
RemoveMembers ==
  /\ web.at = "dirs" /\ web.docs = {}
  /\ members' = <<>>
  /\ Invalidate(web.tree) /\ web' = Idle
  /\ UNCHANGED <<shelf, diskVars, uploads, countVars>>

\* delete_doc_route: only in one's own tree.
DeleteDoc(u, d) ==
  /\ Resting /\ d \in rows /\ tree[d] = u
  /\ rows' = rows \ {d}
  /\ web' = [Idle EXCEPT !.at = "doc", !.doc = d]
  /\ UNCHANGED <<accessVars, tree, dirs, orphans, cache, uploads, countVars>>

RemoveDocDir ==
  /\ web.at = "doc"
  /\ dirs' = dirs \ {web.doc}
  /\ Invalidate(tree[web.doc]) /\ web' = Idle
  /\ UNCHANGED <<accessVars, tree, rows, orphans, uploads, countVars>>

\* A write of orphans.json that does not end leaves the list as it was, or a
\* file that is read as an empty list.
Interrupted ==
  IF web.at \in {"record", "clear"} THEN orphans' \in {orphans, {}}
  ELSE UNCHANGED orphans

\* A deletion raises: a database call, or what removes a document's directory.
DeletionRaises ==
  /\ web.at \in {"rows", "dirs", "record", "doc"} /\ faults < MaxFaults
  /\ faults' = faults + 1 /\ web' = Idle
  /\ Interrupted
  /\ UNCHANGED <<accessVars, tree, dirs, rows, cache, uploads,
                stops, stuck, peak>>

-------------------------------------------------------------------------------
(* The process.                                                            *)

Stop ==
  /\ web.at # "down" /\ stops < MaxStops
  /\ stops' = stops + 1
  /\ web' = [Idle EXCEPT !.at = "down"]
  /\ uploads' = [h \in Uploads |-> NoUpload]
  /\ cache' = [u \in Users |-> Unknown]
  /\ Interrupted
  /\ UNCHANGED <<accessVars, tree, dirs, rows, faults, stuck, peak>>

\* The sweep comes before the first request.
Start ==
  /\ web.at = "down"
  /\ web' = [Idle EXCEPT !.at = "sweep", !.docs = orphans]
  /\ UNCHANGED <<accessVars, diskVars, cache, uploads, countVars>>

Sweep(d) ==
  /\ web.at = "sweep" /\ d \in web.docs
  /\ dirs' = dirs \ {d}
  /\ web' = [web EXCEPT !.at = "clear", !.docs = @ \ {d}, !.doc = d]
  /\ UNCHANGED <<accessVars, tree, rows, orphans, cache, uploads, countVars>>

ClearOrphan ==
  /\ web.at = "clear"
  /\ orphans' = orphans \ {web.doc}
  /\ web' = [web EXCEPT !.at = "sweep", !.doc = NoDoc]
  /\ UNCHANGED <<accessVars, tree, dirs, rows, cache, uploads, countVars>>

\* A write that fails is taken for a directory that cannot be removed.
ClearFails ==
  /\ web.at = "clear" /\ faults < MaxFaults
  /\ faults' = faults + 1
  /\ web' = [web EXCEPT !.at = "sweep", !.doc = NoDoc]
  /\ Interrupted
  /\ UNCHANGED <<accessVars, tree, dirs, rows, cache, uploads,
                stops, stuck, peak>>

SweepFails(d) ==
  /\ web.at = "sweep" /\ d \in web.docs \cap dirs /\ stuck < MaxStuck
  /\ stuck' = stuck + 1
  /\ web' = [web EXCEPT !.docs = @ \ {d}]
  /\ UNCHANGED <<accessVars, diskVars, cache, uploads, stops, faults, peak>>

Serve ==
  /\ web.at = "sweep" /\ web.docs = {} /\ web' = Idle
  /\ UNCHANGED <<accessVars, diskVars, cache, uploads, countVars>>

-------------------------------------------------------------------------------
Next ==
  \/ Create
  \/ \E u, v \in Users : Unshare(u, v) \/ \E r \in Roles : Share(u, v, r)
  \/ \E u \in Users : ShowStorage(u) \/ Expire(u) \/ DeleteCollection(u)
  \/ \E h \in Uploads : \/ \E u \in Users : StartUpload(h, u)
                        \/ \E d \in Docs : ReceiveFile(h, d)
                        \/ EndUpload(h) \/ UploadRaises(h)
  \/ \E d \in Docs : \/ \E u \in Users : DeleteDoc(u, d)
                     \/ DeleteRow(d) \/ RemoveDir(d) \/ RemoveDirFails(d)
                     \/ Sweep(d) \/ SweepFails(d)
  \/ CreateDoc \/ DeleteShelf \/ RecordOrphan \/ RemoveMembers \/ RemoveDocDir
  \/ DeletionRaises \/ ClearOrphan \/ ClearFails
  \/ Stop \/ Start \/ Serve

Spec == Init /\ [][Next]_vars

-------------------------------------------------------------------------------
(* Properties.                                                             *)

\* routes.py:238: the databases are consistent.  A document with a row has its
\* directory, wherever a deletion or an upload raises or the process ends, and
\* no sweep ever takes the directory of a document that is listed.
RowsHaveFiles == rows \subseteq dirs

\* A directory without a row is known to the sweep, however many of them cannot
\* be removed, as long as no handler raises and the process does not end.
LeaksHaveCauses ==
  Resting /\ stops + faults = 0 => dirs \subseteq rows \cup orphans

\* What is listed for the sweep stays listed until its directory is gone, unless
\* the list is being written when the process ends or the handler raises.
OrphansStayListed ==
  [][\A d \in orphans \ orphans' :
       d \notin dirs \/ stops' + faults' > stops + faults]_vars

\* Uploads one at a time keep the quota, whatever is cached; several at once
\* pass it, each by no more than the quota; and so may an upload after one that
\* raised and left its figure in the cache.
QuotaByConcurrency ==
  \A u \in Users : Stored(u) <= Limit * (peak + faults)

\* A deleted collection leads nobody anywhere, though some came to it by a row
\* and others by their own database.
GoneForAll ==
  shelf = "gone" /\ Resting /\ stops + faults = 0 =>
    \A u \in Users : Owner(u) = Nobody

\* collection.html:45 and the plan of sharing: whoever a collection is shared
\* with reads and adds books in the owner's tree.
SharedReachesOwner ==
  shelf = "open" => \A u \in Users : HasRow(u) => Owner(u) = Creator
===============================================================================
