--------------------------- MODULE CollectionsProofs ---------------------------
(***************************************************************************)
(* Theorems about Collections, for any users, documents, uploads and       *)
(* bounds.                                                                 *)
(***************************************************************************)
EXTENDS Collections, FiniteSetTheorems, SequenceTheorems, TLAPS

USE UsersAssumption, DocsAssumption DEF Idle, Resting, InProgress, Ends

\* One action per handler's step: the proofs below split on them.
LEMMA NextCases ==
  ASSUME Next
  PROVE  \/ Create
         \/ \E u, v \in Users : Unshare(u, v)
         \/ \E u, v \in Users : \E r \in Roles : Share(u, v, r)
         \/ \E u \in Users : ShowStorage(u) \/ Expire(u)
         \/ \E u \in Users : DeleteCollection(u)
         \/ \E h \in Uploads : \E u \in Users : StartUpload(h, u)
         \/ \E h \in Uploads : \E d \in Docs : ReceiveFile(h, d)
         \/ \E h \in Uploads : EndUpload(h)
         \/ \E h \in Uploads : UploadRaises(h)
         \/ \E d \in Docs : \E u \in Users : DeleteDoc(u, d)
         \/ \E d \in Docs : DeleteRow(d)
         \/ \E d \in Docs : RemoveDir(d)
         \/ \E d \in Docs : RemoveDirFails(d)
         \/ \E d \in Docs : Sweep(d)
         \/ \E d \in Docs : SweepFails(d)
         \/ CreateDoc \/ DeleteShelf \/ RecordOrphan \/ RemoveMembers
         \/ RemoveDocDir \/ DeletionRaises \/ ClearOrphan \/ ClearFails
         \/ Stop \/ Start \/ Serve
  BY DEF Next

-------------------------------------------------------------------------------
(* Rows, directories and the list of orphans.                              *)

\* What the proofs need of the types.
Shapes ==
  /\ web = [at |-> web.at, by |-> web.by, tree |-> web.tree,
            docs |-> web.docs, doc |-> web.doc]
  /\ web.docs \subseteq Docs
  /\ tree = [d \in Docs |-> tree[d]]
  /\ uploads = [h \in Uploads |-> uploads[h]]
  /\ \A h \in Uploads :
       /\ uploads[h] = [tree |-> uploads[h].tree, used |-> uploads[h].used]
       /\ InProgress(h) => uploads[h].tree # Nobody
  /\ rows \subseteq Docs /\ orphans \subseteq Docs

\* The documents a handler is about to take the directory of.
Condemned ==
  CASE web.at \in {"dirs", "sweep"} -> web.docs
    [] web.at = "record" -> web.docs \cup {web.doc}
    [] web.at = "clear" -> web.docs \cup {web.doc}
    [] web.at = "doc" -> {web.doc}
    [] OTHER -> {}

\* Whatever is condemned, or listed for the sweep, has lost its row first; a
\* document that is being stored is new, and so is on no list; what is taken off
\* the list has no directory any more.
FilesSafe ==
  /\ Shapes
  /\ rows \subseteq dirs
  /\ rows \cap (orphans \cup Condemned) = {}
  /\ web.at = "storing" => web.doc \in dirs \ orphans
  /\ web.at = "clear" => web.doc \notin dirs
  /\ \A d \in rows \cup orphans \cup web.docs : tree[d] # Nobody
  /\ web.at \in {"storing", "record", "clear", "doc"} =>
       web.doc \in Docs /\ tree[web.doc] # Nobody

LEMMA FilesInit == Init => FilesSafe
  BY DEF Init, FilesSafe, Shapes, Condemned, NoUpload

LEMMA FilesStep == FilesSafe /\ [Next]_vars => FilesSafe'
<1> SUFFICES ASSUME FilesSafe, [Next]_vars PROVE FilesSafe'
  OBVIOUS
<1> USE DEF FilesSafe, Shapes, Condemned, accessVars, diskVars, countVars
<1>1. CASE UNCHANGED vars
  BY <1>1 DEF vars
<1>2. CASE Create
  BY <1>2 DEF Create
<1>3. ASSUME NEW u \in Users, NEW v \in Users, Unshare(u, v)
      PROVE  FilesSafe'
  BY <1>3 DEF Unshare
<1>4. ASSUME NEW u \in Users, NEW v \in Users, NEW r \in Roles, Share(u, v, r)
      PROVE  FilesSafe'
  BY <1>4 DEF Share
<1>5. ASSUME NEW u \in Users, ShowStorage(u) \/ Expire(u)
      PROVE  FilesSafe'
  BY <1>5 DEF ShowStorage, Expire
<1>6. ASSUME NEW u \in Users, DeleteCollection(u)
      PROVE  FilesSafe'
  BY <1>6 DEF DeleteCollection
<1>7. ASSUME NEW h \in Uploads, NEW u \in Users, StartUpload(h, u)
      PROVE  FilesSafe'
  BY <1>7 DEF StartUpload, NoUpload
<1>8. ASSUME NEW h \in Uploads, NEW d \in Docs, ReceiveFile(h, d)
      PROVE  FilesSafe'
  <2>1. Shapes'
    <3>1. uploads' = [uploads EXCEPT ![h].used = @ + 1]
      BY <1>8 DEF ReceiveFile
    <3>2. uploads' = [k \in Uploads |-> uploads'[k]]
      BY <3>1
    <3>3. uploads'[h] = [tree |-> uploads[h].tree, used |-> uploads[h].used + 1]
      BY <3>1
    <3>4. \A k \in Uploads \ {h} : uploads'[k] = uploads[k]
      BY <3>1
    <3>5. uploads[h].tree # Nobody
      BY <1>8 DEF ReceiveFile
    <3>6. \A k \in Uploads :
            /\ uploads'[k] = [tree |-> uploads'[k].tree,
                              used |-> uploads'[k].used]
            /\ uploads'[k] # NoUpload => uploads'[k].tree # Nobody
      BY <3>3, <3>4, <3>5
    <3> QED
      BY <1>8, <3>2, <3>6 DEF ReceiveFile
  <2>2. d \notin rows \cup orphans /\ web'.docs = {} /\ web'.at = "storing"
        /\ web'.doc = d /\ Condemned' = {}
    BY <1>8 DEF ReceiveFile
  <2>3. tree'[d] # Nobody /\ \A e \in Docs \ {d} : tree'[e] = tree[e]
    BY <1>8 DEF ReceiveFile
  <2> QED
    BY <1>8, <2>1, <2>2, <2>3 DEF ReceiveFile
<1>9. ASSUME NEW h \in Uploads, EndUpload(h)
      PROVE  FilesSafe'
  BY <1>9 DEF EndUpload, NoUpload
<1>10. ASSUME NEW h \in Uploads, UploadRaises(h)
       PROVE  FilesSafe'
  BY <1>10 DEF UploadRaises, NoUpload
<1>11. ASSUME NEW d \in Docs, NEW u \in Users, DeleteDoc(u, d)
       PROVE  FilesSafe'
  BY <1>11 DEF DeleteDoc
<1>12. ASSUME NEW d \in Docs, DeleteRow(d)
       PROVE  FilesSafe'
  BY <1>12 DEF DeleteRow
<1>13. ASSUME NEW d \in Docs, RemoveDir(d)
       PROVE  FilesSafe'
  BY <1>13 DEF RemoveDir
<1>14. ASSUME NEW d \in Docs, RemoveDirFails(d)
       PROVE  FilesSafe'
  BY <1>14 DEF RemoveDirFails
<1>15. ASSUME NEW d \in Docs, Sweep(d)
       PROVE  FilesSafe'
  BY <1>15 DEF Sweep
<1>16. ASSUME NEW d \in Docs, SweepFails(d)
       PROVE  FilesSafe'
  BY <1>16 DEF SweepFails
<1>17. CASE CreateDoc
  BY <1>17 DEF CreateDoc
<1>18. CASE DeleteShelf
  BY <1>18 DEF DeleteShelf
<1>19. CASE RecordOrphan
  BY <1>19 DEF RecordOrphan
<1>20. CASE RemoveMembers
  BY <1>20 DEF RemoveMembers
<1>21. CASE RemoveDocDir
  BY <1>21 DEF RemoveDocDir
<1>22. CASE DeletionRaises
  BY <1>22 DEF DeletionRaises, Interrupted
<1>23. CASE ClearOrphan
  BY <1>23 DEF ClearOrphan
<1>24. CASE ClearFails
  BY <1>24 DEF ClearFails, Interrupted
<1>25. CASE Stop
  BY <1>25 DEF Stop, Interrupted, NoUpload
<1>26. CASE Start
  BY <1>26 DEF Start
<1>27. CASE Serve
  BY <1>27 DEF Serve
<1> HIDE DEF FilesSafe, Shapes, Condemned
<1> QED
  BY NextCases, <1>1, <1>2, <1>3, <1>4, <1>5, <1>6, <1>7, <1>8, <1>9, <1>10,
     <1>11, <1>12, <1>13, <1>14, <1>15, <1>16, <1>17, <1>18, <1>19, <1>20,
     <1>21, <1>22, <1>23, <1>24, <1>25, <1>26, <1>27

\* Through deletions, failures, process ends and sweeps, a document that is
\* listed has its directory.
THEOREM FilesStay == Spec => []RowsHaveFiles
<1>1. FilesSafe => RowsHaveFiles
  BY DEF FilesSafe, RowsHaveFiles
<1> QED
  BY FilesInit, FilesStep, <1>1, PTL DEF Spec
\* A step keeps the list, but for the document whose directory is gone, and for
\* the two ways a write of it may end.
LEMMA ListStep ==
  ASSUME FilesSafe, stops \in Nat, faults \in Nat, [Next]_vars,
         NEW d \in orphans \ orphans'
  PROVE  d \notin dirs \/ stops' + faults' > stops + faults
<1> USE DEF accessVars, diskVars, countVars
<1>1. CASE ClearOrphan
  BY <1>1 DEF FilesSafe, ClearOrphan
<1>2. CASE ClearFails \/ DeletionRaises \/ Stop
  BY <1>2 DEF ClearFails, DeletionRaises, Stop
<1>3. CASE RecordOrphan
  BY <1>3 DEF RecordOrphan
<1>4. CASE UNCHANGED orphans
  BY <1>4
<1>5. ASSUME Next, ~(ClearOrphan \/ ClearFails \/ DeletionRaises \/ Stop),
             ~RecordOrphan
      PROVE  UNCHANGED orphans
  BY NextCases, <1>5
     DEF Create, Unshare, Share, ShowStorage, Expire, DeleteCollection,
         StartUpload, ReceiveFile, EndUpload, UploadRaises, DeleteDoc,
         DeleteRow, RemoveDir, RemoveDirFails, Sweep, SweepFails, CreateDoc,
         DeleteShelf, RemoveMembers, RemoveDocDir, Start, Serve
<1> QED
  BY <1>1, <1>2, <1>3, <1>4, <1>5 DEF vars

-------------------------------------------------------------------------------
(* While no handler raises and the process does not end.                   *)

Quiet == stops + faults = 0

\* The documents whose directory is the business of the handler in progress.
Attended ==
  CASE web.at \in {"rows", "dirs"} -> web.docs
    [] web.at = "record" -> web.docs \cup {web.doc}
    [] web.at \in {"storing", "doc"} -> {web.doc}
    [] OTHER -> {}

\* Until then, startup is past, and a directory has a row, is listed for the
\* sweep, or is attended to.  A deleted collection has lost its members, or is
\* about to.
QuietSafe ==
  /\ stops \in Nat /\ faults \in Nat
  /\ Quiet => web.at \notin {"down", "sweep", "clear"}
  /\ Quiet => dirs \subseteq rows \cup orphans \cup Attended
  /\ Quiet /\ shelf = "gone" =>
       members = <<>> \/ web.at \in {"dirs", "record"}

LEMMA QuietInit == Init => QuietSafe
  BY DEF Init, QuietSafe, Attended, Quiet

\* Nobody shares what is gone: without a row there is no owner.
LEMMA NoRowNoOwner ==
  ASSUME members = <<>>, shelf # "open", NEW u
  PROVE  Owner(u) = Nobody
  BY DEF Owner, ByRow, HasRow

LEMMA QuietStep == Shapes /\ QuietSafe /\ [Next]_vars => QuietSafe'
<1> SUFFICES ASSUME Shapes, QuietSafe, [Next]_vars PROVE QuietSafe'
  OBVIOUS
<1> USE DEF QuietSafe, Quiet, Attended, Shapes, accessVars, diskVars, countVars
<1>1. CASE UNCHANGED vars
  BY <1>1 DEF vars
<1>2. CASE Create
  BY <1>2 DEF Create
<1>3. ASSUME NEW u \in Users, NEW v \in Users, Unshare(u, v)
      PROVE  QuietSafe'
  BY <1>3, NoRowNoOwner DEF Unshare, IsOwner
<1>4. ASSUME NEW u \in Users, NEW v \in Users, NEW r \in Roles, Share(u, v, r)
      PROVE  QuietSafe'
  BY <1>4, NoRowNoOwner DEF Share, IsOwner
<1>5. ASSUME NEW u \in Users, ShowStorage(u) \/ Expire(u)
      PROVE  QuietSafe'
  BY <1>5 DEF ShowStorage, Expire
<1>6. ASSUME NEW u \in Users, DeleteCollection(u)
      PROVE  QuietSafe'
  BY <1>6 DEF DeleteCollection
<1>7. ASSUME NEW h \in Uploads, NEW u \in Users, StartUpload(h, u)
      PROVE  QuietSafe'
  BY <1>7 DEF StartUpload
<1>8. ASSUME NEW h \in Uploads, NEW d \in Docs, ReceiveFile(h, d)
      PROVE  QuietSafe'
  BY <1>8 DEF ReceiveFile
<1>9. ASSUME NEW h \in Uploads, EndUpload(h)
      PROVE  QuietSafe'
  BY <1>9 DEF EndUpload
<1>10. ASSUME NEW h \in Uploads, UploadRaises(h)
       PROVE  QuietSafe'
  BY <1>10 DEF UploadRaises
<1>11. ASSUME NEW d \in Docs, NEW u \in Users, DeleteDoc(u, d)
       PROVE  QuietSafe'
  BY <1>11 DEF DeleteDoc
<1>12. ASSUME NEW d \in Docs, DeleteRow(d)
       PROVE  QuietSafe'
  BY <1>12 DEF DeleteRow
<1>13. ASSUME NEW d \in Docs, RemoveDir(d)
       PROVE  QuietSafe'
  BY <1>13 DEF RemoveDir
<1>14. ASSUME NEW d \in Docs, RemoveDirFails(d)
       PROVE  QuietSafe'
  BY <1>14 DEF RemoveDirFails
<1>15. ASSUME NEW d \in Docs, Sweep(d) \/ SweepFails(d)
       PROVE  QuietSafe'
  BY <1>15 DEF Sweep, SweepFails
<1>16. CASE CreateDoc
  BY <1>16 DEF CreateDoc
<1>17. CASE DeleteShelf
  BY <1>17 DEF DeleteShelf
<1>18. CASE RecordOrphan
  BY <1>18 DEF RecordOrphan
<1>19. CASE RemoveMembers
  BY <1>19 DEF RemoveMembers
<1>20. CASE RemoveDocDir
  BY <1>20 DEF RemoveDocDir
<1>21. CASE DeletionRaises
  BY <1>21 DEF DeletionRaises
<1>22. CASE ClearOrphan \/ ClearFails
  BY <1>22 DEF ClearOrphan, ClearFails
<1>23. CASE Stop
  BY <1>23 DEF Stop
<1>24. CASE Start \/ Serve
  BY <1>24 DEF Start, Serve
<1> HIDE DEF QuietSafe, Shapes, Attended, Quiet
<1> QED
  BY NextCases, <1>1, <1>2, <1>3, <1>4, <1>5, <1>6, <1>7, <1>8, <1>9, <1>10,
     <1>11, <1>12, <1>13, <1>14, <1>15, <1>16, <1>17, <1>18, <1>19, <1>20,
     <1>21, <1>22, <1>23, <1>24

\* However many directories cannot be removed, none without a row is unknown to
\* the sweep before a handler raises or the process ends.
THEOREM LeaksAreListed == Spec => []LeaksHaveCauses
<1>1. FilesSafe => Shapes
  BY DEF FilesSafe
<1>2. QuietSafe => LeaksHaveCauses
  BY DEF QuietSafe, Quiet, Attended, LeaksHaveCauses
<1> QED
  BY FilesInit, FilesStep, QuietInit, QuietStep, <1>1, <1>2, PTL DEF Spec

\* However it was shared, and whichever owner deleted it, a deleted collection
\* leads nobody anywhere.
THEOREM GoneIsGone == Spec => []GoneForAll
<1>1. FilesSafe => Shapes
  BY DEF FilesSafe
<1>2. QuietSafe => GoneForAll
  BY NoRowNoOwner DEF QuietSafe, Quiet, GoneForAll
<1> QED
  BY FilesInit, FilesStep, QuietInit, QuietStep, <1>1, <1>2, PTL DEF Spec

\* What is listed for the sweep stays listed until its directory is gone, unless
\* its list was being written when a handler raised or the process ended.
THEOREM ListIsKept == Spec => OrphansStayListed
<1>1. FilesSafe /\ QuietSafe /\ [Next]_vars =>
        [\A d \in orphans \ orphans' :
           d \notin dirs \/ stops' + faults' > stops + faults]_vars
  BY ListStep DEF QuietSafe
<1>2. FilesSafe => Shapes
  BY DEF FilesSafe
<1> QED
  BY FilesInit, FilesStep, QuietInit, QuietStep, <1>1, <1>2, PTL
     DEF Spec, OrphansStayListed

HIDE DEF Idle, Resting, InProgress, Ends

-------------------------------------------------------------------------------
(* The rows of collection_members.                                         *)

Members == [user : Users, role : Roles]

LEMMA LeastIsIn ==
  ASSUME NEW T, T \subseteq Nat, T # {}
  PROVE  Min(T) \in T
<1> DEFINE R == OpToRel(<, Nat)
<1>1. IsWellFoundedOn(R, Nat)
  BY NatLessThanWellFounded
<1>2. \A n, m \in Nat : n < m => <<n, m>> \in R
  BY DEF OpToRel
<1> HIDE DEF R
<1>3. PICK m \in T : \A n \in T : <<n, m>> \notin R
  BY <1>1, WFMin
<1>4. \A n \in T : ~(n < m) /\ n \in Nat /\ m \in Nat
  BY <1>2, <1>3
<1>5. \A n \in T : m <= n
  BY <1>4
<1> QED
  BY <1>5 DEF Min

LEMMA OwnerType ==
  ASSUME members \in Seq(Members), NEW u
  PROVE  Owner(u) \in Users \cup {Nobody}
<1>1. ByRow(u) => members[Min(Owners)].user \in Users
  <2> SUFFICES ASSUME ByRow(u) PROVE members[Min(Owners)] \in Members
    BY DEF Members
  <2>1. Owners \subseteq 1 .. Len(members) /\ Owners # {}
    BY LenProperties DEF Owners, ByRow
  <2>2. Min(Owners) \in 1 .. Len(members)
    <3>1. Owners \subseteq Nat
      BY <2>1
    <3> QED
      BY <2>1, <3>1, LeastIsIn
  <2> QED
    BY <2>2, ElementOfSeq
<1> QED
  BY <1>1, UsersAssumption DEF Owner

\* One row of each user, as the primary key has it.
RowsDiffer == \A i, j \in DOMAIN members :
                members[i].user = members[j].user => i = j

LEMMA RemovedAt ==
  ASSUME NEW S, NEW s \in Seq(S), NEW i \in DOMAIN s
  PROVE  /\ RemoveAt(s, i) \in Seq(S)
         /\ Len(RemoveAt(s, i)) = Len(s) - 1
         /\ \A j \in 1 .. Len(s) - 1 :
              RemoveAt(s, i)[j] = IF j < i THEN s[j] ELSE s[j + 1]
<1> DEFINE a == SubSeq(s, 1, i - 1)
           b == SubSeq(s, i + 1, Len(s))
<1>1. Len(s) \in Nat /\ i \in 1 .. Len(s) /\ DOMAIN s = 1 .. Len(s)
  BY LenProperties
<1>2. \A k \in 1 .. Len(s) : s[k] \in S
  BY ElementOfSeq
<1>3. /\ a \in Seq(S) /\ Len(a) = i - 1
      /\ \A j \in 1 .. i - 1 : a[j] = s[j]
  <2>1. \A k \in 1 .. i - 1 : s[k] \in S
    BY <1>1, <1>2
  <2>2. 1 \in Int /\ i - 1 \in Int
    BY <1>1
  <2> HIDE DEF a
  <2>3. /\ a \in Seq(S) /\ Len(a) = IF 1 <= i - 1 THEN (i - 1) - 1 + 1 ELSE 0
        /\ \A j \in 1 .. (i - 1) - 1 + 1 : a[j] = s[1 + j - 1]
    BY <2>1, <2>2, SubSeqProperties DEF a
  <2> QED
    BY <1>1, <2>3
<1>4. /\ b \in Seq(S) /\ Len(b) = Len(s) - i
      /\ \A j \in 1 .. Len(s) - i : b[j] = s[i + j]
  <2>1. \A k \in i + 1 .. Len(s) : s[k] \in S
    BY <1>1, <1>2
  <2>2. i + 1 \in Int /\ Len(s) \in Int
    BY <1>1
  <2> HIDE DEF b
  <2>3. /\ b \in Seq(S)
        /\ Len(b) = IF i + 1 <= Len(s) THEN Len(s) - (i + 1) + 1 ELSE 0
        /\ \A j \in 1 .. Len(s) - (i + 1) + 1 : b[j] = s[(i + 1) + j - 1]
    BY <2>1, <2>2, SubSeqProperties DEF b
  <2>4. Len(s) - (i + 1) + 1 = Len(s) - i
        /\ \A j \in Int : (i + 1) + j - 1 = i + j
    BY <1>1
  <2>5. Len(b) = Len(s) - i
    BY <1>1, <2>3
  <2>6. ASSUME NEW j \in 1 .. Len(s) - i PROVE b[j] = s[i + j]
    <3>1. j \in Int /\ j \in 1 .. Len(s) - (i + 1) + 1
      BY <1>1
    <3>2. b[j] = s[(i + 1) + j - 1]
      BY <2>3, <3>1
    <3>3. (i + 1) + j - 1 = i + j
      BY <2>4, <3>1
    <3> QED
      BY <3>2, <3>3
  <2> QED
    BY <2>3, <2>5, <2>6
<1> HIDE DEF a, b
<1>5. /\ a \o b \in Seq(S) /\ Len(a \o b) = Len(a) + Len(b)
      /\ \A j \in 1 .. Len(a) + Len(b) :
           (a \o b)[j] = IF j <= Len(a) THEN a[j] ELSE b[j - Len(a)]
  BY <1>3, <1>4, ConcatProperties
<1>6. RemoveAt(s, i) = a \o b
  BY DEF RemoveAt, a, b
<1>7. ASSUME NEW j \in 1 .. Len(s) - 1
      PROVE  (a \o b)[j] = IF j < i THEN s[j] ELSE s[j + 1]
  <2>1. CASE j < i
    BY <1>1, <1>3, <1>4, <1>5, <2>1
  <2>2. CASE ~(j < i)
    <3>1. j - Len(a) \in 1 .. Len(s) - i /\ ~(j <= Len(a))
          /\ i + (j - Len(a)) = j + 1 /\ j \in 1 .. Len(a) + Len(b)
      BY <1>1, <1>3, <1>4, <2>2
    <3>2. (a \o b)[j] = b[j - Len(a)]
      BY <1>5, <3>1
    <3>3. b[j - Len(a)] = s[j + 1]
      BY <1>4, <3>1
    <3> QED
      BY <2>2, <3>2, <3>3
  <2> QED
    BY <2>1, <2>2
<1>8. Len(a) + Len(b) = Len(s) - 1
  BY <1>1, <1>3, <1>4
<1> QED
  BY <1>5, <1>6, <1>7, <1>8

LEMMA UnshareRows ==
  ASSUME members \in Seq(Members), RowsDiffer, NEW u, NEW v, Unshare(u, v)
  PROVE  members' \in Seq(Members) /\ RowsDiffer'
<1>1. PICK i \in DOMAIN members : members' = RemoveAt(members, i)
  BY DEF Unshare
<1>2. /\ members' \in Seq(Members) /\ Len(members') = Len(members) - 1
      /\ \A j \in 1 .. Len(members) - 1 :
           members'[j] = IF j < i THEN members[j] ELSE members[j + 1]
  BY <1>1, RemovedAt
<1>3. DOMAIN members' = 1 .. Len(members) - 1
      /\ DOMAIN members = 1 .. Len(members) /\ Len(members) \in Nat
  BY <1>2, LenProperties
<1>4. ASSUME NEW j \in DOMAIN members', NEW k \in DOMAIN members',
             members'[j].user = members'[k].user
      PROVE  j = k
  <2> DEFINE p == IF j < i THEN j ELSE j + 1
             q == IF k < i THEN k ELSE k + 1
  <2>1. p \in DOMAIN members /\ q \in DOMAIN members
    BY <1>3
  <2>2. members[p].user = members[q].user
    BY <1>2, <1>3, <1>4
  <2>3. p = q
    BY <2>1, <2>2 DEF RowsDiffer
  <2> QED
    BY <1>3, <2>3
<1> QED
  BY <1>2, <1>4 DEF RowsDiffer

LEMMA AddedRows ==
  ASSUME members \in Seq(Members), RowsDiffer, NEW v \in Users,
         NEW r \in Roles, AddMember(v, r)
  PROVE  members' \in Seq(Members) /\ RowsDiffer'
<1> DEFINE row == [user |-> v, role |-> r]
<1>1. row \in Members
  BY DEF Members
<1>2. /\ DOMAIN members = 1 .. Len(members) /\ Len(members) \in Nat
      /\ \A i \in 1 .. Len(members) : members[i] \in Members
  BY LenProperties, ElementOfSeq
<1>3. CASE HasRow(v)
  <2>1. members' = [i \in 1 .. Len(members) |->
                      IF members[i].user = v THEN row ELSE members[i]]
    BY <1>2, <1>3 DEF AddMember
  <2>2. members' \in [1 .. Len(members) -> Members]
    BY <1>1, <1>2, <2>1
  <2>3. members' \in Seq(Members)
    BY <1>2, <2>2, SeqDef
  <2>4. DOMAIN members' = DOMAIN members
        /\ \A i \in DOMAIN members : members'[i].user = members[i].user
    BY <1>2, <2>1
  <2> QED
    BY <2>3, <2>4 DEF RowsDiffer
<1>4. CASE ~HasRow(v)
  <2>1. members' = Append(members, row)
    BY <1>4 DEF AddMember
  <2>2. /\ members' \in Seq(Members) /\ Len(members') = Len(members) + 1
        /\ \A i \in 1 .. Len(members) : members'[i] = members[i]
        /\ members'[Len(members) + 1] = row
    BY <1>1, <2>1, AppendProperties
  <2>3. DOMAIN members' = 1 .. Len(members) + 1
    BY <2>2, LenProperties
  <2>4. \A i \in 1 .. Len(members) : members[i].user # v
    BY <1>2, <1>4 DEF HasRow
  <2>5. ASSUME NEW j \in DOMAIN members', NEW k \in DOMAIN members',
               members'[j].user = members'[k].user
        PROVE  j = k
    <3>1. CASE j \in 1 .. Len(members) /\ k \in 1 .. Len(members)
      BY <1>2, <2>2, <2>5, <3>1 DEF RowsDiffer
    <3>2. CASE j = Len(members) + 1 /\ k \in 1 .. Len(members)
      BY <2>2, <2>4, <2>5, <3>2
    <3>3. CASE k = Len(members) + 1 /\ j \in 1 .. Len(members)
      BY <2>2, <2>4, <2>5, <3>3
    <3> QED
      BY <1>2, <2>3, <3>1, <3>2, <3>3
  <2> QED
    BY <2>2, <2>5 DEF RowsDiffer
<1> QED
  BY <1>3, <1>4

-------------------------------------------------------------------------------
(* Types.                                                                  *)

\* How many documents were ever stored in a user's directory, their directories
\* removed or not.  No name is used again: it bounds every count.
Ever(t) == {d \in Docs : tree[d] = t}
Names == [t \in Users |-> Cardinality(Ever(t))]

Counted ==
  /\ \A t \in Users : cache[t] # Unknown => cache[t] <= Names[t]
  /\ \A h \in Uploads :
       InProgress(h) => /\ uploads[h].tree \in Users
                        /\ uploads[h].used <= Names[uploads[h].tree]

LEMMA EverFinite ==
  ASSUME NEW t \in Users
  PROVE  /\ IsFiniteSet(Ever(t)) /\ Names[t] = Cardinality(Ever(t))
         /\ Names[t] \in 0 .. Cardinality(Docs)
<1>1. Ever(t) \subseteq Docs /\ IsFiniteSet(Docs)
  BY DocsAssumption DEF Ever
<1>2. IsFiniteSet(Ever(t)) /\ Cardinality(Ever(t)) <= Cardinality(Docs)
      /\ Cardinality(Ever(t)) \in Nat /\ Cardinality(Docs) \in Nat
  BY <1>1, FS_Subset, FS_CardinalityType
<1> QED
  BY <1>2 DEF Names

\* A name not used yet leaves room for one more.
LEMMA NextName ==
  ASSUME NEW t \in Users, NEW d \in Docs, tree[d] # t
  PROVE  /\ Cardinality(Ever(t) \cup {d}) = Names[t] + 1
         /\ Names[t] + 1 \in 0 .. Cardinality(Docs)
<1>1. Ever(t) \cup {d} \subseteq Docs /\ d \notin Ever(t)
  BY DEF Ever
<1>2. IsFiniteSet(Ever(t)) /\ Names[t] = Cardinality(Ever(t))
      /\ Names[t] \in Nat
  BY EverFinite
<1>3. Cardinality(Ever(t) \cup {d}) = Cardinality(Ever(t)) + 1
  BY <1>1, <1>2, FS_AddElement
<1>4. Cardinality(Ever(t) \cup {d}) <= Cardinality(Docs)
      /\ Cardinality(Docs) \in Nat
  BY <1>1, FS_Subset, FS_CardinalityType, DocsAssumption
<1> QED
  BY <1>2, <1>3, <1>4

LEMMA StoredType ==
  ASSUME dirs \subseteq Docs, NEW t \in Users
  PROVE  Stored(t) \in 0 .. Cardinality(Docs) /\ Stored(t) <= Names[t]
<1>1. {d \in dirs : tree[d] = t} \subseteq Ever(t)
  BY DEF Ever
<1>2. IsFiniteSet({d \in dirs : tree[d] = t})
      /\ Stored(t) <= Cardinality(Ever(t))
  BY <1>1, EverFinite, FS_Subset DEF Stored
<1>3. Stored(t) \in Nat
  BY <1>2, FS_CardinalityType DEF Stored
<1>4. Names[t] = Cardinality(Ever(t)) /\ Names[t] \in 0 .. Cardinality(Docs)
  BY EverFinite
<1>5. Cardinality(Docs) \in Nat
  BY DocsAssumption, FS_CardinalityType
<1> QED
  BY <1>2, <1>3, <1>4, <1>5

LEMMA TypesInit == Init => TypeOK /\ Counted
<1> SUFFICES ASSUME Init PROVE TypeOK /\ Counted
  OBVIOUS
<1>1. 0 \in 0 .. Cardinality(Docs) /\ 0 \in 0 .. Cardinality(Uploads)
  BY DocsAssumption, BoundsAssumption, FS_CardinalityType
<1>2. members \in Seq(Members) /\ DOMAIN members = {}
  BY EmptySeq DEF Init
<1>3. TypeOK
  BY <1>1, <1>2, BoundsAssumption, UsersAssumption
     DEF Init, TypeOK, WebStates, Idle, NoUpload, Members
<1>4. Counted
  BY DEF Init, Counted, NoUpload, InProgress
<1> QED
  BY <1>3, <1>4

LEMMA TypesStep == TypeOK /\ Counted /\ FilesSafe /\ [Next]_vars => TypeOK'
<1> SUFFICES ASSUME TypeOK, Counted, FilesSafe, [Next]_vars PROVE TypeOK'
  OBVIOUS
<1> USE UsersAssumption, BoundsAssumption
    DEF TypeOK, WebStates, accessVars, diskVars, countVars, Idle, Resting,
        InProgress, Ends
<1>0. Cardinality(Docs) \in Nat /\ 0 \in 0 .. Cardinality(Docs)
  BY DocsAssumption, FS_CardinalityType
<1>1. CASE UNCHANGED vars
  BY <1>1 DEF vars
<1>2. CASE Create
  BY <1>2 DEF Create
<1>3. ASSUME NEW u \in Users, NEW v \in Users, Unshare(u, v)
      PROVE  TypeOK'
  <2>1. members' \in Seq(Members) /\ RowsDiffer'
    BY <1>3, UnshareRows DEF RowsDiffer, Members
  <2> QED
    BY <1>3, <2>1 DEF Unshare, RowsDiffer, Members
<1>4. ASSUME NEW u \in Users, NEW v \in Users, NEW r \in Roles, Share(u, v, r)
      PROVE  TypeOK'
  <2>1. members' \in Seq(Members) /\ RowsDiffer'
    BY <1>4, AddedRows DEF RowsDiffer, Members, Share
  <2> QED
    BY <1>4, <2>1 DEF Share, RowsDiffer, Members
<1>5. ASSUME NEW u \in Users, ShowStorage(u) \/ Expire(u)
      PROVE  TypeOK'
  <2>1. Stored(u) \in 0 .. Cardinality(Docs)
    BY StoredType
  <2>2. cache' \in [Users -> {Unknown} \cup 0 .. Cardinality(Docs)]
    BY <1>5, <2>1 DEF ShowStorage, Expire, Invalidate
  <2> QED
    BY <1>5, <2>2 DEF ShowStorage, Expire
<1>6. ASSUME NEW u \in Users, DeleteCollection(u)
      PROVE  TypeOK'
  <2>1. Owner(u) \in Users \cup {Nobody}
    BY OwnerType DEF Members
  <2> QED
    BY <1>6, <2>1 DEF DeleteCollection
<1>7. ASSUME NEW h \in Uploads, NEW u \in Users, StartUpload(h, u)
      PROVE  TypeOK'
  <2> DEFINE t == Owner(u)
             busy == {k \in Uploads : InProgress(k)}
  <2>1. t \in Users
    BY <1>7, OwnerType DEF Members, StartUpload
  <2>2. Used(t) \in 0 .. Cardinality(Docs)
    BY <2>1, StoredType DEF Used
  <2>3. Cardinality(busy) + 1 \in 0 .. Cardinality(Uploads)
    <3>1. busy \cup {h} \subseteq Uploads /\ h \notin busy
      BY <1>7 DEF StartUpload
    <3>2. IsFiniteSet(busy)
      BY <3>1, FS_Subset, BoundsAssumption
    <3>3. Cardinality(busy \cup {h}) = Cardinality(busy) + 1
      BY <3>1, <3>2, FS_AddElement
    <3>4. Cardinality(busy \cup {h}) <= Cardinality(Uploads)
      BY <3>1, FS_Subset, BoundsAssumption
    <3>5. Cardinality(busy) \in Nat
      BY <3>2, FS_CardinalityType
    <3> QED
      BY <3>3, <3>4, <3>5
  <2>4. peak' \in 0 .. Cardinality(Uploads)
    BY <1>7, <2>3 DEF StartUpload
  <2>5. uploads' = [uploads EXCEPT ![h] = [tree |-> t, used |-> Used(t)]]
        /\ cache' = [cache EXCEPT ![t] = Used(t)]
    BY <1>7 DEF StartUpload
  <2> HIDE DEF t
  <2>6. uploads' \in [Uploads -> [tree : Users \cup {Nobody},
                                  used : 0 .. Cardinality(Docs)]]
        /\ cache' \in [Users -> {Unknown} \cup 0 .. Cardinality(Docs)]
    BY <2>1, <2>2, <2>5
  <2> QED
    BY <1>7, <2>4, <2>6 DEF StartUpload
<1>8. ASSUME NEW h \in Uploads, NEW d \in Docs, ReceiveFile(h, d)
      PROVE  TypeOK'
  <2> DEFINE t == uploads[h].tree
  <2>1. uploads[h].used + 1 \in 0 .. Cardinality(Docs)
    <3>1. t \in Users /\ uploads[h].used <= Names[t] /\ uploads[h].used \in Nat
      BY <1>8 DEF ReceiveFile, Counted
    <3> HIDE DEF t
    <3>2. tree[d] # t
      BY <1>8, <3>1 DEF ReceiveFile
    <3>3. Names[t] + 1 \in 0 .. Cardinality(Docs)
      BY <3>1, <3>2, NextName
    <3>4. Names[t] \in 0 .. Cardinality(Docs)
      BY <3>1, EverFinite
    <3> QED
      BY <1>0, <3>1, <3>3, <3>4
  <2>2. uploads' \in [Uploads -> [tree : Users \cup {Nobody},
                                  used : 0 .. Cardinality(Docs)]]
    BY <1>8, <2>1 DEF ReceiveFile
  <2>3. tree' \in [Docs -> Users \cup {Nobody}] /\ web' \in WebStates
    BY <1>8 DEF ReceiveFile
  <2> QED
    BY <1>8, <2>2, <2>3 DEF ReceiveFile
<1>9. ASSUME NEW h \in Uploads, EndUpload(h)
      PROVE  TypeOK'
  <2>1. uploads' \in [Uploads -> [tree : Users \cup {Nobody},
                                  used : 0 .. Cardinality(Docs)]]
    BY <1>0, <1>9 DEF EndUpload, NoUpload
  <2>2. cache' \in [Users -> {Unknown} \cup 0 .. Cardinality(Docs)]
    BY <1>9 DEF EndUpload, Invalidate
  <2> QED
    BY <1>9, <2>1, <2>2 DEF EndUpload
<1>10. ASSUME NEW h \in Uploads, UploadRaises(h)
       PROVE  TypeOK'
  <2>1. uploads' \in [Uploads -> [tree : Users \cup {Nobody},
                                  used : 0 .. Cardinality(Docs)]]
    BY <1>0, <1>10 DEF UploadRaises, NoUpload
  <2>2. web' \in WebStates /\ faults' \in 0 .. MaxFaults
    BY <1>10 DEF UploadRaises
  <2> QED
    BY <1>10, <2>1, <2>2 DEF UploadRaises
<1>11. ASSUME NEW d \in Docs, NEW u \in Users, DeleteDoc(u, d)
       PROVE  TypeOK'
  BY <1>11 DEF DeleteDoc
<1>12. ASSUME NEW d \in Docs,
              DeleteRow(d) \/ RemoveDir(d) \/ Sweep(d)
       PROVE  TypeOK'
  <2>1. web' \in WebStates
    <3>1. CASE DeleteRow(d)
      BY <3>1 DEF DeleteRow
    <3>2. CASE RemoveDir(d)
      BY <3>2 DEF RemoveDir
    <3>3. CASE Sweep(d)
      BY <3>3 DEF Sweep
    <3> QED
      BY <1>12, <3>1, <3>2, <3>3
  <2> QED
    BY <1>12, <2>1 DEF DeleteRow, RemoveDir, Sweep
<1>13. ASSUME NEW d \in Docs, RemoveDirFails(d) \/ SweepFails(d)
       PROVE  TypeOK'
  <2>0. stuck' \in 0 .. MaxStuck
    BY <1>13 DEF RemoveDirFails, SweepFails
  <2>1. web' \in WebStates
    <3>1. CASE RemoveDirFails(d)
      BY <3>1 DEF RemoveDirFails
    <3>2. CASE SweepFails(d)
      BY <3>2 DEF SweepFails
    <3> QED
      BY <1>13, <3>1, <3>2
  <2> QED
    BY <1>13, <2>0, <2>1 DEF RemoveDirFails, SweepFails
<1>14. CASE CreateDoc \/ RecordOrphan \/ ClearOrphan
  <2>1. web' \in WebStates
    <3>1. CASE CreateDoc
      BY <3>1 DEF CreateDoc
    <3>2. CASE RecordOrphan
      BY <3>2 DEF RecordOrphan
    <3>3. CASE ClearOrphan
      BY <3>3 DEF ClearOrphan
    <3> QED
      BY <1>14, <3>1, <3>2, <3>3
  <2>2. web.at \in {"storing", "record"} => web.doc \in Docs
    BY DEF FilesSafe
  <2>3. rows' \subseteq Docs /\ orphans' \subseteq Docs
    BY <1>14, <2>2 DEF CreateDoc, RecordOrphan, ClearOrphan
  <2> QED
    BY <1>14, <2>1, <2>3 DEF CreateDoc, RecordOrphan, ClearOrphan
<1>15. CASE DeleteShelf
  BY <1>15 DEF DeleteShelf
<1>16. CASE RemoveMembers
  <2>1. members' = <<>> /\ members' \in Seq(Members) /\ RowsDiffer'
    BY <1>16, EmptySeq DEF RemoveMembers, RowsDiffer
  <2> QED
    BY <1>16, <2>1 DEF RemoveMembers, Invalidate, Members, RowsDiffer
<1>17. CASE RemoveDocDir
  BY <1>17 DEF RemoveDocDir, Invalidate
<1>18. CASE DeletionRaises \/ ClearFails
  <2>0. faults' \in 0 .. MaxFaults
    BY <1>18 DEF DeletionRaises, ClearFails
  <2>1. web' \in WebStates
    <3>1. CASE DeletionRaises
      BY <3>1 DEF DeletionRaises
    <3>2. CASE ClearFails
      BY <3>2 DEF ClearFails
    <3> QED
      BY <1>18, <3>1, <3>2
  <2>2. orphans' \subseteq Docs
    BY <1>18 DEF DeletionRaises, ClearFails, Interrupted
  <2> QED
    BY <1>18, <2>0, <2>1, <2>2 DEF DeletionRaises, ClearFails
<1>19. CASE Stop
  <2>1. web' \in WebStates /\ stops' \in 0 .. MaxStops
    BY <1>19 DEF Stop
  <2>2. orphans' \subseteq Docs
    BY <1>19 DEF Stop, Interrupted
  <2>3. uploads' \in [Uploads -> [tree : Users \cup {Nobody},
                                  used : 0 .. Cardinality(Docs)]]
    BY <1>0, <1>19 DEF Stop, NoUpload
  <2>4. cache' \in [Users -> {Unknown} \cup 0 .. Cardinality(Docs)]
    BY <1>19 DEF Stop
  <2> QED
    BY <1>19, <2>1, <2>2, <2>3, <2>4 DEF Stop
<1>20. CASE Start \/ Serve
  <2>1. web' \in WebStates
    <3>1. CASE Start
      BY <3>1 DEF Start
    <3>2. CASE Serve
      BY <3>2 DEF Serve
    <3> QED
      BY <1>20, <3>1, <3>2
  <2> QED
    BY <1>20, <2>1 DEF Start, Serve
<1> HIDE UsersAssumption, BoundsAssumption DEF TypeOK
<1> QED
  BY NextCases, <1>1, <1>2, <1>3, <1>4, <1>5, <1>6, <1>7, <1>8, <1>9, <1>10,
     <1>11, <1>12, <1>13, <1>14, <1>15, <1>16, <1>17, <1>18, <1>19, <1>20

\* The steps that read the storage, reserve room in it or fill it.  Every other
\* step only forgets.
Fills ==
  \/ \E u \in Users : ShowStorage(u)
  \/ \E h \in Uploads : \E u \in Users : StartUpload(h, u)
  \/ \E h \in Uploads : \E d \in Docs : ReceiveFile(h, d)

Forgets ==
  /\ tree' = tree /\ dirs' \subseteq dirs /\ peak' = peak
  /\ faults' \in {faults, faults + 1}
  /\ \A t \in Users : cache'[t] \in {cache[t], Unknown}
  /\ \A h \in Uploads : uploads'[h] \in {uploads[h], NoUpload}
  /\ \/ uploads' = uploads
     \/ \E h \in Uploads :
          /\ uploads' = [uploads EXCEPT ![h] = NoUpload]
          /\ \/ faults' = faults + 1
             \/ InProgress(h) /\ cache'[uploads[h].tree] = Unknown
     \/ \A t \in Users : cache'[t] = Unknown

LEMMA OthersForget ==
  ASSUME TypeOK, Counted, [Next]_vars, ~Fills
  PROVE  Forgets
<1> USE DEF Forgets, accessVars, diskVars, countVars, InProgress, Ends
<1>0. /\ cache = [t \in Users |-> cache[t]] /\ DOMAIN cache = Users
      /\ uploads = [h \in Uploads |-> uploads[h]] /\ DOMAIN uploads = Uploads
  BY DEF TypeOK
<1>1. ASSUME UNCHANGED <<tree, dirs, cache, uploads, faults, peak>>
      PROVE  Forgets
  BY <1>1
<1>2. ASSUME NEW u \in Users, Expire(u) PROVE Forgets
  BY <1>0, <1>2 DEF Expire, Invalidate
<1>3. ASSUME NEW h \in Uploads, EndUpload(h) PROVE Forgets
  <2>1. uploads[h].tree \in Users
    BY <1>3 DEF Counted, EndUpload
  <2> QED
    BY <1>0, <1>3, <2>1 DEF EndUpload, Invalidate
<1>4. ASSUME NEW h \in Uploads, UploadRaises(h) PROVE Forgets
  BY <1>0, <1>4 DEF UploadRaises
<1>5. ASSUME NEW d \in Docs, RemoveDir(d) PROVE Forgets
  BY <1>5 DEF RemoveDir
<1>6. ASSUME NEW d \in Docs, Sweep(d) PROVE Forgets
  BY <1>6 DEF Sweep
<1>7. CASE RemoveMembers
  BY <1>0, <1>7 DEF RemoveMembers, Invalidate
<1>8. CASE RemoveDocDir
  BY <1>0, <1>8 DEF RemoveDocDir, Invalidate
<1>9. CASE DeletionRaises \/ ClearFails
  BY <1>9 DEF DeletionRaises, ClearFails
<1>10. CASE Stop
  BY <1>0, <1>10 DEF Stop
<1>11. ASSUME Create \/ (\E u, v \in Users : Unshare(u, v))
              \/ (\E u, v \in Users : \E r \in Roles : Share(u, v, r))
              \/ (\E u \in Users : DeleteCollection(u))
              \/ (\E d \in Docs : \E u \in Users : DeleteDoc(u, d))
              \/ (\E d \in Docs : DeleteRow(d))
              \/ (\E d \in Docs : RemoveDirFails(d) \/ SweepFails(d))
              \/ CreateDoc \/ DeleteShelf \/ RecordOrphan \/ ClearOrphan
              \/ Start \/ Serve
       PROVE  UNCHANGED <<tree, dirs, cache, uploads, faults, peak>>
  BY <1>11 DEF Create, Unshare, Share, DeleteCollection, DeleteDoc, DeleteRow,
               RemoveDirFails, SweepFails, CreateDoc, DeleteShelf,
               RecordOrphan, ClearOrphan, Start, Serve
<1>12. CASE UNCHANGED vars
  BY <1>1, <1>12 DEF vars
<1> HIDE DEF Forgets
<1> QED
  BY NextCases, <1>1, <1>2, <1>3, <1>4, <1>5, <1>6, <1>7, <1>8, <1>9, <1>10,
     <1>11, <1>12 DEF Fills

LEMMA NamesGrow ==
  ASSUME TypeOK, Counted, [Next]_vars, NEW t \in Users
  PROVE  Names[t] \in Nat /\ Names'[t] \in Nat /\ Names[t] <= Names'[t]
<1>1. ASSUME tree' = tree PROVE Ever(t) \subseteq (Ever(t))'
  BY <1>1 DEF Ever
<1>2. ASSUME NEW h \in Uploads, NEW d \in Docs, ReceiveFile(h, d)
      PROVE  Ever(t) \subseteq (Ever(t))'
  BY <1>2, UsersAssumption DEF ReceiveFile, Ever, TypeOK
<1>3. ASSUME tree' # tree PROVE Ever(t) \subseteq (Ever(t))'
  <2>1. Fills
    BY <1>3, OthersForget DEF Forgets
  <2>2. \E h \in Uploads : \E d \in Docs : ReceiveFile(h, d)
    BY <1>3, <2>1 DEF Fills, ShowStorage, StartUpload, diskVars
  <2>3. PICK h \in Uploads, d \in Docs : ReceiveFile(h, d)
    BY <2>2
  <2> QED
    BY <1>2, <2>3
<1>4. Ever(t) \subseteq (Ever(t))'
  BY <1>1, <1>3
<1>5. (Ever(t))' \subseteq Docs
  BY DEF Ever
<1>6. Cardinality((Ever(t))') \in Nat
      /\ Cardinality(Ever(t)) <= Cardinality((Ever(t))')
  BY <1>4, <1>5, FS_Subset, FS_CardinalityType, DocsAssumption
<1>7. Names'[t] = Cardinality((Ever(t))')
  BY DEF Names
<1> QED
  BY <1>6, <1>7, EverFinite

LEMMA CountedStep == TypeOK /\ Counted /\ [Next]_vars => Counted'
<1> SUFFICES ASSUME TypeOK, Counted, [Next]_vars PROVE Counted'
  OBVIOUS
<1> USE DEF TypeOK, InProgress, accessVars, diskVars, countVars
<1>1. \A t \in Users : /\ Names[t] \in Nat /\ Names'[t] \in Nat
                       /\ Names[t] <= Names'[t]
  BY NamesGrow
<1>2. ASSUME NEW h \in Uploads, uploads'[h] = uploads[h],
             uploads[h] # NoUpload
      PROVE  /\ uploads'[h].tree \in Users
             /\ uploads'[h].used <= Names'[uploads'[h].tree]
  <2>1. uploads[h].used \in Nat /\ uploads[h].tree \in Users
        /\ uploads[h].used <= Names[uploads[h].tree]
    BY <1>2 DEF Counted
  <2> QED
    BY <1>1, <1>2, <2>1
<1>3. ASSUME NEW t \in Users, cache'[t] = cache[t], cache[t] # Unknown
      PROVE  cache'[t] <= Names'[t]
  <2>1. cache[t] \in Nat /\ cache[t] <= Names[t]
    BY <1>3 DEF Counted
  <2> QED
    BY <1>1, <1>3, <2>1
<1>4. CASE ~Fills
  <2>1. Forgets
    BY <1>4, OthersForget
  <2> QED
    BY <1>2, <1>3, <2>1 DEF Counted, Forgets
<1>5. ASSUME NEW u \in Users, ShowStorage(u)
      PROVE  Counted'
  <2>1. uploads' = uploads /\ cache' = [cache EXCEPT ![u] = Stored(u)]
    BY <1>5 DEF ShowStorage
  <2>2. Stored(u) \in Nat /\ Stored(u) <= Names[u]
    BY StoredType
  <2>3. cache'[u] <= Names'[u]
    BY <1>1, <2>1, <2>2
  <2>4. \A t \in Users \ {u} : cache'[t] = cache[t]
    BY <2>1
  <2> QED
    BY <1>2, <1>3, <2>1, <2>3, <2>4 DEF Counted
<1>6. ASSUME NEW h \in Uploads, NEW u \in Users, StartUpload(h, u)
      PROVE  Counted'
  <2> DEFINE t == Owner(u)
  <2>1. t \in Users
    BY <1>6, OwnerType DEF Members, StartUpload
  <2>2. Used(t) \in Nat /\ Used(t) <= Names[t]
    BY <2>1, StoredType DEF Used, Counted
  <2>3. uploads' = [uploads EXCEPT ![h] = [tree |-> t, used |-> Used(t)]]
        /\ cache' = [cache EXCEPT ![t] = Used(t)]
    BY <1>6 DEF StartUpload
  <2> HIDE DEF t
  <2>4. cache'[t] <= Names'[t] /\ \A v \in Users \ {t} : cache'[v] = cache[v]
    BY <1>1, <2>1, <2>2, <2>3
  <2>5. uploads'[h].tree = t /\ uploads'[h].used <= Names'[t]
        /\ \A k \in Uploads \ {h} : uploads'[k] = uploads[k]
    BY <1>1, <2>1, <2>2, <2>3
  <2> QED
    BY <1>2, <1>3, <2>1, <2>4, <2>5 DEF Counted
<1>7. ASSUME NEW h \in Uploads, NEW d \in Docs, ReceiveFile(h, d)
      PROVE  Counted'
  <2> DEFINE t == uploads[h].tree
  <2>1. t \in Users /\ uploads[h].used <= Names[t] /\ uploads[h].used \in Nat
    BY <1>7 DEF ReceiveFile, Counted
  <2>2. uploads'[h].tree = t /\ uploads'[h].used = uploads[h].used + 1
        /\ (\A k \in Uploads \ {h} : uploads'[k] = uploads[k])
        /\ cache' = cache /\ tree' = [tree EXCEPT ![d] = t] /\ tree[d] = Nobody
    BY <1>7 DEF ReceiveFile
  <2> HIDE DEF t
  <2>3. Names'[t] = Names[t] + 1
    <3>1. {e \in Docs : tree'[e] = t} = Ever(t) \cup {d} /\ tree[d] # t
      BY <2>1, <2>2, UsersAssumption DEF Ever
    <3>2. Names'[t] = Cardinality({e \in Docs : tree'[e] = t})
      BY <2>1 DEF Names, Ever
    <3> QED
      BY <2>1, <3>1, <3>2, NextName
  <2>4. uploads'[h].used <= Names'[t]
    BY <1>1, <2>1, <2>2, <2>3
  <2> QED
    BY <1>2, <1>3, <2>1, <2>2, <2>4 DEF Counted
<1> QED
  BY <1>4, <1>5, <1>6, <1>7 DEF Fills

\* Every type, whatever is shared, uploaded, raised, ended and swept.
THEOREM TypeCorrect == Spec => []TypeOK
  BY FilesInit, FilesStep, TypesInit, TypesStep, CountedStep, PTL DEF Spec

-------------------------------------------------------------------------------
(* The quota.                                                              *)

\* The directories of a user, the requests that fill her tree, and the room the
\* requests believe to have: a pair for each file that one may yet write.
Filed(t) == {d \in dirs : tree[d] = t}
Serving(t) == {h \in Uploads : uploads[h].tree = t}
Room(t) == {r \in Uploads \X (1 .. Limit) :
              uploads[r[1]].tree = t /\ uploads[r[1]].used < r[2]}
Working == {k \in Uploads : InProgress(k)}

Files == [t \in Users |-> Cardinality(Filed(t))]
Requests == [t \in Users |-> Cardinality(Serving(t))]
Free == [t \in Users |-> Cardinality(Room(t))]
Busy == Cardinality(Working)

\* What is stored, with the room the requests believe to have, is bounded by the
\* quota of each request that was ever in progress at once; and it exceeds what
\* is cached by no more than the quota of each request in progress or that
\* raised, since the others dropped the figure when they ended.
QuotaSafe ==
  /\ Busy <= peak
  /\ \A t \in Users : Files[t] + Free[t] <= Limit * (peak + faults)
  /\ \A t \in Users : cache[t] # Unknown =>
       Files[t] + Free[t] <= cache[t] + Limit * (Requests[t] + faults)

LEMMA Sets ==
  ASSUME TypeOK, NEW t \in Users
  PROVE  /\ IsFiniteSet(Filed(t)) /\ IsFiniteSet(Serving(t))
         /\ IsFiniteSet(Room(t)) /\ IsFiniteSet(Working)
         /\ Files[t] = Cardinality(Filed(t)) /\ Files[t] \in Nat
         /\ Requests[t] = Cardinality(Serving(t)) /\ Requests[t] \in Nat
         /\ Free[t] = Cardinality(Room(t)) /\ Free[t] \in Nat
         /\ Busy \in Nat /\ Requests[t] <= Busy
         /\ Free[t] <= Requests[t] * Limit
<1>1. Filed(t) \subseteq Docs
  BY DEF Filed, TypeOK
<1>2. Serving(t) \subseteq Working /\ Working \subseteq Uploads
  BY UsersAssumption DEF Serving, Working, InProgress, NoUpload
<1>3. Room(t) \subseteq Serving(t) \X (1 .. Limit)
  BY DEF Room, Serving
<1>4. IsFiniteSet(Filed(t)) /\ Cardinality(Filed(t)) \in Nat
  BY <1>1, DocsAssumption, FS_Subset, FS_CardinalityType
<1>5. IsFiniteSet(Working) /\ Cardinality(Working) \in Nat
  BY <1>2, BoundsAssumption, FS_Subset, FS_CardinalityType
<1>6. IsFiniteSet(Serving(t)) /\ Cardinality(Serving(t)) \in Nat
      /\ Cardinality(Serving(t)) <= Cardinality(Working)
  BY <1>2, <1>5, FS_Subset, FS_CardinalityType
<1>7. IsFiniteSet(1 .. Limit) /\ Cardinality(1 .. Limit) = Limit
  <2>1. 1 \in Int /\ Limit \in Int /\ Limit \in Nat
    BY BoundsAssumption
  <2>2. /\ IsFiniteSet(1 .. Limit)
        /\ Cardinality(1 .. Limit) = IF 1 > Limit THEN 0 ELSE Limit - 1 + 1
    BY <2>1, FS_Interval
  <2> QED
    BY <2>1, <2>2
<1>8. IsFiniteSet(Serving(t) \X (1 .. Limit))
      /\ Cardinality(Serving(t) \X (1 .. Limit)) =
           Cardinality(Serving(t)) * Limit
  BY <1>6, <1>7, FS_Product
<1>9. IsFiniteSet(Room(t)) /\ Cardinality(Room(t)) \in Nat
      /\ Cardinality(Room(t)) <= Cardinality(Serving(t)) * Limit
  BY <1>3, <1>8, FS_Subset, FS_CardinalityType
<1> QED
  BY <1>4, <1>5, <1>6, <1>9 DEF Files, Requests, Free, Busy

\* Forgetting makes nothing larger; a request that goes takes its figure along,
\* or raised.
LEMMA ForgetCounts ==
  ASSUME TypeOK, TypeOK', Forgets, NEW t \in Users
  PROVE  /\ Files'[t] <= Files[t] /\ Free'[t] <= Free[t] /\ Busy' <= Busy
         /\ cache'[t] # Unknown =>
              \/ Requests'[t] = Requests[t]
              \/ faults' = faults + 1 /\ Requests'[t] >= Requests[t] - 1
<1>0. \A h \in Uploads : uploads'[h] = uploads[h] \/ uploads'[h] = NoUpload
  BY DEF Forgets
<1>1. Files'[t] <= Files[t]
  <2>1. (Filed(t))' \subseteq Filed(t)
    BY DEF Forgets, Filed
  <2>2. Files'[t] = Cardinality((Filed(t))')
    BY DEF Files
  <2> QED
    BY <2>1, <2>2, Sets, FS_Subset
<1>2. Free'[t] <= Free[t]
  <2>1. (Room(t))' \subseteq Room(t)
    BY <1>0, UsersAssumption DEF Room, NoUpload
  <2>2. Free'[t] = Cardinality((Room(t))')
    BY DEF Free
  <2> QED
    BY <2>1, <2>2, Sets, FS_Subset
<1>3. Busy' <= Busy
  <2>1. Working' \subseteq Working
    BY <1>0 DEF Working, InProgress
  <2>2. Busy' = Cardinality(Working')
    BY DEF Busy
  <2> QED
    BY <2>1, <2>2, Sets, FS_Subset DEF Busy
<1>4. ASSUME cache'[t] # Unknown
      PROVE  \/ Requests'[t] = Requests[t]
             \/ faults' = faults + 1 /\ Requests'[t] >= Requests[t] - 1
  <2>1. Requests'[t] = Cardinality((Serving(t))')
    BY DEF Requests
  <2>2. ASSUME uploads' = uploads PROVE Requests'[t] = Requests[t]
    BY <2>2 DEF Requests, Serving
  <2>3. ASSUME NEW h \in Uploads, uploads' = [uploads EXCEPT ![h] = NoUpload],
               faults' = faults + 1
        PROVE  Requests'[t] >= Requests[t] - 1
    <3>1. (Serving(t))' = Serving(t) \ {h}
      BY <2>3, UsersAssumption DEF Serving, NoUpload, TypeOK
    <3>2. IsFiniteSet(Serving(t)) /\ Requests[t] = Cardinality(Serving(t))
          /\ Requests[t] \in Nat
      BY Sets
    <3>3. Cardinality((Serving(t))') =
            IF h \in Serving(t) THEN Requests[t] - 1 ELSE Requests[t]
      BY <3>1, <3>2, FS_RemoveElement
    <3> QED
      BY <2>1, <3>2, <3>3
  <2>4. ASSUME NEW h \in Uploads, uploads' = [uploads EXCEPT ![h] = NoUpload],
               cache'[uploads[h].tree] = Unknown
        PROVE  Requests'[t] = Requests[t]
    <3>1. h \notin Serving(t)
      BY <1>4, <2>4 DEF Serving
    <3>2. (Serving(t))' = Serving(t)
      BY <2>4, <3>1, UsersAssumption DEF Serving, NoUpload, TypeOK
    <3> QED
      BY <2>1, <3>2, Sets
  <2> QED
    BY <1>4, <2>2, <2>3, <2>4 DEF Forgets
<1> QED
  BY <1>1, <1>2, <1>3, <1>4

\* A request reserves, from what it takes for used, what is left of the quota.
LEMMA StartCounts ==
  ASSUME TypeOK, NEW h \in Uploads, NEW t \in Users, NEW n \in Nat,
         uploads[h] = NoUpload,
         uploads' = [uploads EXCEPT ![h] = [tree |-> t, used |-> n]]
  PROVE  /\ Requests'[t] = Requests[t] + 1 /\ Busy' = Busy + 1
         /\ n < Limit => Free'[t] <= Free[t] + (Limit - n)
         /\ ~(n < Limit) => Free'[t] = Free[t]
         /\ \A v \in Users \ {t} :
            Requests'[v] = Requests[v] /\ Free'[v] = Free[v]
<1>1. \A k \in Uploads :
        uploads'[k] = IF k = h THEN [tree |-> t, used |-> n] ELSE uploads[k]
  BY DEF TypeOK
<1>2. uploads[h].tree \notin Users
  BY UsersAssumption DEF NoUpload
<1>3. Requests'[t] = Requests[t] + 1
  <2>1. (Serving(t))' = Serving(t) \cup {h} /\ h \notin Serving(t)
    BY <1>1, <1>2 DEF Serving
  <2>2. Requests'[t] = Cardinality((Serving(t))')
    BY DEF Requests
  <2> QED
    BY <2>1, <2>2, Sets, FS_AddElement
<1>4. Busy' = Busy + 1
  <2>1. [tree |-> t, used |-> n] # NoUpload
    BY <1>2 DEF NoUpload
  <2>2. Working' = Working \cup {h} /\ h \notin Working
    BY <1>1, <2>1 DEF Working, InProgress
  <2>3. Busy' = Cardinality(Working')
    BY DEF Busy
  <2> QED
    BY <2>2, <2>3, Sets, FS_AddElement DEF Busy
<1>5. Free'[t] = Cardinality((Room(t))')
  BY DEF Free
<1>6. Limit \in Nat
  BY BoundsAssumption
<1>7. ASSUME n < Limit PROVE Free'[t] <= Free[t] + (Limit - n)
  <2> DEFINE new == {h} \X (n + 1 .. Limit)
  <2>1. (Room(t))' = Room(t) \cup new
    BY <1>1, <1>2, <1>6 DEF Room
  <2>2. IsFiniteSet(n + 1 .. Limit) /\ Cardinality(n + 1 .. Limit) = Limit - n
    <3>1. n + 1 \in Int /\ Limit \in Int
      BY <1>6
    <3>2. IsFiniteSet(n + 1 .. Limit)
          /\ Cardinality(n + 1 .. Limit) =
               IF n + 1 > Limit THEN 0 ELSE Limit - (n + 1) + 1
      BY <3>1, FS_Interval
    <3> QED
      BY <1>6, <1>7, <3>2
  <2>3. IsFiniteSet(new) /\ Cardinality(new) = 1 * (Limit - n)
    <3>1. IsFiniteSet({h}) /\ Cardinality({h}) = 1
      BY FS_Singleton
    <3> QED
      BY <2>2, <3>1, FS_Product
  <2> HIDE DEF new
  <2>4. IsFiniteSet(Room(t)) /\ Free[t] = Cardinality(Room(t))
        /\ Free[t] \in Nat
    BY Sets
  <2>5. Cardinality(Room(t) \cup new) =
          Free[t] + Cardinality(new) - Cardinality(Room(t) \cap new)
    BY <2>3, <2>4, FS_Union
  <2>6. Cardinality(Room(t) \cap new) \in Nat
    BY <2>4, FS_Intersection, FS_CardinalityType
  <2>7. Cardinality(new) = Limit - n
    BY <1>6, <2>3
  <2> QED
    BY <1>5, <1>6, <2>1, <2>4, <2>5, <2>6, <2>7
<1>8. ASSUME ~(n < Limit) PROVE Free'[t] = Free[t]
  <2>1. (Room(t))' = Room(t)
    BY <1>1, <1>2, <1>6, <1>8 DEF Room
  <2> QED
    BY <1>5, <2>1, Sets
<1>9. ASSUME NEW v \in Users \ {t}
      PROVE  Requests'[v] = Requests[v] /\ Free'[v] = Free[v]
  <2>1. (Serving(v))' = Serving(v)
    BY <1>1, <1>2 DEF Serving
  <2>2. (Room(v))' = Room(v)
    BY <1>1, <1>2 DEF Room
  <2>3. Requests'[v] = Cardinality((Serving(v))')
        /\ Free'[v] = Cardinality((Room(v))')
    BY DEF Requests, Free
  <2> QED
    BY <2>1, <2>2, <2>3, Sets
<1> QED
  BY <1>3, <1>4, <1>7, <1>8, <1>9

\* A file takes the room that its request believed to have for it.
LEMMA ReceiveCounts ==
  ASSUME TypeOK, Counted, NEW h \in Uploads, NEW d \in Docs, ReceiveFile(h, d),
         NEW t \in Users
  PROVE  /\ Files'[t] + Free'[t] = Files[t] + Free[t]
         /\ Requests'[t] = Requests[t] /\ Busy' = Busy
<1>1. /\ \A k \in Uploads : uploads'[k].tree = uploads[k].tree
      /\ \A k \in Uploads \ {h} : uploads'[k] = uploads[k]
      /\ uploads'[h].used = uploads[h].used + 1
      /\ uploads[h].used < Limit /\ uploads[h].used \in Nat
      /\ uploads[h] # NoUpload /\ uploads[h].tree \in Users
  BY DEF ReceiveFile, TypeOK, Counted, InProgress
<1>2. /\ tree' = [tree EXCEPT ![d] = uploads[h].tree] /\ tree[d] = Nobody
      /\ dirs' = dirs \cup {d}
  BY DEF ReceiveFile
<1>3. Requests'[t] = Requests[t]
  <2>1. (Serving(t))' = Serving(t)
    BY <1>1 DEF Serving
  <2>2. Requests'[t] = Cardinality((Serving(t))')
    BY DEF Requests
  <2> QED
    BY <2>1, <2>2, Sets
<1>4. Busy' = Busy
  <2>1. uploads'[h] # NoUpload
    BY <1>1, UsersAssumption DEF NoUpload
  <2>2. Working' = Working
    BY <1>1, <2>1 DEF Working, InProgress
  <2> QED
    BY <2>2 DEF Busy
<1>5. Files'[t] = Cardinality((Filed(t))') /\ Free'[t] = Cardinality((Room(t))')
  BY DEF Files, Free
<1>6. CASE uploads[h].tree = t
  <2>1. (Filed(t))' = Filed(t) \cup {d} /\ d \notin Filed(t)
    BY <1>2, <1>6, UsersAssumption DEF Filed, TypeOK
  <2> DEFINE r == <<h, uploads[h].used + 1>>
  <2>2. (Room(t))' = Room(t) \ {r} /\ r \in Room(t)
    <3>1. r \in Room(t)
      BY <1>1, <1>6, BoundsAssumption DEF Room
    <3>2. ASSUME NEW k \in Uploads, NEW n \in 1 .. Limit
          PROVE  uploads'[k].used < n <=>
                   uploads[k].used < n /\ <<k, n>> # r
      <4>1. CASE k = h
        BY <1>1, <4>1, BoundsAssumption
      <4>2. CASE k # h
        BY <1>1, <4>2
      <4> QED
        BY <4>1, <4>2
    <3> HIDE DEF r
    <3> QED
      BY <1>1, <3>1, <3>2 DEF Room
  <2> HIDE DEF r
  <2>3. /\ IsFiniteSet(Filed(t)) /\ Files[t] = Cardinality(Filed(t))
        /\ IsFiniteSet(Room(t)) /\ Free[t] = Cardinality(Room(t))
        /\ Files[t] \in Nat /\ Free[t] \in Nat
    BY Sets
  <2>4. Cardinality(Filed(t) \cup {d}) = Files[t] + 1
    BY <2>1, <2>3, FS_AddElement
  <2>5. Cardinality(Room(t) \ {r}) = Free[t] - 1
    BY <2>2, <2>3, FS_RemoveElement
  <2> QED
    BY <1>3, <1>4, <1>5, <2>1, <2>2, <2>3, <2>4, <2>5
<1>7. CASE uploads[h].tree # t
  <2>1. (Filed(t))' = Filed(t)
    BY <1>2, <1>7, UsersAssumption DEF Filed, TypeOK
  <2>2. (Room(t))' = Room(t)
    BY <1>1, <1>7 DEF Room
  <2> QED
    BY <1>3, <1>4, <1>5, <2>1, <2>2, Sets
<1> QED
  BY <1>6, <1>7

\* What the step's proof knows of multiples of the quota.
LEMMA Times ==
  /\ \A a, b \in Nat : a <= b => Limit * a <= Limit * b
  /\ \A a \in Nat : Limit * (a + 1) = Limit * a + Limit /\ Limit * a \in Nat
                   /\ a * Limit = Limit * a
  BY BoundsAssumption

Sized ==
  /\ \A t \in Users : /\ Files[t] \in Nat /\ Requests[t] \in Nat
                      /\ Free[t] \in Nat /\ Requests[t] <= Busy
                      /\ Free[t] <= Limit * Requests[t]
  /\ Busy \in Nat

LEMMA Sizes == TypeOK => Sized
  BY Sets, Times, UsersAssumption DEF Sized

LEMMA QuotaInit == Init => QuotaSafe
<1> SUFFICES ASSUME Init PROVE QuotaSafe
  OBVIOUS
<1>1. Working = {} /\ \A t \in Users : Filed(t) = {} /\ Room(t) = {}
  BY UsersAssumption DEF Init, Working, InProgress, NoUpload, Filed, Room
<1>2. Busy = 0 /\ \A t \in Users : Files[t] = 0 /\ Free[t] = 0
  BY <1>1, FS_EmptySet DEF Busy, Files, Free
<1>3. Limit * (0 + 0) = 0
  BY BoundsAssumption
<1> QED
  BY <1>2, <1>3 DEF Init, QuotaSafe

LEMMA Sums ==
  \A a, b, c, d \in Nat :
    a <= c /\ b <= d => a + b \in Nat /\ c + d \in Nat /\ a + b <= c + d
  OBVIOUS

LEMMA QuotaStep ==
  TypeOK /\ TypeOK' /\ Counted /\ QuotaSafe /\ [Next]_vars => QuotaSafe'
<1> SUFFICES ASSUME TypeOK, TypeOK', Counted, QuotaSafe, [Next]_vars
             PROVE  QuotaSafe'
  OBVIOUS
<1>1. /\ peak \in Nat /\ faults \in Nat /\ Limit \in Nat
      /\ \A t \in Users : cache[t] # Unknown => cache[t] \in Nat
  BY BoundsAssumption, DocsAssumption, FS_CardinalityType DEF TypeOK
<1>2. Sized /\ Sized'
  BY Sizes, PTL
<1>3. ASSUME NEW t \in Users, Files'[t] + Free'[t] <= Files[t] + Free[t],
             peak' \in Nat, faults' \in {faults, faults + 1}, peak <= peak'
      PROVE  Files'[t] + Free'[t] <= Limit * (peak' + faults')
  <2>1. Files[t] + Free[t] <= Limit * (peak + faults)
    BY DEF QuotaSafe
  <2>2. Limit * (peak + faults) <= Limit * (peak' + faults')
        /\ Limit * (peak + faults) \in Nat /\ Limit * (peak' + faults') \in Nat
    <3>1. faults \in Nat /\ peak \in Nat /\ peak' \in Nat /\ faults' \in Nat
          /\ faults <= faults' /\ peak <= peak'
      <4>1. CASE faults' = faults
        BY <1>1, <1>3, <4>1
      <4>2. CASE faults' = faults + 1
        BY <1>1, <1>3, <4>2
      <4> QED
        BY <1>3, <4>1, <4>2
    <3>2. peak + faults \in Nat /\ peak' + faults' \in Nat
          /\ peak + faults <= peak' + faults'
      BY <3>1, Sums
    <3> QED
      BY <3>2, Times
  <2> QED
    BY <1>2, <1>3, <2>1, <2>2 DEF Sized
\* What was cached is cached still.
<1>4. ASSUME NEW t \in Users, Files'[t] + Free'[t] <= Files[t] + Free[t],
             faults' \in Nat, Requests[t] + faults <= Requests'[t] + faults',
             cache'[t] = cache[t], cache[t] # Unknown
      PROVE  Files'[t] + Free'[t] <=
               cache'[t] + Limit * (Requests'[t] + faults')
  <2>1. Files[t] + Free[t] <= cache[t] + Limit * (Requests[t] + faults)
    BY <1>4 DEF QuotaSafe
  <2>2. Limit * (Requests[t] + faults) <= Limit * (Requests'[t] + faults')
        /\ Limit * (Requests[t] + faults) \in Nat
        /\ Limit * (Requests'[t] + faults') \in Nat
    <3>1. Requests[t] + faults \in Nat /\ Requests'[t] + faults' \in Nat
      BY <1>1, <1>2, <1>4, Sums DEF Sized
    <3> QED
      BY <1>4, <3>1, Times
  <2> QED
    BY <1>1, <1>2, <1>4, <2>1, <2>2 DEF Sized
<1>5. CASE ~Fills
  <2>1. Forgets
    BY <1>5, OthersForget
  <2>2. \A t \in Users : Files'[t] + Free'[t] <= Files[t] + Free[t]
    BY <1>2, <2>1, ForgetCounts DEF Sized
  <2>3. peak' = peak /\ faults' \in {faults, faults + 1}
        /\ \A t \in Users : cache'[t] \in {cache[t], Unknown}
    BY <2>1 DEF Forgets
  <2>4. Busy' <= peak'
    BY <1>1, <1>2, <2>1, <2>3, ForgetCounts, UsersAssumption
       DEF Sized, QuotaSafe
  <2>5. ASSUME NEW t \in Users, cache'[t] # Unknown
        PROVE  Requests[t] + faults <= Requests'[t] + faults'
    BY <1>1, <1>2, <2>1, <2>3, <2>5, ForgetCounts DEF Sized
  <2> QED
    BY <1>1, <1>3, <1>4, <2>2, <2>3, <2>4, <2>5 DEF QuotaSafe
<1>6. ASSUME NEW u \in Users, ShowStorage(u)
      PROVE  QuotaSafe'
  <2>1. /\ cache' = [cache EXCEPT ![u] = Stored(u)]
        /\ UNCHANGED <<tree, dirs, uploads, faults, peak>>
    BY <1>6 DEF ShowStorage, diskVars, countVars
  <2>2. Busy' = Busy /\ \A t \in Users : /\ Files'[t] = Files[t]
                                        /\ Free'[t] = Free[t]
                                        /\ Requests'[t] = Requests[t]
    BY <2>1 DEF Busy, Working, InProgress, Files, Filed, Free, Room, Requests,
                Serving
  <2>3. cache'[u] = Files[u] /\ \A t \in Users \ {u} : cache'[t] = cache[t]
    BY <2>1 DEF TypeOK, Stored, Files, Filed
  <2>4. Free[u] <= Limit * (Requests[u] + faults)
        /\ Limit * (Requests[u] + faults) \in Nat
    <3>1. Limit * Requests[u] <= Limit * (Requests[u] + faults)
          /\ Limit * Requests[u] \in Nat
          /\ Limit * (Requests[u] + faults) \in Nat
      BY <1>1, <1>2, Times DEF Sized
    <3> QED
      BY <1>2, <3>1 DEF Sized
  <2>5. Files'[u] + Free'[u] <= cache'[u] + Limit * (Requests'[u] + faults')
    BY <1>2, <2>1, <2>2, <2>3, <2>4 DEF Sized
  <2> QED
    BY <1>1, <1>2, <1>3, <1>4, <2>1, <2>2, <2>3, <2>5 DEF QuotaSafe, Sized
<1>7. ASSUME NEW h \in Uploads, NEW u \in Users, StartUpload(h, u)
      PROVE  QuotaSafe'
  <2> DEFINE t == Owner(u)
             n == Used(t)
  <2>1. t \in Users
    BY <1>7, OwnerType DEF TypeOK, Members, StartUpload
  <2>2. /\ uploads[h] = NoUpload
        /\ uploads' = [uploads EXCEPT ![h] = [tree |-> t, used |-> n]]
        /\ cache' = [cache EXCEPT ![t] = n]
        /\ peak' = IF Busy + 1 > peak THEN Busy + 1 ELSE peak
        /\ UNCHANGED <<tree, dirs, faults>>
    BY <1>7 DEF StartUpload, InProgress, Busy, Working, diskVars
  <2> HIDE DEF t
  <2>3. n = (IF cache[t] = Unknown THEN Files[t] ELSE cache[t]) /\ n \in Nat
    BY <1>1, <1>2, <2>1 DEF Used, Stored, Files, Filed, Sized
  <2> HIDE DEF n
  <2>4. /\ Requests'[t] = Requests[t] + 1 /\ Busy' = Busy + 1
        /\ n < Limit => Free'[t] <= Free[t] + (Limit - n)
        /\ ~(n < Limit) => Free'[t] = Free[t]
        /\ \A v \in Users \ {t} :
            Requests'[v] = Requests[v] /\ Free'[v] = Free[v]
    BY <2>1, <2>2, <2>3, StartCounts
  <2>5. \A v \in Users : Files'[v] = Files[v]
    BY <2>2 DEF Files, Filed
  <2>6. peak <= peak' /\ Busy' <= peak' /\ peak' \in Nat
    BY <1>1, <1>2, <2>2, <2>4 DEF Sized
  \* Each request in progress has the quota to fill at most.
  <2>7. /\ Limit * (Requests[t] + faults) + Limit <= Limit * (peak' + faults)
        /\ Limit * (Requests'[t] + faults) =
             Limit * (Requests[t] + faults) + Limit
        /\ Limit * Requests[t] <= Limit * (Requests[t] + faults)
        /\ Limit * Requests[t] \in Nat /\ Limit * (Requests[t] + faults) \in Nat
        /\ Limit * (peak' + faults) \in Nat
    <3>1. Requests[t] + faults \in Nat /\ peak' + faults \in Nat
          /\ Requests[t] + faults + 1 \in Nat /\ Requests[t] \in Nat
          /\ Requests[t] + faults + 1 <= peak' + faults
          /\ Requests'[t] + faults = Requests[t] + faults + 1
          /\ Requests[t] <= Requests[t] + faults
      BY <1>1, <1>2, <2>1, <2>4, <2>6 DEF Sized
    <3>2. Limit * (Requests[t] + faults + 1) =
            Limit * (Requests[t] + faults) + Limit
      BY <3>1, Times
    <3> QED
      BY <3>1, <3>2, Times
  <2>8. Files[t] + Free[t] <= n + Limit * (Requests[t] + faults)
    <3>1. CASE cache[t] = Unknown
      BY <1>1, <1>2, <2>1, <2>3, <2>7, <3>1 DEF Sized
    <3>2. CASE cache[t] # Unknown
      BY <2>1, <2>3, <3>2 DEF QuotaSafe
    <3> QED
      BY <3>1, <3>2
  <2>9. Files'[t] + Free'[t] <= Limit * (peak' + faults')
    <3>1. CASE n < Limit
      BY <1>1, <1>2, <2>1, <2>2, <2>3, <2>4, <2>5, <2>7, <2>8, <3>1 DEF Sized
    <3>2. CASE ~(n < Limit)
      BY <1>1, <1>2, <1>3, <2>1, <2>2, <2>4, <2>5, <2>6, <3>2 DEF Sized
    <3> QED
      BY <3>1, <3>2
  <2>10. Files'[t] + Free'[t] <= cache'[t] + Limit * (Requests'[t] + faults')
    <3>1. cache'[t] = n
      BY <2>1, <2>2 DEF TypeOK
    <3> QED
      BY <1>1, <1>2, <2>1, <2>2, <2>3, <2>4, <2>5, <2>7, <2>8, <3>1 DEF Sized
  <2>11. ASSUME NEW v \in Users \ {t}
         PROVE  /\ Files'[v] + Free'[v] <= Limit * (peak' + faults')
                /\ cache'[v] # Unknown =>
                     Files'[v] + Free'[v] <=
                       cache'[v] + Limit * (Requests'[v] + faults')
    <3>1. cache'[v] = cache[v] /\ Files'[v] + Free'[v] <= Files[v] + Free[v]
          /\ Requests'[v] = Requests[v]
      BY <1>2, <2>2, <2>4, <2>5 DEF TypeOK, Sized
    <3> QED
      BY <1>1, <1>2, <1>3, <1>4, <2>2, <2>6, <3>1 DEF Sized
  <2> QED
    BY <2>6, <2>9, <2>10, <2>11 DEF QuotaSafe
<1>8. ASSUME NEW h \in Uploads, NEW d \in Docs, ReceiveFile(h, d)
      PROVE  QuotaSafe'
  <2>1. cache' = cache /\ peak' = peak /\ faults' = faults
    BY <1>8 DEF ReceiveFile, countVars
  <2>2. Busy' = Busy /\ \A t \in Users :
          /\ Files'[t] + Free'[t] = Files[t] + Free[t]
          /\ Requests'[t] = Requests[t]
    BY <1>8, ReceiveCounts, UsersAssumption
  <2> QED
    BY <1>1, <1>2, <1>3, <1>4, <2>1, <2>2 DEF QuotaSafe, Sized
<1> QED
  BY <1>5, <1>6, <1>7, <1>8 DEF Fills

\* However uploads interleave, and whatever they find cached, they store no more
\* than a quota for each that was in progress at once and each that raised.
THEOREM QuotaIsKept == Spec => []QuotaByConcurrency
<1>1. ASSUME TypeOK, QuotaSafe PROVE QuotaByConcurrency
  <2>1. \A t \in Users : Stored(t) = Files[t]
    BY DEF Stored, Files, Filed
  <2>2. peak + faults \in Nat
    <3>1. peak \in Nat /\ faults \in Nat
      BY <1>1, BoundsAssumption, FS_CardinalityType DEF TypeOK
    <3> QED
      BY <3>1
  <2>3. Limit * (peak + faults) \in Nat
    BY <2>2, Times
  <2> QED
    BY <1>1, <2>1, <2>3, Sizes DEF QuotaSafe, QuotaByConcurrency, Sized
<1>2. TypeOK /\ QuotaSafe => QuotaByConcurrency
  BY <1>1
<1> QED
  BY FilesInit, FilesStep, TypesInit, TypesStep, CountedStep, QuotaInit,
     QuotaStep, <1>2, PTL DEF Spec
===============================================================================
