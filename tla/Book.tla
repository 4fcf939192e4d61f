---------------------------------- MODULE Book ----------------------------------
(***************************************************************************)
(* How a book becomes sections (app/pipeline/structure.py): the headings   *)
(* that were recognised on its pages are nested with a stack, one after    *)
(* the other, and each gets the text of the pages from its own to the one  *)
(* before the next heading's.  Pages are the grain of the text: where on a *)
(* page a heading stands is not kept.                                      *)
(***************************************************************************)
EXTENDS Naturals, Sequences

CONSTANTS
  Levels,     \* of headings: 1 for a chapter, 2 for a numbered section
  MaxPages,   \* bound: pages of a book
  MaxHeads    \* bound: headings of a book

ASSUME BookAssumption ==
  /\ Levels \subseteq Nat /\ 1 \in Levels
  /\ MaxPages \in Nat /\ MaxHeads \in Nat

VARIABLES
  pages,   \* how many pages there are
  heads,   \* the headings _scan_headings found, in the order of the pages
  done,    \* how many of them are in the tree
  parent,  \* the section each is in, 0 for the root
  stack    \* the sections the next one may be put into

bookVars == <<pages, heads, done, parent, stack>>

Ordered(hs) == \A i, j \in DOMAIN hs : i <= j => hs[i].page <= hs[j].page

Headings == [level : Levels, page : 1 .. pages]

\* Without a heading the whole document is one section (_fallback_chapter).
Sections == IF heads = <<>> THEN <<[level |-> 1, page |-> 1]>> ELSE heads
Count == Len(Sections)

NextPage(i) == IF i < Count THEN Sections[i + 1].page ELSE pages + 1

\* The pages whose text _collect_text gives to section i: none when the next
\* heading is on the same page.
Collected(i) == Sections[i].page .. NextPage(i) - 1

BookTypeOK ==
  /\ pages \in 0 .. MaxPages
  /\ heads \in Seq(Headings)
  /\ done \in 0 .. Count
  /\ parent \in [1 .. Count -> 0 .. Count]
  /\ stack \in Seq(1 .. done)

BookInit ==
  /\ pages \in 0 .. MaxPages
  /\ \E n \in 0 .. MaxHeads : heads \in [1 .. n -> Headings]
  /\ Ordered(heads)
  /\ done = 0
  /\ parent = [i \in 1 .. Count |-> 0]
  /\ stack = <<>>

Top == IF stack = <<>> THEN 0 ELSE stack[Len(stack)]

\* Mistake, kept to show that a property notices it: a section of the same
\* level stays open.
ClosesDeeper ==
  stack # <<>> /\ Sections[Top].level > Sections[done + 1].level

\* _build_tree: sections are popped until the last one is of a lower level than
\* the next, ...
ClosesTop ==
  stack # <<>> /\ Sections[Top].level >= Sections[done + 1].level

CloseSection ==
  /\ done < Count /\ ClosesTop
  /\ stack' = SubSeq(stack, 1, Len(stack) - 1)
  /\ UNCHANGED <<pages, heads, done, parent>>

\* ... which is put into that one, or into the root, and on the stack.
AddSection ==
  /\ done < Count /\ ~ClosesTop
  /\ parent' = [parent EXCEPT ![done + 1] = Top]
  /\ stack' = Append(stack, done + 1)
  /\ done' = done + 1
  /\ UNCHANGED <<pages, heads>>

BookNext == CloseSection \/ AddSection

BookSpec == BookInit /\ [][BookNext]_bookVars

-------------------------------------------------------------------------------
(* Properties.                                                             *)

\* _build_tree: the stack finds for each section the nearest one before it
\* that is of a lower level, however the levels jump.
NearestParent ==
  \A i \in 1 .. done :
    /\ parent[i] # 0 =>
         parent[i] < i /\ Sections[parent[i]].level < Sections[i].level
    /\ \A k \in parent[i] + 1 .. i - 1 : Sections[k].level >= Sections[i].level

\* tests/test_structure.py:58: the page on which the next heading appears
\* belongs to the new section only, several headings on one page included.
OneSection ==
  \A i, j \in 1 .. done : i # j => Collected(i) \cap Collected(j) = {}
===============================================================================
