---------------------------- MODULE LibraryProofs ----------------------------
(***************************************************************************)
(* Theorems about Book, for books of any length and any levels, and about  *)
(* Library, for any items, synonyms, keywords and queries: what a search   *)
(* answers while the worker and the web thread change the index under it.  *)
(***************************************************************************)
EXTENDS Library, SequenceTheorems, FiniteSetTheorems, TLAPS

-------------------------------------------------------------------------------
(* Books: the inductive invariant.                                         *)

\* What the proofs need of the types: the stack, as all sequences, is a function.
ShapeOK ==
  /\ pages \in Nat
  /\ \E n \in Nat : heads \in [1 .. n -> Headings]
  /\ Ordered(heads)
  /\ done \in 0 .. Count
  /\ parent \in [1 .. Count -> 0 .. Count]
  /\ stack \in Seq(1 .. done)

\* No section between a and b could contain b.
Gap(a, b) == \A k \in a + 1 .. b - 1 : Sections[k].level >= Sections[b].level

\* The entry of the stack before the n-th; below the first is the root.
Below(n) == IF n = 1 THEN 0 ELSE stack[n - 1]

\* What lies between two entries of the stack was closed by the later one, and
\* what lies between the last and the next section is closed by that.
StackIs ==
  /\ \A n \in 1 .. Len(stack) : Below(n) < stack[n] /\ Gap(Below(n), stack[n])
  /\ done < Count => Gap(Top, done + 1)

BookInv == ShapeOK /\ StackIs /\ NearestParent

USE BookAssumption

LEMMA SectionsShape ==
  ASSUME ShapeOK
  PROVE  /\ Count \in Nat \ {0}
         /\ \A i \in 1 .. Count :
              Sections[i].level \in Nat /\ Sections[i].page \in Nat
         /\ \A i, j \in 1 .. Count :
              i <= j => Sections[i].page <= Sections[j].page
<1>1. PICK n \in Nat : heads \in [1 .. n -> Headings]
  BY DEF ShapeOK
<1>2. Len(heads) = n /\ DOMAIN heads = 1 .. n
  BY <1>1
<1>3. \A i \in 1 .. n : heads[i].level \in Nat /\ heads[i].page \in Nat
  <2>1. \A i \in 1 .. n : heads[i] \in [level : Levels, page : 1 .. pages]
    BY <1>1 DEF Headings
  <2>2. pages \in Nat /\ Levels \subseteq Nat
    BY DEF ShapeOK
  <2> SUFFICES ASSUME NEW i \in 1 .. n
               PROVE  heads[i].level \in Nat /\ heads[i].page \in Nat
    OBVIOUS
  <2>3. heads[i].level \in Levels /\ heads[i].page \in 1 .. pages
    BY <2>1
  <2>4. heads[i].level \in Nat
    BY <2>2, <2>3
  <2>5. heads[i].page \in Nat
    BY <2>2, <2>3
  <2> QED
    BY <2>4, <2>5
<1>4. CASE heads = <<>>
  BY <1>4 DEF Sections, Count
<1>5. CASE heads # <<>>
  <2>1. n # 0
    BY <1>1, <1>5
  <2> QED
    BY <1>2, <1>3, <1>5, <2>1 DEF Sections, Count, ShapeOK, Ordered
<1> QED
  BY <1>4, <1>5

LEMMA BookStarts == BookInit => BookInv
<1> SUFFICES ASSUME BookInit PROVE BookInv
  OBVIOUS
<1>1. PICK n \in 0 .. MaxHeads : heads \in [1 .. n -> Headings]
  BY DEF BookInit
<1>2. Count \in Nat
  <2>1. Len(heads) \in Nat
    BY <1>1
  <2> QED
    BY <2>1 DEF Count, Sections
<1>3. ShapeOK
  BY <1>1, <1>2 DEF BookInit, ShapeOK
<1>4. StackIs /\ NearestParent
  BY DEF BookInit, StackIs, NearestParent, Gap, Top
<1> QED
  BY <1>3, <1>4 DEF BookInv

LEMMA TopIs ==
  ASSUME ShapeOK
  PROVE  /\ Len(stack) \in Nat
         /\ \A n \in 1 .. Len(stack) : stack[n] \in 1 .. done
         /\ Top \in 0 .. done /\ done \in Nat
         /\ stack # <<>> => Top = stack[Len(stack)] /\ Len(stack) # 0
<1>1. stack \in Seq(1 .. done) /\ done \in Nat
  BY SectionsShape DEF ShapeOK
<1>2. Len(stack) \in Nat /\ \A n \in 1 .. Len(stack) : stack[n] \in 1 .. done
  BY <1>1, ElementOfSeq, LenProperties
<1>3. stack # <<>> => Len(stack) # 0
  BY <1>1, EmptySeq
<1> QED
  BY <1>1, <1>2, <1>3 DEF Top

LEMMA OneBefore ==
  ASSUME NEW k \in Nat \ {0}
  PROVE  k = 1 \/ k - 1 \in 1 .. k
  OBVIOUS

LEMMA CloseKeeps ==
  ASSUME BookInv, CloseSection
  PROVE  BookInv'
<1>0. /\ ShapeOK /\ StackIs /\ NearestParent
      /\ pages' = pages /\ heads' = heads /\ done' = done /\ parent' = parent
  BY DEF BookInv, CloseSection
<1>1. Sections' = Sections /\ Count' = Count
  BY <1>0 DEF Sections, Count
<1> DEFINE last == Len(stack)
<1>2. /\ last \in Nat \ {0} /\ Top = stack[last] /\ Top \in 1 .. done
      /\ done < Count /\ Sections[Top].level >= Sections[done + 1].level
      /\ done \in Nat /\ Count \in Nat
      /\ \A n \in 1 .. last : stack[n] \in 1 .. done
  BY <1>0, TopIs, SectionsShape DEF CloseSection, ClosesTop
<1>3. /\ stack' \in Seq(1 .. done) /\ Len(stack') = last - 1
      /\ \A n \in 1 .. last - 1 : stack'[n] = stack[n]
  <2>1. stack \in Seq(1 .. done) /\ stack' = SubSeq(stack, 1, last - 1)
    BY <1>0 DEF CloseSection, ShapeOK
  <2>2. /\ 1 \in Int /\ last - 1 \in Int
        /\ \A n \in 1 .. last - 1 : stack[n] \in 1 .. done
    BY <1>2
  <2>3. /\ SubSeq(stack, 1, last - 1) \in Seq(1 .. done)
        /\ Len(SubSeq(stack, 1, last - 1)) =
             IF 1 <= last - 1 THEN (last - 1) - 1 + 1 ELSE 0
        /\ \A i \in 1 .. (last - 1) - 1 + 1 :
             SubSeq(stack, 1, last - 1)[i] = stack[1 + i - 1]
    BY <2>2, SubSeqProperties
  <2>4. last - 1 \in Nat /\ (last - 1) - 1 + 1 = last - 1
    BY <1>2
  <2>5. Len(stack') = last - 1
    BY <2>1, <2>3, <2>4
  <2>6. ASSUME NEW n \in 1 .. last - 1
        PROVE  stack'[n] = stack[n]
    <3>1. stack'[n] = stack[1 + n - 1] /\ 1 + n - 1 = n
      BY <2>1, <2>3, <2>4
    <3> QED
      BY <3>1
  <2> QED
    BY <2>1, <2>3, <2>5, <2>6
<1>4. ShapeOK'
  BY <1>0, <1>1, <1>3 DEF ShapeOK, Headings
<1>5. \A n \in 1 .. Len(stack') :
        Below(n)' = Below(n) /\ stack'[n] = stack[n]
  <2> SUFFICES ASSUME NEW n \in 1 .. Len(stack')
               PROVE  Below(n)' = Below(n) /\ stack'[n] = stack[n]
    OBVIOUS
  <2>1. n = 1 \/ n - 1 \in 1 .. last - 1
    BY <1>2, <1>3
  <2> QED
    BY <1>2, <1>3, <2>1 DEF Below
<1>6. Top' = Below(last)
  BY <1>2, <1>3 DEF Top, Below
<1>7. Gap(Below(last), done + 1)
  <2> SUFFICES ASSUME NEW k \in Below(last) + 1 .. done
               PROVE  Sections[k].level >= Sections[done + 1].level
    BY <1>2 DEF Gap
  <2>1. Below(last) \in 0 .. done
    <3>1. last = 1 \/ last - 1 \in 1 .. last
      BY <1>2, OneBefore
    <3> QED
      BY <1>2, <3>1 DEF Below
  <2>2. CASE k < Top
    <3>1. Sections[k].level >= Sections[Top].level
      BY <1>0, <1>2, <2>1, <2>2 DEF StackIs, Gap
    <3>2. k \in 1 .. Count /\ Top \in 1 .. Count /\ done + 1 \in 1 .. Count
      BY <1>2, <2>1, <2>2
    <3>3. /\ Sections[k].level \in Nat /\ Sections[Top].level \in Nat
          /\ Sections[done + 1].level \in Nat
      BY <1>0, <3>2, SectionsShape
    <3> QED
      BY <1>2, <3>1, <3>3
  <2>3. CASE k = Top
    BY <1>2, <2>3
  <2>4. CASE k > Top
    BY <1>0, <1>2, <2>1, <2>4 DEF StackIs, Gap
  <2> QED
    BY <1>2, <2>1, <2>2, <2>3, <2>4
<1>8. StackIs'
  <2>1. \A n \in 1 .. Len(stack') : n \in 1 .. Len(stack)
    BY <1>2, <1>3
  <2> QED
    BY <1>0, <1>1, <1>5, <1>6, <1>7, <2>1 DEF StackIs, Gap
<1>9. NearestParent'
  BY <1>0, <1>1 DEF NearestParent
<1> QED
  BY <1>4, <1>8, <1>9 DEF BookInv

LEMMA AddKeeps ==
  ASSUME BookInv, AddSection
  PROVE  BookInv'
<1> DEFINE next == done + 1
<1>0. /\ ShapeOK /\ StackIs /\ NearestParent
      /\ pages' = pages /\ heads' = heads /\ done' = next
      /\ parent' = [parent EXCEPT ![next] = Top]
      /\ stack' = Append(stack, next)
      /\ done < Count /\ ~ClosesTop
  BY DEF BookInv, AddSection
<1>1. Sections' = Sections /\ Count' = Count
  BY <1>0 DEF Sections, Count
<1>2. /\ next \in 1 .. Count /\ Count \in Nat /\ done \in Nat
      /\ Top \in 0 .. done
  <2>1. Count \in Nat
    BY <1>0, SectionsShape
  <2>2. done \in 0 .. Count
    BY <1>0 DEF ShapeOK
  <2>3. Top \in 0 .. done
    BY <1>0, TopIs
  <2> QED
    BY <1>0, <2>1, <2>2, <2>3
<1>3. /\ stack \in Seq(1 .. done) /\ Len(stack) \in Nat
      /\ Len(stack') = Len(stack) + 1
      /\ \A n \in 1 .. Len(stack) : stack'[n] = stack[n]
      /\ stack'[Len(stack) + 1] = next
      /\ \A n \in 1 .. Len(stack) : stack[n] \in 1 .. done
  <2>1. stack \in Seq(1 .. done) /\ stack \in Seq(Nat) /\ next \in Nat
    <3>1. stack \in Seq(1 .. done)
      BY <1>0 DEF ShapeOK
    <3>2. \A n \in 1 .. Len(stack) : stack[n] \in Nat
      BY <1>0, TopIs
    <3> QED
      BY <1>2, <3>1, <3>2, LenProperties, SeqDef
  <2> QED
    BY <1>0, <2>1, AppendProperties, TopIs
<1>4. ShapeOK'
  <2>1. stack' \in Seq(1 .. next)
    <3>1. 1 .. done \subseteq 1 .. next /\ next \in 1 .. next
      BY <1>2
    <3>2. stack \in Seq(1 .. next)
      <4>1. \A n \in 1 .. Len(stack) : stack[n] \in 1 .. next
        BY <1>3, <3>1
      <4>2. stack \in [1 .. Len(stack) -> 1 .. done]
        BY <1>3, LenProperties
      <4> QED
        BY <1>3, <3>1, SeqMonotonic
    <3> QED
      BY <1>0, <3>1, <3>2, AppendProperties
  <2>2. parent' \in [1 .. Count -> 0 .. Count]
    BY <1>0, <1>2 DEF ShapeOK
  <2>3. done' \in 0 .. Count'
    BY <1>0, <1>1, <1>2
  <2>4. pages' \in Nat /\ (\E n \in Nat : heads \in [1 .. n -> Headings])'
    BY <1>0 DEF ShapeOK, Headings
  <2>5. Ordered(heads)'
    BY <1>0 DEF ShapeOK
  <2> QED
    BY <1>0, <1>1, <2>1, <2>2, <2>3, <2>4, <2>5 DEF ShapeOK
<1>5. Top' = next
  BY <1>3 DEF Top
<1>6. \A n : n = Len(stack) + 1 => Below(n)' = Top /\ stack'[n] = next
  <2> SUFFICES ASSUME NEW n, n = Len(stack) + 1
               PROVE  Below(n)' = Top /\ stack'[n] = next
    OBVIOUS
  <2>1. CASE stack = <<>>
    <3>1. n = 1
      BY <2>1
    <3> QED
      BY <1>3, <2>1, <3>1 DEF Below, Top
  <2>2. CASE stack # <<>>
    <3>1. Len(stack) # 0 /\ Top = stack[Len(stack)]
      BY <1>0, <2>2, TopIs
    <3>2. stack'[Len(stack)] = stack[Len(stack)]
      BY <1>3, <3>1
    <3>3. n # 1 /\ n - 1 = Len(stack)
      BY <1>3, <3>1
    <3> QED
      BY <1>3, <3>1, <3>2, <3>3 DEF Below
  <2> QED
    BY <2>1, <2>2
<1>7. \A n \in 1 .. Len(stack) : Below(n)' = Below(n) /\ stack'[n] = stack[n]
  BY <1>3 DEF Below
<1>8. StackIs'
  <2>1. ASSUME NEW n \in 1 .. Len(stack')
        PROVE  (Below(n) < stack[n] /\ Gap(Below(n), stack[n]))'
    <3>1. CASE n \in 1 .. Len(stack)
      BY <1>0, <1>1, <1>7, <3>1 DEF StackIs, Gap
    <3>2. CASE n = Len(stack) + 1
      <4>1. Below(n)' = Top /\ stack'[n] = next
        BY <1>6, <3>2
      <4>2. Top < next
        BY <1>2
      <4>3. Gap(Top, next)
        BY <1>0 DEF StackIs
      <4> QED
        BY <1>1, <4>1, <4>2, <4>3 DEF Gap
    <3> QED
      BY <1>3, <2>1, <3>1, <3>2
  <2>2. Gap(Top, done + 1)'
    BY <1>0, <1>2, <1>5 DEF Gap
  <2> QED
    BY <2>1, <2>2 DEF StackIs
<1>9. NearestParent'
  <2>1. ASSUME NEW i \in 1 .. done
        PROVE  parent'[i] = parent[i]
    BY <1>0, <1>2, <2>1 DEF ShapeOK
  <2>2. parent'[next] = Top
    BY <1>0, <1>2 DEF ShapeOK
  <2>3. Top # 0 => Sections[Top].level < Sections[next].level
    <3>1. Top # 0 => stack # <<>>
      BY DEF Top
    <3> QED
      BY <1>0, <1>2, <3>1, SectionsShape DEF ClosesTop
  <2>4. Gap(Top, next)
    BY <1>0 DEF StackIs
  <2>5. \A i \in 1 .. next : i \in 1 .. done \/ i = next
    BY <1>2
  <2> QED
    BY <1>0, <1>1, <1>2, <2>1, <2>2, <2>3, <2>4, <2>5 DEF NearestParent, Gap
<1> QED
  BY <1>4, <1>8, <1>9 DEF BookInv

LEMMA BookHolds == BookSpec => []BookInv
<1>1. BookInv /\ UNCHANGED bookVars => BookInv'
  BY DEF BookInv, ShapeOK, StackIs, NearestParent, Gap, Below, Top, bookVars,
         Headings, Sections, Count
<1>2. BookInv /\ [BookNext]_bookVars => BookInv'
  BY <1>1, CloseKeeps, AddKeeps DEF BookNext
<1> QED
  BY <1>2, BookStarts, PTL DEF BookSpec

-------------------------------------------------------------------------------
(* Books: what it says.                                                    *)

\* _build_tree: the nesting is the one a reader sees, for any headings.
THEOREM TreeIsRight == BookSpec => []NearestParent
<1>1. BookInv => NearestParent
  BY DEF BookInv
<1> QED
  BY <1>1, BookHolds, PTL

\* _collect_text: no page is indexed with two sections.
THEOREM PagesAreOnce == BookSpec => []OneSection
<1>1. ASSUME BookInv, NEW i \in 1 .. done, NEW j \in 1 .. done, i < j
      PROVE  Collected(i) \cap Collected(j) = {}
  <2>1. i \in 1 .. Count /\ j \in 1 .. Count /\ i < Count /\ i + 1 \in 1 .. Count
    BY <1>1, SectionsShape DEF BookInv, ShapeOK
  <2>2. NextPage(i) = Sections[i + 1].page
    BY <2>1 DEF NextPage
  <2>3. Sections[i + 1].page <= Sections[j].page
    BY <1>1, <2>1, SectionsShape DEF BookInv
  <2>4. /\ NextPage(i) \in Nat /\ Sections[j].page \in Nat
        /\ Sections[i].page \in Nat
    BY <1>1, <2>1, <2>2, SectionsShape DEF BookInv
  <2> QED
    BY <2>2, <2>3, <2>4 DEF Collected
<1>2. BookInv => OneSection
  <2> SUFFICES ASSUME BookInv, NEW i \in 1 .. done, NEW j \in 1 .. done, i # j
               PROVE  Collected(i) \cap Collected(j) = {}
    BY DEF OneSection
  <2> QED
    BY <1>1
<1> QED
  BY <1>2, BookHolds, PTL

-------------------------------------------------------------------------------
(* The queries.                                                            *)

\* Of numbers there is a least one: this takes the place of an induction.
LEMMA LeastOf ==
  ASSUME NEW T, T \subseteq Nat, T # {}
  PROVE  \E m \in T : \A n \in T : m <= n
<1> DEFINE R == OpToRel(<, Nat)
<1>1. IsWellFoundedOn(R, Nat)
  BY NatLessThanWellFounded
<1>2. \A n, m \in Nat : n < m => <<n, m>> \in R
  BY DEF OpToRel
<1> HIDE DEF R
<1>3. PICK m \in T : \A n \in T : <<n, m>> \notin R
  BY <1>1, WFMin
<1>4. \A n \in T : ~(n < m) /\ n \in Nat /\ m \in Nat
  BY <1>2, <1>3
<1>5. \A n \in T : m <= n
  BY <1>4
<1> QED
  BY <1>5

\* The loop of expand_terms, for as many terms as there are.
Begins(terms, m, S) ==
  \A n \in 1 .. m : n \in S <=> ~(n - 1 \in S /\ Pair(terms, n - 1))

LEMMA StartsExist ==
  ASSUME NEW terms, NEW len \in Nat
  PROVE  \E S \in SUBSET (1 .. len) : Begins(terms, len, S)
<1> DEFINE Good(m) == \E S \in SUBSET (1 .. m) : Begins(terms, m, S)
           Bad == {m \in 0 .. len : ~Good(m)}
<1>1. Good(0)
  <2>1. Begins(terms, 0, {})
    BY DEF Begins
  <2> QED
    BY <2>1
<1>2. ASSUME NEW m \in 1 .. len, Good(m - 1) PROVE Good(m)
  <2>1. PICK S \in SUBSET (1 .. m - 1) : Begins(terms, m - 1, S)
    BY <1>2
  <2> DEFINE U == IF m - 1 \in S /\ Pair(terms, m - 1) THEN S ELSE S \cup {m}
  <2>2. U \in SUBSET (1 .. m) /\ m \notin S
    OBVIOUS
  <2>3. \A n \in 1 .. m - 1 : /\ n \in U <=> n \in S
                              /\ n - 1 \in U <=> n - 1 \in S
    OBVIOUS
  <2>4. m \in U <=> ~(m - 1 \in U /\ Pair(terms, m - 1))
    <3>1. m - 1 \in U <=> m - 1 \in S
      OBVIOUS
    <3> QED
      BY <2>2, <3>1
  <2> HIDE DEF U
  <2>5. ASSUME NEW n \in 1 .. m
        PROVE  n \in U <=> ~(n - 1 \in U /\ Pair(terms, n - 1))
    <3>1. CASE n = m
      BY <2>4, <3>1
    <3>2. CASE n # m
      <4>1. n \in 1 .. m - 1
        BY <3>2
      <4> QED
        BY <2>1, <2>3, <4>1 DEF Begins
    <3> QED
      BY <3>1, <3>2
  <2> QED
    BY <2>2, <2>5 DEF Begins
<1> HIDE DEF Good
<1>3. Bad = {}
  <2> SUFFICES ASSUME Bad # {} PROVE FALSE
    OBVIOUS
  <2>1. PICK m \in Bad : \A n \in Bad : m <= n
    <3>1. Bad \subseteq Nat
      OBVIOUS
    <3> HIDE DEF Bad
    <3> QED
      BY <3>1, LeastOf
  <2>2. m \in 0 .. len /\ ~Good(m)
    OBVIOUS
  <2>3. m # 0
    BY <1>1, <2>2
  <2>4. m \in 1 .. len /\ m - 1 \in 0 .. len /\ ~(m <= m - 1)
    BY <2>2, <2>3
  <2>5. Good(m - 1)
    BY <2>1, <2>4
  <2> QED
    BY <1>2, <2>2, <2>4, <2>5
<1>4. Good(len)
  BY <1>3
<1> QED
  BY <1>4 DEF Good

LEMMA StartsIs ==
  ASSUME NEW terms \in Seq(Items)
  PROVE  /\ Starts(terms) \subseteq DOMAIN terms
         /\ \A n \in DOMAIN terms :
              n \in Starts(terms) <=>
                ~(n - 1 \in Starts(terms) /\ Pair(terms, n - 1))
<1>1. DOMAIN terms = 1 .. Len(terms) /\ Len(terms) \in Nat
  BY LenProperties
<1>2. \E S \in SUBSET DOMAIN terms :
        \A n \in DOMAIN terms : n \in S <=> ~(n - 1 \in S /\ Pair(terms, n - 1))
  BY <1>1, StartsExist DEF Begins
<1> QED
  BY <1>2 DEF Starts

\* A term asked for by itself begins a group that it is in.
LEMMA SingleBegins ==
  ASSUME NEW terms \in Seq(Items), NEW t \in Single(terms)
  PROVE  \E n \in Starts(terms) : ~Pair(terms, n) /\ terms[n] = t
<1>1. PICK n \in DOMAIN terms :
        /\ ~Pair(terms, n) /\ (n > 1 => ~Pair(terms, n - 1)) /\ terms[n] = t
  BY DEF Single
<1>2. /\ n \in 1 .. Len(terms) /\ Len(terms) \in Nat
      /\ DOMAIN terms = 1 .. Len(terms)
  BY LenProperties
<1>3. n > 1 \/ n - 1 \notin DOMAIN terms
  BY <1>2
<1>4. n \in Starts(terms)
  BY <1>1, <1>3, StartsIs
<1> QED
  BY <1>1, <1>4

LEMMA GroupHolds ==
  ASSUME NEW x
  PROVE  x \in GroupOf(x)
  BY DEF GroupOf

\* The groups have the same places whatever keywords there are, and without any
\* they are smaller.
LEMMA GroupsIs ==
  ASSUME NEW terms \in Seq(Items), NEW K
  PROVE  /\ DOMAIN Expand(terms, Extra(terms, K)) = Starts(terms)
         /\ \A n \in Starts(terms) :
              Expand(terms, Extra(terms, K))[n] =
                Expand(terms, Extra(terms, {}))[n] \cup
                  (IF terms[n] \in Long THEN {k \in K : terms[n] \in WordsOf[k]}
                   ELSE {})
<1> DEFINE own(n) ==
      GroupOf(IF Pair(terms, n) THEN Phrases[SubSeq(terms, n, n + 1)]
              ELSE terms[n])
<1>1. ASSUME NEW L, NEW n \in Starts(terms)
      PROVE  Expand(terms, Extra(terms, L))[n] =
               own(n) \cup (IF terms[n] \in Long
                              THEN {k \in L : terms[n] \in WordsOf[k]} ELSE {})
  <2>1. terms[n] \in {terms[m] : m \in DOMAIN terms}
    BY StartsIs
  <2>2. Extra(terms, L)[terms[n]] =
          IF terms[n] \in Long THEN {k \in L : terms[n] \in WordsOf[k]} ELSE {}
    BY <2>1 DEF Extra
  <2>3. Expand(terms, Extra(terms, L))[n] = own(n) \cup Extra(terms, L)[terms[n]]
    BY DEF Expand
  <2> QED
    BY <2>2, <2>3
<1> HIDE DEF own
<1>2. ASSUME NEW n \in Starts(terms)
      PROVE  Expand(terms, Extra(terms, {}))[n] = own(n)
  <2>1. Expand(terms, Extra(terms, {}))[n] =
          own(n) \cup (IF terms[n] \in Long
                       THEN {k \in {} : terms[n] \in WordsOf[k]} ELSE {})
    BY <1>1
  <2> QED
    BY <2>1
<1> QED
  BY <1>1, <1>2 DEF Expand

LEMMA PlainGroup ==
  ASSUME NEW terms \in Seq(Items), NEW K, NEW n \in Starts(terms),
         ~Pair(terms, n)
  PROVE  terms[n] \in Expand(terms, Extra(terms, K))[n]
<1>1. terms[n] \in GroupOf(terms[n])
  BY GroupHolds
<1> QED
  BY <1>1 DEF Expand

-------------------------------------------------------------------------------
(* The cascade.                                                            *)

\* How many queries for the title the cascade begins with.
First(groups) == IF IsOne(groups) THEN 1 ELSE 0
AnyOf(groups) == UNION {groups[n] : n \in DOMAIN groups}
Starry(groups) == AllowPrefix(groups) /\ Starred(AnyOf(groups)) # {}

\* The cascade, query by query.
LEMMA CascadeIs ==
  ASSUME NEW terms, NEW extra
  PROVE  LET groups == Expand(terms, extra)
             c == Cascade(terms, extra)
             f == First(groups)
         IN  /\ DOMAIN c = 1 .. Len(c)
             /\ Len(c) = IF Starry(groups) THEN f + 3 ELSE f + 2
             /\ f = 1 => c[1] = [by |-> "title", groups |-> groups]
             /\ c[f + 1] = Strict(groups)
             /\ c[f + 2] = Loose(AnyOf(groups))
             /\ Starry(groups) =>
                  c[f + 3] = [by |-> "prefix", groups |-> <<AnyOf(groups)>>]
<1> DEFINE groups == Expand(terms, extra)
           any == AnyOf(groups)
           f == First(groups)
           title == [by |-> "title", groups |-> groups]
           prefix == [by |-> "prefix", groups |-> <<any>>]
           Q == {title, Strict(groups), Loose(any), prefix}
           a == Titles(groups)
           b == <<Strict(groups), Loose(any)>>
           w == Wildcards(groups, any)
<1>1. Cascade(terms, extra) = (a \o b) \o w
  BY DEF Cascade, AnyOf
<1>2. /\ a \in Seq(Q) /\ Len(a) = f /\ f \in {0, 1}
      /\ f = 1 => a[1] = title
  <2>1. CASE IsOne(groups)
    <3>1. a = <<title>> /\ f = 1
      BY <2>1 DEF Titles, First
    <3> HIDE DEF a, f, title, groups
    <3>2. <<title>> \in Seq(Q) /\ Len(<<title>>) = 1 /\ <<title>>[1] = title
      OBVIOUS
    <3> QED
      BY <3>1, <3>2
  <2>2. CASE ~IsOne(groups)
    <3>1. a = <<>> /\ f = 0
      BY <2>2 DEF Titles, First
    <3> HIDE DEF a, f, title, groups, Q
    <3> QED
      BY <3>1, EmptySeq
  <2> QED
    BY <2>1, <2>2
<1>3. b \in Seq(Q) /\ Len(b) = 2 /\ b[1] = Strict(groups) /\ b[2] = Loose(any)
  OBVIOUS
<1>4. /\ w \in Seq(Q) /\ Len(w) = IF Starry(groups) THEN 1 ELSE 0
      /\ Starry(groups) => w[1] = prefix
  <2>1. CASE Starry(groups)
    <3>1. w = <<prefix>>
      BY <2>1 DEF Wildcards, Starry
    <3> HIDE DEF w, prefix, groups
    <3>2. <<prefix>> \in Seq(Q) /\ Len(<<prefix>>) = 1 /\ <<prefix>>[1] = prefix
      OBVIOUS
    <3> QED
      BY <2>1, <3>1, <3>2
  <2>2. CASE ~Starry(groups)
    <3>1. w = <<>>
      BY <2>2 DEF Wildcards, Starry
    <3> HIDE DEF w, prefix, groups, Q
    <3> QED
      BY <2>2, <3>1, EmptySeq
  <2> QED
    BY <2>1, <2>2
<1> HIDE DEF groups, any, f, title, prefix, Q, a, b, w
<1>5. /\ a \o b \in Seq(Q) /\ Len(a \o b) = f + 2
      /\ f = 1 => (a \o b)[1] = title
      /\ (a \o b)[f + 1] = Strict(groups)
      /\ (a \o b)[f + 2] = Loose(any)
  <2>1. /\ a \o b \in Seq(Q) /\ Len(a \o b) = Len(a) + Len(b)
        /\ \A i \in 1 .. Len(a) + Len(b) :
             (a \o b)[i] = IF i <= Len(a) THEN a[i] ELSE b[i - Len(a)]
    BY <1>2, <1>3, ConcatProperties
  <2>2. /\ f + 1 \in 1 .. Len(a) + Len(b) /\ f + 2 \in 1 .. Len(a) + Len(b)
        /\ ~(f + 1 <= Len(a)) /\ ~(f + 2 <= Len(a))
        /\ f + 1 - Len(a) = 1 /\ f + 2 - Len(a) = 2
        /\ f = 1 => 1 \in 1 .. Len(a) + Len(b) /\ 1 <= Len(a)
    BY <1>2, <1>3
  <2>3. f = 1 => (a \o b)[1] = a[1]
    BY <2>1, <2>2
  <2>4. (a \o b)[f + 1] = b[1] /\ (a \o b)[f + 2] = b[2]
    <3>1. ASSUME NEW k \in {1, 2}, NEW i, i = f + k
          PROVE  (a \o b)[i] = b[k]
      <4>1. i \in 1 .. Len(a) + Len(b) /\ ~(i <= Len(a)) /\ i - Len(a) = k
        BY <1>2, <1>3, <3>1
      <4> QED
        BY <2>1, <4>1
    <3> QED
      BY <3>1
  <2>5. Len(a \o b) = f + 2
    BY <1>2, <1>3, <2>1
  <2> QED
    BY <1>2, <1>3, <2>1, <2>3, <2>4, <2>5
<1>6. /\ DOMAIN ((a \o b) \o w) = 1 .. Len((a \o b) \o w)
      /\ Len((a \o b) \o w) = f + 2 + Len(w)
      /\ \A i \in 1 .. f + 2 + Len(w) :
           ((a \o b) \o w)[i] =
             IF i <= f + 2 THEN (a \o b)[i] ELSE w[i - (f + 2)]
  <2>1. /\ Len((a \o b) \o w) = Len(a \o b) + Len(w)
        /\ \A i \in 1 .. Len(a \o b) + Len(w) :
             ((a \o b) \o w)[i] =
               IF i <= Len(a \o b) THEN (a \o b)[i] ELSE w[i - Len(a \o b)]
    BY <1>4, <1>5, ConcatProperties
  <2>2. (a \o b) \o w \in Seq(Q)
    BY <1>4, <1>5, ConcatProperties
  <2>3. DOMAIN ((a \o b) \o w) = 1 .. Len((a \o b) \o w)
    BY <2>2, LenProperties
  <2> QED
    BY <1>5, <2>1, <2>3
<1>7. ASSUME NEW c, c = (a \o b) \o w
      PROVE  /\ DOMAIN c = 1 .. Len(c)
             /\ Len(c) = IF Starry(groups) THEN f + 3 ELSE f + 2
             /\ f = 1 => c[1] = title
             /\ c[f + 1] = Strict(groups)
             /\ c[f + 2] = Loose(any)
             /\ Starry(groups) => c[f + 3] = prefix
  <2>1. CASE f = 0
    BY <1>4, <1>5, <1>6, <1>7, <2>1
  <2>2. CASE f = 1
    BY <1>4, <1>5, <1>6, <1>7, <2>2
  <2> QED
    BY <1>2, <2>1, <2>2
<1> QED
  BY <1>1, <1>7 DEF groups, any, f, title, prefix

\* match_mode names the query.
LEMMA ModeIs ==
  ASSUME NEW terms, NEW extra,
         NEW n \in 1 .. Len(Cascade(terms, extra))
  PROVE  /\ Mode(Cascade(terms, extra), n) = Cascade(terms, extra)[n].by
         /\ Cascade(terms, extra)[n].by \in {"title", "and", "or", "prefix"}
         /\ Cascade(terms, extra)[n].by \in {"or", "prefix"} =>
              \E m \in 1 .. n - 1 :
                Cascade(terms, extra)[m] = Strict(Expand(terms, extra))
<1> DEFINE groups == Expand(terms, extra)
           c == Cascade(terms, extra)
           f == First(groups)
<1>0. /\ Len(c) = IF Starry(groups) THEN f + 3 ELSE f + 2
      /\ f = 1 => c[1] = [by |-> "title", groups |-> groups]
      /\ c[f + 1] = Strict(groups)
      /\ c[f + 2] = Loose(AnyOf(groups))
      /\ Starry(groups) =>
           c[f + 3] = [by |-> "prefix", groups |-> <<AnyOf(groups)>>]
  BY CascadeIs
<1> HIDE DEF groups, c
<1>1. /\ Len(c) = (IF Starry(groups) THEN f + 3 ELSE f + 2) /\ f \in {0, 1}
      /\ f = 1 => c[1].by = "title"
      /\ c[f + 1] = Strict(groups) /\ c[f + 1].by = "and"
      /\ c[f + 2].by = "or"
      /\ Starry(groups) => c[f + 3].by = "prefix"
  BY <1>0 DEF First, Strict, Loose
<1> HIDE DEF f
<1>2. CASE f = 0
  <2>1. n = 1 \/ n = 2 \/ (n = 3 /\ Starry(groups))
    BY <1>1, <1>2 DEF c
  <2>2. c[1].by # "title"
    BY <1>1, <1>2
  <2> QED
    BY <1>1, <1>2, <2>1, <2>2 DEF Mode, c, groups
<1>3. CASE f = 1
  <2>1. n = 1 \/ n = 2 \/ n = 3 \/ (n = 4 /\ Starry(groups))
    BY <1>1, <1>3 DEF c
  <2> QED
    BY <1>1, <1>3, <2>1 DEF Mode, c, groups
<1> QED
  BY <1>1, <1>2, <1>3

-------------------------------------------------------------------------------
(* What a row matches.                                                     *)

\* A row that holds an item holds its words.
LEMMA ClosedHolds ==
  ASSUME NEW S, S \subseteq Items, NEW k \in Closed(S)
  PROVE  WordsOf[k] \subseteq Closed(S)
<1>1. CASE k \in S
  BY <1>1 DEF Closed
<1>2. CASE k \notin S
  <2>1. PICK s \in S : k \in WordsOf[s]
    BY <1>2 DEF Closed
  <2>2. WordsOf[k] = {k}
    BY <2>1, LibraryAssumption
  <2> QED
    BY <2>2
<1> QED
  BY <1>1, <1>2

\* What a query finds, query by query.
LEMMA HitsIs ==
  ASSUME NEW i \in Rows
  PROVE  /\ \A groups : i \in Hits(Strict(groups)) <=>
              \A n \in DOMAIN groups : groups[n] \cap Row(i) # {}
         /\ \A groups : i \in Hits([by |-> "title", groups |-> groups]) <=>
              \A n \in DOMAIN groups : groups[n] \cap Closed(Title(i)) # {}
         /\ \A any : i \in Hits(Loose(any)) <=> any \cap Row(i) # {}
         /\ \A any : i \in Hits([by |-> "prefix", groups |-> <<any>>]) <=>
              \/ any \cap Row(i) # {}
              \/ \E w \in Starred(any), x \in Row(i) : <<w, x>> \in Prefixes
<1>1. ASSUME NEW groups
      PROVE  i \in Hits(Strict(groups)) <=>
               \A n \in DOMAIN groups : groups[n] \cap Row(i) # {}
  BY DEF Hits, Matches, Strict
<1>2. ASSUME NEW groups
      PROVE  i \in Hits([by |-> "title", groups |-> groups]) <=>
               \A n \in DOMAIN groups : groups[n] \cap Closed(Title(i)) # {}
  BY DEF Hits, Matches
<1>3. ASSUME NEW any
      PROVE  i \in Hits(Loose(any)) <=> any \cap Row(i) # {}
  BY DEF Hits, Matches, Loose
<1>4. ASSUME NEW any
      PROVE  i \in Hits([by |-> "prefix", groups |-> <<any>>]) <=>
               \/ any \cap Row(i) # {}
               \/ \E w \in Starred(any), x \in Row(i) : <<w, x>> \in Prefixes
  BY DEF Hits, Matches
<1> QED
  BY <1>1, <1>2, <1>3, <1>4

\* What is printed, and what the keywords of the index are.
TextOK ==
  /\ prints \in [1 .. pages -> Texts]
  /\ pages \in Nat
  /\ \A i \in Rows : index[i] \subseteq Keywords

\* A section is given pages of the book, and no page from its first heading on
\* goes to no section.
LEMMA PagesAre ==
  ASSUME ShapeOK
  PROVE  /\ \A i \in 1 .. Count : \A p \in Collected(i) : p \in 1 .. pages
         /\ \A p \in 1 .. pages : ~(p < Sections[1].page) =>
              \E i \in 1 .. Count : p \in Collected(i)
<1>0. /\ Count \in Nat \ {0} /\ pages \in Nat
      /\ \A i \in 1 .. Count : Sections[i].page \in Nat
  BY SectionsShape DEF ShapeOK
<1>1. \A i \in 1 .. Count : Sections[i].page \in Nat \ {0}
  <2>1. CASE heads = <<>>
    BY <2>1 DEF Sections, Count
  <2>2. CASE heads # <<>>
    <3>1. PICK n \in Nat : heads \in [1 .. n -> Headings]
      BY DEF ShapeOK
    <3>2. Sections = heads /\ Count = n
      BY <2>2, <3>1 DEF Sections, Count
    <3>3. \A i \in 1 .. n : heads[i] \in [level : Levels, page : 1 .. pages]
      BY <3>1 DEF Headings
    <3>4. \A i \in 1 .. n : heads[i].page \in 1 .. pages
      BY <3>3
    <3> QED
      BY <1>0, <3>2, <3>4
  <2> QED
    BY <2>1, <2>2
<1>2. \A i \in 1 .. Count : i < Count => Sections[i + 1].page <= pages
  <2> SUFFICES ASSUME NEW i \in 1 .. Count, i < Count
               PROVE  Sections[i + 1].page <= pages
    OBVIOUS
  <2>1. heads # <<>>
    <3> SUFFICES ASSUME heads = <<>> PROVE FALSE
      OBVIOUS
    <3>1. Count = 1
      BY DEF Sections, Count
    <3> QED
      BY <3>1
  <2>2. PICK n \in Nat : heads \in [1 .. n -> Headings]
    BY DEF ShapeOK
  <2>3. Sections = heads /\ Count = n
    BY <2>1, <2>2 DEF Sections, Count
  <2>4. i + 1 \in 1 .. n
    BY <1>0, <2>3
  <2>5. heads[i + 1] \in [level : Levels, page : 1 .. pages]
    BY <2>2, <2>4 DEF Headings
  <2>6. heads[i + 1].page \in 1 .. pages
    BY <2>5
  <2> QED
    BY <1>0, <2>3, <2>6
<1>3. \A i \in 1 .. Count : NextPage(i) \in Nat /\ NextPage(i) <= pages + 1
  <2> SUFFICES ASSUME NEW i \in 1 .. Count
               PROVE  NextPage(i) \in Nat /\ NextPage(i) <= pages + 1
    OBVIOUS
  <2>1. CASE i < Count
    <3>1. i + 1 \in 1 .. Count
      BY <1>0, <2>1
    <3>2. Sections[i + 1].page \in Nat /\ Sections[i + 1].page <= pages
      BY <1>0, <1>2, <2>1, <3>1
    <3> QED
      BY <1>0, <2>1, <3>2 DEF NextPage
  <2>2. CASE ~(i < Count)
    BY <1>0, <2>2 DEF NextPage
  <2> QED
    BY <2>1, <2>2
<1>4. ASSUME NEW i \in 1 .. Count, NEW p \in Collected(i)
      PROVE  p \in 1 .. pages
  <2>1. /\ Sections[i].page \in Nat \ {0}
        /\ NextPage(i) \in Nat /\ NextPage(i) <= pages + 1
    BY <1>1, <1>3
  <2>2. p \in Sections[i].page .. NextPage(i) - 1
    BY DEF Collected
  <2> QED
    BY <1>0, <2>1, <2>2
<1>5. ASSUME NEW p \in 1 .. pages, ~(p < Sections[1].page)
      PROVE  \E i \in 1 .. Count : p \in Collected(i)
  <2> DEFINE T == {i \in 1 .. Count : p < NextPage(i)}
  <2>1. Count \in T
    BY <1>0 DEF NextPage
  <2>2. PICK i \in T : \A n \in T : i <= n
    <3>1. T \subseteq Nat /\ T # {}
      BY <2>1
    <3> HIDE DEF T
    <3> QED
      BY <3>1, LeastOf
  <2>3. i \in 1 .. Count /\ p < NextPage(i)
    OBVIOUS
  <2>4. Sections[i].page <= p
    <3>1. CASE i = 1
      BY <1>0, <1>5, <3>1
    <3>2. CASE i # 1
      <4>1. i - 1 \in 1 .. Count /\ i - 1 < Count /\ ~(i <= i - 1)
            /\ (i - 1) + 1 = i
        BY <1>0, <2>3, <3>2
      <4>2. i - 1 \notin T
        BY <2>2, <4>1
      <4>3. ~(p < NextPage(i - 1))
        BY <4>1, <4>2
      <4>4. NextPage(i - 1) = Sections[i].page
        BY <4>1 DEF NextPage
      <4> QED
        BY <1>0, <2>3, <4>3, <4>4
    <3> QED
      BY <3>1, <3>2
  <2>5. NextPage(i) \in Nat /\ Sections[i].page \in Nat
    BY <1>0, <1>3, <2>3
  <2>6. p \in Collected(i)
    BY <2>3, <2>4, <2>5 DEF Collected
  <2> QED
    BY <2>3, <2>6
<1> QED
  BY <1>4, <1>5

LEMMA BodyItems ==
  ASSUME BookInv, TextOK, NEW i \in 1 .. Count
  PROVE  Body(i) \subseteq Items /\ Title(i) \subseteq Items
<1>1. \A p \in Collected(i) : p \in 1 .. pages
  BY PagesAre DEF BookInv
<1>2. \A p \in 1 .. pages : prints[p] \subseteq Items
  BY LibraryAssumption DEF TextOK
<1>3. Body(i) \subseteq Items
  BY <1>1, <1>2 DEF Body
<1>4. Title(i) \subseteq Items
  BY LibraryAssumption DEF Title
<1> QED
  BY <1>3, <1>4

\* A row that holds an item holds its words.
LEMMA RowHolds ==
  ASSUME BookInv, TextOK, NEW i \in Rows, i \in 1 .. Count, NEW k
  PROVE  /\ k \in Row(i) => WordsOf[k] \subseteq Row(i)
         /\ k \in Closed(Title(i)) => WordsOf[k] \subseteq Closed(Title(i))
<1>1. /\ Title(i) \cup Body(i) \cup index[i] \subseteq Items
      /\ Title(i) \subseteq Items
  BY BodyItems, LibraryAssumption DEF TextOK
<1> QED
  BY <1>1, ClosedHolds DEF Row

-------------------------------------------------------------------------------
(* What the keywords of the cache add.                                     *)

Plain(terms) == \A n \in DOMAIN terms : ~Pair(terms, n)

\* A keyword that is added to a term holds that term, and is no word itself
\* unless it is the term.
LEMMA AddedHolds ==
  ASSUME NEW terms \in Seq(Items), Plain(terms), NEW K \in SUBSET Keywords,
         NEW n \in Starts(terms),
         NEW k \in Expand(terms, Extra(terms, K))[n],
         k \notin Expand(terms, Extra(terms, {}))[n]
  PROVE  /\ terms[n] \in WordsOf[k]
         /\ terms[n] \in Expand(terms, Extra(terms, {}))[n]
         /\ k \notin Long \cup NoPrefix
<1>1. n \in DOMAIN terms /\ ~Pair(terms, n)
  BY StartsIs DEF Plain
<1>2. terms[n] \in Expand(terms, Extra(terms, {}))[n]
  BY <1>1, PlainGroup
<1>3. terms[n] \in WordsOf[k]
  <2>1. k \in IF terms[n] \in Long
               THEN {x \in K : terms[n] \in WordsOf[x]} ELSE {}
    BY GroupsIs
  <2> QED
    BY <2>1
<1>4. k \notin Long \cup NoPrefix
  <2> SUFFICES ASSUME k \in Long \cup NoPrefix PROVE FALSE
    OBVIOUS
  <2>1. WordsOf[k] = {k}
    BY LibraryAssumption
  <2> QED
    BY <1>2, <1>3, <2>1
<1> QED
  BY <1>2, <1>3, <1>4

LEMMA GroupsGrow ==
  ASSUME NEW terms \in Seq(Items), NEW K
  PROVE  /\ DOMAIN Expand(terms, Extra(terms, K)) = Starts(terms)
         /\ DOMAIN Expand(terms, Extra(terms, {})) = Starts(terms)
         /\ \A n \in Starts(terms) :
              Expand(terms, Extra(terms, {}))[n] \subseteq
                Expand(terms, Extra(terms, K))[n]
<1>1. DOMAIN Expand(terms, Extra(terms, {})) = Starts(terms)
  BY GroupsIs
<1> QED
  BY <1>1, GroupsIs

\* The rows a group finds.
LEMMA SameMatches ==
  ASSUME NEW terms \in Seq(Items), Plain(terms), NEW K \in SUBSET Keywords,
         NEW C, \A k : k \in C => WordsOf[k] \subseteq C
  PROVE  LET full == Expand(terms, Extra(terms, K))
             bare == Expand(terms, Extra(terms, {}))
         IN  /\ \A n \in Starts(terms) :
                  full[n] \cap C # {} <=> bare[n] \cap C # {}
             /\ AnyOf(full) \cap C # {} <=> AnyOf(bare) \cap C # {}
<1> DEFINE full == Expand(terms, Extra(terms, K))
           bare == Expand(terms, Extra(terms, {}))
<1>1. ASSUME NEW n \in Starts(terms), NEW k \in full[n], k \in C
      PROVE  bare[n] \cap C # {}
  <2>1. CASE k \in bare[n]
    BY <1>1, <2>1
  <2>2. CASE k \notin bare[n]
    <3>1. terms[n] \in WordsOf[k] /\ terms[n] \in bare[n]
      BY <1>1, <2>2, AddedHolds
    <3> QED
      BY <1>1, <3>1
  <2> QED
    BY <2>1, <2>2
<1>2. /\ DOMAIN full = Starts(terms) /\ DOMAIN bare = Starts(terms)
      /\ \A n \in Starts(terms) : bare[n] \subseteq full[n]
  BY GroupsGrow
<1> HIDE DEF full, bare
<1>3. \A n \in Starts(terms) : full[n] \cap C # {} <=> bare[n] \cap C # {}
  BY <1>1, <1>2
<1>4. AnyOf(full) \cap C # {} <=> AnyOf(bare) \cap C # {}
  BY <1>2, <1>3 DEF AnyOf
<1> QED
  BY <1>3, <1>4 DEF full, bare

\* The words a star is put on, and whether one is.
LEMMA SameStars ==
  ASSUME NEW terms \in Seq(Items), Plain(terms), NEW K \in SUBSET Keywords
  PROVE  LET full == Expand(terms, Extra(terms, K))
             bare == Expand(terms, Extra(terms, {}))
         IN  /\ IsOne(full) <=> IsOne(bare)
             /\ Starred(AnyOf(full)) = Starred(AnyOf(bare))
             /\ Starry(full) <=> Starry(bare)
<1> DEFINE full == Expand(terms, Extra(terms, K))
           bare == Expand(terms, Extra(terms, {}))
<1>1. /\ DOMAIN full = Starts(terms) /\ DOMAIN bare = Starts(terms)
      /\ \A n \in Starts(terms) : bare[n] \subseteq full[n]
  BY GroupsGrow
<1>2. \A n \in Starts(terms) : \A k \in full[n] :
        k \in Long \cup NoPrefix => k \in bare[n]
  BY AddedHolds
<1> HIDE DEF full, bare
<1>3. IsOne(full) <=> IsOne(bare)
  BY <1>1 DEF IsOne
<1>4. Starred(AnyOf(full)) = Starred(AnyOf(bare))
  BY <1>1, <1>2 DEF Starred, AnyOf
<1>5. AllowPrefix(full) <=> AllowPrefix(bare)
  <2>1. CASE IsOne(full)
    <3>1. 1 \in Starts(terms)
      BY <1>1, <2>1 DEF IsOne
    <3>2. full[1] \cap NoPrefix = bare[1] \cap NoPrefix
      BY <1>1, <1>2, <3>1
    <3> QED
      BY <1>3, <2>1, <3>2 DEF AllowPrefix
  <2>2. CASE ~IsOne(full)
    BY <1>3, <2>2 DEF AllowPrefix
  <2> QED
    BY <2>1, <2>2
<1>6. Starry(full) <=> Starry(bare)
  BY <1>4, <1>5 DEF Starry
<1> QED
  BY <1>3, <1>4, <1>6 DEF full, bare

\* The two cascades find the same rows, query by query.
LEMMA SameHits ==
  ASSUME BookInv, TextOK, Rows \subseteq 1 .. Count,
         NEW terms \in Seq(Items), Plain(terms), NEW K \in SUBSET Keywords
  PROVE  LET c == Cascade(terms, Extra(terms, K))
             b == Cascade(terms, Extra(terms, {}))
         IN  /\ Len(c) = Len(b)
             /\ \A n \in 1 .. Len(b) : Hits(c[n]) = Hits(b[n])
<1> DEFINE c == Cascade(terms, Extra(terms, K))
           b == Cascade(terms, Extra(terms, {}))
           full == Expand(terms, Extra(terms, K))
           bare == Expand(terms, Extra(terms, {}))
           f == First(full)
<1>1. /\ Len(c) = IF Starry(full) THEN f + 3 ELSE f + 2
      /\ f = 1 => c[1] = [by |-> "title", groups |-> full]
      /\ c[f + 1] = Strict(full)
      /\ c[f + 2] = Loose(AnyOf(full))
      /\ Starry(full) => c[f + 3] = [by |-> "prefix", groups |-> <<AnyOf(full)>>]
  BY CascadeIs
<1>2. /\ IsOne(full) <=> IsOne(bare)
      /\ Starred(AnyOf(full)) = Starred(AnyOf(bare))
      /\ Starry(full) <=> Starry(bare)
  BY SameStars
<1>3. f = First(bare)
  BY <1>2 DEF First
<1>4. /\ Len(b) = IF Starry(bare) THEN First(bare) + 3 ELSE First(bare) + 2
      /\ First(bare) = 1 => b[1] = [by |-> "title", groups |-> bare]
      /\ b[First(bare) + 1] = Strict(bare)
      /\ b[First(bare) + 2] = Loose(AnyOf(bare))
      /\ Starry(bare) =>
           b[First(bare) + 3] = [by |-> "prefix", groups |-> <<AnyOf(bare)>>]
  BY CascadeIs
<1>5. f \in {0, 1}
  BY DEF First
<1>6. ASSUME NEW i \in Rows
      PROVE  /\ \A n \in Starts(terms) : full[n] \cap Row(i) # {} <=>
                                         bare[n] \cap Row(i) # {}
             /\ AnyOf(full) \cap Row(i) # {} <=> AnyOf(bare) \cap Row(i) # {}
             /\ \A n \in Starts(terms) : full[n] \cap Closed(Title(i)) # {} <=>
                                         bare[n] \cap Closed(Title(i)) # {}
  <2>1. \A k : /\ k \in Row(i) => WordsOf[k] \subseteq Row(i)
               /\ k \in Closed(Title(i)) => WordsOf[k] \subseteq Closed(Title(i))
    BY RowHolds
  <2> QED
    BY <2>1, SameMatches
<1>7. DOMAIN full = Starts(terms) /\ DOMAIN bare = Starts(terms)
  BY GroupsGrow
<1> HIDE DEF c, b, full, bare, f
<1>8. Hits(Strict(full)) = Hits(Strict(bare))
  <2>1. \A i \in Rows : i \in Hits(Strict(full)) <=> i \in Hits(Strict(bare))
    BY <1>6, <1>7, HitsIs
  <2> QED
    BY <2>1 DEF Hits
<1>9. Hits(Loose(AnyOf(full))) = Hits(Loose(AnyOf(bare)))
  <2>1. \A i \in Rows :
          i \in Hits(Loose(AnyOf(full))) <=> i \in Hits(Loose(AnyOf(bare)))
    BY <1>6, HitsIs
  <2> QED
    BY <2>1 DEF Hits
<1>10. Hits([by |-> "title", groups |-> full]) =
         Hits([by |-> "title", groups |-> bare])
  <2>1. \A i \in Rows : i \in Hits([by |-> "title", groups |-> full]) <=>
                        i \in Hits([by |-> "title", groups |-> bare])
    BY <1>6, <1>7, HitsIs
  <2> QED
    BY <2>1 DEF Hits
<1>11. Hits([by |-> "prefix", groups |-> <<AnyOf(full)>>]) =
         Hits([by |-> "prefix", groups |-> <<AnyOf(bare)>>])
  <2>1. \A i \in Rows :
          i \in Hits([by |-> "prefix", groups |-> <<AnyOf(full)>>]) <=>
            i \in Hits([by |-> "prefix", groups |-> <<AnyOf(bare)>>])
    BY <1>2, <1>6, HitsIs
  <2> QED
    BY <2>1 DEF Hits
<1>12. Len(c) = Len(b)
  BY <1>1, <1>2, <1>3, <1>4
<1>13. ASSUME NEW n \in 1 .. Len(b)
       PROVE  Hits(c[n]) = Hits(b[n])
  <2>1. \/ (f = 1 /\ n = 1) \/ n = f + 1 \/ n = f + 2
        \/ (n = f + 3 /\ Starry(bare))
    BY <1>3, <1>4, <1>5
  <2>2. CASE f = 1 /\ n = 1
    BY <1>1, <1>3, <1>4, <1>10, <2>2
  <2>3. CASE n = f + 1
    BY <1>1, <1>3, <1>4, <1>8, <2>3
  <2>4. CASE n = f + 2
    BY <1>1, <1>3, <1>4, <1>9, <2>4
  <2>5. CASE n = f + 3 /\ Starry(bare)
    BY <1>1, <1>2, <1>3, <1>4, <1>11, <2>5
  <2> QED
    BY <2>1, <2>2, <2>3, <2>4, <2>5
<1> QED
  BY <1>12, <1>13 DEF c, b

-------------------------------------------------------------------------------
(* Libraries: the inductive invariant.                                     *)

\* The bare groups of the terms, without keywords.
Bare(terms) == Expand(terms, Extra(terms, {}))
Queried(terms, K) == Cascade(terms, Extra(terms, K))

\* What an answer says of the rows that were there all the time.
AnswerIs(q, S, mode, ran) ==
  \/ mode = "empty"
  \/ mode = "none" /\ \A i \in S : Single(q) \cap Row(i) = {}
  \/ /\ mode = ran /\ mode \in {"title", "and", "or", "prefix"}
     /\ mode \in {"or", "prefix"} =>
          \A i \in S : \E n \in DOMAIN Bare(q) : Bare(q)[n] \cap Row(i) = {}

\* No query before the n-th found one of the rows.
Missed(S, cascade, n) == \A m \in 1 .. n - 1 : S \cap Hits(cascade[m]) = {}

Modes == {"none", "title", "and", "or", "prefix", "empty"}

Waits(q, S) == search = [at |-> "keywords", terms |-> q, seen |-> S]

Tries(q, S, c, n) ==
  /\ search = [at |-> "stage", terms |-> q, seen |-> S, n |-> n, cascade |-> c]
  /\ Missed(S, c, n)

Answers(q, S, mode, ran) ==
  /\ search = [at |-> "answered", terms |-> q, seen |-> S,
               mode |-> mode, ran |-> ran]
  /\ AnswerIs(q, S, mode, ran)

SearchIs ==
  \/ search = NoSearch
  \/ \E q \in Queries, S \in SUBSET Rows :
       \/ Waits(q, S)
       \/ \E K \in SUBSET Keywords :
            \E n \in 1 .. Len(Queried(q, K)) : Tries(q, S, Queried(q, K), n)
       \/ \E mode, ran \in Modes : Answers(q, S, mode, ran)

\* The rows are those of sections whose place in the tree is settled.
ShelfIs ==
  /\ pages \in 0 .. MaxPages
  /\ prints \in [1 .. pages -> Texts]
  /\ named \in 0 .. Len(heads)
  /\ listed \in BOOLEAN /\ deleting \in BOOLEAN
  /\ stage \in {"detect", "clear", "index", "rest"}
  /\ keyed \in [1 .. Count -> SUBSET Keywords]
  /\ Rows \subseteq Leaves /\ \A i \in Rows : index[i] \subseteq Keywords
  /\ cache = Unknown \/ cache \subseteq Keywords
  /\ Rows # {} \/ stage \in {"clear", "index"} => done = Count

LibraryInv == BookInv /\ ShelfIs /\ SearchIs

\* A step that leaves the text alone, and the rows with the keywords they have,
\* or empties the index.
Keeps ==
  /\ UNCHANGED <<pages, heads, textVars>>
  /\ \/ Rows' = {}
     \/ Rows \subseteq Rows' /\ \A i \in Rows : index'[i] = index[i]

LEMMA RowKept ==
  ASSUME Keeps, NEW i \in Rows, Rows' # {}
  PROVE  Row(i)' = Row(i) /\ Title(i)' = Title(i) /\ i \in Rows'
<1>1. /\ pages' = pages /\ heads' = heads /\ prints' = prints /\ named' = named
      /\ index'[i] = index[i] /\ i \in Rows'
  BY DEF Keeps, textVars
<1>2. Collected(i)' = Collected(i)
  BY <1>1 DEF Collected, NextPage, Sections, Count
<1>3. Body(i)' = Body(i) /\ Title(i)' = Title(i)
  BY <1>1, <1>2 DEF Body, Title
<1> QED
  BY <1>1, <1>3 DEF Row

LEMMA HitsKept ==
  ASSUME Keeps, NEW i \in Rows, Rows' # {}, NEW query
  PROVE  i \in Hits(query)' <=> i \in Hits(query)
<1>1. Row(i)' = Row(i) /\ Title(i)' = Title(i) /\ i \in Rows'
  BY RowKept
<1>2. \A group : Matches(i, query, group)' <=> Matches(i, query, group)
  BY <1>1 DEF Matches
<1> QED
  BY <1>1, <1>2 DEF Hits

\* What is said of a search stays true of the rows it may count on.
LEMMA SearchKept ==
  ASSUME Keeps,
         NEW S \in SUBSET Rows, NEW U, (U = S /\ Rows' # {}) \/ U = {}
  PROVE  /\ U \in SUBSET Rows'
         /\ \A cascade, n : Missed(S, cascade, n) => Missed(U, cascade, n)'
         /\ \A q, mode, ran :
              AnswerIs(q, S, mode, ran) => AnswerIs(q, U, mode, ran)'
<1>1. \A i \in U : /\ i \in S /\ i \in Rows /\ i \in Rows' /\ Row(i)' = Row(i)
                   /\ \A query : i \in Hits(query)' <=> i \in Hits(query)
  <2> SUFFICES ASSUME NEW i \in U
               PROVE  /\ i \in S /\ i \in Rows /\ i \in Rows' /\ Row(i)' = Row(i)
                      /\ \A query : i \in Hits(query)' <=> i \in Hits(query)
    OBVIOUS
  <2>1. i \in S /\ i \in Rows /\ Rows' # {}
    OBVIOUS
  <2> QED
    BY <2>1, RowKept, HitsKept
<1>2. U \in SUBSET Rows'
  BY <1>1
<1>3. ASSUME NEW cascade, NEW n, Missed(S, cascade, n)
      PROVE  Missed(U, cascade, n)'
  BY <1>1, <1>3 DEF Missed
<1>4. ASSUME NEW q, NEW mode, NEW ran, AnswerIs(q, S, mode, ran)
      PROVE  AnswerIs(q, U, mode, ran)'
  BY <1>1, <1>4 DEF AnswerIs
<1> QED
  BY <1>2, <1>3, <1>4

LEMMA BookSame == BookInv /\ UNCHANGED bookVars => BookInv'
  BY DEF BookInv, ShapeOK, StackIs, NearestParent, Gap, Below, Top, bookVars,
         Headings, Sections, Count

LEMMA ShelfSame ==
  ASSUME ShelfIs, UNCHANGED bookVars, UNCHANGED textVars,
         (listed \in BOOLEAN /\ deleting \in BOOLEAN)',
         (stage \in {"detect", "clear", "index", "rest"})',
         (keyed \in [1 .. Count -> SUBSET Keywords])',
         (Rows \subseteq Leaves)', (\A i \in Rows : index[i] \subseteq Keywords)',
         (cache = Unknown \/ cache \subseteq Keywords)',
         (Rows # {} \/ stage \in {"clear", "index"} => done = Count)'
  PROVE  ShelfIs'
  BY DEF ShelfIs, bookVars, textVars

LEMMA PlacesSame ==
  ASSUME UNCHANGED bookVars
  PROVE  /\ Leaves' = Leaves /\ Count' = Count /\ done' = done
         /\ pages' = pages /\ heads' = heads
  BY DEF bookVars, Leaves, Inside, Count, Sections

\* A step of the worker or of the web thread that leaves the searches alone.
LEMMA SearchSame ==
  ASSUME SearchIs, Keeps, search' = search, Rows' # {} \/ Rows = {}
  PROVE  SearchIs'
<1>1. CASE search = NoSearch
  BY <1>1 DEF SearchIs, NoSearch
<1>2. ASSUME NEW q \in Queries, NEW S \in SUBSET Rows,
             \/ Waits(q, S)
             \/ \E K \in SUBSET Keywords :
                  \E n \in 1 .. Len(Queried(q, K)) :
                    Tries(q, S, Queried(q, K), n)
             \/ \E mode, ran \in Modes : Answers(q, S, mode, ran)
      PROVE  SearchIs'
  <2>1. /\ S \in SUBSET Rows'
        /\ \A cascade, n : Missed(S, cascade, n) => Missed(S, cascade, n)'
        /\ \A mode, ran :
             AnswerIs(q, S, mode, ran) => AnswerIs(q, S, mode, ran)'
    <3>1. (S = S /\ Rows' # {}) \/ S = {}
      OBVIOUS
    <3> QED
      BY <3>1, SearchKept
  <2>2. CASE Waits(q, S)
    <3>1. Waits(q, S)'
      BY <2>2 DEF Waits
    <3> QED
      BY <2>1, <3>1 DEF SearchIs
  <2>3. ASSUME NEW K \in SUBSET Keywords, NEW n \in 1 .. Len(Queried(q, K)),
               Tries(q, S, Queried(q, K), n)
        PROVE  SearchIs'
    <3>1. Tries(q, S, Queried(q, K), n)'
      BY <2>1, <2>3 DEF Tries
    <3> QED
      BY <2>1, <3>1 DEF SearchIs
  <2>4. ASSUME NEW mode \in Modes, NEW ran \in Modes, Answers(q, S, mode, ran)
        PROVE  SearchIs'
    <3>1. Answers(q, S, mode, ran)'
      BY <2>1, <2>4 DEF Answers
    <3> QED
      BY <2>1, <3>1 DEF SearchIs
  <2> QED
    BY <1>2, <2>2, <2>3, <2>4
<1> QED
  BY <1>1, <1>2 DEF SearchIs

-------------------------------------------------------------------------------
(* The steps.                                                              *)

\* The index is emptied under a search, which may count on nothing any more.
LEMMA EmptyKeeps ==
  ASSUME LibraryInv, EmptyIndex, UNCHANGED <<bookVars, textVars>>
  PROVE  SearchIs' /\ Rows' = {}
<1>0. Rows' = {}
  BY DEF EmptyIndex, Rows, NoRows
<1>1. Keeps
  BY <1>0 DEF Keeps, bookVars
<1>2. ASSUME search = NoSearch PROVE SearchIs'
  <2>1. (search = NoSearch)'
    BY <1>2 DEF EmptyIndex, NoSearch
  <2> QED
    BY <2>1 DEF SearchIs
<1>3. ASSUME NEW q \in Queries, NEW S \in SUBSET Rows,
             \/ Waits(q, S)
             \/ \E K \in SUBSET Keywords :
                  \E n \in 1 .. Len(Queried(q, K)) :
                    Tries(q, S, Queried(q, K), n)
             \/ \E mode, ran \in Modes : Answers(q, S, mode, ran)
      PROVE  SearchIs'
  <2>1. /\ {} \in SUBSET Rows'
        /\ \A cascade, n : Missed(S, cascade, n) => Missed({}, cascade, n)'
        /\ \A mode, ran :
             AnswerIs(q, S, mode, ran) => AnswerIs(q, {}, mode, ran)'
    BY <1>1, SearchKept
  <2>2. CASE Waits(q, S)
    <3>1. Waits(q, {})'
      BY <2>2 DEF Waits, EmptyIndex
    <3> QED
      BY <2>1, <3>1 DEF SearchIs
  <2>3. ASSUME NEW K \in SUBSET Keywords, NEW n \in 1 .. Len(Queried(q, K)),
               Tries(q, S, Queried(q, K), n)
        PROVE  SearchIs'
    <3>1. Tries(q, {}, Queried(q, K), n)'
      BY <2>1, <2>3 DEF Tries, EmptyIndex
    <3> QED
      BY <2>1, <3>1 DEF SearchIs
  <2>4. ASSUME NEW mode \in Modes, NEW ran \in Modes, Answers(q, S, mode, ran)
        PROVE  SearchIs'
    <3>1. Answers(q, {}, mode, ran)'
      BY <2>1, <2>4 DEF Answers, EmptyIndex
    <3> QED
      BY <2>1, <3>1 DEF SearchIs
  <2> QED
    BY <1>3, <2>2, <2>3, <2>4
<1>4. SearchIs'
  BY <1>2, <1>3 DEF LibraryInv, SearchIs
<1> QED
  BY <1>0, <1>4

\* A step that only reads the index.
LEMMA ReadKeeps ==
  ASSUME LibraryInv, UNCHANGED <<bookVars, textVars, index>>
  PROVE  Keeps /\ Rows' = Rows
<1>1. Rows' = Rows
  BY DEF Rows
<1> QED
  BY <1>1 DEF Keeps, bookVars

LEMMA InitHolds == Init => LibraryInv
<1> SUFFICES ASSUME Init PROVE LibraryInv
  OBVIOUS
<1>1. BookInv
  BY BookStarts DEF Init
<1>2. Rows = {}
  BY DEF Init, Rows, NoRows
<1>3. ShelfIs
  BY <1>2 DEF Init, BookInit, ShelfIs
<1>4. SearchIs
  BY DEF Init, SearchIs
<1> QED
  BY <1>1, <1>3, <1>4 DEF LibraryInv

LEMMA DetectKeeps ==
  ASSUME LibraryInv, Detect
  PROVE  LibraryInv'
<1>1. BookInv'
  BY CloseKeeps, AddKeeps DEF LibraryInv, Detect, BookNext
<1>2. /\ done < Count /\ pages' = pages /\ heads' = heads
      /\ UNCHANGED <<textVars, shelfVars, searchVars>> /\ stage = "detect"
  BY DEF Detect, BookNext, CloseSection, AddSection
<1>3. done # Count
  BY <1>2, SectionsShape DEF LibraryInv, BookInv, ShapeOK
<1>4. Rows = {} /\ Rows' = {}
  BY <1>2, <1>3 DEF LibraryInv, ShelfIs, Rows, shelfVars
<1>5. Count' = Count
  BY <1>2 DEF Count, Sections
<1>6. Keeps
  BY <1>2, <1>4 DEF Keeps
<1>7. ShelfIs'
  BY <1>2, <1>4, <1>5 DEF LibraryInv, ShelfIs, shelfVars, searchVars, textVars
<1>8. SearchIs'
  BY <1>2, <1>4, <1>6, SearchSame DEF LibraryInv, searchVars
<1> QED
  BY <1>1, <1>7, <1>8 DEF LibraryInv

LEMMA WorkKeeps ==
  ASSUME LibraryInv, TierAndEnrich \/ RunStops \/ Reprocess \/ DeleteDoc
  PROVE  LibraryInv'
<1>1. /\ UNCHANGED <<bookVars, textVars, index, searchVars>>
  BY DEF TierAndEnrich, RunStops, Reprocess, DeleteDoc
<1>2. BookInv' /\ Keeps /\ Rows' = Rows
  BY <1>1, BookSame, ReadKeeps DEF LibraryInv
<1>3. SearchIs'
  BY <1>1, <1>2, SearchSame DEF LibraryInv, searchVars
<1>4. Leaves' = Leaves /\ Count' = Count /\ done' = done /\ cache' = cache
  BY <1>1, PlacesSame DEF searchVars
<1>5. CASE TierAndEnrich
  <2>1. keyed' \in [1 .. Count' -> SUBSET Keywords]
    BY <1>4, <1>5 DEF TierAndEnrich
  <2> QED
    BY <1>1, <1>2, <1>3, <1>4, <1>5, <2>1, ShelfSame
    DEF LibraryInv, ShelfIs, TierAndEnrich
<1>6. CASE RunStops \/ Reprocess \/ DeleteDoc
  BY <1>1, <1>2, <1>3, <1>4, <1>6, ShelfSame
  DEF LibraryInv, ShelfIs, RunStops, Reprocess, DeleteDoc
<1> QED
  BY <1>5, <1>6

LEMMA EmptiesKeep ==
  ASSUME LibraryInv, ClearRows \/ DeleteRows
  PROVE  LibraryInv'
<1>1. EmptyIndex /\ UNCHANGED <<bookVars, textVars, listed, keyed, cache>>
  BY DEF ClearRows, DeleteRows
<1>2. BookInv' /\ SearchIs' /\ Rows' = {}
  BY <1>1, BookSame, EmptyKeeps DEF LibraryInv
<1>3. Leaves' = Leaves /\ Count' = Count /\ done' = done
  BY <1>1, PlacesSame
<1>4. ShelfIs'
  BY <1>1, <1>2, <1>3, ShelfSame DEF LibraryInv, ShelfIs, ClearRows, DeleteRows
<1> QED
  BY <1>2, <1>4 DEF LibraryInv

LEMMA IndexKeeps ==
  ASSUME LibraryInv, IndexRow
  PROVE  LibraryInv'
<1>1. /\ stage = "index" /\ done = Count
      /\ UNCHANGED <<bookVars, textVars, listed, deleting, stage, keyed>>
      /\ UNCHANGED <<cache, search>>
  BY DEF IndexRow, LibraryInv, ShelfIs, searchVars
<1>2. PICK i \in ToIndex :
        index' = [k \in Rows \cup {i} |-> IF k = i THEN keyed[i] ELSE index[k]]
  BY DEF IndexRow
<1>3. i \in Leaves /\ i \notin Rows /\ i \in 1 .. Count
  BY <1>1, <1>2 DEF ToIndex, Leaves
<1>4. /\ Rows' = Rows \cup {i}
      /\ \A k \in Rows : index'[k] = index[k]
      /\ index'[i] = keyed[i]
  BY <1>2, <1>3 DEF Rows
<1>5. Keeps
  BY <1>1, <1>4 DEF Keeps, bookVars
<1>6. BookInv' /\ SearchIs'
  BY <1>1, <1>4, <1>5, BookSame, SearchSame DEF LibraryInv
<1>7. Leaves' = Leaves /\ Count' = Count /\ done' = done
  BY <1>1, PlacesSame
<1>8. ShelfIs'
  <2>1. \A k \in Rows' : index'[k] \subseteq Keywords
    BY <1>3, <1>4 DEF LibraryInv, ShelfIs
  <2>2. Rows' \subseteq Leaves'
    BY <1>3, <1>4, <1>7 DEF LibraryInv, ShelfIs
  <2> QED
    BY <1>1, <1>7, <2>1, <2>2, ShelfSame DEF LibraryInv, ShelfIs
<1> QED
  BY <1>6, <1>8 DEF LibraryInv

\* The steps of a search read the index and leave it alone.
LEMMA SearchingKeeps ==
  ASSUME LibraryInv, UNCHANGED <<bookVars, textVars, shelfVars>>,
         (cache = Unknown \/ cache \subseteq Keywords)', SearchIs'
  PROVE  LibraryInv'
<1>1. BookInv'
  BY BookSame DEF LibraryInv
<1>2. Leaves' = Leaves /\ Count' = Count /\ done' = done
  BY PlacesSame
<1>3. Rows' = Rows /\ index' = index
  BY DEF shelfVars, Rows
<1>4. ShelfIs'
  BY <1>2, <1>3, ShelfSame DEF LibraryInv, ShelfIs, shelfVars
<1> QED
  BY <1>1, <1>4 DEF LibraryInv

LEMMA QueriedIs ==
  ASSUME NEW q, NEW K
  PROVE  /\ Len(Queried(q, K)) \in {2, 3, 4}
         /\ \E n \in 1 .. Len(Queried(q, K)) :
              Queried(q, K)[n] = Loose(AnyOf(Expand(q, Extra(q, K))))
<1> DEFINE groups == Expand(q, Extra(q, K))
           c == Cascade(q, Extra(q, K))
           f == First(groups)
<1>1. /\ Len(c) = IF Starry(groups) THEN f + 3 ELSE f + 2
      /\ c[f + 2] = Loose(AnyOf(groups))
  BY CascadeIs
<1>2. f \in {0, 1} /\ c = Queried(q, K)
  BY DEF First, Queried
<1> HIDE DEF groups, c, f
<1>3. Len(c) \in {2, 3, 4} /\ f + 2 \in 1 .. Len(c)
  BY <1>1, <1>2
<1> QED
  BY <1>1, <1>2, <1>3 DEF groups

LEMMA AskKeeps ==
  ASSUME LibraryInv, Ask
  PROVE  LibraryInv'
<1>1. /\ UNCHANGED <<bookVars, textVars, shelfVars, cache>> /\ Rows' = Rows
  BY DEF Ask, shelfVars, Rows
<1>2. PICK q \in Queries :
        search' = IF listed
                  THEN [at |-> "keywords", terms |-> q, seen |-> Rows]
                  ELSE [at |-> "answered", terms |-> q, seen |-> {},
                        mode |-> "empty", ran |-> "none"]
  BY DEF Ask
<1>3. SearchIs'
  <2>1. CASE listed
    <3>1. ASSUME NEW S, S = Rows PROVE Waits(q, S)'
      BY <1>2, <2>1, <3>1 DEF Waits
    <3>2. \E S \in SUBSET Rows' : Waits(q, S)'
      BY <1>1, <3>1
    <3> QED
      BY <3>2 DEF SearchIs
  <2>2. CASE ~listed
    <3>1. Answers(q, {}, "empty", "none")'
      BY <1>2, <2>2 DEF Answers, AnswerIs
    <3>2. {} \in SUBSET Rows' /\ "empty" \in Modes /\ "none" \in Modes
      BY DEF Modes
    <3> QED
      BY <3>1, <3>2 DEF SearchIs
  <2> QED
    BY <2>1, <2>2
<1>4. (cache = Unknown \/ cache \subseteq Keywords)'
  BY <1>1 DEF LibraryInv, ShelfIs
<1> QED
  BY <1>1, <1>3, <1>4, SearchingKeeps

LEMMA KeywordsKeep ==
  ASSUME LibraryInv, FindKeywords
  PROVE  LibraryInv'
<1>1. UNCHANGED <<bookVars, textVars, shelfVars>> /\ Rows' = Rows
      /\ search.at = "keywords"
  BY DEF FindKeywords, shelfVars, Rows
<1>2. PICK q \in Queries, S \in SUBSET Rows : Waits(q, S)
  BY <1>1 DEF LibraryInv, SearchIs, NoSearch, Tries, Answers
<1>3. PICK K \in SUBSET Keywords :
        /\ search' = StageOne(K)
        /\ cache' = cache \/ cache' = K
  <2>1. CASE search' = StageOne({}) /\ UNCHANGED cache
    BY <2>1
  <2>2. ASSUME NEW K, K = (IF cache = Unknown THEN UNION {index[i] : i \in Rows}
                           ELSE cache),
               search' = StageOne(K), cache' = K
        PROVE  K \in SUBSET Keywords
    BY <2>2 DEF LibraryInv, ShelfIs
  <2> QED
    BY <2>1, <2>2 DEF FindKeywords
<1>4. Tries(q, S, Queried(q, K), 1)'
  BY <1>2, <1>3 DEF Waits, StageOne, Tries, Missed, Queried
<1>5. 1 \in 1 .. Len(Queried(q, K))
  <2>1. Len(Queried(q, K)) \in {2, 3, 4}
    BY QueriedIs
  <2> QED
    BY <2>1
<1>6. SearchIs'
  BY <1>1, <1>4, <1>5 DEF SearchIs
<1>7. (cache = Unknown \/ cache \subseteq Keywords)'
  BY <1>3 DEF LibraryInv, ShelfIs, Unknown
<1> QED
  BY <1>1, <1>6, <1>7, SearchingKeeps

\* Nothing found: the loose query was tried and missed.
LEMMA NoneSays ==
  ASSUME NEW q \in Queries, NEW S \in SUBSET Rows, NEW K,
         \A m \in 1 .. Len(Queried(q, K)) : S \cap Hits(Queried(q, K)[m]) = {}
  PROVE  \A i \in S : Single(q) \cap Row(i) = {}
<1> DEFINE groups == Expand(q, Extra(q, K))
<1>1. PICK m \in 1 .. Len(Queried(q, K)) :
        Queried(q, K)[m] = Loose(AnyOf(groups))
  BY QueriedIs
<1> HIDE DEF groups
<1>2. S \cap Hits(Loose(AnyOf(groups))) = {}
  BY <1>1
<1>3. \A i \in S : AnyOf(groups) \cap Row(i) = {}
  BY <1>2, HitsIs
<1>4. Single(q) \subseteq AnyOf(groups)
  <2>1. ASSUME NEW t \in Single(q) PROVE t \in AnyOf(groups)
    <3>1. q \in Seq(Items)
      BY LibraryAssumption
    <3>2. PICK n \in Starts(q) : ~Pair(q, n) /\ q[n] = t
      BY <3>1, SingleBegins
    <3>3. t \in groups[n] /\ n \in DOMAIN groups
      BY <3>1, <3>2, PlainGroup, GroupsIs DEF groups
    <3> QED
      BY <3>3 DEF AnyOf
  <2> QED
    BY <2>1
<1> QED
  BY <1>3, <1>4

\* The answer of the n-th query.
LEMMA ModeSays ==
  ASSUME NEW q \in Queries, NEW S \in SUBSET Rows, NEW K \in SUBSET Keywords,
         NEW n \in 1 .. Len(Queried(q, K)), Missed(S, Queried(q, K), n)
  PROVE  LET mode == Mode(Queried(q, K), n)
             ran == Queried(q, K)[n].by
         IN  AnswerIs(q, S, mode, ran) /\ mode \in Modes /\ ran \in Modes
<1> DEFINE groups == Expand(q, Extra(q, K))
           c == Queried(q, K)
<1>1. /\ Mode(c, n) = c[n].by
      /\ c[n].by \in {"title", "and", "or", "prefix"}
      /\ c[n].by \in {"or", "prefix"} =>
           \E m \in 1 .. n - 1 : c[m] = Strict(groups)
  BY ModeIs DEF Queried
<1>2. q \in Seq(Items)
  BY LibraryAssumption
<1>3. /\ DOMAIN groups = Starts(q) /\ DOMAIN Bare(q) = Starts(q)
      /\ \A k \in Starts(q) : Bare(q)[k] \subseteq groups[k]
  BY <1>2, GroupsGrow DEF Bare
<1>4. ASSUME c[n].by \in {"or", "prefix"}, NEW i \in S
      PROVE  \E k \in DOMAIN Bare(q) : Bare(q)[k] \cap Row(i) = {}
  <2>1. S \cap Hits(Strict(groups)) = {}
    BY <1>1, <1>4 DEF Missed
  <2>2. PICK k \in DOMAIN groups : groups[k] \cap Row(i) = {}
    BY <2>1, HitsIs
  <2> QED
    BY <1>3, <2>2
<1> HIDE DEF groups, c
<1>5. c[n].by \in Modes
  BY <1>1 DEF Modes
<1>6. AnswerIs(q, S, Mode(c, n), c[n].by)
  BY <1>1, <1>4 DEF AnswerIs
<1> QED
  BY <1>1, <1>5, <1>6 DEF c

LEMMA RunKeeps ==
  ASSUME LibraryInv, RunStage
  PROVE  LibraryInv'
<1>1. UNCHANGED <<bookVars, textVars, shelfVars, cache>> /\ search.at = "stage"
  BY DEF RunStage
<1>2. Keeps /\ Rows' = Rows
  BY <1>1, ReadKeeps DEF shelfVars
<1>3. PICK q \in Queries, S \in SUBSET Rows, K \in SUBSET Keywords :
        \E n \in 1 .. Len(Queried(q, K)) : Tries(q, S, Queried(q, K), n)
  BY <1>1 DEF LibraryInv, SearchIs, NoSearch, Waits, Answers
<1>4. PICK n \in 1 .. Len(Queried(q, K)) : Tries(q, S, Queried(q, K), n)
  BY <1>3
<1> DEFINE c == Queried(q, K)
<1>5. /\ search.terms = q /\ search.seen = S /\ search.n = n
      /\ search.cascade = c /\ Missed(S, c, n)
      /\ search = [at |-> "stage", terms |-> q, seen |-> S, n |-> n, cascade |-> c]
  BY <1>4 DEF Tries
<1>6. Len(c) \in Nat
  <2>1. Len(c) \in {2, 3, 4}
    BY QueriedIs
  <2> QED
    BY <2>1
<1>7. /\ S \in SUBSET Rows'
      /\ \A cascade, m : Missed(S, cascade, m) => Missed(S, cascade, m)'
      /\ \A mode, ran :
           AnswerIs(q, S, mode, ran) => AnswerIs(q, S, mode, ran)'
  <2>1. (S = S /\ Rows' # {}) \/ S = {}
    BY <1>2
  <2> QED
    BY <1>2, <2>1, SearchKept
<1>8. /\ AnswerIs(q, S, Mode(c, n), c[n].by)
      /\ Mode(c, n) \in Modes /\ c[n].by \in Modes
  BY <1>5, ModeSays
<1> HIDE DEF c
<1>9. ASSUME Answer(Mode(c, n)) PROVE SearchIs'
  <2>1. ASSUME NEW mode, NEW ran, mode = Mode(c, n), ran = c[n].by
        PROVE  Answers(q, S, mode, ran)'
    <3>1. AnswerIs(q, S, mode, ran)'
      BY <1>7, <1>8, <2>1
    <3> QED
      BY <1>5, <1>9, <2>1, <3>1 DEF Answers, Answer
  <2>2. \E mode, ran \in Modes : Answers(q, S, mode, ran)'
    BY <1>8, <2>1
  <2> QED
    BY <1>7, <2>2 DEF SearchIs
<1>10. ASSUME Hits(c[n]) = {}
       PROVE  \A m \in 1 .. n : S \cap Hits(c[m]) = {}
  <2>1. \A m \in 1 .. n : m = n \/ m \in 1 .. n - 1
    BY DEF c
  <2> QED
    BY <1>5, <1>10, <2>1 DEF Missed
<1>11. ASSUME Hits(c[n]) = {}, n < Len(c), search' = [search EXCEPT !.n = @ + 1]
       PROVE  SearchIs'
  <2>1. Missed(S, c, n + 1)
    BY <1>10, <1>11 DEF Missed, c
  <2>2. Missed(S, c, n + 1)'
    BY <1>7, <2>1
  <2>3. Tries(q, S, c, n + 1)'
    BY <1>5, <1>11, <2>2 DEF Tries
  <2>4. n + 1 \in 1 .. Len(c)
    BY <1>6, <1>11 DEF c
  <2>5. \E m \in 1 .. Len(Queried(q, K)) : Tries(q, S, Queried(q, K), m)'
    BY <2>3, <2>4 DEF c
  <2> QED
    BY <1>7, <2>5 DEF SearchIs
<1>12. ASSUME Hits(c[n]) = {}, n = Len(c), Answer("none")
       PROVE  SearchIs'
  <2>1. \A i \in S : Single(q) \cap Row(i) = {}
    BY <1>10, <1>12, NoneSays DEF c
  <2>2. AnswerIs(q, S, "none", c[n].by)
    BY <2>1 DEF AnswerIs
  <2>3. ASSUME NEW ran, ran = c[n].by
        PROVE  Answers(q, S, "none", ran)'
    <3>1. AnswerIs(q, S, "none", ran)'
      BY <1>7, <2>2, <2>3
    <3> QED
      BY <1>5, <1>12, <2>3, <3>1 DEF Answers, Answer
  <2>4. "none" \in Modes
    BY DEF Modes
  <2>5. \E mode, ran \in Modes : Answers(q, S, mode, ran)'
    BY <1>8, <2>3, <2>4
  <2> QED
    BY <1>7, <2>5 DEF SearchIs
<1>13. SearchIs'
  <2>1. \/ Answer(Mode(c, n))
        \/ Hits(c[n]) = {} /\ n < Len(c) /\ search' = [search EXCEPT !.n = @ + 1]
        \/ Hits(c[n]) = {} /\ n = Len(c) /\ Answer("none")
    <3>1. ASSUME NEW at, at = Hits(search.cascade[search.n])
          PROVE  \/ Answer(Mode(search.cascade, search.n))
                 \/ at = {} /\ search.n < Len(search.cascade)
                    /\ search' = [search EXCEPT !.n = @ + 1]
                 \/ at = {} /\ search.n = Len(search.cascade) /\ Answer("none")
      BY <3>1 DEF RunStage
    <3>2. search.cascade = c /\ search.n = n
      BY <1>5
    <3> QED
      BY <3>1, <3>2
  <2> QED
    BY <1>9, <1>11, <1>12, <2>1
<1>14. (cache = Unknown \/ cache \subseteq Keywords)'
  BY <1>1 DEF LibraryInv, ShelfIs
<1> QED
  BY <1>1, <1>13, <1>14, SearchingKeeps

LEMMA ExpiryKeeps ==
  ASSUME LibraryInv, CacheExpires
  PROVE  LibraryInv'
<1>1. UNCHANGED <<bookVars, textVars, shelfVars, search>> /\ cache' = Unknown
  BY DEF CacheExpires
<1>2. Keeps /\ Rows' = Rows
  BY <1>1, ReadKeeps DEF shelfVars
<1>3. SearchIs'
  BY <1>1, <1>2, SearchSame DEF LibraryInv
<1>4. (cache = Unknown \/ cache \subseteq Keywords)'
  BY <1>1 DEF Unknown
<1> QED
  BY <1>1, <1>3, <1>4, SearchingKeeps

LEMMA LibraryHolds == Spec => []LibraryInv
<1>1. ASSUME LibraryInv, UNCHANGED vars PROVE LibraryInv'
  <2>1. UNCHANGED <<bookVars, textVars, shelfVars, search>> /\ cache' = cache
    BY <1>1 DEF vars, searchVars
  <2>2. Keeps /\ Rows' = Rows
    BY <1>1, <2>1, ReadKeeps DEF shelfVars
  <2>3. SearchIs'
    BY <1>1, <2>1, <2>2, SearchSame DEF LibraryInv
  <2>4. (cache = Unknown \/ cache \subseteq Keywords)'
    BY <1>1, <2>1 DEF LibraryInv, ShelfIs, Unknown
  <2> QED
    BY <1>1, <2>1, <2>3, <2>4, SearchingKeeps
<1>2. LibraryInv /\ [Next]_vars => LibraryInv'
  BY <1>1, DetectKeeps, WorkKeeps, EmptiesKeep, IndexKeeps, AskKeeps,
     KeywordsKeep, RunKeeps, ExpiryKeeps DEF Next
<1> QED
  BY <1>2, InitHolds, PTL DEF Spec

-------------------------------------------------------------------------------
(* What it says.                                                           *)

\* Whatever the searches, the worker and the web thread do, the state is of its
\* type: a keyword, a row and a search are what the code takes them for.
THEOREM LibraryType == Spec => []TypeOK
<1>1. ASSUME LibraryInv PROVE TypeOK
  <2>1. BookTypeOK
    <3>1. ShapeOK /\ pages \in 0 .. MaxPages
      BY <1>1 DEF LibraryInv, BookInv, ShelfIs
    <3>2. PICK n \in Nat : heads \in [1 .. n -> Headings]
      BY <3>1 DEF ShapeOK
    <3>3. heads \in Seq(Headings)
      BY <3>2
    <3> QED
      BY <3>1, <3>3 DEF BookTypeOK, ShapeOK
  <2>2. search.at \in {"idle", "keywords", "stage", "answered"}
    <3>1. CASE search = NoSearch
      BY <3>1 DEF NoSearch
    <3>2. CASE search # NoSearch
      BY <1>1, <3>2 DEF LibraryInv, SearchIs, Waits, Tries, Answers
    <3> QED
      BY <3>1, <3>2
  <2> QED
    BY <1>1, <2>1, <2>2 DEF LibraryInv, ShelfIs, TypeOK
<1> QED
  BY <1>1, LibraryHolds, PTL

\* fts_search: no matches means that no page with the word was there to be
\* found all the time, for any books, synonyms and keywords.
THEOREM NothingMissed == Spec => []FoundIfPrinted
<1>1. ASSUME LibraryInv, search.at = "answered", search.mode = "none",
             NEW p \in 1 .. pages, Single(search.terms) \cap Closed(prints[p]) # {},
             ~(p < Sections[1].page)
      PROVE  \E i \in (1 .. Count) \ search.seen : p \in Collected(i)
  <2>1. PICK q \in Queries, S \in SUBSET Rows :
          \E mode, ran \in Modes : Answers(q, S, mode, ran)
    BY <1>1 DEF LibraryInv, SearchIs, NoSearch, Waits, Tries
  <2>2. PICK mode \in Modes, ran \in Modes : Answers(q, S, mode, ran)
    BY <2>1
  <2>3. search.terms = q /\ search.seen = S /\ search.mode = mode
        /\ AnswerIs(q, S, mode, ran)
    BY <2>2 DEF Answers
  <2>4. \A i \in S : Single(q) \cap Row(i) = {}
    BY <1>1, <2>3 DEF AnswerIs
  <2>5. PICK i \in 1 .. Count : p \in Collected(i)
    BY <1>1, PagesAre DEF LibraryInv, BookInv
  <2>6. ASSUME i \in S PROVE FALSE
    <3>1. prints[p] \subseteq Body(i)
      BY <2>5 DEF Body
    <3>2. Closed(prints[p]) \subseteq Row(i)
      BY <3>1 DEF Row, Closed
    <3> QED
      BY <1>1, <2>3, <2>4, <2>6, <3>2
  <2> QED
    BY <2>3, <2>5, <2>6
<1>2. LibraryInv => FoundIfPrinted
  BY <1>1 DEF FoundIfPrinted
<1> QED
  BY <1>2, LibraryHolds, PTL

\* _keyword_synonyms: what the cache adds to a word changes no answer, however
\* stale it is.
THEOREM CacheIsHarmless == Spec => []StaleKeywordsHarmless
<1>1. ASSUME LibraryInv, search.at = "stage",
             \A n \in DOMAIN search.terms : ~Pair(search.terms, n)
      PROVE  LET bare == Cascade(search.terms, Extra(search.terms, {}))
             IN  /\ Len(search.cascade) = Len(bare)
                 /\ \A n \in DOMAIN bare : Hits(search.cascade[n]) = Hits(bare[n])
  <2>1. PICK q \in Queries, S \in SUBSET Rows, K \in SUBSET Keywords :
          \E n \in 1 .. Len(Queried(q, K)) : Tries(q, S, Queried(q, K), n)
    BY <1>1 DEF LibraryInv, SearchIs, NoSearch, Waits, Answers
  <2>2. search.terms = q /\ search.cascade = Cascade(q, Extra(q, K))
    BY <2>1 DEF Tries, Queried
  <2>3. q \in Seq(Items) /\ Plain(q)
    BY <1>1, <2>2, LibraryAssumption DEF Plain
  <2>4. BookInv /\ TextOK /\ Rows \subseteq 1 .. Count
    <3>1. Rows \subseteq 1 .. done /\ done \in 0 .. Count /\ Count \in Nat
      BY <1>1, SectionsShape DEF LibraryInv, ShelfIs, BookInv, ShapeOK, Leaves
    <3>2. Rows \subseteq 1 .. Count
      BY <3>1
    <3> QED
      BY <1>1, <3>2 DEF LibraryInv, ShelfIs, TextOK, BookInv, ShapeOK
  <2> DEFINE b == Cascade(q, Extra(q, {}))
  <2>5. DOMAIN b = 1 .. Len(b)
    BY CascadeIs
  <2>6. /\ Len(Cascade(q, Extra(q, K))) = Len(b)
        /\ \A n \in 1 .. Len(b) : Hits(Cascade(q, Extra(q, K))[n]) = Hits(b[n])
    BY <2>3, <2>4, SameHits
  <2> QED
    BY <2>2, <2>5, <2>6
<1>2. LibraryInv => StaleKeywordsHarmless
  BY <1>1 DEF StaleKeywordsHarmless
<1> QED
  BY <1>2, LibraryHolds, PTL

\* build_query_cascade: match_mode is the query that found the rows, and the
\* looser ones say that the strict one found none of those there all the time.
THEOREM ModeIsRight == Spec => []StrictestFirst
<1>1. ASSUME LibraryInv, search.at = "answered",
             search.mode \notin {"none", "empty"}
      PROVE  /\ search.mode = search.ran
             /\ search.mode \in {"or", "prefix"} =>
                  LET groups == Expand(search.terms, Extra(search.terms, {}))
                  IN  \A i \in search.seen :
                        \E n \in DOMAIN groups : groups[n] \cap Row(i) = {}
  <2>1. PICK q \in Queries, S \in SUBSET Rows :
          \E mode, ran \in Modes : Answers(q, S, mode, ran)
    BY <1>1 DEF LibraryInv, SearchIs, NoSearch, Waits, Tries
  <2>2. PICK mode \in Modes, ran \in Modes : Answers(q, S, mode, ran)
    BY <2>1
  <2>3. /\ search.terms = q /\ search.seen = S /\ search.mode = mode
        /\ search.ran = ran /\ AnswerIs(q, S, mode, ran)
    BY <2>2 DEF Answers
  <2> QED
    BY <1>1, <2>3 DEF AnswerIs, Bare
<1>2. LibraryInv => StrictestFirst
  BY <1>1 DEF StrictestFirst
<1> QED
  BY <1>2, LibraryHolds, PTL

\* The worker, the deletions and the searches leave the nesting to _build_tree: a
\* library behaves like a book, ...
THEOREM LibraryIsBook == Spec => BookSpec
<1>1. Init => BookInit
  BY DEF Init
<1>2. [Next]_vars => [BookNext]_bookVars
  <2> SUFFICES ASSUME [Next]_vars PROVE [BookNext]_bookVars
    OBVIOUS
  <2>1. CASE Detect
    BY <2>1 DEF Detect
  <2>2. CASE TierAndEnrich \/ ClearRows \/ IndexRow \/ RunStops
    BY <2>2 DEF TierAndEnrich, ClearRows, IndexRow, RunStops
  <2>3. CASE Reprocess \/ DeleteRows \/ DeleteDoc \/ UNCHANGED vars
    BY <2>3 DEF Reprocess, DeleteRows, DeleteDoc, vars
  <2>4. CASE Ask \/ FindKeywords \/ RunStage \/ CacheExpires
    BY <2>4 DEF Ask, FindKeywords, RunStage, CacheExpires
  <2> QED
    BY <2>1, <2>2, <2>3, <2>4 DEF Next
<1> QED
  BY <1>1, <1>2, PTL DEF Spec, BookSpec

\* ... and so its sections are nested as a reader sees them.
THEOREM LibraryTree == Spec => []NearestParent
  BY LibraryIsBook, TreeIsRight, PTL
===============================================================================
