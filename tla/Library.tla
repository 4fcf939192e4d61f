--------------------------------- MODULE Library ---------------------------------
(***************************************************************************)
(* A book in a collection, from its headings to the answers of fts_search  *)
(* (app/pipeline/tier.py, app/pipeline/index.py, app/agent/tools.py and    *)
(* app/agent/query_builder.py): the sections of module Book become files   *)
(* and rows of the index, and searches run in threads of their own while   *)
(* the worker processes the book anew and the web thread deletes it.       *)
(*                                                                         *)
(* What is printed, asked and given as a keyword are items: words, and     *)
(* phrases that hold words.  FTS5 is modelled as the code uses it: a row   *)
(* matches a phrase where the phrase stands, and then its words as well.   *)
(***************************************************************************)
EXTENDS Book, FiniteSets

CONSTANTS
  Items,       \* words and phrases
  WordsOf,     \* [Items -> the words of each]
  Long,        \* the words of four letters or more
  Prefixes,    \* <<w, i>>: i begins with the word w
  Synonyms,    \* SYNONYM_GROUPS: sets of items
  Phrases,     \* <<v, w>> |-> the item "v w" of SYNONYM_GROUPS
  NoPrefix,    \* _PREFIX_BLACKLIST
  Keywords,    \* items the model gives as keywords
  Texts,       \* bound: what may be printed on a page, sets of items
  Name,        \* bound: the word that may be in a heading
  Queries      \* bound: the terms that may be asked for

ASSUME LibraryAssumption ==
  /\ WordsOf \in [Items -> SUBSET Items]
  /\ \A i \in Items : \A w \in WordsOf[i] : WordsOf[w] = {w}
  /\ \A w \in Long \cup NoPrefix : w \in Items /\ WordsOf[w] = {w}
  /\ Keywords \subseteq Items /\ Texts \subseteq SUBSET Items
  /\ Name \in Items /\ UNION Synonyms \subseteq Items
  /\ \A q \in Queries : q \in Seq(Items) /\ q # <<>>
  /\ \A p \in DOMAIN Phrases :
       Phrases[p] \in UNION Synonyms /\ WordsOf[Phrases[p]] = {p[1], p[2]}

VARIABLES
  prints,   \* what each page says
  named,    \* the heading that holds Name, 0 for none
  listed,   \* the document's row exists
  deleting, \* delete_doc is between its two commits
  stage,    \* of the job that processes it
  keyed,    \* the keywords in the file of each section
  index,    \* documents_fts: the keywords of each section with a row
  cache,    \* _KEYWORD_CACHE for this collection, or Unknown
  search    \* the search under way, or the last one's answer

searchVars == <<cache, search>>
shelfVars == <<listed, deleting, stage, keyed, index>>
textVars == <<prints, named>>
vars == <<bookVars, textVars, shelfVars, searchVars>>

Unknown == Items \cup {"unknown"}   \* is not a set of keywords

-------------------------------------------------------------------------------
(* The files: tier_document.                                               *)

Inside(i) == {k \in 1 .. done : parent[k] = i}

\* A section with sections inside is a directory, and its own text goes nowhere.
Leaves == {i \in 1 .. done : Inside(i) = {}}

-------------------------------------------------------------------------------
(* The rows: index_document.                                               *)

Rows == DOMAIN index
NoRows == [i \in {} |-> {}]

Closed(S) == S \cup UNION {WordsOf[s] : s \in S}

Title(i) == IF i = named THEN {Name} ELSE {}
Body(i) == UNION {prints[p] : p \in Collected(i)}
Row(i) == Closed(Title(i) \cup Body(i) \cup index[i])

-------------------------------------------------------------------------------
(* The queries: expand_terms and build_query_cascade.                      *)

\* Mistake: the synonyms take the place of the word that was asked for.
GroupWithout(x) ==
  IF \E g \in Synonyms : x \in g
  THEN (CHOOSE g \in Synonyms : x \in g) \ {x} ELSE {x}

GroupOf(x) ==
  IF \E g \in Synonyms : x \in g THEN CHOOSE g \in Synonyms : x \in g ELSE {x}

\* Two terms side by side that make a known phrase.
Pair(terms, n) ==
  n < Len(terms) /\ SubSeq(terms, n, n + 1) \in DOMAIN Phrases

\* Where expand_terms begins a group: not at the second term of a pair.
Starts(terms) ==
  CHOOSE S \in SUBSET DOMAIN terms :
    \A n \in DOMAIN terms : n \in S <=> ~(n - 1 \in S /\ Pair(terms, n - 1))

\* The groups, by the terms they begin with.  A pair takes the keywords of its
\* first term.
Expand(terms, extra) ==
  [n \in Starts(terms) |->
     GroupOf(IF Pair(terms, n) THEN Phrases[SubSeq(terms, n, n + 1)]
             ELSE terms[n]) \cup extra[terms[n]]]

IsOne(groups) == DOMAIN groups = {1}

Starred(group) == group \cap Long

Titles(groups) ==
  IF IsOne(groups) THEN <<[by |-> "title", groups |-> groups]>> ELSE <<>>
Strict(groups) == [by |-> "and", groups |-> groups]
Loose(any) == [by |-> "or", groups |-> <<any>>]

AllowPrefix(groups) == IsOne(groups) /\ groups[1] \cap NoPrefix = {}

Wildcards(groups, any) ==
  IF AllowPrefix(groups) /\ Starred(any) # {}
  THEN <<[by |-> "prefix", groups |-> <<any>>]>> ELSE <<>>

\* Mistake: the loose query is tried before the strict one.
CascadeLooseFirst(terms, extra) ==
  LET groups == Expand(terms, extra)
      any == UNION {groups[n] : n \in DOMAIN groups}
  IN  Titles(groups) \o <<Loose(any), Strict(groups)>> \o Wildcards(groups, any)

\* A query that is already in the cascade is not added again: that happens to
\* the last one, when no item takes a star.
Cascade(terms, extra) ==
  LET groups == Expand(terms, extra)
      any == UNION {groups[n] : n \in DOMAIN groups}
  IN  Titles(groups) \o <<Strict(groups), Loose(any)>> \o Wildcards(groups, any)

Matches(i, query, group) ==
  \/ query.by = "title" /\ group \cap Closed(Title(i)) # {}
  \/ query.by # "title" /\ group \cap Row(i) # {}
  \/ /\ query.by = "prefix"
     /\ \E w \in Starred(group), x \in Row(i) : <<w, x>> \in Prefixes

Hits(query) ==
  {i \in Rows : \A n \in DOMAIN query.groups : Matches(i, query, query.groups[n])}

\* match_mode, from the place in the cascade.
Mode(cascade, n) ==
  IF cascade[n].by = "title" THEN "title"
  ELSE <<"and", "or", "prefix">>[n - IF cascade[1].by = "title" THEN 1 ELSE 0]

\* Mistake: the keywords that begin with the term, as words of their own.
ExtraPrefixed(terms, keywords) ==
  [t \in {terms[n] : n \in DOMAIN terms} |->
     IF t \in Long THEN {k \in keywords : <<t, k>> \in Prefixes} ELSE {}]

\* _keyword_synonyms: the keywords a long term is a word of.
Extra(terms, keywords) ==
  [t \in {terms[n] : n \in DOMAIN terms} |->
     IF t \in Long THEN {k \in keywords : t \in WordsOf[k]} ELSE {}]

-------------------------------------------------------------------------------
NoSearch == [at |-> "idle"]

TypeOK ==
  /\ BookTypeOK
  /\ prints \in [1 .. pages -> Texts]
  /\ named \in 0 .. Len(heads)
  /\ listed \in BOOLEAN /\ deleting \in BOOLEAN
  /\ stage \in {"detect", "clear", "index", "rest"}
  /\ keyed \in [1 .. Count -> SUBSET Keywords]
  /\ Rows \subseteq Leaves /\ \A i \in Rows : index[i] \subseteq Keywords
  /\ cache = Unknown \/ cache \subseteq Keywords
  /\ search.at \in {"idle", "keywords", "stage", "answered"}

Init ==
  /\ BookInit
  /\ prints \in [1 .. pages -> Texts]
  /\ named \in 0 .. Len(heads)
  /\ named # 0 => Name \in prints[heads[named].page]
  /\ listed = TRUE /\ deleting = FALSE
  /\ stage = "detect"
  /\ keyed = [i \in 1 .. Count |-> {}]
  /\ index = NoRows
  /\ cache = Unknown
  /\ search = NoSearch

-------------------------------------------------------------------------------
(* The worker, which does not look whether the document is still there, and*)
(* the web thread.                                                         *)

Detect ==
  /\ stage = "detect"
  /\ BookNext
  /\ UNCHANGED <<textVars, shelfVars, searchVars>>

\* Stages 3 and 4: the files are written anew, and the model gives keywords to
\* the first of them or to none (a bound).
TierAndEnrich ==
  /\ stage = "detect" /\ done = Count
  /\ stage' = "clear"
  /\ \E K \in {{}, Keywords} :
       keyed' = [i \in 1 .. Count |->
                   IF i \in Leaves /\ \A k \in Leaves : i <= k THEN K ELSE {}]
  /\ UNCHANGED <<bookVars, textVars, listed, deleting, index, searchVars>>

\* What a search may count on is what no other thread has taken from the index
\* since it began.
EmptyIndex ==
  /\ index' = NoRows
  /\ search' = IF "seen" \in DOMAIN search THEN [search EXCEPT !.seen = {}]
               ELSE search

\* Stage 5: the rows of an earlier run are deleted, ...
ClearRows ==
  /\ stage = "clear"
  /\ stage' = "index"
  /\ EmptyIndex
  /\ UNCHANGED <<bookVars, textVars, listed, deleting, keyed, cache>>

\* Mistake: the navigation page of a directory is indexed like a text.
ToIndexEachFile == (1 .. done) \ Rows

ToIndex == Leaves \ Rows

\* ... and inserted one at a time, each committed.
IndexRow ==
  /\ stage = "index"
  /\ \E i \in ToIndex :
       /\ \A k \in ToIndex : i <= k
       /\ index' = [k \in Rows \cup {i} |-> IF k = i THEN keyed[i] ELSE index[k]]
  /\ UNCHANGED <<bookVars, textVars, listed, deleting, stage, keyed, searchVars>>

\* The run is over, by its end, a failure, a timeout or the end of the process
\* (module Pipeline), ...
RunStops ==
  /\ stage # "rest"
  /\ stage' = "rest"
  /\ UNCHANGED <<bookVars, textVars, listed, deleting, keyed, index, searchVars>>

\* ... and the document is processed again, with the rows still in the index.
Reprocess ==
  /\ listed /\ stage = "rest"
  /\ stage' = "detect"
  /\ UNCHANGED <<bookVars, textVars, listed, deleting, keyed, index, searchVars>>

\* delete_doc: the rows, and then the document.
DeleteRows ==
  /\ listed /\ ~deleting
  /\ deleting' = TRUE
  /\ EmptyIndex
  /\ UNCHANGED <<bookVars, textVars, listed, stage, keyed, cache>>

DeleteDoc ==
  /\ deleting
  /\ deleting' = FALSE /\ listed' = FALSE
  /\ UNCHANGED <<bookVars, textVars, stage, keyed, index, searchVars>>

-------------------------------------------------------------------------------
(* A search, in a thread of its own (loop.py:493).                         *)

\* fts_search finds the documents of the collection, or has nothing to search.
Ask ==
  /\ search.at \in {"idle", "answered"}
  /\ \E q \in Queries :
       search' = IF listed
                 THEN [at |-> "keywords", terms |-> q, seen |-> Rows]
                 ELSE [at |-> "answered", terms |-> q, seen |-> {},
                       mode |-> "empty", ran |-> "none"]
  /\ UNCHANGED <<bookVars, textVars, shelfVars, cache>>

StageOne(keywords) ==
  [at |-> "stage", terms |-> search.terms, seen |-> search.seen, n |-> 1,
   cascade |-> Cascade(search.terms, Extra(search.terms, keywords))]

\* _keyword_synonyms: from the cache for a minute, whatever became of the book
\* meanwhile, and else from the index; not at all if no term is long.
FindKeywords ==
  /\ search.at = "keywords"
  /\ \/ /\ \A n \in DOMAIN search.terms : search.terms[n] \notin Long
        /\ search' = StageOne({})
        /\ UNCHANGED cache
     \/ /\ \E n \in DOMAIN search.terms : search.terms[n] \in Long
        /\ LET inIndex == UNION {index[i] : i \in Rows}
               keywords == IF cache = Unknown THEN inIndex ELSE cache
           IN  search' = StageOne(keywords) /\ cache' = keywords
  /\ UNCHANGED <<bookVars, textVars, shelfVars>>

Answer(mode) ==
  search' = [at |-> "answered", terms |-> search.terms, seen |-> search.seen,
             mode |-> mode, ran |-> search.cascade[search.n].by]

\* Each query of the cascade is run until one finds something.
RunStage ==
  /\ search.at = "stage"
  /\ LET found == Hits(search.cascade[search.n])
     IN  \/ found # {} /\ Answer(Mode(search.cascade, search.n))
         \/ /\ found = {} /\ search.n < Len(search.cascade)
            /\ search' = [search EXCEPT !.n = @ + 1]
         \/ /\ found = {} /\ search.n = Len(search.cascade)
            /\ Answer("none")
  /\ UNCHANGED <<bookVars, textVars, shelfVars, cache>>

\* _KEYWORD_CACHE_TTL passes.
CacheExpires ==
  /\ cache # Unknown
  /\ cache' = Unknown
  /\ UNCHANGED <<bookVars, textVars, shelfVars, search>>

Next ==
  \/ Detect \/ TierAndEnrich \/ ClearRows \/ IndexRow \/ RunStops
  \/ Reprocess \/ DeleteRows \/ DeleteDoc
  \/ Ask \/ FindKeywords \/ RunStage \/ CacheExpires

Spec == Init /\ [][Next]_vars

-------------------------------------------------------------------------------
(* Properties.                                                             *)

\* The terms that are asked for by themselves, and not as part of a phrase.
Single(terms) ==
  {terms[n] : n \in {n \in DOMAIN terms :
                       ~Pair(terms, n) /\ (n > 1 => ~Pair(terms, n - 1))}}

\* fts_search: no matches means that no page with the word was there to be found
\* all the time: it comes before the first heading, or belongs to a section that
\* was not in the index, as a chapter with sections of its own never is (tier.py).
FoundIfPrinted ==
  search.at = "answered" /\ search.mode = "none" =>
    \A p \in 1 .. pages : Single(search.terms) \cap Closed(prints[p]) # {} =>
      \/ p < Sections[1].page
      \/ \E i \in (1 .. Count) \ search.seen : p \in Collected(i)

\* The cache is shared by all searches of a collection and knows the documents
\* only by their number.  That is harmless: the keywords added to a word hold
\* that word, so that every row they match is matched without them.  Only a
\* phrase of the synonyms takes keywords it would not match itself.
StaleKeywordsHarmless ==
  search.at = "stage"
  /\ (\A n \in DOMAIN search.terms : ~Pair(search.terms, n)) =>
    LET bare == Cascade(search.terms, Extra(search.terms, {}))
    IN  /\ Len(search.cascade) = Len(bare)
        /\ \A n \in DOMAIN bare : Hits(search.cascade[n]) = Hits(bare[n])

\* match_mode says which query found the results, and "or" and "prefix" say that
\* none stricter did: no row that was in the index all the time holds every term
\* or a synonym of it, whatever keywords the cache added.
StrictestFirst ==
  search.at = "answered" /\ search.mode \notin {"none", "empty"} =>
    /\ search.mode = search.ran
    /\ search.mode \in {"or", "prefix"} =>
         LET groups == Expand(search.terms, Extra(search.terms, {}))
         IN  \A i \in search.seen :
               \E n \in DOMAIN groups : groups[n] \cap Row(i) = {}
===============================================================================
