-------------------------------- MODULE MCLibrary --------------------------------
(* Model checking of Library: books of two pages and two headings, about *)
(* armour and fire.                                                        *)
EXTENDS Library, TLC

ItemsMC == {"armor", "class", "fire", "fireball", "ac", "armor class", "fire trap"}

WordsOfMC ==
  [i \in ItemsMC |-> CASE i = "armor class" -> {"armor", "class"}
                       [] i = "fire trap" -> {"fire"}
                       [] OTHER -> {i}]

PhrasesMC == <<"armor", "class">> :> "armor class"

TextsMC == {{"ac"}, {"fireball", "armor class"}}

QueriesMC == {<<"fire">>, <<"ac">>, <<"armor", "class">>, <<"ac", "fire">>}

SynonymsMC == {{"ac", "armor class"}}
PrefixesMC == {<<"fire", "fireball">>, <<"fire", "fire trap">>}

\* The loop of expand_terms, which goes two terms further after a pair.
RECURSIVE StartsFrom(_, _)
StartsFrom(terms, n) ==
  IF n > Len(terms) THEN {}
  ELSE {n} \cup StartsFrom(terms, IF Pair(terms, n) THEN n + 2 ELSE n + 1)

ASSUME StartsAssumption ==
  \A len \in 0 .. 6 : \A terms \in [1 .. len -> {"armor", "class", "fire"}] :
    Starts(terms) = StartsFrom(terms, 1)
===============================================================================
