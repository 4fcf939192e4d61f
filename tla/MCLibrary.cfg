SPECIFICATION Spec
CONSTANTS
  Levels = {1, 2}
  MaxPages = 2
  MaxHeads = 2
  Items <- ItemsMC
  WordsOf <- WordsOfMC
  Long = {"armor", "class", "fire", "fireball"}
  Prefixes <- PrefixesMC
  Synonyms <- SynonymsMC
  Phrases <- PhrasesMC
  NoPrefix = {"ac"}
  Keywords = {"fire trap", "fireball"}
  Texts <- TextsMC
  Name = "ac"
  Queries <- QueriesMC
INVARIANTS TypeOK NearestParent FoundIfPrinted StaleKeywordsHarmless StrictestFirst
CHECK_DEADLOCK FALSE
