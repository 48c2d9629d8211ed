SPECIFICATION Spec
CONSTANTS
    Letters = {"a", "b"}
    Space = " "
    all_words <- SmallWords
    Phrases <- SmallPhrases
    NoKey = "none"
    MaxTyped = 2
    MaxTrials = 3
INVARIANTS
    TypeOK
    TextAgrees
    SuggestsMostUsed
PROPERTIES
    AttemptIsScored
