CONSTANTS
    Tables <- AllTables
    Requests <- AllRequests
    Filter <- AllFilters
    Texts <- AllTexts
    RuleBackends <- AllBackends
    RuleTimeouts <- AllTimeouts
    Replacements <- AllReplacements
    HeaderNames <- AllHeaderNames
    Unusable <- AllUnusable
    PathRegex <- AllPathRegex
    ValueRegex <- AllValueRegex
SPECIFICATION Spec
INVARIANTS IInv ChosenIsFirstBest MoreSpecificWins PrefixByElements FiltersAsTested RoutesArrive
CHECK_DEADLOCK FALSE
