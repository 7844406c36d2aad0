SPECIFICATION Spec
CONSTANTS
    BranchLines = 5
    MacroLines = 4
    UnendedLines = 2
    IncludeLines = 3
    Programs <- MCPrograms
    Root = "root"
    Identifiers <- MCIdentifiers
    Strings <- MCStrings
    Loader <- MCLoader
    Expand <- MCExpand
    SpelledBy <- SpellingSpan
    ProducedBy <- ExpansionSpan
INVARIANTS
    BranchesAsWritten
    LiveDefinitions
    DirectivesStayWhole
    IncludesAreATree
    CompleteResult
PROPERTY
    EmissionInOrder
