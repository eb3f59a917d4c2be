SPECIFICATION Spec
CONSTANTS
    Keys <- MCKeys
    PageSize = 2
    Filters <- MCFilters
    Matching <- MCMatching
    MaxRequests = 2
    MaxStack = 3
PROPERTIES
    DeletesConfirmed
