CONSTANTS
    v1 = v1
    v2 = v2
    v3 = v3
    v4 = v4
    q = q
    Ids = {v1, v2, v3, v4}
    Queries = {q}
    Similarity <- MCSimilarity
    Configs <- MCConfigs
    EfMultiplier = 1
    Sizes = {2}
    PageSize = 2
SPECIFICATION FairSpec
INVARIANTS
    TypeOK
    LinksSound
    DegreeBounded
    EntryTop
    MapperAgrees
    ShortAnswerComplete
    ExactWhenSmall
    PagesComplete
PROPERTIES
    OperationEnds
    ImplementsIndex
