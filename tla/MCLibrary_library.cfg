SPECIFICATION Spec
CONSTANTS
    Upper = 4
    Language = english
    Dictionary = Dictionary
    PricingGap = 0
    IntraGap = 1
    EagerLimit = 20
    TopN = 1
    MaxRecord = 5
    NoDict = NoDict
    NoRecord = NoRecord
    BadRecord = BadRecord
    BadStore = BadStore
    NoLanguage = NoLanguage
    StopWords <- MCStopWords
    Stem <- MCStem
    Idf <- MCIdf
    IdHash <- MCIdHash
    IdVerify <- MCIdVerify
    HashSpace = 32
    BlockRecords = 2
    PerBucket = 2
    Prefix = 3
    SpanGap = 1
    SeedRatio = 2
    NoDir = NoDir
    DefaultStride = 4
    EagerBuckets = 1
    TailBatch = 2
    BadEntries = BadEntries
    NoRec = NoRec
    BlockCap = 12
    SizeLimit = 100
    Refused = Refused
    MaxPrefixTerms = 3
    BlockWave = 2
    NoTerm = NoTerm
    Stride = 2
    ImpactGap = 1
    ColumnGap = 1
    BadColumns = BadColumns
    BadQuery = BadQuery
    BadVectors = BadVectors
    RerankGap = 1
    NotInlined = NotInlined
    BadBundle = BadBundle
    Hash1 <- MCHash1
    Hash2 <- MCHash2
    FacetKey <- MCFacetKey
    HashWord = 65536
    BloomFloor = 8
    BloomCeil = 64
    ByteBits = 8
    MaxHashes = 16
    IndexBase = 2
    PerNewKey = 3
    PerElement = 1
    TermBase = 2
    PerNewTerm = 6
    PerTermElement = 1
    MaxShift = 15
    CapWord = 65536
    MaxTier = 2
    Chunk = 2
    NoTlv = NoTlv
    BadSet = BadSet
    Corpora <- MCCorpora
    Requests <- MCRequests
    Nothing = Nothing
INVARIANTS
    BootsAreOwn
    GramAnswers
    CheapAnswersAreSafe
    TermAnswers
    PrefixAnswers
    RankedAnswers
    IdAnswers
    ColumnAnswers
    RerankIsExact
    OwnVectorFound
    SameFiles
    GoReaderAgrees
