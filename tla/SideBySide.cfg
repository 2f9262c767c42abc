SPECIFICATION SideBySide
CONSTANTS
    None = None
    NoName = None
    Paths <- MCPaths
    PartsOf <- MCPartsOf
    Traits <- MCTraits
    Contents <- MCContents
    Disks <- MCDisks
    Trees <- MCTrees
    LinesOf <- MCLinesOf
    MaxNesting = 4
    Excerpt <- MCExcerpt
    IdPrecedes <- MCIdPrecedes
    Policy <- MCPolicy
    PrivateNames = {"_D"}
    DunderNames <- MCDunder
    MaxFiles = 5
    MaxFileSize = 2
    MaxTotalBytes = 5
    MaxEdits = 1
    Nodes = {1, 2, 3, 4, 5}
    Unresolved = 0
    Candidates <- MCCandidates
    Queries <- MCQueries
    Nobody = Nobody
    Openers = {p1, p2}
    Repositories = {r1, r2}
    Versions <- MCVersions
    MaxKept = 3
    Times = {1, 2}
    MaxBegun = 1
    Urls <- MCUrls
    Root = 1
    LinksOf <- MCLinks
    External = {7}
    NotHtml = {5}
    TextOf <- MCText
    FinalUrl <- MCFinal
    CrawlConfigs <- MCConfigs
    Interval = 3
    RetryAfters = {0, 5}
    Delays = {0, 2}
    Unlimited = Unlimited
    Entries <- MCEntries
    ResidualRoot = "root"
    ParentOf <- MCParentOf
    GitPath = "git"
    Residuals <- MCResiduals
    Appearing <- MCAppearing
    MaxChanges = 2
    MaxApplies = 2
    Processes = {p1, p2}
    Invocations <- MCInvocations
    Settings <- MCSettings
    Defaults <- MCDefaults
    Unset = Unset
    Broken = Broken
    Garbled = Garbled
    Invalid = Invalid
    Fails = Fails
    Profiles <- MCProfiles
    Smoke = "packaged-workspace"
    Polls = 2
    MaxGates = 2
INVARIANTS
    LeftOutFilesAreTold
    EvidenceCanBeStored
    ResolutionsAreBacked
    EveryCycleIsReported
    NeighborhoodsAreTrue
    UpgradedStoresAreSound
    CrawlsAreComplete
    RequestsArePaced
    OnlyReviewedContentIsRemoved
    ExitCodeIsTruthful
    CommandsEndClean
    PassesAreEarned
CHECK_DEADLOCK FALSE
