SPECIFICATION Spec
CONSTANTS
    Principals = {"p", "q"}
    targetLines = 2
    BaseLines = {1}
    Instants <- AllInstants
    Spans <- AllSpans
    Incumbents <- AllIncumbents
    Guarded <- AllGuarded
    Retrieved <- AllRetrieved
    Packages <- AllPackages
    Documents <- AllDocuments
    Sources <- AllSources
    Answers <- AllAnswers
    Slices <- AllSlices
    Ceilings <- AllCeilings
    Listings <- AllListings
    Spendings <- AllSpendings
    Texts <- AllTexts
    defaultLimit = 2
    maxLimit = 3
    controlRanges <- Controls
    whitespaceRanges <- Whites
    nonspacingMarkRanges <- Marks
    punctRanges <- Puncts
    cjkRanges <- Ideographs
    lowerMap <- Lowered
    NFD <- Decomposed
    Space = " "
    vocab <- Vocabulary
    maxInputCharsPerWord = 3
    MaxSequenceLength = 5
    sequenceBuckets = {3, 5}
INVARIANT OverlapIsSharing
INVARIANT SupersedeHandsOver
INVARIANT ReadersOnlyShrink
INVARIANT AgreementRanksFirst
INVARIANT PackageIsFull
INVARIANT ChunkHasOneSection
INVARIANT FormattingKeepsAnchors
INVARIANT EditExpiresItsSection
INVARIANT ReindentKeepsAnchors
INVARIANT EvidenceIsTheSource
INVARIANT PruneReachesCeiling
INVARIANT ListingIsComplete
INVARIANT HeadroomIsExact
INVARIANT PiecesSpellTheirWord
INVARIANT TruncationCutsTheTail
