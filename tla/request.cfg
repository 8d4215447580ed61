SPECIFICATION ConversionsSpec
CONSTANTS
    Byte <- MCByte
    Letters = {"b"}
    Boundary <- MCBoundary
    Uploads <- AllUploads
    Characters <- MCCharacters
    Targets <- MCTargets
    Requests <- MCRequests
    MaxData = 4
    MaxQuery = 4
    Tokens <- MCTokens
    FormValues <- MCFields
    MaxToken = 4
    MaxField = 3
INVARIANTS
    TypeOK
    PartExact
    FilesExact
    TargetExact
    EncodingExact
CHECK_DEADLOCK FALSE
