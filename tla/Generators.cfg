SPECIFICATION Spec
CONSTANTS
    PayloadValues <- MCPayloads
    Nesting = 2
    RawTexts <- MCTexts
    Codes <- MCCodes
    PackOptions <- MCPackOptions
    PairOptions <- MCPairOptions
    ItemOptions <- MCItemOptions
    EntityOptions <- MCEntityOptions
INVARIANTS
    ReadsPayload
    EscapesRight
    ObfuscationKeeps
    ThrowsOnlyUnpaired
    ZipPaths
    PairLinked
    EntityResolves
    IconInAtlas
