CONSTANTS
    Letters = {"a", "b"}
    RoutingSymbols = {"a", "b", "."}
    MaxBinding = 5
    MaxRouting = 4
    ArgKeys <- ShortKeys
    ArgValues <- ShortValues
    Id <- Ids
    Text <- Texts
    ArgMaps <- SomeMaps
    MaxMessage = 500
    Lines <- SomeLines
    Bodies <- SomeBodies
    ArgMeaning <- ArgTexts
    Payloads <- SomePayloads
    OffsetMod = 65536
    MaxRecords = 3
    MaxFaults = 1
SPECIFICATION AllSpec
CHECK_DEADLOCK FALSE
INVARIANTS TopicMatches LegalByTheRules PairsSurvive Delivered TypedIsDone FileReadable
