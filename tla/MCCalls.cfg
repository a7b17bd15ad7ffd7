SPECIFICATION Spec
CONSTANTS
    None = None
    Strings <- SmallStrings
    Sets <- SmallSets
    Queries <- SmallQueries
    Atoms <- SmallAtoms
    Letters = {"l", "r"}
    RightsTexts <- SmallRights
    Entries <- SmallEntries
    Sizes = {0, 1, 2}
    Capable <- SmallCapable
    Data <- SmallData
    Codes <- SmallCodes
    MaxReply = 2
INVARIANTS
    HeardAsMeant
    OneAnswer
    MetadataIsAccountedFor
    ValueIsAsSent
