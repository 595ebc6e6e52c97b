\* ChannelStore: names and descriptions that fit the format and some that do not.
SPECIFICATION FairSpec
CONSTANTS
    MaxChannels = 3
    Name <- MC_Name
    Free = "Free"
    Garbled = "Garbled"
    Rest = "Rest"
    Reread <- MC_Reread
    Long <- MC_Long
    Stored <- MC_Stored
    Endless <- MC_Endless
    Spilling <- MC_Spilling
INVARIANTS StoreContiguous StoreUnique
PROPERTIES SaveEnds RestartKeepsPrefix
