SPECIFICATION FairSpec
CONSTANTS
    Meetings <- EveryMeeting
    MaxDuplicates = 1
    ForeignFrames <- Strange
    MaxForeign = 3
INVARIANTS
    Agreement
    WithinOwnPolicy
    HonestPeersAgree

    
CHECK_DEADLOCK FALSE
