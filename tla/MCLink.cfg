\* Two complete connections, and one failing HCI request of any kind.
SPECIFICATION FairSpec
CONSTANTS
    MaxLinks = 2
    MaxHciErrors = 1
    DisconnectMayFail = TRUE
INVARIANTS
    OwnStateAtDispatch
    HangsUpOnItsOwnLink
PROPERTIES
    LeftoversAreCleaned
    TagComesBack
    CommandIsTaken
