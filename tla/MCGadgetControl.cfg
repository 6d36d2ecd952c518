\* Two events of users, phones and plugs, at any point.
SPECIFICATION MCGadgetSpec
CONSTANTS
    Names = {"legacy", "chosen", "zero byte"}
    DefaultName = "configured"
    LegacyName = "legacy"
    Shortened <- MCShortened
    Records <- MCRecords
    Bonds = {{}, {"p1"}}
    PersistRetry = 2
    Debounce = 1
    StablePoll = 1
    DisableDelay = 2
    RecoveryWindow = 2
    Peers = {"p1", "p2"}
    PairingTime = 1
    MaxEvents = 2
INVARIANT
    BondsAuthorised
PROPERTIES
    SettingsSurvive
    SettingsSettle
    WifiFollowsSetting
