SPECIFICATION FairSpec
CONSTANTS
    Panel = {"atmel", "elan"}
    Other = {"keys"}
    Present = {"no_lp", "doubletap_wake"}
    Enableable = {"atmel", "keys"}
    MaxId = 2
    MaxPokers = 2
    FreqFile <- MCFreqFile
    ErrorText <- MCErrorText
    LpMax = 5
    Interaction = 12
    Animation = 10
    Garbage <- MCGarbage
    LightThread = {t1, t2, t3}
    Grey <- MCGrey
    Hue <- MCHue
    MaxDevices = 2
    MaxRoles = 2
    MaxBuffers = 4
    MaxComponents = 2
    Grouper = TRUE
    MaxNfcDevs = 2
    Manager = {m1, m2, m3}
    NoManager = NoManager
    MaxQueues = 2
    SettingThread = {s1, s2}
    Actual <- MCActual
    Slack = {0, 1}
    MaxResults = 2
INVARIANTS
    InputAlive
    BoostsSound
    LockWorks
    PluginSound
    SetUpForGood
    ManagerFreedOnce
    ProbeKeepsSetting
    MemorySound
PROPERTIES
    BacklightRight
    SetupReturns
CHECK_DEADLOCK FALSE
