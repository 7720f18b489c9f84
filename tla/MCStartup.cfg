SPECIFICATION Spec
CONSTANTS
    Levels <- TwoLevelNames
    PluginFile <- Spellings
    Paths = 2
    FoundIn <- Directories
    CommandLines <- SomeCommandLines
    Settings <- SomeSettings
    Components <- SomeComponents
    Defaults <- SomeDefaults
    EarlyServices <- SomeServices
    NumCpus = "16"
    MaxCalls = 4
INVARIANTS
    PluginsAttachedInOrder
    
    SettingsTakeEffect
    TopologyWired
CHECK_DEADLOCK FALSE
