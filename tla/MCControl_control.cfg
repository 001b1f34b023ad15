SPECIFICATION CatalogueSpec
CONSTANTS
    Names <- AllNames
    Providers = {"qwen", "mock"}
    Labels = {"qwen", "mock", "other"}
    Fold <- Lower
    Strip <- Stripped
    Base <- BeforeTag
    Suffix <- Tag
    EnvAlias <- Aliases
    Shipped <- Ships
    NoName = NoName
    Admins = {o1, o2}
    Settings = {"default_model", "default_provider", "expose_reasoning"}
    Flags = {"expose_reasoning"}
    Options <- Offered
    Environment <- Default
    Patches <- PatchSet
    Unset = Unset
    Boot = Boot
    Edits <- EditSet
    Discoverable <- Answers
    SeedOrder <- ShipOrder
    MaxRow = 4
    MaxCalls = 4
INVARIANTS SettingsAgree ListedIsServed
PROPERTIES UnseenEditsSurvive
SYMMETRY Symmetric
CHECK_DEADLOCK FALSE
