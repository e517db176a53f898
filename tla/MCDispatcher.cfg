SPECIFICATION MCSpec
CONSTANTS
    Task <- MCTask
    Chain <- MCChain
    IsrTask <- MCIsrTask
    BsmpTask <- MCBsmpTask
    BsmpHandler <- MCBsmpHandler
    Lamp = {"LedItlk", "Sound"}
    SecondMs = 3
    SampleMs = 2
    OnLimit = 0
INVARIANTS
    TypeOK
    NoLostRequest
    HigherPendingFirst
    PanelTypeOK
    BoardMatchesModes
    SupplyUndisturbed
PROPERTIES
    ServedWhenHigherQuiet
    LampGoesOff
