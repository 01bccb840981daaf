\* The same instance: the playground opens the settings of a document.
SPECIFICATION Spec
CONSTANTS
    OptionNames = {"format"}
    Watermarks <- MCWatermarks
    Protections <- MCProtections
    NoBlock = NoBlock
    Restrictable = {"copy"}
    PageCounts = {1, 3, 4}
    MaxPages = 3
INVARIANTS SeededPreviewIsAccepted
