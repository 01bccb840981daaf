\* One request over 57 watermark blocks (seven selections, text and image,
\* absent, undrawable, upright or turned), 28 protection blocks, and renders of one,
\* three or four pages against a limit of three.
SPECIFICATION Spec
CONSTANTS
    OptionNames = {"format"}
    Watermarks <- MCWatermarks
    Protections <- MCProtections
    NoBlock = NoBlock
    Restrictable = {"copy"}
    PageCounts = {1, 3, 4}
    MaxPages = 3
INVARIANTS
    DeliveredAsAsked
    NoPlainCopyLeft
    OneStory
