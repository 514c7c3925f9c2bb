SPECIFICATION ImportFairSpec
CONSTANTS
    Channels = {c1, c2}
    Self = Self
    MaxId = 2
    Page = 2
    MaxLoops = 2
    MaxTexts = 0
    MaxStops = 0
    ImportEvents = {"switch"}
PROPERTIES ForeignAppears
CHECK_DEADLOCK FALSE
