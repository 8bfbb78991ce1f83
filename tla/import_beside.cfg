SPECIFICATION Spec
CONSTANTS
    c1 = c1
    v1 = v1
    Code = {c1}
    Viewer = {v1}
    Importer = Importer
    MaxNum = 7
    MaxViews = 1
    ViewReactions = {"overwrite", "skip", "without"}
    ScheduleReaction = "clear_write"
    NoCode = NoCode
    NoRow = NoRow
    NoNum = NoNum
    Rows = 2
    Files <- SomeFiles
    ImportReactions = {"skip", "overwrite", "treat"}
    MaxFaults = 1
INVARIANTS TypeOK TwinsNeedOverlap OneSchedule OverwriteHeals
PROPERTIES ErrorSticks SuccessIsBooked KeepsPromise Finishes
CHECK_DEADLOCK FALSE
