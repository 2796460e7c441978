SPECIFICATION LoaderSpec
CONSTANTS
    Content = {lib, old, text}
    Library = {lib, old}
    MaxResources = 2
INVARIANTS
    LoaderTypeOK
    NoFileLeft
    LoadsTheLibrary
    TellsEveryFailure
CHECK_DEADLOCK FALSE
