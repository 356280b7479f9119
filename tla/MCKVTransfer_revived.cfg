\* a failed session is revived by a second registration
SPECIFICATION Spec
CONSTANTS
    Rooms <- MCRooms
    Chunks <- MCChunks
    DecodePages = {1, 2}
    PrefillPages = {1, 2}
    DecodeSlots = {1}
    PrefillSlots = {1}
    Faults = {"send_error", "lost_node"}
    MaxFaults = 2
INVARIANTS SuccessIsComplete
CHECK_DEADLOCK FALSE
