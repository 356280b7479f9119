\* both rooms at once, any one fault
SPECIFICATION Spec
CONSTANTS
    Rooms <- MCRooms
    Chunks <- MCOneChunk
    DecodePages = {1, 2}
    PrefillPages = {1, 2}
    DecodeSlots = {1, 2}
    PrefillSlots = {1, 2}
    Faults = {"abort_prefill", "abort_decode", "send_error", "lost_node", "no_info", "prefill_dies"}
    MaxFaults = 1
INVARIANTS SuccessIsComplete
CHECK_DEADLOCK FALSE
