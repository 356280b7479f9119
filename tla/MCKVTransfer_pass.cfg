\* any two faults, but a decode server that lives with the prefill server registers once
SPECIFICATION Spec
CONSTANTS
    Rooms <- MCRooms
    Chunks <- MCChunks
    DecodePages = {1, 2}
    PrefillPages = {1, 2}
    DecodeSlots = {1}
    PrefillSlots = {1}
    Faults = {"abort_prefill", "abort_decode", "send_error", "no_info", "prefill_dies"}
    MaxFaults = 2
INVARIANTS SuccessIsComplete
PROPERTIES Answered
CHECK_DEADLOCK FALSE
