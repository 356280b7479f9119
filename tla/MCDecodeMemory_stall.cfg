\* event_loop_normal_disagg_decode, requests that outgrow the pool together
CONSTANTS
    r1 = r1
    r2 = r2
    r3 = r3
    Reqs = {r1, r2, r3}
    Origin <- MCOrigin
    MaxNew <- MCMaxNew
    Pool = 13
    Rows = 2
    PreAlloc = 4
    MetaSlots = 3
    Reserved = 2
    Clip = 16
    Aborts = {r1, r2, r3}
SPECIFICATION Spec
PROPERTIES Answered
