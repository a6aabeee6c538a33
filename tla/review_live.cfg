SPECIFICATION FairSpec
CONSTANTS
    Scenes = {"intake_order",
              "batch_live",
              "reqs_queue",
              "defs_tick",
              "live_commit",
              "notes_live"}
PROPERTIES
    ReviewSettles
CHECK_DEADLOCK FALSE
