SPECIFICATION Spec
CONSTANTS
    Scenes = {"intake_duplicates",
              "intake_failures",
              "batch_claims",
              "batch_crash",
              "findings_posting",
              "findings_disputes",
              "docs_reruns",
              "docs_one_run",
              "reqs_one_at_a_time",
              "reqs_late",
              "defs_sequential",
              "defs_templates",
              "defs_bindings",
              "defs_runs",
              "defs_reruns",
              "defs_schedule",
              "lessons_edit",
              "lessons_alone",
              "live_deploy",
              "notes_fanout",
              "notes_bell"}
INVARIANTS
    TypeOK
    OnceOnly
    RightInputs
    ReferencesHold
    HistoryHolds
PROPERTIES
    DecisionsStand
CHECK_DEADLOCK FALSE
