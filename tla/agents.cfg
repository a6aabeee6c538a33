SPECIFICATION Spec
CONSTANTS
    Scenes = {"fleet_faults",
              "queue_safety",
              "queue_faults",
              "timers_reaper",
              "timers_reports",
              "keys_rotation",
              "keys_faults",
              "identity_exchange",
              "identity_rate",
              "identity_patch",
              "runs_activity",
              "runs_calendar",
              "installs_trail",
              "installs_alone",
              "subs_storm",
              "subs_two"}
INVARIANTS
    TypeOK
    OnlyTrustedAgents
    CommandsAccountedFor
    SettingsReachAgents
    RecordsAreTrue
PROPERTIES
    WhatIsKeptStays
CHECK_DEADLOCK FALSE
