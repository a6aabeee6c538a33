SPECIFICATION FairSpec
CONSTANTS
    Scenes = {"fleet_admin",
              "fleet_configured",
              "queue_reapers",
              "queue_loss",
              "queue_cap",
              "queue_live",
              "keys_live",
              "timers_live",
              "runs_settle",
              "subs_repair",
              "subs_calm"}
PROPERTIES
    AgentsSettle
CHECK_DEADLOCK FALSE
