SPECIFICATION FairSpec
CONSTANTS
    Scenes = {"oauth_live",
              "sessions_purge",
              "orgs_sweep",
              "mcp_noticed"}
PROPERTIES
    PlatformSettles
CHECK_DEADLOCK FALSE
