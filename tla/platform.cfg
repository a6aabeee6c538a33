SPECIFICATION Spec
CONSTANTS
    Scenes = {"oauth_refresh",
              "oauth_connect",
              "sessions_gate",
              "sessions_idle",
              "sessions_identity",
              "orgs_invite",
              "orgs_sso",
              "orgs_reenroll",
              "install_no_tunnel",
              "install_faults",
              "install_status",
              "mcp_health",
              "mcp_bearers",
              "mcp_proxy",
              "outbox_faults",
              "outbox_drains",
              "outbox_slots"}
INVARIANTS
    TypeOK
    UsedOnce
    RowsAgree
PROPERTIES
    VerdictsStand
CHECK_DEADLOCK FALSE
