------------------------- MODULE MonitoringServices -------------------------
(***************************************************************************)
(* Monitoring and automation of hosts: the methods of the generated        *)
(* classes resources/{ai, alerts, automations, metrics, proxmox_stats}.py  *)
(* (and of their async mirrors), one record per class or per part of one.  *)
(***************************************************************************)
EXTENDS ServiceMethods

AiProviders ==
  [create_provider |-> Op("POST", <<"ai", "providers">>, "json", "object"),
   list_providers |-> Op("GET", <<"ai", "providers">>, "none", "object"),
   update_provider |-> Op("PATCH", <<"ai", "providers", ":id">>, "json", "object"),
   delete_provider |-> Op("DELETE", <<"ai", "providers", ":id">>, "none", "object"),
   probe_models |-> Op("POST", <<"ai", "probe-models">>, "json", "object"),
   list_provider_models |-> Op("GET", <<"ai", "providers", ":id", "models">>, "none", "object")]

AiConversations ==
  [list_conversations |-> Op("GET", <<"ai", "conversations">>, "none", "object"),
   get_conversation |-> Op("GET", <<"ai", "conversations", ":id">>, "none", "object"),
   delete_conversation |-> Op("DELETE", <<"ai", "conversations", ":id">>, "none", "object"),
   get_status |-> Op("GET", <<"ai", "status">>, "none", "object"),
   apply_proposal |-> Op("POST", <<"ai", "proposals", ":id", "apply">>, "none", "object"),
   reject_proposal |-> Op("POST", <<"ai", "proposals", ":id", "reject">>, "none", "object"),
   chat_stream |-> Op("POST", <<"ai", "chat", "stream">>, "json", "events"),
   mark_proposal_run_in_terminal |-> Op("POST", <<"ai", "proposals", ":id", "mark-run-in-terminal">>, "json", "object")]

AlertRules ==
  [update_channel |-> Op("PUT", <<"notification-channels", ":id">>, "json", "object"),
   delete_channel |-> Op("DELETE", <<"notification-channels", ":id">>, "none", "object"),
   test_channel |-> Op("POST", <<"notification-channels", ":id", "test">>, "none", "object"),
   list_rules |-> Op("GET", <<"alert-rules">>, "none", "models"),
   create_rule |-> Op("POST", <<"alert-rules">>, "json", "object"),
   update_rule |-> Op("PUT", <<"alert-rules", ":id">>, "json", "object"),
   delete_rule |-> Op("DELETE", <<"alert-rules", ":id">>, "none", "object")]

AlertFirings ==
  [list_channels |-> Op("GET", <<"notification-channels">>, "none", "models"),
   create_channel |-> Op("POST", <<"notification-channels">>, "json", "object"),
   list_firings |-> Op("GET", <<"alert-firings">>, "query", "object"),
   acknowledge_firing |-> Op("POST", <<"alert-firings", ":id", "acknowledge">>, "none", "object"),
   acknowledge_all_firings |-> Op("POST", <<"alert-firings", "acknowledge-all">>, "none", "object"),
   list |-> Op("GET", <<"alerts">>, "none", "object"),
   dismiss |-> Op("POST", <<"alerts", "dismiss">>, "json", "object"),
   clear_dismissed |-> Op("DELETE", <<"alerts", "dismiss">>, "json", "object"),
   list_dismissed |-> Op("GET", <<"alerts", "dismissed">>, "none", "object")]

AutomationsMethods ==
  [list |-> Op("GET", <<"automations">>, "none", "list"),
   create |-> Op("POST", <<"automations">>, "json", "object"),
   retrieve |-> Op("GET", <<"automations", ":id">>, "none", "object"),
   update |-> Op("PUT", <<"automations", ":id">>, "json", "object"),
   delete |-> Op("DELETE", <<"automations", ":id">>, "none", "object"),
   run |-> Op("POST", <<"automations", ":id", "run">>, "json", "object"),
   list_run_history |-> Op("GET", <<"automations", "runs", "history">>, "query", "models"),
   list_run_steps |-> Op("GET", <<"automations", "runs", ":run_id", "steps">>, "none", "models"),
   trigger_webhook |-> Op("POST", <<"automations", "webhook", ":token">>, "none", "object")]

HostCron ==
  [get_cron |-> Op("GET", <<"host-metrics", "managers", "cron", ":id">>, "none", "object"),
   set_cron |-> Op("POST", <<"host-metrics", "managers", "cron", ":id">>, "json", "object"),
   persist_firewall |-> Op("POST", <<"host-metrics", "managers", "firewall", ":id", "persist">>, "none", "object"),
   get_firewall |-> Op("GET", <<"host-metrics", "managers", "firewall", ":id">>, "none", "object"),
   add_firewall_rule |-> Op("POST", <<"host-metrics", "managers", "firewall", ":id", "rule">>, "json", "object")]

HostHealth ==
  [get_health |-> Op("GET", <<"host-metrics", "managers", "health", ":id">>, "none", "object"),
   configure_health |-> Op("POST", <<"host-metrics", "managers", "health", ":id", "config">>, "json", "object"),
   run_health_check |-> Op("POST", <<"host-metrics", "managers", "health", ":id", "run">>, "none", "object"),
   get_platform |-> Op("GET", <<"host-metrics", "platform", ":id">>, "none", "object"),
   list_log_files |-> Op("GET", <<"host-metrics", "managers", "logs", ":id", "files">>, "none", "object")]

HostPackages ==
  [get_logs |-> Op("GET", <<"host-metrics", "managers", "logs", ":id">>, "query", "object"),
   run_package_action |-> Op("POST", <<"host-metrics", "managers", "packages", ":id", "action">>, "json", "object"),
   get_packages |-> Op("GET", <<"host-metrics", "managers", "packages", ":id">>, "none", "object"),
   signal_process |-> Op("POST", <<"host-metrics", "managers", "processes", ":id", "signal">>, "json", "object"),
   get_processes |-> Op("GET", <<"host-metrics", "managers", "processes", ":id">>, "none", "object"),
   run_service_action |-> Op("POST", <<"host-metrics", "managers", "services", ":id", "action">>, "json", "object")]

HostProcesses ==
  [get_services |-> Op("GET", <<"host-metrics", "managers", "services", ":id">>, "none", "object"),
   get_top_memory |-> Op("GET", <<"host-metrics", "managers", "top-memory", ":id">>, "none", "object"),
   get_timers |-> Op("GET", <<"host-metrics", "managers", "timers", ":id">>, "none", "object"),
   get_disk_breakdown |-> Op("GET", <<"host-metrics", "managers", "disk-breakdown", ":id">>, "none", "object")]

HostSsl ==
  [get_ssl |-> Op("GET", <<"host-metrics", "managers", "ssl", ":id">>, "none", "object"),
   issue_ssl |-> Op("POST", <<"host-metrics", "managers", "ssl", ":id", "issue">>, "json", "object"),
   renew_ssl |-> Op("POST", <<"host-metrics", "managers", "ssl", ":id", "renew">>, "json", "object"),
   revoke_ssl |-> Op("POST", <<"host-metrics", "managers", "ssl", ":id", "revoke">>, "json", "object")]

HostTailscale ==
  [get_tailscale |-> Op("GET", <<"host-metrics", "managers", "tailscale", ":id">>, "none", "object"),
   run_tailscale_action |-> Op("POST", <<"host-metrics", "managers", "tailscale", ":id", "action">>, "json", "object"),
   get_users |-> Op("GET", <<"host-metrics", "managers", "users", ":id">>, "none", "object"),
   run_user_action |-> Op("POST", <<"host-metrics", "managers", "users", ":id", "action">>, "json", "object")]

HostWireguard ==
  [get_wireguard |-> Op("GET", <<"host-metrics", "managers", "wireguard", ":id">>, "none", "object"),
   run_wireguard_action |-> Op("POST", <<"host-metrics", "managers", "wireguard", ":id", "action">>, "json", "object"),
   set_metrics_preferences |-> Op("POST", <<"host-metrics", "preferences", ":id">>, "json", "object"),
   get_metrics_preferences |-> Op("GET", <<"host-metrics", "preferences", ":id">>, "none", "object"),
   get_metrics_history |-> Op("GET", <<"metrics", "history", ":id">>, "none", "object")]

MetricsStatus ==
  [list_statuses |-> Op("GET", <<"status">>, "query", "object"),
   get_status |-> Op("GET", <<"status", ":id">>, "none", "object"),
   clear_connections |-> Op("POST", <<"clear-connections">>, "none", "object"),
   refresh_polling |-> Op("POST", <<"refresh">>, "none", "object"),
   notify_host_updated |-> Op("POST", <<"host-updated">>, "json", "object"),
   notify_host_deleted |-> Op("POST", <<"host-deleted">>, "json", "object")]

MetricsViewers ==
  [get_metrics |-> Op("GET", <<"metrics", ":id">>, "none", "object"),
   start_metrics |-> Op("POST", <<"metrics", "start", ":id">>, "none", "object"),
   stop_metrics |-> Op("POST", <<"metrics", "stop", ":id">>, "json", "object"),
   connect_totp |-> Op("POST", <<"metrics", "connect-totp">>, "json", "object")]

MetricsHistory ==
  [set_global_settings |-> Op("POST", <<"global-settings">>, "json", "object"),
   get_global_settings |-> Op("GET", <<"global-settings">>, "none", "object"),
   get_global_settings_history |-> Op("GET", <<"global-settings", "history">>, "none", "object"),
   save_global_settings_history |-> Op("POST", <<"global-settings", "history">>, "json", "object"),
   register_metrics_viewer |-> Op("POST", <<"metrics", "register-viewer">>, "json", "object"),
   unregister_metrics_viewer |-> Op("POST", <<"metrics", "unregister-viewer">>, "json", "object"),
   metrics_heartbeat |-> Op("POST", <<"metrics", "heartbeat">>, "json", "object")]

ProxmoxStatsMethods ==
  [get_history |-> Op("GET", <<"proxmox-stats", "history", ":host_id">>, "none", "object"),
   start |-> Op("POST", <<"proxmox-stats", "start", ":id">>, "none", "object"),
   stop |-> Op("POST", <<"proxmox-stats", "stop", ":id">>, "json", "object"),
   retrieve |-> Op("GET", <<"proxmox-stats", ":id">>, "none", "object"),
   register_viewer |-> Op("POST", <<"proxmox-stats", "register-viewer">>, "json", "object"),
   unregister_viewer |-> Op("POST", <<"proxmox-stats", "unregister-viewer">>, "json", "object"),
   heartbeat |-> Op("POST", <<"proxmox-stats", "heartbeat">>, "json", "object")]

=============================================================================
