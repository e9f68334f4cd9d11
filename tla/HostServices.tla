---------------------------- MODULE HostServices ----------------------------
(***************************************************************************)
(* Hosts, their credentials and who may use them: the methods of the       *)
(* generated classes resources/{credentials, fleets, host_file_manager,    *)
(* hosts, network_topology, proxmox, rbac, snippets, tailscale,            *)
(* tunnel_presets}.py                                                      *)
(* (and of their async mirrors), one record per class or per part of one.  *)
(***************************************************************************)
EXTENDS ServiceMethods

CredentialFolders ==
  [list |-> Op("GET", <<"credentials">>, "none", "list"),
   create |-> Op("POST", <<"credentials">>, "json", "object"),
   list_folders |-> Op("GET", <<"credentials", "folders">>, "none", "list"),
   rename_folder |-> Op("PUT", <<"credentials", "folders", "rename">>, "json", "object"),
   reorder |-> Op("PUT", <<"credentials", "reorder">>, "json", "object")]

CredentialKeys ==
  [generate_key_pair |-> Op("POST", <<"credentials", "generate-key-pair">>, "json", "object"),
   generate_public_key |-> Op("POST", <<"credentials", "generate-public-key">>, "json", "object"),
   detect_key_type |-> Op("POST", <<"credentials", "detect-key-type">>, "json", "object"),
   detect_public_key_type |-> Op("POST", <<"credentials", "detect-public-key-type">>, "json", "object"),
   validate_key_pair |-> Op("POST", <<"credentials", "validate-key-pair">>, "json", "object")]

CredentialRecords ==
  [retrieve |-> Op("GET", <<"credentials", ":id">>, "none", "object"),
   update |-> Op("PUT", <<"credentials", ":id">>, "json", "object"),
   delete |-> Op("DELETE", <<"credentials", ":id">>, "none", "object"),
   apply_to_host |-> Op("POST", <<"credentials", ":id", "apply-to-host", ":host_id">>, "none", "object"),
   deploy_to_host |-> Op("POST", <<"credentials", ":id", "deploy-to-host">>, "json", "object"),
   duplicate |-> Op("POST", <<"credentials", ":id", "duplicate">>, "json", "object"),
   hosts |-> Op("GET", <<"credentials", ":id", "hosts">>, "none", "list")]

FleetHosts ==
  [transfer_pull |-> Op("POST", <<"fleets", ":id", "transfer", "pull">>, "json", "stream"),
   get_inventory |-> Op("GET", <<"fleets", ":id", "inventory">>, "none", "models"),
   refresh_inventory |-> Op("POST", <<"fleets", ":id", "inventory">>, "none", "object"),
   packages_action |-> Op("POST", <<"fleets", ":id", "packages">>, "json", "object")]

FleetRecords ==
  [create |-> Op("POST", <<"fleets">>, "json", "object"),
   list |-> Op("GET", <<"fleets">>, "none", "models"),
   update |-> Op("PATCH", <<"fleets", ":id">>, "json", "object"),
   delete |-> Op("DELETE", <<"fleets", ":id">>, "none", "object")]

FleetMembers ==
  [list_members |-> Op("GET", <<"fleets", ":id", "members">>, "none", "models"),
   add_member |-> Op("POST", <<"fleets", ":id", "members">>, "json", "object"),
   remove_member |-> Op("DELETE", <<"fleets", ":id", "members", ":host_id">>, "none", "object"),
   share |-> Op("POST", <<"fleets", ":id", "share">>, "json", "object"),
   execute |-> Op("POST", <<"fleets", ":id", "execute">>, "json", "object"),
   transfer_push |-> Op("POST", <<"fleets", ":id", "transfer", "push">>, "form", "object")]

RecentFiles ==
  [clear_recent |-> Op("DELETE", <<"host", "file_manager", "recent">>, "json", "object"),
   list_recent |-> Op("GET", <<"host", "file_manager", "recent">>, "query", "list"),
   add_recent |-> Op("POST", <<"host", "file_manager", "recent">>, "json", "object")]

PinnedFiles ==
  [list_pinned |-> Op("GET", <<"host", "file_manager", "pinned">>, "query", "list"),
   add_pinned |-> Op("POST", <<"host", "file_manager", "pinned">>, "json", "object"),
   remove_pinned |-> Op("DELETE", <<"host", "file_manager", "pinned">>, "json", "object"),
   list_shortcuts |-> Op("GET", <<"host", "file_manager", "shortcuts">>, "query", "list"),
   add_shortcut |-> Op("POST", <<"host", "file_manager", "shortcuts">>, "json", "object"),
   remove_shortcut |-> Op("DELETE", <<"host", "file_manager", "shortcuts">>, "json", "object")]

HostAutostart ==
  [disable_autostart |-> Op("DELETE", <<"host", "autostart", "disable">>, "json", "object"),
   get_autostart_status |-> Op("GET", <<"host", "autostart", "status">>, "none", "object"),
   enable_autostart |-> Op("POST", <<"host", "autostart", "enable">>, "json", "object"),
   bulk_update |-> Op("PATCH", <<"host", "bulk-update">>, "json", "object"),
   reorder |-> Op("PUT", <<"host", "reorder">>, "json", "object"),
   bulk_import |-> Op("POST", <<"host", "bulk-import">>, "json", "object"),
   ssh_config_import |-> Op("POST", <<"host", "ssh-config-import">>, "json", "object")]

HostFolders ==
  [get_command_history |-> Op("GET", <<"host", "command-history", ":host_id">>, "none", "list"),
   clear_command_history |-> Op("DELETE", <<"host", "command-history">>, "json", "object"),
   list_folders |-> Op("GET", <<"host", "folders">>, "none", "list"),
   update_folder_metadata |-> Op("PUT", <<"host", "folders", "metadata">>, "json", "object"),
   reorder_folders |-> Op("PUT", <<"host", "folders", "reorder">>, "json", "object"),
   remove_hosts_from_folder |-> Op("DELETE", <<"host", "folders", ":name", "hosts">>, "none", "object"),
   rename_folder |-> Op("PUT", <<"host", "folders", "rename">>, "json", "object")]

HostRecords ==
  [test_proxy |-> Op("POST", <<"host", "db", "proxy", "test">>, "json", "object"),
   wake |-> Op("POST", <<"host", "db", "host", ":id", "wake">>, "none", "object"),
   list |-> Op("GET", <<"host", "db", "host">>, "none", "models"),
   retrieve |-> Op("GET", <<"host", "db", "host", ":id">>, "none", "object"),
   delete |-> Op("DELETE", <<"host", "db", "host", ":id">>, "none", "object")]

HostTransfers ==
  [get_password |-> Op("GET", <<"host", "db", "host", ":id", "password">>, "query", "object"),
   export |-> Op("GET", <<"host", "db", "host", ":id", "export">>, "none", "object"),
   export_all |-> Op("GET", <<"host", "db", "hosts", "export">>, "query", "object"),
   get_recent_transfer |-> Op("GET", <<"host", "transfer", "recent">>, "query", "list"),
   record_recent_transfer |-> Op("POST", <<"host", "transfer", "recent">>, "json", "object"),
   get_opkssh_token |-> Op("GET", <<"host", "ssh", "opkssh", "token", ":host_id">>, "none", "object"),
   delete_opkssh_token |-> Op("DELETE", <<"host", "ssh", "opkssh", "token", ":host_id">>, "none", "object")]

HostEnrolment ==
  [quick_connect |-> Op("POST", <<"host", "quick-connect">>, "json", "object"),
   create |-> Op("POST", <<"host", "db", "host">>, "json", "object"),
   enroll |-> Op("POST", <<"host", "enroll">>, "json", "object"),
   update |-> Op("PUT", <<"host", "db", "host", ":id">>, "json", "object"),
   update_terminal_config |-> Op("PATCH", <<"host", "db", "host", ":id", "terminal-config">>, "json", "object"),
   get_local_connection_auth |-> Op("GET", <<"host", "db", "host", ":id", "local-connection-auth">>, "none", "object")]

NetworkTopologyMethods ==
  [save |-> Op("POST", <<"network-topology">>, "json", "object"),
   get |-> Op("GET", <<"network-topology">>, "none", "object")]

ProxmoxMethods ==
  [discover |-> Op("POST", <<"proxmox", "discover">>, "json", "object"),
   sync |-> Op("POST", <<"proxmox", "sync">>, "json", "object"),
   discover_stream |-> Op("GET", <<"proxmox", "discover", "stream">>, "none", "events")]

Roles ==
  [list_roles |-> Op("GET", <<"rbac", "roles">>, "none", "object"),
   create_role |-> Op("POST", <<"rbac", "roles">>, "json", "object"),
   update_role |-> Op("PUT", <<"rbac", "roles", ":id">>, "json", "object"),
   delete_role |-> Op("DELETE", <<"rbac", "roles", ":id">>, "none", "object"),
   permissions_catalog |-> Op("GET", <<"rbac", "permissions", "catalog">>, "none", "object"),
   assign_role |-> Op("POST", <<"rbac", "users", ":user_id", "roles">>, "json", "object"),
   list_user_roles |-> Op("GET", <<"rbac", "users", ":user_id", "roles">>, "none", "object"),
   revoke_role |-> Op("DELETE", <<"rbac", "users", ":user_id", "roles", ":role_id">>, "none", "object")]

SnippetAccess ==
  [share_snippet |-> Op("POST", <<"rbac", "snippet", ":id", "share">>, "json", "object"),
   share_host |-> Op("POST", <<"rbac", "host", ":id", "share">>, "json", "object"),
   delete_snippet_access |-> Op("DELETE", <<"rbac", "snippet", ":id", "access", ":access_id">>, "none", "object"),
   list_snippet_access |-> Op("GET", <<"rbac", "snippet", ":id", "access">>, "none", "object"),
   list_shared_snippets |-> Op("GET", <<"rbac", "shared-snippets">>, "none", "object")]

HostAccess ==
  [set_host_access_auth |-> Op("PUT", <<"rbac", "host-access", ":host_id", "auth", ":protocol">>, "json", "object"),
   get_host_access_auth |-> Op("GET", <<"rbac", "host-access", ":host_id", "auth", ":protocol">>, "none", "object"),
   share_folder |-> Op("POST", <<"rbac", "folder", "share">>, "json", "object"),
   update_host_access |-> Op("PATCH", <<"rbac", "host", ":id", "access", ":access_id">>, "json", "object"),
   delete_host_access |-> Op("DELETE", <<"rbac", "host", ":id", "access", ":access_id">>, "none", "object"),
   list_host_access |-> Op("GET", <<"rbac", "host", ":id", "access">>, "none", "object"),
   list_shared_hosts |-> Op("GET", <<"rbac", "shared-hosts">>, "none", "object")]

CredentialAccess ==
  [share_credential |-> Op("POST", <<"rbac", "credential", ":id", "share">>, "json", "object"),
   list_credential_access |-> Op("GET", <<"rbac", "credential", ":id", "access">>, "none", "object"),
   delete_credential_access |-> Op("DELETE", <<"rbac", "credential", ":id", "access", ":access_id">>, "none", "object"),
   share_snippet_folder |-> Op("POST", <<"rbac", "snippet-folder", "share">>, "json", "object"),
   list_folder_access |-> Op("GET", <<"rbac", "folder", "access">>, "query", "object"),
   delete_folder_access |-> Op("DELETE", <<"rbac", "folder", "access", ":id">>, "none", "object"),
   list_role_members |-> Op("GET", <<"rbac", "roles", ":id", "members">>, "none", "object")]

SnippetRecords ==
  [list |-> Op("GET", <<"snippets">>, "none", "list"),
   create |-> Op("POST", <<"snippets">>, "json", "object"),
   retrieve |-> Op("GET", <<"snippets", ":id">>, "none", "object"),
   update |-> Op("PUT", <<"snippets", ":id">>, "json", "object"),
   delete |-> Op("DELETE", <<"snippets", ":id">>, "none", "object")]

SnippetFolders ==
  [list_folders |-> Op("GET", <<"snippets", "folders">>, "none", "list"),
   create_folder |-> Op("POST", <<"snippets", "folders">>, "json", "object"),
   update_folder_metadata |-> Op("PUT", <<"snippets", "folders", ":name", "metadata">>, "json", "object"),
   rename_folder |-> Op("PUT", <<"snippets", "folders", "rename">>, "json", "object"),
   delete_folder |-> Op("DELETE", <<"snippets", "folders", ":name">>, "none", "object"),
   reorder |-> Op("PUT", <<"snippets", "reorder">>, "json", "object"),
   execute |-> Op("POST", <<"snippets", "execute">>, "json", "object"),
   export |-> Op("GET", <<"snippets", "export">>, "none", "object"),
   bulk_import |-> Op("POST", <<"snippets", "bulk-import">>, "json", "object")]

TailscaleMethods ==
  [list_devices |-> Op("GET", <<"tailscale", "devices">>, "none", "object")]

TunnelPresetsMethods ==
  [create |-> Op("POST", <<"c2s-tunnel-presets">>, "json", "object"),
   list |-> Op("GET", <<"c2s-tunnel-presets">>, "none", "list"),
   update |-> Op("PUT", <<"c2s-tunnel-presets", ":id">>, "json", "object"),
   delete |-> Op("DELETE", <<"c2s-tunnel-presets", ":id">>, "none", "object")]

=============================================================================
