--------------------------- MODULE AccountServices --------------------------
(***************************************************************************)
(* What belongs to one user: the methods of the generated classes          *)
(* resources/{dashboard, homepage, open_tabs, preferences, termix_id,      *)
(* users, webauthn, workspaces}.py                                         *)
(* (and of their async mirrors), one record per class or per part of one.  *)
(***************************************************************************)
EXTENDS ServiceMethods

DashboardMethods ==
  [delete_service_link |-> Op("DELETE", <<"service-links", ":id">>, "none", "object"),
   update_service_link |-> Op("PUT", <<"service-links", ":id">>, "json", "object"),
   list_service_links |-> Op("GET", <<"service-links">>, "none", "list"),
   create_service_link |-> Op("POST", <<"service-links">>, "json", "object"),
   list_recent_activity |-> Op("GET", <<"activity", "recent">>, "query", "list"),
   log_activity |-> Op("POST", <<"activity", "log">>, "json", "object"),
   reset_activity |-> Op("DELETE", <<"activity", "reset">>, "none", "object"),
   uptime |-> Op("GET", <<"uptime">>, "none", "object")]

HomepageItems ==
  [get_favicon |-> Op("GET", <<"homepage", "favicon">>, "query", "stream"),
   update_item |-> Op("PUT", <<"homepage", "items", ":id">>, "json", "object"),
   delete_item |-> Op("DELETE", <<"homepage", "items", ":id">>, "none", "object"),
   list_items |-> Op("GET", <<"homepage", "items">>, "none", "list"),
   create_item |-> Op("POST", <<"homepage", "items">>, "json", "object")]

HomepageLayout ==
  [get_layout |-> Op("GET", <<"homepage", "layout">>, "none", "object"),
   set_layout |-> Op("PUT", <<"homepage", "layout">>, "json", "object"),
   ping |-> Op("GET", <<"homepage", "ping">>, "query", "object"),
   proxy |-> Op("GET", <<"homepage", "proxy">>, "query", "object"),
   rss |-> Op("GET", <<"homepage", "rss">>, "query", "models")]

OpenTabsMethods ==
  [upsert |-> Op("POST", <<"open-tabs">>, "json", "object"),
   replace_all |-> Op("PUT", <<"open-tabs">>, "json", "object"),
   list |-> Op("GET", <<"open-tabs">>, "none", "models"),
   update |-> Op("PATCH", <<"open-tabs", ":id">>, "json", "object"),
   delete |-> Op("DELETE", <<"open-tabs", ":id">>, "none", "object"),
   list_active_sessions |-> Op("GET", <<"open-tabs", "active-sessions">>, "none", "models")]

SidebarPreferences ==
  [get_credential_sidebar |-> Op("GET", <<"credential-sidebar", "preferences">>, "none", "object"),
   set_credential_sidebar |-> Op("PUT", <<"credential-sidebar", "preferences">>, "json", "object"),
   set_host_sidebar |-> Op("PUT", <<"host-sidebar", "preferences">>, "json", "object"),
   get_host_sidebar |-> Op("GET", <<"host-sidebar", "preferences">>, "none", "object")]

UserPreferences ==
  [set_ui_preferences |-> Op("PUT", <<"ui-preferences">>, "json", "object"),
   get_ui_preferences |-> Op("GET", <<"ui-preferences">>, "none", "object"),
   get_user_preferences |-> Op("GET", <<"user-preferences">>, "none", "object"),
   set_user_preferences |-> Op("PUT", <<"user-preferences">>, "json", "object"),
   get_touch_input_settings |-> Op("GET", <<"users", "touch-input-settings">>, "none", "object"),
   update_touch_input_settings |-> Op("PATCH", <<"users", "touch-input-settings">>, "json", "object")]

TermixIdCa ==
  [get_ca |-> Op("GET", <<"termix-id", "ca">>, "none", "object"),
   create_ca |-> Op("POST", <<"termix-id", "ca">>, "json", "object"),
   delete_ca |-> Op("DELETE", <<"termix-id", "ca">>, "none", "object"),
   rotate_ca |-> Op("POST", <<"termix-id", "ca", "rotate">>, "json", "object"),
   issue_certificate |-> Op("POST", <<"termix-id", "keys", ":id", "certificate">>, "json", "object"),
   list_linked_credentials |-> Op("GET", <<"termix-id", "linked-credentials">>, "none", "object")]

TermixIdPublic ==
  [get_public_ca |-> Op("GET", <<"termix-id", "u", ":handle", "ca">>, "none", "stream"),
   get_public_identity |-> Op("GET", <<"termix-id", "u", ":handle">>, "none", "stream"),
   get_public_key |-> Op("GET", <<"termix-id", "u", ":handle", ":algo">>, "none", "stream"),
   get_me |-> Op("GET", <<"termix-id", "me">>, "none", "object"),
   check_handle |-> Op("GET", <<"termix-id", "check", ":handle">>, "none", "object")]

TermixIdKeys ==
  [create |-> Op("POST", <<"termix-id">>, "json", "object"),
   update |-> Op("PUT", <<"termix-id">>, "json", "object"),
   delete |-> Op("DELETE", <<"termix-id">>, "none", "object"),
   create_key |-> Op("POST", <<"termix-id", "keys">>, "json", "object"),
   generate_key |-> Op("POST", <<"termix-id", "keys", "generate">>, "json", "object"),
   update_key |-> Op("PATCH", <<"termix-id", "keys", ":id">>, "json", "object"),
   delete_key |-> Op("DELETE", <<"termix-id", "keys", ":id">>, "none", "object")]

OwnAccount ==
  [get_me |-> Op("GET", <<"users", "me">>, "none", "object"),
   logout |-> Op("POST", <<"users", "logout">>, "none", "object"),
   get_token |-> Op("GET", <<"users", "me", "token">>, "none", "object"),
   dismiss_donation_modal |-> Op("POST", <<"users", "me", "dismiss-donation-modal">>, "none", "object"),
   change_password |-> Op("POST", <<"users", "change-password">>, "json", "object"),
   delete_account |-> Op("DELETE", <<"users", "delete-account">>, "json", "object"),
   unlock_data |-> Op("POST", <<"users", "unlock-data">>, "json", "object"),
   get_data_status |-> Op("GET", <<"users", "data-status">>, "none", "object")]

Totp ==
  [setup_totp |-> Op("POST", <<"users", "totp", "setup">>, "json", "object"),
   enable_totp |-> Op("POST", <<"users", "totp", "enable">>, "json", "object"),
   disable_totp |-> Op("POST", <<"users", "totp", "disable">>, "json", "object"),
   get_totp_backup_codes |-> Op("POST", <<"users", "totp", "backup-codes">>, "json", "object")]

OidcLinks ==
  [proxy_login |-> Op("POST", <<"users", "proxy-login">>, "none", "object"),
   unlink_oidc_from_password |-> Op("POST", <<"users", "unlink-oidc-from-password">>, "json", "object"),
   link_oidc_to_password |-> Op("POST", <<"users", "link-oidc-to-password">>, "json", "object"),
   initiate_reset |-> Op("POST", <<"users", "initiate-reset">>, "json", "object"),
   verify_reset_code |-> Op("POST", <<"users", "verify-reset-code">>, "json", "object"),
   complete_reset |-> Op("POST", <<"users", "complete-reset">>, "json", "object")]

UserSessions ==
  [list_sessions |-> Op("GET", <<"users", "sessions">>, "none", "object"),
   revoke_session |-> Op("DELETE", <<"users", "sessions", ":session_id">>, "none", "object"),
   revoke_all_sessions |-> Op("POST", <<"users", "sessions", "revoke-all">>, "json", "object"),
   get_terminal_image_storage_settings |-> Op("GET", <<"users", "terminal-image-storage-settings">>, "none", "object"),
   update_terminal_image_storage_settings |-> Op("PATCH", <<"users", "terminal-image-storage-settings">>, "json", "object"),
   test_terminal_image_storage_settings |-> Op("POST", <<"users", "terminal-image-storage-settings", "test">>, "json", "object"),
   register |-> Op("POST", <<"users", "create">>, "json", "object")]

WebauthnMethods ==
  [list_credentials |-> Op("GET", <<"users", "webauthn", "credentials">>, "none", "object"),
   register_options |-> Op("POST", <<"users", "webauthn", "register", "options">>, "json", "object"),
   register_verify |-> Op("POST", <<"users", "webauthn", "register", "verify">>, "json", "object"),
   authenticate_options |-> Op("POST", <<"users", "webauthn", "authenticate", "options">>, "json", "object"),
   authenticate_verify |-> Op("POST", <<"users", "webauthn", "authenticate", "verify">>, "json", "object"),
   delete_credential |-> Op("DELETE", <<"users", "webauthn", "credentials", ":credential_id">>, "none", "object")]

WorkspaceRecords ==
  [create |-> Op("POST", <<"workspaces">>, "json", "object"),
   list |-> Op("GET", <<"workspaces">>, "none", "list"),
   get_last_session |-> Op("GET", <<"workspaces", "last-session">>, "none", "object"),
   save_last_session |-> Op("PUT", <<"workspaces", "last-session">>, "json", "object"),
   update |-> Op("PATCH", <<"workspaces", ":id">>, "json", "object"),
   delete |-> Op("DELETE", <<"workspaces", ":id">>, "none", "object")]

WorkspaceContent ==
  [set_content |-> Op("PUT", <<"workspaces", ":id", "content">>, "json", "object"),
   duplicate |-> Op("POST", <<"workspaces", ":id", "duplicate">>, "json", "object"),
   set_default |-> Op("POST", <<"workspaces", ":id", "set-default">>, "none", "object"),
   unset_default |-> Op("POST", <<"workspaces", ":id", "unset-default">>, "none", "object"),
   apply |-> Op("POST", <<"workspaces", ":id", "apply">>, "none", "object")]

=============================================================================
