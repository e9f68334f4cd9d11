---------------------------- MODULE AdminServices ---------------------------
(***************************************************************************)
(* Administration of an instance: the methods of the generated classes     *)
(* resources/{api_keys, audit, database, encryption, instance_settings,    *)
(* secret_sources, sso, sync, system, user_admin, vault}.py                *)
(* (and of their async mirrors), one record per class or per part of one.  *)
(***************************************************************************)
EXTENDS ServiceMethods

ApiKeysMethods ==
  [list |-> Op("GET", <<"users", "api-keys">>, "none", "object"),
   create |-> Op("POST", <<"users", "api-keys">>, "json", "object"),
   delete |-> Op("DELETE", <<"users", "api-keys", ":key_id">>, "none", "object")]

AuditMethods ==
  [list_actions |-> Op("GET", <<"audit-logs", "actions">>, "none", "object"),
   export |-> Op("GET", <<"audit-logs", "export">>, "query", "stream"),
   list |-> Op("GET", <<"audit-logs">>, "query", "object")]

DatabaseMethods ==
  [import_data |-> Op("POST", <<"database", "import">>, "file", "object"),
   preview_export |-> Op("POST", <<"database", "export", "preview">>, "json", "object"),
   restore |-> Op("POST", <<"database", "restore">>, "json", "object"),
   migration_status |-> Op("GET", <<"database", "migration", "status">>, "none", "object"),
   migration_history |-> Op("GET", <<"database", "migration", "history">>, "none", "object"),
   export |-> Op("POST", <<"database", "export">>, "none", "stream")]

EncryptionMethods ==
  [get_status |-> Op("GET", <<"encryption", "status">>, "none", "object"),
   initialize |-> Op("POST", <<"encryption", "initialize">>, "none", "object"),
   regenerate |-> Op("POST", <<"encryption", "regenerate">>, "none", "object"),
   regenerate_jwt |-> Op("POST", <<"encryption", "regenerate-jwt">>, "none", "object")]

SslSettings ==
  [get_acme_ssl_settings |-> Op("GET", <<"users", "acme-ssl-settings">>, "none", "object"),
   update_acme_ssl_settings |-> Op("PATCH", <<"users", "acme-ssl-settings">>, "json", "object"),
   acme_ssl_request |-> Op("POST", <<"users", "acme-ssl-request">>, "none", "object"),
   manual_ssl_upload |-> Op("POST", <<"users", "manual-ssl-upload">>, "json", "object"),
   get_host_defaults |-> Op("GET", <<"users", "host-defaults">>, "none", "object"),
   update_host_defaults |-> Op("PATCH", <<"users", "host-defaults">>, "json", "object"),
   get_guacamole_settings |-> Op("GET", <<"users", "guacamole-settings">>, "none", "object"),
   update_guacamole_settings |-> Op("PATCH", <<"users", "guacamole-settings">>, "json", "object")]

LogSettings ==
  [get_log_level |-> Op("GET", <<"users", "log-level">>, "none", "object"),
   update_log_level |-> Op("PATCH", <<"users", "log-level">>, "json", "object"),
   get_session_timeout |-> Op("GET", <<"users", "session-timeout">>, "none", "object"),
   update_session_timeout |-> Op("PATCH", <<"users", "session-timeout">>, "json", "object"),
   get_tailscale_settings |-> Op("GET", <<"users", "tailscale-settings">>, "none", "object"),
   update_tailscale_settings |-> Op("PATCH", <<"users", "tailscale-settings">>, "json", "object")]

FeatureSettings ==
  [get_command_history_enabled |-> Op("GET", <<"users", "command-history-enabled">>, "none", "object"),
   update_command_history_enabled |-> Op("PATCH", <<"users", "command-history-enabled">>, "json", "object"),
   get_analytics_enabled |-> Op("GET", <<"users", "analytics-enabled">>, "none", "object"),
   update_analytics_enabled |-> Op("PATCH", <<"users", "analytics-enabled">>, "json", "object"),
   get_session_sharing_enabled |-> Op("GET", <<"users", "session-sharing-enabled">>, "none", "object"),
   update_session_sharing_enabled |-> Op("PATCH", <<"users", "session-sharing-enabled">>, "json", "object")]

AiSettings ==
  [get_ai_enabled |-> Op("GET", <<"users", "ai-enabled">>, "none", "object"),
   update_ai_enabled |-> Op("PATCH", <<"users", "ai-enabled">>, "json", "object"),
   get_ai_private_endpoints |-> Op("GET", <<"users", "ai-private-endpoints">>, "none", "object"),
   update_ai_private_endpoints |-> Op("PATCH", <<"users", "ai-private-endpoints">>, "json", "object")]

RegistrationSettings ==
  [get_setup_required |-> Op("GET", <<"users", "setup-required">>, "none", "object"),
   get_registration_allowed |-> Op("GET", <<"users", "registration-allowed">>, "none", "object"),
   update_registration_allowed |-> Op("PATCH", <<"users", "registration-allowed">>, "json", "object"),
   get_oidc_auto_provision |-> Op("GET", <<"users", "oidc-auto-provision">>, "none", "object"),
   update_oidc_auto_provision |-> Op("PATCH", <<"users", "oidc-auto-provision">>, "json", "object"),
   get_oidc_silent_login_default |-> Op("GET", <<"users", "oidc-silent-login-default">>, "none", "object"),
   update_oidc_silent_login_default |-> Op("PATCH", <<"users", "oidc-silent-login-default">>, "json", "object")]

PasswordSettings ==
  [get_password_login_allowed |-> Op("GET", <<"users", "password-login-allowed">>, "none", "object"),
   update_password_login_allowed |-> Op("PATCH", <<"users", "password-login-allowed">>, "json", "object"),
   get_password_reset_allowed |-> Op("GET", <<"users", "password-reset-allowed">>, "none", "object"),
   update_password_reset_allowed |-> Op("PATCH", <<"users", "password-reset-allowed">>, "json", "object")]

OidcSettings ==
  [set_oidc_config |-> Op("POST", <<"users", "oidc-config">>, "json", "object"),
   delete_oidc_config |-> Op("DELETE", <<"users", "oidc-config">>, "none", "object"),
   get_oidc_config |-> Op("GET", <<"users", "oidc-config">>, "none", "object"),
   get_oidc_config_admin |-> Op("GET", <<"users", "oidc-config", "admin">>, "none", "object"),
   get_branding |-> Op("GET", <<"users", "branding">>, "none", "object"),
   update_branding |-> Op("PATCH", <<"users", "branding">>, "json", "object"),
   get_audit_forwarding |-> Op("GET", <<"users", "audit-forwarding">>, "none", "object"),
   update_audit_forwarding |-> Op("PATCH", <<"users", "audit-forwarding">>, "json", "object"),
   get_step_ca_settings |-> Op("GET", <<"users", "step-ca-settings">>, "none", "object"),
   update_step_ca_settings |-> Op("PATCH", <<"users", "step-ca-settings">>, "json", "object")]

SecretSourcesMethods ==
  [list |-> Op("GET", <<"secret-sources">>, "none", "object"),
   create |-> Op("POST", <<"secret-sources">>, "json", "object"),
   update |-> Op("PUT", <<"secret-sources", ":id">>, "json", "object"),
   delete |-> Op("DELETE", <<"secret-sources", ":id">>, "none", "object"),
   test |-> Op("POST", <<"secret-sources", ":id", "test">>, "none", "object")]

SsoMethods ==
  [ldap_login |-> Op("POST", <<"users", "ldap", "login">>, "json", "object"),
   list_providers |-> Op("GET", <<"users", "sso-providers">>, "none", "list"),
   create_provider |-> Op("POST", <<"users", "sso-providers">>, "json", "object"),
   list_providers_admin |-> Op("GET", <<"users", "sso-providers", "admin">>, "none", "models"),
   update_provider |-> Op("PUT", <<"users", "sso-providers", ":id">>, "json", "object"),
   delete_provider |-> Op("DELETE", <<"users", "sso-providers", ":id">>, "none", "object")]

SyncMethods ==
  [pull |-> Op("GET", <<"sync", ":entity_type">>, "query", "object"),
   push |-> Op("POST", <<"sync", ":entity_type">>, "json", "object"),
   push_tombstones |-> Op("POST", <<"sync", "tombstones">>, "json", "object"),
   pull_tombstones |-> Op("GET", <<"sync", ":entity_type", "tombstones">>, "query", "object")]

SystemMethods ==
  [health |-> Op("GET", <<"health">>, "none", "object"),
   version |-> Op("GET", <<"version">>, "query", "object"),
   list_releases |-> Op("GET", <<"releases", "rss">>, "query", "object")]

Admins ==
  [make_admin |-> Op("POST", <<"users", "make-admin">>, "json", "object"),
   remove_admin |-> Op("POST", <<"users", "remove-admin">>, "json", "object"),
   create_user |-> Op("POST", <<"users", "admin-create">>, "json", "object"),
   reset_user_password |-> Op("POST", <<"users", "admin", "reset-password">>, "json", "object"),
   disable_user_totp |-> Op("POST", <<"users", "admin", "totp", "disable">>, "json", "object")]

UserAccounts ==
  [list |-> Op("GET", <<"users", "list">>, "none", "object"),
   export_user |-> Op("GET", <<"users", "admin", "export", ":user_id">>, "none", "object"),
   count |-> Op("GET", <<"users", "count">>, "none", "object"),
   get_db_health |-> Op("GET", <<"users", "db-health">>, "none", "object"),
   delete_user |-> Op("DELETE", <<"users", "delete-user">>, "json", "object")]

VaultMethods ==
  [list_profiles |-> Op("GET", <<"vault", "profiles">>, "none", "list"),
   create_profile |-> Op("POST", <<"vault", "profiles">>, "json", "object"),
   update_profile |-> Op("PUT", <<"vault", "profiles", ":id">>, "json", "object"),
   delete_profile |-> Op("DELETE", <<"vault", "profiles", ":id">>, "none", "object")]

=============================================================================
