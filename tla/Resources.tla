----------------------------- MODULE Resources ------------------------------
(***************************************************************************)
(* The resource attributes of a client: the backend service and the        *)
(* methods behind client.hosts, client.docker and so on.                   *)
(***************************************************************************)
EXTENDS AdminServices, AccountServices, HostServices, MonitoringServices,
        SessionServices

resources ==
  [ai |-> Service("database", AiProviders @@ AiConversations),
   alerts |-> Service("database", AlertRules @@ AlertFirings),
   api_keys |-> Service("database", ApiKeysMethods),
   audit |-> Service("database", AuditMethods),
   automations |-> Service("database", AutomationsMethods),
   collab |-> Service("database", CollabRooms @@ CollabStage @@ CollabGuests),
   credentials |-> Service("database",
                           CredentialFolders @@ CredentialKeys @@ CredentialRecords),
   dashboard |-> Service("dashboard", DashboardMethods),
   database |-> Service("database", DatabaseMethods),
   docker |-> Service("docker", DockerContainers @@ DockerListing @@ DockerSession),
   encryption |-> Service("database", EncryptionMethods),
   file_manager |-> Service("file-manager",
                            FileContents @@ FileTransfersInline @@ FileSession @@
                            FileArchives @@ FileTransfers @@ FileBrowsing @@
                            FileTrash @@ FileItems),
   fleets |-> Service("database", FleetHosts @@ FleetRecords @@ FleetMembers),
   guacamole |-> Service("database", GuacamoleMethods),
   homepage |-> Service("homepage", HomepageItems @@ HomepageLayout),
   host_file_manager |-> Service("database", RecentFiles @@ PinnedFiles),
   hosts |-> Service("database",
                     HostAutostart @@ HostFolders @@ HostRecords @@ HostTransfers @@
                     HostEnrolment),
   instance_settings |-> Service("database",
                                 SslSettings @@ LogSettings @@ FeatureSettings @@
                                 AiSettings @@ RegistrationSettings @@
                                 PasswordSettings @@ OidcSettings),
   metrics |-> Service("metrics",
                       HostCron @@ HostHealth @@ HostPackages @@ HostProcesses @@
                       HostSsl @@ HostTailscale @@ HostWireguard @@ MetricsStatus @@
                       MetricsViewers @@ MetricsHistory),
   network_topology |-> Service("database", NetworkTopologyMethods),
   open_tabs |-> Service("database", OpenTabsMethods),
   preferences |-> Service("database", SidebarPreferences @@ UserPreferences),
   proxmox |-> Service("database", ProxmoxMethods),
   proxmox_stats |-> Service("metrics", ProxmoxStatsMethods),
   rbac |-> Service("database",
                    Roles @@ SnippetAccess @@ HostAccess @@ CredentialAccess),
   secret_sources |-> Service("database", SecretSourcesMethods),
   session_logs |-> Service("database", SessionLogsMethods),
   session_sharing |-> Service("database", SessionSharingMethods),
   snippets |-> Service("database", SnippetRecords @@ SnippetFolders),
   sso |-> Service("database", SsoMethods),
   sync |-> Service("database", SyncMethods),
   system |-> Service("database", SystemMethods),
   tailscale |-> Service("database", TailscaleMethods),
   terminal |-> Service("database", TerminalMethods),
   termix_id |-> Service("database", TermixIdCa @@ TermixIdPublic @@ TermixIdKeys),
   tmux |-> Service("tmux", TmuxSessions @@ TmuxPanes),
   tunnel |-> Service("tunnel", TunnelMethods),
   tunnel_presets |-> Service("database", TunnelPresetsMethods),
   user_admin |-> Service("database", Admins @@ UserAccounts),
   users |-> Service("database", OwnAccount @@ Totp @@ OidcLinks @@ UserSessions),
   vault |-> Service("database", VaultMethods),
   webauthn |-> Service("database", WebauthnMethods),
   workspaces |-> Service("database", WorkspaceRecords @@ WorkspaceContent)]

\* What a call names: an attribute of the client and a method of its service.
Operations == UNION {{a} \X DOMAIN resources[a].methods : a \in DOMAIN resources}

method(o) == resources[o[1]].methods[o[2]]

\* The services ssh_session is for, and which of their methods know a session.
SessionServiceNames == {"docker", "file_manager"}

DeclaresSession(o) ==
  \/ o[1] = "docker" /\ o[2] \in DockerSessionFields
  \/ o[1] = "file_manager" /\ o[2] \in FileSessionFields \cup FileItemSessionFields

KnowsSession(o) ==
  \/ o[1] \in SessionServiceNames /\ ":session_id" \in Arguments(method(o))
  \/ DeclaresSession(o)

=============================================================================
