--------------------------- MODULE SessionServices --------------------------
(***************************************************************************)
(* Live sessions on a host: the methods of the generated classes           *)
(* resources/{collab, docker, file_manager, guacamole, session_logs,       *)
(* session_sharing, terminal, tmux, tunnel}.py                             *)
(* (and of their async mirrors), one record per class or per part of one.  *)
(***************************************************************************)
EXTENDS ServiceMethods

CollabRooms ==
  [list_rooms |-> Op("GET", <<"collab", "rooms">>, "none", "object"),
   create_room |-> Op("POST", <<"collab", "rooms">>, "json", "object"),
   get_room |-> Op("GET", <<"collab", "rooms", ":id">>, "none", "object"),
   delete_room |-> Op("DELETE", <<"collab", "rooms", ":id">>, "none", "object"),
   end_room |-> Op("POST", <<"collab", "rooms", ":id", "end">>, "none", "object"),
   invite_members |-> Op("POST", <<"collab", "rooms", ":id", "members">>, "json", "object"),
   remove_member |-> Op("DELETE", <<"collab", "rooms", ":id", "members", ":user_id">>, "none", "object")]

CollabStage ==
  [present |-> Op("POST", <<"collab", "rooms", ":id", "present">>, "json", "object"),
   stop_presenting |-> Op("POST", <<"collab", "rooms", ":id", "stop">>, "none", "object"),
   get_stage |-> Op("GET", <<"collab", "rooms", ":id", "stage">>, "none", "object"),
   set_control |-> Op("POST", <<"collab", "rooms", ":id", "control">>, "json", "object"),
   request_control |-> Op("POST", <<"collab", "rooms", ":id", "control", "request">>, "none", "object"),
   list_control_requests |-> Op("GET", <<"collab", "rooms", ":id", "control", "requests">>, "none", "object"),
   delete_control_request |-> Op("DELETE", <<"collab", "rooms", ":id", "control", "requests", ":user_id">>, "none", "object")]

CollabGuests ==
  [set_guest_link |-> Op("POST", <<"collab", "rooms", ":id", "guest-link">>, "json", "object"),
   get_guest_stage |-> Op("GET", <<"collab", "guest", ":token">>, "none", "object")]

DockerContainers ==
  [get_container_stats |-> Op("GET", <<"docker", "containers", ":session_id", ":container_id", "stats">>, "none", "object"),
   get_container |-> Op("GET", <<"docker", "containers", ":session_id", ":container_id">>, "none", "object"),
   start |-> Op("POST", <<"docker", "containers", ":session_id", ":container_id", "start">>, "none", "object"),
   stop |-> Op("POST", <<"docker", "containers", ":session_id", ":container_id", "stop">>, "none", "object"),
   restart |-> Op("POST", <<"docker", "containers", ":session_id", ":container_id", "restart">>, "none", "object"),
   pause |-> Op("POST", <<"docker", "containers", ":session_id", ":container_id", "pause">>, "none", "object"),
   unpause |-> Op("POST", <<"docker", "containers", ":session_id", ":container_id", "unpause">>, "none", "object")]

DockerListing ==
  [remove_container |-> Op("DELETE", <<"docker", "containers", ":session_id", ":container_id", "remove">>, "query", "object"),
   list_containers |-> Op("GET", <<"docker", "containers", ":session_id">>, "query", "list"),
   get_container_logs |-> Op("GET", <<"docker", "containers", ":session_id", ":container_id", "logs">>, "query", "object")]

DockerSession ==
  [disconnect |-> Op("POST", <<"docker", "ssh", "disconnect">>, "json", "object"),
   connect_totp |-> Op("POST", <<"docker", "ssh", "connect-totp">>, "json", "object"),
   connect_warpgate |-> Op("POST", <<"docker", "ssh", "connect-warpgate">>, "json", "object"),
   keepalive |-> Op("POST", <<"docker", "ssh", "keepalive">>, "json", "object"),
   get_status |-> Op("GET", <<"docker", "ssh", "status">>, "query", "object"),
   validate_session |-> Op("GET", <<"docker", "validate", ":session_id">>, "none", "object"),
   connect |-> Op("POST", <<"docker", "ssh", "connect">>, "json", "object")]

FileContents ==
  [execute_file |-> Op("POST", <<"ssh", "file_manager", "ssh", "executeFile">>, "json", "object"),
   change_permissions |-> Op("POST", <<"ssh", "file_manager", "ssh", "changePermissions">>, "json", "object"),
   copy_item |-> Op("POST", <<"ssh", "file_manager", "ssh", "copyItem">>, "json", "object"),
   resolve_path |-> Op("GET", <<"ssh", "file_manager", "ssh", "resolvePath">>, "query", "object"),
   read_file |-> Op("GET", <<"ssh", "file_manager", "ssh", "readFile">>, "query", "object"),
   write_file |-> Op("POST", <<"ssh", "file_manager", "ssh", "writeFile">>, "json", "object"),
   identify_symlink |-> Op("GET", <<"ssh", "file_manager", "ssh", "identifySymlink">>, "query", "object")]

FileTransfersInline ==
  [upload_file |-> Op("POST", <<"ssh", "file_manager", "ssh", "uploadFile">>, "json", "object"),
   download_file |-> Op("POST", <<"ssh", "file_manager", "ssh", "downloadFile">>, "json", "object")]

FileSession ==
  [connect_totp |-> Op("POST", <<"ssh", "file_manager", "ssh", "connect-totp">>, "json", "object"),
   connect_warpgate |-> Op("POST", <<"ssh", "file_manager", "ssh", "connect-warpgate">>, "json", "object"),
   disconnect |-> Op("POST", <<"ssh", "file_manager", "ssh", "disconnect">>, "json", "object"),
   sudo_password |-> Op("POST", <<"ssh", "file_manager", "sudo-password">>, "json", "object"),
   status |-> Op("GET", <<"ssh", "file_manager", "ssh", "status">>, "query", "object"),
   keepalive |-> Op("POST", <<"ssh", "file_manager", "ssh", "keepalive">>, "json", "object")]

FileArchives ==
  [extract_archive |-> Op("POST", <<"ssh", "file_manager", "ssh", "extractArchive">>, "json", "object"),
   compress_files |-> Op("POST", <<"ssh", "file_manager", "ssh", "compressFiles">>, "json", "object"),
   transfer_method_preview |-> Op("POST", <<"ssh", "file_manager", "ssh", "transferMethodPreview">>, "json", "object")]

FileTransfers ==
  [transfer_to_host |-> Op("POST", <<"ssh", "file_manager", "ssh", "transferToHost">>, "json", "object"),
   list_active_transfers |-> Op("GET", <<"ssh", "file_manager", "ssh", "activeTransfers">>, "none", "object"),
   get_transfer_status |-> Op("GET", <<"ssh", "file_manager", "ssh", "transferStatus", ":transfer_id">>, "none", "object"),
   cancel_transfer |-> Op("POST", <<"ssh", "file_manager", "ssh", "transferCancel", ":transfer_id">>, "none", "object"),
   cleanup_transfer |-> Op("POST", <<"ssh", "file_manager", "ssh", "transferCleanup", ":transfer_id">>, "none", "object"),
   retry_transfer |-> Op("POST", <<"ssh", "file_manager", "ssh", "transferRetry", ":transfer_id">>, "none", "object")]

FileBrowsing ==
  [connect |-> Op("POST", <<"ssh", "file_manager", "ssh", "connect">>, "json", "object"),
   list_files |-> Op("GET", <<"ssh", "file_manager", "ssh", "listFiles">>, "query", "object")]

FileTrash ==
  [delete_trash_item |-> Op("DELETE", <<"ssh", "file_manager", "ssh", "trash", ":id">>, "none", "object"),
   empty_trash |-> Op("DELETE", <<"ssh", "file_manager", "ssh", "trash">>, "none", "object"),
   list_trash |-> Op("GET", <<"ssh", "file_manager", "ssh", "trash">>, "none", "object"),
   set_trash_retention |-> Op("PUT", <<"ssh", "file_manager", "ssh", "trash-retention">>, "json", "object")]

FileItems ==
  [create_file |-> Op("POST", <<"ssh", "file_manager", "ssh", "createFile">>, "json", "object"),
   create_folder |-> Op("POST", <<"ssh", "file_manager", "ssh", "createFolder">>, "json", "object"),
   delete_item |-> Op("DELETE", <<"ssh", "file_manager", "ssh", "deleteItem">>, "json", "object"),
   rename_item |-> Op("PUT", <<"ssh", "file_manager", "ssh", "renameItem">>, "json", "object"),
   restore_trash_item |-> Op("POST", <<"ssh", "file_manager", "ssh", "trash", ":id", "restore">>, "none", "object"),
   move_item |-> Op("PUT", <<"ssh", "file_manager", "ssh", "moveItem">>, "json", "object")]

GuacamoleMethods ==
  [connect_host |-> Op("POST", <<"guacamole", "connect-host", ":host_id">>, "json", "object"),
   get_status |-> Op("GET", <<"guacamole", "status">>, "none", "object"),
   create_token |-> Op("POST", <<"guacamole", "token">>, "json", "object"),
   get_connection |-> Op("GET", <<"guacamole", "connection", ":connect_id">>, "none", "object")]

SessionLogsMethods ==
  [list |-> Op("GET", <<"session_logs">>, "none", "object"),
   get_retention |-> Op("GET", <<"session_logs", "retention">>, "none", "object"),
   set_retention |-> Op("PUT", <<"session_logs", "retention">>, "json", "object"),
   retrieve |-> Op("GET", <<"session_logs", ":id">>, "none", "object"),
   delete |-> Op("DELETE", <<"session_logs", ":id">>, "none", "object"),
   get_content |-> Op("GET", <<"session_logs", ":id", "content">>, "none", "stream")]

SessionSharingMethods ==
  [create |-> Op("POST", <<"session-sharing", "create">>, "json", "object"),
   get_active_for_host |-> Op("GET", <<"session-sharing", "host", ":host_id", "active">>, "none", "object"),
   delete |-> Op("DELETE", <<"session-sharing", ":share_id">>, "none", "object"),
   resolve |-> Op("GET", <<"session-sharing", "resolve", ":link_token">>, "none", "object"),
   end |-> Op("POST", <<"session-sharing", ":share_id", "end">>, "none", "object")]

TerminalMethods ==
  [image_upload |-> Op("POST", <<"terminal", "image-upload">>, "json", "object"),
   log_command |-> Op("POST", <<"terminal", "command_history">>, "json", "object"),
   list_command_history |-> Op("GET", <<"terminal", "command_history", ":host_id">>, "none", "list"),
   clear_command_history |-> Op("DELETE", <<"terminal", "command_history", ":host_id">>, "none", "object"),
   delete_command_history_entries |-> Op("POST", <<"terminal", "command_history", "delete">>, "json", "object"),
   get_session_settings |-> Op("GET", <<"terminal", "session_settings">>, "none", "object"),
   set_session_settings |-> Op("POST", <<"terminal", "session_settings">>, "json", "object")]

TmuxSessions ==
  [get_overview |-> Op("GET", <<"tmux_monitor", ":host_id", "overview">>, "none", "object"),
   focus |-> Op("POST", <<"tmux_monitor", ":host_id", "focus">>, "json", "object"),
   list_sessions |-> Op("POST", <<"tmux_monitor", ":host_id", "sessions">>, "json", "object"),
   list_windows |-> Op("POST", <<"tmux_monitor", ":host_id", "windows">>, "json", "object"),
   rename |-> Op("POST", <<"tmux_monitor", ":host_id", "rename">>, "json", "object")]

TmuxPanes ==
  [kill |-> Op("POST", <<"tmux_monitor", ":host_id", "kill">>, "json", "object"),
   kill_window |-> Op("POST", <<"tmux_monitor", ":host_id", "kill-window">>, "json", "object"),
   kill_pane |-> Op("POST", <<"tmux_monitor", ":host_id", "kill-pane">>, "json", "object"),
   split |-> Op("POST", <<"tmux_monitor", ":host_id", "split">>, "json", "object"),
   search |-> Op("GET", <<"tmux_monitor", ":host_id", "search">>, "query", "object"),
   metrics |-> Op("GET", <<"tmux_monitor", ":host_id", "metrics">>, "none", "object"),
   set_tags |-> Op("PUT", <<"tmux_monitor", ":host_id", "tags">>, "json", "object")]

TunnelMethods ==
  [get_status_by_name |-> Op("GET", <<"ssh", "tunnel", "status", ":tunnel_name">>, "none", "object"),
   connect |-> Op("POST", <<"ssh", "tunnel", "connect">>, "json", "object"),
   disconnect |-> Op("POST", <<"ssh", "tunnel", "disconnect">>, "json", "object"),
   get_status |-> Op("GET", <<"ssh", "tunnel", "status">>, "none", "object"),
   cancel |-> Op("POST", <<"ssh", "tunnel", "cancel">>, "json", "object"),
   watch_status |-> Op("GET", <<"ssh", "tunnel", "status", "stream">>, "none", "events"),
   open_web_endpoint |-> Op("POST", <<"ssh", "tunnel", "web-endpoint", "open">>, "json", "object")]

-----------------------------------------------------------------------------
(***************************************************************************)
(* The methods whose parameter types (types/docker.py,                     *)
(* types/file_manager.py) declare a sessionId field.  Those with a         *)
(* :session_id in their path take it as an argument instead.               *)
(***************************************************************************)
DockerSessionFields ==
  {"disconnect", "connect_totp", "connect_warpgate", "keepalive", "get_status", "connect"}

FileSessionFields ==
  {"execute_file", "change_permissions", "copy_item", "resolve_path", "read_file",
   "write_file", "identify_symlink", "upload_file", "download_file", "connect_totp",
   "connect_warpgate", "disconnect", "sudo_password", "status", "keepalive",
   "extract_archive", "compress_files", "connect"}

FileItemSessionFields ==
  {"list_files", "create_file", "create_folder", "delete_item", "rename_item", "move_item"}

=============================================================================
