------------------------------ MODULE MCSdkGen ------------------------------
(***************************************************************************)
(* The operations and resource maps TLC uses for SdkGen: one operation of  *)
(* each kind that the generator tells apart, those no present map has      *)
(* included, alone and in modules of two.                                  *)
(***************************************************************************)
EXTENDS SdkGen

Described(verb, path, query, body, fields, response) ==
  [verb |-> verb, path |-> path, service |-> "database", query |-> query, body |-> body,
   fields |-> fields, response |-> response]

Hosts == <<"hosts">>
HostId == <<"hosts", ":id">>

MCOperations ==
  [list |-> Described("GET", Hosts, {}, "none", {}, "items"),
   create |-> Described("POST", Hosts, {}, "json", {"name"}, "object"),
   retrieve |-> Described("GET", HostId, {}, "none", {}, "object"),
   key |-> Described("GET", <<"hosts", ":id", "keys", ":key_id">>, {}, "none", {}, "object"),
   update |-> Described("PUT", HostId, {}, "json", {"id", "name"}, "none"),
   delete |-> Described("DELETE", HostId, {}, "none", {}, "204"),
   search |-> Described("GET", <<"hosts", "search">>, {"name"}, "none", {}, "list"),
   filter |-> Described("POST", <<"hosts", "open-tabs">>, {"page"}, "json", {"name"}, "object"),
   both |-> Described("POST", <<"hosts", "both">>, {"name"}, "json", {"name", "page"}, "none"),
   raw |-> Described("POST", <<"hosts", "raw">>, {}, "opaque", {}, "variants"),
   raw_page |-> Described("POST", <<"hosts", "raw">>, {"page"}, "opaque", {}, "variants"),
   imports |-> Described("POST", <<"hosts", "import">>, {}, "files", {}, "none"),
   push |-> Described("POST", <<"hosts", ":id", "push">>, {}, "form", {"name"}, "object"),
   stream_in |-> Described("POST", <<"hosts", "stream">>, {}, "multipart", {}, "none"),
   export |-> Described("GET", <<"hosts", "export">>, {"page"}, "none", {}, "text"),
   providers |-> Described("GET", <<"providers">>, {}, "none", {}, "alike"),
   from |-> Described("GET", <<"hosts", "range">>, {"from"}, "none", {}, "object"),
   options |-> Described("POST", <<"hosts", "options">>, {}, "json", {"options"}, "object")]

MCSnakeCase ==
  [s \in {"hosts", "keys", "search", "both", "raw", "import", "push", "stream", "export",
          "providers", "range", "options"} |-> s]
    @@ (":id" :> "id") @@ (":key_id" :> "key_id") @@ ("open-tabs" :> "open_tabs")

Entry(id) == [id |-> id, method |-> NoOverride, sse |-> FALSE]
Named(id, name) == [id |-> id, method |-> name, sse |-> FALSE]
Events(id) == [id |-> id, method |-> NoOverride, sse |-> TRUE]
Module(name, entries) == [name |-> name, ops |-> entries]

MCCommitted ==
  {<<Module("hosts", <<Entry("create"), Entry("retrieve")>>), Module("sso", <<Entry("list")>>)>>}

MCMaps ==
  MCCommitted \cup
  {<<Module("hosts", <<Entry(id)>>)>> : id \in DOMAIN MCOperations} \cup
  {<<>>,
   <<Module("hosts", <<>>)>>,
   <<Module("hosts", <<Named("imports", "import_file")>>)>>,
   <<Module("hosts", <<Entry("gone")>>)>>,
   <<Module("hosts", <<Events("retrieve")>>)>>,
   <<Module("hosts", <<Events("export")>>)>>,
   <<Module("hosts", <<Entry("retrieve"), Entry("key")>>)>>,
   <<Module("hosts", <<Entry("retrieve"), Named("key", "retrieve_key")>>)>>,
   <<Module("sso", <<Entry("filter"), Entry("search")>>), Module("hosts", <<Entry("stream_in")>>)>>,
   <<Module("sso", <<Entry("update")>>), Module("hosts", <<Entry("list"), Entry("gone")>>)>>,
   <<Module("hosts", <<Entry("push")>>), Module("keys", <<Entry("imports")>>)>>}

MCLiveCalls == {<<"hosts", "retrieve">>, <<"hosts", "hosts">>, <<"sso", "create">>}

=============================================================================
