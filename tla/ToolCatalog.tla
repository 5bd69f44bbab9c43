---------------------------- MODULE ToolCatalog ----------------------------
(***************************************************************************)
(* ToolCatalog (src/catalog/mod.rs) and SchemaCache (src/validation/mod.rs) *)
(* as operators on maps keyed by tool name.                                *)
(*                                                                         *)
(* A name is a sequence of parts: a tool's own name, here <<"query">>, and *)
(* the one a prefix makes of it, <<"files", "query">> for                  *)
(* "files__query".  A backend may offer a tool spelled like a prefixed     *)
(* one.  A tool is known by the configuration entry it came from and the   *)
(* name it has there.                                                      *)
(***************************************************************************)
EXTENDS HashMaps, Naturals, Sequences

\* Faulty variant of RegisterTool: the last one to come takes the name.
RegisterToolLastWins(tools, backend, tool) ==
  Insert(tools, tool.name, [name |-> tool.name, tool |-> tool, backend |-> backend])

\* One round of register_backend's loop: the key, the definition's name
\* field, and the owner.
RegisterTool(tools, backend, tool) ==
  LET name == IF tool.name \in DOMAIN tools THEN <<backend>> \o tool.name ELSE tool.name
  IN  Insert(tools, name, [name |-> name, tool |-> tool, backend |-> backend])

\* after[n]: the map after n rounds.
RegisterBackend(tools, backend, offered) ==
  LET after[n \in 0..Len(offered)] ==
        IF n = 0 THEN tools ELSE RegisterTool(after[n - 1], backend, offered[n])
  IN  after[Len(offered)]

\* create_stub_catalog; its tools come from no configuration entry.
StubTools(names) == [i \in DOMAIN names |-> [from |-> 0, name |-> <<names[i]>>]]

StubCatalog ==
  RegisterBackend(
    RegisterBackend(EmptyMap, "stub-n8n", StubTools(<<"list_workflows", "execute_workflow">>)),
    "stub-sqlite", StubTools(<<"read_query", "write_query">>))

\* all_tools.
AllTools(tools) == {tools[n] : n \in DOMAIN tools}

\* SchemaCache::from_catalog: a validator per name among the definitions
\* whose schema compiles; were two to share a name, the iteration order of
\* the map would decide.  bad: the tools whose schema does not compile.
FromCatalog(tools, bad) ==
  LET good == {e \in AllTools(tools) : e.tool.name \notin bad}
  IN  {v \in [{e.name : e \in good} -> good] : \A n \in DOMAIN v : v[n].name = n}
=============================================================================
