-------------------------------- MODULE Rbac --------------------------------
(***************************************************************************)
(* is_tool_allowed (src/auth/rbac.rs).  roles maps a role to its           *)
(* [permissions, denied_tools].                                            *)
(***************************************************************************)

Permission == {"Read", "Execute"}

required_permission_str == [Read |-> "tools.read", Execute |-> "tools.execute"]

\* Faulty variant of IsToolAllowed: a wildcard overrides the deny list.
IsToolAllowedWildcardFirst(role, tool, permission, roles) ==
  /\ role \in DOMAIN roles
  /\ \/ "*" \in roles[role].permissions
     \/ /\ tool \notin roles[role].denied_tools
        /\ required_permission_str[permission] \in roles[role].permissions

IsToolAllowed(role, tool, permission, roles) ==
  /\ role \in DOMAIN roles
  /\ tool \notin roles[role].denied_tools
  /\ \/ "*" \in roles[role].permissions
     \/ required_permission_str[permission] \in roles[role].permissions
     \/ permission = "Read" /\ "tools.execute" \in roles[role].permissions
=============================================================================
