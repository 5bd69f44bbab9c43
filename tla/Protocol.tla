------------------------------ MODULE Protocol ------------------------------
(***************************************************************************)
(* The JSON-RPC lines a client sends and the MCP lifecycle they drive      *)
(* (src/protocol/jsonrpc.rs, src/protocol/mcp.rs).                         *)
(*                                                                         *)
(* A line is abstracted to what the dispatch loop tells apart: its method, *)
(* whether it carries an id, the tool it names and whether its arguments   *)
(* fit.  "unparsable" is any line serde_json cannot turn into a request,   *)
(* "other" any method the gateway does not know.                           *)
(***************************************************************************)
EXTENDS Naturals

CONSTANT Tools            \* the tool names clients use

\* A tools/call whose params carry no name.
Missing == "(missing)"

ASSUME MissingAssumption == Missing \notin Tools

Method ==
  {"unparsable", "initialize", "notifications/initialized", "tools/list",
   "tools/call", "ping", "other"}

Line ==
  [method : Method, kind : {"request", "notification"},
   tool : Tools \cup {Missing}, args : {"none", "good", "bad"}]

\* A line as the gateway reads it; sn counts the lines of the session and
\* stands for the id of a line that has one.
Msg == [sn : Nat, line : Line]

\* JsonRpcId::Null
NullId == 0

\* request.id.clone().unwrap_or(JsonRpcId::Null); an unparsable line has no
\* id that could be read.
ClientId(m) ==
  IF m.line.kind = "request" /\ m.line.method # "unparsable" THEN m.sn ELSE NullId

McpState == {"Created", "Initializing", "Operational", "Closed"}

\* McpState::can_accept_method
CanAcceptMethod(state, method) ==
  CASE state = "Created"      -> method \in {"initialize", "ping"}
    [] state = "Initializing" -> method \in {"notifications/initialized", "ping"}
    [] state = "Operational"  -> TRUE
    [] OTHER                  -> FALSE
=============================================================================
