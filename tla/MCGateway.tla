----------------------------- MODULE MCGateway -----------------------------
(***************************************************************************)
(* A gateway with two connected backends and one that never came up, and a *)
(* caller who may execute everything but one denied tool.                  *)
(***************************************************************************)
EXTENDS GatewayProperties, TLC

MCTools == {"search", "fetch", "drop", "stub", "nosuch"}
MCBackends == {"web", "files", "down"}
MCRoute == "search" :> "web" @@ "fetch" :> "files" @@ "drop" :> "web" @@ "stub" :> "down"
MCRegistered == {"web", "files"}
MCRoles == "dev" :> [permissions |-> {"*"}, denied_tools |-> {"drop"}]

Hot(tools, backends, rpm) ==
  [disabled_tools |-> tools, disabled_backends |-> backends,
   rpm |-> [t \in MCTools |-> rpm]]

MCTight == Hot({}, {}, 1)
MCKilled == Hot({"fetch"}, {"web"}, 2)

MCReloads == {MCKilled}

MCThreshold == [b \in MCRegistered |-> 1]
MCRecovery == [b \in MCRegistered |-> 1]

L(method, kind, t, args) == [method |-> method, kind |-> kind, tool |-> t, args |-> args]
Call(t, args) == L("tools/call", "request", t, args)
Plain(method, kind) == L(method, kind, Missing, "none")

Initialize == L("initialize", "request", Missing, "good")
Initialized == Plain("notifications/initialized", "notification")

List == Plain("tools/list", "request")

\* Every kind of line, before, in the middle of and after a handshake, and
\* calls that take every path through the checks; a second search finds the
\* circuit, the limiter and the ids as the first one left them.
MCScript ==
  LET handshake == {Initialize, Initialized}
      calls == {Call("search", "good"), Call("fetch", "bad"), Call("drop", "good"),
                Call("stub", "none"), Call("nosuch", "none"), Call(Missing, "none"),
                L("tools/call", "notification", "fetch", "none")}
  IN  <<handshake \cup {L("initialize", "request", Missing, "bad"),
                        L("initialize", "notification", Missing, "good"),
                        Plain("unparsable", "notification"), Call("fetch", "good")},
        handshake \cup {Plain("notifications/initialized", "request"),
                        Plain("ping", "request"), List, Call("fetch", "good")},
        handshake \cup calls \cup {List, Plain("tools/list", "notification"),
                                   Plain("ping", "notification"),
                                   Plain("other", "request")},
        {Call("search", "good"), Call("fetch", "none")}>>
=============================================================================
