----------------------------- MODULE MCStartup -----------------------------
(***************************************************************************)
(* Up to three backends of both types, in both orders, that offer the same *)
(* name, a name spelled like a prefixed one, a name twice, or nothing.     *)
(***************************************************************************)
EXTENDS Startup

Http(n) == [name |-> n, type |-> "Http", url |-> "some", command |-> "none"]
Stdio(n) == [name |-> n, type |-> "Stdio", url |-> "none", command |-> "some"]

MCConfigs ==
  {<<>>,
   <<Http("web"), Stdio("files"), Http("db")>>,
   <<Stdio("files"), Http("web"), Stdio("db")>>,
   <<Http("web"), Stdio("web")>>,
   <<[Http("web") EXCEPT !.url = "none"]>>, <<[Stdio("files") EXCEPT !.command = "none"]>>}

MCQuery == <<"query">>
MCOffers ==
  {<<>>, <<MCQuery>>, <<MCQuery, <<"db", "query">>>>, <<MCQuery, MCQuery>>, <<<<"fetch">>>>}
MCPlainOffers == {<<>>, <<MCQuery>>, <<<<"fetch">>>>}
MCBadSchemas == {<<"fetch">>}
=============================================================================
