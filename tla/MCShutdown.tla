----------------------------- MODULE MCShutdown -----------------------------
(***************************************************************************)
(* The gateway of MCGateway and its end.  The client initialises, makes a  *)
(* call that is served and one that is killed, and may leave at any        *)
(* moment.  The call that is killed keeps its read guard while it waits    *)
(* for room in the outbound channel, and the reload that would let it pass *)
(* may be waiting meanwhile.                                               *)
(***************************************************************************)
EXTENDS MCGateway, Shutdown

MCFetchKilled == Hot({"fetch"}, {}, 1)
MCRestored == {MCTight}

MCShortScript ==
  <<{Initialize}, {Initialized}, {Call("search", "good")}, {Call("fetch", "good")}>>
=============================================================================
