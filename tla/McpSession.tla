----------------------------- MODULE McpSession -----------------------------
(***************************************************************************)
(* What a client is promised by its MCP session, whatever governs the tool *)
(* calls behind it: lines are served one at a time in the order they       *)
(* arrive, a request is answered once and with its own id, and nothing is  *)
(* answered that was not sent.                                             *)
(***************************************************************************)
EXTENDS Protocol, Sequences

VARIABLES
  arrived,   \* lines received so far
  inbox,     \* lines received and not served yet
  answers,   \* [to, id] of every answer on its way to the client, in order
  link,      \* "open", or "deaf" once the client has stopped reading
  session    \* "up" or "down"

svars == <<arrived, inbox, answers, link, session>>

SessionInit ==
  /\ arrived = 0
  /\ inbox = <<>>
  /\ answers = <<>>
  /\ link = "open"
  /\ session = "up"

Arrive ==
  /\ session = "up"
  /\ arrived' = arrived + 1
  /\ \E line \in Line : inbox' = Append(inbox, [sn |-> arrived + 1, line |-> line])
  /\ UNCHANGED <<answers, link, session>>

\* Lines that must be answered: what cannot be parsed, and every request.
\* notifications/initialized is exempt even if the client gave it an id.
MustAnswer(m) ==
  \/ m.line.method = "unparsable"
  \/ m.line.kind = "request" /\ m.line.method # "notifications/initialized"

\* Lines that must not be answered: notifications, except that initialize
\* is answered even without an id.
MustIgnore(m) ==
  m.line.kind = "notification" /\ m.line.method \notin {"unparsable", "initialize"}

ServeAnswer ==
  /\ link = "open"
  /\ inbox # <<>>
  /\ ~MustIgnore(Head(inbox))
  /\ answers' = Append(answers, [to |-> Head(inbox).sn, id |-> ClientId(Head(inbox))])
  /\ inbox' = Tail(inbox)
  /\ UNCHANGED <<arrived, link, session>>

ServeSilently ==
  /\ inbox # <<>>
  /\ link = "open" => ~MustAnswer(Head(inbox))
  /\ inbox' = Tail(inbox)
  /\ UNCHANGED <<arrived, answers, link, session>>

\* The client stops reading; answers not written yet are lost.
GoDeaf ==
  /\ link = "open"
  /\ link' = "deaf"
  /\ \E n \in 0..Len(answers) : answers' = SubSeq(answers, 1, n)
  /\ UNCHANGED <<arrived, inbox, session>>

\* The session ends; lines not served are dropped.
ShutDown ==
  /\ session = "up"
  /\ session' = "down"
  /\ inbox' = <<>>
  /\ UNCHANGED <<arrived, answers, link>>

SessionNext ==
  \/ Arrive
  \/ ServeAnswer
  \/ ServeSilently
  \/ GoDeaf
  \/ ShutDown

SessionSpec == SessionInit /\ [][SessionNext]_svars
=============================================================================
