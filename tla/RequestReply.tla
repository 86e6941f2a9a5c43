----------------------------- MODULE RequestReply -----------------------------
(***************************************************************************)
(* What a client of a request and reply service may rely on, whatever the  *)
(* network and the servers do: it has one request outstanding, reports an  *)
(* answer only to that request, only once, and only if a server answered   *)
(* it; or it gives up.                                                     *)
(***************************************************************************)
CONSTANTS Clients, Requests, None

VARIABLES
  outstanding,  \* the request a client waits for
  asked,        \* requests ever sent
  served,       \* requests a server has put an answer to
  answered      \* requests whose answer the client has reported

replyVars == <<outstanding, asked, served, answered>>

ReplyInit ==
  /\ outstanding = [p \in Clients |-> None]
  /\ asked = {}
  /\ served = {}
  /\ answered = {}

Ask(p, r) ==
  /\ outstanding[p] = None
  /\ r \notin asked
  /\ outstanding' = [outstanding EXCEPT ![p] = r]
  /\ asked' = asked \cup {r}
  /\ UNCHANGED <<served, answered>>

\* A server may answer a request that nobody waits for any more.
Serve(r) ==
  /\ r \in asked
  /\ served' = served \cup {r}
  /\ UNCHANGED <<outstanding, asked, answered>>

Report(p) ==
  /\ outstanding[p] \in served
  /\ outstanding' = [outstanding EXCEPT ![p] = None]
  /\ answered' = answered \cup {outstanding[p]}
  /\ UNCHANGED <<asked, served>>

GiveUp(p) ==
  /\ outstanding' = [outstanding EXCEPT ![p] = None]
  /\ UNCHANGED <<asked, served, answered>>

ReplyNext ==
  \/ \E p \in Clients, r \in Requests : Ask(p, r)
  \/ \E r \in Requests : Serve(r)
  \/ \E p \in Clients : Report(p) \/ GiveUp(p)

ReplySpec == ReplyInit /\ [][ReplyNext]_replyVars
=============================================================================
