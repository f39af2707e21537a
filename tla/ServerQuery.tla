----------------------------- MODULE ServerQuery -----------------------------
(***************************************************************************)
(* The A2S_INFO query of src/cs2_tools/query_server.py against a server    *)
(* whose players come and go, over UDP: a datagram may be lost, delayed    *)
(* and delivered twice.                                                    *)
(***************************************************************************)
EXTENDS ServerProcess

CONSTANT MaxInFlight    \* datagrams under way at most (bounds the model)

ASSUME ServerAssumption ==
    /\ IsFiniteSet(People)
    /\ {MaxBots, MaxStarts, MaxInFlight} \subseteq Nat
    /\ MaxPods \in Nat \ {0}

VARIABLES
    query,      \* who waits, and for the answer to what: "request" or "answer"
    wire        \* the datagrams to and from the socket of this query

queryVars == <<query, wire>>

NoQuery == [by |-> "nobody", stage |-> "request"]

QueryInit == query = NoQuery /\ wire = {}

Packet(kind) == [kind |-> kind]

\* Name, map and slots are those of the release it runs.  The two last fields
\* are not in the datagram; they say which container sent it.
Info == [kind |-> "info",
         players |-> Cardinality(humans) + bots, bots |-> bots,
         shows |-> release,
         pod |-> pod, starts |-> starts]

Infos == {packet \in wire : packet.kind = "info"}

-----------------------------------------------------------------------------
(* query_a2s_info *)

\* A socket of its own for every query, and the request.
Ask(tool) ==
    /\ query = NoQuery
    /\ query' = [by |-> tool, stage |-> "request"]
    /\ wire' = {Packet("request")}

\* The socket is closed; what comes later reaches nobody.
Close == query' = NoQuery /\ wire' = {}

\* The first answer is a challenge: the request is sent again with it.
AnswerChallenge ==
    /\ query # NoQuery /\ query.stage = "request"
    /\ Packet("challenge") \in wire
    /\ query' = [query EXCEPT !.stage = "answer"]
    /\ \E rest \in {wire, wire \ {Packet("challenge")}} : wire' = rest \cup {Packet("answer")}

\* parse_a2s_info, of the first answer or of the one after the challenge.
Receives(info) == info \in Infos /\ Close

\* A second challenge is no answer: QueryError.
MeetsChallenge ==
    /\ query.stage = "answer" /\ Packet("challenge") \in wire
    /\ Close

\* Mutant: only the first recvfrom has a timeout.
TimesOut_First == query.stage = "request" /\ Close

\* sock.settimeout, of every recvfrom.
TimesOut == Close

\* Mutant: an exception leaves the socket open.
QueryFails_Open == query # NoQuery /\ UNCHANGED queryVars

\* The exceptions that no tool handles.
QueryFails == MeetsChallenge \/ TimesOut

-----------------------------------------------------------------------------
(* The game server's side *)

Requests == wire \cap {Packet("request"), Packet("answer")}

\* It answers a request with a challenge or with its info, and may get it twice.
Replies ==
    /\ game = "serving"
    /\ Cardinality(wire) < MaxInFlight
    /\ \E r \in Requests : \E rest \in {wire, wire \ {r}} :
        \E reply \in {Packet("challenge"), Info} : wire' = rest \cup {reply}
    /\ UNCHANGED query

-----------------------------------------------------------------------------
(* disruption_guard.py *)

\* max(players - bots, 0)
HumanPlayers(info) == IF info.players > info.bots THEN info.players - info.bots ELSE 0

\* evaluate_disruption_guard
DisruptionAllowed(info, allow_active_players) ==
    HumanPlayers(info) = 0 \/ allow_active_players
=============================================================================
