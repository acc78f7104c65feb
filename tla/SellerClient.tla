---------------------------- MODULE SellerClient ----------------------------
(***************************************************************************)
(* UnifiedClient: one object several coroutines call tools through, over   *)
(* MCP (a session opened on first use) or A2A (a conversation).  connect,  *)
(* call_tool, send_message and close all await between their steps.        *)
(***************************************************************************)
EXTENDS Naturals, FiniteSets

CONSTANTS
    Coroutines,     \* the coroutines that share the client
    Contexts,       \* A2A context ids the seller issues
    NoContext,
    MaxOpenings,    \* bound on the IABMCPClient and A2AClient objects created
    MaxToolCalls    \* bound on the tool calls answered

ASSUME SellerClientAssumption ==
    NoContext \notin Contexts /\ MaxOpenings \in Nat /\ MaxToolCalls \in Nat

VARIABLES
    mcp,        \* UnifiedClient._mcp_client: 0 is None
    opening,    \* how far each IABMCPClient has got
    transport,  \* the clients whose streamable-HTTP transport is open
    session,    \* the clients whose _session is set
    a2a,        \* UnifiedClient._a2a_client, and the number of A2AClients created
    context,    \* the live A2AClient's _context_id, the conversations the seller opened
    coroutine,  \* what each coroutine is suspended at
    outcome,    \* how the tool calls ended
    crossed     \* whether a close ran into another coroutine's connect or close

mcpVars == <<mcp, opening, transport, session>>
a2aVars == <<a2a, context>>
clientVars == <<mcpVars, a2aVars, coroutine, outcome, crossed>>

Clients == 1 .. MaxOpenings
Idle == [at |-> "idle", on |-> 0]

ClientInit ==
    /\ mcp = 0
    /\ opening = [k \in Clients |-> "unused"]
    /\ transport = {} /\ session = {}
    /\ a2a = [id |-> 0, made |-> 0]
    /\ context = [id |-> NoContext, opened |-> {}]
    /\ coroutine = [c \in Coroutines |-> Idle]
    /\ outcome = [answered |-> 0, refused |-> 0, failed |-> 0]
    /\ crossed = FALSE

Answered(how) == outcome' = [outcome EXCEPT ![how] = @ + 1]
MayCall == outcome.answered + outcome.refused + outcome.failed < MaxToolCalls
Goto(c, at, k) == coroutine' = [coroutine EXCEPT ![c] = [at |-> at, on |-> k]]
Return(c) == Goto(c, "idle", 0)

\* connect registers the client before it awaits the connection, so whoever comes next
\* sees a client and does not connect.  Mutant: it is registered when it is connected.
RegisteredLate(k) == 0
Registered(k) == k

\* UnifiedClient.connect, as _ensure_protocol calls it when there is no client.
Connect(c) ==
    /\ coroutine[c] = Idle /\ mcp = 0 /\ MayCall
    /\ \E k \in Clients :
          /\ opening[k] = "unused" /\ \A j \in Clients : j < k => opening[j] # "unused"
          /\ mcp' = Registered(k)
          /\ opening' = [opening EXCEPT ![k] = "transport"]
          /\ Goto(c, "connecting", k)
    /\ UNCHANGED <<transport, session, a2aVars, outcome, crossed>>

\* _ensure_protocol: a client is there, connected or not.
EnsureProtocol(c) ==
    /\ coroutine[c] = Idle /\ mcp # 0 /\ MayCall
    /\ Goto(c, "calling", mcp)
    /\ UNCHANGED <<mcpVars, a2aVars, outcome, crossed>>

\* IABMCPClient.connect, one await after the other; a step that fails raises out of
\* call_tool and leaves everything that is set.
Connected(c) ==
    LET k == coroutine[c].on IN
    /\ coroutine[c].at = "connecting"
    /\ \/ /\ opening[k] = "transport"
          /\ opening' = [opening EXCEPT ![k] = "session"]
          /\ transport' = transport \cup {k} /\ session' = session \cup {k}
          /\ UNCHANGED <<coroutine, outcome>>
       \/ /\ opening[k] = "session"
          /\ opening' = [opening EXCEPT ![k] = "ready"]
          /\ Goto(c, "calling", k)
          /\ UNCHANGED <<transport, session, outcome>>
       \/ /\ opening[k] \in {"transport", "session"}
          /\ opening' = [opening EXCEPT ![k] = "failed"]
          /\ Return(c) /\ Answered("failed")
          /\ UNCHANGED <<transport, session>>
    /\ UNCHANGED <<mcp, a2aVars, crossed>>

\* IABMCPClient.call_tool: without a session "Not connected"; a session that has not been
\* initialized fails the call, any other answers or fails it.
CallOutcomes(k) ==
    IF k \notin session THEN {"refused"}
    ELSE IF opening[k] = "ready" THEN {"answered", "failed"} ELSE {"failed"}

\* UnifiedClient.call_tool: _mcp_client is read again after the await, and may be None.
CallTool(c) ==
    /\ coroutine[c].at = "calling"
    /\ \E how \in IF mcp = 0 THEN {"refused"} ELSE CallOutcomes(mcp) : Answered(how)
    /\ Return(c)
    /\ UNCHANGED <<mcpVars, a2aVars, crossed>>

\* UnifiedClient.close, with IABMCPClient.close: the session, the transport, the field;
\* then the A2A client.
CloseCrosses == \E d \in Coroutines :
    coroutine[d].at \in {"connecting", "closing session", "closing transport"}
Close(c) ==
    /\ coroutine[c] = Idle
    /\ \/ /\ mcp # 0 /\ Goto(c, "closing session", mcp)
          /\ crossed' = (crossed \/ CloseCrosses)
       \/ /\ mcp = 0 /\ a2a.id # 0 /\ Goto(c, "closing a2a", a2a.id)
          /\ UNCHANGED crossed
    /\ UNCHANGED <<mcpVars, a2aVars, outcome>>

SessionClosed(c) ==
    /\ coroutine[c].at = "closing session"
    /\ session' = session \ {coroutine[c].on}
    /\ Goto(c, "closing transport", coroutine[c].on)
    /\ UNCHANGED <<mcp, opening, transport, a2aVars, outcome, crossed>>

TransportClosed(c) ==
    LET k == coroutine[c].on IN
    /\ coroutine[c].at = "closing transport"
    /\ transport' = transport \ {k}
    /\ mcp' = 0
    /\ opening' = [opening EXCEPT ![k] = IF @ \in {"ready", "failed"} THEN "closed" ELSE @]
    /\ IF a2a.id = 0 THEN Return(c) ELSE Goto(c, "closing a2a", a2a.id)
    /\ UNCHANGED <<session, a2aVars, outcome, crossed>>

A2AClosed(c) ==
    /\ coroutine[c].at = "closing a2a"
    /\ a2a' = [a2a EXCEPT !.id = 0] /\ context' = [context EXCEPT !.id = NoContext]
    /\ Return(c)
    /\ UNCHANGED <<mcpVars, outcome, crossed>>

\* A2AClient.send_message and send_raw: the context the message carries is read before the
\* await; a message without one opens a conversation at the seller.
SendMessage(c) ==
    /\ coroutine[c] = Idle /\ MayCall
    /\ IF a2a.id # 0 THEN UNCHANGED a2a
       ELSE a2a.made < MaxOpenings /\ a2a' = [id |-> a2a.made + 1, made |-> a2a.made + 1]
    /\ Goto(c, IF context.id = NoContext THEN "asking anew" ELSE "asking", a2a'.id)
    /\ UNCHANGED <<mcpVars, context, outcome, crossed>>

\* A2AResponse.from_result: the answer carries the conversation's context or a fresh one.
Kept(c, x) ==
    [id |-> IF a2a.id = coroutine[c].on THEN x ELSE context.id, opened |-> context.opened \cup {x}]
MessageAnswered(c) ==
    /\ \/ coroutine[c].at = "asking" /\ UNCHANGED context
       \/ /\ coroutine[c].at = "asking anew"
          /\ \E x \in Contexts \ context.opened : context' = Kept(c, x)
    /\ Return(c) /\ Answered("answered")
    /\ UNCHANGED <<mcpVars, a2a, crossed>>

\* The HTTP call fails or the answer is an error: send_message raises, send_raw hands the
\* error to its caller; neither keeps a context.
MessageFailed(c) ==
    /\ coroutine[c].at \in {"asking", "asking anew"}
    /\ Return(c) /\ Answered("failed")
    /\ UNCHANGED <<mcpVars, a2aVars, crossed>>

ClientNext ==
    \E c \in Coroutines :
        \/ Connect(c) \/ EnsureProtocol(c) \/ Connected(c) \/ CallTool(c)
        \/ Close(c) \/ SessionClosed(c) \/ TransportClosed(c) \/ A2AClosed(c)
        \/ SendMessage(c) \/ MessageAnswered(c) \/ MessageFailed(c)

ClientSpec == ClientInit /\ [][ClientNext]_clientVars

-----------------------------------------------------------------------------
\* Type invariant of the client.
ClientTypeOK ==
    /\ mcp \in 0 .. MaxOpenings
    /\ opening \in [Clients -> {"unused", "transport", "session", "ready", "failed", "closed"}]
    /\ transport \subseteq Clients /\ session \subseteq Clients
    /\ a2a \in [id : 0 .. MaxOpenings, made : 0 .. MaxOpenings]
    /\ coroutine \in [Coroutines ->
          [at : {"idle", "connecting", "calling", "closing session", "closing transport",
                 "closing a2a", "asking", "asking anew"},
           on : 0 .. MaxOpenings]]
    /\ outcome \in [answered : Nat, refused : Nat, failed : Nat]
    /\ context \in [id : Contexts \cup {NoContext}, opened : SUBSET Contexts]
    /\ crossed \in BOOLEAN

\* Clients nobody refers to any more and nobody is opening or closing.
Stranded(k) ==
    /\ k \in transport /\ k # mcp
    /\ \A c \in Coroutines :
          coroutine[c].at \in {"connecting", "calling", "closing session", "closing transport"}
              => coroutine[c].on # k

(* As long as close never runs into another coroutine's connect or close,  *)
(* all coroutines share one connection, and none is left open that nobody  *)
(* can close any more, whichever calls failed on the way.                  *)
OneConnection ==
    ~crossed => Cardinality(transport) <= 1 /\ \A k \in Clients : ~Stranded(k)

(* _ensure_protocol: "Ensure the specified protocol client is connected".  *)
(* No call that passed it is refused because the client is not.            *)
EnsuredIsConnected == outcome.refused = 0
=============================================================================
