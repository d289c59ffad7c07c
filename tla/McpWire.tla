------------------------------- MODULE McpWire -------------------------------
(***************************************************************************)
(* Messages to the MCP endpoint: MCP.post, _era, _modern, _dispatch,       *)
(* call_tool and the lists in _mcp.py, over both protocols it speaks, with *)
(* the topics App.topic offers as resources, and TestClient.mcp            *)
(* (testing.py) as a client that opens its session by itself and again     *)
(* after a 404.  What happens to a session's feeds is in McpSessions.      *)
(*                                                                         *)
(* A message is looked at, its session found, and then dispatched; between *)
(* the two the session may go.  Capabilities, topics and gates are as far  *)
(* modelled as their answers differ.                                       *)
(***************************************************************************)
EXTENDS Naturals, Sequences, FiniteSets

CONSTANTS
    Posts,         \* clients that send one message each
    Tester,        \* the test client's own requests
    Messages,      \* what the former may send
    Sids,          \* session ids, in the order they are given out
    Origins,       \* the App(cors=) to try
    None,
    Limit,         \* MAX_SESSIONS
    MaxCalls       \* bound: calls of TestClient.mcp

VARIABLES
    cors,          \* App(cors=): the origins it allows
    live,          \* Sessions._by_id
    given,         \* how many ids were given out
    post,          \* per client: its message, session and answer
    session,       \* TestClient._session
    step,          \* where TestClient.mcp is
    calls,         \* calls of TestClient.mcp so far
    topic,         \* one name: App._topics, App._resources
    \* History.
    refused,       \* an initialize of the test client was refused
    lost           \* the test client's session went after it was opened again

clientVars == <<session, step, calls, refused, lost>>
vars == <<cors, live, given, post, clientVars, topic>>

Clients == Posts \cup {Tester}

WireAssumption == Tester \notin Posts /\ Limit \in Nat \ {0} /\ MaxCalls \in Nat

-----------------------------------------------------------------------------
(* Answers                                                                 *)

(* An HTTP status, the JSON-RPC body if any, and whether it has the id.    *)
Answer(status, body, id) ==
    [status |-> status, body |-> body, id |-> id, sid |-> None, error |-> FALSE,
     shows |-> FALSE]

Ok(m) == Answer(200, "result", m.id)
Err(m, code) == Answer(200, code, m.id)
Refuse(status, code) == Answer(status, code, FALSE)
Acknowledged == Answer(202, "empty", FALSE)

(* What a handler raises outside the protocol's own errors.                *)
Fault == Answer(500, "fault", FALSE)

(* origin_allowed.                                                         *)
OriginAllowed(o) == o \in {"none", "host"} \/ "*" \in cors \/ o \in cors

(* _era.  `params` that are a list have no `get`.                          *)
Era(m) ==
    IF m.method = "discover" THEN "modern"
    ELSE IF m.params = "list" THEN "fault"
    ELSE CASE m.version = "modern" -> "modern"
           [] m.version \in {"none", "handshake"} -> "handshake"
           [] OTHER -> "mismatch"

-----------------------------------------------------------------------------
(* Topics as resources.  A caller is "agent" or "stranger"; a protected    *)
(* topic permits the former.                                               *)

(* App.topic: the name is taken, and only then is it made a resource.      *)
Create(resource) ==
    /\ topic.state = "none"
    /\ topic' = [state |-> IF resource THEN "naming" ELSE "plain", auth |-> topic.auth]
    /\ UNCHANGED <<cors, live, given, post, clientVars>>

Expose ==
    /\ topic.state = "naming"
    /\ topic' = [topic EXCEPT !.state = "resource"]
    /\ UNCHANGED <<cors, live, given, post, clientVars>>

(* _exposed, and its gate's `permits`.                                     *)
Exposed == topic.state = "resource"
Permits(caller) == topic.auth = "none" \/ caller = "agent"

(* resource_list.                                                          *)
Listed(caller) == Exposed /\ Permits(caller)

(* _topic: CapabilityError for what is not there, not a resource, or not   *)
(* for this caller.                                                        *)
Found(caller) == Exposed /\ Permits(caller)

-----------------------------------------------------------------------------
(* Tools                                                                   *)

(* What Capability.invoke comes to: it refuses the arguments, raises, or   *)
(* returns a Response or a value, in a Reply that may carry a status or    *)
(* not in one.                                                             *)
Statuses == {None, 200, 404}
Outcomes ==
    [kind : {"arguments", "raises"}, status : {None}, reply : {None}]
    \cup [kind : {"response"}, status : {200, 404}, reply : Statuses]
    \cup [kind : {"value"}, status : {None}, reply : Statuses]

(* merge: a Reply's status goes over that of the Response in it.           *)
Merged(o) == IF o.reply # None THEN o.reply ELSE o.status

(* call_tool, for a tool there is.                                         *)
IsError(o) ==
    CASE o.kind \in {"arguments", "raises"} -> TRUE
      [] o.kind \in {"response", "value"} /\ Merged(o) # None -> Merged(o) >= 400
      [] OTHER -> FALSE

-----------------------------------------------------------------------------
(* _dispatch                                                               *)

Lists == {"ping", "tools/list"}

(* The answers to a request, with the refused (CapabilityError) and the    *)
(* failed (any other exception) told apart.                                *)
Results(m) ==
    CASE m.method \in Lists \cup {"initialize"} -> {Ok(m)}
      [] m.method = "tools/call" ->   \* no such tool, or a result it cannot encode
            {Err(m, "invalid_params"), Err(m, "internal_error")}
            \cup {[Ok(m) EXCEPT !.error = IsError(o)] : o \in Outcomes}
      [] m.method = "resources/list" -> {[Ok(m) EXCEPT !.shows = Listed(m.caller)]}
      [] m.method = "resources/read" ->
            IF Found(m.caller) THEN {Ok(m), Err(m, "internal_error")}
            ELSE {Err(m, "invalid_params")}
      [] OTHER -> {Err(m, "method_not_found")}

(* None is a notification's.                                               *)
Replies(m) ==
    CASE ~m.rpc \/ m.method = None -> {Err(m, "invalid_request")}
      [] m.rpc /\ m.method = "number" -> {Fault}
      [] m.rpc /\ m.method = "notification" -> {Acknowledged}
      [] OTHER -> IF m.id THEN Results(m) ELSE {Acknowledged}

(* _modern: no session; a stream, or the dispatched reply; a notification  *)
(* that has an id is answered with null.                                   *)
Modern(m) ==
    CASE ~m.id -> {Acknowledged}
      [] m.id /\ m.method = "discover" -> {Ok(m)}
      [] m.id /\ m.method = "listen" ->
            IF Found(m.caller) THEN {Answer(200, "stream", TRUE)}
            ELSE {Refuse(400, "invalid_params")}
      [] OTHER -> {IF r = Acknowledged THEN Answer(200, "null", FALSE) ELSE r : r \in Replies(m)}

-----------------------------------------------------------------------------
(* post                                                                    *)

(* Sessions.get finds the one named, if it is live.                        *)
Known(m) == m.sid \in live

(* What post answers before it dispatches anything; None when it goes on.  *)
Early(m) ==
    IF ~OriginAllowed(m.origin) THEN Refuse(403, "invalid_request")
    ELSE IF m.json = "bad" THEN Refuse(400, "parse_error")
    ELSE IF m.json \in {"list", "scalar"} THEN Refuse(400, "invalid_request")
    ELSE IF Era(m) = "fault" THEN Fault
    ELSE IF Era(m) = "mismatch" THEN Answer(400, "unsupported_version", m.id)
    ELSE IF Era(m) = "modern" \/ m.method = "initialize" THEN None
    ELSE IF m.sid \in {None, ""} THEN Refuse(400, "invalid_request")
    ELSE IF ~Known(m) THEN Refuse(404, "invalid_request")
    ELSE None

Unsent == [phase |-> "new", message |-> None, answer |-> None]

Sent(m) ==
    LET early == Early(m)
    IN  [phase |-> IF early = None THEN "dispatch" ELSE "over", message |-> m, answer |-> early]

Send(p, m) ==
    /\ post[p].phase = "new"
    /\ post' = [post EXCEPT ![p] = Sent(m)]
    /\ UNCHANGED <<cors, live, given, clientVars, topic>>

(* The message is dispatched; `initialize` on the handshake wire makes a   *)
(* session of its result, if there is room.                                *)
Makes(m) == m.method = "initialize" /\ Era(m) = "handshake"

Dispatch(p) ==
    /\ post[p].phase = "dispatch"
    /\ LET m == post[p].message
           Over(a) == post' = [post EXCEPT ![p].phase = "over", ![p].answer = a]
       IN  \E a \in IF Era(m) = "modern" THEN Modern(m) ELSE Replies(m) :
              IF Makes(m) /\ a.body = "result"
              THEN IF Cardinality(live) < Limit
                   THEN /\ given < Len(Sids)
                        /\ given' = given + 1
                        /\ live' = live \cup {Sids[given']}
                        /\ Over([a EXCEPT !.sid = Sids[given']])
                   ELSE Over(Refuse(503, "internal_error")) /\ UNCHANGED <<live, given>>
              ELSE Over(a) /\ UNCHANGED <<live, given>>
    /\ UNCHANGED <<cors, clientVars, topic>>

(* Sessions expire, are ended by DELETE, and go with the server.           *)
Lose ==
    /\ \E gone \in SUBSET live \ {{}} :
          /\ live' = live \ gone
          /\ lost' = (lost \/ (session \in gone /\ step \in {"reopening", "resent"}))
    /\ UNCHANGED <<cors, given, post, session, step, calls, refused, topic>>

-----------------------------------------------------------------------------
(* TestClient.mcp                                                          *)

Initialize == [origin |-> "none", json |-> "object", rpc |-> TRUE, method |-> "initialize",
               id |-> TRUE, params |-> "object", version |-> "none", sid |-> None,
               caller |-> "agent"]
Ping(sid) == [Initialize EXCEPT !.method = "ping", !.sid = sid]

(* _mcp_session opens one on first use; "" is what a refusal leaves.       *)
Begin ==
    /\ step \in {"idle", "returned", "raised"} /\ calls < MaxCalls
    /\ calls' = calls + 1
    /\ lost' = FALSE
    /\ step' = IF session = None THEN "opening" ELSE "sent"
    /\ post' = [post EXCEPT ![Tester] = IF session = None THEN Sent(Initialize)
                                        ELSE Sent(Ping(session))]
    /\ UNCHANGED <<cors, live, given, session, refused, topic>>

Opened ==
    /\ step \in {"opening", "reopening"} /\ post[Tester].phase = "over"
    /\ LET sid == post[Tester].answer.sid
       IN  /\ session' = IF sid = None THEN "" ELSE sid
           /\ refused' = (refused \/ sid = None)
           /\ lost' = (lost \/ (step = "reopening" /\ sid # None /\ sid \notin live))
           /\ post' = [post EXCEPT ![Tester] = Sent(Ping(session'))]
    /\ step' = IF step = "opening" THEN "sent" ELSE "resent"
    /\ UNCHANGED <<cors, live, given, calls, topic>>

(* Mutant of Retry: the old session's id is sent again.                    *)
RetryAsBefore ==
    /\ step = "sent" /\ post[Tester].phase = "over" /\ post[Tester].answer.status = 404
    /\ step' = "resent"
    /\ post' = [post EXCEPT ![Tester] = Sent(Ping(session))]
    /\ UNCHANGED <<cors, live, given, session, calls, refused, lost, topic>>

(* A 404 is answered with a new session and the same message, once.        *)
Retry ==
    /\ step = "sent" /\ post[Tester].phase = "over" /\ post[Tester].answer.status = 404
    /\ session' = None
    /\ step' = "reopening"
    /\ post' = [post EXCEPT ![Tester] = Sent(Initialize)]
    /\ UNCHANGED <<cors, live, given, calls, refused, lost, topic>>

Return ==
    /\ step \in {"sent", "resent"} /\ post[Tester].phase = "over"
    /\ step = "sent" => post[Tester].answer.status # 404
    /\ step' = IF post[Tester].answer.body \in {"result", "empty"} THEN "returned" ELSE "raised"
    /\ UNCHANGED <<cors, live, given, post, session, calls, refused, lost, topic>>

-----------------------------------------------------------------------------
Init ==
    /\ cors \in Origins
    /\ live = {} /\ given = 0
    /\ post = [p \in Clients |-> Unsent]
    /\ session = None /\ step = "idle" /\ calls = 0
    /\ refused = FALSE /\ lost = FALSE
    /\ topic \in [state : {"none"}, auth : {"none", "agent"}]

Next ==
    \/ \E p \in Posts, m \in Messages, s \in live \cup {None} :
          Send(p, [m EXCEPT !.sid = s])
    \/ \E p \in Clients : Dispatch(p)
    \/ \E r \in BOOLEAN : Create(r)
    \/ Expose \/ Lose \/ Begin \/ Opened \/ Retry \/ Return

Spec == Init /\ [][Next]_vars

-----------------------------------------------------------------------------
Answered == {p \in Clients : post[p].phase = "over"}

WellFormed(m) ==
    /\ OriginAllowed(m.origin) /\ m.json = "object" /\ m.rpc
    /\ m.method \notin {None, "number", "notification"}
    /\ m.params # "list" /\ m.version # "other"

(* "One JSON-RPC message in, one answer out": a request is answered with   *)
(* its id, by a result, an error or a stream, or refused as an HTTP        *)
(* request; a notification gets no result and no error of the protocol;    *)
(* and none makes the handler raise.                                       *)
OneAnswer ==
    \A p \in Answered :
        LET m == post[p].message
            said == post[p].answer
        IN  WellFormed(m) =>
                IF m.id THEN said.status # 500 /\ (said.id \/ said.status >= 400)
                ELSE said = Acknowledged \/ said.status >= 400

(* The two wires stay apart: a message that names the modern version is    *)
(* never refused for a session and never given one, one that names a       *)
(* version nobody speaks is told so, and on the handshake wire only        *)
(* `initialize` is answered without a session.                             *)
WiresApart ==
    \A p \in Answered :
        LET m == post[p].message
            said == post[p].answer
        IN  WellFormed(m) =>
                /\ m.version = "modern" => said.status \notin {404, 503} /\ said.sid = None
                /\ Era(m) = "handshake" /\ said.body \in {"result", "stream"}
                      => m.sid # None \/ (m.method = "initialize" /\ said.sid # None)
                /\ said.sid # None => m.method = "initialize"

(* A message that names a version nobody speaks is told so, whatever else  *)
(* it asks for (_era, _modern).                                            *)
VersionSaid ==
    \A p \in Answered :
        LET m == post[p].message
        IN  m.json = "object" /\ OriginAllowed(m.origin) /\ m.version = "other"
            /\ m.method # "discover" /\ m.params # "list"
            => post[p].answer.body = "unsupported_version"

(* However many clients open sessions, no more than the limit are kept     *)
(* (Sessions.create, called after the reply was made).                     *)
SessionsBounded == Cardinality(live) <= Limit

(* An agent is told of a failure where an HTTP client would see a status   *)
(* of 400 or more for what the same handler did.                           *)
HttpStatus(o) ==
    CASE o.kind = "arguments" -> 422
      [] o.kind = "raises" -> 500
      [] OTHER -> IF Merged(o) = None THEN 200 ELSE Merged(o)

ToolErrorsSaid == \A o \in Outcomes : IsError(o) <=> HttpStatus(o) >= 400

(* A topic that is not a resource, and one the caller may not read, are    *)
(* neither listed nor told apart from one that does not exist.             *)
HiddenAlike ==
    \A p \in Answered :
        LET m == post[p].message
            said == post[p].answer
        IN  ~Exposed \/ ~Permits(m.caller) =>
                /\ ~said.shows
                /\ m.method = "resources/read" /\ said.status = 200
                      => said.body \in {"invalid_params", "empty"}
                /\ said.body # "stream"

(* "a test that failed here would be reporting the transport": a call of   *)
(* the test client fails only when its session is lost again after it was  *)
(* opened again, or the server has refused it one.                         *)
CallRecovers == step = "raised" => refused \/ lost

(* What MCP.post answers, over both protocols, and what TestClient.mcp     *)
(* makes of it.                                                            *)
Safety ==
    /\ OneAnswer /\ WiresApart /\ VersionSaid /\ SessionsBounded /\ ToolErrorsSaid
    /\ HiddenAlike /\ CallRecovers

-----------------------------------------------------------------------------
(* What the code says and does not keep.                                   *)

(* "A notification or a response gets acknowledgement and no body".        *)
ResponsesAcknowledged ==
    \A p \in Answered :
        post[p].message.method = None /\ post[p].message.rpc /\ Known(post[p].message)
        => post[p].answer.status # 200

(* _mcp_session: "The session id, opening one on first use".               *)
RefusalForgotten == session # ""

=============================================================================
