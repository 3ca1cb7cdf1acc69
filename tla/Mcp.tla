-------------------------------- MODULE Mcp --------------------------------
(***************************************************************************)
(* MCP over HTTP: what the server keeps per MCP session and how the body   *)
(* of a tool asks the client back (`mcp.sample`).                          *)
(*                                                                         *)
(*   runtime/session.rs  SessionStore: logins, and MCP sessions signed     *)
(*                       from them, ended only by expiry or revocation     *)
(*   runtime/mcp.rs      POST and DELETE /mcp, McpSharedState (connections *)
(*                       and pending), sample, handle_correlated_response  *)
(*   runtime/server.rs   GET /mcp and write_mcp_stream                     *)
(*                                                                         *)
(* A session names its jti, a call names the correlation id of the one     *)
(* sample its body makes, a connection names its channel.  A signature is  *)
(* taken as valid or not: whether a token verifies is the session's state. *)
(***************************************************************************)
EXTENDS Naturals, Sequences

CONSTANTS
    Logins,    \* tokens of SessionStore::sessions
    Sessions,  \* MCP sessions, each made by an `initialize` of its own
    Earlier,   \* those made before the behaviour starts
    Calls,     \* `tools/call` requests, each on a thread of its own
    Conns,     \* `GET /mcp` connections, each on a thread of its own
    Posts,     \* correlated responses, each on a thread of its own
    Buffer,    \* CONNECTION_BUFFER
    None       \* no session, no connection, no response

ASSUME BufferAssumption == Buffer \in Nat \ {0}
ASSUME EarlierAssumption == Earlier \subseteq Sessions
ASSUME TokensAssumption == Logins \cap Sessions = {}
ASSUME NoneAssumption == None \notin Logins \cup Sessions \cup Calls \cup Conns \cup Posts

VARIABLES
    login,       \* SessionStore::sessions
    session,     \* MCP sessions: what was signed and whether it verifies
    registered,  \* McpSharedState::connections
    conn,        \* the thread of a GET connection
    queue,       \* its bounded channel
    pending,     \* McpSharedState::pending: the owner of a correlation id
    inbox,       \* the channel of a sample: the response sent to it
    call,        \* the thread of a tools/call
    post,        \* the thread of a correlated response
    newest,      \* history: the last connection of a session
    cut          \* history: connections another connection's end unregistered

vars == <<login, session, registered, conn, queue, pending, inbox, call, post, newest, cut>>

CallEnds == {"refused", "nosession", "noconnection", "undelivered", "timeout", "answered", "silent"}

SessionRec == [state : {"none", "naming", "valid", "ended"}, from : Logins \cup Sessions \cup {None},
               named : BOOLEAN, gap : BOOLEAN]
ConnRec == [state : {"new", "opening", "open", "closing", "closed"}, of : Sessions \cup {None}, hung : BOOLEAN]
CallRec == [pc : {"new", "verify", "body", "register", "push", "wait", "giveup", "done"},
            token : Sessions \cup {None}, ctx : Sessions \cup {None}, sender : Conns \cup {None},
            end : CallEnds \cup {"none"}]
PostRec == [pc : {"new", "verified", "send", "done"}, by : Sessions \cup {None}, id : Calls \cup {None},
            status : {0, 200, 401, 404}]

SessionsTyped == login \in [Logins -> {"new", "live", "gone"}] /\ session \in [Sessions -> SessionRec]
ConnectionsTyped ==
    /\ conn \in [Conns -> ConnRec] /\ registered \in [Sessions -> Conns \cup {None}]
    /\ newest \in [Sessions -> Conns \cup {None}] /\ cut \subseteq Conns
QueuesTyped == queue \in [Conns -> Seq(Calls)] /\ \A k \in Conns : Len(queue[k]) <= Buffer
CallsTyped == call \in [Calls -> CallRec]
TableTyped == pending \in [Calls -> Sessions \cup {None}]
PostsTyped == post \in [Posts -> PostRec] /\ inbox \in [Calls -> Posts \cup {None}]

TypeOK == SessionsTyped /\ ConnectionsTyped /\ QueuesTyped /\ CallsTyped /\ TableTyped /\ PostsTyped

Init ==
    /\ login = [l \in Logins |-> "new"]
    /\ session = [s \in Sessions |->
                    [state |-> IF s \in Earlier THEN "valid" ELSE "none",
                     from |-> None, named |-> s \in Earlier, gap |-> FALSE]]
    /\ registered = [s \in Sessions |-> None]
    /\ conn = [k \in Conns |-> [state |-> "new", of |-> None, hung |-> FALSE]]
    /\ queue = [k \in Conns |-> <<>>]
    /\ pending = [c \in Calls |-> None]
    /\ inbox = [c \in Calls |-> None]
    /\ call = [c \in Calls |-> [pc |-> "new", token |-> None, ctx |-> None, sender |-> None, end |-> "none"]]
    /\ post = [p \in Posts |-> [pc |-> "new", by |-> None, id |-> None, status |-> 0]]
    /\ newest = [s \in Sessions |-> None]
    /\ cut = {}

Verifies(s) == session[s].state = "valid"
\* role_for and user_id_for: an own session first, an MCP session otherwise.
Authenticates(b) == IF b \in Logins THEN login[b] = "live" ELSE Verifies(b)
----------------------------------------------------------------------------
(* Sessions.                                                               *)

\* auth.createSessionWithId.
Login(l) ==
    /\ login[l] = "new"
    /\ login' = [login EXCEPT ![l] = "live"]
    /\ UNCHANGED <<session, registered, conn, queue, pending, inbox, call, post, newest, cut>>

\* destroy, destroy_all_for_user, or the ttl: later reads find nothing.
LoginEnds(l) ==
    /\ login[l] = "live"
    /\ login' = [login EXCEPT ![l] = "gone"]
    /\ session' = [s \in Sessions |->
                     IF session[s].state = "naming" /\ session[s].from = l
                     THEN [session[s] EXCEPT !.gap = TRUE] ELSE session[s]]
    /\ UNCHANGED <<registered, conn, queue, pending, inbox, call, post, newest, cut>>

\* handle_initialize reads the role of the bearer token...
InitializeRole(s, b) ==
    /\ session[s].state = "none"
    /\ b # s /\ Authenticates(b)
    /\ session' = [session EXCEPT ![s].state = "naming", ![s].from = b]
    /\ UNCHANGED <<login, registered, conn, queue, pending, inbox, call, post, newest, cut>>

\* Mutant: the session is signed with the role alone.
InitializeSignRole(s) ==
    /\ session[s].state = "naming"
    /\ session' = [session EXCEPT ![s].state = "valid"]
    /\ UNCHANGED <<login, registered, conn, queue, pending, inbox, call, post, newest, cut>>

\* ... and in a second read its user, then signs both.
InitializeSign(s) ==
    LET b == session[s].from
        user == Authenticates(b) /\ (b \in Sessions => session[b].named)
    IN
    /\ session[s].state = "naming"
    /\ session' = [session EXCEPT ![s].state = "valid", ![s].named = user]
    /\ UNCHANGED <<login, registered, conn, queue, pending, inbox, call, post, newest, cut>>

\* DELETE /mcp revokes the jti, MCP_SESSION_TTL_SECS pass: the token does not
\* verify again.  Connections and pending samples stay as they are.
SessionEnds(s) ==
    /\ session[s].state = "valid"
    /\ session' = [r \in Sessions |->
                     IF r = s THEN [session[s] EXCEPT !.state = "ended"]
                     ELSE IF session[r].state = "naming" /\ session[r].from = s
                     THEN [session[r] EXCEPT !.gap = TRUE] ELSE session[r]]
    /\ UNCHANGED <<login, registered, conn, queue, pending, inbox, call, post, newest, cut>>
----------------------------------------------------------------------------
(* GET /mcp and write_mcp_stream.                                          *)

\* Mutant: a session keeps the connection it has.
ConnectKeepsFirst(k, s) ==
    /\ conn[k].state = "new"
    /\ Verifies(s)
    /\ conn' = [conn EXCEPT ![k] = [state |-> "opening", of |-> s, hung |-> FALSE]]
    /\ registered' = [registered EXCEPT ![s] = IF @ = None THEN k ELSE @]
    /\ newest' = [newest EXCEPT ![s] = k]
    /\ UNCHANGED <<login, session, queue, pending, inbox, call, post, cut>>

\* A second connection of a session replaces the sender of the first.
Connect(k, s) ==
    /\ conn[k].state = "new"
    /\ Verifies(s)
    /\ conn' = [conn EXCEPT ![k] = [state |-> "opening", of |-> s, hung |-> FALSE]]
    /\ registered' = [registered EXCEPT ![s] = k]
    /\ newest' = [newest EXCEPT ![s] = k]
    /\ UNCHANGED <<login, session, queue, pending, inbox, call, post, cut>>

\* The client goes away; the thread finds out at its next write.
HangUp(k) ==
    /\ conn[k].state \in {"opening", "open"} /\ ~conn[k].hung
    /\ conn' = [conn EXCEPT ![k].hung = TRUE]
    /\ UNCHANGED <<login, session, registered, queue, pending, inbox, call, post, newest, cut>>

\* The channel is open while the map or a sample in progress holds a sender.
ChannelOpen(k) == registered[conn[k].of] = k \/ \E c \in Calls : call[c].sender = k

\* The preamble, then one chunk per event; a failed write leaves the loop.
WriteStream(k) ==
    /\ \/ /\ conn[k].state = "opening"
          /\ conn' = [conn EXCEPT ![k].state = IF conn[k].hung THEN "closing" ELSE "open"]
          /\ UNCHANGED queue
       \/ /\ conn[k].state = "open" /\ queue[k] # <<>>
          /\ queue' = [queue EXCEPT ![k] = Tail(@)]
          /\ conn' = [conn EXCEPT ![k].state = IF conn[k].hung THEN "closing" ELSE "open"]
       \/ /\ conn[k].state = "open" /\ queue[k] = <<>> /\ ~ChannelOpen(k)
          /\ conn' = [conn EXCEPT ![k].state = "closing"]
          /\ UNCHANGED queue
    /\ UNCHANGED <<login, session, registered, pending, inbox, call, post, newest, cut>>

\* The entry of the session is removed, whichever connection it names by now.
Unregister(k) ==
    LET s == conn[k].of IN
    /\ conn[k].state = "closing"
    /\ conn' = [conn EXCEPT ![k].state = "closed"]
    /\ queue' = [queue EXCEPT ![k] = <<>>]
    /\ registered' = [registered EXCEPT ![s] = None]
    /\ cut' = cut \cup ({registered[s]} \ {k, None})
    /\ UNCHANGED <<login, session, pending, inbox, call, post, newest>>
----------------------------------------------------------------------------
(* tools/call and mcp.sample.                                              *)

End(c, how) == call' = [call EXCEPT ![c].pc = "done", ![c].sender = None, ![c].end = how]

\* check_auth_gate: a public rpc takes any token, another one wants a role.
CallGate(c, s, public) ==
    /\ call[c].pc = "new"
    /\ IF public \/ Verifies(s)
       THEN call' = [call EXCEPT ![c].pc = "verify", ![c].token = s]
       ELSE call' = [call EXCEPT ![c].pc = "done", ![c].token = s, ![c].end = "refused"]
    /\ UNCHANGED <<login, session, registered, conn, queue, pending, inbox, post, newest, cut>>

\* set_current, when the token verifies a second time.
CallVerify(c) ==
    /\ call[c].pc = "verify"
    /\ call' = [call EXCEPT ![c].pc = "body",
                            ![c].ctx = IF Verifies(call[c].token) THEN call[c].token ELSE None]
    /\ UNCHANGED <<login, session, registered, conn, queue, pending, inbox, post, newest, cut>>

\* The body returns without a sample.
BodyEnds(c) ==
    /\ call[c].pc = "body"
    /\ End(c, "silent")
    /\ UNCHANGED <<login, session, registered, conn, queue, pending, inbox, post, newest, cut>>

\* sample: the context of the thread, then the sender of its session.
SampleLookup(c) ==
    LET s == call[c].ctx IN
    /\ call[c].pc = "body"
    /\ \/ s = None /\ End(c, "nosession")
       \/ s # None /\ registered[s] = None /\ End(c, "noconnection")
       \/ /\ s # None /\ registered[s] # None
          /\ call' = [call EXCEPT ![c].pc = "register", ![c].sender = registered[s]]
    /\ UNCHANGED <<login, session, registered, conn, queue, pending, inbox, post, newest, cut>>

\* The id is pending before anybody can be told of it.
SampleRegister(c) ==
    /\ call[c].pc = "register"
    /\ pending' = [pending EXCEPT ![c] = call[c].ctx]
    /\ call' = [call EXCEPT ![c].pc = "push"]
    /\ UNCHANGED <<login, session, registered, conn, queue, inbox, post, newest, cut>>

\* try_send: a full or closed channel is an error at once.
SamplePush(c) ==
    LET k == call[c].sender IN
    /\ call[c].pc = "push"
    /\ IF conn[k].state # "closed" /\ Len(queue[k]) < Buffer
       THEN /\ queue' = [queue EXCEPT ![k] = Append(@, c)]
            /\ call' = [call EXCEPT ![c].pc = "wait"]
       ELSE /\ call' = [call EXCEPT ![c].pc = "giveup", ![c].end = "undelivered"]
            /\ UNCHANGED queue
    /\ UNCHANGED <<login, session, registered, conn, pending, inbox, post, newest, cut>>

SampleAnswered(c) ==
    /\ call[c].pc = "wait"
    /\ inbox[c] # None
    /\ End(c, "answered")
    /\ UNCHANGED <<login, session, registered, conn, queue, pending, inbox, post, newest, cut>>

\* SAMPLE_TIMEOUT.
SampleTimeout(c) ==
    /\ call[c].pc = "wait"
    /\ inbox[c] = None
    /\ call' = [call EXCEPT ![c].pc = "giveup", ![c].end = "timeout"]
    /\ UNCHANGED <<login, session, registered, conn, queue, pending, inbox, post, newest, cut>>

\* Mutant: the error path forgets the table.
GiveUpKeepsId(c) ==
    /\ call[c].pc = "giveup"
    /\ End(c, call[c].end)
    /\ UNCHANGED <<login, session, registered, conn, queue, pending, inbox, post, newest, cut>>

\* Both error paths take the id out of the table again.
SampleGiveUp(c) ==
    /\ call[c].pc = "giveup"
    /\ pending' = [pending EXCEPT ![c] = None]
    /\ End(c, call[c].end)
    /\ UNCHANGED <<login, session, registered, conn, queue, inbox, post, newest, cut>>
----------------------------------------------------------------------------
(* handle_correlated_response.                                             *)

\* An id is fresh: nobody names it before its sample registered it.
PostVerify(p, s, c) ==
    /\ post[p].pc = "new"
    /\ call[c].pc \in {"push", "wait", "giveup"}
    /\ post' = [post EXCEPT ![p] =
                  IF Verifies(s) THEN [pc |-> "verified", by |-> s, id |-> c, status |-> 0]
                                 ELSE [pc |-> "done", by |-> s, id |-> c, status |-> 401]]
    /\ UNCHANGED <<login, session, registered, conn, queue, pending, inbox, call, newest, cut>>

\* Mutant: any valid session may answer any id.
PostTakeAny(p) ==
    LET c == post[p].id IN
    /\ post[p].pc = "verified"
    /\ IF pending[c] # None
       THEN /\ pending' = [pending EXCEPT ![c] = None]
            /\ post' = [post EXCEPT ![p].pc = "send"]
       ELSE /\ post' = [post EXCEPT ![p].pc = "done", ![p].status = 404]
            /\ UNCHANGED pending
    /\ UNCHANGED <<login, session, registered, conn, queue, inbox, call, newest, cut>>

\* Under the lock of pending: the id is taken by its owner, or not at all.
PostTake(p) ==
    LET c == post[p].id IN
    /\ post[p].pc = "verified"
    /\ IF pending[c] = post[p].by
       THEN /\ pending' = [pending EXCEPT ![c] = None]
            /\ post' = [post EXCEPT ![p].pc = "send"]
       ELSE /\ post' = [post EXCEPT ![p].pc = "done", ![p].status = 404]
            /\ UNCHANGED pending
    /\ UNCHANGED <<login, session, registered, conn, queue, inbox, call, newest, cut>>

\* Without the lock: the sample may have given up by now, and nobody looks.
PostSend(p) ==
    LET c == post[p].id IN
    /\ post[p].pc = "send"
    /\ inbox' = [inbox EXCEPT ![c] = p]
    /\ post' = [post EXCEPT ![p].pc = "done", ![p].status = 200]
    /\ UNCHANGED <<login, session, registered, conn, queue, pending, call, newest, cut>>
----------------------------------------------------------------------------
Initialize(s) == (\E b \in Logins \cup Sessions : InitializeRole(s, b)) \/ InitializeSign(s)
Stream(k) == WriteStream(k) \/ Unregister(k)
Sample(c) ==
    \/ SampleLookup(c) \/ SampleRegister(c) \/ SamplePush(c)
    \/ SampleAnswered(c) \/ SampleTimeout(c) \/ SampleGiveUp(c)
Call(c) == CallVerify(c) \/ BodyEnds(c) \/ Sample(c)
Correlate(p) == PostTake(p) \/ PostSend(p)

Next ==
    \/ \E l \in Logins : Login(l) \/ LoginEnds(l)
    \/ \E s \in Sessions : Initialize(s) \/ SessionEnds(s)
    \/ \E k \in Conns : (\E s \in Sessions : Connect(k, s)) \/ HangUp(k) \/ Stream(k)
    \/ \E c \in Calls : (\E s \in Sessions, public \in BOOLEAN : CallGate(c, s, public)) \/ Call(c)
    \/ \E p \in Posts : (\E s \in Sessions, c \in Calls : PostVerify(p, s, c)) \/ Correlate(p)

Spec == Init /\ [][Next]_vars
----------------------------------------------------------------------------
(* Properties.                                                             *)

Taken(c) == {p \in Posts : post[p].id = c /\ (post[p].pc = "send" \/ post[p].status = 200)}

\* The correlation table never holds the id of a call that is not waiting, it
\* holds it for the session the request was sent to, and an id that is gone
\* while its call still waits was taken by exactly one response.
CorrelationAccounted ==
    \A c \in Calls :
        /\ pending[c] # None => call[c].pc \in {"push", "wait", "giveup"} /\ pending[c] = call[c].ctx
        /\ call[c].pc \in {"push", "wait", "giveup"} => (pending[c] = None <=> Taken(c) # {})
        /\ \A p, q \in Taken(c) : p = q

\* A response told "delivered" is the only one of its id, comes from the
\* session whose connection got the request, and reached its sample unless
\* the sample gave up between the removal and the send.
DeliveredIsTrue ==
    \A p \in Posts : post[p].status = 200 =>
        LET c == post[p].id IN
        /\ Taken(c) = {p} /\ post[p].by = call[c].ctx
        /\ inbox[c] = p
        /\ call[c].end \in {"none", "answered", "timeout", "undelivered"}

\* The map only names connections whose thread still reads their channel, of
\* the session they belong to; and the newest connection of a session is in it
\* for as long as it is served, unless the thread of an older one ended since
\* and removed the entry.
ConnectionsAccounted ==
    \A s \in Sessions :
        /\ registered[s] # None =>
               conn[registered[s]].of = s /\ conn[registered[s]].state # "closed"
        /\ newest[s] # None /\ conn[newest[s]].state # "closed" =>
               registered[s] = newest[s] \/ newest[s] \in cut

\* A session signed from a login that had a user carries that user, unless the
\* bearer ended between the two reads of handle_initialize (or the bearer was
\* such a session).
IdentityCopied ==
    \A s \in Sessions : session[s].state \in {"valid", "ended"} =>
        \/ session[s].named
        \/ session[s].gap
        \/ session[s].from \in Sessions /\ ~session[session[s].from].named
=============================================================================
