----------------------------- MODULE McpProofs -----------------------------
(***************************************************************************)
(* Theorems about Mcp, for any logins, sessions, calls, connections and    *)
(* responses.  The sessions, the connections and the correlation of        *)
(* samples touch different variables: each has an invariant of its own,    *)
(* and a step of one leaves the variables of the others alone.             *)
(***************************************************************************)
EXTENDS Mcp, TLAPS

\* A bearer that was valid at the first read of handle_initialize and is not at
\* the second ended in between; one that is a session keeps what it was signed for.
SessionInv ==
    \A s \in Sessions :
        /\ session[s].state = "naming" =>
               session[s].from \in Logins \cup Sessions
               /\ (session[s].gap \/ Authenticates(session[s].from))
        /\ session[s].state \in {"valid", "ended"} =>
               \/ session[s].named
               \/ session[s].gap
               \/ /\ session[s].from \in Sessions
                  /\ ~session[session[s].from].named
                  /\ session[session[s].from].state \in {"valid", "ended"}

\* Where a connection is registered, and who took it out.
ConnectionInv ==
    /\ \A k \in Conns : conn[k].state # "new" => conn[k].of \in Sessions
    /\ \A s \in Sessions :
        /\ registered[s] # None =>
               conn[registered[s]].of = s /\ conn[registered[s]].state \notin {"new", "closed"}
        /\ newest[s] # None => conn[newest[s]].of = s /\ conn[newest[s]].state # "new"
        /\ newest[s] # None /\ conn[newest[s]].state # "closed" =>
               registered[s] = newest[s] \/ newest[s] \in cut

Sampling == {"push", "wait", "giveup"}
Sampled  == {"none", "answered", "timeout", "undelivered"}

\* A call on its way through sample.
CallInv ==
    \A c \in Calls :
        /\ call[c].pc \in Sampling \cup {"register"} => call[c].ctx # None /\ call[c].sender # None
        /\ call[c].pc \notin Sampling => pending[c] = None
        /\ call[c].pc \notin {"giveup", "done"} => call[c].end = "none"
        /\ call[c].pc = "giveup" => call[c].end \in {"timeout", "undelivered"}
        /\ pending[c] # None => pending[c] = call[c].ctx

\* A response on its way through handle_correlated_response, and its call.
PostInv ==
    /\ \A p \in Posts :
        /\ post[p].pc = "new" => post[p].id = None
        /\ post[p].pc # "done" => post[p].status = 0
        /\ post[p].pc # "new" => post[p].id \in Calls /\ post[p].by # None
        /\ post[p].id # None =>
               call[post[p].id].pc \in Sampling \cup {"done"} /\ call[post[p].id].end \in Sampled
        /\ post[p].pc = "send" \/ post[p].status = 200 => post[p].by = call[post[p].id].ctx
        /\ post[p].status = 200 => inbox[post[p].id] = p
    /\ \A c \in Calls : inbox[c] # None => post[inbox[c]].id = c /\ post[inbox[c]].status = 200

\* An id is in the table, or one response has taken it, or its sample gave up.
TakenInv ==
    \A c \in Calls :
        /\ call[c].pc \in Sampling => (pending[c] = None <=> Taken(c) # {})
        /\ \A p, q \in Taken(c) : p = q

IInv == TypeOK /\ SessionInv /\ ConnectionInv /\ CallInv /\ PostInv /\ TakenInv
----------------------------------------------------------------------------
(* The steps, by the part of the state they change.                        *)

SessionStep ==
    \/ \E l \in Logins : Login(l) \/ LoginEnds(l)
    \/ \E s \in Sessions : Initialize(s) \/ SessionEnds(s)
ConnStep == \E k \in Conns : (\E s \in Sessions : Connect(k, s)) \/ HangUp(k) \/ Stream(k)
CallStep == \E c \in Calls : (\E s \in Sessions, public \in BOOLEAN : CallGate(c, s, public)) \/ Call(c)
PostStep == \E p \in Posts : (\E s \in Sessions, c \in Calls : PostVerify(p, s, c)) \/ Correlate(p)

\* Next is one of them.
LEMMA StepCases ==
    ASSUME [Next]_vars
    PROVE  SessionStep \/ ConnStep \/ CallStep \/ PostStep \/ UNCHANGED vars
  BY DEF Next, SessionStep, ConnStep, CallStep, PostStep

\* What each of them leaves alone.
LEMMA SessionFrame ==
    ASSUME SessionStep
    PROVE  UNCHANGED <<registered, conn, queue, pending, inbox, call, post, newest, cut>>
  BY DEF SessionStep, Login, LoginEnds, Initialize, InitializeRole, InitializeSign, SessionEnds

LEMMA ConnFrame ==
    ASSUME ConnStep PROVE UNCHANGED <<login, session, pending, inbox, call, post>>
  BY DEF ConnStep, Stream, Connect, HangUp, WriteStream, Unregister

LEMMA CallFrame ==
    ASSUME CallStep PROVE UNCHANGED <<login, session, registered, conn, inbox, post, newest, cut>>
  BY DEF CallStep, CallGate, Call, CallVerify, BodyEnds, Sample, SampleLookup, SampleRegister, SamplePush,
         SampleAnswered, SampleTimeout, SampleGiveUp

LEMMA PostFrame ==
    ASSUME PostStep PROVE UNCHANGED <<login, session, registered, conn, queue, call, newest, cut>>
  BY DEF PostStep, PostVerify, Correlate, PostTake, PostSend
----------------------------------------------------------------------------
\* At the start there is no traffic, and every session there is carries a user.
LEMMA InitIInv == Init => IInv
<1>. SUFFICES ASSUME Init PROVE IInv  OBVIOUS
<1>. USE NoneAssumption, BufferAssumption, EarlierAssumption DEF Init
<1>1. TypeOK
  BY DEF TypeOK, SessionsTyped, ConnectionsTyped, QueuesTyped, CallsTyped, TableTyped, PostsTyped, SessionRec,
         ConnRec, CallRec, PostRec, CallEnds
<1>2. SessionInv  BY DEF SessionInv
<1>3. ConnectionInv  BY DEF ConnectionInv
<1>4. CallInv  BY DEF CallInv, Sampling
<1>5. PostInv  BY DEF PostInv
<1>6. TakenInv  BY DEF TakenInv, Taken, Sampling
<1>. QED  BY <1>1, <1>2, <1>3, <1>4, <1>5, <1>6 DEF IInv
----------------------------------------------------------------------------
(* Sessions.                                                               *)

\* Every field the steps set keeps its type.
LEMMA SessionFields ==
    ASSUME NEW r \in SessionRec, NEW u \in BOOLEAN, NEW b \in Logins \cup Sessions
    PROVE  /\ [r EXCEPT !.gap = TRUE] \in SessionRec
           /\ [r EXCEPT !.state = "ended"] \in SessionRec
           /\ [r EXCEPT !.state = "valid", !.named = u] \in SessionRec
           /\ [r EXCEPT !.state = "naming", !.from = b] \in SessionRec
<1>1. [r EXCEPT !.gap = TRUE] \in SessionRec  BY DEF SessionRec
<1>2. [r EXCEPT !.state = "ended"] \in SessionRec  BY DEF SessionRec
<1>3. [r EXCEPT !.state = "valid", !.named = u] \in SessionRec  BY DEF SessionRec
<1>4. [r EXCEPT !.state = "naming", !.from = b] \in SessionRec  BY DEF SessionRec
<1>. QED  BY <1>1, <1>2, <1>3, <1>4

LEMMA ConnFields == ASSUME NEW r \in ConnRec PROVE [r EXCEPT !.hung = TRUE] \in ConnRec
  BY DEF ConnRec

LEMMA CallFields ==
    ASSUME NEW r \in CallRec, NEW t \in Sessions \cup {None}, NEW e \in CallEnds
    PROVE  /\ [r EXCEPT !.pc = "done", !.sender = None, !.end = e] \in CallRec
           /\ [r EXCEPT !.pc = "giveup", !.end = e] \in CallRec
           /\ [r EXCEPT !.pc = "body", !.ctx = t] \in CallRec
<1>1. [r EXCEPT !.pc = "done", !.sender = None, !.end = e] \in CallRec  BY DEF CallRec
<1>2. [r EXCEPT !.pc = "giveup", !.end = e] \in CallRec  BY DEF CallRec
<1>3. [r EXCEPT !.pc = "body", !.ctx = t] \in CallRec  BY DEF CallRec
<1>. QED  BY <1>1, <1>2, <1>3

LEMMA PostFields == ASSUME NEW r \in PostRec PROVE [r EXCEPT !.pc = "done", !.status = 200] \in PostRec
  BY DEF PostRec

\* Signing, expiry and revocation keep SessionInv.
LEMMA SessionKept == ASSUME IInv, [Next]_vars PROVE SessionInv' /\ SessionsTyped'
<1>. USE NoneAssumption, TokensAssumption
     DEF IInv, TypeOK, SessionsTyped, SessionInv, Authenticates, Verifies
<1>1. ASSUME NEW l \in Logins, Login(l) PROVE SessionInv' /\ SessionsTyped'
  BY <1>1 DEF Login
<1>2. ASSUME NEW l \in Logins, LoginEnds(l) PROVE SessionInv' /\ SessionsTyped'
  <2>1. SessionInv'  BY <1>2 DEF LoginEnds, SessionRec
  <2>2. SessionsTyped'  BY <1>2, SessionFields DEF LoginEnds
  <2>. QED  BY <2>1, <2>2
<1>3. ASSUME NEW s \in Sessions, NEW b \in Logins \cup Sessions, InitializeRole(s, b)
      PROVE  SessionInv' /\ SessionsTyped'
  <2>1. SessionInv'  BY <1>3 DEF InitializeRole, SessionRec
  <2>2. SessionsTyped'
    <3>1. session' = [session EXCEPT ![s] = [session[s] EXCEPT !.state = "naming", !.from = b]]
      BY <1>3 DEF InitializeRole
    <3>2. [session[s] EXCEPT !.state = "naming", !.from = b] \in SessionRec
      BY SessionFields
    <3>3. session' \in [Sessions -> SessionRec]  BY <3>1, <3>2
    <3>. QED  BY <1>3, <3>3 DEF InitializeRole
  <2>. QED  BY <2>1, <2>2
<1>4. ASSUME NEW s \in Sessions, InitializeSign(s) PROVE SessionInv' /\ SessionsTyped'
  <2>1. SessionInv'  BY <1>4 DEF InitializeSign, SessionRec
  <2>2. SessionsTyped'
    <3>. DEFINE b == session[s].from
                user == Authenticates(b) /\ (b \in Sessions => session[b].named)
    <3>1. session' = [session EXCEPT ![s] = [session[s] EXCEPT !.state = "valid", !.named = user]]
      BY <1>4 DEF InitializeSign
    <3>2. user \in BOOLEAN  OBVIOUS
    <3>. HIDE DEF user
    <3>3. [session[s] EXCEPT !.state = "valid", !.named = user] \in SessionRec
      BY <3>2, SessionFields
    <3>4. session' \in [Sessions -> SessionRec]  BY <3>1, <3>3
    <3>. QED  BY <1>4, <3>4 DEF InitializeSign
  <2>. QED  BY <2>1, <2>2
<1>5. ASSUME NEW s \in Sessions, SessionEnds(s) PROVE SessionInv' /\ SessionsTyped'
  <2>1. SessionInv'  BY <1>5 DEF SessionEnds, SessionRec
  <2>2. SessionsTyped'  BY <1>5, SessionFields DEF SessionEnds
  <2>. QED  BY <2>1, <2>2
<1>6. CASE UNCHANGED <<login, session>>
  BY <1>6
<1>7. ConnStep \/ CallStep \/ PostStep \/ UNCHANGED vars => UNCHANGED <<login, session>>
  BY ConnFrame, CallFrame, PostFrame DEF vars
<1>. QED  BY <1>1, <1>2, <1>3, <1>4, <1>5, <1>6, <1>7, StepCases DEF SessionStep, Initialize
----------------------------------------------------------------------------
(* Connections.                                                            *)

\* A new connection replaces the entry of its session, an old one removes it.
LEMMA ConnectionKept == ASSUME IInv, [Next]_vars PROVE ConnectionInv' /\ ConnectionsTyped'
<1>. USE NoneAssumption DEF IInv, TypeOK, ConnectionsTyped, ConnRec, ConnectionInv
<1>1. ASSUME NEW k \in Conns, NEW s \in Sessions, Connect(k, s) PROVE ConnectionInv' /\ ConnectionsTyped'
  BY <1>1 DEF Connect
<1>2. ASSUME NEW k \in Conns, HangUp(k) PROVE ConnectionInv' /\ ConnectionsTyped'
  <2>1. ConnectionInv'  BY <1>2 DEF HangUp
  <2>2. ConnectionsTyped'
    <3>1. conn' = [conn EXCEPT ![k] = [conn[k] EXCEPT !.hung = TRUE]]  BY <1>2 DEF HangUp
    <3>2. conn[k] \in ConnRec  OBVIOUS
    <3>3. [conn[k] EXCEPT !.hung = TRUE] \in ConnRec  BY <3>2, ConnFields
    <3>4. conn' \in [Conns -> ConnRec]  BY <3>1, <3>3
    <3>. QED  BY <1>2, <3>4 DEF HangUp
  <2>. QED  BY <2>1, <2>2
<1>3. ASSUME NEW k \in Conns, WriteStream(k) PROVE ConnectionInv' /\ ConnectionsTyped'
  <2>1. /\ \A j \in Conns : /\ conn'[j].of = conn[j].of
                            /\ conn'[j].state = "new" <=> conn[j].state = "new"
                            /\ conn'[j].state = "closed" <=> conn[j].state = "closed"
        /\ UNCHANGED <<registered, newest, cut>>
    BY <1>3 DEF WriteStream
  <2>2. ConnectionInv'
    BY <2>1
  <2>3. conn' \in [Conns -> ConnRec]
    BY <1>3 DEF WriteStream
  <2>. QED  BY <2>1, <2>2, <2>3
<1>4. ASSUME NEW k \in Conns, Unregister(k) PROVE ConnectionInv' /\ ConnectionsTyped'
  BY <1>4 DEF Unregister
<1>5. CASE UNCHANGED <<conn, registered, newest, cut>>
  BY <1>5
<1>6. SessionStep \/ CallStep \/ PostStep \/ UNCHANGED vars => UNCHANGED <<conn, registered, newest, cut>>
  BY SessionFrame, CallFrame, PostFrame DEF vars
<1>. QED  BY <1>1, <1>2, <1>3, <1>4, <1>5, <1>6, StepCases DEF ConnStep, Stream

\* A channel takes one more request only while it is below CONNECTION_BUFFER.
LEMMA QueuesKept == ASSUME IInv, [Next]_vars PROVE QueuesTyped'
<1>. USE NoneAssumption, BufferAssumption DEF IInv, TypeOK, QueuesTyped
<1>1. ASSUME NEW k \in Conns, WriteStream(k) PROVE QueuesTyped'
  <2>1. CASE UNCHANGED queue
    BY <2>1
  <2>2. CASE queue[k] # <<>> /\ queue' = [queue EXCEPT ![k] = Tail(@)]
    <3>1. Tail(queue[k]) \in Seq(Calls) /\ Len(Tail(queue[k])) <= Buffer
      BY <2>2
    <3>. QED  BY <2>2, <3>1
  <2>. QED  BY <1>1, <2>1, <2>2 DEF WriteStream
<1>2. ASSUME NEW k \in Conns, Unregister(k) PROVE QueuesTyped'
  BY <1>2 DEF Unregister
<1>3. ASSUME NEW c \in Calls, SamplePush(c) PROVE QueuesTyped'
  <2>. DEFINE k == call[c].sender
  <2>1. CASE UNCHANGED queue
    BY <2>1
  <2>2. CASE Len(queue[k]) < Buffer /\ queue' = [queue EXCEPT ![k] = Append(@, c)]
    <3>1. ASSUME k \in Conns PROVE Append(queue[k], c) \in Seq(Calls) /\ Len(Append(queue[k], c)) <= Buffer
      BY <2>2, <3>1
    <3>. QED  BY <2>2, <3>1
  <2>. QED  BY <1>3, <2>1, <2>2 DEF SamplePush
<1>4. CASE UNCHANGED queue
  BY <1>4
<1>5. ASSUME NEW k \in Conns, (\E s \in Sessions : Connect(k, s)) \/ HangUp(k) PROVE UNCHANGED queue
  BY <1>5 DEF Connect, HangUp
<1>6. ASSUME NEW c \in Calls,
             (\E s \in Sessions, public \in BOOLEAN : CallGate(c, s, public)) \/ CallVerify(c) \/ BodyEnds(c)
             \/ SampleLookup(c) \/ SampleRegister(c) \/ SampleAnswered(c) \/ SampleTimeout(c) \/ SampleGiveUp(c)
      PROVE  UNCHANGED queue
  BY <1>6 DEF CallGate, CallVerify, BodyEnds, SampleLookup, SampleRegister, SampleAnswered, SampleTimeout,
              SampleGiveUp
<1>7. SessionStep \/ PostStep \/ UNCHANGED vars => UNCHANGED queue
  BY SessionFrame, PostFrame DEF vars
<1>8. CASE ConnStep
  BY <1>1, <1>2, <1>4, <1>5, <1>8 DEF ConnStep, Stream
<1>9. CASE CallStep
  BY <1>3, <1>4, <1>6, <1>9 DEF CallStep, Call, Sample
<1>. QED  BY <1>4, <1>7, <1>8, <1>9, StepCases
----------------------------------------------------------------------------
(* What a step does to the call or the response it moves, field by field.  *)

Became(c, pc, ctx, sender, end) ==
    /\ \A d \in Calls \ {c} : call'[d] = call[d]
    /\ call'[c].pc = pc /\ call'[c].ctx = ctx /\ call'[c].sender = sender /\ call'[c].end = end

Posted(p, pc, by, id, status) ==
    /\ \A r \in Posts \ {p} : post'[r] = post[r]
    /\ post'[p].pc = pc /\ post'[p].by = by /\ post'[p].id = id /\ post'[p].status = status

\* The steps of a call, as the code sets pc, ctx, sender and end.
LEMMA CallGateDoes ==
    ASSUME CallsTyped, NEW c \in Calls, NEW s \in Sessions, NEW public \in BOOLEAN, CallGate(c, s, public)
    PROVE  /\ call[c].pc = "new" /\ UNCHANGED <<post, inbox>>
           /\ pending' = pending
           /\ (Became(c, "verify", call[c].ctx, call[c].sender, call[c].end)
               \/ Became(c, "done", call[c].ctx, call[c].sender, "refused"))
  BY DEF CallGate, Became, CallsTyped, CallRec

LEMMA CallVerifyDoes ==
    ASSUME CallsTyped, NEW c \in Calls, CallVerify(c)
    PROVE  /\ call[c].pc = "verify" /\ UNCHANGED <<post, inbox>>
           /\ pending' = pending
           /\ \E s \in Sessions \cup {None} : Became(c, "body", s, call[c].sender, call[c].end)
  BY DEF CallVerify, Became, CallsTyped, CallRec

LEMMA BodyEndsDoes ==
    ASSUME CallsTyped, NEW c \in Calls, BodyEnds(c)
    PROVE  /\ call[c].pc = "body" /\ UNCHANGED <<post, inbox>>
           /\ pending' = pending /\ Became(c, "done", call[c].ctx, None, "silent")
  BY DEF BodyEnds, End, Became, CallsTyped, CallRec

LEMMA SampleLookupDoes ==
    ASSUME CallsTyped, ConnectionsTyped, NEW c \in Calls, SampleLookup(c)
    PROVE  /\ call[c].pc = "body" /\ UNCHANGED <<post, inbox>>
           /\ pending' = pending
           /\ \/ \E how \in {"nosession", "noconnection"} : Became(c, "done", call[c].ctx, None, how)
              \/ call[c].ctx # None
                 /\ \E k \in Conns : Became(c, "register", call[c].ctx, k, call[c].end)
  BY NoneAssumption DEF SampleLookup, End, Became, CallsTyped, CallRec, ConnectionsTyped

LEMMA SampleRegisterDoes ==
    ASSUME CallsTyped, NEW c \in Calls, SampleRegister(c)
    PROVE  /\ call[c].pc = "register" /\ UNCHANGED <<post, inbox>>
           /\ pending' = [pending EXCEPT ![c] = call[c].ctx]
           /\ Became(c, "push", call[c].ctx, call[c].sender, call[c].end)
  BY DEF SampleRegister, Became, CallsTyped, CallRec

LEMMA SamplePushDoes ==
    ASSUME CallsTyped, NEW c \in Calls, SamplePush(c)
    PROVE  /\ call[c].pc = "push" /\ UNCHANGED <<post, inbox>>
           /\ pending' = pending
           /\ \/ Became(c, "wait", call[c].ctx, call[c].sender, call[c].end)
              \/ Became(c, "giveup", call[c].ctx, call[c].sender, "undelivered")
  BY DEF SamplePush, Became, CallsTyped, CallRec

LEMMA SampleAnsweredDoes ==
    ASSUME CallsTyped, NEW c \in Calls, SampleAnswered(c)
    PROVE  /\ call[c].pc = "wait" /\ inbox[c] # None /\ UNCHANGED <<post, inbox>>
           /\ pending' = pending
           /\ Became(c, "done", call[c].ctx, None, "answered")
  BY DEF SampleAnswered, End, Became, CallsTyped, CallRec

LEMMA SampleTimeoutDoes ==
    ASSUME CallsTyped, NEW c \in Calls, SampleTimeout(c)
    PROVE  /\ call[c].pc = "wait" /\ UNCHANGED <<post, inbox>>
           /\ pending' = pending
           /\ Became(c, "giveup", call[c].ctx, call[c].sender, "timeout")
  BY DEF SampleTimeout, Became, CallsTyped, CallRec

LEMMA SampleGiveUpDoes ==
    ASSUME CallsTyped, NEW c \in Calls, SampleGiveUp(c)
    PROVE  /\ call[c].pc = "giveup" /\ UNCHANGED <<post, inbox>>
           /\ pending' = [pending EXCEPT ![c] = None]
           /\ Became(c, "done", call[c].ctx, None, call[c].end)
  BY DEF SampleGiveUp, End, Became, CallsTyped, CallRec

\* The steps of a response.
LEMMA PostVerifyDoes ==
    ASSUME PostsTyped, NEW p \in Posts, NEW s \in Sessions, NEW c \in Calls, PostVerify(p, s, c)
    PROVE  /\ post[p].pc = "new" /\ call[c].pc \in Sampling
           /\ pending' = pending /\ UNCHANGED call /\ inbox' = inbox
           /\ (Posted(p, "verified", s, c, 0) \/ Posted(p, "done", s, c, 401))
  BY DEF PostVerify, Posted, PostsTyped, PostRec, Sampling

LEMMA PostTakeDoes ==
    ASSUME PostsTyped, NEW p \in Posts, PostTake(p)
    PROVE  /\ post[p].pc = "verified" /\ UNCHANGED call /\ inbox' = inbox
           /\ \/ /\ pending[post[p].id] = post[p].by /\ pending' = [pending EXCEPT ![post[p].id] = None]
                 /\ Posted(p, "send", post[p].by, post[p].id, post[p].status)
              \/ pending' = pending /\ Posted(p, "done", post[p].by, post[p].id, 404)
  BY DEF PostTake, Posted, PostsTyped, PostRec

LEMMA PostSendDoes ==
    ASSUME PostsTyped, NEW p \in Posts, PostSend(p)
    PROVE  /\ post[p].pc = "send"
           /\ pending' = pending /\ UNCHANGED call /\ inbox' = [inbox EXCEPT ![post[p].id] = p]
           /\ Posted(p, "done", post[p].by, post[p].id, 200)
  BY DEF PostSend, Posted, PostsTyped, PostRec
----------------------------------------------------------------------------
(* Calls and responses.                                                    *)

\* sample registers, pushes, waits and cleans up in this order.
LEMMA CallKept == ASSUME IInv, [Next]_vars PROVE CallInv'
<1>. USE NoneAssumption DEF IInv, TypeOK, TableTyped, CallInv, PostInv, Sampling, Became
<1>1. ASSUME NEW c \in Calls, NEW s \in Sessions, NEW public \in BOOLEAN, CallGate(c, s, public) PROVE CallInv'
  BY <1>1, CallGateDoes
<1>2. ASSUME NEW c \in Calls, CallVerify(c) PROVE CallInv'
  BY <1>2, CallVerifyDoes
<1>3. ASSUME NEW c \in Calls, BodyEnds(c) PROVE CallInv'
  BY <1>3, BodyEndsDoes
<1>4. ASSUME NEW c \in Calls, SampleLookup(c) PROVE CallInv'
  BY <1>4, SampleLookupDoes
<1>5. ASSUME NEW c \in Calls, SampleRegister(c) PROVE CallInv'
  BY <1>5, SampleRegisterDoes
<1>6. ASSUME NEW c \in Calls, SamplePush(c) PROVE CallInv'
  BY <1>6, SamplePushDoes
<1>7. ASSUME NEW c \in Calls, SampleAnswered(c) PROVE CallInv'
  <2>1. pending[c] = None
    BY <1>7, SampleAnsweredDoes DEF TakenInv, Taken, PostsTyped
  <2>. QED  BY <1>7, <2>1, SampleAnsweredDoes
<1>8. ASSUME NEW c \in Calls, SampleTimeout(c) PROVE CallInv'
  BY <1>8, SampleTimeoutDoes
<1>9. ASSUME NEW c \in Calls, SampleGiveUp(c) PROVE CallInv'
  BY <1>9, SampleGiveUpDoes
<1>10. ASSUME NEW p \in Posts, NEW s \in Sessions, NEW c \in Calls, PostVerify(p, s, c) PROVE CallInv'
  BY <1>10, PostVerifyDoes, PostFrame
<1>11. ASSUME NEW p \in Posts, PostTake(p) PROVE CallInv'
  BY <1>11, PostTakeDoes
<1>12. ASSUME NEW p \in Posts, PostSend(p) PROVE CallInv'
  BY <1>12, PostSendDoes
<1>13. CASE UNCHANGED <<call, pending>>
  BY <1>13
<1>14. SessionStep \/ ConnStep \/ UNCHANGED vars => UNCHANGED <<call, pending>>
  BY SessionFrame, ConnFrame DEF vars
<1>15. CASE CallStep
  BY <1>1, <1>2, <1>3, <1>4, <1>5, <1>6, <1>7, <1>8, <1>9, <1>15 DEF CallStep, Call, Sample
<1>16. CASE PostStep
  BY <1>10, <1>11, <1>12, <1>16 DEF PostStep, Correlate
<1>. QED  BY <1>13, <1>14, <1>15, <1>16, StepCases

\* A response belongs to the call that registered its id.
LEMMA PostKept == ASSUME IInv, [Next]_vars PROVE PostInv'
<1>. USE NoneAssumption DEF IInv, TypeOK, CallInv, PostInv, TakenInv, Taken, Sampling, Sampled, Became, Posted
<1>1. ASSUME NEW c \in Calls, NEW s \in Sessions, NEW public \in BOOLEAN, CallGate(c, s, public) PROVE PostInv'
  BY <1>1, CallGateDoes
<1>2. ASSUME NEW c \in Calls, CallVerify(c) PROVE PostInv'
  BY <1>2, CallVerifyDoes
<1>3. ASSUME NEW c \in Calls, BodyEnds(c) PROVE PostInv'
  BY <1>3, BodyEndsDoes
<1>4. ASSUME NEW c \in Calls, SampleLookup(c) PROVE PostInv'
  BY <1>4, SampleLookupDoes
<1>5. ASSUME NEW c \in Calls, SampleRegister(c) PROVE PostInv'
  BY <1>5, SampleRegisterDoes
<1>6. ASSUME NEW c \in Calls, SamplePush(c) PROVE PostInv'
  BY <1>6, SamplePushDoes
<1>7. ASSUME NEW c \in Calls, SampleAnswered(c) PROVE PostInv'
  BY <1>7, SampleAnsweredDoes
<1>8. ASSUME NEW c \in Calls, SampleTimeout(c) PROVE PostInv'
  BY <1>8, SampleTimeoutDoes
<1>9. ASSUME NEW c \in Calls, SampleGiveUp(c) PROVE PostInv'
  BY <1>9, SampleGiveUpDoes
<1>10. ASSUME NEW p \in Posts, NEW s \in Sessions, NEW c \in Calls, PostVerify(p, s, c) PROVE PostInv'
  <2>. USE <1>10, PostVerifyDoes
  <2>1. \A r \in Posts : r # p => post'[r] = post[r]  OBVIOUS
  <2>2. /\ post'[p].id = c /\ post'[p].by = s
        /\ \/ post'[p].pc = "verified" /\ post'[p].status = 0
           \/ post'[p].pc = "done" /\ post'[p].status = 401
    OBVIOUS
  <2>3. call[c].pc \in Sampling /\ call[c].end \in Sampled  OBVIOUS
  <2>4. \A d \in Calls : inbox[d] # None => inbox[d] \in Posts \ {p}
    BY DEF PostsTyped
  <2>. QED  BY <2>1, <2>2, <2>3, <2>4
<1>11. ASSUME NEW p \in Posts, PostTake(p) PROVE PostInv'
  <2>. USE <1>11, PostTakeDoes
  <2>1. \A r \in Posts : r # p => post'[r] = post[r]  OBVIOUS
  <2>2. \A d \in Calls : inbox[d] # None => inbox[d] \in Posts \ {p}
    BY DEF PostsTyped
  <2>3. \/ /\ post'[p].pc = "send" /\ post'[p].status = 0
           /\ post[p].by = call[post[p].id].ctx
        \/ post'[p].pc = "done" /\ post'[p].status = 404
    OBVIOUS
  <2>4. post'[p].id = post[p].id /\ post'[p].by = post[p].by  OBVIOUS
  <2>. QED  BY <2>1, <2>2, <2>3, <2>4
<1>12. ASSUME NEW p \in Posts, PostSend(p) PROVE PostInv'
  <2>. USE <1>12, PostSendDoes
  <2>. DEFINE c == post[p].id
  <2>1. c \in Calls /\ p \in Taken(c)  OBVIOUS
  <2>2. \A r \in Posts : r # p => post'[r] = post[r]  OBVIOUS
  <2>3. /\ post'[p].pc = "done" /\ post'[p].status = 200
        /\ post'[p].id = c /\ post'[p].by = post[p].by /\ post[p].by = call[c].ctx
    OBVIOUS
  <2>4. inbox'[c] = p /\ \A d \in Calls : d # c => inbox'[d] = inbox[d]
    BY <2>1 DEF PostsTyped
  <2>5. \A r \in Posts : r # p /\ post[r].status = 200 => post[r].id # c
    BY <2>1
  <2>6. \A d \in Calls : d # c /\ inbox[d] # None => inbox[d] \in Posts \ {p}
    BY DEF PostsTyped
  <2>7. ASSUME NEW r \in Posts, post'[r].status = 200 PROVE inbox'[post'[r].id] = r
    BY <2>1, <2>2, <2>3, <2>4, <2>5, <2>7
  <2>8. \A d \in Calls : inbox'[d] # None => post'[inbox'[d]].id = d /\ post'[inbox'[d]].status = 200
    BY <2>2, <2>3, <2>4, <2>6
  <2>. QED  BY <2>1, <2>2, <2>3, <2>7, <2>8
<1>13. CASE UNCHANGED <<call, post, inbox>>
  BY <1>13
<1>14. SessionStep \/ ConnStep \/ UNCHANGED vars => UNCHANGED <<call, post, inbox>>
  BY SessionFrame, ConnFrame DEF vars
<1>15. CASE CallStep
  BY <1>1, <1>2, <1>3, <1>4, <1>5, <1>6, <1>7, <1>8, <1>9, <1>15 DEF CallStep, Call, Sample
<1>16. CASE PostStep
  BY <1>10, <1>11, <1>12, <1>16 DEF PostStep, Correlate
<1>. QED  BY <1>13, <1>14, <1>15, <1>16, StepCases

\* Registering puts an id into the table, one response or the sample takes it out.
LEMMA TakenKept == ASSUME IInv, [Next]_vars PROVE TakenInv'
<1>. USE NoneAssumption DEF IInv, TypeOK, TableTyped, CallInv, PostInv, TakenInv, Taken, Sampling, Became, Posted
<1>1. ASSUME NEW c \in Calls, NEW s \in Sessions, NEW public \in BOOLEAN, CallGate(c, s, public) PROVE TakenInv'
  BY <1>1, CallGateDoes
<1>2. ASSUME NEW c \in Calls, CallVerify(c) PROVE TakenInv'
  BY <1>2, CallVerifyDoes
<1>3. ASSUME NEW c \in Calls, BodyEnds(c) PROVE TakenInv'
  BY <1>3, BodyEndsDoes
<1>4. ASSUME NEW c \in Calls, SampleLookup(c) PROVE TakenInv'
  BY <1>4, SampleLookupDoes
<1>5. ASSUME NEW c \in Calls, SampleRegister(c) PROVE TakenInv'
  BY <1>5, SampleRegisterDoes
<1>6. ASSUME NEW c \in Calls, SamplePush(c) PROVE TakenInv'
  BY <1>6, SamplePushDoes
<1>7. ASSUME NEW c \in Calls, SampleAnswered(c) PROVE TakenInv'
  BY <1>7, SampleAnsweredDoes
<1>8. ASSUME NEW c \in Calls, SampleTimeout(c) PROVE TakenInv'
  BY <1>8, SampleTimeoutDoes
<1>9. ASSUME NEW c \in Calls, SampleGiveUp(c) PROVE TakenInv'
  BY <1>9, SampleGiveUpDoes
<1>10. ASSUME NEW p \in Posts, NEW s \in Sessions, NEW c \in Calls, PostVerify(p, s, c) PROVE TakenInv'
  BY <1>10, PostVerifyDoes
<1>11. ASSUME NEW p \in Posts, PostTake(p) PROVE TakenInv'
  BY <1>11, PostTakeDoes
<1>12. ASSUME NEW p \in Posts, PostSend(p) PROVE TakenInv'
  BY <1>12, PostSendDoes
<1>13. CASE UNCHANGED <<call, post, pending>>
  BY <1>13
<1>14. SessionStep \/ ConnStep \/ UNCHANGED vars => UNCHANGED <<call, post, pending>>
  BY SessionFrame, ConnFrame DEF vars
<1>15. CASE CallStep
  BY <1>1, <1>2, <1>3, <1>4, <1>5, <1>6, <1>7, <1>8, <1>9, <1>15 DEF CallStep, Call, Sample
<1>16. CASE PostStep
  BY <1>10, <1>11, <1>12, <1>16 DEF PostStep, Correlate
<1>. QED  BY <1>13, <1>14, <1>15, <1>16, StepCases

----------------------------------------------------------------------------
\* The calls, the table and the responses keep their types.
LEMMA TrafficTyped == ASSUME IInv, [Next]_vars PROVE CallsTyped' /\ TableTyped' /\ PostsTyped'
<1>. DEFINE Goal == CallsTyped /\ TableTyped /\ PostsTyped
<1>. USE NoneAssumption DEF IInv, TypeOK, CallsTyped, TableTyped, PostsTyped
<1>1. ASSUME NEW c \in Calls, NEW s \in Sessions, NEW public \in BOOLEAN, CallGate(c, s, public) PROVE Goal'
  <2>1. call' \in [Calls -> CallRec]
    BY <1>1 DEF CallGate, CallRec, CallEnds
  <2>2. TableTyped' /\ UNCHANGED <<post, inbox>>
    BY <1>1 DEF CallGate, CallRec
  <2>. QED  BY <2>1, <2>2
<1>2. ASSUME NEW c \in Calls, CallVerify(c) PROVE Goal'
  <2>1. call' \in [Calls -> CallRec]
    <3>1. call' = [call EXCEPT ![c] =
                     [call[c] EXCEPT !.pc = "body",
                                     !.ctx = IF Verifies(call[c].token) THEN call[c].token ELSE None]]
      BY <1>2 DEF CallVerify
    <3>2. call[c] \in CallRec /\ call[c].token \in Sessions \cup {None}
      BY DEF CallRec
    <3>3. CallEnds # {}  BY DEF CallEnds
    <3>. QED  BY <3>1, <3>2, <3>3, CallFields
  <2>2. TableTyped' /\ UNCHANGED <<post, inbox>>
    BY <1>2 DEF CallVerify, CallRec
  <2>. QED  BY <2>1, <2>2
<1>3. ASSUME NEW c \in Calls, BodyEnds(c) PROVE Goal'
  <2>1. call' \in [Calls -> CallRec]
    <3>1. call' = [call EXCEPT ![c] = [call[c] EXCEPT !.pc = "done", !.sender = None, !.end = "silent"]]
      BY <1>3 DEF BodyEnds, End
    <3>2. call[c] \in CallRec /\ "silent" \in CallEnds
      BY DEF CallEnds
    <3>. QED  BY <3>1, <3>2, CallFields
  <2>2. TableTyped' /\ UNCHANGED <<post, inbox>>
    BY <1>3 DEF BodyEnds, CallRec
  <2>. QED  BY <2>1, <2>2
<1>4. ASSUME NEW c \in Calls, SampleLookup(c) PROVE Goal'
  <2>1. call' \in [Calls -> CallRec]
    BY <1>4 DEF SampleLookup, End, CallRec, CallEnds, ConnectionsTyped
  <2>2. TableTyped' /\ UNCHANGED <<post, inbox>>
    BY <1>4 DEF SampleLookup, CallRec
  <2>. QED  BY <2>1, <2>2
<1>5. ASSUME NEW c \in Calls, SampleRegister(c) PROVE Goal'
  <2>1. call' \in [Calls -> CallRec]
    BY <1>5 DEF SampleRegister, CallRec, CallEnds
  <2>2. TableTyped' /\ UNCHANGED <<post, inbox>>
    BY <1>5 DEF SampleRegister, CallRec
  <2>. QED  BY <2>1, <2>2
<1>6. ASSUME NEW c \in Calls, SamplePush(c) PROVE Goal'
  <2>1. call' \in [Calls -> CallRec]
    BY <1>6 DEF SamplePush, CallRec, CallEnds
  <2>2. TableTyped' /\ UNCHANGED <<post, inbox>>
    BY <1>6 DEF SamplePush, CallRec
  <2>. QED  BY <2>1, <2>2
<1>7. ASSUME NEW c \in Calls, SampleAnswered(c) PROVE Goal'
  <2>1. call' \in [Calls -> CallRec]
    <3>1. call' = [call EXCEPT ![c] = [call[c] EXCEPT !.pc = "done", !.sender = None, !.end = "answered"]]
      BY <1>7 DEF SampleAnswered, End
    <3>2. call[c] \in CallRec /\ "answered" \in CallEnds
      BY DEF CallEnds
    <3>. QED  BY <3>1, <3>2, CallFields
  <2>2. TableTyped' /\ UNCHANGED <<post, inbox>>
    BY <1>7 DEF SampleAnswered, CallRec
  <2>. QED  BY <2>1, <2>2
<1>8. ASSUME NEW c \in Calls, SampleTimeout(c) PROVE Goal'
  <2>1. call' \in [Calls -> CallRec]
    <3>1. call' = [call EXCEPT ![c] = [call[c] EXCEPT !.pc = "giveup", !.end = "timeout"]]
      BY <1>8 DEF SampleTimeout
    <3>2. call[c] \in CallRec /\ "timeout" \in CallEnds
      BY DEF CallEnds
    <3>. QED  BY <3>1, <3>2, CallFields
  <2>2. TableTyped' /\ UNCHANGED <<post, inbox>>
    BY <1>8 DEF SampleTimeout, CallRec
  <2>. QED  BY <2>1, <2>2
<1>9. ASSUME NEW c \in Calls, SampleGiveUp(c) PROVE Goal'
  <2>1. call' \in [Calls -> CallRec]
    <3>1. call' = [call EXCEPT ![c] = [call[c] EXCEPT !.pc = "done", !.sender = None, !.end = call[c].end]]
      BY <1>9 DEF SampleGiveUp, End
    <3>2. call[c] \in CallRec /\ call[c].end \in CallEnds
      BY <1>9 DEF CallRec, CallInv, CallEnds, SampleGiveUp
    <3>. QED  BY <3>1, <3>2, CallFields
  <2>2. TableTyped' /\ UNCHANGED <<post, inbox>>
    BY <1>9 DEF SampleGiveUp, CallRec
  <2>. QED  BY <2>1, <2>2
<1>10. ASSUME NEW p \in Posts, NEW s \in Sessions, NEW c \in Calls, PostVerify(p, s, c) PROVE Goal'
  <2>1. post' \in [Posts -> PostRec]
    BY <1>10 DEF PostVerify, PostRec
  <2>2. TableTyped' /\ UNCHANGED call /\ inbox' \in [Calls -> Posts \cup {None}]
    BY <1>10 DEF PostVerify, PostInv
  <2>. QED  BY <2>1, <2>2
<1>11. ASSUME NEW p \in Posts, PostTake(p) PROVE Goal'
  <2>1. post' \in [Posts -> PostRec]
    BY <1>11 DEF PostTake, PostRec
  <2>2. TableTyped' /\ UNCHANGED call /\ inbox' \in [Calls -> Posts \cup {None}]
    BY <1>11 DEF PostTake, PostInv
  <2>. QED  BY <2>1, <2>2
<1>12. ASSUME NEW p \in Posts, PostSend(p) PROVE Goal'
  <2>1. post' \in [Posts -> PostRec]
    <3>1. post' = [post EXCEPT ![p] = [post[p] EXCEPT !.pc = "done", !.status = 200]]
      BY <1>12 DEF PostSend
    <3>. QED  BY <3>1, PostFields
  <2>2. TableTyped' /\ UNCHANGED call /\ inbox' \in [Calls -> Posts \cup {None}]
    BY <1>12 DEF PostSend, PostInv
  <2>. QED  BY <2>1, <2>2
<1>13. CASE UNCHANGED <<call, pending, post, inbox>>
  BY <1>13
<1>14. SessionStep \/ ConnStep \/ UNCHANGED vars => UNCHANGED <<call, pending, post, inbox>>
  BY SessionFrame, ConnFrame DEF vars
<1>15. CASE CallStep
  BY <1>1, <1>2, <1>3, <1>4, <1>5, <1>6, <1>7, <1>8, <1>9, <1>15 DEF CallStep, Call, Sample
<1>16. CASE PostStep
  BY <1>10, <1>11, <1>12, <1>16 DEF PostStep, Correlate
<1>. QED  BY <1>13, <1>14, <1>15, <1>16, StepCases
----------------------------------------------------------------------------
(* The theorems.                                                           *)

\* Sessions, connections, calls and responses agree with each other.
THEOREM Invariance == Spec => []IInv
<1>1. IInv /\ [Next]_vars => IInv'
  BY SessionKept, ConnectionKept, QueuesKept, TrafficTyped, CallKept, PostKept, TakenKept DEF IInv, TypeOK
<1>. QED  BY InitIInv, <1>1, PTL DEF Spec

\* Every variable keeps its type, and no channel exceeds CONNECTION_BUFFER.
THEOREM TypeCorrect == Spec => []TypeOK
<1>1. IInv => TypeOK  BY DEF IInv
<1>. QED  BY Invariance, <1>1, PTL

\* McpSharedState::pending holds the ids of waiting samples, each for its own
\* session, and an id that is gone was taken by one response.
THEOREM CorrelationCorrect == Spec => []CorrelationAccounted
<1>1. IInv => CorrelationAccounted
  BY DEF IInv, CallInv, TakenInv, CorrelationAccounted, Sampling
<1>. QED  BY Invariance, <1>1, PTL

\* A response told "delivered" is the one of its id and reached its sample.
THEOREM DeliveryCorrect == Spec => []DeliveredIsTrue
<1>1. ASSUME IInv PROVE DeliveredIsTrue
  <2>. SUFFICES ASSUME NEW p \in Posts, post[p].status = 200
                PROVE  /\ Taken(post[p].id) = {p} /\ post[p].by = call[post[p].id].ctx
                       /\ inbox[post[p].id] = p
                       /\ call[post[p].id].end \in Sampled
    BY DEF DeliveredIsTrue, Sampled
  <2>1. post[p].id \in Calls
    BY <1>1, NoneAssumption DEF IInv, PostInv
  <2>2. p \in Taken(post[p].id) /\ \A q \in Taken(post[p].id) : q = p
    BY <1>1, <2>1 DEF IInv, TakenInv, Taken
  <2>. QED  BY <1>1, <2>1, <2>2, NoneAssumption DEF IInv, PostInv
<1>. QED  BY Invariance, <1>1, PTL

\* McpSharedState::connections names a served connection of the session, the
\* newest one unless the thread of an older one removed it.
THEOREM ConnectionsCorrect == Spec => []ConnectionsAccounted
<1>1. IInv => ConnectionsAccounted
  BY DEF IInv, ConnectionInv, ConnectionsAccounted
<1>. QED  BY Invariance, <1>1, PTL

\* handle_initialize copies the user of the bearer, unless the bearer ended meanwhile.
THEOREM IdentityCorrect == Spec => []IdentityCopied
<1>1. IInv => IdentityCopied
  BY DEF IInv, SessionInv, IdentityCopied
<1>. QED  BY Invariance, <1>1, PTL
=============================================================================
