--------------------------- MODULE UpstreamForward ----------------------------
(***************************************************************************)
(* What one worker does with the client connections that it serves one     *)
(* after the other: the keep-alive loop of HttpCoreService, the request    *)
(* timeout of RouteAndFilter, the forwarder with its connection pool and   *)
(* its mirror tasks, and the WebSocket tunnel (proxy-core/src/pipeline.rs, *)
(* pool.rs).                                                               *)
(*                                                                         *)
(* A plan is what routing made of a request: the decision and the filters  *)
(* and timeouts of the rule (Routing, Filters).  A request has one         *)
(* response (no 1xx comes before it): a head and perhaps a body in any     *)
(* number of pieces, which all say which request they answer; the code     *)
(* cannot see that.  The environment is the clients, the backends, the     *)
(* clock and the parts of monoio-transports and monoio-http that the code  *)
(* uses: the pool takes back every connection whose Pooled is dropped, as  *)
(* far as it has room, hands it out to the next who asks for its address,  *)
(* and is_open, which asks for a cached address, is true of each of them.  *)
(***************************************************************************)
EXTENDS Integers, Sequences, FiniteSets, SequencesExt

CONSTANTS
    Addrs,          \* socket addresses of backends
    Unresolved,     \* a backend that the resolver does not know
    Conns,          \* TCP connections to backends
    Main,           \* the task of the worker
    Mirrors,        \* the mirror tasks there may be at once
    Plans,          \* what routing may make of a request
    MaxIdle,        \* max_idle of the pool, per address
    MaxRequests,    \* bound: the requests that are taken
    MaxFaults       \* bound: backend connections that close or cannot be made

Tasks == {Main} \cup Mirrors
Requests == 1 .. MaxRequests

Backend == [weight : Nat, addr : Addrs \cup {Unresolved}, h2c : BOOLEAN]
Mirror == [percent : Nat, addr : Addrs \cup {Unresolved}]
Plan == [decision : {"not_found", "redirect", "forward"}, backends : Seq(Backend),
         mirrors : Seq(Mirror), requestTimeout : BOOLEAN, backendTimeout : BOOLEAN]

ASSUME NameAssumption == Main \notin Mirrors /\ Unresolved \notin Addrs
ASSUME PlanAssumption == Plans \subseteq Plan
ASSUME BoundAssumption == MaxIdle \in Nat /\ MaxRequests \in Nat /\ MaxFaults \in Nat

VARIABLES
    session,    \* what the worker does with its client
    request,    \* the requests taken so far: the number of the last
    plan,       \* the plan of that request, while the worker serves it
    reply,      \* the response that is to be sent
    pc,         \* where each task is in forward_via_codec
    job,        \* what each task forwards, and where
    using,      \* the connection it has taken from the pool, if any
    took,       \* the request whose response head it has read, if any
    at,         \* the address of a connection, if there is one
    closed,     \* connections that the backend has closed
    inbox,      \* requests on it that the backend has not answered
    owed,       \* the request whose body the backend has yet to send, or 0
    stream,     \* what the backend has sent and nobody has read
    cut,        \* connections given back before a response was read to its end
    idle,       \* the pool
    copying,    \* the directions of the tunnel that are still copied
    ends,       \* the sides of the tunnel that have closed
    faults
client == <<session, request, plan, reply>>
tasks == <<pc, job, using, took>>
network == <<at, closed, inbox, owed, stream, cut>>
tunnel == <<copying, ends>>
vars == <<client, tasks, network, idle, tunnel, faults>>

-----------------------------------------------------------------------------
(* Weighted choice of a backend.                                           *)

\* What the weights of the first n backends come to.  (The u32 does not overflow for
\* what the API server admits, at most 16 weights of at most 1000000.)
Shares(bs) ==
    LET sum[n \in 0 .. Len(bs)] == IF n = 0 THEN 0 ELSE sum[n - 1] + bs[n].weight IN sum
TotalWeight(bs) == Shares(bs)[Len(bs)]

\* Bug: the backend at the edge of a share is passed over.
TryOffByOne(bs, s, n) ==
    IF s.found # 0 \/ bs[n].weight = 0 THEN s
    ELSE IF s.left <= bs[n].weight THEN [s EXCEPT !.found = n]
         ELSE [s EXCEPT !.left = @ - bs[n].weight]

\* A turn of the loop of select_backend, and the turns up to the n-th.
Try(bs, s, n) ==
    IF s.found # 0 \/ bs[n].weight = 0 THEN s
    ELSE IF s.left < bs[n].weight THEN [s EXCEPT !.found = n]
         ELSE [s EXCEPT !.left = @ - bs[n].weight]
Tries(bs, pick) ==
    LET try[n \in 0 .. Len(bs)] ==
            IF n = 0 THEN [left |-> pick, found |-> 0] ELSE Try(bs, try[n - 1], n)
    IN try

\* The position that select_backend returns when the random number is pick.
SelectBackend(bs, pick) == Tries(bs, pick)[Len(bs)].found

Picks(bs) == 0 .. TotalWeight(bs) - 1
Selectable(bs) == {i \in DOMAIN bs : \E pick \in Picks(bs) : SelectBackend(bs, pick) = i}

-----------------------------------------------------------------------------
(* The pool.                                                               *)

\* The limit is the pool's own: this code only gives it the number.
Room(c) == Cardinality({d \in idle : at[d] = at[c]}) < MaxIdle

\* c is closed: its slot in the model is free again.
Drop(c) ==
    /\ at' = [at EXCEPT ![c] = {}]
    /\ closed' = closed \ {c}
    /\ inbox' = [inbox EXCEPT ![c] = <<>>]
    /\ owed' = [owed EXCEPT ![c] = 0]
    /\ stream' = [stream EXCEPT ![c] = <<>>]
    /\ cut' = cut \ {c}
    /\ UNCHANGED idle

\* c is kept.  The codec that is dropped may have read ahead: what it had
\* buffered of the rest of the stream is lost.
Keep(c, rest, whole) ==
    /\ idle' = idle \cup {c}
    /\ cut' = IF whole THEN cut ELSE cut \cup {c}
    /\ \E n \in 0 .. Len(rest) :
           stream' = [stream EXCEPT ![c] = SubSeq(rest, n + 1, Len(rest))]
    /\ UNCHANGED <<at, closed, inbox, owed>>

\* The Pooled of c is dropped, with the rest of its stream unread and after a
\* whole response was read from it or not.
GiveBack(c, rest, whole) == IF Room(c) THEN Keep(c, rest, whole) ELSE Drop(c)

-----------------------------------------------------------------------------
(* The session of the client.                                              *)

NoPlan == [decision |-> "not_found", backends |-> <<>>, mirrors |-> <<>>,
           requestTimeout |-> FALSE, backendTimeout |-> FALSE]
NoJob == [req |-> 0, addr |-> Unresolved, timed |-> FALSE]
NoReply == [status |-> "none", of |-> 0, whole |-> TRUE]

Local(status) == [status |-> status, of |-> 0, whole |-> TRUE]

Init ==
    /\ session = "none" /\ request = 0 /\ plan = NoPlan /\ reply = NoReply
    /\ pc = [t \in Tasks |-> "idle"] /\ job = [t \in Tasks |-> NoJob]
    /\ using = [t \in Tasks |-> {}] /\ took = [t \in Tasks |-> 0]
    /\ at = [c \in Conns |-> {}] /\ closed = {} /\ inbox = [c \in Conns |-> <<>>]
    /\ owed = [c \in Conns |-> 0] /\ stream = [c \in Conns |-> <<>>] /\ cut = {}
    /\ idle = {} /\ copying = {} /\ ends = {} /\ faults = 0

\* The connection that the worker accepts, or has waited for, is served.
AcceptClient ==
    /\ session = "none"
    /\ session' = "head"
    /\ UNCHANGED <<request, plan, reply, tasks, network, idle, tunnel, faults>>

\* The client goes away, or sends what is no request: the session is over.
Hangup ==
    /\ session \in {"head", "next"}
    /\ session' = "none"
    /\ UNCHANGED <<request, plan, reply, tasks, network, idle, tunnel, faults>>

\* The first head of a connection is no upgrade: the codec reads it again.
ReadHead ==
    /\ session = "head"
    /\ session' = "next"
    /\ UNCHANGED <<request, plan, reply, tasks, network, idle, tunnel, faults>>

\* A mirror that the percentage lets through and the resolver knows is spawned.
Sampled(m) == m.percent > 0
Certain(m) == m.percent >= 100
Spawned(ms) ==
    {S \in SUBSET DOMAIN ms :
        /\ \A i \in S : Sampled(ms[i]) /\ ms[i].addr # Unresolved
        /\ \A i \in DOMAIN ms \ S : ~Certain(ms[i]) \/ ms[i].addr = Unresolved}

\* What the worker and its new mirror tasks do once p is forwarded to b.
Forward(p, b) ==
    \E S \in Spawned(p.mirrors) :
    \E task \in [S -> {t \in Mirrors : pc[t] = "idle"}] :
        /\ \A i, j \in S : task[i] = task[j] => i = j
        /\ session' = "call" /\ UNCHANGED reply
        /\ pc' = [t \in Tasks |->
                    IF t = Main THEN IF b.h2c THEN "h2" ELSE "connect"
                    ELSE IF \E i \in S : task[i] = t THEN "connect" ELSE pc[t]]
        /\ job' = [t \in Tasks |->
                    IF t = Main
                    THEN [req |-> request + 1, addr |-> b.addr, timed |-> p.backendTimeout]
                    ELSE IF \E i \in S : task[i] = t
                         THEN [req |-> request + 1, timed |-> FALSE,
                               addr |-> p.mirrors[CHOOSE i \in S : task[i] = t].addr]
                         ELSE job[t]]

\* The worker answers by itself.
Answer(status) ==
    /\ session' = "reply" /\ reply' = Local(status)
    /\ UNCHANGED <<pc, job>>

\* The request is taken from the codec, routed and, up to the first wait for the
\* network, forwarded.
TakeRequest ==
    /\ session = "next" /\ request < MaxRequests
    /\ request' = request + 1
    /\ \E p \in Plans :
        /\ plan' = p
        /\ \/ p.decision = "not_found" /\ Answer("404")
           \/ p.decision = "redirect" /\ Answer("redirect")
           \/ /\ p.decision = "forward" /\ TotalWeight(p.backends) = 0
              /\ Answer("503")
           \/ /\ p.decision = "forward"
              /\ \E i \in Selectable(p.backends) :
                    IF p.backends[i].addr = Unresolved
                    THEN Answer("502")
                    ELSE Forward(p, p.backends[i])
    /\ UNCHANGED <<using, took, network, idle, tunnel, faults>>

\* The response is written to the client, which may have gone away.
Reply ==
    /\ session = "reply"
    /\ session' \in {"next", "none"}
    /\ plan' = NoPlan /\ reply' = NoReply
    /\ UNCHANGED <<request, tasks, network, idle, tunnel, faults>>

-----------------------------------------------------------------------------
(* forward_via_codec, by the worker and by its mirror tasks.               *)

Token(of, part) == [of |-> of, part |-> part]

\* Bug: a task that is done does not let go of its connection.
FinishHolding(t) ==
    /\ pc' = [pc EXCEPT ![t] = "idle"]
    /\ job' = [job EXCEPT ![t] = NoJob]
    /\ using' = using
    /\ took' = [took EXCEPT ![t] = 0]
    /\ IF t = Main THEN session' = "reply" ELSE UNCHANGED session
    /\ UNCHANGED <<request, plan, tunnel>>

\* Task t is done.  The worker has its response; that of a mirror is discarded.
Finish(t) ==
    /\ pc' = [pc EXCEPT ![t] = "idle"]
    /\ job' = [job EXCEPT ![t] = NoJob]
    /\ using' = [using EXCEPT ![t] = {}]
    /\ took' = [took EXCEPT ![t] = 0]
    /\ IF t = Main THEN session' = "reply" ELSE UNCHANGED session
    /\ UNCHANGED <<request, plan, tunnel>>

\* ... with an error: the worker answers by itself.
Fail(t, status) ==
    /\ Finish(t)
    /\ reply' = IF t = Main THEN Local(status) ELSE reply

\* Bug: the response to a mirrored request is taken for the answer.
SucceedForAll(t, of, whole) ==
    /\ Finish(t)
    /\ reply' = [status |-> "backend", of |-> of, whole |-> whole]

\* ... with the response to request of, the whole of it or what there was.
Succeed(t, of, whole) ==
    /\ Finish(t)
    /\ reply' = IF t = Main THEN [status |-> "backend", of |-> of, whole |-> whole]
                ELSE reply

\* Bug: the pool hands out a connection and keeps it.
ReuseIdleShared(t) ==
    /\ pc[t] = "connect"
    /\ \E c \in idle :
        /\ at[c] = {job[t].addr}
        /\ using' = [using EXCEPT ![t] = {c}] /\ idle' = idle
    /\ pc' = [pc EXCEPT ![t] = "send"]
    /\ UNCHANGED <<client, job, took, network, tunnel, faults>>

\* The pool hands out any connection to the address, and makes one when it has
\* none.
ReuseIdle(t) ==
    /\ pc[t] = "connect"
    /\ \E c \in idle :
        /\ at[c] = {job[t].addr}
        /\ using' = [using EXCEPT ![t] = {c}] /\ idle' = idle \ {c}
    /\ pc' = [pc EXCEPT ![t] = "send"]
    /\ UNCHANGED <<client, job, took, network, tunnel, faults>>

\* The slots of the model are alike: the new connection has the first that is free.
Free == {c \in Conns : at[c] = {}}
NoneIdle(t) == \A c \in idle : at[c] # {job[t].addr}

ConnectNew(t) ==
    /\ pc[t] = "connect" /\ NoneIdle(t)
    /\ \E c \in Free :
        /\ c = CHOOSE d \in Free : TRUE
        /\ at' = [at EXCEPT ![c] = {job[t].addr}]
        /\ using' = [using EXCEPT ![t] = {c}]
    /\ pc' = [pc EXCEPT ![t] = "send"]
    /\ UNCHANGED <<client, job, took, closed, inbox, owed, stream, cut, idle, tunnel, faults>>

ConnectFails(t) ==
    /\ pc[t] = "connect" /\ NoneIdle(t) /\ faults < MaxFaults
    /\ faults' = faults + 1
    /\ Fail(t, "502")
    /\ UNCHANGED <<network, idle>>

\* The request is written and flushed, if that ever comes to an end: nothing limits it
\* but the timeout of the request.  To a connection that the backend has closed the
\* write may still succeed.
Send(t) ==
    /\ pc[t] = "send"
    /\ \E c \in using[t] :
        inbox' = IF c \in closed THEN inbox
                 ELSE [inbox EXCEPT ![c] = Append(@, job[t].req)]
    /\ pc' = [pc EXCEPT ![t] = "head"]
    /\ UNCHANGED <<client, job, using, took, at, closed, owed, stream, cut, idle,
                   tunnel, faults>>

BrokenPipe(t) ==
    /\ pc[t] = "send"
    /\ \E c \in using[t] : c \in closed /\ GiveBack(c, stream[c], FALSE)
    /\ Fail(t, "502") /\ UNCHANGED faults

\* The head that is read may belong to any request; a response without a body is
\* read to its end.
ReadResponse(t) ==
    /\ pc[t] = "head"
    /\ \E c \in using[t] :
        /\ stream[c] # <<>> /\ Head(stream[c]).part = "head"
        /\ stream' = [stream EXCEPT ![c] = Tail(@)]
        /\ took' = [took EXCEPT ![t] = Head(stream[c]).of]
    /\ pc' = [pc EXCEPT ![t] = "body"]
    /\ UNCHANGED <<client, job, using, at, closed, inbox, owed, cut, idle, tunnel, faults>>

\* What comes is no head, or nothing comes any more.
BadResponse(t) ==
    /\ pc[t] = "head"
    /\ \E c \in using[t] :
        /\ IF stream[c] = <<>> THEN c \in closed ELSE Head(stream[c]).part \in {"piece", "body"}
        /\ GiveBack(c, stream[c], FALSE)
    /\ Fail(t, "502") /\ UNCHANGED faults

\* The response is complete: one without a body with its head, ...
ReadOnly(t) ==
    /\ pc[t] = "head"
    /\ \E c \in using[t] :
        /\ stream[c] # <<>> /\ Head(stream[c]).part = "only"
        /\ GiveBack(c, Tail(stream[c]), TRUE)
        /\ Succeed(t, Head(stream[c]).of, TRUE)
    /\ UNCHANGED faults

\* A turn of the loop over next_data: what has come of the body is read, and the
\* timeout of the backend begins anew.
ReadPiece(t) ==
    /\ pc[t] = "body"
    /\ \E c \in using[t] :
        /\ stream[c] # <<>> /\ Head(stream[c]).part = "piece"
        /\ stream' = [stream EXCEPT ![c] = Tail(@)]
    /\ UNCHANGED <<client, tasks, at, closed, inbox, owed, cut, idle, tunnel, faults>>

\* ... any other with the last piece of its body.
ReadBody(t) ==
    /\ pc[t] = "body"
    /\ \E c \in using[t] :
        /\ stream[c] # <<>> /\ Head(stream[c]).part = "body"
        /\ GiveBack(c, Tail(stream[c]), TRUE)
        /\ Succeed(t, took[t], TRUE)
    /\ UNCHANGED faults

\* Bug: the timeout of the backend is only on the head.
BodyCutShortByClose(t) ==
    /\ pc[t] = "body"
    /\ \E c \in using[t] :
        /\ stream[c] = <<>> /\ c \in closed
        /\ GiveBack(c, <<>>, FALSE)
        /\ Succeed(t, took[t], FALSE)
    /\ UNCHANGED faults

\* The backend closes, or is slow, in the middle of the body: an error ends the
\* loop as the end of the body does, and what there was of it is the response.
BodyCutShort(t) ==
    /\ pc[t] = "body"
    /\ \E c \in using[t] :
        /\ stream[c] = <<>> /\ (c \in closed \/ job[t].timed)
        /\ GiveBack(c, <<>>, FALSE)
        /\ Succeed(t, took[t], FALSE)
    /\ UNCHANGED faults

\* The timeout of the backend, on each read of the codec.
ReadTimeout(t) ==
    /\ pc[t] = "head" /\ job[t].timed
    /\ \E c \in using[t] : stream[c] = <<>> /\ c \notin closed /\ GiveBack(c, <<>>, FALSE)
    /\ Fail(t, "504") /\ UNCHANGED faults

\* An exchange over HTTP/2 uses a connection of its own.
Http2 ==
    /\ pc[Main] = "h2"
    /\ \/ \E whole \in BOOLEAN : Succeed(Main, request, whole)
       \/ Fail(Main, "502")
    /\ UNCHANGED <<network, idle, faults>>

Http2Timeout ==
    /\ pc[Main] = "h2" /\ job[Main].timed
    /\ Fail(Main, "504")
    /\ UNCHANGED <<network, idle, faults>>

\* Bug: the timeout of the request begins once there is a connection.
RequestTimeoutOfExchange ==
    /\ session = "call" /\ plan.requestTimeout /\ pc[Main] \in {"head", "body"}
    /\ \E c \in using[Main] : GiveBack(c, stream[c], FALSE)
    /\ Fail(Main, "504")
    /\ UNCHANGED faults

\* The timeout of the request drops the forwarder wherever it waits, and with it
\* the connection that it has.
RequestTimeout ==
    /\ session = "call" /\ plan.requestTimeout
    /\ IF using[Main] = {} THEN UNCHANGED <<network, idle>>
       ELSE \E c \in using[Main] : GiveBack(c, stream[c], FALSE)
    /\ Fail(Main, "504")
    /\ UNCHANGED faults

-----------------------------------------------------------------------------
(* handle_websocket_upgrade, for the first request of a connection.        *)

\* Routed, and answered with an error unless there is a backend to connect to.
Upgrade ==
    /\ session = "head" /\ request < MaxRequests
    /\ request' = request + 1
    /\ \E p \in Plans :
        IF p.decision = "forward" /\ TotalWeight(p.backends) > 0
        THEN \E i \in Selectable(p.backends) :
                IF p.backends[i].addr = Unresolved
                THEN session' = "last" /\ reply' = Local("502")
                ELSE session' = "upgrade" /\ UNCHANGED reply
        ELSE /\ session' = "last"
             /\ reply' = Local(IF p.decision = "forward" THEN "503" ELSE "502")
    /\ UNCHANGED <<plan, tasks, network, idle, tunnel, faults>>

\* The backend is connected to, without the pool and without a timeout, ...
UpgradeConnects ==
    /\ session = "upgrade"
    /\ \/ session' = "handshake" /\ UNCHANGED reply
       \/ session' = "last" /\ reply' = Local("502")
    /\ UNCHANGED <<request, plan, tasks, network, idle, tunnel, faults>>

\* ... and answers: 101, anything else, which the client gets as it is, or, when
\* it closes instead, nothing, which leaves the client without an answer.
UpgradeAnswered ==
    /\ session = "handshake"
    /\ \/ session' = "tunnel" /\ copying' = {"c2b", "b2c"} /\ UNCHANGED reply
       \/ /\ session' = "last" /\ UNCHANGED copying
          /\ reply' = [status |-> "backend", of |-> request, whole |-> TRUE]
       \/ session' = "none" /\ UNCHANGED <<reply, copying>>
    /\ UNCHANGED <<request, plan, tasks, network, idle, ends, faults>>

\* The answer to an upgrade that fails is the last of its connection.
LastReply ==
    /\ session = "last"
    /\ session' = "none" /\ reply' = NoReply
    /\ UNCHANGED <<request, plan, tasks, network, idle, tunnel, faults>>

\* The two directions of the tunnel, each with its source and its sink.
Directions == {"c2b", "b2c"}
Source(d) == IF d = "c2b" THEN "client" ELSE "backend"
Sink(d) == IF d = "c2b" THEN "backend" ELSE "client"

\* Bug: the end of the backend is not seen.
SourceEndsOfClient(d) ==
    /\ session = "tunnel" /\ d \in copying /\ Source(d) \in ends /\ d = "c2b"
    /\ copying' = copying \ {d}
    /\ UNCHANGED <<client, tasks, network, idle, ends, faults>>

\* A copy ends when its source has: the sink is not told, ...
SourceEnds(d) ==
    /\ session = "tunnel" /\ d \in copying /\ Source(d) \in ends
    /\ copying' = copying \ {d}
    /\ UNCHANGED <<client, tasks, network, idle, ends, faults>>

\* ... or, if the source sends again after the sink has closed, on the write.
SinkFails(d) ==
    /\ session = "tunnel" /\ d \in copying /\ Sink(d) \in ends /\ Source(d) \notin ends
    /\ copying' = copying \ {d}
    /\ UNCHANGED <<client, tasks, network, idle, ends, faults>>

\* join! returns once both copies have.
TunnelOver ==
    /\ session = "tunnel" /\ copying = {}
    /\ session' = "none" /\ ends' = {}
    /\ UNCHANGED <<request, plan, reply, tasks, network, idle, copying, faults>>

-----------------------------------------------------------------------------
(* The environment: backends answer the requests on a connection in order, *)
(* may close it, and each side may close the tunnel.                       *)

Respond(c, part) ==
    /\ c \notin closed /\ owed[c] = 0 /\ inbox[c] # <<>>
    /\ inbox' = [inbox EXCEPT ![c] = Tail(@)]
    /\ stream' = [stream EXCEPT ![c] = Append(@, Token(Head(inbox[c]), part))]
    /\ owed' = [owed EXCEPT ![c] = IF part = "head" THEN Head(inbox[c]) ELSE 0]
    /\ UNCHANGED <<client, tasks, at, closed, cut, idle, tunnel, faults>>

\* A piece of the body that is not the last.  One that comes while there is something
\* to read is taken to have come with it.
RespondPiece(c) ==
    /\ c \notin closed /\ owed[c] # 0 /\ stream[c] = <<>>
    /\ stream' = [stream EXCEPT ![c] = <<Token(owed[c], "piece")>>]
    /\ UNCHANGED <<client, tasks, at, closed, inbox, owed, cut, idle, tunnel, faults>>

RespondBody(c) ==
    /\ c \notin closed /\ owed[c] # 0
    /\ stream' = [stream EXCEPT ![c] = Append(@, Token(owed[c], "body"))]
    /\ owed' = [owed EXCEPT ![c] = 0]
    /\ UNCHANGED <<client, tasks, at, closed, inbox, cut, idle, tunnel, faults>>

BackendCloses(c) ==
    /\ at[c] # {} /\ c \notin closed /\ faults < MaxFaults
    /\ closed' = closed \cup {c} /\ faults' = faults + 1
    /\ inbox' = [inbox EXCEPT ![c] = <<>>] /\ owed' = [owed EXCEPT ![c] = 0]
    /\ UNCHANGED <<client, tasks, at, stream, cut, idle, tunnel>>

SideCloses(side) ==
    /\ session = "tunnel" /\ side \notin ends
    /\ ends' = ends \cup {side}
    /\ UNCHANGED <<client, tasks, network, idle, copying, faults>>

Environment ==
    \/ \E c \in Conns : \/ \E part \in {"head", "only"} : Respond(c, part)
                        \/ RespondPiece(c) \/ RespondBody(c) \/ BackendCloses(c)
    \/ \E side \in {"client", "backend"} : SideCloses(side)

-----------------------------------------------------------------------------
\* What a task does once its request is sent.
ReadStep(t) ==
    \/ ReadResponse(t) \/ BadResponse(t) \/ ReadOnly(t) \/ ReadPiece(t) \/ ReadBody(t)
    \/ BodyCutShort(t) \/ ReadTimeout(t)

TaskStep(t) ==
    \/ ReuseIdle(t) \/ ConnectNew(t) \/ ConnectFails(t) \/ Send(t) \/ BrokenPipe(t)
    \/ ReadStep(t)

Session ==
    \/ AcceptClient \/ Hangup \/ ReadHead \/ TakeRequest \/ Reply
    \/ Http2 \/ Http2Timeout \/ RequestTimeout
    \/ Upgrade \/ UpgradeConnects \/ UpgradeAnswered \/ LastReply
    \/ TunnelOver \/ \E d \in Directions : SourceEnds(d) \/ SinkFails(d)

Next == Session \/ (\E t \in Tasks : TaskStep(t)) \/ Environment

\* The runtime runs a task whose connection has something to read, and fires a timer
\* that is due; a copy sees the end of its source.  A backend need not accept a
\* connection, read what it is sent or answer, and a client need not send, read or close.
Fairness ==
    /\ WF_vars(ReadStep(Main)) /\ WF_vars(RequestTimeout) /\ WF_vars(Http2Timeout)
    /\ WF_vars(TunnelOver) /\ \A d \in Directions : WF_vars(SourceEnds(d))

Spec == Init /\ [][Next]_vars
FairSpec == Spec /\ Fairness

-----------------------------------------------------------------------------
(* Properties.                                                             *)

Sessions == {"none", "head", "next", "call", "reply", "upgrade", "handshake", "last",
             "tunnel"}
Statuses == {"404", "redirect", "backend", "502", "503", "504"}
Replies == [status : Statuses, of : 0 .. MaxRequests, whole : BOOLEAN]
Steps == {"idle", "connect", "send", "head", "body", "h2"}
Jobs == [req : 0 .. MaxRequests, addr : Addrs \cup {Unresolved}, timed : BOOLEAN]
Tokens == [of : Requests, part : {"head", "piece", "body", "only"}]

\* Type correctness; a task that runs has an address and a number.
ClientOK ==
    /\ session \in Sessions /\ request \in 0 .. MaxRequests
    /\ plan \in Plans \cup {NoPlan} /\ reply \in Replies \cup {NoReply}
TasksOK ==
    /\ pc \in [Tasks -> Steps] /\ job \in [Tasks -> Jobs]
    /\ using \in [Tasks -> SUBSET Conns] /\ took \in [Tasks -> 0 .. MaxRequests]
    /\ \A t \in Tasks : pc[t] \in Steps \ {"idle"} =>
                            job[t].addr \in Addrs /\ job[t].req \in Requests
NetworkOK ==
    /\ at \in [Conns -> SUBSET Addrs] /\ inbox \in [Conns -> Seq(Requests)]
    /\ owed \in [Conns -> 0 .. MaxRequests] /\ stream \in [Conns -> Seq(Tokens)]
    /\ closed \subseteq Conns /\ cut \subseteq Conns
TypeOK ==
    /\ ClientOK /\ TasksOK /\ NetworkOK /\ idle \subseteq Conns
    /\ copying \subseteq Directions /\ ends \subseteq {"client", "backend"}
    /\ faults \in 0 .. MaxFaults

\* A connection belongs to the task that took it or to the pool, never to both,
\* and there is one for every task that is past its connect (pool.rs 141-144,
\* forward_via_codec).
Exclusive ==
    /\ \A t \in Tasks : /\ using[t] # {} <=> pc[t] \in {"send", "head", "body"}
                        /\ \A c, d \in using[t] : c = d
                        /\ using[t] \cap idle = {}
                        /\ took[t] # 0 => pc[t] = "body"
    /\ \A t, u \in Tasks : t # u => using[t] \cap using[u] = {}
    /\ \A c \in Conns : at[c] # {} <=> c \in idle \cup UNION {using[t] : t \in Tasks}

\* On a connection that was always given back after a whole response, a request
\* gets its own answer (forward_via_codec, "so the connection can be reused"), given
\* that the backend sends one response for each request.
OwnAnswerUnlessCut ==
    \A t \in Tasks : took[t] # 0 /\ using[t] \cap cut = {} => took[t] = job[t].req

\* The worker is in a call exactly while its task runs, and has a response only
\* until it is sent.
InSession ==
    /\ session = "call" <=> pc[Main] # "idle"
    /\ session \notin {"reply", "last"} => reply = NoReply

\* What may be under way on a connection that was never given back early: nothing
\* before the request is sent, then at most the one response to it.
Nothing(c) == inbox[c] = <<>> /\ owed[c] = 0 /\ stream[c] = <<>>
BodyIs(c, req, rest) ==
    \/ owed[c] \in {0, req} /\ rest \in {<<>>, <<Token(req, "piece")>>}
    \/ /\ owed[c] = 0
       /\ rest \in {<<Token(req, "body")>>, <<Token(req, "piece"), Token(req, "body")>>}
Body(c, req) == inbox[c] = <<>> /\ BodyIs(c, req, stream[c])
Response(c, req) ==
    \/ Nothing(c)
    \/ inbox[c] = <<req>> /\ owed[c] = 0 /\ stream[c] = <<>>
    \/ inbox[c] = <<>> /\ owed[c] = 0 /\ stream[c] = <<Token(req, "only")>>
    \/ /\ inbox[c] = <<>> /\ stream[c] # <<>> /\ Head(stream[c]) = Token(req, "head")
       /\ BodyIs(c, req, Tail(stream[c]))
Clean ==
    /\ \A c \in Conns \ cut :
        c \notin UNION {using[t] : t \in Tasks} => Nothing(c)
    /\ \A t \in Tasks : \A c \in using[t] \ cut :
        /\ pc[t] = "send" => Nothing(c)
        /\ pc[t] = "head" => Response(c, job[t].req)
        /\ pc[t] = "body" => Body(c, job[t].req)

\* The inductive invariant: a connection is used by one task at a time, and what
\* is under way on it is that task's (pool.rs 128-151, pipeline.rs 860-925).
IInv == TypeOK /\ Exclusive /\ InSession /\ Clean /\ OwnAnswerUnlessCut

\* The same of every connection: what "Read the body if present so the
\* connection can be reused" is for (pipeline.rs 905).
OwnAnswer == \A t \in Tasks : took[t] # 0 => took[t] = job[t].req

\* Of the random numbers that select_backend may draw, each backend has as many
\* as its weight (pipeline.rs 168-187).
FairShare ==
    \A i \in DOMAIN plan.backends :
        plan.backends[i].weight =
            Cardinality({pick \in Picks(plan.backends) :
                            SelectBackend(plan.backends, pick) = i})

\* The worker keeps the promise of KeepAlive: no mirror, late response or second
\* outcome of a request that timed out changes or replaces an answer.
Phase ==
    CASE session = "none" -> "closed"
      [] session \in {"head", "next"} -> "open"
      [] session = "call" -> "serving"
      [] session = "reply" -> "answering"
      [] session \in {"upgrade", "handshake"} -> "upgrading"
      [] session = "last" -> "refusing"
      [] session = "tunnel" -> "tunnel"
KA == INSTANCE KeepAlive WITH phase <- Phase, number <- request, answer <- reply,
                              Answers <- Replies, NoAnswer <- NoReply
KeepsPromise == KA!Spec

\* A request whose rule has a request timeout is answered wherever the exchange hangs,
\* in a connect, a write or a body that trickles in for ever (pipeline.rs 1149-1158); so
\* is one that is sent over HTTP/2 with a timeout of the backend, which there limits the
\* exchange as a whole (937-948).
AnsweredInTime ==
    /\ session = "call" /\ plan.requestTimeout ~> session # "call"
    /\ pc[Main] = "h2" /\ job[Main].timed ~> session # "call"

\* Over HTTP/1 the timeout of the backend is one of each read (pipeline.rs 869-879, 910):
\* it does not limit connect and write, and a backend keeps the worker only by sending
\* again and again.
SilentBackendIsLeft ==
    <>[](pc[Main] \in {"head", "body"} /\ job[Main].timed)
        => []<>(\E c \in using[Main] : stream[c] # <<>>)

\* A tunnel that both sides have closed does not hold the worker, though with one
\* it does, for all that the comment says (pipeline.rs 408, 575-579).
TunnelEnds == session = "tunnel" /\ ends = {"client", "backend"} ~> session # "tunnel"

=============================================================================
