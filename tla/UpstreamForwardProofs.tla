------------------------- MODULE UpstreamForwardProofs -------------------------
(***************************************************************************)
(* Which request a response belongs to, and what becomes of connections,   *)
(* for any number of backends, connections, mirrors and requests.          *)
(***************************************************************************)
EXTENDS UpstreamForward, DataLemmas, FiniteSetTheorems

\* What is left of a well-typed stream is well typed.
LEMMA RestType ==
    ASSUME NEW S, NEW rest \in Seq(S), NEW n \in 0 .. Len(rest)
    PROVE  SubSeq(rest, n + 1, Len(rest)) \in Seq(S)
OBVIOUS

\* Sequences with the same elements are the same.
LEMMA SameSequence ==
    ASSUME NEW S, NEW s \in Seq(S), NEW u \in Seq(S), Len(s) = Len(u),
           \A i \in 1 .. Len(s) : s[i] = u[i]
    PROVE  s = u
OBVIOUS

\* What a backend sends after a head follows it.
LEMMA AppendPair == ASSUME NEW a, NEW b PROVE Append(<<a>>, b) = <<a, b>>
<1> DEFINE S == {a, b}
<1> DEFINE s == Append(<<a>>, b)
<1> DEFINE u == <<a, b>>
<1>1. s \in Seq(S) /\ u \in Seq(S)
  OBVIOUS
<1>2. Len(s) = 2 /\ Len(u) = 2
  OBVIOUS
<1>3. \A i \in 1 .. 2 : s[i] = u[i]
  OBVIOUS
<1> HIDE DEF s, u, S
<1>4. s = u
  BY <1>1, <1>2, <1>3, SameSequence
<1>5. QED
  BY <1>4 DEF s, u

\* What comes on a connection comes after what is there.
LEMMA AppendToRest ==
    ASSUME NEW S, NEW s \in Seq(S), s # << >>, NEW e
    PROVE  /\ Append(s, e) # << >> /\ Head(Append(s, e)) = Head(s)
           /\ Tail(Append(s, e)) = Append(Tail(s), e)
<1> DEFINE T == S \cup {e}
<1> DEFINE u == Tail(Append(s, e))
<1> DEFINE v == Append(Tail(s), e)
<1>1. Len(s) \in Nat \ {0} /\ s \in Seq(T)
  OBVIOUS
<1>2. /\ Append(s, e) \in Seq(T) /\ Len(Append(s, e)) = Len(s) + 1
      /\ \A i \in 1 .. Len(s) : Append(s, e)[i] = s[i]
      /\ Append(s, e)[Len(s) + 1] = e
  BY <1>1
<1>3. /\ Tail(s) \in Seq(T) /\ Len(Tail(s)) = Len(s) - 1
      /\ \A i \in 1 .. Len(s) - 1 : Tail(s)[i] = s[i + 1]
  BY <1>1
<1>4. u \in Seq(T) /\ Len(u) = Len(s) /\ \A i \in 1 .. Len(s) : u[i] = Append(s, e)[i + 1]
  BY <1>1, <1>2
<1>5. /\ v \in Seq(T) /\ Len(v) = Len(s)
      /\ \A i \in 1 .. Len(s) - 1 : v[i] = s[i + 1]
      /\ v[Len(s)] = e
  BY <1>1, <1>3
<1>6. u = v
  <2>1. ASSUME NEW i \in 1 .. Len(s)
        PROVE  u[i] = v[i]
    <3>1. u[i] = Append(s, e)[i + 1]
      BY <1>4
    <3>2. CASE i = Len(s)
      BY <1>1, <1>2, <1>5, <3>1, <3>2
    <3>3. CASE i \in 1 .. Len(s) - 1
      <4>1. i + 1 \in 1 .. Len(s)
        BY <1>1, <3>3
      <4>2. Append(s, e)[i + 1] = s[i + 1]
        BY <1>2, <4>1
      <4>3. v[i] = s[i + 1]
        BY <1>5, <3>3
      <4>4. QED
        BY <3>1, <4>2, <4>3
    <3>4. QED
      BY <1>1, <3>2, <3>3
  <2> HIDE DEF u, v, T
  <2>2. QED
    BY <1>4, <1>5, <2>1, SameSequence
<1>7. QED
  BY <1>1, <1>2, <1>6

\* A dropped connection leaves a well-typed network (pool.rs 140-143).
LEMMA GiveBackType ==
    ASSUME NetworkOK, idle \subseteq Conns, NEW c \in Conns, NEW whole \in BOOLEAN,
           NEW rest \in Seq(Tokens), GiveBack(c, rest, whole)
    PROVE  NetworkOK' /\ idle' \subseteq Conns
<1>1. CASE Keep(c, rest, whole)
  <2>1. PICK n \in 0 .. Len(rest) :
           stream' = [stream EXCEPT ![c] = SubSeq(rest, n + 1, Len(rest))]
    BY <1>1 DEF Keep
  <2>2. stream' \in [Conns -> Seq(Tokens)]
    <3>1. SubSeq(rest, n + 1, Len(rest)) \in Seq(Tokens)
      BY <2>1, RestType
    <3>2. QED
      BY <2>1, <3>1 DEF NetworkOK
  <2>3. QED
    BY <1>1, <2>2 DEF Keep, NetworkOK
<1>2. CASE Drop(c)
  <2>1. stream' \in [Conns -> Seq(Tokens)] /\ inbox' \in [Conns -> Seq(Requests)]
    <3>1. << >> \in Seq(Tokens) /\ << >> \in Seq(Requests)
      OBVIOUS
    <3>2. QED
      BY <1>2, <3>1 DEF Drop, NetworkOK
  <2>2. at' \in [Conns -> SUBSET Addrs] /\ owed' \in [Conns -> 0 .. MaxRequests]
    BY <1>2, BoundAssumption DEF Drop, NetworkOK
  <2>3. QED
    BY <1>2, <2>1, <2>2 DEF Drop, NetworkOK
<1>3. QED
  BY <1>1, <1>2 DEF GiveBack

\* The end of a task is well typed.
LEMMA FinishType ==
    ASSUME TypeOK, NEW t \in Tasks, Finish(t)
    PROVE  /\ session' \in Sessions /\ request' = request /\ plan' = plan
           /\ TasksOK'
           /\ copying' \subseteq Directions /\ ends' \subseteq {"client", "backend"}
<1>1. NoJob \in Jobs
  BY BoundAssumption DEF NoJob, Jobs
<1>2. session' \in Sessions
  BY DEF Finish, Sessions, TypeOK, ClientOK
<1>3. pc' \in [Tasks -> Steps] /\ job' \in [Tasks -> Jobs]
  BY <1>1 DEF Finish, TypeOK, TasksOK, Steps
<1>4. using' \in [Tasks -> SUBSET Conns] /\ took' \in [Tasks -> 0 .. MaxRequests]
  BY BoundAssumption DEF Finish, TypeOK, TasksOK
<1>5. ASSUME NEW u \in Tasks, pc'[u] \in Steps \ {"idle"}
      PROVE  job'[u].addr \in Addrs /\ job'[u].req \in Requests
  BY <1>5 DEF Finish, TypeOK, TasksOK
<1>6. QED
  BY <1>2, <1>3, <1>4, <1>5 DEF Finish, TypeOK, TasksOK, tunnel

\* A failure is answered with a status of the proxy.
LEMMA FailType ==
    ASSUME TypeOK, NEW t \in Tasks, NEW status \in Statuses, Fail(t, status)
    PROVE  ClientOK' /\ TasksOK' /\ copying' \subseteq Directions
           /\ ends' \subseteq {"client", "backend"}
<1>1. Local(status) \in Replies
  BY BoundAssumption DEF Local, Replies
<1>2. reply' \in Replies \cup {NoReply}
  BY <1>1 DEF Fail, TypeOK, ClientOK
<1>3. QED
  BY <1>2, FinishType DEF Fail, TypeOK, ClientOK

\* A success is answered with what was read.
LEMMA SucceedType ==
    ASSUME TypeOK, NEW t \in Tasks, NEW of \in 0 .. MaxRequests, NEW whole \in BOOLEAN,
           Succeed(t, of, whole)
    PROVE  ClientOK' /\ TasksOK' /\ copying' \subseteq Directions
           /\ ends' \subseteq {"client", "backend"}
<1>1. [status |-> "backend", of |-> of, whole |-> whole] \in Replies
  BY DEF Replies, Statuses
<1>2. reply' \in Replies \cup {NoReply}
  BY <1>1 DEF Succeed, TypeOK, ClientOK
<1>3. QED
  BY <1>2, FinishType DEF Succeed, TypeOK, ClientOK

\* The steps of a task keep the types.
LEMMA TypeTask == ASSUME TypeOK, NEW t \in Tasks, TaskStep(t) PROVE TypeOK'
<1> USE DEF TypeOK
<1>a. ClientOK /\ TasksOK /\ NetworkOK /\ idle \subseteq Conns
  OBVIOUS
<1>c. ASSUME UNCHANGED client PROVE ClientOK'
  BY <1>c DEF client, ClientOK
<1>n. ASSUME UNCHANGED network PROVE NetworkOK'
  BY <1>n DEF network, NetworkOK
<1>s. ASSUME NEW c \in Conns, stream[c] # << >>
      PROVE  Head(stream[c]) \in Tokens /\ Tail(stream[c]) \in Seq(Tokens)
  <2>1. stream[c] \in Seq(Tokens)
    BY DEF NetworkOK
  <2>2. QED
    BY <2>1, <1>s
<1>e. << >> \in Seq(Tokens) /\ {"502", "504"} \subseteq Statuses
  BY DEF Statuses
<1>f. faults' \in 0 .. MaxFaults
  <2>1. UNCHANGED faults \/ (faults < MaxFaults /\ faults' = faults + 1)
    BY DEF TaskStep, ReuseIdle, ConnectNew, ConnectFails, Send, BrokenPipe, ReadResponse,
       BadResponse, ReadOnly, ReadPiece, ReadBody, BodyCutShort, ReadTimeout, ReadStep
  <2>2. QED
    BY <2>1, BoundAssumption
<1>1. CASE ReuseIdle(t)
  <2>1. TasksOK'
    BY <1>1, <1>a DEF ReuseIdle, TasksOK, Steps
  <2>2. QED
    BY <1>1, <1>c, <1>n, <1>f, <2>1 DEF ReuseIdle, tunnel
<1>2. CASE ConnectNew(t)
  <2>1. PICK c \in Conns : /\ at' = [at EXCEPT ![c] = {job[t].addr}]
                           /\ using' = [using EXCEPT ![t] = {c}]
    BY <1>2 DEF ConnectNew, Free
  <2>2. TasksOK'
    BY <1>2, <1>a, <2>1 DEF ConnectNew, TasksOK, Steps
  <2>3. NetworkOK'
    <3>1. job[t].addr \in Addrs
      BY <1>2 DEF ConnectNew, TasksOK, Steps
    <3>2. QED
      BY <1>2, <2>1, <3>1 DEF ConnectNew, NetworkOK
  <2>4. QED
    BY <1>2, <1>c, <1>f, <2>2, <2>3 DEF ConnectNew, tunnel
<1>3. CASE ConnectFails(t)
  BY <1>3, <1>e, <1>f, <1>n, FailType DEF ConnectFails
<1>4. CASE Send(t)
  <2>1. PICK c \in using[t] : inbox' = IF c \in closed THEN inbox
                                ELSE [inbox EXCEPT ![c] = Append(@, job[t].req)]
    BY <1>4 DEF Send
  <2>2. job[t].req \in Requests /\ c \in Conns
    BY <1>4, <2>1 DEF Send, TasksOK, Steps
  <2>3. Append(inbox[c], job[t].req) \in Seq(Requests)
    <3>1. inbox[c] \in Seq(Requests)
      BY <2>2 DEF NetworkOK
    <3>2. QED
      BY <2>2, <3>1
  <2>4. NetworkOK'
    BY <1>4, <2>1, <2>3 DEF Send, NetworkOK
  <2>5. TasksOK'
    BY <1>4 DEF Send, TasksOK, Steps
  <2>6. QED
    BY <1>4, <1>c, <1>f, <2>4, <2>5 DEF Send, tunnel
<1>5. CASE BrokenPipe(t)
  <2>1. PICK c \in using[t] : GiveBack(c, stream[c], FALSE)
    BY <1>5 DEF BrokenPipe
  <2>2. c \in Conns /\ stream[c] \in Seq(Tokens)
    BY <2>1 DEF TasksOK, NetworkOK
  <2>3. QED
    BY <1>5, <1>e, <1>f, <2>1, <2>2, FailType, GiveBackType DEF BrokenPipe
<1>6. CASE ReadResponse(t)
  <2>1. PICK c \in using[t] : /\ stream[c] # << >>
                              /\ stream' = [stream EXCEPT ![c] = Tail(@)]
                              /\ took' = [took EXCEPT ![t] = Head(stream[c]).of]
    BY <1>6 DEF ReadResponse
  <2>2. c \in Conns
    BY <2>1 DEF TasksOK
  <2>3. NetworkOK'
    BY <1>6, <1>s, <2>1, <2>2 DEF ReadResponse, NetworkOK
  <2>4. Head(stream[c]).of \in 0 .. MaxRequests
    BY <1>s, <2>1, <2>2, BoundAssumption DEF Tokens, Requests
  <2>5. TasksOK'
    BY <1>6, <2>1, <2>4 DEF ReadResponse, TasksOK, Steps
  <2>6. QED
    BY <1>6, <1>c, <1>f, <2>3, <2>5 DEF ReadResponse, tunnel
<1>7. CASE BadResponse(t)
  <2>1. PICK c \in using[t] : GiveBack(c, stream[c], FALSE)
    BY <1>7 DEF BadResponse
  <2>2. c \in Conns /\ stream[c] \in Seq(Tokens)
    BY <2>1 DEF TasksOK, NetworkOK
  <2>3. QED
    BY <1>7, <1>e, <1>f, <2>1, <2>2, FailType, GiveBackType DEF BadResponse
<1>8. CASE ReadOnly(t)
  <2>1. PICK c \in using[t] : /\ stream[c] # << >>
                              /\ GiveBack(c, Tail(stream[c]), TRUE)
                              /\ Succeed(t, Head(stream[c]).of, TRUE)
    BY <1>8 DEF ReadOnly
  <2>2. c \in Conns
    BY <2>1 DEF TasksOK
  <2>3. Head(stream[c]).of \in 0 .. MaxRequests
    BY <1>s, <2>1, <2>2, BoundAssumption DEF Tokens, Requests
  <2>4. QED
    BY <1>f, <1>s, <2>1, <2>2, <2>3, SucceedType, GiveBackType
<1>9. CASE ReadBody(t)
  <2>1. PICK c \in using[t] : /\ stream[c] # << >>
                              /\ GiveBack(c, Tail(stream[c]), TRUE)
                              /\ Succeed(t, took[t], TRUE)
    BY <1>9 DEF ReadBody
  <2>2. c \in Conns /\ took[t] \in 0 .. MaxRequests
    BY <2>1 DEF TasksOK
  <2>3. QED
    BY <1>f, <1>s, <2>1, <2>2, SucceedType, GiveBackType
<1>10. CASE BodyCutShort(t)
  <2>1. PICK c \in using[t] : GiveBack(c, << >>, FALSE) /\ Succeed(t, took[t], FALSE)
    BY <1>10 DEF BodyCutShort
  <2>2. c \in Conns /\ took[t] \in 0 .. MaxRequests
    BY <2>1 DEF TasksOK
  <2>3. QED
    BY <1>e, <1>f, <2>1, <2>2, SucceedType, GiveBackType
<1>11. CASE ReadTimeout(t)
  <2>1. PICK c \in using[t] : GiveBack(c, << >>, FALSE)
    BY <1>11 DEF ReadTimeout
  <2>2. c \in Conns
    BY <2>1 DEF TasksOK
  <2>3. QED
    BY <1>11, <1>e, <1>f, <2>1, <2>2, FailType, GiveBackType DEF ReadTimeout
<1>12. CASE ReadPiece(t)
  <2>1. PICK c \in using[t] : /\ stream[c] # << >>
                              /\ stream' = [stream EXCEPT ![c] = Tail(@)]
    BY <1>12 DEF ReadPiece
  <2>2. NetworkOK'
    <3>1. c \in Conns
      BY <2>1 DEF TasksOK
    <3>2. QED
      BY <1>12, <1>s, <2>1, <3>1 DEF ReadPiece, NetworkOK
  <2>3. TasksOK'
    BY <1>12, <1>a DEF ReadPiece, tasks, TasksOK
  <2>4. QED
    BY <1>12, <1>c, <1>f, <2>2, <2>3 DEF ReadPiece, tunnel
<1>13. QED
  BY <1>1, <1>2, <1>3, <1>4, <1>5, <1>6, <1>7, <1>8, <1>9, <1>10, <1>11, <1>12
     DEF TaskStep, ReadStep

\* Forwarding starts the tasks on well-typed jobs (pipeline.rs 641-716).
LEMMA ForwardType ==
    ASSUME TypeOK, request < MaxRequests, NEW p \in Plans, NEW i \in DOMAIN p.backends,
           p.backends[i].addr # Unresolved, Forward(p, p.backends[i])
    PROVE  /\ session' = "call" /\ reply' = reply
           /\ pc' \in [Tasks -> Steps] /\ job' \in [Tasks -> Jobs]
           /\ \A t \in Tasks : pc'[t] \in Steps \ {"idle"} =>
                                   job'[t].addr \in Addrs /\ job'[t].req \in Requests
           /\ \A t \in Tasks :
                \/ pc'[t] = pc[t] /\ job'[t] = job[t]
                \/ (t = Main \/ pc[t] = "idle") /\ pc'[t] \in {"connect", "h2"}
           /\ pc'[Main] # "idle"
<1> DEFINE b == p.backends[i]
<1> DEFINE N == request + 1
<1>1. p \in Plan /\ b \in Backend /\ b.addr \in Addrs /\ N \in Requests
  <2>1. p \in Plan
    BY PlanAssumption
  <2>2. b \in Backend
    BY <2>1 DEF Plan
  <2>3. N \in Requests
    BY BoundAssumption DEF TypeOK, ClientOK, Requests
  <2>4. QED
    BY <2>1, <2>2, <2>3 DEF Backend
<1> HIDE DEF b, N
<1>0. PICK S \in Spawned(p.mirrors) : \E task \in [S -> {t \in Mirrors : pc[t] = "idle"}] :
         /\ pc' = [t \in Tasks |->
                    IF t = Main THEN IF b.h2c THEN "h2" ELSE "connect"
                    ELSE IF \E m \in S : task[m] = t THEN "connect" ELSE pc[t]]
         /\ job' = [t \in Tasks |->
                    IF t = Main
                    THEN [req |-> N, addr |-> b.addr, timed |-> p.backendTimeout]
                    ELSE IF \E m \in S : task[m] = t
                         THEN [req |-> N, timed |-> FALSE,
                               addr |-> p.mirrors[CHOOSE m \in S : task[m] = t].addr]
                         ELSE job[t]]
  BY DEF Forward, b, N
<1>2. PICK task \in [S -> {t \in Mirrors : pc[t] = "idle"}] :
         /\ pc' = [t \in Tasks |->
                    IF t = Main THEN IF b.h2c THEN "h2" ELSE "connect"
                    ELSE IF \E m \in S : task[m] = t THEN "connect" ELSE pc[t]]
         /\ job' = [t \in Tasks |->
                    IF t = Main
                    THEN [req |-> N, addr |-> b.addr, timed |-> p.backendTimeout]
                    ELSE IF \E m \in S : task[m] = t
                         THEN [req |-> N, timed |-> FALSE,
                               addr |-> p.mirrors[CHOOSE m \in S : task[m] = t].addr]
                         ELSE job[t]]
  BY <1>0
<1>3. \A m \in S : p.mirrors[m].addr \in Addrs
  <2>1. S \subseteq DOMAIN p.mirrors /\ \A m \in S : p.mirrors[m].addr # Unresolved
    BY DEF Spawned
  <2>2. p.mirrors \in Seq(Mirror)
    BY <1>1 DEF Plan
  <2>3. \A m \in DOMAIN p.mirrors : p.mirrors[m] \in Mirror
    BY <2>2
  <2>4. QED
    BY <2>1, <2>3 DEF Mirror
<1>4. ASSUME NEW t \in Tasks
      PROVE  /\ pc'[t] \in Steps /\ job'[t] \in Jobs
             /\ pc'[t] \in Steps \ {"idle"} =>
                    job'[t].addr \in Addrs /\ job'[t].req \in Requests
             /\ \/ pc'[t] = pc[t] /\ job'[t] = job[t]
                \/ (t = Main \/ pc[t] = "idle") /\ pc'[t] \in {"connect", "h2"}
  <2>1. CASE t = Main
    <3>1. pc'[t] = (IF b.h2c THEN "h2" ELSE "connect")
      BY <1>2, <2>1
    <3>2. job'[t] = [req |-> N, addr |-> b.addr, timed |-> p.backendTimeout]
      BY <1>2, <2>1
    <3>3. p.backendTimeout \in BOOLEAN
      BY <1>1 DEF Plan
    <3>4. QED
      BY <1>1, <2>1, <3>1, <3>2, <3>3, BoundAssumption DEF Steps, Jobs, Requests
  <2>2. CASE t # Main /\ \E m \in S : task[m] = t
    <3>1. PICK m \in S : m = (CHOOSE k \in S : task[k] = t) /\ task[m] = t
      BY <2>2
    <3>2. pc'[t] = "connect" /\ pc[t] = "idle"
      BY <1>2, <2>2, <3>1
    <3>3. job'[t] = [req |-> N, timed |-> FALSE, addr |-> p.mirrors[m].addr]
      BY <1>2, <2>2, <3>1
    <3>4. QED
      BY <1>1, <1>3, <3>2, <3>3, BoundAssumption DEF Steps, Jobs, Requests
  <2>3. CASE t # Main /\ ~\E m \in S : task[m] = t
    <3>1. pc'[t] = pc[t] /\ job'[t] = job[t]
      BY <1>2, <2>3
    <3>2. QED
      BY <3>1 DEF TypeOK, TasksOK
  <2>4. QED
    BY <2>1, <2>2, <2>3
<1>5. pc' \in [Tasks -> Steps] /\ job' \in [Tasks -> Jobs]
  BY <1>2, <1>4
<1>6. pc'[Main] # "idle"
  BY <1>2 DEF Tasks
<1>7. session' = "call" /\ reply' = reply
  BY DEF Forward
<1>8. QED
  BY <1>4, <1>5, <1>6, <1>7

\* The proxy starts well typed.
LEMMA TypeInit == Init => TypeOK
<1> SUFFICES ASSUME Init PROVE TypeOK
  OBVIOUS
<1>1. ClientOK
  BY BoundAssumption DEF Init, ClientOK, Sessions
<1>2. TasksOK
  BY BoundAssumption DEF Init, TasksOK, Steps, Jobs, NoJob
<1>3. NetworkOK
  <2>1. << >> \in Seq(Requests) /\ << >> \in Seq(Tokens)
    OBVIOUS
  <2>2. QED
    BY <2>1, BoundAssumption DEF Init, NetworkOK
<1>4. QED
  BY <1>1, <1>2, <1>3, BoundAssumption DEF Init, TypeOK

\* The steps of the worker's session keep the types.
LEMMA TypeSession == ASSUME TypeOK, Session PROVE TypeOK'
<1> USE DEF TypeOK
<1>a. ClientOK /\ TasksOK /\ NetworkOK /\ idle \subseteq Conns
  OBVIOUS
<1>n. ASSUME UNCHANGED network PROVE NetworkOK'
  BY <1>n DEF network, NetworkOK
<1>t. ASSUME UNCHANGED tasks PROVE TasksOK'
  BY <1>t DEF tasks, TasksOK
<1>l. \A status \in Statuses : Local(status) \in Replies
  BY BoundAssumption DEF Local, Replies
<1>e. {"404", "redirect", "502", "503", "504"} \subseteq Statuses
  BY DEF Statuses
<1>1. CASE AcceptClient \/ Hangup \/ ReadHead
  <2>1. ClientOK'
    BY <1>1 DEF AcceptClient, Hangup, ReadHead, ClientOK, Sessions
  <2>2. QED
    BY <1>1, <1>n, <1>t, <2>1 DEF AcceptClient, Hangup, ReadHead, tunnel
<1>2. CASE TakeRequest
  <2>1. PICK p \in Plans :
          /\ plan' = p
          /\ \/ \E status \in {"404", "redirect", "502", "503"} : Answer(status)
             \/ \E i \in Selectable(p.backends) :
                   p.backends[i].addr # Unresolved /\ Forward(p, p.backends[i])
    BY <1>2 DEF TakeRequest
  <2>2. CASE \E status \in {"404", "redirect", "502", "503"} : Answer(status)
    <3>1. ClientOK'
      BY <1>2, <1>l, <1>e, <2>1, <2>2, BoundAssumption DEF TakeRequest, Answer, ClientOK, Sessions
    <3>2. TasksOK'
      BY <1>2, <2>2 DEF TakeRequest, Answer, TasksOK
    <3>3. QED
      BY <1>2, <1>n, <3>1, <3>2 DEF TakeRequest, tunnel
  <2>3. ASSUME NEW i \in Selectable(p.backends), p.backends[i].addr # Unresolved,
               Forward(p, p.backends[i])
        PROVE  TypeOK'
    <3>1. i \in DOMAIN p.backends
      BY DEF Selectable
    <3>2. request < MaxRequests
      BY <1>2 DEF TakeRequest
    <3>3. /\ session' = "call" /\ reply' = reply
          /\ pc' \in [Tasks -> Steps] /\ job' \in [Tasks -> Jobs]
          /\ \A t \in Tasks : pc'[t] \in Steps \ {"idle"} =>
                                  job'[t].addr \in Addrs /\ job'[t].req \in Requests
      BY <2>3, <3>1, <3>2, ForwardType
    <3>4. ClientOK'
      BY <1>2, <2>1, <3>3, BoundAssumption DEF TakeRequest, ClientOK, Sessions
    <3>5. TasksOK'
      BY <1>2, <3>3 DEF TakeRequest, TasksOK
    <3>6. QED
      BY <1>2, <1>n, <3>4, <3>5 DEF TakeRequest, tunnel
  <2>4. QED
    BY <2>1, <2>2, <2>3
<1>3. CASE Reply
  <2>1. ClientOK'
    BY <1>3 DEF Reply, ClientOK, Sessions
  <2>2. QED
    BY <1>3, <1>n, <1>t, <2>1 DEF Reply, tunnel
<1>4. CASE Http2
  <2>1. request \in 0 .. MaxRequests /\ Main \in Tasks
    BY DEF ClientOK, Tasks
  <2>2. ClientOK' /\ TasksOK' /\ copying' \subseteq Directions
        /\ ends' \subseteq {"client", "backend"}
    BY <1>4, <1>e, <2>1, SucceedType, FailType DEF Http2
  <2>3. QED
    BY <1>4, <1>n, <2>2 DEF Http2
<1>5. CASE Http2Timeout
  BY <1>5, <1>e, <1>n, FailType DEF Http2Timeout, Tasks
<1>6. CASE RequestTimeout
  <2>1. ClientOK' /\ TasksOK' /\ copying' \subseteq Directions
        /\ ends' \subseteq {"client", "backend"}
    BY <1>6, <1>e, FailType DEF RequestTimeout, Tasks
  <2>2. CASE using[Main] = {}
    BY <1>6, <1>n, <2>1, <2>2 DEF RequestTimeout
  <2>3. CASE using[Main] # {}
    <3>1. PICK c \in using[Main] : GiveBack(c, stream[c], FALSE)
      BY <1>6, <2>3 DEF RequestTimeout
    <3>2. c \in Conns /\ stream[c] \in Seq(Tokens)
      BY <3>1 DEF TasksOK, NetworkOK, Tasks
    <3>3. QED
      BY <1>6, <2>1, <3>1, <3>2, GiveBackType DEF RequestTimeout
  <2>4. QED
    BY <2>2, <2>3
<1>7. CASE Upgrade
  <2>1. reply' = reply \/ \E status \in Statuses : reply' = Local(status)
    BY <1>7, <1>e DEF Upgrade
  <2>2. session' \in Sessions
    BY <1>7 DEF Upgrade, Sessions
  <2>3. ClientOK'
    BY <1>7, <1>l, <2>1, <2>2, BoundAssumption DEF Upgrade, ClientOK
  <2>4. QED
    BY <1>7, <1>n, <1>t, <2>3 DEF Upgrade, tunnel
<1>8. CASE UpgradeConnects
  <2>1. ClientOK'
    BY <1>8, <1>l, <1>e DEF UpgradeConnects, ClientOK, Sessions
  <2>2. QED
    BY <1>8, <1>n, <1>t, <2>1 DEF UpgradeConnects, tunnel
<1>9. CASE UpgradeAnswered
  <2>1. [status |-> "backend", of |-> request, whole |-> TRUE] \in Replies
    BY DEF ClientOK, Replies, Statuses
  <2>2. ClientOK'
    BY <1>9, <2>1 DEF UpgradeAnswered, ClientOK, Sessions
  <2>3. copying' \subseteq Directions
    BY <1>9 DEF UpgradeAnswered, Directions
  <2>4. QED
    BY <1>9, <1>n, <1>t, <2>2, <2>3 DEF UpgradeAnswered
<1>10. CASE LastReply
  <2>1. ClientOK'
    BY <1>10 DEF LastReply, ClientOK, Sessions
  <2>2. QED
    BY <1>10, <1>n, <1>t, <2>1 DEF LastReply, tunnel
<1>11. CASE TunnelOver
  <2>1. ClientOK'
    BY <1>11 DEF TunnelOver, ClientOK, Sessions
  <2>2. QED
    BY <1>11, <1>n, <1>t, <2>1 DEF TunnelOver
<1>12. ASSUME NEW d \in Directions, SourceEnds(d) \/ SinkFails(d)
       PROVE  TypeOK'
  <2>1. ClientOK'
    BY <1>12 DEF SourceEnds, SinkFails, client, ClientOK
  <2>2. QED
    BY <1>12, <1>n, <1>t, <2>1 DEF SourceEnds, SinkFails
<1>13. QED
  BY <1>1, <1>2, <1>3, <1>4, <1>5, <1>6, <1>7, <1>8, <1>9, <1>10, <1>11, <1>12 DEF Session

\* The steps of the environment keep the types.
LEMMA TypeEnvironment == ASSUME TypeOK, Environment PROVE TypeOK'
<1> USE DEF TypeOK
<1>a. ClientOK /\ TasksOK /\ NetworkOK
  OBVIOUS
<1>t. ASSUME UNCHANGED tasks, UNCHANGED client PROVE TasksOK' /\ ClientOK'
  BY <1>t DEF tasks, TasksOK, client, ClientOK
<1>q. ASSUME NEW c \in Conns
      PROVE  stream[c] \in Seq(Tokens) /\ inbox[c] \in Seq(Requests)
  BY DEF NetworkOK
<1>1. ASSUME NEW c \in Conns, NEW part \in {"head", "only"}, Respond(c, part)
      PROVE  TypeOK'
  <2>1. inbox[c] # << >> /\ Head(inbox[c]) \in Requests /\ Tail(inbox[c]) \in Seq(Requests)
    BY <1>1, <1>q DEF Respond
  <2>2. Token(Head(inbox[c]), part) \in Tokens
    BY <2>1 DEF Token, Tokens
  <2>3. Append(stream[c], Token(Head(inbox[c]), part)) \in Seq(Tokens)
    BY <1>q, <2>2
  <2>4. stream' \in [Conns -> Seq(Tokens)] /\ inbox' \in [Conns -> Seq(Requests)]
    BY <1>1, <2>1, <2>3 DEF Respond, NetworkOK
  <2>5. owed' \in [Conns -> 0 .. MaxRequests]
    BY <1>1, <2>1, BoundAssumption DEF Respond, NetworkOK, Requests
  <2>6. NetworkOK'
    BY <1>1, <2>4, <2>5 DEF Respond, NetworkOK
  <2>7. QED
    BY <1>1, <1>t, <2>6 DEF Respond, tunnel
<1>2. ASSUME NEW c \in Conns, RespondBody(c)
      PROVE  TypeOK'
  <2>1. owed[c] \in Requests
    BY <1>2 DEF RespondBody, NetworkOK, Requests
  <2>2. Append(stream[c], Token(owed[c], "body")) \in Seq(Tokens)
    <3>1. Token(owed[c], "body") \in Tokens
      BY <2>1 DEF Token, Tokens
    <3>2. QED
      BY <1>q, <3>1
  <2>3. NetworkOK'
    BY <1>2, <2>2, BoundAssumption DEF RespondBody, NetworkOK
  <2>4. QED
    BY <1>2, <1>t, <2>3 DEF RespondBody, tunnel
<1>3. ASSUME NEW c \in Conns, BackendCloses(c)
      PROVE  TypeOK'
  <2>1. << >> \in Seq(Requests)
    OBVIOUS
  <2>2. NetworkOK'
    BY <1>3, <2>1, BoundAssumption DEF BackendCloses, NetworkOK
  <2>3. QED
    BY <1>3, <1>t, <2>2, BoundAssumption DEF BackendCloses, tunnel
<1>4. ASSUME NEW side \in {"client", "backend"}, SideCloses(side)
      PROVE  TypeOK'
  <2>1. NetworkOK'
    BY <1>4 DEF SideCloses, network, NetworkOK
  <2>2. QED
    BY <1>4, <1>t, <2>1 DEF SideCloses
<1>5. ASSUME NEW c \in Conns, RespondPiece(c)
      PROVE  TypeOK'
  <2>1. Token(owed[c], "piece") \in Tokens
    BY <1>5 DEF RespondPiece, NetworkOK, Requests, Token, Tokens
  <2>2. <<Token(owed[c], "piece")>> \in Seq(Tokens)
    BY <2>1
  <2>3. NetworkOK'
    BY <1>5, <2>2 DEF RespondPiece, NetworkOK
  <2>4. QED
    BY <1>5, <1>t, <2>3 DEF RespondPiece, tunnel
<1>6. QED
  BY <1>1, <1>2, <1>3, <1>4, <1>5 DEF Environment

\* Type correctness.
THEOREM TypeInvariant == Spec => []TypeOK
<1>1. TypeOK /\ [Next]_vars => TypeOK'
  <2> SUFFICES ASSUME TypeOK, [Next]_vars PROVE TypeOK'
    OBVIOUS
  <2>1. CASE Next
    BY <2>1, TypeSession, TypeTask, TypeEnvironment DEF Next
  <2>2. CASE UNCHANGED vars
    <3>1. ClientOK' /\ TasksOK' /\ NetworkOK'
      BY <2>2 DEF vars, client, tasks, network, TypeOK, ClientOK, TasksOK, NetworkOK
    <3>2. QED
      BY <2>2, <3>1 DEF vars, tunnel, TypeOK
  <2>3. QED
    BY <2>1, <2>2
<1>2. QED
  BY <1>1, TypeInit, PTL DEF Spec

-----------------------------------------------------------------------------
\* A task that ends leaves its connection to the pool or to nobody (pool.rs 140-143).
LEMMA EndExclusive ==
    ASSUME TypeOK, Exclusive, NEW t \in Tasks, Finish(t),
           \/ using[t] = {} /\ UNCHANGED <<at, idle>>
           \/ \E c \in using[t] : \/ idle' = idle \cup {c} /\ at' = at
                                  \/ idle' = idle /\ at' = [at EXCEPT ![c] = {}]
    PROVE  Exclusive'
<1> USE DEF Exclusive
<1>1. /\ pc' = [pc EXCEPT ![t] = "idle"] /\ using' = [using EXCEPT ![t] = {}]
      /\ pc \in [Tasks -> Steps] /\ using \in [Tasks -> SUBSET Conns]
      /\ at \in [Conns -> SUBSET Addrs] /\ idle \subseteq Conns
      /\ took' = [took EXCEPT ![t] = 0] /\ took \in [Tasks -> 0 .. MaxRequests]
  BY DEF Finish, TypeOK, TasksOK, NetworkOK
<1>2. \A u \in Tasks : using'[u] = IF u = t THEN {} ELSE using[u]
  BY <1>1
<1>3. \A u \in Tasks : /\ pc'[u] = IF u = t THEN "idle" ELSE pc[u]
                       /\ took'[u] = IF u = t THEN 0 ELSE took[u]
  BY <1>1
<1>4. CASE using[t] = {} /\ UNCHANGED <<at, idle>>
  <2>1. UNION {using'[u] : u \in Tasks} = UNION {using[u] : u \in Tasks}
    BY <1>2, <1>4
  <2>2. \A c \in Conns : at'[c] # {} <=> c \in idle' \cup UNION {using'[u] : u \in Tasks}
    BY <1>4, <2>1
  <2>3. QED
    BY <1>2, <1>3, <1>4, <2>2
<1>5. ASSUME NEW c \in using[t], \/ idle' = idle \cup {c} /\ at' = at
                                 \/ idle' = idle /\ at' = [at EXCEPT ![c] = {}]
      PROVE  Exclusive'
  <2>1. using[t] = {c} /\ c \notin idle /\ c \in Conns
    BY <1>1
  <2>2. \A u \in Tasks : u # t => c \notin using[u]
    BY <2>1
  <2>3. \A d : d \in UNION {using'[u] : u \in Tasks} <=>
               (d \in UNION {using[u] : u \in Tasks} /\ d # c)
    BY <1>2, <2>1, <2>2
  <2>4. c \in UNION {using[u] : u \in Tasks}
    OBVIOUS
  <2>5. \A d \in Conns : at'[d] # {} <=> d \in idle' \cup UNION {using'[u] : u \in Tasks}
    BY <1>1, <1>5, <2>1, <2>3, <2>4
  <2>6. \A u \in Tasks : using'[u] \cap idle' = {}
    BY <1>2, <1>5, <2>1, <2>2
  <2>7. QED
    BY <1>2, <1>3, <2>5, <2>6
<1>6. QED
  BY <1>4, <1>5

\* What giving a connection back does to the pool.
LEMMA GiveBackEffect ==
    ASSUME NEW c \in Conns, NEW rest, NEW whole, GiveBack(c, rest, whole)
    PROVE  \/ idle' = idle \cup {c} /\ at' = at
           \/ idle' = idle /\ at' = [at EXCEPT ![c] = {}]
BY DEF GiveBack, Keep, Drop

\* How a step of a task that ends treats its connection: whole says that the last
\* part of a response was read.
LastPart(t, c) ==
    \/ pc[t] = "head" /\ Head(stream[c]).part = "only"
    \/ pc[t] = "body" /\ Head(stream[c]).part = "body"
Ending(t) ==
    /\ Finish(t)
    /\ \/ using[t] = {} /\ UNCHANGED <<network, idle>>
       \/ \E c \in using[t], whole \in BOOLEAN : \E rest \in Seq(Tokens) :
             /\ GiveBack(c, rest, whole)
             /\ whole => stream[c] # << >> /\ rest = Tail(stream[c]) /\ LastPart(t, c)

\* Every task that ends, and the request that times out, ends this way.
LEMMA TaskEnds ==
    ASSUME TypeOK, Exclusive, NEW t \in Tasks,
           \/ ConnectFails(t) \/ BrokenPipe(t) \/ BadResponse(t) \/ ReadOnly(t)
           \/ ReadBody(t) \/ BodyCutShort(t) \/ ReadTimeout(t)
           \/ (t = Main /\ (Http2 \/ Http2Timeout \/ RequestTimeout))
    PROVE  Ending(t)
<1>1. Finish(t)
  BY DEF ConnectFails, BrokenPipe, BadResponse, ReadOnly, ReadBody, BodyCutShort,
     ReadTimeout, Http2, Http2Timeout, RequestTimeout, Fail, Succeed
<1>2. ASSUME NEW c \in using[t]
      PROVE  stream[c] \in Seq(Tokens)
  BY DEF TypeOK, TasksOK, NetworkOK
<1>3. << >> \in Seq(Tokens)
  OBVIOUS
<1>4. ASSUME NEW c \in using[t], stream[c] # << >>
      PROVE  Tail(stream[c]) \in Seq(Tokens)
  BY <1>2, <1>4
<1>5. CASE ConnectFails(t) \/ (t = Main /\ (Http2 \/ Http2Timeout))
  <2>1. using[t] = {}
    BY <1>5 DEF ConnectFails, Http2, Http2Timeout, Exclusive
  <2>2. UNCHANGED <<network, idle>>
    BY <1>5 DEF ConnectFails, Http2, Http2Timeout
  <2>3. QED
    BY <1>1, <2>1, <2>2 DEF Ending
<1>6. CASE BrokenPipe(t) \/ BadResponse(t)
  <2>1. PICK c \in using[t] : GiveBack(c, stream[c], FALSE)
    BY <1>6 DEF BrokenPipe, BadResponse
  <2>2. QED
    BY <1>1, <1>2, <2>1 DEF Ending
<1>7. CASE ReadOnly(t) \/ ReadBody(t)
  <2>1. PICK c \in using[t] : /\ stream[c] # << >> /\ LastPart(t, c)
                              /\ GiveBack(c, Tail(stream[c]), TRUE)
    BY <1>7 DEF ReadOnly, ReadBody, LastPart
  <2>2. QED
    BY <1>1, <1>4, <2>1 DEF Ending
<1>8. CASE BodyCutShort(t) \/ ReadTimeout(t)
  <2>1. PICK c \in using[t] : GiveBack(c, << >>, FALSE)
    BY <1>8 DEF BodyCutShort, ReadTimeout
  <2>2. QED
    BY <1>1, <1>3, <2>1 DEF Ending
<1>9. CASE t = Main /\ RequestTimeout
  <2>1. CASE using[t] = {}
    BY <1>1, <1>9, <2>1 DEF RequestTimeout, Ending
  <2>2. CASE using[t] # {}
    <3>1. PICK c \in using[t] : GiveBack(c, stream[c], FALSE)
      BY <1>9, <2>2 DEF RequestTimeout
    <3>2. QED
      BY <1>1, <1>2, <3>1 DEF Ending
  <2>3. QED
    BY <2>1, <2>2
<1>10. QED
  BY <1>5, <1>6, <1>7, <1>8, <1>9

\* The kinds of steps there are, as far as tasks and connections are concerned.
LEMMA StepKinds ==
    ASSUME TypeOK, Exclusive, [Next]_vars
    PROVE  \/ \E t \in Tasks : \/ Ending(t) \/ ReuseIdle(t) \/ ConnectNew(t) \/ Send(t)
                               \/ ReadResponse(t) \/ ReadPiece(t)
           \/ TakeRequest
           \/ \E c \in Conns : \/ Respond(c, "head") \/ Respond(c, "only")
                               \/ RespondPiece(c) \/ RespondBody(c) \/ BackendCloses(c)
           \/ UNCHANGED <<tasks, network, idle>>
<1>1. CASE Session
  <2>1. CASE Http2 \/ Http2Timeout \/ RequestTimeout
    BY <2>1, TaskEnds DEF Tasks
  <2>2. CASE \/ AcceptClient \/ Hangup \/ ReadHead \/ Reply \/ Upgrade \/ UpgradeConnects
             \/ UpgradeAnswered \/ LastReply \/ TunnelOver
    BY <2>2 DEF AcceptClient, Hangup, ReadHead, Reply, Upgrade, UpgradeConnects,
       UpgradeAnswered, LastReply, TunnelOver
  <2>3. ASSUME NEW d \in Directions, SourceEnds(d) \/ SinkFails(d)
        PROVE  UNCHANGED <<tasks, network, idle>>
    BY <2>3 DEF SourceEnds, SinkFails
  <2>4. QED
    BY <1>1, <2>1, <2>2, <2>3 DEF Session
<1>2. CASE \E t \in Tasks : TaskStep(t)
  BY <1>2, TaskEnds DEF TaskStep, ReadStep
<1>3. CASE Environment
  BY <1>3 DEF Environment, SideCloses
<1>4. CASE UNCHANGED vars
  BY <1>4 DEF vars
<1>5. QED
  BY <1>1, <1>2, <1>3, <1>4 DEF Next

\* While the worker takes requests its task is idle; afterwards the worker has a
\* response only until it is sent.
LEMMA SessionInductive == ASSUME TypeOK, Exclusive, InSession, [Next]_vars PROVE InSession'
<1> USE DEF InSession
<1>0. pc \in [Tasks -> Steps] /\ Main \in Tasks
  BY DEF TypeOK, TasksOK, Tasks
<1>1. ASSUME NEW t \in Tasks, Finish(t), t # Main => reply' = reply,
             pc[t] # "idle"
      PROVE  InSession'
  BY <1>0, <1>1 DEF Finish
<1>2. ASSUME NEW t \in Tasks, TaskStep(t)
      PROVE  InSession'
  <2>1. CASE ReuseIdle(t) \/ ConnectNew(t) \/ Send(t) \/ ReadResponse(t) \/ ReadPiece(t)
    BY <1>0, <2>1 DEF ReuseIdle, ConnectNew, Send, ReadResponse, ReadPiece, client, tasks
  <2>2. CASE ConnectFails(t) \/ BrokenPipe(t) \/ BadResponse(t) \/ ReadTimeout(t)
    BY <1>1, <2>2 DEF ConnectFails, BrokenPipe, BadResponse, ReadTimeout, Fail
  <2>3. CASE ReadOnly(t) \/ ReadBody(t) \/ BodyCutShort(t)
    BY <1>1, <2>3 DEF ReadOnly, ReadBody, BodyCutShort, Succeed
  <2>4. QED
    BY <1>2, <2>1, <2>2, <2>3 DEF TaskStep, ReadStep
<1>3. CASE Session
  <2>1. CASE Http2 \/ Http2Timeout
    BY <1>0, <1>1, <2>1 DEF Http2, Http2Timeout, Fail, Succeed
  <2>2. CASE RequestTimeout
    BY <1>0, <1>1, <2>2 DEF RequestTimeout, Fail
  <2>3. CASE TakeRequest
    <3>1. pc[Main] = "idle" /\ reply = NoReply
      BY <2>3 DEF TakeRequest
    <3>2. CASE \E status \in {"404", "redirect", "502", "503"} : Answer(status)
      BY <3>1, <3>2 DEF Answer
    <3>3. ASSUME NEW p \in Plans, NEW i \in Selectable(p.backends),
                 p.backends[i].addr # Unresolved, Forward(p, p.backends[i])
          PROVE  InSession'
      <4>1. session' = "call" /\ reply' = reply /\ pc'[Main] # "idle"
        BY <2>3, <3>3, ForwardType DEF TakeRequest, Selectable
      <4>2. QED
        BY <3>1, <4>1
    <3>4. QED
      BY <2>3, <3>2, <3>3 DEF TakeRequest
  <2>4. CASE \/ AcceptClient \/ Hangup \/ ReadHead \/ Reply \/ LastReply \/ TunnelOver
    BY <2>4 DEF AcceptClient, Hangup, ReadHead, Reply, LastReply, TunnelOver, tasks
  <2>5. CASE Upgrade \/ UpgradeConnects \/ UpgradeAnswered
    BY <2>5 DEF Upgrade, UpgradeConnects, UpgradeAnswered, tasks
  <2>6. ASSUME NEW d \in Directions, SourceEnds(d) \/ SinkFails(d)
        PROVE  InSession'
    BY <2>6 DEF SourceEnds, SinkFails, client, tasks
  <2>7. QED
    BY <1>3, <2>1, <2>2, <2>3, <2>4, <2>5, <2>6 DEF Session
<1>4. CASE Environment
  BY <1>4 DEF Environment, Respond, RespondPiece, RespondBody, BackendCloses, SideCloses,
     client, tasks
<1>5. CASE UNCHANGED vars
  BY <1>5 DEF vars, client, tasks
<1>6. QED
  BY <1>2, <1>3, <1>4, <1>5 DEF Next

\* A request that is taken starts idle tasks only.
LEMMA TakeStarts ==
    ASSUME TypeOK, InSession, TakeRequest
    PROVE  /\ pc' \in [Tasks -> Steps] /\ job' \in [Tasks -> Jobs]
           /\ UNCHANGED <<using, took, network, idle>>
           /\ \A t \in Tasks : \/ pc'[t] = pc[t] /\ job'[t] = job[t]
                               \/ pc[t] = "idle" /\ pc'[t] \in {"connect", "h2"}
<1>1. pc[Main] = "idle" /\ UNCHANGED <<using, took, network, idle>> /\ request < MaxRequests
  BY DEF TakeRequest, InSession
<1>2. CASE \E status \in {"404", "redirect", "502", "503"} : Answer(status)
  BY <1>1, <1>2 DEF Answer, TypeOK, TasksOK
<1>3. ASSUME NEW p \in Plans, NEW i \in Selectable(p.backends),
             p.backends[i].addr # Unresolved, Forward(p, p.backends[i])
      PROVE  /\ pc' \in [Tasks -> Steps] /\ job' \in [Tasks -> Jobs]
             /\ \A t \in Tasks : \/ pc'[t] = pc[t] /\ job'[t] = job[t]
                                 \/ pc[t] = "idle" /\ pc'[t] \in {"connect", "h2"}
  BY <1>1, <1>3, ForwardType DEF Selectable
<1>4. QED
  BY <1>1, <1>2, <1>3 DEF TakeRequest

\* A connection stays with one owner.
LEMMA ExclusiveInductive == ASSUME TypeOK, Exclusive, InSession, [Next]_vars PROVE Exclusive'
<1>0. /\ pc \in [Tasks -> Steps] /\ using \in [Tasks -> SUBSET Conns]
      /\ at \in [Conns -> SUBSET Addrs] /\ idle \subseteq Conns
      /\ took \in [Tasks -> 0 .. MaxRequests]
  BY DEF TypeOK, TasksOK, NetworkOK
<1>1. ASSUME NEW t \in Tasks, Ending(t)
      PROVE  Exclusive'
  <2>1. CASE using[t] = {} /\ UNCHANGED <<network, idle>>
    BY <1>1, <2>1, EndExclusive DEF Ending, network
  <2>2. ASSUME NEW c \in using[t], NEW whole, NEW rest, GiveBack(c, rest, whole)
        PROVE  Exclusive'
    <3>1. \/ idle' = idle \cup {c} /\ at' = at
          \/ idle' = idle /\ at' = [at EXCEPT ![c] = {}]
      BY <1>0, <2>2, GiveBackEffect
    <3>2. QED
      BY <1>1, <3>1, EndExclusive DEF Ending
  <2>3. QED
    BY <1>1, <2>1, <2>2 DEF Ending
<1>2. ASSUME NEW t \in Tasks, ReuseIdle(t)
      PROVE  Exclusive'
  <2>1. PICK c \in idle : /\ using' = [using EXCEPT ![t] = {c}] /\ idle' = idle \ {c}
                          /\ pc' = [pc EXCEPT ![t] = "send"] /\ at' = at
                          /\ pc[t] = "connect" /\ took' = took
    BY <1>2 DEF ReuseIdle, network
  <2>2. using[t] = {} /\ \A u \in Tasks : c \notin using[u]
    BY <1>2, <2>1 DEF ReuseIdle, Exclusive
  <2>3. \A u \in Tasks : /\ using'[u] = IF u = t THEN {c} ELSE using[u]
                         /\ pc'[u] = IF u = t THEN "send" ELSE pc[u]
    BY <1>0, <2>1
  <2>4. \A d \in Conns : d \in idle' \cup UNION {using'[u] : u \in Tasks} <=>
                         d \in idle \cup UNION {using[u] : u \in Tasks}
    BY <2>1, <2>2, <2>3
  <2>5. \A d \in Conns : at'[d] # {} <=> d \in idle' \cup UNION {using'[u] : u \in Tasks}
    BY <2>1, <2>4 DEF Exclusive
  <2>6. QED
    BY <2>1, <2>2, <2>3, <2>5 DEF Exclusive
<1>3. ASSUME NEW t \in Tasks, ConnectNew(t)
      PROVE  Exclusive'
  <2>1. PICK c \in Free : /\ using' = [using EXCEPT ![t] = {c}] /\ idle' = idle
                          /\ pc' = [pc EXCEPT ![t] = "send"]
                          /\ at' = [at EXCEPT ![c] = {job[t].addr}]
                          /\ pc[t] = "connect" /\ took' = took
    BY <1>3 DEF ConnectNew
  <2>2. c \in Conns /\ c \notin idle /\ using[t] = {} /\ \A u \in Tasks : c \notin using[u]
    <3>1. c \in Conns /\ at[c] = {}
      BY DEF Free
    <3>2. c \notin idle \cup UNION {using[u] : u \in Tasks}
      BY <3>1 DEF Exclusive
    <3>3. using[t] = {}
      BY <1>3 DEF ConnectNew, Exclusive
    <3>4. QED
      BY <3>1, <3>2, <3>3
  <2>3. \A u \in Tasks : /\ using'[u] = IF u = t THEN {c} ELSE using[u]
                         /\ pc'[u] = IF u = t THEN "send" ELSE pc[u]
    BY <1>0, <2>1
  <2>4. \A d \in Conns : d \in idle' \cup UNION {using'[u] : u \in Tasks} <=>
                         (d = c \/ d \in idle \cup UNION {using[u] : u \in Tasks})
    BY <2>1, <2>2, <2>3
  <2>5. \A d \in Conns : at'[d] # {} <=> (d = c \/ at[d] # {})
    BY <1>0, <2>1, <2>2
  <2>6. \A d \in Conns : at'[d] # {} <=> d \in idle' \cup UNION {using'[u] : u \in Tasks}
    BY <2>4, <2>5 DEF Exclusive
  <2>7. QED
    BY <2>1, <2>2, <2>3, <2>6 DEF Exclusive
<1>4. ASSUME NEW t \in Tasks, Send(t) \/ ReadResponse(t)
      PROVE  Exclusive'
  <2>1. /\ UNCHANGED <<using, at, idle>>
        /\ \/ pc[t] = "send" /\ pc' = [pc EXCEPT ![t] = "head"] /\ took' = took
           \/ /\ pc[t] = "head" /\ pc' = [pc EXCEPT ![t] = "body"]
              /\ \E n : took' = [took EXCEPT ![t] = n]
    BY <1>4 DEF Send, ReadResponse
  <2>2. QED
    BY <1>0, <2>1 DEF Exclusive
<1>5. CASE TakeRequest
  <2>1. /\ UNCHANGED <<using, at, idle, took>>
        /\ \A t \in Tasks : pc'[t] = pc[t] \/ (pc[t] = "idle" /\ pc'[t] \in {"connect", "h2"})
    BY <1>5, TakeStarts DEF network
  <2>2. QED
    BY <2>1 DEF Exclusive
<1>6. ASSUME NEW c \in Conns, \/ Respond(c, "head") \/ Respond(c, "only")
                              \/ RespondPiece(c) \/ RespondBody(c) \/ BackendCloses(c)
      PROVE  Exclusive'
  BY <1>6 DEF Respond, RespondPiece, RespondBody, BackendCloses, tasks, Exclusive
<1>7. CASE UNCHANGED <<tasks, network, idle>> \/ \E t \in Tasks : ReadPiece(t)
  BY <1>7 DEF ReadPiece, tasks, network, Exclusive
<1>8. QED
  BY <1>1, <1>2, <1>3, <1>4, <1>5, <1>6, <1>7, StepKinds

-----------------------------------------------------------------------------
\* No response is under way but the one that the user of a connection waits for.
\* What is left once the last part of it was read is nothing.
LEMMA LastPartLeavesNothing ==
    ASSUME TypeOK, Clean, OwnAnswerUnlessCut, NEW t \in Tasks, NEW c \in using[t], c \notin cut,
           stream[c] # << >>, LastPart(t, c)
    PROVE  inbox[c] = << >> /\ owed[c] = 0 /\ Tail(stream[c]) = << >>
<1> DEFINE req == job[t].req
<1>1. /\ \A part : Token(req, part).part = part
      /\ \A a, b : Head(<<a>>) = a /\ Head(<<a, b>>) = a /\ Tail(<<a>>) = << >>
  BY DEF Token
<1>2. CASE pc[t] = "head" /\ Head(stream[c]).part = "only"
  <2>1. Response(c, req)
    BY <1>2 DEF Clean
  <2>2. Head(stream[c]) # Token(req, "head")
    BY <1>1, <1>2
  <2>3. inbox[c] = << >> /\ owed[c] = 0 /\ stream[c] = <<Token(req, "only")>>
    BY <2>1, <2>2 DEF Response, Nothing
  <2>4. QED
    BY <1>1, <2>3
<1>3. CASE pc[t] = "body" /\ Head(stream[c]).part = "body"
  <2>1. Body(c, req)
    BY <1>3 DEF Clean
  <2>2. /\ stream[c] # <<Token(req, "piece")>>
        /\ stream[c] # <<Token(req, "piece"), Token(req, "body")>>
    BY <1>1, <1>3
  <2>3. inbox[c] = << >> /\ owed[c] = 0 /\ stream[c] = <<Token(req, "body")>>
    BY <2>1, <2>2 DEF Body, BodyIs
  <2>4. QED
    BY <1>1, <2>3
<1>4. QED
  BY <1>2, <1>3 DEF LastPart

\* A connection that is given back, whole or cut, is as Clean wants it.
LEMMA EndClean ==
    ASSUME TypeOK, Exclusive, Clean, OwnAnswerUnlessCut, NEW t \in Tasks, Ending(t)
    PROVE  Clean' /\ OwnAnswerUnlessCut'
<1>0. /\ using \in [Tasks -> SUBSET Conns] /\ pc \in [Tasks -> Steps] /\ cut \subseteq Conns
      /\ took \in [Tasks -> 0 .. MaxRequests] /\ job \in [Tasks -> Jobs]
  BY DEF TypeOK, TasksOK, NetworkOK
<1>1. /\ \A u \in Tasks \ {t} : /\ using'[u] = using[u] /\ pc'[u] = pc[u]
                                /\ took'[u] = took[u] /\ job'[u] = job[u]
      /\ using'[t] = {} /\ pc'[t] = "idle" /\ took'[t] = 0
  BY <1>0 DEF Ending, Finish
<1>2. CASE using[t] = {} /\ UNCHANGED <<network, idle>>
  <2>1. \A d \in Conns : d \in UNION {using'[u] : u \in Tasks} <=>
                         d \in UNION {using[u] : u \in Tasks}
    BY <1>1, <1>2
  <2>2. \A d \in Conns \ cut' : d \notin UNION {using'[u] : u \in Tasks} => Nothing(d)'
    BY <1>2, <2>1 DEF Clean, Nothing, network
  <2>3. ASSUME NEW u \in Tasks, NEW d \in using'[u] \ cut'
        PROVE  /\ pc'[u] = "send" => Nothing(d)'
               /\ pc'[u] = "head" => Response(d, job[u].req)'
               /\ pc'[u] = "body" => Body(d, job[u].req)'
    <3>1. u # t /\ d \in using[u] \ cut
      BY <1>1, <1>2, <2>3 DEF network
    <3>2. UNCHANGED <<inbox, owed, stream>>
      BY <1>2 DEF network
    <3>3. QED
      BY <1>1, <3>1, <3>2 DEF Clean, Nothing, Response, Body, BodyIs
  <2>4. ASSUME NEW u \in Tasks, took'[u] # 0, using'[u] \cap cut' = {}
        PROVE  took'[u] = job'[u].req
    <3>1. u # t
      BY <1>1, <2>4
    <3>2. using[u] \cap cut = {}
      BY <1>1, <1>2, <2>4, <3>1 DEF network
    <3>3. QED
      BY <1>1, <2>4, <3>1, <3>2 DEF OwnAnswerUnlessCut
  <2>5. QED
    BY <2>2, <2>3, <2>4 DEF Clean, OwnAnswerUnlessCut
<1>3. ASSUME NEW c \in using[t], NEW whole \in BOOLEAN, NEW rest \in Seq(Tokens),
             GiveBack(c, rest, whole),
             whole => stream[c] # << >> /\ rest = Tail(stream[c]) /\ LastPart(t, c)
      PROVE  Clean' /\ OwnAnswerUnlessCut'
  <2>1. c \in Conns /\ \A u \in Tasks : u # t => c \notin using[u]
    BY <1>0 DEF Exclusive
  \* Nothing else is touched.
  <2>2. \A d \in Conns \ {c} : /\ inbox'[d] = inbox[d] /\ owed'[d] = owed[d]
                               /\ stream'[d] = stream[d] /\ (d \in cut' <=> d \in cut)
    BY <1>3, <2>1 DEF GiveBack, Keep, Drop, TypeOK, NetworkOK
  <2>3. c \in cut' \/ Nothing(c)'
    <3>1. CASE Drop(c)
      BY <2>1, <3>1 DEF Drop, Nothing, TypeOK, NetworkOK
    <3>2. CASE Keep(c, rest, whole) /\ (~whole \/ c \in cut)
      BY <3>2 DEF Keep
    <3>3. CASE Keep(c, rest, whole) /\ whole /\ c \notin cut
      <4>1. inbox[c] = << >> /\ owed[c] = 0 /\ rest = << >>
        BY <1>3, <3>3, LastPartLeavesNothing
      <4>2. stream'[c] = << >>
        <5>1. PICK n \in 0 .. Len(rest) :
                 stream' = [stream EXCEPT ![c] = SubSeq(rest, n + 1, Len(rest))]
          BY <3>3 DEF Keep
        <5>2. SubSeq(rest, n + 1, Len(rest)) = << >>
          BY <4>1, <5>1
        <5>3. QED
          BY <2>1, <5>1, <5>2 DEF TypeOK, NetworkOK
      <4>3. QED
        BY <3>3, <4>1, <4>2 DEF Keep, Nothing
    <3>4. QED
      BY <1>3, <3>1, <3>2, <3>3 DEF GiveBack
  <2>4. ASSUME NEW d \in Conns \ cut', d \notin UNION {using'[u] : u \in Tasks}
        PROVE  Nothing(d)'
    <3>1. CASE d = c
      BY <2>3, <2>4, <3>1
    <3>2. CASE d # c
      <4>1. d \notin UNION {using[u] : u \in Tasks}
        <5>1. using[t] = {c}
          BY DEF Exclusive
        <5>2. QED
          BY <1>1, <2>4, <3>2, <5>1
      <4>2. d \notin cut
        BY <2>2, <2>4, <3>2
      <4>3. Nothing(d)
        BY <4>1, <4>2 DEF Clean
      <4>4. QED
        BY <2>2, <3>2, <4>3 DEF Nothing
    <3>3. QED
      BY <3>1, <3>2
  <2>5. ASSUME NEW u \in Tasks, NEW d \in using'[u] \ cut'
        PROVE  /\ pc'[u] = "send" => Nothing(d)'
               /\ pc'[u] = "head" => Response(d, job[u].req)'
               /\ pc'[u] = "body" => Body(d, job[u].req)'
    <3>1. u # t /\ d \in using[u] /\ d # c /\ d \in Conns
      BY <1>0, <1>1, <2>1, <2>5
    <3>2. d \notin cut
      BY <2>2, <2>5, <3>1
    <3>3. /\ pc[u] = "send" => Nothing(d)
          /\ pc[u] = "head" => Response(d, job[u].req)
          /\ pc[u] = "body" => Body(d, job[u].req)
      BY <3>1, <3>2 DEF Clean
    <3>4. QED
      BY <1>1, <2>2, <3>1, <3>3 DEF Nothing, Response, Body, BodyIs
  <2>6. ASSUME NEW u \in Tasks, took'[u] # 0, using'[u] \cap cut' = {}
        PROVE  took'[u] = job'[u].req
    <3>1. u # t
      BY <1>1, <2>6
    <3>2. using[u] \cap cut = {}
      BY <1>0, <1>1, <2>1, <2>2, <2>6, <3>1
    <3>3. QED
      BY <1>1, <2>6, <3>1, <3>2 DEF OwnAnswerUnlessCut
  <2>7. QED
    BY <2>4, <2>5, <2>6 DEF Clean, OwnAnswerUnlessCut
<1>4. QED
  BY <1>2, <1>3 DEF Ending

\* The steps by which a task goes on keep Clean.
LEMMA TaskClean ==
    ASSUME TypeOK, Exclusive, Clean, OwnAnswerUnlessCut, NEW t \in Tasks,
           ReuseIdle(t) \/ ConnectNew(t) \/ Send(t) \/ ReadResponse(t) \/ ReadPiece(t)
    PROVE  Clean' /\ OwnAnswerUnlessCut'
<1>0. /\ using \in [Tasks -> SUBSET Conns] /\ pc \in [Tasks -> Steps] /\ idle \subseteq Conns
      /\ took \in [Tasks -> 0 .. MaxRequests] /\ job \in [Tasks -> Jobs] /\ job' = job
      /\ stream \in [Conns -> Seq(Tokens)] /\ inbox \in [Conns -> Seq(Requests)]
  BY DEF TypeOK, TasksOK, NetworkOK, ReuseIdle, ConnectNew, Send, ReadResponse, ReadPiece,
     tasks
<1>1. CASE ReuseIdle(t) \/ ConnectNew(t)
  <2>1. PICK c \in Conns : /\ using' = [using EXCEPT ![t] = {c}]
                           /\ c \notin UNION {using[u] : u \in Tasks}
    <3>1. CASE ReuseIdle(t)
      <4>1. PICK c \in idle : using' = [using EXCEPT ![t] = {c}]
        BY <3>1 DEF ReuseIdle
      <4>2. c \in Conns /\ \A u \in Tasks : c \notin using[u]
        BY <1>0 DEF Exclusive
      <4>3. QED
        BY <4>1, <4>2
    <3>2. CASE ConnectNew(t)
      BY <3>2 DEF ConnectNew, Free, Exclusive
    <3>3. QED
      BY <1>1, <3>1, <3>2
  <2>2. /\ UNCHANGED <<took, inbox, owed, stream, cut>>
        /\ pc[t] = "connect" /\ pc' = [pc EXCEPT ![t] = "send"]
    BY <1>1 DEF ReuseIdle, ConnectNew, network
  <2>3. using[t] = {} /\ took[t] = 0
    BY <2>2 DEF Exclusive
  <2>4. \A u \in Tasks : /\ using'[u] = IF u = t THEN {c} ELSE using[u]
                         /\ pc'[u] = IF u = t THEN "send" ELSE pc[u]
    BY <1>0, <2>1, <2>2
  <2>5. c \notin cut => Nothing(c)
    BY <2>1 DEF Clean
  <2>6. ASSUME NEW d \in Conns \ cut', d \notin UNION {using'[u] : u \in Tasks}
        PROVE  Nothing(d)'
    <3>1. d \notin UNION {using[u] : u \in Tasks}
      BY <2>3, <2>4, <2>6
    <3>2. QED
      BY <2>2, <3>1 DEF Clean, Nothing
  <2>7. ASSUME NEW u \in Tasks, NEW d \in using'[u] \ cut'
        PROVE  /\ pc'[u] = "send" => Nothing(d)'
               /\ pc'[u] = "head" => Response(d, job[u].req)'
               /\ pc'[u] = "body" => Body(d, job[u].req)'
    <3>1. CASE u = t
      BY <2>2, <2>4, <2>5, <2>7, <3>1 DEF Nothing
    <3>2. CASE u # t
      BY <1>0, <2>2, <2>4, <2>7, <3>2 DEF Clean, Nothing, Response, Body, BodyIs
    <3>3. QED
      BY <3>1, <3>2
  <2>8. OwnAnswerUnlessCut'
    BY <1>0, <2>2, <2>3, <2>4 DEF OwnAnswerUnlessCut
  <2>9. QED
    BY <1>0, <2>6, <2>7, <2>8 DEF Clean
<1>2. CASE Send(t) \/ ReadResponse(t) \/ ReadPiece(t)
  <2>1. PICK c \in using[t] :
          \/ /\ pc[t] = "send" /\ pc' = [pc EXCEPT ![t] = "head"]
             /\ inbox' = IF c \in closed THEN inbox
                         ELSE [inbox EXCEPT ![c] = Append(@, job[t].req)]
             /\ UNCHANGED <<took, owed, stream>>
          \/ /\ pc[t] = "head" /\ pc' = [pc EXCEPT ![t] = "body"]
             /\ stream[c] # << >> /\ Head(stream[c]).part = "head"
             /\ stream' = [stream EXCEPT ![c] = Tail(@)]
             /\ took' = [took EXCEPT ![t] = Head(stream[c]).of]
             /\ UNCHANGED <<inbox, owed>>
          \/ /\ pc[t] = "body" /\ pc' = pc
             /\ stream[c] # << >> /\ Head(stream[c]).part = "piece"
             /\ stream' = [stream EXCEPT ![c] = Tail(@)]
             /\ UNCHANGED <<took, inbox, owed>>
    BY <1>2 DEF Send, ReadResponse, ReadPiece, tasks
  <2>2. UNCHANGED <<using, cut>>
    BY <1>2 DEF Send, ReadResponse, ReadPiece, tasks
  <2>3. c \in Conns /\ \A u \in Tasks : u # t => c \notin using[u]
    BY <1>0 DEF Exclusive
  <2>4. \A d \in Conns \ {c} : inbox'[d] = inbox[d] /\ owed'[d] = owed[d] /\ stream'[d] = stream[d]
    BY <1>0, <2>1
  <2>5. \A u \in Tasks \ {t} : pc'[u] = pc[u] /\ took'[u] = took[u]
    BY <1>0, <2>1
  <2>6. ASSUME pc[t] = "send"
        PROVE  /\ pc'[t] = "head" /\ took'[t] = 0
               /\ c \notin cut => Response(c, job[t].req)'
    <3>1. pc'[t] = "head" /\ took' = took /\ took[t] = 0
      BY <1>0, <2>1, <2>6 DEF Exclusive
    <3>2. ASSUME c \notin cut
          PROVE  Response(c, job[t].req)'
      <4>1. Nothing(c)
        BY <2>6, <3>2 DEF Clean
      <4>2. CASE c \in closed
        BY <2>1, <2>6, <4>1, <4>2 DEF Nothing, Response
      <4>3. CASE c \notin closed
        <5>1. Append(<< >>, job[t].req) = <<job[t].req>>
          OBVIOUS
        <5>2. inbox'[c] = <<job[t].req>> /\ owed'[c] = 0 /\ stream'[c] = << >>
          BY <1>0, <2>1, <2>3, <2>6, <4>1, <4>3, <5>1 DEF Nothing
        <5>3. QED
          BY <1>0, <5>2 DEF Response
      <4>4. QED
        BY <4>2, <4>3
    <3>3. QED
      BY <3>1, <3>2
  <2>7. ASSUME pc[t] = "head"
        PROVE  /\ pc'[t] = "body"
               /\ c \notin cut => Body(c, job[t].req)' /\ took'[t] = job[t].req
    <3>1. pc'[t] = "body" /\ took'[t] = Head(stream[c]).of /\ stream'[c] = Tail(stream[c])
      BY <1>0, <2>1, <2>3, <2>7
    <3>2. ASSUME c \notin cut
          PROVE  Body(c, job[t].req)' /\ took'[t] = job[t].req
      <4> DEFINE req == job[t].req
      <4>1. Response(c, req)
        BY <2>7, <3>2 DEF Clean
      <4>2. Head(stream[c]).part = "head" /\ stream[c] # << >> /\ UNCHANGED <<inbox, owed>>
        BY <2>1, <2>7
      <4>3. stream[c] # <<Token(req, "only")>>
        <5>1. \A a : Head(<<a>>) = a
          OBVIOUS
        <5>2. QED
          BY <4>2, <5>1 DEF Token
      <4>4. Head(stream[c]) = Token(req, "head") /\ Body(c, req)'
        <5>1. /\ inbox[c] = << >> /\ Head(stream[c]) = Token(req, "head")
              /\ BodyIs(c, req, Tail(stream[c]))
          BY <4>1, <4>2, <4>3 DEF Response, Nothing
        <5>2. QED
          BY <1>0, <3>1, <4>2, <5>1 DEF Body, BodyIs
      <4>5. QED
        BY <1>0, <3>1, <4>4 DEF Token
    <3>3. QED
      BY <3>1, <3>2
  <2>8. ASSUME pc[t] = "body"
        PROVE  /\ pc'[t] = "body" /\ took'[t] = took[t]
               /\ c \notin cut => Body(c, job[t].req)'
    <3>1. /\ pc'[t] = "body" /\ took'[t] = took[t] /\ stream'[c] = Tail(stream[c])
          /\ stream[c] # << >> /\ Head(stream[c]).part = "piece" /\ UNCHANGED <<inbox, owed>>
      BY <1>0, <2>1, <2>3, <2>8
    <3>2. ASSUME c \notin cut
          PROVE  Body(c, job[t].req)'
      <4> DEFINE req == job[t].req
      <4>1. \A a, b : /\ Head(<<a>>) = a /\ Tail(<<a>>) = << >>
                      /\ Tail(<<a, b>>) = <<b>>
        OBVIOUS
      <4>2. Body(c, req)
        BY <2>8, <3>2 DEF Clean
      <4>3. stream[c] # <<Token(req, "body")>>
        BY <3>1, <4>1 DEF Token
      <4>4. \/ stream[c] = <<Token(req, "piece")>> /\ owed[c] \in {0, req}
            \/ stream[c] = <<Token(req, "piece"), Token(req, "body")>> /\ owed[c] = 0
        BY <3>1, <4>2, <4>3 DEF Body, BodyIs
      <4>5. \/ stream'[c] = << >> /\ owed'[c] \in {0, req}
            \/ stream'[c] = <<Token(req, "body")>> /\ owed'[c] = 0
        BY <3>1, <4>1, <4>4
      <4>6. QED
        BY <1>0, <3>1, <4>2, <4>5 DEF Body, BodyIs
    <3>3. QED
      BY <3>1, <3>2
  <2>9. ASSUME NEW d \in Conns \ cut', d \notin UNION {using'[u] : u \in Tasks}
        PROVE  Nothing(d)'
    <3>1. d # c
      BY <2>2, <2>9
    <3>2. QED
      BY <2>2, <2>4, <2>9, <3>1 DEF Clean, Nothing
  <2>10. ASSUME NEW u \in Tasks, NEW d \in using'[u] \ cut'
        PROVE  /\ pc'[u] = "send" => Nothing(d)'
               /\ pc'[u] = "head" => Response(d, job[u].req)'
               /\ pc'[u] = "body" => Body(d, job[u].req)'
    <3>1. CASE u = t
      <4>1. d = c
        BY <2>2, <2>10, <3>1 DEF Exclusive
      <4>2. QED
        BY <1>0, <2>1, <2>2, <2>6, <2>7, <2>8, <2>10, <3>1, <4>1
    <3>2. CASE u # t
      <4>1. d # c /\ d \in Conns
        BY <1>0, <2>2, <2>3, <2>10, <3>2
      <4>2. d \in using[u] \ cut /\ pc'[u] = pc[u]
        BY <2>2, <2>5, <2>10, <3>2
      <4>3. /\ pc[u] = "send" => Nothing(d)
            /\ pc[u] = "head" => Response(d, job[u].req)
            /\ pc[u] = "body" => Body(d, job[u].req)
        BY <4>2 DEF Clean
      <4>4. inbox'[d] = inbox[d] /\ owed'[d] = owed[d] /\ stream'[d] = stream[d]
        BY <2>4, <4>1
      <4>5. QED
        BY <1>0, <4>2, <4>3, <4>4 DEF Nothing, Response, Body, BodyIs
    <3>3. QED
      BY <3>1, <3>2
  <2>11. OwnAnswerUnlessCut'
    <3>1. ASSUME NEW u \in Tasks, took'[u] # 0, using'[u] \cap cut' = {}
          PROVE  took'[u] = job[u].req
      <4>1. CASE u = t
        <5>1. c \notin cut
          BY <2>2, <3>1, <4>1
        <5>2. CASE pc[t] \in {"send", "head"}
          BY <1>0, <2>6, <2>7, <3>1, <4>1, <5>1, <5>2
        <5>3. CASE pc[t] = "body"
          <6>1. took[t] # 0 /\ using[t] \cap cut = {}
            BY <2>2, <2>8, <3>1, <4>1, <5>3
          <6>2. QED
            BY <2>8, <4>1, <5>3, <6>1 DEF OwnAnswerUnlessCut
        <5>4. QED
          BY <2>1, <5>2, <5>3
      <4>2. CASE u # t
        BY <2>2, <2>5, <3>1, <4>2 DEF OwnAnswerUnlessCut
      <4>3. QED
        BY <4>1, <4>2
    <3>2. QED
      BY <1>0, <3>1 DEF OwnAnswerUnlessCut
  <2>12. QED
    BY <1>0, <2>9, <2>10, <2>11 DEF Clean
<1>3. QED
  BY <1>1, <1>2

\* What the backends do keeps Clean.
LEMMA BackendClean ==
    ASSUME TypeOK, Exclusive, Clean, OwnAnswerUnlessCut, NEW c \in Conns,
           \/ Respond(c, "head") \/ Respond(c, "only") \/ RespondPiece(c)
           \/ RespondBody(c) \/ BackendCloses(c)
    PROVE  Clean' /\ OwnAnswerUnlessCut'
<1>0. /\ using \in [Tasks -> SUBSET Conns] /\ job \in [Tasks -> Jobs]
      /\ stream \in [Conns -> Seq(Tokens)] /\ inbox \in [Conns -> Seq(Requests)]
      /\ owed \in [Conns -> 0 .. MaxRequests]
  BY DEF TypeOK, TasksOK, NetworkOK
<1>1. UNCHANGED <<pc, job, using, took, cut>>
  BY DEF Respond, RespondPiece, RespondBody, BackendCloses, tasks
<1>2. \A d \in Conns \ {c} : inbox'[d] = inbox[d] /\ owed'[d] = owed[d] /\ stream'[d] = stream[d]
  BY <1>0 DEF Respond, RespondPiece, RespondBody, BackendCloses
<1>3. \/ \E part \in {"head", "only"} :
           /\ owed[c] = 0 /\ inbox[c] # << >> /\ inbox'[c] = Tail(inbox[c])
           /\ stream'[c] = Append(stream[c], Token(Head(inbox[c]), part))
           /\ owed'[c] = IF part = "head" THEN Head(inbox[c]) ELSE 0
      \/ /\ owed[c] # 0 /\ inbox'[c] = inbox[c] /\ owed'[c] = 0
         /\ stream'[c] = Append(stream[c], Token(owed[c], "body"))
      \/ /\ owed[c] # 0 /\ inbox'[c] = inbox[c] /\ owed'[c] = owed[c]
         /\ stream[c] = << >> /\ stream'[c] = <<Token(owed[c], "piece")>>
      \/ inbox'[c] = << >> /\ owed'[c] = 0 /\ stream'[c] = stream[c]
  BY <1>0 DEF Respond, RespondPiece, RespondBody, BackendCloses
<1>4. \A a, b : /\ Head(<<a>>) = a /\ Tail(<<a>>) = << >> /\ Append(<< >>, a) = <<a>>
                /\ Append(<<a>>, b) = <<a, b>>
  <2>1. ASSUME NEW a, NEW b
        PROVE  Append(<<a>>, b) = <<a, b>>
    BY AppendPair
  <2>2. ASSUME NEW a
        PROVE  Head(<<a>>) = a /\ Tail(<<a>>) = << >> /\ Append(<< >>, a) = <<a>>
    OBVIOUS
  <2>3. QED
    BY <2>1, <2>2
<1>5. ASSUME Nothing(c) PROVE Nothing(c)'
  BY <1>3, <1>5 DEF Nothing
\* A body that goes on stays that of its request.
<1>6. ASSUME NEW req \in Requests, NEW rest, BodyIs(c, req, rest), owed[c] # 0
      PROVE  /\ owed[c] = req
             /\ \/ Append(rest, Token(req, "body")) = <<Token(req, "body")>>
                \/ Append(rest, Token(req, "body")) =
                       <<Token(req, "piece"), Token(req, "body")>>
  <2>1. owed[c] = req /\ (rest = << >> \/ rest = <<Token(req, "piece")>>)
    BY <1>6 DEF BodyIs
  <2>2. QED
    BY <1>4, <2>1
<1>7. ASSUME NEW req \in Requests, Body(c, req) PROVE Body(c, req)'
  <2>1. CASE /\ owed[c] # 0 /\ inbox'[c] = inbox[c] /\ owed'[c] = 0
             /\ stream'[c] = Append(stream[c], Token(owed[c], "body"))
    BY <1>6, <1>7, <2>1 DEF Body, BodyIs
  <2>2. CASE /\ owed[c] # 0 /\ inbox'[c] = inbox[c] /\ owed'[c] = owed[c]
             /\ stream[c] = << >> /\ stream'[c] = <<Token(owed[c], "piece")>>
    BY <1>6, <1>7, <2>2 DEF Body, BodyIs
  <2>3. CASE inbox'[c] = << >> /\ owed'[c] = 0 /\ stream'[c] = stream[c]
    BY <1>7, <2>3 DEF Body, BodyIs
  <2>4. QED
    BY <1>3, <1>7, <2>1, <2>2, <2>3 DEF Body
<1>8. ASSUME NEW req \in Requests, Response(c, req) PROVE Response(c, req)'
  <2>1. CASE Nothing(c)
    BY <1>5, <2>1 DEF Response
  <2>2. CASE inbox[c] = <<req>> /\ owed[c] = 0 /\ stream[c] = << >>
    <3>1. CASE \E part \in {"head", "only"} :
                 /\ inbox'[c] = Tail(inbox[c])
                 /\ stream'[c] = Append(stream[c], Token(Head(inbox[c]), part))
                 /\ owed'[c] = IF part = "head" THEN Head(inbox[c]) ELSE 0
      <4>1. PICK part \in {"head", "only"} :
               /\ inbox'[c] = << >> /\ stream'[c] = <<Token(req, part)>>
               /\ owed'[c] = IF part = "head" THEN req ELSE 0
        BY <1>4, <2>2, <3>1
      <4>2. <<Token(req, part)>> # << >> /\ Head(<<Token(req, part)>>) = Token(req, part)
            /\ Tail(<<Token(req, part)>>) = << >>
        BY <1>4
      <4>3. QED
        BY <4>1, <4>2 DEF Response, BodyIs
    <3>2. CASE inbox'[c] = << >> /\ owed'[c] = 0 /\ stream'[c] = stream[c]
      BY <2>2, <3>2 DEF Response, Nothing
    <3>3. QED
      BY <1>3, <2>2, <3>1, <3>2
  <2>3. CASE inbox[c] = << >> /\ owed[c] = 0 /\ stream[c] = <<Token(req, "only")>>
    BY <1>3, <2>3 DEF Response
  <2>4. CASE /\ inbox[c] = << >> /\ stream[c] # << >> /\ Head(stream[c]) = Token(req, "head")
             /\ BodyIs(c, req, Tail(stream[c]))
    <3>1. CASE /\ owed[c] # 0 /\ inbox'[c] = inbox[c] /\ owed'[c] = 0
               /\ stream'[c] = Append(stream[c], Token(owed[c], "body"))
      <4>1. /\ stream'[c] # << >> /\ Head(stream'[c]) = Head(stream[c])
            /\ Tail(stream'[c]) = Append(Tail(stream[c]), Token(owed[c], "body"))
        BY <1>0, <2>4, <3>1, AppendToRest
      <4>2. QED
        BY <1>6, <2>4, <3>1, <4>1 DEF Response, BodyIs
    <3>2. CASE inbox'[c] = << >> /\ owed'[c] = 0 /\ stream'[c] = stream[c]
      BY <2>4, <3>2 DEF Response, BodyIs
    <3>3. QED
      BY <1>3, <2>4, <3>1, <3>2
  <2>5. QED
    BY <1>8, <2>1, <2>2, <2>3, <2>4 DEF Response
<1>9. ASSUME NEW d \in Conns \ cut, d \notin UNION {using[u] : u \in Tasks}
      PROVE  Nothing(d)'
  <2>1. Nothing(d)
    BY <1>9 DEF Clean
  <2>2. QED
    BY <1>2, <1>5, <2>1 DEF Nothing
<1>10. ASSUME NEW u \in Tasks, NEW d \in using[u] \ cut
      PROVE  /\ pc[u] = "send" => Nothing(d)'
             /\ pc[u] = "head" => Response(d, job[u].req)'
             /\ pc[u] = "body" => Body(d, job[u].req)'
  <2>1. /\ pc[u] = "send" => Nothing(d)
        /\ pc[u] = "head" => Response(d, job[u].req)
        /\ pc[u] = "body" => Body(d, job[u].req)
    BY DEF Clean
  <2>2. pc[u] \in {"head", "body"} => job[u].req \in Requests
    BY DEF TypeOK, TasksOK, Steps
  <2>3. CASE d = c
    BY <1>1, <1>5, <1>7, <1>8, <2>1, <2>2, <2>3
  <2>4. CASE d # c
    <3>1. inbox'[d] = inbox[d] /\ owed'[d] = owed[d] /\ stream'[d] = stream[d]
      BY <1>0, <1>2, <2>4
    <3>2. QED
      BY <1>1, <2>1, <3>1 DEF Nothing, Response, Body, BodyIs
  <2>5. QED
    BY <2>3, <2>4
<1>11. OwnAnswerUnlessCut'
  BY <1>1 DEF OwnAnswerUnlessCut
<1>12. QED
  BY <1>1, <1>9, <1>10, <1>11 DEF Clean

\* Clean is kept by every step.
LEMMA CleanInductive ==
    ASSUME TypeOK, Exclusive, InSession, Clean, OwnAnswerUnlessCut, [Next]_vars
    PROVE  Clean' /\ OwnAnswerUnlessCut'
<1>1. CASE TakeRequest
  <2>1. /\ UNCHANGED <<using, took, network, idle>>
        /\ \A t \in Tasks : \/ pc'[t] = pc[t] /\ job'[t] = job[t]
                            \/ pc[t] = "idle" /\ pc'[t] \in {"connect", "h2"}
    BY <1>1, TakeStarts
  <2>2. UNCHANGED <<inbox, owed, stream, cut>>
    BY <2>1 DEF network
  <2>3. ASSUME NEW d \in Conns \ cut', d \notin UNION {using'[u] : u \in Tasks}
        PROVE  Nothing(d)'
    BY <2>1, <2>2, <2>3 DEF Clean, Nothing
  <2>4. ASSUME NEW u \in Tasks, NEW d \in using'[u] \ cut'
        PROVE  /\ pc'[u] = "send" => Nothing(d)'
               /\ pc'[u] = "head" => Response(d, job[u].req)'
               /\ pc'[u] = "body" => Body(d, job[u].req)'
    <3>1. pc'[u] = pc[u] /\ job'[u] = job[u]
      BY <2>1, <2>4 DEF Exclusive
    <3>2. /\ pc[u] = "send" => Nothing(d)
          /\ pc[u] = "head" => Response(d, job[u].req)
          /\ pc[u] = "body" => Body(d, job[u].req)
      BY <2>1, <2>2, <2>4 DEF Clean
    <3>3. QED
      BY <2>2, <3>1, <3>2 DEF Nothing, Response, Body, BodyIs
  <2>5. OwnAnswerUnlessCut'
    BY <2>1, <2>2 DEF OwnAnswerUnlessCut, Exclusive
  <2>6. QED
    BY <2>3, <2>4, <2>5 DEF Clean
<1>2. CASE UNCHANGED <<tasks, network, idle>>
  <2>1. UNCHANGED <<pc, job, using, took, inbox, owed, stream, cut>>
    BY <1>2 DEF tasks, network
  <2>2. QED
    BY <2>1 DEF Clean, Nothing, Response, Body, BodyIs, OwnAnswerUnlessCut
<1>3. QED
  BY <1>1, <1>2, EndClean, TaskClean, BackendClean, StepKinds

-----------------------------------------------------------------------------
\* The invariant is inductive.
THEOREM Invariant == Spec => []IInv
<1>1. Init => IInv
  <2> SUFFICES ASSUME Init PROVE IInv
    OBVIOUS
  <2>1. TypeOK
    BY TypeInit
  <2>2. Exclusive
    BY DEF Init, Exclusive
  <2>3. OwnAnswerUnlessCut
    BY DEF Init, OwnAnswerUnlessCut
  <2>4. InSession
    BY DEF Init, InSession, Tasks
  <2>5. Clean
    BY DEF Init, Clean, Nothing
  <2>6. QED
    BY <2>1, <2>2, <2>3, <2>4, <2>5 DEF IInv
<1>2. IInv /\ TypeOK' /\ [Next]_vars => IInv'
  BY ExclusiveInductive, SessionInductive, CleanInductive DEF IInv
<1>3. QED
  BY <1>1, <1>2, TypeInvariant, PTL DEF Spec

\* A connection is never in two hands (pool.rs 128-151).
THEOREM ConnectionsExclusive == Spec => []Exclusive
<1>1. IInv => Exclusive
  BY DEF IInv
<1>2. QED
  BY <1>1, Invariant, PTL

\* A request gets its own response on every connection that was only ever given
\* back after a whole response (pipeline.rs 905-912).
THEOREM AnswersMatch == Spec => []OwnAnswerUnlessCut
<1>1. IInv => OwnAnswerUnlessCut
  BY DEF IInv
<1>2. QED
  BY <1>1, Invariant, PTL

-----------------------------------------------------------------------------
\* A step of the proxy is a step of KeepAlive or none.
LEMMA KeepAliveStep ==
    ASSUME TypeOK, TypeOK', Exclusive, InSession, [Next]_vars
    PROVE  [KA!Next]_(KA!vars)
<1> USE DEF KA!vars
<1>0. NoReply \notin Replies
  BY DEF NoReply, Replies, Statuses
\* A step that leaves the client alone is no step.
<1>1. ASSUME UNCHANGED <<session, request, reply>>
      PROVE  UNCHANGED KA!vars
  BY <1>1 DEF Phase
<1>2. ASSUME session = "call", session' = "reply", request' = request, reply' \in Replies
      PROVE  KA!Serve
  BY <1>2 DEF KA!Serve, Phase
<1>3. ASSUME NEW t \in Tasks, Finish(t), t = Main => reply' \in Replies,
             t # Main => reply' = reply, pc[t] # "idle"
      PROVE  [KA!Next]_(KA!vars)
  <2>1. CASE t = Main
    BY <1>2, <1>3, <2>1 DEF Finish, InSession, KA!Next
  <2>2. CASE t # Main
    BY <1>1, <1>3, <2>2 DEF Finish
  <2>3. QED
    BY <2>1, <2>2
<1>4. ASSUME NEW t \in Tasks, NEW status \in {"502", "504"}, Fail(t, status), pc[t] # "idle"
      PROVE  [KA!Next]_(KA!vars)
  <2>1. Local(status) \in Replies
    BY BoundAssumption DEF Local, Replies, Statuses
  <2>2. QED
    BY <1>3, <1>4, <2>1 DEF Fail
<1>5. ASSUME NEW t \in Tasks, NEW of \in 0 .. MaxRequests, NEW whole \in BOOLEAN,
             Succeed(t, of, whole), pc[t] # "idle"
      PROVE  [KA!Next]_(KA!vars)
  <2>1. [status |-> "backend", of |-> of, whole |-> whole] \in Replies
    BY DEF Replies, Statuses
  <2>2. QED
    BY <1>3, <1>5, <2>1 DEF Succeed
<1>6. ASSUME NEW t \in Tasks, TaskStep(t)
      PROVE  [KA!Next]_(KA!vars)
  <2>1. CASE ReuseIdle(t) \/ ConnectNew(t) \/ Send(t) \/ ReadResponse(t) \/ ReadPiece(t)
    BY <1>1, <2>1 DEF ReuseIdle, ConnectNew, Send, ReadResponse, ReadPiece, client
  <2>2. CASE ConnectFails(t) \/ BrokenPipe(t) \/ BadResponse(t) \/ ReadTimeout(t)
    BY <1>4, <2>2 DEF ConnectFails, BrokenPipe, BadResponse, ReadTimeout
  <2>3. CASE ReadOnly(t)
    <3>1. PICK c \in using[t] : stream[c] # << >> /\ Succeed(t, Head(stream[c]).of, TRUE)
      BY <2>3 DEF ReadOnly
    <3>2. stream[c] \in Seq(Tokens)
      BY <3>1 DEF TypeOK, TasksOK, NetworkOK
    <3>3. Head(stream[c]) \in Tokens
      BY <3>1, <3>2
    <3>4. Head(stream[c]).of \in 0 .. MaxRequests
      BY <3>3, BoundAssumption DEF Tokens, Requests
    <3>5. QED
      BY <1>5, <2>3, <3>1, <3>4 DEF ReadOnly
  <2>4. CASE ReadBody(t) \/ BodyCutShort(t)
    <3>1. took[t] \in 0 .. MaxRequests
      BY DEF TypeOK, TasksOK
    <3>2. QED
      BY <1>5, <2>4, <3>1 DEF ReadBody, BodyCutShort
  <2>5. QED
    BY <1>6, <2>1, <2>2, <2>3, <2>4 DEF TaskStep, ReadStep
<1>7. CASE Session
  <2>1. CASE Http2
    <3>1. request \in 0 .. MaxRequests /\ Main \in Tasks
      BY DEF TypeOK, ClientOK, Tasks
    <3>2. QED
      BY <1>4, <1>5, <2>1, <3>1 DEF Http2
  <2>2. CASE Http2Timeout \/ RequestTimeout
    BY <1>4, <2>2 DEF Http2Timeout, RequestTimeout, Tasks, InSession
  <2>3. CASE TakeRequest
    <3>1. request' = request + 1 /\ Phase = "open"
      BY <2>3 DEF TakeRequest, Phase
    <3>2. ASSUME NEW status \in {"404", "redirect", "502", "503"}, Answer(status)
          PROVE  KA!Take
      <4>1. Local(status) \in Replies
        BY BoundAssumption DEF Local, Replies, Statuses
      <4>2. QED
        BY <3>1, <3>2, <4>1 DEF Answer, Phase, KA!Take
    <3>3. ASSUME NEW p \in Plans, NEW i \in Selectable(p.backends),
                 p.backends[i].addr # Unresolved, Forward(p, p.backends[i])
          PROVE  KA!Take
      BY <3>1, <3>3 DEF Forward, Phase, KA!Take
    <3>4. QED
      BY <2>3, <3>2, <3>3 DEF TakeRequest, KA!Next
  <2>4. CASE AcceptClient
    BY <2>4 DEF AcceptClient, Phase, KA!Accept, KA!Next
  <2>5. CASE Hangup
    BY <2>5 DEF Hangup, Phase, KA!Leave, KA!Next
  <2>6. CASE ReadHead
    BY <2>6 DEF ReadHead, Phase
  <2>7. CASE Reply
    BY <2>7 DEF Reply, Phase, KA!Send, KA!Next
  <2>8. CASE Upgrade
    <3>1. /\ request' = request + 1 /\ session = "head"
          /\ \/ session' = "upgrade" /\ reply' = reply
             \/ session' = "last" /\ \E status \in {"502", "503"} : reply' = Local(status)
      BY <2>8 DEF Upgrade
    <3>2. \A status \in {"502", "503"} : Local(status) \in Replies
      BY BoundAssumption DEF Local, Replies, Statuses
    <3>3. QED
      BY <3>1, <3>2 DEF Phase, KA!TakeUpgrade, KA!Next
  <2>9. CASE UpgradeConnects
    <3>1. Local("502") \in Replies
      BY BoundAssumption DEF Local, Replies, Statuses
    <3>2. QED
      BY <2>9, <3>1 DEF UpgradeConnects, Phase, KA!Refuse, KA!Next
  <2>10. CASE UpgradeAnswered
    <3>1. [status |-> "backend", of |-> request, whole |-> TRUE] \in Replies
      BY DEF TypeOK, ClientOK, Replies, Statuses
    <3>2. QED
      BY <2>10, <3>1 DEF UpgradeAnswered, Phase, KA!Refuse, KA!GiveUp, KA!Next
  <2>11. CASE LastReply
    BY <2>11 DEF LastReply, Phase, KA!Close, KA!Next
  <2>12. CASE TunnelOver
    BY <2>12 DEF TunnelOver, Phase, KA!Close, KA!Next, InSession
  <2>13. ASSUME NEW d \in Directions, SourceEnds(d) \/ SinkFails(d)
         PROVE  UNCHANGED KA!vars
    BY <1>1, <2>13 DEF SourceEnds, SinkFails, client
  <2>14. QED
    BY <1>7, <2>1, <2>2, <2>3, <2>4, <2>5, <2>6, <2>7, <2>8, <2>9, <2>10, <2>11, <2>12, <2>13
       DEF Session
<1>8. CASE Environment
  BY <1>1, <1>8 DEF Environment, Respond, RespondPiece, RespondBody, BackendCloses, SideCloses,
     client
<1>9. CASE UNCHANGED vars
  BY <1>1, <1>9 DEF vars, client
<1>10. QED
  BY <1>6, <1>7, <1>8, <1>9 DEF Next

\* The worker keeps the promise of KeepAlive: one request at a time, one answer to
\* each, and that answer is the one that is sent (pipeline.rs 1210-1243).
THEOREM PromiseKept == Spec => KeepsPromise
<1>1. Init => KA!Init
  BY DEF Init, KA!Init, Phase
<1>2. IInv /\ IInv' /\ [Next]_vars => [KA!Next]_(KA!vars)
  BY KeepAliveStep DEF IInv
<1>3. QED
  BY <1>1, <1>2, Invariant, PTL DEF Spec, KeepsPromise, KA!Spec

-----------------------------------------------------------------------------
(* The weighted choice.                                                    *)

LEMMA WeightType ==
    ASSUME NEW bs \in Seq(Backend)
    PROVE  Len(bs) \in Nat /\ \A n \in 1 .. Len(bs) : bs[n].weight \in Nat
<1>1. \A n \in 1 .. Len(bs) : bs[n] \in Backend
  OBVIOUS
<1> QED BY <1>1 DEF Backend

\* The shares begin at 0 and grow by the weights.
LEMMA SharesAre ==
    ASSUME NEW bs \in Seq(Backend)
    PROVE  /\ Shares(bs) \in [0 .. Len(bs) -> Nat]
           /\ Shares(bs)[0] = 0
           /\ \A n \in 1 .. Len(bs) : Shares(bs)[n] = Shares(bs)[n - 1] + bs[n].weight
<1> DEFINE N == Len(bs)
           step == [n \in 1 .. N |-> [x \in Nat |-> x + bs[n].weight]]
           Sum(f) == [n \in 0 .. N |-> IF n = 0 THEN 0 ELSE f[n - 1] + bs[n].weight]
<1>1. N \in Nat /\ \A n \in 1 .. N : bs[n].weight \in Nat
  BY WeightType
<1>2. step \in [1 .. N -> [Nat -> Nat]]
  BY <1>1
<1>3. PICK g \in [0 .. N -> Nat] : g[0] = 0 /\ \A n \in 1 .. N : g[n] = step[n][g[n - 1]]
  <2> DEFINE V == Nat
             c == 0
  <2>1. c \in V
    OBVIOUS
  <2>2. N \in Nat /\ step \in [1 .. N -> [V -> V]]
    BY <1>1, <1>2
  <2> HIDE DEF step, N, V, c
  <2>3. \E f \in [0 .. N -> V] : f[0] = c /\ \A n \in 1 .. N : f[n] = step[n][f[n - 1]]
    BY <2>1, <2>2, Recursive
  <2> QED BY <2>3 DEF V, c
<1>4. ASSUME NEW n \in 1 .. N PROVE g[n] = g[n - 1] + bs[n].weight
  <2>1. n - 1 \in 0 .. N
    BY <1>1
  <2>2. g[n - 1] \in Nat
    BY <1>3, <2>1
  <2> QED BY <1>3, <2>2
<1>5. g = Sum(g)
  BY <1>1, <1>3, <1>4
<1>6. Shares(bs) = CHOOSE f : f = Sum(f)
  BY DEF Shares
<1>7. Shares(bs) = Sum(Shares(bs))
  <2> HIDE DEF Sum
  <2> QED BY <1>5, <1>6
<1>8. /\ Shares(bs)[0] = 0
      /\ \A n \in 1 .. N : Shares(bs)[n] = Shares(bs)[n - 1] + bs[n].weight
      /\ Shares(bs) = [n \in 0 .. N |-> Shares(bs)[n]]
  BY <1>1, <1>7
<1> DEFINE T == {n \in 0 .. N : Shares(bs)[n] \in Nat}
<1>9. 0 .. N \subseteq T
  <2>1. 0 \in T
    BY <1>1, <1>8
  <2>2. ASSUME NEW n \in 0 .. N - 1, n \in T PROVE n + 1 \in T
    <3>1. n + 1 \in 1 .. N /\ (n + 1) - 1 = n
      BY <1>1
    <3>2. Shares(bs)[n + 1] = Shares(bs)[n] + bs[n + 1].weight
      BY <1>8, <3>1
    <3> QED BY <1>1, <2>2, <3>1, <3>2
  <2> HIDE DEF T, N
  <2> QED BY <1>1, <2>1, <2>2, UpTo
<1> QED BY <1>8, <1>9

\* So they never fall.
LEMMA SharesGrow ==
    ASSUME NEW bs \in Seq(Backend), NEW m \in 0 .. Len(bs)
    PROVE  \A n \in 0 .. Len(bs) : m <= n => Shares(bs)[m] <= Shares(bs)[n]
<1> DEFINE N == Len(bs)
           T == {n \in 0 .. N : m <= n => Shares(bs)[m] <= Shares(bs)[n]}
<1>1. N \in Nat /\ \A n \in 1 .. N : bs[n].weight \in Nat
  BY WeightType
<1>2. 0 \in T
  BY <1>1, SharesAre
<1>3. ASSUME NEW n \in 0 .. N - 1, n \in T PROVE n + 1 \in T
  <2>1. n + 1 \in 1 .. N /\ n \in 0 .. N /\ n + 1 \in 0 .. N /\ (n + 1) - 1 = n
    BY <1>1
  <2>2. Shares(bs)[n + 1] = Shares(bs)[n] + bs[n + 1].weight
    BY <2>1, SharesAre
  <2>3. Shares(bs)[m] \in Nat /\ Shares(bs)[n] \in Nat /\ bs[n + 1].weight \in Nat
    BY <1>1, <2>1, SharesAre
  <2> QED BY <1>3, <2>1, <2>2, <2>3
<1>4. 0 .. N \subseteq T
  <2> HIDE DEF T, N
  <2> QED BY <1>1, <1>2, <1>3, UpTo
<1> QED BY <1>4

\* The state of the loop.
Turn(bs) == [left : Int, found : 0 .. Len(bs)]

LEMMA TryType ==
    ASSUME NEW bs \in Seq(Backend), NEW s \in Turn(bs), NEW n \in 1 .. Len(bs)
    PROVE  Try(bs, s, n) \in Turn(bs)
<1>1. bs[n].weight \in Nat
  BY WeightType
<1>2. [s EXCEPT !.found = n] \in Turn(bs)
  BY DEF Turn
<1>3. [s EXCEPT !.left = @ - bs[n].weight] \in Turn(bs)
  BY <1>1 DEF Turn
<1> QED BY <1>2, <1>3 DEF Try

\* The loop takes its turns.
LEMMA TriesAre ==
    ASSUME NEW bs \in Seq(Backend), NEW pick \in Int
    PROVE  /\ Tries(bs, pick) \in [0 .. Len(bs) -> Turn(bs)]
           /\ Tries(bs, pick)[0] = [left |-> pick, found |-> 0]
           /\ \A n \in 1 .. Len(bs) : Tries(bs, pick)[n] = Try(bs, Tries(bs, pick)[n - 1], n)
<1> DEFINE N == Len(bs)
           V == Turn(bs)
           start == [left |-> pick, found |-> 0]
           step == [n \in 1 .. N |-> [s \in V |-> Try(bs, s, n)]]
           Goes(f) == [n \in 0 .. N |-> IF n = 0 THEN start ELSE Try(bs, f[n - 1], n)]
           try == Tries(bs, pick)
<1>1. N \in Nat /\ start \in V
  BY DEF Turn
<1>2. step \in [1 .. N -> [V -> V]]
  BY TryType
<1>3. PICK g \in [0 .. N -> V] : g[0] = start /\ \A n \in 1 .. N : g[n] = step[n][g[n - 1]]
  <2> HIDE DEF step, N, V, start
  <2> QED BY <1>1, <1>2, Recursive
<1>4. ASSUME NEW n \in 1 .. N PROVE g[n] = Try(bs, g[n - 1], n)
  <2>1. g[n - 1] \in V
    BY <1>1, <1>3
  <2> QED BY <1>3, <2>1
<1>5. g = Goes(g)
  <2> HIDE DEF V, start
  <2> QED BY <1>1, <1>3, <1>4
<1>6. try = CHOOSE f : f = Goes(f)
  BY DEF Tries
<1>7. try = Goes(try)
  <2> HIDE DEF Goes, try
  <2> QED BY <1>5, <1>6
<1>8. /\ try[0] = start
      /\ \A n \in 1 .. N : try[n] = Try(bs, try[n - 1], n)
      /\ try = [n \in 0 .. N |-> try[n]]
  <2> HIDE DEF try, start
  <2> QED BY <1>1, <1>7
<1> DEFINE T == {n \in 0 .. N : try[n] \in V}
<1> HIDE DEF try, start, V
<1>9. 0 .. N \subseteq T
  <2>1. 0 \in T
    BY <1>1, <1>8
  <2>2. ASSUME NEW n \in 0 .. N - 1, n \in T PROVE n + 1 \in T
    <3>1. n + 1 \in 1 .. N /\ (n + 1) - 1 = n
      BY <1>1
    <3>2. try[n + 1] = Try(bs, try[n], n + 1)
      BY <1>8, <3>1
    <3>3. try[n + 1] \in V
      BY <2>2, <3>1, <3>2, TryType DEF V
    <3> QED BY <3>1, <3>3
  <2> HIDE DEF T, N
  <2> QED BY <1>1, <2>1, <2>2, UpTo
<1> QED BY <1>8, <1>9 DEF try, start, V

\* Up to the n-th turn the number has been found in one of the first n shares, or
\* what is left of it is what is above them.
LEMMA TriesFind ==
    ASSUME NEW bs \in Seq(Backend), NEW pick \in Nat, NEW n \in 0 .. Len(bs)
    PROVE  LET s == Tries(bs, pick)[n] IN
           /\ s.found = 0 => s.left = pick - Shares(bs)[n] /\ Shares(bs)[n] <= pick
           /\ s.found # 0 => /\ s.found \in 1 .. n
                             /\ Shares(bs)[s.found - 1] <= pick
                             /\ pick < Shares(bs)[s.found]
<1> DEFINE N == Len(bs)
           try == Tries(bs, pick)
           sum == Shares(bs)
           Right(k) == /\ try[k].found = 0 => try[k].left = pick - sum[k] /\ sum[k] <= pick
                       /\ try[k].found # 0 => /\ try[k].found \in 1 .. k
                                              /\ sum[try[k].found - 1] <= pick
                                              /\ pick < sum[try[k].found]
           T == {k \in 0 .. N : Right(k)}
<1>1. N \in Nat /\ \A k \in 1 .. N : bs[k].weight \in Nat
  BY WeightType
<1>2. sum \in [0 .. N -> Nat] /\ sum[0] = 0 /\ \A k \in 1 .. N : sum[k] = sum[k - 1] + bs[k].weight
  BY SharesAre
<1>3. /\ \A k \in 0 .. N : try[k] \in Turn(bs)
      /\ try[0] = [left |-> pick, found |-> 0]
      /\ \A k \in 1 .. N : try[k] = Try(bs, try[k - 1], k)
  BY TriesAre
<1> HIDE DEF try, sum
<1>4. 0 \in T
  BY <1>1, <1>2, <1>3
<1>5. ASSUME NEW k \in 0 .. N - 1, k \in T PROVE k + 1 \in T
  <2> DEFINE s == try[k]
             t == try[k + 1]
             w == bs[k + 1].weight
  <2>1. k + 1 \in 1 .. N /\ k \in 0 .. N /\ k + 1 \in 0 .. N /\ (k + 1) - 1 = k
    BY <1>1
  <2>2. w \in Nat /\ sum[k] \in Nat /\ sum[k + 1] = sum[k] + w
    BY <1>1, <1>2, <2>1
  <2>3. s \in Turn(bs) /\ t = Try(bs, s, k + 1)
    BY <1>3, <2>1
  <2>4. Right(k)
    BY <1>5
  <2> HIDE DEF s, t, w
  <2>5. CASE s.found # 0
    <3>1. t = s
      BY <2>3, <2>5 DEF Try
    <3> QED BY <2>1, <2>4, <2>5, <3>1 DEF s, t
  <2>6. CASE s.found = 0 /\ w = 0
    <3>1. t = s
      BY <2>3, <2>6 DEF Try, w
    <3> QED BY <2>1, <2>2, <2>4, <2>6, <3>1 DEF s, t
  <2>7. CASE s.found = 0 /\ w # 0 /\ s.left < w
    <3>1. t.found = k + 1
      BY <2>3, <2>7 DEF Try, w, Turn
    <3>2. s.left = pick - sum[k] /\ sum[k] <= pick
      BY <2>4, <2>7 DEF s
    <3>3. pick < sum[k + 1]
      BY <2>2, <2>7, <3>2
    <3> QED BY <2>1, <3>1, <3>2, <3>3 DEF t
  <2>8. CASE s.found = 0 /\ w # 0 /\ ~(s.left < w)
    <3>1. t.found = 0 /\ t.left = s.left - w
      BY <2>3, <2>8 DEF Try, w, Turn
    <3>2. s.left = pick - sum[k] /\ sum[k] <= pick
      BY <2>4, <2>8 DEF s
    <3>3. t.left = pick - sum[k + 1] /\ sum[k + 1] <= pick
      BY <2>2, <2>8, <3>1, <3>2
    <3> QED BY <2>1, <3>1, <3>3 DEF t
  <2> QED BY <2>5, <2>6, <2>7, <2>8
<1>6. 0 .. N \subseteq T
  <2> HIDE DEF T, N
  <2> QED BY <1>1, <1>4, <1>5, UpTo
<1> QED BY <1>6 DEF try, sum

\* What the comment in select_backend calls unreachable is: a number below the total
\* is in the share of some backend, and of a backend with a weight (pipeline.rs 185).
THEOREM SelectsOne ==
    ASSUME NEW bs \in Seq(Backend), NEW pick \in Picks(bs)
    PROVE  /\ SelectBackend(bs, pick) \in DOMAIN bs
           /\ bs[SelectBackend(bs, pick)].weight > 0
           /\ Shares(bs)[SelectBackend(bs, pick) - 1] <= pick
           /\ pick < Shares(bs)[SelectBackend(bs, pick)]
<1> DEFINE N == Len(bs)
           i == SelectBackend(bs, pick)
           sum == Shares(bs)
<1>1. N \in Nat /\ \A k \in 1 .. N : bs[k].weight \in Nat
  BY WeightType
<1>2. sum \in [0 .. N -> Nat] /\ \A k \in 1 .. N : sum[k] = sum[k - 1] + bs[k].weight
  BY SharesAre
<1>3. pick \in Nat /\ pick < sum[N]
  BY <1>1, <1>2 DEF Picks, TotalWeight
<1>4. /\ i = 0 => sum[N] <= pick
      /\ i # 0 => i \in 1 .. N /\ sum[i - 1] <= pick /\ pick < sum[i]
  BY <1>1, <1>3, TriesFind DEF SelectBackend
<1> HIDE DEF i, sum
<1>5. i # 0
  BY <1>1, <1>2, <1>3, <1>4
<1>6. i \in 1 .. N /\ sum[i - 1] <= pick /\ pick < sum[i]
  BY <1>4, <1>5
<1>7. sum[i - 1] \in Nat /\ sum[i] = sum[i - 1] + bs[i].weight /\ bs[i].weight \in Nat
  BY <1>1, <1>2, <1>6
<1>8. bs[i].weight > 0
  BY <1>3, <1>6, <1>7
<1> QED BY <1>6, <1>8 DEF i, sum

\* The numbers with which a backend is selected are its share.
LEMMA SelectedInShare ==
    ASSUME NEW bs \in Seq(Backend), NEW i \in DOMAIN bs
    PROVE  {pick \in Picks(bs) : SelectBackend(bs, pick) = i} = Shares(bs)[i - 1] .. Shares(bs)[i] - 1
<1> DEFINE N == Len(bs)
           sum == Shares(bs)
<1>1. N \in Nat /\ i \in 1 .. N /\ i - 1 \in 0 .. N /\ i \in 0 .. N
  OBVIOUS
<1>2. sum \in [0 .. N -> Nat]
  BY SharesAre
<1>3. \A m, n \in 0 .. N : m <= n => sum[m] <= sum[n]
  BY SharesGrow
<1>4. ASSUME NEW pick \in Picks(bs), SelectBackend(bs, pick) = i
      PROVE  pick \in sum[i - 1] .. sum[i] - 1
  BY <1>1, <1>2, <1>4, SelectsOne DEF Picks
<1>5. ASSUME NEW pick \in sum[i - 1] .. sum[i] - 1
      PROVE  pick \in Picks(bs) /\ SelectBackend(bs, pick) = i
  <2>1. pick \in Picks(bs)
    <3>1. sum[i - 1] \in Nat /\ sum[i] \in Nat /\ sum[N] \in Nat /\ sum[i] <= sum[N]
      BY <1>1, <1>2, <1>3
    <3>2. pick \in 0 .. sum[N] - 1
      BY <3>1
    <3> QED BY <3>2 DEF Picks, TotalWeight
  <2> DEFINE j == SelectBackend(bs, pick)
  <2>2. j \in 1 .. N /\ sum[j - 1] <= pick /\ pick < sum[j]
    BY <2>1, SelectsOne
  <2> HIDE DEF j, sum
  <2>3. /\ sum[i - 1] \in Nat /\ sum[i] \in Nat /\ sum[j - 1] \in Nat /\ sum[j] \in Nat
        /\ i - 1 \in 0 .. N /\ i \in 0 .. N /\ j - 1 \in 0 .. N /\ j \in 0 .. N
    BY <1>1, <1>2, <2>2
  <2>4. ~(j <= i - 1)
    <3>1. j <= i - 1 => sum[j] <= sum[i - 1]
      BY <1>3, <2>3
    <3> QED BY <2>2, <2>3, <3>1
  <2>5. ~(i <= j - 1)
    <3>1. i <= j - 1 => sum[i] <= sum[j - 1]
      BY <1>3, <2>3
    <3> QED BY <2>2, <2>3, <3>1
  <2>6. j = i
    BY <1>1, <2>2, <2>4, <2>5
  <2> QED BY <2>1, <2>6 DEF j
<1>6. \A pick \in sum[i - 1] .. sum[i] - 1 : pick \in Picks(bs)
  BY <1>5
<1> QED BY <1>4, <1>5

LEMMA SharesFair ==
    ASSUME NEW bs \in Seq(Backend), NEW i \in DOMAIN bs
    PROVE  bs[i].weight = Cardinality({pick \in Picks(bs) : SelectBackend(bs, pick) = i})
<1>1. i \in 1 .. Len(bs) /\ i - 1 \in 0 .. Len(bs) /\ i \in 0 .. Len(bs) /\ bs[i].weight \in Nat
  BY WeightType
<1>2. /\ Shares(bs)[i - 1] \in Nat /\ Shares(bs)[i] \in Nat
      /\ Shares(bs)[i] = Shares(bs)[i - 1] + bs[i].weight
  BY <1>1, SharesAre
<1> DEFINE a == Shares(bs)[i - 1]
           b == Shares(bs)[i] - 1
<1>3. a \in Int /\ b \in Int /\ b - a + 1 = bs[i].weight /\ (a > b => bs[i].weight = 0)
  BY <1>1, <1>2
<1>4. Cardinality(a .. b) = bs[i].weight
  <2> HIDE DEF a, b
  <2>1. Cardinality(a .. b) = IF a > b THEN 0 ELSE b - a + 1
    BY <1>3, FS_Interval
  <2> QED BY <1>3, <2>1
<1> QED BY <1>4, SelectedInShare

\* The invariant of the runs, for all weights of a plan (pipeline.rs 168-187).
THEOREM SelectionIsFair == Spec => []FairShare
<1>1. TypeOK => FairShare
  <2> SUFFICES ASSUME TypeOK, NEW i \in DOMAIN plan.backends
               PROVE  plan.backends[i].weight =
                         Cardinality({pick \in Picks(plan.backends) :
                                         SelectBackend(plan.backends, pick) = i})
    BY DEF FairShare
  <2>1. plan.backends \in Seq(Backend)
    BY PlanAssumption DEF TypeOK, ClientOK, Plan, NoPlan
  <2> QED BY <2>1, SharesFair
<1> QED BY <1>1, TypeInvariant, PTL
=============================================================================
