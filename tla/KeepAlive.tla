------------------------------- MODULE KeepAlive -------------------------------
(***************************************************************************)
(* What a client connection of the proxy promises (proxy-core/src/         *)
(* pipeline.rs, HttpCoreService): requests are taken one at a time, each   *)
(* that is not an upgrade is answered exactly once or the client is gone   *)
(* when it is, and an answer, once it is made, is the one that is sent.    *)
(***************************************************************************)
EXTENDS Naturals

CONSTANT Answers

VARIABLES
    phase,      \* of the connection that the worker serves
    number,     \* the requests taken so far
    answer      \* the answer that is being sent
vars == <<phase, number, answer>>

CONSTANT NoAnswer

Init == phase = "closed" /\ number = 0 /\ answer = NoAnswer

Accept == phase = "closed" /\ phase' = "open" /\ UNCHANGED <<number, answer>>

Leave == phase = "open" /\ phase' = "closed" /\ UNCHANGED <<number, answer>>

\* A request is served, or answered at once.
Take ==
    /\ phase = "open" /\ number' = number + 1
    /\ \/ phase' = "serving" /\ UNCHANGED answer
       \/ phase' = "answering" /\ answer' \in Answers

Serve == phase = "serving" /\ phase' = "answering" /\ UNCHANGED number /\ answer' \in Answers

Send ==
    /\ phase = "answering" /\ phase' \in {"open", "closed"}
    /\ UNCHANGED number /\ answer' = NoAnswer

\* An upgrade is refused with a last answer, given up, or becomes a tunnel.
TakeUpgrade ==
    /\ phase = "open" /\ number' = number + 1
    /\ \/ phase' = "upgrading" /\ UNCHANGED answer
       \/ phase' = "refusing" /\ answer' \in Answers

Refuse == phase = "upgrading" /\ phase' = "refusing" /\ UNCHANGED number /\ answer' \in Answers

GiveUp ==
    /\ phase = "upgrading" /\ phase' \in {"closed", "tunnel"} /\ UNCHANGED <<number, answer>>

Close ==
    /\ phase \in {"refusing", "tunnel"} /\ phase' = "closed"
    /\ UNCHANGED number /\ answer' = NoAnswer

Next ==
    \/ Accept \/ Leave \/ Take \/ Serve \/ Send
    \/ TakeUpgrade \/ Refuse \/ GiveUp \/ Close

Spec == Init /\ [][Next]_vars
=============================================================================
