--------------------------- MODULE MCUpstreamForward ---------------------------
(* A worker with one client after the other, two backends and one mirror task *)
(* at a time.                                                                  *)
EXTENDS UpstreamForward

CONSTANTS a1, a2

B(w, a) == [weight |-> w, addr |-> a, h2c |-> FALSE]
ToBackends(bs, ms, req, backend) ==
    [decision |-> "forward", backends |-> bs, mirrors |-> ms,
     requestTimeout |-> req, backendTimeout |-> backend]
Half == [percent |-> 50, addr |-> a1]
Always == [percent |-> 100, addr |-> a2]

\* A plan for each way through the code: a choice by weight with a mirror and the
\* timeout of the request, a backend timeout, HTTP/2, nobody to ask, no forward.
MCPlans ==
    {ToBackends(<<B(1, a1), B(0, a2), B(2, a2)>>, <<Half>>, TRUE, FALSE),
     ToBackends(<<B(1, a1)>>, <<Always>>, FALSE, TRUE),
     ToBackends(<<[B(1, a1) EXCEPT !.h2c = TRUE]>>, <<>>, FALSE, TRUE),
     ToBackends(<<[B(1, a1) EXCEPT !.h2c = TRUE]>>, <<>>, TRUE, FALSE),
     ToBackends(<<B(0, a1)>>, <<>>, FALSE, FALSE),
     ToBackends(<<B(1, Unresolved)>>, <<>>, FALSE, FALSE),
     [NoPlan EXCEPT !.decision = "redirect"], NoPlan}

\* Both answers are read on connections to one backend.
MCSameBackend == {ToBackends(<<B(1, a1)>>, <<>>, TRUE, FALSE)}
=============================================================================
