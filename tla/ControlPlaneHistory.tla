-------------------------- MODULE ControlPlaneHistory --------------------------
(***************************************************************************)
(* ControlPlane with history: what the cluster has been, to compare with   *)
(* what the controllers read of it and publish.                            *)
(***************************************************************************)
EXTENDS ControlPlane

VARIABLE attached   \* every version of a route that had a Gateway as a parent
hvars == <<vars, attached>>

Attachments ==
    {<<x[1], x[2], Ver(route[x[2]])>> : x \in
        {y \in Gateways \X Routes : Live(route[y[2]]) /\ y[1] \in route[y[2]].spec.parents}}

HInit == Init /\ attached = Attachments

HNext == Next /\ attached' = attached \cup Attachments'

HSpec == HInit /\ [][HNext]_hvars

\* However the reads and the writes of the two controllers interleave, a ConfigMap
\* mentions a route only in a version that had the Gateway as a parent: no config
\* mixes the parents of one version of a route with the rules of another.
PublishedWasAttached ==
    \A g \in Gateways, r \in Routes :
        cm[g].routes[r] = NoVersion \/ <<g, r, cm[g].routes[r]>> \in attached

=============================================================================
