----------------------------- MODULE MCProxyServer -----------------------------
(***************************************************************************)
(* Small data planes for model checking ProxyServer.                       *)
(***************************************************************************)
EXTENDS ProxyServer, TLC

CONSTANTS http, https

\* One listener, two with the first one in second place, and none.
OneOrTwo == {<<http>>, <<https, http>>}
OneTwoOrNone == OneOrTwo \cup {<<>>}

\* Addresses and workers are interchangeable.
Symmetry == Permutations(Addresses) \cup Permutations(Workers)

=============================================================================
