---------------------------- MODULE MCControlPlane ----------------------------
(***************************************************************************)
(* Small clusters for model checking ControlPlane.                         *)
(***************************************************************************)
EXTENDS ControlPlane, TLC

\* A Gateway that admits everybody and one with invalid listeners.
OpenOrInvalid == {[valid |-> TRUE, admits |-> Routes], [valid |-> FALSE, admits |-> Routes]}
Open == {[valid |-> TRUE, admits |-> Routes]}

\* Routes attached to every Gateway, with and without a backend, and detached ones.
Attached == {[parents |-> Gateways, backends |-> {}]}
AttachedOrNot == {[parents |-> ps, backends |-> {}] : ps \in {Gateways, {}}}
AttachedBacked == {[parents |-> Gateways, backends |-> Backends]}

\* Routes of the same specs are interchangeable.
Symmetry == Permutations(Routes)

NoTwin == [g \in Gateways |-> {}]
AllTwins == [g \in Gateways |-> Routes]
Everything == Gateways \cup Routes

Bounds(edits, faults, crashes, resyncs, ticks) ==
    [k \in Kinds |-> CASE k = "edit" -> edits [] k = "fault" -> faults
                       [] k = "crash" -> crashes [] k = "resync" -> resyncs
                       [] k = "tick" -> ticks]

NoEvent == {Bounds(0, 0, 0, 0, 0)}
OneEdit == {Bounds(1, 0, 0, 0, 0)}
TwoEdits == {Bounds(2, 0, 0, 0, 0)}
EditOrFaults == {Bounds(1, 0, 0, 0, 0), Bounds(0, 1, 1, 1, 0)}
EditOrFault == {Bounds(1, 0, 0, 0, 0), Bounds(0, 1, 0, 0, 0)}
ResyncOrTick == {Bounds(0, 0, 0, 1, 0), Bounds(0, 0, 0, 0, 1)}

\* The periodic requeues go on for ever.
FreeResync == Kinds \ {"resync"}

=============================================================================
