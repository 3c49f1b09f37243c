------------------------ MODULE MCPlatformScheduler ------------------------
(* Two users, a record of an earlier version and a new one. *)
EXTENDS PlatformScheduler

CONSTANTS anna, ben, o1, n1

Owners == {anna, ben}
Records == {o1, n1}
OldOnes == {o1}
AllAnnas == [x \in Records |-> anna]
=============================================================================
