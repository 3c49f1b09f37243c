------------------------ MODULE MCModelCallGovernor ------------------------
(* Three calls to one model, for TLC.                                      *)
EXTENDS ModelCallGovernor

CONSTANTS c1, c2, c3, text

MCKeyOf == [c \in Call |-> text]

(* The calls are alike: c1 is the one made first, and c3 the last.         *)
MCNext == Next /\ (pc[c1] = "new" => pc'[c2] = "new") /\ (pc[c2] = "new" => pc'[c3] = "new")
MCSpec == Init /\ [][MCNext]_vars /\ Fairness
=============================================================================
