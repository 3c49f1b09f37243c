-------------------------- MODULE MCAccountStatus --------------------------
(* An instance of AccountStatus: calls about one account.                   *)
EXTENDS AccountStatus

CONSTANTS s, b, m, r  \* a single check, a batch check, the monitor, a restore
OneAccount == [c \in Call |-> CHOOSE a \in Account : TRUE]
EachKind == [c \in Call |-> CASE c = s -> "single" [] c = b -> "batch"
                                [] c = m -> "monitor" [] c = r -> "restore"]
=============================================================================
