---------------------------- MODULE AccountMutex ----------------------------
(***************************************************************************)
(* What withAccountStateLock promises its callers, with no chain, counter  *)
(* or timer: per account one section at a time, in the order of the calls, *)
(* and a call that gives up never runs its section.                        *)
(***************************************************************************)
CONSTANTS Account, Call, AccountOf

VARIABLES
    at,    \* [Call -> where the caller is]
    ahead  \* [Call -> the calls that waited when it asked]

vars == <<at, ahead>>

Same(c) == {d \in Call : AccountOf[d] = AccountOf[c]}

Init == at = [c \in Call |-> "new"] /\ ahead = [c \in Call |-> {}]

Ask(c) ==
    /\ at[c] = "new" /\ at' = [at EXCEPT ![c] = "waiting"]
    /\ ahead' = [ahead EXCEPT ![c] = {d \in Same(c) : at[d] = "waiting"}]

Grant(c) ==
    /\ at[c] = "waiting" /\ \A d \in ahead[c] : at[d] # "waiting"
    /\ \A d \in Same(c) : at[d] # "inside"
    /\ at' = [at EXCEPT ![c] = "inside"] /\ UNCHANGED ahead

Finish(c) == at[c] = "inside" /\ at' = [at EXCEPT ![c] = "done"] /\ UNCHANGED ahead
GiveUp(c) == at[c] = "waiting" /\ at' = [at EXCEPT ![c] = "gaveUp"] /\ UNCHANGED ahead

Next == \E c \in Call : Ask(c) \/ Grant(c) \/ Finish(c) \/ GiveUp(c)

Safety == Init /\ [][Next]_vars

(* Nobody waits for ever, even behind a section that never ends. *)
MutexSpec == Safety /\ \A c \in Call : WF_vars(Grant(c) \/ GiveUp(c))
=============================================================================
