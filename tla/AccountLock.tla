---------------------------- MODULE AccountLock ----------------------------
(***************************************************************************)
(* withAccountStateLock                                                    *)
(* (apps/desktop/electron/services/account-state-lock.js).  The map chains *)
(* holds, per account, a state object: the tail of a promise chain, a      *)
(* counter and a flag.  An object is made by the first call that finds     *)
(* none and dropped by the call that brings the counter to zero; it is     *)
(* named here by the call that made it.                                    *)
(***************************************************************************)
EXTENDS Naturals, Sequences

CONSTANTS
    Account, Call,
    AccountOf,  \* the account each call is about
    None        \* no state object

ASSUME LockAssumption == AccountOf \in [Call -> Account] /\ None \notin Call

VARIABLES
    chain,    \* [Account -> Call \cup {None}]: chains.get(key)
    line,     \* [Call -> Seq(Call)]: the steps on an object's tail not yet over
    waiting,  \* [Call -> Nat]: its counter
    held,     \* [Call -> BOOLEAN]: its flag
    on,       \* [Call -> Call]: the object a call was chained on
    ticket,   \* [Call -> the call's ticket]
    answer,   \* [Call -> what the caller's promise was settled with]
    ahead     \* [Call -> SUBSET Call]: history, who waited when it asked

lockVars == <<chain, line, waiting, held, on, ticket, answer, ahead>>

Ticket == {"new", "queued", "expired", "inside", "over"}
Answer == {"none", "value", "error", "timeout"}

LockInit ==
    /\ chain = [a \in Account |-> None]
    /\ line = [c \in Call |-> <<>>] /\ waiting = [c \in Call |-> 0]
    /\ held = [c \in Call |-> FALSE] /\ on = [c \in Call |-> c]
    /\ ticket = [c \in Call |-> "new"] /\ answer = [c \in Call |-> "none"]
    /\ ahead = [c \in Call |-> {}]

(* The call until it returns its promise: chained, with its timer set. *)
ObjectFor(c) == IF chain[AccountOf[c]] = None THEN c ELSE chain[AccountOf[c]]
Request(c) ==
    /\ ticket[c] = "new"
    /\ ticket' = [ticket EXCEPT ![c] = "queued"]
    /\ chain' = [chain EXCEPT ![AccountOf[c]] = ObjectFor(c)]
    /\ on' = [on EXCEPT ![c] = ObjectFor(c)]
    /\ line' = [line EXCEPT ![ObjectFor(c)] = Append(@, c)]
    /\ waiting' = [waiting EXCEPT ![ObjectFor(c)] = @ + 1]
    /\ ahead' = [ahead EXCEPT ![c] =
           {d \in Call : AccountOf[d] = AccountOf[c] /\ ticket[d] = "queued"}]
    /\ UNCHANGED <<held, answer>>

(* Every step chained before it on its object is over, well or not. *)
MyTurn(c) == line[on[c]] # <<>> /\ Head(line[on[c]]) = c

MutDropsEarly(c) ==
    /\ line' = [line EXCEPT ![on[c]] = Tail(@)]
    /\ waiting' = [waiting EXCEPT ![on[c]] = @ - 1]
    /\ chain' = IF chain[AccountOf[c]] = on[c]
                THEN [chain EXCEPT ![AccountOf[c]] = None] ELSE chain
(* settle: the counter, the map entry of an object nobody uses any more.   *)
Settle(c) ==
    /\ line' = [line EXCEPT ![on[c]] = Tail(@)]
    /\ waiting' = [waiting EXCEPT ![on[c]] = @ - 1]
    /\ chain' = IF waiting[on[c]] = 1 /\ chain[AccountOf[c]] = on[c]
                THEN [chain EXCEPT ![AccountOf[c]] = None] ELSE chain

MutRunsLate(c) ==
    /\ MyTurn(c) /\ ticket[c] \in {"queued", "expired"}
    /\ ticket' = [ticket EXCEPT ![c] = "inside"]
    /\ held' = [held EXCEPT ![on[c]] = TRUE]
    /\ UNCHANGED <<chain, line, waiting, on, answer, ahead>>

(* run of a ticket in time: the section starts, its timer is cleared.      *)
Enter(c) ==
    /\ MyTurn(c) /\ ticket[c] = "queued"
    /\ ticket' = [ticket EXCEPT ![c] = "inside"]
    /\ held' = [held EXCEPT ![on[c]] = TRUE]
    /\ UNCHANGED <<chain, line, waiting, on, answer, ahead>>

(* run of an expired ticket: passed on without its section. *)
Skip(c) ==
    /\ MyTurn(c) /\ ticket[c] = "expired"
    /\ ticket' = [ticket EXCEPT ![c] = "over"]
    /\ Settle(c)
    /\ UNCHANGED <<held, on, answer, ahead>>

(* The section returns or throws. *)
Leave(c, ok) ==
    /\ ticket[c] = "inside"
    /\ ticket' = [ticket EXCEPT ![c] = "over"]
    /\ held' = [held EXCEPT ![on[c]] = FALSE]
    /\ answer' = [answer EXCEPT ![c] = IF ok THEN "value" ELSE "error"]
    /\ Settle(c)
    /\ UNCHANGED <<on, ahead>>

(* The timer fires before the call's turn. *)
Expire(c) ==
    /\ ticket[c] = "queued"
    /\ ticket' = [ticket EXCEPT ![c] = "expired"]
    /\ answer' = [answer EXCEPT ![c] = "timeout"]
    /\ UNCHANGED <<chain, line, waiting, held, on, ahead>>

LockNext ==
    \E c \in Call : \/ Request(c) \/ Enter(c) \/ Skip(c) \/ Expire(c)
                    \/ \E ok \in BOOLEAN : Leave(c, ok)
LockSafety == LockInit /\ [][LockNext]_lockVars

-----------------------------------------------------------------------------
LockTypeOK ==
    /\ chain \in [Account -> Call \cup {None}]
    /\ line \in [Call -> Seq(Call)] /\ waiting \in [Call -> Nat]
    /\ held \in [Call -> BOOLEAN] /\ on \in [Call -> Call]
    /\ ticket \in [Call -> Ticket] /\ answer \in [Call -> Answer]
    /\ ahead \in [Call -> SUBSET Call]

(* The map is a leak detector of its own tests: an account has an entry    *)
(* exactly while a call about it is chained, and the entry's flag tells    *)
(* whether one is inside, which is what callers ask before they queue a    *)
(* check that would wait for themselves.                                   *)
Chained(a) == {c \in Call : AccountOf[c] = a /\ ticket[c] \in {"queued", "expired", "inside"}}
NoLeak ==
    \A a \in Account :
        /\ chain[a] = None <=> Chained(a) = {}
        /\ chain[a] # None => (held[chain[a]] <=> \E c \in Chained(a) : ticket[c] = "inside")

(* The lock implements the abstract one. *)
Where(c) ==
    IF answer[c] = "timeout" THEN "gaveUp"
    ELSE IF ticket[c] = "queued" THEN "waiting"
    ELSE IF ticket[c] = "over" THEN "done" ELSE ticket[c]
Mutex == INSTANCE AccountMutex WITH at <- [c \in Call |-> Where(c)], ahead <- ahead
MutexSpec == Mutex!MutexSpec
=============================================================================
