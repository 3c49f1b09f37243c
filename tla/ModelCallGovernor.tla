-------------------------- MODULE ModelCallGovernor --------------------------
(***************************************************************************)
(* services/api-usage-governor.js: the calls to one provider of models.    *)
(* A call takes one of the places of its key (type and model), or queues   *)
(* for one; it books a time slot, sleeps until then and through the key's  *)
(* cooldown, takes one of the provider's requests of the current period    *)
(* (token-budget-windows.js), and is sent, again after a 429 or a failure  *)
(* of the network.  All times are what is left of them.                    *)
(***************************************************************************)
EXTENDS Integers, FiniteSets

CONSTANTS
    Call, Key, KeyOf,   \* the calls, and the key of each
    Places,             \* values of maxConcurrent the settings give the provider
    Quotas,             \* values of limit_per_5h; 0 when there is none
    Period,             \* windowMs of the requests window
    QueueWait, PaceWait, CooldownWait,  \* MAX_QUEUE_WAIT_MS and its like
    Gaps,               \* WINDOW_MS / rpm, for the values rateFactor takes
    Cooldowns,          \* limits.cooldownMs, and the answers' retry-after
    Retry429,           \* limits.retry429; 0 when the settings made limits without it,
                        \* and without cooldownMs (0 is then one of Cooldowns)
    TransientRetries,
    MaxSaves            \* bound on saves of the settings

ASSUME GovernorAssumption ==
    /\ KeyOf \in [Call -> Key] /\ IsFiniteSet(Call)
    /\ Places \subseteq Nat \ {0} /\ Quotas \subseteq Nat /\ Gaps \subseteq Nat \ {0}
    /\ Cooldowns \subseteq Nat /\ Places # {} /\ Quotas # {} /\ Gaps # {}
    /\ {Period, QueueWait, PaceWait, CooldownWait, Retry429, TransientRetries, MaxSaves} \subseteq Nat

VARIABLES
    places, quota,   \* the provider's maxConcurrent and limit, as last saved
    active, slot, cool, gap,  \* _state of each key; gap stands for rateFactor
    ahead,           \* who was in line when a call joined it (waiters)
    win,             \* the requests window: age and used, or NoWindow
    pc, wait, tries, \* where a call is, what is left of its sleep, attempts sent
    ticket,          \* its reservation: of the window's generation, an older one, none
    peak,            \* history: the most places there ever were
    saves
vars == <<places, quota, active, ahead, slot, cool, gap, win, pc, wait, tries, ticket, peak, saves>>

keyVars == <<active, ahead, slot, cool, gap>>
callVars == <<pc, wait, tries, ticket>>
setVars == <<places, quota, peak, saves>>

NoWindow == [age |-> 0, used |-> -1]
Prompt == {"admitted", "paced", "cooled"}   \* go on before any timer
Holding == Prompt \cup {"pacing", "cooling", "sent", "backoff"}
Ended == {"done", "failed"}

-----------------------------------------------------------------------------
(* The callers in line, those of them whose time there is over, which      *)
(* _sweepExpired() refuses, and the others.                                *)
Waits(c) == wait[c] > 0
Queued(k) == {c \in Call : KeyOf[c] = k /\ pc[c] = "queued"}
Expired(k) == {c \in Queued(k) : ~Waits(c)}
Fresh(k) == {c \in Queued(k) : Waits(c)}

MutNobody(k, n) == {}

(* Who gets a place when n are taken: the first in line, if anyone.        *)
First(k, n) ==
    IF n >= places THEN {} ELSE {c \in Fresh(k) : ahead[c] \cap Fresh(k) = {}}

MutNoTransfer(k, n) == n
Taken(k, n) == n + Cardinality(First(k, n))

OutOfLine(S) == ahead' = [x \in Call |-> IF x \in S THEN {} ELSE ahead[x] \ S]

(* The finally of _runWithGovernance() with its _pump().                   *)
Leave(c, how) ==
    LET k == KeyOf[c]
        n == active[k] - 1
    IN  /\ active' = [active EXCEPT ![k] = Taken(k, n)]
        /\ pc' = [x \in Call |-> CASE x = c -> how
                                   [] x \in Expired(k) -> "failed"
                                   [] x \in First(k, n) -> "admitted"
                                   [] OTHER -> pc[x]]
        /\ wait' = [x \in Call |-> IF x \in First(k, n) THEN 0 ELSE wait[x]]
        /\ OutOfLine(First(k, n) \cup Expired(k))
        /\ tries' = [tries EXCEPT ![c] = 0]

(* A save of the settings: limits and window of every provider are set     *)
(* again, whichever was changed (_applyGovernorLimits()).                  *)
Aged(t) == [c \in Call |-> IF t[c] = "current" THEN "old" ELSE t[c]]

SaveSettings(m, q) ==
    /\ saves < MaxSaves /\ saves' = saves + 1
    /\ places' = m /\ quota' = q
    /\ peak' = IF m > peak THEN m ELSE peak
    /\ win' = NoWindow /\ ticket' = Aged(ticket)
    /\ UNCHANGED <<keyVars, pc, wait, tries>>

(* run() up to _acquireSlot(): newcomers do not look at the line.          *)
Run(c) ==
    LET k == KeyOf[c]
        free == active[k] < places
    IN  /\ pc[c] = "new"
        /\ active' = [active EXCEPT ![k] = IF free THEN @ + 1 ELSE @]
        /\ pc' = [x \in Call |-> CASE x = c -> (IF free THEN "admitted" ELSE "queued")
                                   [] x \in Expired(k) -> "failed"
                                   [] OTHER -> pc[x]]
        /\ IF free THEN UNCHANGED wait /\ OutOfLine(Expired(k))
           ELSE /\ wait' = [wait EXCEPT ![c] = QueueWait]
                /\ ahead' = [x \in Call |-> CASE x = c -> Fresh(k)
                                             [] x \in Expired(k) -> {}
                                             [] OTHER -> ahead[x] \ Expired(k)]
        /\ UNCHANGED <<slot, cool, gap, win, tries, ticket, setVars>>

(* A pipeline run has ended.                                               *)
SweepAll ==
    /\ \E k \in Key : Expired(k) # {}
    /\ pc' = [x \in Call |-> IF x \in Expired(KeyOf[x]) THEN "failed" ELSE pc[x]]
    /\ OutOfLine(UNION {Expired(k) : k \in Key})
    /\ UNCHANGED <<active, slot, cool, gap, win, wait, tries, ticket, setVars>>

(* _pace(): a slot is booked even by the call that will not wait for it.   *)
Pace(c) ==
    LET k == KeyOf[c]
    IN  /\ pc[c] = "admitted"
        /\ slot' = [slot EXCEPT ![k] = @ + gap[k]]
        /\ IF slot[k] > PaceWait
           THEN Leave(c, "failed")
           ELSE /\ pc' = [pc EXCEPT ![c] = IF slot[k] = 0 THEN "paced" ELSE "pacing"]
                /\ wait' = [wait EXCEPT ![c] = slot[k]]
                /\ UNCHANGED <<active, ahead, tries>>
        /\ UNCHANGED <<cool, gap, win, ticket, setVars>>

(* _waitCooldown(): looks once, and does not look again after the sleep.   *)
CheckCooldown(c) ==
    LET k == KeyOf[c]
    IN  /\ pc[c] = "paced" \/ (pc[c] = "pacing" /\ ~Waits(c))
        /\ IF cool[k] > CooldownWait
           THEN Leave(c, "failed")
           ELSE /\ pc' = [pc EXCEPT ![c] = IF cool[k] = 0 THEN "cooled" ELSE "cooling"]
                /\ wait' = [wait EXCEPT ![c] = cool[k]]
                /\ UNCHANGED <<active, ahead, tries>>
        /\ UNCHANGED <<slot, cool, gap, win, ticket, setVars>>

(* The window as a call finds it: made when it is first asked for.         *)
Window == IF win = NoWindow THEN [age |-> 0, used |-> 0] ELSE win
Over == Window.age >= Period

Started(c) ==
    /\ pc' = [pc EXCEPT ![c] = "sent"]
    /\ tries' = [tries EXCEPT ![c] = 1]
    /\ UNCHANGED <<active, ahead, wait>>

(* reserveRequestsBudget(): judged first, then taken; a period that is     *)
(* over is begun again by the call that is let through.                    *)
Reserve(c) ==
    IF ~Over /\ Window.used >= quota
    THEN Leave(c, "failed") /\ win' = Window /\ UNCHANGED ticket
    ELSE /\ win' = [Window EXCEPT !.used = IF Over THEN 1 ELSE @ + 1, !.age = IF Over THEN 0 ELSE @]
         /\ ticket' = [(IF Over THEN Aged(ticket) ELSE ticket) EXCEPT ![c] = "current"]
         /\ Started(c)

Send(c) ==
    /\ pc[c] = "cooled" \/ (pc[c] = "cooling" /\ ~Waits(c))
    /\ IF quota > 0 THEN Reserve(c) ELSE Started(c) /\ UNCHANGED <<win, ticket>>
    /\ UNCHANGED <<slot, cool, gap, setVars>>

(* The task returned: the usage is recorded, which begins a period that is *)
(* over, and the rate recovers.                                            *)
Answered(c) ==
    /\ pc[c] = "sent"
    /\ IF quota = 0 THEN UNCHANGED <<win, ticket>>
       ELSE IF Over THEN win' = [age |-> 0, used |-> 0] /\ ticket' = Aged(ticket)
       ELSE win' = Window /\ UNCHANGED ticket
    /\ \E g \in Gaps : g <= gap[KeyOf[c]] /\ gap' = [gap EXCEPT ![KeyOf[c]] = g]
    /\ Leave(c, "done")
    /\ UNCHANGED <<slot, cool, setVars>>

MutAnyGeneration(c) ==
    /\ win' = IF ticket[c] # "none" /\ win # NoWindow
              THEN [win EXCEPT !.used = IF @ > 0 THEN @ - 1 ELSE 0] ELSE win
    /\ ticket' = [ticket EXCEPT ![c] = "none"]

(* releaseRequestsBudget(): given back to the generation it was taken from *)
GiveBack(c) ==
    /\ win' = IF ticket[c] = "current"
              THEN [win EXCEPT !.used = IF @ > 0 THEN @ - 1 ELSE 0] ELSE win
    /\ ticket' = [ticket EXCEPT ![c] = "none"]

(* The last failure of a call, of whatever class.                          *)
Fails(c) ==
    /\ GiveBack(c)
    /\ Leave(c, "failed")
    /\ UNCHANGED <<slot, setVars>>

(* The sleep before the next attempt, which nothing else governs.  (The    *)
(* attempts are told apart as far as they are compared.)                   *)
SleepsFor(c, n) ==
    /\ pc' = [pc EXCEPT ![c] = "backoff"]
    /\ wait' = [wait EXCEPT ![c] = n]
    /\ tries' = [tries EXCEPT ![c] = IF @ < Retry429 \/ @ < TransientRetries THEN @ + 1 ELSE @]
    /\ UNCHANGED <<active, ahead, slot, win, ticket, setVars>>

RateLimited(c, d) ==
    /\ pc[c] = "sent"
    /\ cool' = [cool EXCEPT ![KeyOf[c]] = d]
    /\ \E g \in Gaps : g >= gap[KeyOf[c]] /\ gap' = [gap EXCEPT ![KeyOf[c]] = g]
    /\ IF Retry429 > 0 /\ tries[c] >= Retry429 THEN Fails(c) ELSE SleepsFor(c, (d \div 3) * tries[c])

Transient(c) ==
    /\ pc[c] = "sent"
    /\ UNCHANGED <<cool, gap>>
    /\ IF tries[c] >= TransientRetries THEN Fails(c) ELSE SleepsFor(c, tries[c])

(* Quota, content policy and everything else is final.                     *)
Refused(c) ==
    /\ pc[c] = "sent"
    /\ UNCHANGED <<cool, gap>>
    /\ Fails(c)

Retry(c) ==
    /\ pc[c] = "backoff" /\ ~Waits(c)
    /\ pc' = [pc EXCEPT ![c] = "sent"]
    /\ UNCHANGED <<keyVars, win, wait, tries, ticket, setVars>>

(* Time passes while some of it is left anywhere, after every callback     *)
(* that does not wait for a timer.                                         *)
Less(n) == IF n > 0 THEN n - 1 ELSE 0

Tick ==
    /\ \A c \in Call : pc[c] \notin Prompt
    /\ wait' = [c \in Call |-> Less(wait[c])]
    /\ slot' = [k \in Key |-> Less(slot[k])]
    /\ cool' = [k \in Key |-> Less(cool[k])]
    /\ win' = IF win = NoWindow THEN win
              ELSE [win EXCEPT !.age = IF @ < Period THEN @ + 1 ELSE @]
    /\ UNCHANGED <<active, ahead, gap, pc, tries, ticket, setVars>>

-----------------------------------------------------------------------------
Init ==
    /\ places \in Places /\ quota \in Quotas
    /\ active = [k \in Key |-> 0] /\ ahead = [c \in Call |-> {}]
    /\ slot = [k \in Key |-> 0] /\ cool = [k \in Key |-> 0]
    /\ gap \in [Key -> Gaps] /\ \A k \in Key, g \in Gaps : gap[k] <= g
    /\ win = NoWindow
    /\ pc = [c \in Call |-> "new"] /\ wait = [c \in Call |-> 0]
    /\ tries = [c \in Call |-> 0] /\ ticket = [c \in Call |-> "none"]
    /\ peak = places
    /\ saves = 0

Answer(c) == Answered(c) \/ (\E d \in Cooldowns : RateLimited(c, d)) \/ Transient(c) \/ Refused(c)
GoesOn(c) == Pace(c) \/ CheckCooldown(c) \/ Send(c) \/ Retry(c) \/ Answer(c)

Next ==
    \/ \E c \in Call : Run(c) \/ GoesOn(c)
    \/ SweepAll \/ Tick
    \/ \E m \in Places, q \in Quotas : SaveSettings(m, q)

(* A caller's task ends (adapters carry a time out), timers fire, and time *)
(* passes.                                                                 *)
Fairness == WF_vars(Tick) /\ \A c \in Call : WF_vars(GoesOn(c))

GovernorSpec == Init /\ [][Next]_vars /\ Fairness

-----------------------------------------------------------------------------
GovernorTypeOK ==
    /\ places \in Places /\ quota \in Quotas /\ peak \in Places /\ saves \in 0 .. MaxSaves
    /\ active \in [Key -> Nat] /\ slot \in [Key -> Nat] /\ cool \in [Key -> Nat]
    /\ gap \in [Key -> Gaps] /\ ahead \in [Call -> SUBSET Call]
    /\ pc \in [Call -> {"new", "queued"} \cup Holding \cup Ended]
    /\ wait \in [Call -> Nat] /\ tries \in [Call -> Nat]
    /\ ticket \in [Call -> {"none", "current", "old"}]
    /\ win \in [age : 0 .. Period, used : Nat] \cup {NoWindow}

Inside(k) == {c \in Call : KeyOf[c] = k /\ pc[c] \in Holding}

(* The counter of a key's places is the number of calls that hold one,     *)
(* whether a call was let in, queued, passed its place on, timed out or    *)
(* was refused on the way, so there are never more than were allowed.  (And *)
(* the state is well typed.)                                               *)
PlacesCounted ==
    /\ GovernorTypeOK
    /\ \A k \in Key : active[k] = Cardinality(Inside(k)) /\ active[k] <= peak

(* The requests of a period are those of its calls that are under way or   *)
(* succeeded, whatever failed late or was sent again, and never more than  *)
(* the limit.                                                              *)
QuotaCounted ==
    win # NoWindow =>
        /\ win.used = Cardinality({c \in Call : ticket[c] = "current"})
        /\ win.used <= quota

(* A call to the governor ends, in whatever place it was kept waiting: from *)
(* some time on there are only calls that ended and calls never made.      *)
CallsEnd == <>[](\A c \in Call : pc[c] \in {"new"} \cup Ended)

-----------------------------------------------------------------------------
(* What the comments say and the code does not do.                         *)

(* "429: a cooldown begins" (lines 11-12): the retry does not wait for it, *)
(* nor does a call whose sleep began before.                               *)
SentOutsideCooldown ==
    [][\A c \in Call : pc[c] # "sent" /\ pc'[c] = "sent" => cool[KeyOf[c]] = 0]_vars

(* "the line waits" (line 8): a newcomer takes the place that a save of    *)
(* the settings made free while others wait.                               *)
NoOvertaking ==
    [][\A c \in Call : pc[c] = "new" /\ pc'[c] = "admitted" => Fresh(KeyOf[c]) = {}]_vars
=============================================================================
