---------------------- MODULE ModelCallGovernorProofs ----------------------
(***************************************************************************)
(* Proofs about ModelCallGovernor for any calls, keys, limits and waits:   *)
(* the places of a key and the requests of a period are counted exactly.   *)
(***************************************************************************)
EXTENDS ModelCallGovernor, FiniteSetTheorems, TLAPS

-----------------------------------------------------------------------------
(* Of two calls in the same line, one joined it when the other was there,  *)
(* so at most one call is the first.                                       *)
InLine ==
    \A x, y \in Call :
        KeyOf[x] = KeyOf[y] /\ pc[x] = "queued" /\ pc[y] = "queued" /\ x # y
            => x \in ahead[y] \/ y \in ahead[x]

Counted ==
    /\ places <= peak
    /\ \A k \in Key : active[k] = Cardinality(Inside(k)) /\ active[k] <= peak

Current == {c \in Call : ticket[c] = "current"}

(* Before the window is made, no reservation counts.                       *)
Reserved ==
    IF win = NoWindow THEN Current = {}
    ELSE win.used = Cardinality(Current) /\ win.used <= quota

(* A reservation is held by a call that was sent, until it fails.          *)
Reserving == \A c \in Call : ticket[c] = "current" => pc[c] \in {"sent", "backoff", "done"}

GovernorInv == GovernorTypeOK /\ InLine /\ Counted /\ Reserved /\ Reserving

USE GovernorAssumption

Stages == {"new", "queued"} \cup Holding \cup Ended

-----------------------------------------------------------------------------
(* Sets of calls are finite, and those that hold a place are not in line.  *)
LEMMA CallsFinite ==
    ASSUME NEW S \in SUBSET Call
    PROVE  IsFiniteSet(S) /\ Cardinality(S) \in Nat
  BY FS_Subset, FS_CardinalityType DEF GovernorAssumption

LEMMA FirstAlone ==
    ASSUME InLine, NEW k \in Key, NEW n \in Nat, n <= peak, Counted, GovernorTypeOK
    PROVE  /\ First(k, n) \subseteq Fresh(k)
           /\ First(k, n) = {} \/ \E x \in Fresh(k) : First(k, n) = {x}
           /\ Taken(k, n) \in Nat /\ Taken(k, n) <= peak
           /\ Taken(k, n) = n + Cardinality(First(k, n))
<1>1. First(k, n) \subseteq Fresh(k)
  BY DEF First
<1>2. \A x, y \in First(k, n) : x = y
  BY DEF First, Fresh, Queued, InLine
<1>3. First(k, n) = {} \/ \E x \in Fresh(k) : First(k, n) = {x}
  BY <1>1, <1>2
<1>4. CASE First(k, n) = {}
  BY <1>1, <1>4, FS_EmptySet DEF Taken
<1>5. CASE \E x \in Fresh(k) : First(k, n) = {x}
  <2>1. n < places
    BY <1>5 DEF First, GovernorTypeOK, GovernorAssumption
  <2>2. Cardinality(First(k, n)) = 1
    BY <1>5, FS_Singleton
  <2> QED BY <1>1, <1>5, <2>1, <2>2 DEF Taken, Counted, GovernorTypeOK, GovernorAssumption
<1> QED BY <1>3, <1>4, <1>5

(* A call that gives its place back, to the first in line if there is one. *)
LEMMA LeaveStep ==
    ASSUME GovernorInv, NEW c \in Call, pc[c] \in Holding, NEW how \in Ended,
           Leave(c, how), UNCHANGED <<places, peak>>
    PROVE  /\ active' \in [Key -> Nat] /\ pc' \in [Call -> Stages]
           /\ wait' \in [Call -> Nat] /\ tries' \in [Call -> Nat]
           /\ ahead' \in [Call -> SUBSET Call]
           /\ InLine' /\ Counted'
<1> DEFINE k == KeyOf[c]
           n == active[k] - 1
<1>k. k \in Key
  BY DEF GovernorAssumption
<1>1. c \in Inside(k) /\ Inside(k) \in SUBSET Call
  BY DEF Inside
<1>2. active[k] = Cardinality(Inside(k)) /\ active[k] <= peak
  BY <1>k DEF GovernorInv, Counted
<1>3. Cardinality(Inside(k) \ {c}) = n /\ n \in Nat /\ n <= peak
  <2>1. Cardinality(Inside(k) \ {c}) = Cardinality(Inside(k)) - 1
    BY <1>1, CallsFinite, FS_RemoveElement
  <2>2. Cardinality(Inside(k) \ {c}) \in Nat
    BY <1>1, CallsFinite
  <2>3. active[k] \in Nat /\ peak \in Nat
    BY <1>k DEF GovernorInv, GovernorTypeOK, GovernorAssumption
  <2> QED BY <1>2, <2>1, <2>2, <2>3
<1>4. /\ First(k, n) \subseteq Fresh(k)
      /\ First(k, n) = {} \/ \E x \in Fresh(k) : First(k, n) = {x}
      /\ Taken(k, n) \in Nat /\ Taken(k, n) <= peak
      /\ Taken(k, n) = n + Cardinality(First(k, n))
  BY <1>k, <1>3, FirstAlone DEF GovernorInv
<1>5. /\ active' = [active EXCEPT ![k] = Taken(k, n)]
      /\ pc' = [x \in Call |-> CASE x = c -> how
                                 [] x \in Expired(k) -> "failed"
                                 [] x \in First(k, n) -> "admitted"
                                 [] OTHER -> pc[x]]
      /\ wait' = [x \in Call |-> IF x \in First(k, n) THEN 0 ELSE wait[x]]
      /\ OutOfLine(First(k, n) \cup Expired(k))
      /\ tries' = [tries EXCEPT ![c] = 0]
  BY DEF Leave
<1>6. \A x \in First(k, n) : x \in Call /\ KeyOf[x] = k /\ pc[x] = "queued" /\ x \notin Expired(k)
  BY <1>4 DEF Fresh, Expired, Queued
<1>7. \A x \in Expired(k) : x \in Call /\ KeyOf[x] = k /\ pc[x] = "queued"
  BY DEF Expired, Queued
<1>8. c \notin Expired(k) /\ c \notin First(k, n) /\ KeyOf[c] = k
  BY <1>6, <1>7 DEF Holding, Prompt
<1>9. \A x \in Call : /\ x = c => pc'[x] = how
                      /\ x \in Expired(k) => pc'[x] = "failed"
                      /\ x \in First(k, n) => pc'[x] = "admitted"
                      /\ x # c /\ x \notin Expired(k) \cup First(k, n) => pc'[x] = pc[x]
  BY <1>5, <1>6, <1>8
<1> HIDE DEF k, n
<1>10. /\ active' \in [Key -> Nat]
       /\ wait' \in [Call -> Nat] /\ tries' \in [Call -> Nat]
       /\ ahead' \in [Call -> SUBSET Call]
  BY <1>4, <1>5 DEF GovernorInv, GovernorTypeOK, OutOfLine
<1>11. pc' \in [Call -> Stages]
  BY <1>5 DEF GovernorInv, GovernorTypeOK, Stages, Holding, Prompt, Ended
<1>12. InLine'
  <2> SUFFICES ASSUME NEW x \in Call, NEW y \in Call, KeyOf[x] = KeyOf[y],
                      pc'[x] = "queued", pc'[y] = "queued", x # y
               PROVE  x \in ahead'[y] \/ y \in ahead'[x]
    BY DEF InLine
  <2>1. x \notin Expired(k) \cup First(k, n) /\ y \notin Expired(k) \cup First(k, n)
    BY <1>9
  <2>2. pc[x] = "queued" /\ pc[y] = "queued"
    BY <1>9, <2>1 DEF Ended
  <2>3. x \in ahead[y] \/ y \in ahead[x]
    BY <2>2 DEF GovernorInv, InLine
  <2> QED BY <1>5, <2>1, <2>3 DEF OutOfLine
<1>13. \A j \in Key \ {k} : Inside(j)' = Inside(j)
  BY <1>6, <1>7, <1>8, <1>9 DEF Inside
<1>14. Inside(k)' = (Inside(k) \ {c}) \cup First(k, n)
  BY <1>6, <1>7, <1>8, <1>9 DEF Inside, Holding, Prompt, Ended
<1>15. Cardinality(Inside(k)') = Taken(k, n)
  <2>1. CASE First(k, n) = {}
    BY <2>1, <1>3, <1>4, <1>14, FS_EmptySet
  <2>2. CASE \E x \in Fresh(k) : First(k, n) = {x}
    <3>1. PICK x \in Fresh(k) : First(k, n) = {x}
      BY <2>2
    <3>2. x \notin Inside(k) \ {c}
      BY <3>1, <1>6 DEF Inside, Holding, Prompt
    <3>3. IsFiniteSet(Inside(k) \ {c})
      BY <1>1, CallsFinite
    <3>4. Cardinality((Inside(k) \ {c}) \cup {x}) = Cardinality(Inside(k) \ {c}) + 1
      BY <3>2, <3>3, FS_AddElement
    <3> QED BY <3>1, <3>4, <1>3, <1>4, <1>14, FS_Singleton
  <2> QED BY <1>4, <2>1, <2>2
<1>16. \A j \in Key : active'[j] = IF j = k THEN Taken(k, n) ELSE active[j]
  BY <1>5, <1>k DEF GovernorInv, GovernorTypeOK
<1>17. places' <= peak' /\ peak' = peak
  BY DEF GovernorInv, Counted
<1>18. ASSUME NEW j \in Key
       PROVE  (active[j] = Cardinality(Inside(j)) /\ active[j] <= peak)'
  <2>1. CASE j = k
    BY <2>1, <1>4, <1>15, <1>16, <1>17
  <2>2. CASE j # k
    BY <2>2, <1>13, <1>16, <1>17 DEF GovernorInv, Counted
  <2> QED BY <2>1, <2>2
<1> QED BY <1>10, <1>11, <1>12, <1>17, <1>18 DEF Counted

(* A call that goes on with its place.                                     *)
LEMMA StaysInside ==
    ASSUME GovernorInv, NEW c \in Call, pc[c] \in Holding, NEW to \in Holding,
           pc' = [pc EXCEPT ![c] = to], UNCHANGED <<active, ahead, places, peak>>
    PROVE  pc' \in [Call -> Stages] /\ InLine' /\ Counted'
<1>1. pc' \in [Call -> Stages]
  BY DEF GovernorInv, GovernorTypeOK, Stages
<1>2. \A x \in Call : /\ pc'[x] \in Holding <=> pc[x] \in Holding
                      /\ pc'[x] = "queued" => pc[x] = "queued"
  BY DEF GovernorInv, GovernorTypeOK, Holding, Prompt
<1>3. InLine'
  BY <1>2 DEF GovernorInv, InLine
<1>4. \A k \in Key : Inside(k)' = Inside(k)
  BY <1>2 DEF Inside
<1> QED BY <1>1, <1>3, <1>4 DEF GovernorInv, Counted

(* Nobody joins or leaves a line, and nobody takes or leaves a place.      *)
LEMMA NobodyMoves ==
    ASSUME GovernorInv, UNCHANGED <<pc, active, ahead>>, places' <= peak', peak <= peak',
           peak' \in Places
    PROVE  pc' \in [Call -> Stages] /\ InLine' /\ Counted'
<1>1. pc' \in [Call -> Stages] /\ InLine'
  BY DEF GovernorInv, GovernorTypeOK, Stages, InLine
<1>2. \A k \in Key : Inside(k)' = Inside(k)
  BY DEF Inside
<1>3. \A k \in Key : active[k] \in Nat
  BY DEF GovernorInv, GovernorTypeOK
<1> QED BY <1>2, <1>1, <1>3 DEF GovernorInv, GovernorTypeOK, GovernorAssumption, Counted

(* Calls refused in line.                                                  *)
LEMMA OnlyLeaveLine ==
    ASSUME GovernorInv, NEW S \in SUBSET Call, \A x \in S : pc[x] = "queued",
           pc' = [x \in Call |-> IF x \in S THEN "failed" ELSE pc[x]], OutOfLine(S)
    PROVE  /\ pc' \in [Call -> Stages] /\ ahead' \in [Call -> SUBSET Call]
           /\ InLine' /\ \A k \in Key : Inside(k)' = Inside(k)
<1>1. pc' \in [Call -> Stages] /\ ahead' \in [Call -> SUBSET Call]
  BY DEF GovernorInv, GovernorTypeOK, Stages, OutOfLine, Ended
<1>2. \A x \in Call : pc'[x] = IF x \in S THEN "failed" ELSE pc[x]
  OBVIOUS
<1>3. InLine'
  BY <1>2 DEF GovernorInv, InLine, OutOfLine
<1>4. \A k \in Key : Inside(k)' = Inside(k)
  BY <1>2 DEF Inside, Holding, Prompt
<1> QED BY <1>1, <1>3, <1>4

-----------------------------------------------------------------------------
(* The requests window. *)
LEMMA WindowTypes ==
    ASSUME GovernorTypeOK
    PROVE  /\ Window \in [age : 0 .. Period, used : Nat] /\ Window # NoWindow
           /\ win = NoWindow => Window.used = 0
           /\ win # NoWindow => Window = win
  BY DEF GovernorTypeOK, Window, NoWindow, GovernorAssumption

LEMMA SameReserved ==
    ASSUME GovernorInv, UNCHANGED <<win, ticket, quota>>
    PROVE  Reserved' /\ win' \in [age : 0 .. Period, used : Nat] \cup {NoWindow}
           /\ ticket' \in [Call -> {"none", "current", "old"}]
  BY DEF GovernorInv, GovernorTypeOK, Reserved, Current

LEMMA AskedReserved ==
    ASSUME GovernorInv, UNCHANGED <<ticket, quota>>, win' = Window
    PROVE  Reserved' /\ win' \in [age : 0 .. Period, used : Nat] \cup {NoWindow}
           /\ ticket' \in [Call -> {"none", "current", "old"}]
<1>1. /\ Window \in [age : 0 .. Period, used : Nat] /\ Window # NoWindow
      /\ win = NoWindow => Window.used = 0
      /\ win # NoWindow => Window = win
  BY WindowTypes DEF GovernorInv
<1>2. Current' = Current
  BY DEF Current
<1>3. quota \in Nat
  BY DEF GovernorInv, GovernorTypeOK, GovernorAssumption
<1>4. CASE win = NoWindow
  <2>1. ticket' \in [Call -> {"none", "current", "old"}]
    BY DEF GovernorInv, GovernorTypeOK
  <2>2. Current = {} /\ Cardinality({}) = 0
    BY <1>4, FS_EmptySet DEF GovernorInv, Reserved
  <2> QED BY <1>1, <1>2, <1>3, <1>4, <2>1, <2>2 DEF Reserved
<1>5. CASE win # NoWindow
  <2>1. ticket' \in [Call -> {"none", "current", "old"}]
    BY DEF GovernorInv, GovernorTypeOK
  <2> QED BY <1>1, <1>2, <1>5, <2>1 DEF GovernorInv, Reserved
<1> QED BY <1>4, <1>5

(* A new period, or a new window: no reservation counts any more.          *)
LEMMA AgedTickets ==
    ASSUME GovernorTypeOK
    PROVE  /\ Aged(ticket) \in [Call -> {"none", "current", "old"}]
           /\ \A x \in Call : Aged(ticket)[x] # "current"
  BY DEF GovernorTypeOK, Aged

LEMMA ReserveStep ==
    ASSUME GovernorInv, NEW c \in Call, quota > 0, UNCHANGED quota,
           Over \/ Window.used < quota, ticket[c] # "current",
           win' = [Window EXCEPT !.used = IF Over THEN 1 ELSE @ + 1, !.age = IF Over THEN 0 ELSE @],
           ticket' = [(IF Over THEN Aged(ticket) ELSE ticket) EXCEPT ![c] = "current"]
    PROVE  Reserved' /\ win' \in [age : 0 .. Period, used : Nat] \cup {NoWindow}
           /\ ticket' \in [Call -> {"none", "current", "old"}]
<1>1. /\ Window \in [age : 0 .. Period, used : Nat] /\ Window # NoWindow
      /\ win = NoWindow => Window.used = 0
      /\ win # NoWindow => Window = win
  BY WindowTypes DEF GovernorInv
<1>2. /\ Aged(ticket) \in [Call -> {"none", "current", "old"}]
      /\ \A x \in Call : Aged(ticket)[x] # "current"
  BY AgedTickets DEF GovernorInv
<1>3. ticket' \in [Call -> {"none", "current", "old"}]
  BY <1>2 DEF GovernorInv, GovernorTypeOK
<1>4. /\ win' \in [age : 0 .. Period, used : Nat] /\ win'.used = IF Over THEN 1 ELSE Window.used + 1
  <2>1. Period \in Nat
    BY DEF GovernorAssumption
  <2>2. PICK a \in 0 .. Period, u \in Nat : Window = [age |-> a, used |-> u]
    BY <1>1
  <2>3. CASE Over
    <3>1. win' = [age |-> 0, used |-> 1]
      BY <2>2, <2>3
    <3> QED BY <3>1, <2>1, <2>3
  <2>4. CASE ~Over
    <3>1. win' = [age |-> a, used |-> u + 1] /\ Window.used = u
      BY <2>2, <2>4
    <3> QED BY <3>1, <2>1, <2>4
  <2> QED BY <2>3, <2>4
<1>5. win' # NoWindow
  BY <1>4 DEF NoWindow
<1>6. quota \in Nat
  BY DEF GovernorInv, GovernorTypeOK, GovernorAssumption
<1>7. Cardinality(Current') = win'.used
  <2>1. CASE Over
    <3>1. Current' = {c}
      BY <2>1, <1>2 DEF Current, GovernorInv, GovernorTypeOK
    <3> QED BY <3>1, <2>1, <1>4, FS_Singleton
  <2>2. CASE ~Over
    <3>1. Current' = Current \cup {c} /\ c \notin Current
      BY <2>2 DEF Current, GovernorInv, GovernorTypeOK
    <3>2. IsFiniteSet(Current)
      BY CallsFinite DEF Current
    <3>3. Cardinality(Current) = Window.used
      BY <1>1, FS_EmptySet DEF GovernorInv, Reserved
    <3>4. Cardinality(Current') = Cardinality(Current) + 1
      BY <3>1, <3>2, FS_AddElement
    <3> QED BY <3>3, <3>4, <2>2, <1>4
  <2> QED BY <2>1, <2>2
<1>8. win'.used <= quota
  BY <1>1, <1>4, <1>6
<1> QED BY <1>3, <1>4, <1>5, <1>7, <1>8 DEF Reserved

LEMMA GiveBackStep ==
    ASSUME GovernorInv, NEW c \in Call, GiveBack(c), UNCHANGED quota
    PROVE  Reserved' /\ win' \in [age : 0 .. Period, used : Nat] \cup {NoWindow}
           /\ ticket' \in [Call -> {"none", "current", "old"}]
<1>1. /\ win' = IF ticket[c] = "current"
                THEN [win EXCEPT !.used = IF @ > 0 THEN @ - 1 ELSE 0] ELSE win
      /\ ticket' = [ticket EXCEPT ![c] = "none"]
  BY DEF GiveBack
<1>2. ticket' \in [Call -> {"none", "current", "old"}] /\ Current' = Current \ {c}
  BY <1>1 DEF GovernorInv, GovernorTypeOK, Current
<1>3. CASE ticket[c] # "current"
  <2>1. Current' = Current
    BY <1>2, <1>3 DEF Current
  <2> QED BY <1>1, <1>2, <1>3, <2>1 DEF GovernorInv, GovernorTypeOK, Reserved
<1>4. CASE ticket[c] = "current"
  <2>1. c \in Current /\ IsFiniteSet(Current)
    BY <1>4, CallsFinite DEF Current
  <2>2. win # NoWindow /\ win \in [age : 0 .. Period, used : Nat]
        /\ win.used = Cardinality(Current) /\ win.used <= quota
    BY <2>1 DEF GovernorInv, GovernorTypeOK, Reserved
  <2>3. Cardinality(Current') = Cardinality(Current) - 1
    BY <1>2, <2>1, FS_RemoveElement
  <2>4. Cardinality(Current') \in Nat
    BY <1>2, CallsFinite DEF Current
  <2>5. win' \in [age : 0 .. Period, used : Nat] /\ win'.used = win.used - 1
    BY <1>1, <1>4, <2>2, <2>3, <2>4
  <2>6. win' # NoWindow
    BY <2>5 DEF NoWindow
  <2>7. quota \in Nat
    BY DEF GovernorInv, GovernorTypeOK, GovernorAssumption
  <2> QED BY <1>2, <2>2, <2>3, <2>5, <2>6, <2>7 DEF Reserved
<1> QED BY <1>3, <1>4

(* Who leaves or goes on holds no reservation it should not hold.          *)
LEMMA LeaveReserving ==
    ASSUME GovernorInv, NEW c \in Call, pc[c] \in Holding, NEW how \in Ended, Leave(c, how),
           \A x \in Call : ticket'[x] = "current" =>
                ticket[x] = "current" /\ (x = c => how = "done" /\ pc[c] = "sent")
    PROVE  Reserving'
<1>1. pc' = [x \in Call |-> CASE x = c -> how
                              [] x \in Expired(KeyOf[c]) -> "failed"
                              [] x \in First(KeyOf[c], active[KeyOf[c]] - 1) -> "admitted"
                              [] OTHER -> pc[x]]
  BY DEF Leave
<1>2. \A x \in Expired(KeyOf[c]) \cup First(KeyOf[c], active[KeyOf[c]] - 1) : pc[x] = "queued"
  BY DEF Expired, First, Fresh, Queued
<1>3. SUFFICES ASSUME NEW x \in Call, ticket'[x] = "current"
               PROVE  pc'[x] \in {"sent", "backoff", "done"}
  BY DEF Reserving
<1>4. ticket[x] = "current" /\ pc[x] \in {"sent", "backoff", "done"}
  BY <1>3 DEF GovernorInv, Reserving
<1>5. x \notin Expired(KeyOf[c]) \cup First(KeyOf[c], active[KeyOf[c]] - 1)
  BY <1>2, <1>4
<1>6. CASE x = c
  BY <1>1, <1>3, <1>5, <1>6
<1>7. CASE x # c
  BY <1>1, <1>4, <1>5, <1>7
<1> QED BY <1>6, <1>7

-----------------------------------------------------------------------------
LEMMA SaveSettingsStep ==
    ASSUME GovernorInv, NEW m \in Places, NEW q \in Quotas, SaveSettings(m, q)
    PROVE  GovernorInv'
<1> USE DEF SaveSettings, keyVars
<1>0. places \in Nat /\ m \in Nat /\ peak \in Nat /\ peak \in Places /\ places <= peak
  BY DEF GovernorInv, GovernorTypeOK, GovernorAssumption, Counted
<1>1. places' <= peak' /\ peak <= peak' /\ peak' \in Places
  BY <1>0
<1>2. pc' \in [Call -> Stages] /\ InLine' /\ Counted'
  BY <1>1, NobodyMoves
<1>3. ticket' \in [Call -> {"none", "current", "old"}] /\ \A x \in Call : ticket'[x] # "current"
  BY AgedTickets DEF GovernorInv
<1>4. saves' \in 0 .. MaxSaves
  BY DEF GovernorInv, GovernorTypeOK, GovernorAssumption
<1>5. GovernorTypeOK'
  BY <1>1, <1>2, <1>3, <1>4 DEF GovernorInv, GovernorTypeOK, Stages
<1>6. Reserved' /\ Reserving'
  BY <1>3 DEF Reserved, Reserving, Current
<1> QED BY <1>2, <1>5, <1>6 DEF GovernorInv

LEMMA RunStep ==
    ASSUME GovernorInv, NEW c \in Call, Run(c)
    PROVE  GovernorInv'
<1> DEFINE k == KeyOf[c]
           free == active[k] < places
<1> USE DEF setVars
<1>1. /\ pc[c] = "new" /\ k \in Key
      /\ active' = [active EXCEPT ![k] = IF free THEN @ + 1 ELSE @]
      /\ pc' = [x \in Call |-> CASE x = c -> (IF free THEN "admitted" ELSE "queued")
                                 [] x \in Expired(k) -> "failed"
                                 [] OTHER -> pc[x]]
      /\ IF free THEN UNCHANGED wait /\ OutOfLine(Expired(k))
         ELSE /\ wait' = [wait EXCEPT ![c] = QueueWait]
              /\ ahead' = [x \in Call |-> CASE x = c -> Fresh(k)
                                           [] x \in Expired(k) -> {}
                                           [] OTHER -> ahead[x] \ Expired(k)]
      /\ UNCHANGED <<slot, cool, gap, win, tries, ticket, places, quota, peak, saves>>
  BY DEF Run, GovernorAssumption
<1>2. \A x \in Expired(k) : x \in Call /\ KeyOf[x] = k /\ pc[x] = "queued" /\ x # c
  BY <1>1 DEF Expired, Queued
<1>3. \A x \in Call : /\ x = c => pc'[x] = IF free THEN "admitted" ELSE "queued"
                      /\ x \in Expired(k) => pc'[x] = "failed"
                      /\ x # c /\ x \notin Expired(k) => pc'[x] = pc[x]
  BY <1>1, <1>2
<1>4. pc' \in [Call -> Stages]
  BY <1>1 DEF GovernorInv, GovernorTypeOK, Stages, Holding, Prompt, Ended
<1>5. Fresh(k) \subseteq Call /\ QueueWait \in Nat
  BY DEF Fresh, Queued, GovernorAssumption
<1>6. \A j \in Key : active[j] \in Nat
  BY DEF GovernorInv, GovernorTypeOK
<1>7. active' \in [Key -> Nat]
  BY <1>1, <1>6 DEF GovernorInv, GovernorTypeOK
<1>8. wait' \in [Call -> Nat]
  BY <1>1, <1>5 DEF GovernorInv, GovernorTypeOK
<1>9. ahead' \in [Call -> SUBSET Call]
  BY <1>1, <1>5 DEF GovernorInv, GovernorTypeOK, OutOfLine
<1>10. GovernorTypeOK'
  BY <1>1, <1>4, <1>7, <1>8, <1>9 DEF GovernorInv, GovernorTypeOK, Stages
<1>11. InLine'
  <2> SUFFICES ASSUME NEW x \in Call, NEW y \in Call, KeyOf[x] = KeyOf[y],
                      pc'[x] = "queued", pc'[y] = "queued", x # y
               PROVE  x \in ahead'[y] \/ y \in ahead'[x]
    BY DEF InLine
  <2>1. x \notin Expired(k) /\ y \notin Expired(k)
    BY <1>3
  <2>2. CASE x # c /\ y # c
    <3>1. x \in ahead[y] \/ y \in ahead[x]
      BY <1>3, <2>1, <2>2 DEF GovernorInv, InLine
    <3> QED BY <1>1, <2>1, <2>2, <3>1 DEF OutOfLine
  <2>3. ASSUME NEW z \in Call, z # c, KeyOf[z] = k, pc'[z] = "queued", pc'[c] = "queued"
        PROVE  z \in ahead'[c]
    <3>1. ~free /\ ahead'[c] = Fresh(k)
      BY <1>1, <1>3, <2>3
    <3>2. z \notin Expired(k) /\ pc[z] = "queued"
      BY <1>3, <2>3
    <3> QED BY <3>1, <3>2, <2>3 DEF Fresh, Expired, Queued
  <2> QED BY <2>2, <2>3
<1>12. \A j \in Key \ {k} : Inside(j)' = Inside(j)
  BY <1>2, <1>3 DEF Inside, Holding, Prompt
<1>13. Inside(k)' = IF free THEN Inside(k) \cup {c} ELSE Inside(k)
  BY <1>1, <1>2, <1>3 DEF Inside, Holding, Prompt
<1>14. c \notin Inside(k) /\ IsFiniteSet(Inside(k))
  BY <1>1, CallsFinite DEF Inside, Holding, Prompt
<1>15. Cardinality(Inside(k) \cup {c}) = Cardinality(Inside(k)) + 1
  BY <1>14, FS_AddElement
<1>16. places \in Nat /\ peak \in Nat /\ places <= peak
  BY DEF GovernorInv, GovernorTypeOK, GovernorAssumption, Counted
<1>17. ASSUME NEW j \in Key
       PROVE  (active[j] = Cardinality(Inside(j)) /\ active[j] <= peak)'
  <2>1. active[j] = Cardinality(Inside(j)) /\ active[j] <= peak
    BY DEF GovernorInv, Counted
  <2>2. active'[j] = IF j = k /\ free THEN active[j] + 1 ELSE active[j]
    BY <1>1 DEF GovernorInv, GovernorTypeOK
  <2>3. CASE j = k /\ free
    BY <1>1, <1>6, <1>13, <1>15, <1>16, <2>1, <2>2, <2>3
  <2>4. CASE ~(j = k /\ free)
    BY <1>1, <1>12, <1>13, <2>1, <2>2, <2>4
  <2> QED BY <2>3, <2>4
<1>18. Counted'
  BY <1>1, <1>16, <1>17 DEF Counted
<1>19. Reserved'
  BY <1>1, SameReserved
<1>20. Reserving'
  <2> SUFFICES ASSUME NEW x \in Call, ticket'[x] = "current"
               PROVE  pc'[x] \in {"sent", "backoff", "done"}
    BY DEF Reserving
  <2>1. pc[x] \in {"sent", "backoff", "done"}
    BY <1>1 DEF GovernorInv, Reserving
  <2> QED BY <1>1, <1>2, <1>3, <2>1
<1> QED BY <1>10, <1>11, <1>18, <1>19, <1>20 DEF GovernorInv

LEMMA SweepAllStep ==
    ASSUME GovernorInv, SweepAll
    PROVE  GovernorInv'
<1> DEFINE S == UNION {Expired(k) : k \in Key}
<1>1. S \in SUBSET Call /\ \A x \in S : pc[x] = "queued"
  BY DEF Expired, Queued
<1>2. \A x \in Call : x \in Expired(KeyOf[x]) <=> x \in S
  BY DEF Expired, Queued, GovernorAssumption
<1>3. /\ pc' = [x \in Call |-> IF x \in S THEN "failed" ELSE pc[x]] /\ OutOfLine(S)
      /\ UNCHANGED <<active, slot, cool, gap, win, wait, tries, ticket, places, quota, peak, saves>>
  BY <1>2 DEF SweepAll, setVars
<1> HIDE DEF S
<1>4. /\ pc' \in [Call -> Stages] /\ ahead' \in [Call -> SUBSET Call]
      /\ InLine' /\ \A k \in Key : Inside(k)' = Inside(k)
  BY <1>1, <1>3, OnlyLeaveLine
<1>5. GovernorTypeOK'
  BY <1>3, <1>4 DEF GovernorInv, GovernorTypeOK, Stages
<1>6. Counted'
  BY <1>3, <1>4 DEF GovernorInv, Counted
<1>7. Reserved'
  BY <1>3, SameReserved
<1>8. Reserving'
  BY <1>1, <1>3 DEF GovernorInv, Reserving
<1> QED BY <1>4, <1>5, <1>6, <1>7, <1>8 DEF GovernorInv

(* Where a call stands, and what its next place is called, is no matter of *)
(* the reservations unless it holds one.                                   *)
LEMMA StaysReserving ==
    ASSUME GovernorInv, NEW c \in Call, NEW to, pc' = [pc EXCEPT ![c] = to],
           \A x \in Call \ {c} : ticket'[x] = "current" => ticket[x] = "current",
           ticket'[c] = "current" => to \in {"sent", "backoff"}
    PROVE  Reserving'
  BY DEF GovernorInv, GovernorTypeOK, Reserving

LEMMA NotSentYet ==
    ASSUME GovernorInv, NEW c \in Call, pc[c] \notin {"sent", "backoff", "done"}
    PROVE  ticket[c] # "current"
  BY DEF GovernorInv, Reserving

LEMMA Numbers ==
    ASSUME GovernorInv
    PROVE  /\ \A k \in Key : slot[k] \in Nat /\ cool[k] \in Nat /\ gap[k] \in Nat /\ gap[k] \in Gaps
           /\ \A c \in Call : wait[c] \in Nat /\ tries[c] \in Nat /\ KeyOf[c] \in Key
           /\ {places, peak, quota} \subseteq Nat
  BY DEF GovernorInv, GovernorTypeOK, GovernorAssumption

LEMMA PaceStep ==
    ASSUME GovernorInv, NEW c \in Call, Pace(c)
    PROVE  GovernorInv'
<1> DEFINE k == KeyOf[c]
<1> USE DEF setVars
<1>1. /\ pc[c] = "admitted" /\ k \in Key
      /\ slot' = [slot EXCEPT ![k] = @ + gap[k]]
      /\ UNCHANGED <<cool, gap, win, ticket, places, quota, peak, saves>>
  BY Numbers DEF Pace
<1>2. slot' \in [Key -> Nat] /\ slot[k] \in Nat
  BY <1>1, Numbers DEF GovernorInv, GovernorTypeOK
<1>3. Reserved'
  BY <1>1, SameReserved
<1>4. ticket[c] # "current" /\ pc[c] \in Holding
  BY <1>1, NotSentYet DEF Holding, Prompt
<1>5. CASE slot[k] > PaceWait
  <2>1. Leave(c, "failed") /\ "failed" \in Ended
    BY <1>5 DEF Pace, Ended
  <2>2. /\ active' \in [Key -> Nat] /\ pc' \in [Call -> Stages]
        /\ wait' \in [Call -> Nat] /\ tries' \in [Call -> Nat]
        /\ ahead' \in [Call -> SUBSET Call] /\ InLine' /\ Counted'
    BY <1>1, <1>4, <2>1, LeaveStep
  <2>3. Reserving'
    BY <1>1, <1>4, <2>1, LeaveReserving
  <2>4. GovernorTypeOK'
    BY <1>1, <1>2, <2>2 DEF GovernorInv, GovernorTypeOK, Stages
  <2> QED BY <1>3, <2>2, <2>3, <2>4 DEF GovernorInv
<1>6. CASE ~(slot[k] > PaceWait)
  <2>1. PICK to \in {"paced", "pacing"} : pc' = [pc EXCEPT ![c] = to]
    BY <1>6 DEF Pace
  <2>2. to \in Holding
    BY DEF Holding, Prompt
  <2>3. wait' = [wait EXCEPT ![c] = slot[k]] /\ UNCHANGED <<active, ahead, tries>>
    BY <1>6 DEF Pace
  <2>4. pc' \in [Call -> Stages] /\ InLine' /\ Counted'
    BY <1>1, <1>4, <2>1, <2>2, <2>3, StaysInside
  <2>5. Reserving'
    BY <1>1, <1>4, <2>1, StaysReserving
  <2>6. GovernorTypeOK'
    BY <1>1, <1>2, <2>3, <2>4 DEF GovernorInv, GovernorTypeOK, Stages
  <2> QED BY <1>3, <2>4, <2>5, <2>6 DEF GovernorInv
<1> QED BY <1>5, <1>6

LEMMA CheckCooldownStep ==
    ASSUME GovernorInv, NEW c \in Call, CheckCooldown(c)
    PROVE  GovernorInv'
<1> DEFINE k == KeyOf[c]
<1> USE DEF setVars
<1>1. /\ pc[c] \in {"paced", "pacing"} /\ k \in Key
      /\ UNCHANGED <<slot, cool, gap, win, ticket, places, quota, peak, saves>>
  BY Numbers DEF CheckCooldown
<1>2. cool[k] \in Nat
  BY <1>1, Numbers
<1>3. Reserved'
  BY <1>1, SameReserved
<1>4. ticket[c] # "current" /\ pc[c] \in Holding
  BY <1>1, NotSentYet DEF Holding, Prompt
<1>5. CASE cool[k] > CooldownWait
  <2>1. Leave(c, "failed") /\ "failed" \in Ended
    BY <1>5 DEF CheckCooldown, Ended
  <2>2. /\ active' \in [Key -> Nat] /\ pc' \in [Call -> Stages]
        /\ wait' \in [Call -> Nat] /\ tries' \in [Call -> Nat]
        /\ ahead' \in [Call -> SUBSET Call] /\ InLine' /\ Counted'
    BY <1>1, <1>4, <2>1, LeaveStep
  <2>3. Reserving'
    BY <1>1, <1>4, <2>1, LeaveReserving
  <2>4. GovernorTypeOK'
    BY <1>1, <2>2 DEF GovernorInv, GovernorTypeOK, Stages
  <2> QED BY <1>3, <2>2, <2>3, <2>4 DEF GovernorInv
<1>6. CASE ~(cool[k] > CooldownWait)
  <2>1. PICK to \in {"cooled", "cooling"} : pc' = [pc EXCEPT ![c] = to]
    BY <1>6 DEF CheckCooldown
  <2>2. to \in Holding
    BY DEF Holding, Prompt
  <2>3. wait' = [wait EXCEPT ![c] = cool[k]] /\ UNCHANGED <<active, ahead, tries>>
    BY <1>6 DEF CheckCooldown
  <2>4. pc' \in [Call -> Stages] /\ InLine' /\ Counted'
    BY <1>1, <1>4, <2>1, <2>2, <2>3, StaysInside
  <2>5. Reserving'
    BY <1>1, <1>4, <2>1, StaysReserving
  <2>6. GovernorTypeOK'
    BY <1>1, <1>2, <2>3, <2>4 DEF GovernorInv, GovernorTypeOK, Stages
  <2> QED BY <1>3, <2>4, <2>5, <2>6 DEF GovernorInv
<1> QED BY <1>5, <1>6

LEMMA SendStep ==
    ASSUME GovernorInv, NEW c \in Call, Send(c)
    PROVE  GovernorInv'
<1> USE DEF setVars
<1>1. /\ pc[c] \in {"cooled", "cooling"}
      /\ UNCHANGED <<slot, cool, gap, places, quota, peak, saves>>
  BY DEF Send
<1>2. ticket[c] # "current" /\ pc[c] \in Holding
  BY <1>1, NotSentYet DEF Holding, Prompt
<1>3. ASSUME Leave(c, "failed"), win' = Window, UNCHANGED ticket
      PROVE  GovernorInv'
  <2>1. "failed" \in Ended
    BY DEF Ended
  <2>2. /\ active' \in [Key -> Nat] /\ pc' \in [Call -> Stages]
        /\ wait' \in [Call -> Nat] /\ tries' \in [Call -> Nat]
        /\ ahead' \in [Call -> SUBSET Call] /\ InLine' /\ Counted'
    BY <1>1, <1>2, <1>3, <2>1, LeaveStep
  <2>3. Reserving'
    BY <1>2, <1>3, <2>1, LeaveReserving
  <2>4. Reserved' /\ win' \in [age : 0 .. Period, used : Nat] \cup {NoWindow}
        /\ ticket' \in [Call -> {"none", "current", "old"}]
    BY <1>1, <1>3, AskedReserved
  <2>5. GovernorTypeOK'
    BY <1>1, <2>2, <2>4 DEF GovernorInv, GovernorTypeOK, Stages
  <2> QED BY <2>2, <2>3, <2>4, <2>5 DEF GovernorInv
<1>4. ASSUME Started(c), Reserved',
             win' \in [age : 0 .. Period, used : Nat] \cup {NoWindow},
             ticket' \in [Call -> {"none", "current", "old"}],
             \A x \in Call \ {c} : ticket'[x] = "current" => ticket[x] = "current"
      PROVE  GovernorInv'
  <2>1. /\ pc' = [pc EXCEPT ![c] = "sent"] /\ tries' = [tries EXCEPT ![c] = 1]
        /\ UNCHANGED <<active, ahead, wait>> /\ "sent" \in Holding
    BY <1>4 DEF Started, Holding
  <2>2. pc' \in [Call -> Stages] /\ InLine' /\ Counted'
    BY <1>1, <1>2, <2>1, StaysInside
  <2>3. Reserving'
    BY <1>4, <2>1, StaysReserving
  <2>4. GovernorTypeOK'
    BY <1>1, <1>4, <2>1, <2>2 DEF GovernorInv, GovernorTypeOK, Stages
  <2> QED BY <1>4, <2>2, <2>3, <2>4 DEF GovernorInv
<1>5. CASE ~(quota > 0)
  <2>1. Started(c) /\ UNCHANGED <<win, ticket>>
    BY <1>5 DEF Send
  <2>2. Reserved' /\ win' \in [age : 0 .. Period, used : Nat] \cup {NoWindow}
        /\ ticket' \in [Call -> {"none", "current", "old"}]
    BY <1>1, <2>1, SameReserved
  <2> QED BY <1>4, <2>1, <2>2
<1>6. CASE quota > 0 /\ ~Over /\ Window.used >= quota
  BY <1>3, <1>6 DEF Send, Reserve
<1>7. CASE quota > 0 /\ ~(~Over /\ Window.used >= quota)
  <2>1. /\ win' = [Window EXCEPT !.used = IF Over THEN 1 ELSE @ + 1, !.age = IF Over THEN 0 ELSE @]
        /\ ticket' = [(IF Over THEN Aged(ticket) ELSE ticket) EXCEPT ![c] = "current"]
        /\ Started(c)
    BY <1>7 DEF Send, Reserve
  <2>2. Over \/ Window.used < quota
    <3>1. Window.used \in Nat /\ quota \in Nat
      BY WindowTypes, Numbers DEF GovernorInv
    <3> QED BY <3>1, <1>7
  <2>3. Reserved' /\ win' \in [age : 0 .. Period, used : Nat] \cup {NoWindow}
        /\ ticket' \in [Call -> {"none", "current", "old"}]
    BY <1>1, <1>2, <1>7, <2>1, <2>2, ReserveStep
  <2>4. \A x \in Call \ {c} : ticket'[x] = "current" => ticket[x] = "current"
    BY <2>1, AgedTickets DEF GovernorInv, GovernorTypeOK
  <2> QED BY <1>4, <2>1, <2>3, <2>4
<1> QED BY <1>5, <1>6, <1>7

LEMMA FailsStep ==
    ASSUME GovernorInv, NEW c \in Call, pc[c] = "sent", Fails(c),
           cool' \in [Key -> Nat], gap' \in [Key -> Gaps]
    PROVE  GovernorInv'
<1>1. /\ GiveBack(c) /\ Leave(c, "failed") /\ "failed" \in Ended /\ pc[c] \in Holding
      /\ UNCHANGED <<slot, places, quota, peak, saves>>
  BY DEF Fails, setVars, Ended, Holding
<1>2. /\ active' \in [Key -> Nat] /\ pc' \in [Call -> Stages]
      /\ wait' \in [Call -> Nat] /\ tries' \in [Call -> Nat]
      /\ ahead' \in [Call -> SUBSET Call] /\ InLine' /\ Counted'
  BY <1>1, LeaveStep
<1>3. Reserved' /\ win' \in [age : 0 .. Period, used : Nat] \cup {NoWindow}
      /\ ticket' \in [Call -> {"none", "current", "old"}]
  BY <1>1, GiveBackStep
<1>4. ticket' = [ticket EXCEPT ![c] = "none"]
  BY <1>1 DEF GiveBack
<1>5. \A x \in Call : ticket'[x] = "current" => ticket[x] = "current" /\ x # c
  BY <1>4 DEF GovernorInv, GovernorTypeOK
<1>6. Reserving'
  BY <1>1, <1>5, LeaveReserving
<1>7. GovernorTypeOK'
  BY <1>1, <1>2, <1>3 DEF GovernorInv, GovernorTypeOK, Stages
<1> QED BY <1>2, <1>3, <1>6, <1>7 DEF GovernorInv

LEMMA SleepsStep ==
    ASSUME GovernorInv, NEW c \in Call, pc[c] = "sent", NEW n \in Nat, SleepsFor(c, n),
           cool' \in [Key -> Nat], gap' \in [Key -> Gaps]
    PROVE  GovernorInv'
<1>1. /\ pc' = [pc EXCEPT ![c] = "backoff"] /\ wait' = [wait EXCEPT ![c] = n]
      /\ tries' = [tries EXCEPT ![c] = IF @ < Retry429 \/ @ < TransientRetries THEN @ + 1 ELSE @]
      /\ UNCHANGED <<active, ahead, slot, win, ticket, places, quota, peak, saves>>
      /\ "backoff" \in Holding /\ pc[c] \in Holding
  BY DEF SleepsFor, setVars, Holding
<1>2. pc' \in [Call -> Stages] /\ InLine' /\ Counted'
  BY <1>1, StaysInside
<1>3. Reserved'
  BY <1>1, SameReserved
<1>4. Reserving'
  BY <1>1, StaysReserving
<1>5. wait' \in [Call -> Nat]
  BY <1>1 DEF GovernorInv, GovernorTypeOK
<1>6. tries' \in [Call -> Nat]
  BY <1>1, Numbers DEF GovernorInv, GovernorTypeOK
<1>7. GovernorTypeOK'
  BY <1>1, <1>2, <1>5, <1>6 DEF GovernorInv, GovernorTypeOK, Stages
<1> QED BY <1>2, <1>3, <1>4, <1>7 DEF GovernorInv

LEMMA AnsweredStep ==
    ASSUME GovernorInv, NEW c \in Call, Answered(c)
    PROVE  GovernorInv'
<1>1. /\ pc[c] = "sent" /\ pc[c] \in Holding /\ Leave(c, "done") /\ "done" \in Ended
      /\ UNCHANGED <<slot, cool, places, quota, peak, saves>>
  BY DEF Answered, setVars, Holding, Ended
<1>2. gap' \in [Key -> Gaps]
  BY DEF Answered, GovernorInv, GovernorTypeOK
<1>3. /\ active' \in [Key -> Nat] /\ pc' \in [Call -> Stages]
      /\ wait' \in [Call -> Nat] /\ tries' \in [Call -> Nat]
      /\ ahead' \in [Call -> SUBSET Call] /\ InLine' /\ Counted'
  BY <1>1, LeaveStep
<1>4. /\ Reserved' /\ win' \in [age : 0 .. Period, used : Nat] \cup {NoWindow}
      /\ ticket' \in [Call -> {"none", "current", "old"}]
      /\ \A x \in Call : ticket'[x] = "current" => ticket[x] = "current"
  <2>1. CASE quota = 0
    BY <1>1, <2>1, SameReserved DEF Answered
  <2>2. CASE quota # 0 /\ ~Over
    <3>1. win' = Window /\ UNCHANGED ticket
      BY <2>2 DEF Answered
    <3> QED BY <3>1, <1>1, AskedReserved
  <2>3. CASE quota # 0 /\ Over
    <3>1. win' = [age |-> 0, used |-> 0] /\ ticket' = Aged(ticket)
      BY <2>3 DEF Answered
    <3>2. /\ ticket' \in [Call -> {"none", "current", "old"}]
          /\ \A x \in Call : ticket'[x] # "current"
      BY <3>1, AgedTickets DEF GovernorInv
    <3>3. Current' = {}
      BY <3>2 DEF Current
    <3>4. Period \in Nat /\ quota' \in Nat
      BY <1>1, Numbers DEF GovernorAssumption
    <3>5. win' # NoWindow /\ win'.used = 0 /\ win' \in [age : 0 .. Period, used : Nat]
      BY <3>1, <3>4 DEF NoWindow
    <3> QED BY <3>2, <3>3, <3>4, <3>5, FS_EmptySet DEF Reserved
  <2> QED BY <2>1, <2>2, <2>3
<1>5. Reserving'
  BY <1>1, <1>4, LeaveReserving
<1>6. GovernorTypeOK'
  BY <1>1, <1>2, <1>3, <1>4 DEF GovernorInv, GovernorTypeOK, Stages
<1> QED BY <1>3, <1>4, <1>5, <1>6 DEF GovernorInv

LEMMA RateLimitedStep ==
    ASSUME GovernorInv, NEW c \in Call, NEW d \in Cooldowns, RateLimited(c, d)
    PROVE  GovernorInv'
<1>1. pc[c] = "sent" /\ d \in Nat /\ tries[c] \in Nat
  BY Numbers DEF RateLimited, GovernorAssumption
<1>2. cool' \in [Key -> Nat] /\ gap' \in [Key -> Gaps]
  BY <1>1 DEF RateLimited, GovernorInv, GovernorTypeOK
<1>3. d \div 3 \in Nat
  BY <1>1
<1>4. (d \div 3) * tries[c] \in Nat
  <2>1. \A a, b \in Nat : a * b \in Nat
    OBVIOUS
  <2> QED BY <1>1, <1>3, <2>1
<1>5. Fails(c) \/ SleepsFor(c, (d \div 3) * tries[c])
  BY DEF RateLimited
<1> QED BY <1>1, <1>2, <1>4, <1>5, FailsStep, SleepsStep

LEMMA TransientStep ==
    ASSUME GovernorInv, NEW c \in Call, Transient(c)
    PROVE  GovernorInv'
<1>1. pc[c] = "sent" /\ tries[c] \in Nat
  BY Numbers DEF Transient
<1>2. cool' \in [Key -> Nat] /\ gap' \in [Key -> Gaps]
  BY DEF Transient, GovernorInv, GovernorTypeOK
<1>3. Fails(c) \/ SleepsFor(c, tries[c])
  BY DEF Transient
<1> QED BY <1>1, <1>2, <1>3, FailsStep, SleepsStep

LEMMA RefusedStep ==
    ASSUME GovernorInv, NEW c \in Call, Refused(c)
    PROVE  GovernorInv'
<1>1. /\ pc[c] = "sent" /\ Fails(c)
      /\ cool' \in [Key -> Nat] /\ gap' \in [Key -> Gaps]
  BY DEF Refused, GovernorInv, GovernorTypeOK
<1> QED BY <1>1, FailsStep

LEMMA RetryStep ==
    ASSUME GovernorInv, NEW c \in Call, Retry(c)
    PROVE  GovernorInv'
<1>1. /\ pc[c] \in Holding /\ pc' = [pc EXCEPT ![c] = "sent"] /\ "sent" \in Holding
      /\ UNCHANGED <<active, ahead, slot, cool, gap, win, wait, tries, ticket, places, quota, peak, saves>>
  BY DEF Retry, keyVars, setVars, Holding
<1>2. pc' \in [Call -> Stages] /\ InLine' /\ Counted'
  BY <1>1, StaysInside
<1>3. Reserved' /\ Reserving'
  BY <1>1, SameReserved, StaysReserving
<1>4. GovernorTypeOK'
  BY <1>1, <1>2 DEF GovernorInv, GovernorTypeOK, Stages
<1> QED BY <1>2, <1>3, <1>4 DEF GovernorInv

LEMMA TickStep ==
    ASSUME GovernorInv, Tick
    PROVE  GovernorInv'
<1>1. UNCHANGED <<active, ahead, gap, pc, tries, ticket, places, quota, peak, saves>>
  BY DEF Tick, setVars
<1>2. places' <= peak' /\ peak <= peak' /\ peak' \in Places
  BY <1>1, Numbers DEF GovernorInv, GovernorTypeOK, Counted
<1>3. pc' \in [Call -> Stages] /\ InLine' /\ Counted'
  BY <1>1, <1>2, NobodyMoves
<1>4. /\ wait' \in [Call -> Nat] /\ slot' \in [Key -> Nat] /\ cool' \in [Key -> Nat]
  BY Numbers DEF Tick, Less
<1>5. Reserved' /\ win' \in [age : 0 .. Period, used : Nat] \cup {NoWindow}
  <2>1. CASE win = NoWindow
    <3>1. UNCHANGED <<win, ticket, quota>>
      BY <1>1, <2>1 DEF Tick
    <3> QED BY <3>1, SameReserved
  <2>2. CASE win # NoWindow
    <3>1. win \in [age : 0 .. Period, used : Nat] /\ Period \in Nat
      BY <2>2 DEF GovernorInv, GovernorTypeOK, GovernorAssumption
    <3>2. win' = [win EXCEPT !.age = IF @ < Period THEN @ + 1 ELSE @]
      BY <2>2 DEF Tick
    <3>3. win' \in [age : 0 .. Period, used : Nat] /\ win'.used = win.used
      BY <3>1, <3>2
    <3>4. win' # NoWindow
      BY <3>3 DEF NoWindow
    <3>5. Current' = Current
      BY <1>1 DEF Current
    <3> QED BY <1>1, <2>2, <3>3, <3>4, <3>5 DEF GovernorInv, Reserved
  <2> QED BY <2>1, <2>2
<1>6. Reserving'
  BY <1>1 DEF GovernorInv, Reserving
<1>7. GovernorTypeOK'
  BY <1>1, <1>3, <1>4, <1>5 DEF GovernorInv, GovernorTypeOK, Stages
<1> QED BY <1>3, <1>5, <1>6, <1>7 DEF GovernorInv

-----------------------------------------------------------------------------
LEMMA InitInv == Init => GovernorInv
<1> SUFFICES ASSUME Init PROVE GovernorInv
  OBVIOUS
<1> USE DEF Init
<1>3. GovernorTypeOK
  BY DEF GovernorTypeOK, GovernorAssumption
<1>4. \A k \in Key : Inside(k) = {}
  BY DEF Inside, Holding, Prompt
<1>5. Counted
  <2>1. places \in Nat /\ peak = places
    BY <1>3 DEF GovernorTypeOK, GovernorAssumption
  <2>2. \A k \in Key : active[k] = 0 /\ Cardinality(Inside(k)) = 0
    BY <1>4, FS_EmptySet
  <2> QED BY <2>1, <2>2 DEF Counted
<1>6. InLine /\ Reserved /\ Reserving
  BY DEF InLine, Reserved, Reserving, Current
<1> QED BY <1>3, <1>5, <1>6 DEF GovernorInv

LEMMA NextInv == GovernorInv /\ [Next]_vars => GovernorInv'
<1> SUFFICES ASSUME GovernorInv, [Next]_vars PROVE GovernorInv'
  OBVIOUS
<1>1. ASSUME NEW c \in Call, Run(c) PROVE GovernorInv'
  BY <1>1, RunStep
<1>2. ASSUME NEW c \in Call, GoesOn(c) PROVE GovernorInv'
  BY <1>2, PaceStep, CheckCooldownStep, SendStep, RetryStep, AnsweredStep, RateLimitedStep,
     TransientStep, RefusedStep DEF GoesOn, Answer
<1>3. CASE SweepAll
  BY <1>3, SweepAllStep
<1>4. CASE Tick
  BY <1>4, TickStep
<1>5. ASSUME NEW m \in Places, NEW q \in Quotas, SaveSettings(m, q) PROVE GovernorInv'
  BY <1>5, SaveSettingsStep
<1>6. CASE UNCHANGED vars
  <2>1. UNCHANGED <<pc, active, ahead>> /\ places' <= peak' /\ peak <= peak' /\ peak' \in Places
    BY <1>6, Numbers DEF vars, GovernorInv, GovernorTypeOK, Counted
  <2>2. Reserved' /\ InLine' /\ Counted'
    BY <1>6, <2>1, NobodyMoves, SameReserved DEF vars
  <2>3. GovernorTypeOK' /\ Reserving'
    BY <1>6 DEF vars, GovernorInv, GovernorTypeOK, Reserving
  <2> QED BY <2>2, <2>3 DEF GovernorInv
<1> QED BY <1>1, <1>2, <1>3, <1>4, <1>5, <1>6 DEF Next

LEMMA AlwaysInv == GovernorSpec => []GovernorInv
  BY InitInv, NextInv, PTL DEF GovernorSpec

(* The counter of a key's places is the number of the calls that hold one, *)
(* and never more than there ever were: run(), _acquireSlot() and _pump()  *)
(* hand each place on once.                                                *)
THEOREM PlacesAreCounted == GovernorSpec => []PlacesCounted
<1>1. GovernorInv => PlacesCounted
  BY DEF GovernorInv, Counted, PlacesCounted
<1> QED BY <1>1, AlwaysInv, PTL

(* The requests of a period are the reservations made in it and not given  *)
(* back, and stay within the limit, for reserveRequestsBudget() and        *)
(* releaseRequestsBudget() whenever they are called.                       *)
THEOREM QuotaIsCounted == GovernorSpec => []QuotaCounted
<1>1. GovernorInv => QuotaCounted
  BY DEF GovernorInv, Reserved, QuotaCounted, Current
<1> QED BY <1>1, AlwaysInv, PTL
=============================================================================
