--------------------------- MODULE AccountProofs ---------------------------
(***************************************************************************)
(* Proofs about AccountLock and AccountStatus for any accounts and calls:  *)
(* the lock's types, that its map leaks nothing, that every step of it is  *)
(* a step of the abstract lock or changes nothing there, and what the      *)
(* sections that run in the lock make of an account's status.              *)
(***************************************************************************)
EXTENDS AccountStatus, TLAPS

-----------------------------------------------------------------------------
(* What the two sequence operators of the chain do to positions. *)
LEMMA AppendFacts ==
    ASSUME NEW S, NEW q \in Seq(S), NEW x \in S
    PROVE  /\ Append(q, x) \in Seq(S) /\ Len(Append(q, x)) = Len(q) + 1
           /\ \A i \in 1 .. Len(q) : Append(q, x)[i] = q[i]
           /\ Append(q, x)[Len(q) + 1] = x
  OBVIOUS

LEMMA TailFacts ==
    ASSUME NEW S, NEW q \in Seq(S), q # <<>>
    PROVE  /\ Len(q) \in Nat \ {0} /\ Head(q) = q[1]
           /\ Tail(q) \in Seq(S) /\ Len(Tail(q)) = Len(q) - 1
           /\ \A i \in 1 .. Len(q) - 1 : Tail(q)[i] = q[i + 1]
  OBVIOUS

LEMMA EmptyFacts ==
    ASSUME NEW S, NEW q \in Seq(S)
    PROVE  /\ q = <<>> <=> Len(q) = 0
           /\ Len(q) \in Nat
           /\ \A i \in 1 .. Len(q) : q[i] \in S
  OBVIOUS

-----------------------------------------------------------------------------
Active == {"queued", "expired", "inside"}

(* The steps of an object's line are the active calls chained on it, each  *)
(* once and in the order of the calls.                                     *)
LineSound ==
    \A s \in Call : \A i \in 1 .. Len(line[s]) :
        /\ on[line[s][i]] = s /\ AccountOf[line[s][i]] = AccountOf[s]
        /\ ticket[line[s][i]] \in Active
        /\ \A j \in 1 .. Len(line[s]) :
              /\ line[s][i] = line[s][j] => i = j
              /\ line[s][j] \in ahead[line[s][i]] => j < i
InLine ==
    \A c \in Call : ticket[c] \in Active =>
        \E i \in 1 .. Len(line[on[c]]) : line[on[c]][i] = c
Counted == \A s \in Call : waiting[s] = Len(line[s])

(* An object with a line is the one in the map, and the other way round.   *)
Mapped ==
    /\ \A s \in Call : line[s] # <<>> => chain[AccountOf[s]] = s
    /\ \A a \in Account : chain[a] # None =>
          line[chain[a]] # <<>> /\ AccountOf[chain[a]] = a

(* Only the head of a line is inside, and the flag says so. *)
HeadInside ==
    /\ \A c \in Call : ticket[c] = "inside" => MyTurn(c)
    /\ \A s \in Call : held[s] <=> \E c \in Call : ticket[c] = "inside" /\ on[c] = s

(* A caller has been told of a timeout exactly when its ticket expired     *)
(* before its turn.                                                        *)
Told ==
    \A c \in Call : /\ ticket[c] = "expired" => answer[c] = "timeout"
                    /\ answer[c] = "timeout" => ticket[c] \in {"expired", "over"}

(* Whoever was there before has asked about the same account. *)
AheadOld == \A c \in Call : \A d \in ahead[c] :
                ticket[d] # "new" /\ AccountOf[d] = AccountOf[c]

LockInv ==
    /\ LockTypeOK /\ AheadOld /\ LineSound /\ InLine /\ Counted /\ Mapped /\ HeadInside /\ Told

-----------------------------------------------------------------------------
LEMMA LockInvInit == LockInit => LockInv
<1> SUFFICES ASSUME LockInit PROVE LockInv
  OBVIOUS
<1> USE LockAssumption DEF LockAssumption, LockInit
<1>1. LockTypeOK
  BY DEF LockTypeOK, Ticket, Answer
<1>2. LineSound /\ InLine /\ Counted /\ Mapped /\ HeadInside /\ Told /\ AheadOld
  BY DEF AheadOld, LineSound, InLine, Counted, Mapped, HeadInside, Told, Active, MyTurn
<1> QED BY <1>1, <1>2 DEF LockInv

(* A call is chained at the end of the one line of its account. *)
LEMMA RequestKeepsInv ==
    ASSUME LockInv, NEW c \in Call, Request(c) PROVE LockInv'
<1> DEFINE s == ObjectFor(c)
<1> USE LockAssumption DEF LockAssumption
<1>1. /\ s \in Call /\ AccountOf[s] = AccountOf[c] /\ AccountOf[c] \in Account
      /\ chain[AccountOf[c]] = None => line[s] = <<>>
  BY DEF LockInv, LockTypeOK, Mapped, ObjectFor
<1>2. /\ ticket' = [ticket EXCEPT ![c] = "queued"]
      /\ chain' = [chain EXCEPT ![AccountOf[c]] = s]
      /\ on' = [on EXCEPT ![c] = s]
      /\ line' = [line EXCEPT ![s] = Append(@, c)]
      /\ waiting' = [waiting EXCEPT ![s] = @ + 1]
      /\ ahead' = [ahead EXCEPT ![c] =
            {d \in Call : AccountOf[d] = AccountOf[c] /\ ticket[d] = "queued"}]
      /\ ticket[c] = "new" /\ held' = held /\ answer' = answer
  BY DEF Request
<1> HIDE DEF s
<1>t. LockTypeOK
  BY DEF LockInv
<1>a. line[s] \in Seq(Call) /\ line'[s] = Append(line[s], c)
  BY <1>1, <1>2, <1>t DEF LockTypeOK
<1>b. /\ Append(line[s], c) \in Seq(Call) /\ Len(Append(line[s], c)) = Len(line[s]) + 1
      /\ \A i \in 1 .. Len(line[s]) : Append(line[s], c)[i] = line[s][i]
      /\ Append(line[s], c)[Len(line[s]) + 1] = c
  BY <1>a, AppendFacts
<1>c. /\ Len(line[s]) \in Nat /\ \A i \in 1 .. Len(line[s]) : line[s][i] \in Call
      /\ line'[s] # <<>>
  BY <1>a, <1>b, EmptyFacts
<1>3. LockTypeOK'
  <2>1. line' \in [Call -> Seq(Call)]
    BY <1>1, <1>2, <1>t, <1>b DEF LockTypeOK
  <2>2. ticket' \in [Call -> Ticket] /\ waiting' \in [Call -> Nat] /\ on' \in [Call -> Call]
    BY <1>1, <1>2, <1>t DEF LockTypeOK, Ticket
  <2>3. chain' \in [Account -> Call \cup {None}] /\ ahead' \in [Call -> SUBSET Call]
    BY <1>1, <1>2, <1>t DEF LockTypeOK
  <2> QED BY <2>1, <2>2, <2>3, <1>2, <1>t DEF LockTypeOK
<1>4. /\ Len(line'[s]) = Len(line[s]) + 1
      /\ \A i \in 1 .. Len(line[s]) : line'[s][i] = line[s][i] /\ line[s][i] \in Call
      /\ line'[s][Len(line[s]) + 1] = c
      /\ \A t \in Call : t # s => line'[t] = line[t]
      /\ line'[s] # <<>>
  BY <1>a, <1>b, <1>c, <1>1, <1>2, <1>t DEF LockTypeOK
<1>5. \A t \in Call : \A i \in 1 .. Len(line[t]) :
          line[t][i] # c /\ line[t][i] \in Call /\ c \notin ahead[line[t][i]]
  <2> SUFFICES ASSUME NEW t \in Call, NEW i \in 1 .. Len(line[t])
               PROVE  line[t][i] # c /\ line[t][i] \in Call /\ c \notin ahead[line[t][i]]
    OBVIOUS
  <2>1. line[t] \in Seq(Call)
    BY <1>t DEF LockTypeOK
  <2>2. line[t][i] \in Call
    BY <2>1, EmptyFacts
  <2>3. ticket[line[t][i]] \in Active
    BY DEF LockInv, LineSound
  <2> QED BY <2>2, <2>3, <1>2 DEF LockInv, AheadOld, Active
<1>6. LineSound'
  <2> SUFFICES ASSUME NEW t \in Call, NEW i \in 1 .. Len(line'[t])
               PROVE  /\ on'[line'[t][i]] = t /\ AccountOf[line'[t][i]] = AccountOf[t]
                      /\ ticket'[line'[t][i]] \in Active
                      /\ \A j \in 1 .. Len(line'[t]) :
                            /\ line'[t][i] = line'[t][j] => i = j
                            /\ line'[t][j] \in ahead'[line'[t][i]] => j < i
    BY DEF LineSound
  <2>1. CASE t # s
    <3>1. line'[t] = line[t] /\ line[t][i] \in Call /\ line[t][i] # c
      BY <2>1, <1>4, <1>5
    <3>2. /\ on[line[t][i]] = t /\ AccountOf[line[t][i]] = AccountOf[t]
          /\ ticket[line[t][i]] \in Active
          /\ \A j \in 1 .. Len(line[t]) :
                /\ line[t][i] = line[t][j] => i = j
                /\ line[t][j] \in ahead[line[t][i]] => j < i
      BY <3>1 DEF LockInv, LineSound
    <3> QED BY <3>1, <3>2, <1>2, <1>t DEF LockTypeOK
  <2>2. CASE t = s /\ i = Len(line[s]) + 1
    <3>1. line'[t][i] = c
      BY <2>2, <1>4
    <3>2. \A j \in 1 .. Len(line'[t]) : line'[t][j] = c => j = i
      BY <2>2, <1>4, <1>5
    <3>3. c \notin ahead'[c]
      BY <1>2, <1>t DEF LockTypeOK
    <3>4. \A j \in 1 .. Len(line'[t]) : line'[t][j] \in ahead'[c] => j < i
      BY <2>2, <3>1, <3>3, <1>4
    <3> QED BY <3>1, <3>2, <3>4, <2>2, <1>1, <1>2, <1>t DEF LockTypeOK, Active
  <2>3. CASE t = s /\ i \in 1 .. Len(line[s])
    <3>1. line'[t][i] = line[s][i] /\ line[s][i] # c /\ line[s][i] \in Call
      BY <2>3, <1>4, <1>5
    <3>2. /\ on[line[s][i]] = s /\ AccountOf[line[s][i]] = AccountOf[s]
          /\ ticket[line[s][i]] \in Active
          /\ \A j \in 1 .. Len(line[s]) :
                /\ line[s][i] = line[s][j] => i = j
                /\ line[s][j] \in ahead[line[s][i]] => j < i
      BY <2>3, <1>1 DEF LockInv, LineSound
    <3>3. c \notin ahead[line[s][i]]
      BY <2>3, <1>1, <1>5
    <3>4. /\ on'[line'[t][i]] = t /\ ticket'[line'[t][i]] = ticket[line[s][i]]
          /\ ahead'[line'[t][i]] = ahead[line[s][i]]
      BY <3>1, <3>2, <2>3, <1>2, <1>t DEF LockTypeOK
    <3>5. ASSUME NEW j \in 1 .. Len(line'[t])
          PROVE  /\ line'[t][i] = line'[t][j] => i = j
                 /\ line'[t][j] \in ahead[line[s][i]] => j < i
      <4>1. CASE j = Len(line[s]) + 1
        BY <4>1, <3>1, <3>3, <2>3, <1>4
      <4>2. CASE j \in 1 .. Len(line[s])
        BY <4>2, <3>1, <3>2, <2>3, <1>4
      <4> QED BY <4>1, <4>2, <2>3, <1>4, <1>c
    <3> QED BY <3>1, <3>2, <3>4, <3>5, <2>3
  <2> QED BY <2>1, <2>2, <2>3, <1>4, <1>c
<1>7. InLine'
  <2> SUFFICES ASSUME NEW d \in Call, ticket'[d] \in Active
               PROVE  \E i \in 1 .. Len(line'[on'[d]]) : line'[on'[d]][i] = d
    BY DEF InLine
  <2>1. CASE d = c
    BY <2>1, <1>1, <1>2, <1>4, <1>c, <1>t DEF LockTypeOK
  <2>2. CASE d # c
    <3>1. on'[d] = on[d] /\ on[d] \in Call /\ ticket[d] \in Active
      BY <2>2, <1>2, <1>t DEF LockTypeOK
    <3>2. PICK i \in 1 .. Len(line[on[d]]) : line[on[d]][i] = d
      BY <3>1 DEF LockInv, InLine
    <3>3. CASE on[d] = s
      BY <3>1, <3>2, <3>3, <1>4, <1>c
    <3>4. CASE on[d] # s
      BY <3>1, <3>2, <3>4, <1>4
    <3> QED BY <3>3, <3>4
  <2> QED BY <2>1, <2>2
<1>8. Counted'
  BY <1>1, <1>2, <1>4, <1>t DEF LockInv, LockTypeOK, Counted
<1>9. Mapped'
  <2>1. ASSUME NEW t \in Call, line'[t] # <<>> PROVE chain'[AccountOf[t]] = t
    <3>1. CASE t = s
      BY <3>1, <1>1, <1>2, <1>t DEF LockTypeOK
    <3>2. CASE t # s
      <4>1. line[t] # <<>> /\ chain[AccountOf[t]] = t /\ t # None
        BY <3>2, <2>1, <1>4 DEF LockInv, Mapped
      <4>2. AccountOf[t] # AccountOf[s]
        BY <4>1, <3>2, <1>1 DEF ObjectFor, s
      <4> QED BY <4>1, <4>2, <1>1, <1>2, <1>t DEF LockTypeOK
    <3> QED BY <3>1, <3>2
  <2>2. ASSUME NEW a \in Account, chain'[a] # None
        PROVE  line'[chain'[a]] # <<>> /\ AccountOf[chain'[a]] = a
    <3>1. CASE a = AccountOf[c]
      BY <3>1, <1>1, <1>2, <1>4, <1>t DEF LockTypeOK
    <3>2. CASE a # AccountOf[c]
      <4>1. chain'[a] = chain[a] /\ chain[a] \in Call /\ line[chain[a]] # <<>> /\ AccountOf[chain[a]] = a
        BY <3>2, <2>2, <1>1, <1>2, <1>t DEF LockInv, LockTypeOK, Mapped
      <4> QED BY <4>1, <3>2, <1>1, <1>4
    <3> QED BY <3>1, <3>2
  <2> QED BY <2>1, <2>2 DEF Mapped
<1>10. HeadInside'
  <2>1. ASSUME NEW d \in Call, ticket'[d] = "inside" PROVE MyTurn(d)'
    <3>1. d # c /\ ticket[d] = "inside" /\ on'[d] = on[d] /\ on[d] \in Call
      BY <2>1, <1>2, <1>t DEF LockTypeOK
    <3>2. line[on[d]] # <<>> /\ Head(line[on[d]]) = d
      BY <3>1 DEF LockInv, HeadInside, MyTurn
    <3>3. CASE on[d] # s
      BY <3>1, <3>2, <3>3, <1>4 DEF MyTurn
    <3>4. CASE on[d] = s
      <4>1. Len(line[s]) \in Nat \ {0} /\ line[s][1] = d
        BY <3>2, <3>4, <1>a, TailFacts
      <4>2. line'[s][1] = d
        BY <4>1, <1>4
      <4>3. line'[s] \in Seq(Call) /\ line'[s] # <<>>
        BY <1>a, <1>b, <1>4
      <4>4. Head(line'[s]) = line'[s][1]
        BY <4>3, TailFacts
      <4> QED BY <4>2, <4>3, <4>4, <3>1, <3>4 DEF MyTurn
    <3> QED BY <3>3, <3>4
  <2>2. \A t \in Call : held'[t] <=> \E d \in Call : ticket'[d] = "inside" /\ on'[d] = t
    BY <1>2, <1>t DEF LockInv, HeadInside, LockTypeOK
  <2> QED BY <2>1, <2>2 DEF HeadInside
<1>11. Told' /\ AheadOld'
  BY <1>2, <1>t DEF LockInv, LockTypeOK, Told, AheadOld
<1> QED
  BY <1>3, <1>6, <1>7, <1>8, <1>9, <1>10, <1>11 DEF LockInv
(* The head of a line goes, and the map's entry with it when it was alone. *)
LEMMA SettleKeepsInv ==
    ASSUME LockInv, NEW c \in Call, MyTurn(c), Settle(c),
           ticket[c] \in {"expired", "inside"}, ticket' = [ticket EXCEPT ![c] = "over"],
           held' = [held EXCEPT ![on[c]] = FALSE],
           answer' \in [Call -> Answer],
           \A d \in Call : d # c => answer'[d] = answer[d],
           UNCHANGED <<on, ahead>>
    PROVE  LockInv'
<1> DEFINE s == on[c]
           q == line[s]
<1> USE LockAssumption DEF LockAssumption
<1>t. LockTypeOK
  BY DEF LockInv
<1>1. s \in Call /\ q \in Seq(Call) /\ q # <<>> /\ Head(q) = c
  BY <1>t DEF LockTypeOK, MyTurn
<1>2. /\ line' = [line EXCEPT ![s] = Tail(q)]
      /\ waiting' = [waiting EXCEPT ![s] = waiting[s] - 1]
      /\ chain' = IF waiting[s] = 1 /\ chain[AccountOf[c]] = s
                  THEN [chain EXCEPT ![AccountOf[c]] = None] ELSE chain
      /\ held' = [held EXCEPT ![s] = FALSE]
  BY DEF Settle
<1>3. /\ Len(q) \in Nat \ {0} /\ q[1] = c
      /\ Tail(q) \in Seq(Call) /\ Len(Tail(q)) = Len(q) - 1
      /\ \A i \in 1 .. Len(q) - 1 : Tail(q)[i] = q[i + 1]
      /\ Tail(q) = <<>> <=> Len(q) = 1
  <2> HIDE DEF s, q
  <2>1. /\ Len(q) \in Nat \ {0} /\ Head(q) = q[1]
        /\ Tail(q) \in Seq(Call) /\ Len(Tail(q)) = Len(q) - 1
        /\ \A i \in 1 .. Len(q) - 1 : Tail(q)[i] = q[i + 1]
    BY <1>1, TailFacts
  <2>2. Tail(q) = <<>> <=> Len(Tail(q)) = 0
    BY <2>1, EmptyFacts
  <2> QED BY <1>1, <2>1, <2>2
<1>4. /\ waiting[s] = Len(q) /\ chain[AccountOf[s]] = s
      /\ AccountOf[c] = AccountOf[s] /\ AccountOf[c] \in Account
  BY <1>1, <1>3 DEF LockInv, Counted, Mapped, LineSound
<1>o. on[c] = s /\ on' = on /\ ahead' = ahead
  OBVIOUS
<1>p. line[s] = q
  OBVIOUS
<1> HIDE DEF s, q
<1>5. /\ line'[s] = Tail(q) /\ line[s] = q
      /\ \A t \in Call : t # s => line'[t] = line[t]
  BY <1>1, <1>2, <1>t, <1>p DEF LockTypeOK
<1>6. \A d \in Call : ticket'[d] = IF d = c THEN "over" ELSE ticket[d]
  BY <1>t DEF LockTypeOK
<1>7. LockTypeOK'
  <2>1. line' \in [Call -> Seq(Call)] /\ waiting' \in [Call -> Nat] /\ held' \in [Call -> BOOLEAN]
    <3>1. waiting[s] - 1 \in Nat
      BY <1>3, <1>4
    <3>2. waiting' \in [Call -> Nat]
      BY <3>1, <1>1, <1>2, <1>t DEF LockTypeOK
    <3> QED BY <3>2, <1>1, <1>2, <1>3, <1>t DEF LockTypeOK
  <2>2. chain' \in [Account -> Call \cup {None}] /\ ticket' \in [Call -> Ticket]
    BY <1>2, <1>4, <1>t DEF LockTypeOK, Ticket
  <2> QED BY <2>1, <2>2, <1>t DEF LockTypeOK
<1>8. \A t \in Call : \A i \in 1 .. Len(line[t]) : line[t][i] \in Call
  BY <1>t, EmptyFacts DEF LockTypeOK
<1>9. LineSound'
  <2> SUFFICES ASSUME NEW t \in Call, NEW i \in 1 .. Len(line'[t])
               PROVE  /\ on[line'[t][i]] = t /\ AccountOf[line'[t][i]] = AccountOf[t]
                      /\ ticket'[line'[t][i]] \in Active
                      /\ \A j \in 1 .. Len(line'[t]) :
                            /\ line'[t][i] = line'[t][j] => i = j
                            /\ line'[t][j] \in ahead[line'[t][i]] => j < i
    BY <1>o DEF LineSound
  <2>1. CASE t # s
    <3>1. line'[t] = line[t] /\ line[t][i] \in Call
      BY <2>1, <1>5, <1>8
    <3>2. /\ on[line[t][i]] = t /\ AccountOf[line[t][i]] = AccountOf[t]
          /\ ticket[line[t][i]] \in Active
          /\ \A j \in 1 .. Len(line[t]) :
                /\ line[t][i] = line[t][j] => i = j
                /\ line[t][j] \in ahead[line[t][i]] => j < i
      BY <3>1 DEF LockInv, LineSound
    <3>3. line[t][i] # c
      BY <3>2, <2>1, <1>o
    <3> QED BY <3>1, <3>2, <3>3, <1>6
  <2>2. CASE t = s
    <3>1. i + 1 \in 1 .. Len(line[s]) /\ line'[t][i] = line[s][i + 1] /\ line[s][i + 1] \in Call
      BY <2>2, <1>1, <1>3, <1>5, <1>8
    <3>2. /\ on[line[s][i + 1]] = s /\ AccountOf[line[s][i + 1]] = AccountOf[s]
          /\ ticket[line[s][i + 1]] \in Active
          /\ \A j \in 1 .. Len(line[s]) :
                /\ line[s][i + 1] = line[s][j] => i + 1 = j
                /\ line[s][j] \in ahead[line[s][i + 1]] => j < i + 1
      BY <3>1, <1>1 DEF LockInv, LineSound
    <3>3. line[s][i + 1] # c
      <4>1. 1 \in 1 .. Len(line[s]) /\ line[s][1] = c
        BY <1>3, <1>5
      <4> QED BY <4>1, <3>2, <3>1
    <3>4. ASSUME NEW j \in 1 .. Len(line'[t])
          PROVE  /\ line'[t][i] = line'[t][j] => i = j
                 /\ line'[t][j] \in ahead[line'[t][i]] => j < i
      <4>1. j + 1 \in 1 .. Len(line[s]) /\ line'[t][j] = line[s][j + 1]
        BY <2>2, <1>3, <1>5
      <4> QED BY <4>1, <3>1, <3>2
    <3> QED BY <3>1, <3>2, <3>3, <3>4, <2>2, <1>6
  <2> QED BY <2>1, <2>2
<1>10. InLine'
  <2> SUFFICES ASSUME NEW d \in Call, ticket'[d] \in Active
               PROVE  \E i \in 1 .. Len(line'[on[d]]) : line'[on[d]][i] = d
    BY <1>o DEF InLine
  <2>1. d # c /\ ticket[d] \in Active /\ on[d] \in Call
    BY <1>6, <1>t DEF Active, LockTypeOK
  <2>2. PICK i \in 1 .. Len(line[on[d]]) : line[on[d]][i] = d
    BY <2>1 DEF LockInv, InLine
  <2>3. CASE on[d] # s
    BY <2>1, <2>2, <2>3, <1>5
  <2>4. CASE on[d] = s
    <3>1. i # 1 /\ i - 1 \in 1 .. Len(line'[s])
      BY <2>1, <2>2, <2>4, <1>3, <1>5
    <3>2. line'[s][i - 1] = d
      BY <3>1, <2>2, <2>4, <1>3, <1>5
    <3> QED BY <3>1, <3>2, <2>4
  <2> QED BY <2>3, <2>4
<1>11. Counted'
  BY <1>1, <1>2, <1>3, <1>4, <1>5, <1>t DEF LockInv, LockTypeOK, Counted
<1>12. Mapped'
  <2>1. ASSUME NEW t \in Call, line'[t] # <<>> PROVE chain'[AccountOf[t]] = t
    <3>1. CASE t = s
      BY <3>1, <2>1, <1>2, <1>3, <1>4, <1>5
    <3>2. CASE t # s
      <4>1. line[t] # <<>> /\ chain[AccountOf[t]] = t
        BY <3>2, <2>1, <1>5 DEF LockInv, Mapped
      <4>2. AccountOf[t] # AccountOf[s]
        BY <4>1, <3>2, <1>4
      <4> QED BY <4>1, <4>2, <1>2, <1>4, <1>t DEF LockTypeOK
    <3> QED BY <3>1, <3>2
  <2>2. ASSUME NEW a \in Account, chain'[a] # None
        PROVE  line'[chain'[a]] # <<>> /\ AccountOf[chain'[a]] = a
    <3>1. chain'[a] = chain[a] /\ chain[a] \in Call /\ line[chain[a]] # <<>> /\ AccountOf[chain[a]] = a
      BY <2>2, <1>2, <1>4, <1>t DEF LockInv, LockTypeOK, Mapped
    <3>2. CASE chain[a] # s
      BY <3>1, <3>2, <1>5
    <3>3. CASE chain[a] = s
      <4>1. a = AccountOf[c] /\ ~(waiting[s] = 1)
        BY <3>1, <3>3, <2>2, <1>2, <1>4, <1>t DEF LockTypeOK
      <4> QED BY <4>1, <3>1, <3>3, <1>3, <1>4, <1>5
    <3> QED BY <3>2, <3>3
  <2> QED BY <2>1, <2>2 DEF Mapped
<1>13. \A d \in Call : ticket[d] = "inside" /\ on[d] = s => d = c
  BY <1>1, <1>p DEF LockInv, HeadInside, MyTurn
<1>14. HeadInside'
  <2>1. ASSUME NEW d \in Call, ticket'[d] = "inside" PROVE MyTurn(d)'
    <3>1. ticket[d] = "inside" /\ d # c /\ on[d] # s /\ on[d] \in Call
      BY <2>1, <1>6, <1>13, <1>t DEF LockTypeOK
    <3>2. line'[on[d]] = line[on[d]]
      BY <3>1, <1>5
    <3> QED BY <3>1, <3>2, <1>o DEF LockInv, HeadInside, MyTurn
  <2>2. ASSUME NEW t \in Call
        PROVE  held'[t] <=> \E d \in Call : ticket'[d] = "inside" /\ on'[d] = t
    <3>1. CASE t = s
      BY <3>1, <1>1, <1>2, <1>6, <1>13, <1>o, <1>t DEF LockTypeOK
    <3>2. CASE t # s
      <4>1. held'[t] = held[t]
        BY <3>2, <1>1, <1>2, <1>t DEF LockTypeOK
      <4>2. held[t] <=> \E d \in Call : ticket[d] = "inside" /\ on[d] = t
        BY DEF LockInv, HeadInside
      <4> QED BY <4>1, <4>2, <3>2, <1>6, <1>o
    <3> QED BY <3>1, <3>2
  <2> QED BY <2>1, <2>2 DEF HeadInside
<1>15. Told' /\ AheadOld'
  BY <1>6, <1>o, <1>t DEF LockInv, LockTypeOK, Told, AheadOld
<1> QED
  BY <1>7, <1>9, <1>10, <1>11, <1>12, <1>14, <1>15 DEF LockInv

(* A head in time goes inside. *)
LEMMA EnterKeepsInv ==
    ASSUME LockInv, NEW c \in Call, Enter(c) PROVE LockInv'
<1> USE LockAssumption DEF LockAssumption
<1>t. LockTypeOK
  BY DEF LockInv
<1>1. /\ UNCHANGED <<chain, line, waiting, on, answer, ahead>>
      /\ held' = [held EXCEPT ![on[c]] = TRUE]
      /\ MyTurn(c) /\ ticket[c] = "queued" /\ on[c] \in Call
      /\ \A d \in Call : ticket'[d] = IF d = c THEN "inside" ELSE ticket[d]
  BY <1>t DEF Enter, LockTypeOK
<1>2. LockTypeOK'
  BY <1>1, <1>t DEF LockTypeOK, Enter, Ticket
<1>3. \A t \in Call : \A i \in 1 .. Len(line[t]) : line[t][i] \in Call
  BY <1>t, EmptyFacts DEF LockTypeOK
<1>4. LineSound'
  BY <1>1, <1>3 DEF LockInv, LineSound, Active
<1>5. InLine' /\ Counted' /\ Mapped'
  BY <1>1 DEF LockInv, InLine, Counted, Mapped, Active
<1>6. HeadInside'
  <2>1. \A d \in Call : ticket'[d] = "inside" => MyTurn(d)'
    BY <1>1 DEF LockInv, HeadInside, MyTurn
  <2>2. ASSUME NEW t \in Call
        PROVE  held'[t] <=> \E d \in Call : ticket'[d] = "inside" /\ on'[d] = t
    <3>1. CASE t = on[c]
      BY <3>1, <1>1, <1>t DEF LockTypeOK
    <3>2. CASE t # on[c]
      BY <3>2, <1>1, <1>t DEF LockTypeOK, LockInv, HeadInside
    <3> QED BY <3>1, <3>2
  <2> QED BY <2>1, <2>2 DEF HeadInside
<1>7. Told' /\ AheadOld'
  BY <1>1, <1>t DEF LockInv, LockTypeOK, Told, AheadOld
<1> QED
  BY <1>2, <1>4, <1>5, <1>6, <1>7 DEF LockInv

(* A ticket that runs out stays in its line. *)
LEMMA ExpireKeepsInv ==
    ASSUME LockInv, NEW c \in Call, Expire(c) PROVE LockInv'
<1> USE LockAssumption DEF LockAssumption
<1>t. LockTypeOK
  BY DEF LockInv
<1>1. /\ UNCHANGED <<chain, line, waiting, held, on, ahead>>
      /\ ticket[c] = "queued"
      /\ \A d \in Call : /\ ticket'[d] = IF d = c THEN "expired" ELSE ticket[d]
                         /\ answer'[d] = IF d = c THEN "timeout" ELSE answer[d]
  BY <1>t DEF Expire, LockTypeOK
<1>2. LockTypeOK'
  BY <1>1, <1>t DEF LockTypeOK, Expire, Ticket, Answer
<1>3. \A t \in Call : \A i \in 1 .. Len(line[t]) : line[t][i] \in Call
  BY <1>t, EmptyFacts DEF LockTypeOK
<1>4. LineSound'
  BY <1>1, <1>3 DEF LockInv, LineSound, Active
<1>5. InLine' /\ Counted' /\ Mapped' /\ HeadInside'
  BY <1>1 DEF LockInv, InLine, Counted, Mapped, HeadInside, MyTurn, Active
<1>6. Told' /\ AheadOld'
  BY <1>1, <1>t DEF LockInv, LockTypeOK, Told, AheadOld
<1> QED
  BY <1>2, <1>4, <1>5, <1>6 DEF LockInv

LEMMA SkipKeepsInv ==
    ASSUME LockInv, NEW c \in Call, Skip(c) PROVE LockInv'
<1>1. /\ MyTurn(c) /\ Settle(c) /\ ticket[c] = "expired"
      /\ ticket' = [ticket EXCEPT ![c] = "over"] /\ UNCHANGED <<held, on, ahead, answer>>
  BY DEF Skip
<1>2. LockTypeOK /\ on[c] \in Call
  BY DEF LockInv, LockTypeOK
<1>3. held[on[c]] = FALSE
  <2>1. \A d \in Call : ticket[d] = "inside" => on[d] # on[c]
    BY <1>1 DEF LockInv, HeadInside, MyTurn
  <2>2. ~held[on[c]]
    BY <1>2, <2>1 DEF LockInv, HeadInside
  <2> QED BY <1>2, <2>2 DEF LockTypeOK
<1>4. held' = [held EXCEPT ![on[c]] = FALSE]
  BY <1>1, <1>2, <1>3 DEF LockTypeOK
<1> QED BY <1>1, <1>2, <1>4, SettleKeepsInv DEF LockTypeOK

LEMMA LeaveKeepsInv ==
    ASSUME LockInv, NEW c \in Call, NEW ok \in BOOLEAN, Leave(c, ok) PROVE LockInv'
<1>1. /\ Settle(c) /\ ticket[c] = "inside" /\ UNCHANGED <<on, ahead>>
      /\ ticket' = [ticket EXCEPT ![c] = "over"]
      /\ held' = [held EXCEPT ![on[c]] = FALSE]
      /\ answer' = [answer EXCEPT ![c] = IF ok THEN "value" ELSE "error"]
  BY DEF Leave
<1>2. MyTurn(c) /\ LockTypeOK
  BY <1>1 DEF LockInv, HeadInside
<1>3. /\ answer' \in [Call -> Answer]
      /\ \A d \in Call : d # c => answer'[d] = answer[d]
  BY <1>1, <1>2 DEF LockTypeOK, Answer
<1> QED BY <1>1, <1>2, <1>3, SettleKeepsInv

LEMMA LockInvInductive == LockInv /\ [LockNext]_lockVars => LockInv'
<1> SUFFICES ASSUME LockInv, [LockNext]_lockVars PROVE LockInv'
  OBVIOUS
<1>1. ASSUME NEW c \in Call, Request(c) PROVE LockInv'
  BY <1>1, RequestKeepsInv
<1>2. ASSUME NEW c \in Call, Enter(c) PROVE LockInv'
  BY <1>2, EnterKeepsInv
<1>3. ASSUME NEW c \in Call, Skip(c) PROVE LockInv'
  BY <1>3, SkipKeepsInv
<1>4. ASSUME NEW c \in Call, Expire(c) PROVE LockInv'
  BY <1>4, ExpireKeepsInv
<1>5. ASSUME NEW c \in Call, NEW ok \in BOOLEAN, Leave(c, ok) PROVE LockInv'
  BY <1>5, LeaveKeepsInv
<1>6. CASE UNCHANGED lockVars
  BY <1>6 DEF lockVars, LockInv, LockTypeOK, AheadOld, LineSound, InLine, Counted, Mapped,
              HeadInside, Told, MyTurn
<1> QED
  BY <1>1, <1>2, <1>3, <1>4, <1>5, <1>6 DEF LockNext

LEMMA LockInvAlways == LockSafety => []LockInv
  BY LockInvInit, LockInvInductive, PTL DEF LockSafety

-----------------------------------------------------------------------------
(* Active calls about one account are chained on one object, the one in    *)
(* the map.                                                                *)
LEMMA OneLine ==
    ASSUME LockInv, NEW c \in Call, ticket[c] \in Active
    PROVE  /\ chain[AccountOf[c]] = on[c] /\ on[c] \in Call /\ AccountOf[c] \in Account
           /\ AccountOf[on[c]] = AccountOf[c]
<1>1. LockTypeOK /\ on[c] \in Call /\ line[on[c]] \in Seq(Call)
  BY DEF LockInv, LockTypeOK
<1>2. PICK i \in 1 .. Len(line[on[c]]) : line[on[c]][i] = c
  BY DEF LockInv, InLine
<1>3. AccountOf[on[c]] = AccountOf[c]
  BY <1>1, <1>2 DEF LockInv, LineSound
<1>4. line[on[c]] # <<>>
  BY <1>1, <1>2, EmptyFacts
<1> QED BY <1>1, <1>3, <1>4, LockAssumption DEF LockInv, Mapped, LockAssumption

(* In every reachable state of withAccountStateLock the chains, counters,  *)
(* flags and tickets are of their types; the counter never goes below 0.   *)
THEOREM LockTypeCorrect == LockSafety => []LockTypeOK
<1>1. LockInv => LockTypeOK
  BY DEF LockInv
<1> QED BY <1>1, LockInvAlways, PTL

(* No entry without a chained call, none missing, and the flag right: for  *)
(* any accounts, calls and timeouts.                                       *)
THEOREM LockNoLeak == LockSafety => []NoLeak
<1>1. ASSUME LockInv PROVE NoLeak
  <2> SUFFICES ASSUME NEW a \in Account
               PROVE  /\ chain[a] = None <=> Chained(a) = {}
                      /\ chain[a] # None =>
                            (held[chain[a]] <=> \E c \in Chained(a) : ticket[c] = "inside")
    BY DEF NoLeak
  <2> USE <1>1, LockAssumption DEF LockAssumption
  <2>1. ASSUME NEW c \in Chained(a) PROVE chain[a] = on[c] /\ chain[a] # None
    <3>1. c \in Call /\ AccountOf[c] = a /\ ticket[c] \in Active
      BY DEF Chained, Active
    <3> QED BY <3>1, OneLine
  <2>2. ASSUME chain[a] # None PROVE Chained(a) # {}
    <3>1. chain[a] \in Call /\ line[chain[a]] # <<>> /\ AccountOf[chain[a]] = a
      BY <2>2 DEF LockInv, LockTypeOK, Mapped
    <3>2. line[chain[a]] \in Seq(Call)
      BY <3>1 DEF LockInv, LockTypeOK
    <3>3. Len(line[chain[a]]) \in Nat \ {0}
      BY <3>1, <3>2, TailFacts
    <3>4. 1 \in 1 .. Len(line[chain[a]]) /\ line[chain[a]][1] \in Call
      BY <3>2, <3>3, EmptyFacts
    <3>5. line[chain[a]][1] \in Chained(a)
      BY <3>1, <3>4 DEF LockInv, LineSound, Chained, Active
    <3> QED BY <3>5
  <2>3. ASSUME chain[a] # None
        PROVE  held[chain[a]] <=> \E c \in Chained(a) : ticket[c] = "inside"
    <3>1. chain[a] \in Call /\ AccountOf[chain[a]] = a
      BY <2>3 DEF LockInv, LockTypeOK, Mapped
    <3>2. held[chain[a]] <=> \E c \in Call : ticket[c] = "inside" /\ on[c] = chain[a]
      BY <3>1 DEF LockInv, HeadInside
    <3>3. ASSUME NEW c \in Call, ticket[c] = "inside", on[c] = chain[a] PROVE c \in Chained(a)
      BY <3>1, <3>3, OneLine DEF Active, Chained
    <3>4. ASSUME NEW c \in Chained(a), ticket[c] = "inside" PROVE c \in Call /\ on[c] = chain[a]
      BY <3>4, <2>1 DEF Chained
    <3> QED BY <3>2, <3>3, <3>4
  <2> QED BY <2>1, <2>2, <2>3
<1> QED BY <1>1, LockInvAlways, PTL

-----------------------------------------------------------------------------
(* The three facts about who is where that the abstract steps ask for. *)
LEMMA WhereIs ==
    ASSUME LockInv, NEW d \in Call
    PROVE  /\ Where(d) = "waiting" <=> ticket[d] = "queued"
           /\ Where(d) = "inside" <=> ticket[d] = "inside"
           /\ ticket[d] = "new" => Where(d) = "new"
           /\ ticket[d] = "expired" => Where(d) = "gaveUp"
  BY DEF LockInv, LockTypeOK, Told, Where, Ticket

LEMMA MyTurnIsFirst ==
    ASSUME LockInv, NEW c \in Call, MyTurn(c), ticket[c] = "queued"
    PROVE  /\ \A d \in ahead[c] : ticket[d] # "queued"
           /\ \A d \in Call : AccountOf[d] = AccountOf[c] => ticket[d] # "inside"
<1>1. on[c] \in Call /\ line[on[c]] \in Seq(Call) /\ ahead[c] \subseteq Call
  BY DEF LockInv, LockTypeOK
<1>2. Len(line[on[c]]) \in Nat \ {0} /\ line[on[c]][1] = c
  BY <1>1, TailFacts DEF MyTurn
<1>3. chain[AccountOf[c]] = on[c]
  BY OneLine DEF Active
<1>4. ASSUME NEW d \in ahead[c], ticket[d] = "queued" PROVE FALSE
  <2>1. d \in Call /\ AccountOf[d] = AccountOf[c]
    BY <1>1 DEF LockInv, AheadOld
  <2>2. on[d] = on[c]
    BY <1>3, <1>4, <2>1, OneLine DEF Active
  <2>3. PICK j \in 1 .. Len(line[on[c]]) : line[on[c]][j] = d
    BY <1>4, <2>1, <2>2 DEF LockInv, InLine, Active
  <2>4. j < 1
    BY <1>1, <1>2, <2>3 DEF LockInv, LineSound
  <2> QED BY <2>3, <2>4, <1>2
<1>5. ASSUME NEW d \in Call, AccountOf[d] = AccountOf[c], ticket[d] = "inside" PROVE FALSE
  <2>1. on[d] = on[c]
    BY <1>3, <1>5, OneLine DEF Active
  <2>2. Head(line[on[c]]) = d
    BY <1>5, <2>1 DEF LockInv, HeadInside, MyTurn
  <2> QED BY <2>2, <1>5 DEF MyTurn
<1> QED BY <1>4, <1>5

(* Every step of the lock is one of the abstract lock or none. *)
LEMMA StepImplements ==
    LockInv /\ LockInv' /\ [LockNext]_lockVars => [Mutex!Next]_(Mutex!vars)
<1> SUFFICES ASSUME LockInv, LockInv', [LockNext]_lockVars
             PROVE  Mutex!Next \/ UNCHANGED Mutex!vars
  OBVIOUS
<1>t. LockTypeOK
  BY DEF LockInv
<1>1. ASSUME NEW c \in Call, Request(c) PROVE Mutex!Ask(c)
  <2>1. Where(c) = "new"
    BY <1>1, WhereIs DEF Request
  <2>2. \A d \in Call : Where(d)' = IF d = c THEN "waiting" ELSE Where(d)
    BY <1>1, <1>t, WhereIs DEF Request, Where, LockTypeOK, LockInv, Told
  <2>3. {d \in Call : AccountOf[d] = AccountOf[c] /\ ticket[d] = "queued"}
           = {d \in Mutex!Same(c) : Where(d) = "waiting"}
    BY WhereIs DEF Mutex!Same
  <2>4. ahead' = [ahead EXCEPT ![c] = {d \in Mutex!Same(c) : Where(d) = "waiting"}]
    BY <1>1, <2>3 DEF Request
  <2>5. {d \in Mutex!Same(c) : Where(d) = "waiting"}
           = {d \in Mutex!Same(c) : [e \in Call |-> Where(e)][d] = "waiting"}
    BY DEF Mutex!Same
  <2> QED BY <2>1, <2>2, <2>4, <2>5 DEF Mutex!Ask
<1>2. ASSUME NEW c \in Call, Enter(c) PROVE Mutex!Grant(c)
  <2>1. ticket[c] = "queued" /\ MyTurn(c) /\ ahead' = ahead /\ ahead[c] \subseteq Call
    BY <1>2, <1>t DEF Enter, LockTypeOK
  <2>2. \A d \in Call : Where(d)' = IF d = c THEN "inside" ELSE Where(d)
    BY <1>2, <1>t DEF Enter, Where, LockTypeOK, LockInv, Told
  <2>3. Where(c) = "waiting" /\ \A d \in ahead[c] : Where(d) # "waiting"
    BY <2>1, WhereIs, MyTurnIsFirst
  <2>4. \A d \in Mutex!Same(c) : Where(d) # "inside"
    BY <2>1, WhereIs, MyTurnIsFirst DEF Mutex!Same
  <2> QED BY <2>1, <2>2, <2>3, <2>4 DEF Mutex!Grant, Mutex!Same
<1>3. ASSUME NEW c \in Call, Skip(c) PROVE UNCHANGED Mutex!vars
  <2>1. \A d \in Call : Where(d)' = Where(d)
    BY <1>3, <1>t DEF Skip, Where, LockTypeOK, LockInv, Told
  <2> QED BY <2>1, <1>3 DEF Skip, Mutex!vars
<1>4. ASSUME NEW c \in Call, Expire(c) PROVE Mutex!GiveUp(c)
  <2>1. \A d \in Call : Where(d)' = IF d = c THEN "gaveUp" ELSE Where(d)
    BY <1>4, <1>t DEF Expire, Where, LockTypeOK
  <2>2. Where(c) = "waiting" /\ ahead' = ahead
    BY <1>4, WhereIs DEF Expire
  <2> QED BY <2>1, <2>2 DEF Mutex!GiveUp
<1>5. ASSUME NEW c \in Call, NEW ok \in BOOLEAN, Leave(c, ok) PROVE Mutex!Finish(c)
  <2>1. \A d \in Call : Where(d)' = IF d = c THEN "done" ELSE Where(d)
    BY <1>5, <1>t DEF Leave, Where, LockTypeOK
  <2>2. Where(c) = "inside" /\ ahead' = ahead
    BY <1>5, WhereIs DEF Leave
  <2> QED BY <2>1, <2>2 DEF Mutex!Finish
<1>6. CASE UNCHANGED lockVars
  BY <1>6 DEF lockVars, Mutex!vars, Where
<1> QED
  BY <1>1, <1>2, <1>3, <1>4, <1>5, <1>6 DEF LockNext, Mutex!Next

(* withAccountStateLock is the lock its callers are promised: one section  *)
(* per account, in the order of the calls, none after a timeout.           *)
THEOREM LockImplementsMutex == LockSafety => Mutex!Safety
<1>1. LockInit => Mutex!Init
  BY DEF LockInit, Mutex!Init, Where
<1> QED
  BY <1>1, StepImplements, LockInvAlways, PTL DEF LockSafety, Mutex!Safety

-----------------------------------------------------------------------------
(* The sections of AccountStatus.                                          *)
Steps == {"none", "checking", "rereading", "writing", "guessing", "marking", "over", "failed"}
Idle == {"none", "over", "failed"}

StatusTypes ==
    /\ status \in Statuses /\ cred \in Nat \ {0} /\ about \in 1 .. cred /\ login \in 0 .. cred
    /\ step \in [Call -> Steps] /\ next \in [Call -> Statuses \cup {"none"}]
    /\ seen \in [Call -> 0 .. cred] /\ crossed \in BOOLEAN /\ unmarked \in BOOLEAN

(* A section has a step exactly while it is inside; what it writes is a    *)
(* status, and it calls unverified what it has just read as active.        *)
SectionOK(c) ==
    /\ ticket[c] = "inside" <=> step[c] \notin Idle
    /\ step[c] = "marking" => Kind[c] = "restore"
    /\ step[c] \notin Idle \cup {"marking"} => Kind[c] # "restore" /\ seen[c] # 0
    /\ step[c] \in {"writing", "guessing"} => next[c] \in Statuses
    /\ step[c] = "writing" /\ next[c] = "unverified" => status = "active"
Sections == \A c \in Call : SectionOK(c)

(* Without a login across a section, and as long as each status could be   *)
(* written: a check holds the credential on disk, and active is said of it *)
(* unless a restore or a login is about to say something else.             *)
Vouched ==
    ~crossed /\ ~unmarked =>
        /\ login # 0 => login = cred /\ Inside = {}
        /\ \A c \in Inside : Kind[c] # "restore" => seen[c] = cred
        /\ status = "active" /\ login = 0 /\ (\A c \in Call : step[c] # "marking") => about = cred

SectionInv == StatusTypes /\ Sections /\ Vouched
StatusInv == LockInv /\ SectionInv

(* The calls are about one account: one section at a time. *)
LEMMA OneInside ==
    ASSUME LockInv, NEW c \in Call, NEW d \in Call, ticket[c] = "inside", ticket[d] = "inside"
    PROVE  c = d
<1>1. AccountOf[c] = AccountOf[d]
  BY StatusAssumption DEF StatusAssumption
<1>2. on[c] = on[d]
  BY <1>1, OneLine DEF Active
<1>3. MyTurn(c) /\ MyTurn(d)
  BY DEF LockInv, HeadInside
<1> QED BY <1>2, <1>3 DEF MyTurn

LEMMA StatusLocks == Next => [LockNext]_lockVars
<1> SUFFICES ASSUME Next PROVE LockNext \/ UNCHANGED lockVars
  OBVIOUS
<1>1. CASE LoginSaves \/ \E ok \in BOOLEAN : LoginMarks(ok)
  BY <1>1 DEF LoginSaves, LoginMarks
<1>2. ASSUME NEW c \in Call, List(c) \/ Asks(c) \/ Turn(c) \/ TimesOut(c)
      PROVE  LockNext \/ UNCHANGED lockVars
  BY <1>2 DEF List, Asks, Turn, TimesOut, CheckStarts, RestoreStarts, LockNext
<1>3. ASSUME NEW c \in Call, SectionStep(c)
      PROVE  LockNext \/ UNCHANGED lockVars
  BY <1>3 DEF SectionStep, Verdict, CheckThrows, Inconclusive, Decide, Writes, RestoreMarks,
              NothingToWrite, CheckEnds, Section, LockNext
<1> QED BY <1>1, <1>2, <1>3 DEF Next

(* A step of the lock that moves nobody in or out. *)
LEMMA StaysOut ==
    ASSUME LockInv, NEW c \in Call, Request(c) \/ Skip(c) \/ Expire(c)
    PROVE  \A d \in Call : ticket'[d] = "inside" <=> ticket[d] = "inside"
<1>1. ticket \in [Call -> Ticket]
  BY DEF LockInv, LockTypeOK
<1> QED BY <1>1 DEF Request, Skip, Expire

LEMMA QuietKeeps ==
    ASSUME SectionInv, \A d \in Call : ticket'[d] = "inside" <=> ticket[d] = "inside",
           UNCHANGED <<cred, status, step, seen, next, login, about, crossed, unmarked>>
    PROVE  SectionInv'
  BY DEF SectionInv, StatusTypes, Sections, SectionOK, Vouched, Inside

LEMMA CheckStartsKeeps ==
    ASSUME LockInv, SectionInv, NEW c \in Call, CheckStarts(c)
    PROVE  SectionInv'
<1>1. /\ ticket' = [ticket EXCEPT ![c] = "inside"] /\ ticket \in [Call -> Ticket]
      /\ ticket[c] = "queued" /\ Kind[c] # "restore"
      /\ seen' = [seen EXCEPT ![c] = cred] /\ step' = [step EXCEPT ![c] = "checking"]
      /\ crossed' = (crossed \/ login # 0)
      /\ UNCHANGED <<cred, status, next, login, about, unmarked>>
  BY DEF CheckStarts, Enter, LockInv, LockTypeOK
<1>2. StatusTypes'
  BY <1>1 DEF SectionInv, StatusTypes, Steps
<1>3. Sections'
  BY <1>1 DEF SectionInv, StatusTypes, Sections, SectionOK, Idle
<1>4. Vouched'
  BY <1>1 DEF SectionInv, StatusTypes, Sections, SectionOK, Idle, Vouched, Inside
<1> QED BY <1>2, <1>3, <1>4 DEF SectionInv

LEMMA RestoreStartsKeeps ==
    ASSUME LockInv, LockInv', SectionInv, NEW c \in Call, NEW saved \in BOOLEAN, RestoreStarts(c, saved)
    PROVE  SectionInv'
<1>1. /\ ticket' = [ticket EXCEPT ![c] = "inside"] /\ ticket \in [Call -> Ticket]
      /\ ticket[c] = "queued" /\ Kind[c] = "restore"
      /\ cred' = IF saved THEN cred + 1 ELSE cred
      /\ seen' = [seen EXCEPT ![c] = IF saved THEN cred + 1 ELSE 0]
      /\ step' = [step EXCEPT ![c] = "marking"]
      /\ crossed' = (crossed \/ login # 0)
      /\ UNCHANGED <<status, next, login, about, unmarked>>
  BY DEF RestoreStarts, Enter, LockInv, LockTypeOK
<1>2. StatusTypes'
  BY <1>1 DEF SectionInv, StatusTypes, Steps
<1>3. Sections'
  BY <1>1 DEF SectionInv, StatusTypes, Sections, SectionOK, Idle
<1>4. Inside' = {c}
  <2>1. c \in Inside' /\ \A d \in Inside' : d \in Call /\ ticket'[d] = "inside"
    BY <1>1 DEF Inside
  <2>2. \A d \in Call : ticket'[d] = "inside" => ticket[d] = "inside" \/ d = c
    BY <1>1
  <2>3. \A d \in Call : ticket'[d] = "inside" => MyTurn(d)' /\ on'[d] = on[d]
    BY DEF LockInv, HeadInside, RestoreStarts, Enter
  <2>4. MyTurn(c) /\ line' = line
    BY DEF RestoreStarts, Enter
  <2>5. \A d \in Call : ticket'[d] = "inside" => on[d] = on[c]
    <3>1. \A d \in Call : AccountOf[d] = AccountOf[c]
      BY StatusAssumption DEF StatusAssumption
    <3>2. chain[AccountOf[c]] = on[c]
      BY <1>1, OneLine DEF Active
    <3>3. \A d \in Call : ticket[d] = "inside" => chain[AccountOf[d]] = on[d]
      BY OneLine DEF Active
    <3> QED BY <2>2, <3>1, <3>2, <3>3
  <2> QED BY <2>1, <2>3, <2>4, <2>5 DEF MyTurn
<1>5. Vouched'
  BY <1>1, <1>4 DEF SectionInv, StatusTypes, Vouched
<1> QED BY <1>2, <1>3, <1>5 DEF SectionInv

(* A section goes on to another step. *)
LEMMA SectionKeeps ==
    ASSUME SectionInv, NEW c \in Call, NEW to \in Steps \ Idle, to # "marking",
           step[c] \notin Idle \cup {"marking"}, NEW n \in Statuses \cup {"none"}, Section(c, to, n),
           to \in {"writing", "guessing"} => n \in Statuses,
           to = "writing" /\ n = "unverified" => status = "active"
    PROVE  SectionInv'
<1>1. /\ step' = [step EXCEPT ![c] = to] /\ next' = [next EXCEPT ![c] = n] /\ ticket' = ticket
      /\ UNCHANGED <<cred, status, seen, login, about, crossed, unmarked>>
  BY DEF Section, lockVars
<1>2. StatusTypes'
  BY <1>1 DEF SectionInv, StatusTypes
<1>3. Sections'
  BY <1>1, <1>2 DEF SectionInv, StatusTypes, Sections, SectionOK
<1>4. Vouched'
  BY <1>1 DEF SectionInv, StatusTypes, Vouched, Inside
<1> QED BY <1>2, <1>3, <1>4 DEF SectionInv

(* A section ends: nobody is inside. *)
LEMMA NobodyInside ==
    ASSUME LockInv, SectionInv, NEW c \in Call, NEW ok \in BOOLEAN, Leave(c, ok)
    PROVE  /\ Inside = {c} /\ Inside' = {} /\ ticket[c] = "inside" /\ ticket'[c] # "inside"
           /\ \A d \in Call : d # c => ticket'[d] = ticket[d] /\ step[d] \in Idle
<1>1. /\ ticket[c] = "inside" /\ ticket' = [ticket EXCEPT ![c] = "over"]
      /\ ticket \in [Call -> Ticket]
  BY DEF Leave, LockInv, LockTypeOK
<1>2. \A d \in Call : ticket[d] = "inside" => d = c
  BY <1>1, OneInside
<1> QED BY <1>1, <1>2 DEF SectionInv, Sections, SectionOK, Inside

(* A check's section ends, with a status written or not. *)
LEMMA CheckEndsKeeps ==
    ASSUME LockInv, SectionInv, NEW c \in Call, NEW ok \in BOOLEAN, CheckEnds(c, ok),
           step[c] \notin Idle \cup {"marking"},
           \/ UNCHANGED <<status, about>>
           \/ status' \in Statuses /\ about' = seen[c]
    PROVE  SectionInv'
<1>1. /\ step' = [step EXCEPT ![c] = "over"] /\ next' = [next EXCEPT ![c] = "none"]
      /\ seen' = [seen EXCEPT ![c] = 0] /\ UNCHANGED <<cred, login, crossed, unmarked>>
  BY DEF CheckEnds
<1>2. /\ Inside = {c} /\ Inside' = {} /\ ticket'[c] # "inside"
      /\ \A d \in Call : d # c => ticket'[d] = ticket[d] /\ step[d] \in Idle
  BY NobodyInside DEF CheckEnds
<1>3. Kind[c] # "restore" /\ seen[c] # 0
  BY DEF SectionInv, Sections, SectionOK
<1>4. StatusTypes'
  BY <1>1, <1>3 DEF SectionInv, StatusTypes, Steps
<1>5. Sections'
  BY <1>1, <1>2 DEF SectionInv, StatusTypes, Sections, SectionOK, Idle
<1>6. Vouched'
  <2> SUFFICES ASSUME ~crossed, ~unmarked, status' = "active", login = 0
               PROVE  about' = cred
    BY <1>1, <1>2 DEF SectionInv, Vouched
  <2>1. seen[c] = cred
    BY <1>2, <1>3 DEF SectionInv, Vouched
  <2>2. CASE UNCHANGED <<status, about>>
    BY <1>2, <2>2 DEF SectionInv, Vouched, Idle
  <2> QED BY <2>1, <2>2
<1> QED BY <1>4, <1>5, <1>6 DEF SectionInv

LEMMA SectionStepKeeps ==
    ASSUME LockInv, SectionInv, NEW c \in Call, SectionStep(c)
    PROVE  SectionInv'
<1>t. /\ step[c] \in Steps /\ status \in Statuses
      /\ step[c] \in {"writing", "guessing"} => next[c] \in Statuses
  BY DEF SectionInv, StatusTypes, Sections, SectionOK
<1>1. ASSUME NEW v \in Statuses, Verdict(c, v) PROVE SectionInv'
  <2>1. CASE NothingToWrite(c, TRUE)
    BY <1>1, <2>1, CheckEndsKeeps DEF NothingToWrite, Verdict, Idle
  <2>2. CASE Section(c, "writing", v)
    BY <1>1, <2>2, SectionKeeps DEF Verdict, Idle, Steps
  <2> QED BY <1>1, <2>1, <2>2 DEF Verdict
<1>2. CASE CheckThrows(c)
  BY <1>2, CheckEndsKeeps DEF CheckThrows, NothingToWrite, Idle
<1>3. CASE Inconclusive(c)
  BY <1>3, SectionKeeps DEF Inconclusive, Idle, Steps
<1>4. ASSUME NEW ok \in BOOLEAN, NEW aged \in BOOLEAN, Decide(c, ok, aged) PROVE SectionInv'
  <2>1. CASE NothingToWrite(c, TRUE)
    BY <1>4, <2>1, CheckEndsKeeps DEF NothingToWrite, Decide, Idle
  <2>2. CASE Basis(c, ok) = "active" /\ Section(c, IF ok THEN "writing" ELSE "guessing", "unverified")
    <3>1. CASE ok
      BY <1>4, <2>2, <3>1, SectionKeeps DEF Decide, Basis, Idle, Steps, Statuses
    <3>2. CASE ~ok
      BY <1>4, <2>2, <3>2, SectionKeeps DEF Decide, Idle, Steps, Statuses
    <3> QED BY <3>1, <3>2
  <2> QED BY <1>4, <2>1, <2>2 DEF Decide
<1>5. ASSUME NEW ok \in BOOLEAN, Writes(c, ok) PROVE SectionInv'
  <2>1. /\ CheckEnds(c, TRUE) /\ step[c] \notin Idle \cup {"marking"} /\ next[c] \in Statuses
        /\ status' = IF ok THEN next[c] ELSE status
        /\ about' = IF ok THEN seen[c] ELSE about
    BY <1>5, <1>t DEF Writes, Idle
  <2>2. \/ UNCHANGED <<status, about>>
        \/ status' \in Statuses /\ about' = seen[c]
    BY <2>1
  <2> QED BY <2>1, <2>2, CheckEndsKeeps
<1>6. ASSUME NEW ok \in BOOLEAN, RestoreMarks(c, ok) PROVE SectionInv'
  <2>1. /\ step' = [step EXCEPT ![c] = IF ok THEN "over" ELSE "failed"]
        /\ status' = IF ok THEN "unverified" ELSE status
        /\ about' = IF ok THEN cred ELSE about
        /\ unmarked' = (unmarked \/ ~ok)
        /\ UNCHANGED <<cred, seen, next, login, crossed>>
    BY <1>6 DEF RestoreMarks
  <2>2. /\ Inside = {c} /\ Inside' = {} /\ ticket'[c] # "inside"
        /\ \A d \in Call : d # c => ticket'[d] = ticket[d] /\ step[d] \in Idle
    BY <1>6, NobodyInside DEF RestoreMarks
  <2>3. StatusTypes'
    BY <2>1 DEF SectionInv, StatusTypes, Steps, Statuses
  <2>4. Sections'
    BY <2>1, <2>2 DEF SectionInv, StatusTypes, Sections, SectionOK, Idle
  <2>5. Vouched'
    BY <2>1, <2>2 DEF SectionInv, Vouched
  <2> QED BY <2>3, <2>4, <2>5 DEF SectionInv
<1> QED BY <1>1, <1>2, <1>3, <1>4, <1>5, <1>6 DEF SectionStep

LEMMA LoginKeeps ==
    ASSUME SectionInv, LoginSaves \/ \E ok \in BOOLEAN : LoginMarks(ok)
    PROVE  SectionInv'
<1>1. CASE LoginSaves
  <2>1. /\ login = 0 /\ cred' = cred + 1 /\ login' = cred + 1
        /\ crossed' = (crossed \/ Inside # {}) /\ ticket' = ticket /\ Inside' = Inside
        /\ UNCHANGED <<status, step, seen, next, about, unmarked>>
    BY <1>1 DEF LoginSaves, lockVars, Inside
  <2>2. StatusTypes'
    BY <2>1 DEF SectionInv, StatusTypes
  <2>3. Sections'
    BY <2>1 DEF SectionInv, Sections, SectionOK
  <2>4. ASSUME ~crossed', ~unmarked' PROVE login' = cred' /\ Inside' = {} /\ login' # 0
    <3>1. Inside = {}
      BY <2>1, <2>4
    <3> QED BY <2>1, <3>1 DEF SectionInv, StatusTypes
  <2>5. Vouched'
    BY <2>4 DEF Vouched
  <2> QED BY <2>2, <2>3, <2>5 DEF SectionInv
<1>2. ASSUME NEW ok \in BOOLEAN, LoginMarks(ok) PROVE SectionInv'
  <2>1. /\ login # 0 /\ login' = 0
        /\ status' = IF ok THEN "active" ELSE status
        /\ about' = IF ok THEN login ELSE about
        /\ unmarked' = (unmarked \/ ~ok) /\ ticket' = ticket /\ Inside' = Inside
        /\ UNCHANGED <<cred, step, seen, next, crossed>>
    BY <1>2 DEF LoginMarks, lockVars, Inside
  <2>2. StatusTypes'
    BY <2>1 DEF SectionInv, StatusTypes, Statuses
  <2>3. Sections'
    BY <2>1 DEF SectionInv, Sections, SectionOK
  <2>4. Vouched'
    BY <2>1 DEF SectionInv, Vouched
  <2> QED BY <2>2, <2>3, <2>4 DEF SectionInv
<1> QED BY <1>1, <1>2

LEMMA StatusInvInit == Init => StatusInv
<1> SUFFICES ASSUME Init PROVE StatusInv
  OBVIOUS
<1>1. LockInv
  BY LockInvInit DEF Init
<1>2. StatusTypes
  <2>1. status \in Statuses /\ cred = 1 /\ about = 1 /\ login = 0 /\ ~crossed /\ ~unmarked
    BY DEF Init
  <2>2. cred \in Nat \ {0} /\ about \in 1 .. cred /\ login \in 0 .. cred
    BY <2>1
  <2>3. /\ step \in [Call -> Steps] /\ next \in [Call -> Statuses \cup {"none"}]
        /\ seen \in [Call -> 0 .. cred]
    BY <2>1 DEF Init, Steps
  <2>4. crossed \in BOOLEAN /\ unmarked \in BOOLEAN
    BY DEF Init
  <2> QED BY <2>1, <2>2, <2>3, <2>4 DEF StatusTypes
<1>3. Sections /\ Vouched
  BY DEF Init, LockInit, Sections, SectionOK, Idle, Vouched, Inside
<1> QED BY <1>1, <1>2, <1>3 DEF StatusInv, SectionInv

LEMMA StatusInvStep == StatusInv /\ [Next]_vars => StatusInv'
<1> SUFFICES ASSUME StatusInv, [Next]_vars PROVE StatusInv'
  OBVIOUS
<1>i. LockInv /\ SectionInv
  BY DEF StatusInv
<1>l. LockInv'
  BY <1>i, StatusLocks, LockInvInductive DEF vars
<1>1. CASE LoginSaves \/ \E ok \in BOOLEAN : LoginMarks(ok)
  BY <1>1, <1>i, <1>l, LoginKeeps DEF StatusInv
<1>2. ASSUME NEW c \in Call, List(c) PROVE SectionInv'
  BY <1>2, <1>i, QuietKeeps DEF List, lockVars
<1>3. ASSUME NEW c \in Call, Asks(c) \/ TimesOut(c) \/ (Skip(c) /\ UNCHANGED mine)
      PROVE  SectionInv'
  <2>1. Request(c) \/ Skip(c) \/ Expire(c)
    BY <1>3 DEF Asks, TimesOut
  <2>2. UNCHANGED mine
    BY <1>3 DEF Asks, TimesOut
  <2> QED BY <1>i, <2>1, <2>2, StaysOut, QuietKeeps DEF mine
<1>4. ASSUME NEW c \in Call, CheckStarts(c) \/ \E saved \in BOOLEAN : RestoreStarts(c, saved)
      PROVE  SectionInv'
  BY <1>4, <1>i, <1>l, CheckStartsKeeps, RestoreStartsKeeps
<1>5. ASSUME NEW c \in Call, SectionStep(c) PROVE SectionInv'
  BY <1>5, <1>i, SectionStepKeeps
<1>6. CASE UNCHANGED vars
  <2>1. UNCHANGED <<cred, status, step, seen, next, login, about, crossed, unmarked, ticket>>
    BY <1>6 DEF vars, lockVars
  <2> QED BY <1>i, <1>l, <2>1, QuietKeeps DEF StatusInv
<1> QED
  BY <1>l, <1>1, <1>2, <1>3, <1>4, <1>5, <1>6 DEF StatusInv, Next, Turn

LEMMA StatusInvAlways == StatusSpec => []StatusInv
  BY StatusInvInit, StatusInvStep, PTL DEF StatusSpec

-----------------------------------------------------------------------------
(* The checks, the monitor and the restore use the lock as it is meant to  *)
(* be used, so all that holds of it holds among them.                      *)
THEOREM StatusUsesLock == StatusSpec => LockSafety
<1>1. Init => LockInit
  BY DEF Init
<1>2. [Next]_vars => [LockNext]_lockVars
  BY StatusLocks DEF vars
<1> QED BY <1>1, <1>2, PTL DEF StatusSpec, LockSafety

(* An account is shown as logged in only on the word of a check, or of the *)
(* login, about the credential on disk, for any number of calls and        *)
(* logins and whichever writes fail.                                       *)
THEOREM ActiveMeansProven == StatusSpec => []ActiveIsProven
<1>1. StatusInv => ActiveIsProven
  <2> SUFFICES ASSUME StatusInv PROVE ActiveIsProven
    OBVIOUS
  <2>1. StatusTypeOK
    BY DEF StatusInv, LockInv, SectionInv, StatusTypes, Sections, SectionOK, Idle, StatusTypeOK
  <2>2. Inside = {} => \A c \in Call : step[c] # "marking"
    BY DEF StatusInv, SectionInv, Sections, SectionOK, Idle, Inside
  <2> QED BY <2>1, <2>2 DEF ActiveIsProven, StatusInv, SectionInv, Vouched
<1> QED BY <1>1, StatusInvAlways, PTL

(* An account found expired is called unverified only by a restore or by a *)
(* check that could not read the status again.                             *)
THEOREM ExpiredStays == StatusSpec => ExpiredSticky
<1>1. StatusInv /\ [Next]_vars =>
          [status = "expired" /\ status' = "unverified" =>
              \E c \in Inside : step[c] \in {"marking", "guessing"}]_vars
  <2> SUFFICES ASSUME StatusInv, Next, status = "expired", status' = "unverified"
               PROVE  \E c \in Inside : step[c] \in {"marking", "guessing"}
    OBVIOUS
  <2>i. /\ \A c \in Call : SectionOK(c)
        /\ \A c \in Call : step[c] \in {"marking", "guessing"} => c \in Inside
    BY DEF StatusInv, SectionInv, Sections, SectionOK, Idle, Inside
  <2>1. CASE LoginSaves \/ \E ok \in BOOLEAN : LoginMarks(ok)
    BY <2>1 DEF LoginSaves, LoginMarks
  <2>2. ASSUME NEW c \in Call, List(c) \/ Asks(c) \/ Turn(c) \/ TimesOut(c) PROVE FALSE
    BY <2>2 DEF List, Asks, Turn, TimesOut, CheckStarts, RestoreStarts, mine
  <2>3. ASSUME NEW c \in Call, SectionStep(c)
        PROVE  step[c] \in {"marking", "guessing"}
    <3>1. CASE \E ok \in BOOLEAN : Writes(c, ok)
      BY <3>1, <2>i DEF Writes, SectionOK
    <3>2. CASE \E ok \in BOOLEAN : RestoreMarks(c, ok)
      BY <3>2 DEF RestoreMarks
    <3>3. CASE \/ \E v \in Statuses : Verdict(c, v)
               \/ CheckThrows(c) \/ Inconclusive(c)
               \/ \E ok \in BOOLEAN, aged \in BOOLEAN : Decide(c, ok, aged)
      BY <3>3 DEF Verdict, CheckThrows, Inconclusive, Decide, NothingToWrite, Section
    <3> QED BY <2>3, <3>1, <3>2, <3>3 DEF SectionStep
  <2> QED BY <2>i, <2>1, <2>2, <2>3 DEF Next
<1> QED BY <1>1, StatusInvAlways, PTL DEF StatusSpec, ExpiredSticky
=============================================================================
