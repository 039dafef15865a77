--------------------------- MODULE Limiter_proofs ---------------------------
(***************************************************************************)
(* The overruns of the limits are bounded for any number of callers, any   *)
(* limits and any number of retries and failed commands.                   *)
(*                                                                         *)
(* Each bound counts the callers that have passed a check and not yet the  *)
(* increment after it: a check lets one in only while the counter is below *)
(* its limit, and there are no more of them than callers.                  *)
(***************************************************************************)
EXTENDS Limiter, FiniteSetTheorems, TLAPS

\* There are N callers, and at least one.
LEMMA CallersAreCounted ==
    N \in Nat /\ N >= 1
<1>1. IsFiniteSet(Caller) /\ Caller # {}
  BY CallerAssumption
<1>2. N \in Nat
  BY <1>1, FS_CardinalityType DEF N
<1>3. N # 0
  BY <1>1, FS_EmptySet DEF N
<1> QED
  BY <1>2, <1>3

\* No set of callers has more than N.
LEMMA SetsAreSmall ==
    ASSUME NEW S \in SUBSET Caller
    PROVE  IsFiniteSet(S) /\ Cardinality(S) \in Nat /\ Cardinality(S) <= N
<1>1. IsFiniteSet(S) /\ Cardinality(S) <= N
  BY CallerAssumption, FS_Subset DEF N
<1> QED
  BY <1>1, FS_CardinalityType

\* A set that one caller joins.
LEMMA OneJoins ==
    ASSUME NEW S \in SUBSET Caller, NEW T \in SUBSET Caller, NEW c \in Caller,
           c \notin S, c \in T, \A d \in Caller \ {c} : d \in S <=> d \in T
    PROVE  Cardinality(T) = Cardinality(S) + 1
<1>1. T = S \cup {c}
  OBVIOUS
<1>2. IsFiniteSet(S)
  BY SetsAreSmall
<1> QED
  BY <1>1, <1>2, FS_AddElement

\* A set that at most one caller leaves or joins.
LEMMA OneMoves ==
    ASSUME NEW S \in SUBSET Caller, NEW T \in SUBSET Caller, NEW c \in Caller,
           \A d \in Caller \ {c} : d \in S <=> d \in T
    PROVE  /\ Cardinality(S) \in Nat /\ Cardinality(T) \in Nat
           /\ Cardinality(S) <= N /\ Cardinality(T) <= N
           /\ c \in T /\ c \notin S => Cardinality(T) = Cardinality(S) + 1
           /\ c \notin T /\ c \in S => Cardinality(T) = Cardinality(S) - 1
           /\ (c \in T <=> c \in S) => Cardinality(T) = Cardinality(S)
<1>1. /\ Cardinality(S) \in Nat /\ Cardinality(T) \in Nat
      /\ Cardinality(S) <= N /\ Cardinality(T) <= N
  BY SetsAreSmall
<1>2. ASSUME c \in T, c \notin S PROVE Cardinality(T) = Cardinality(S) + 1
  BY <1>2, OneJoins
<1>3. ASSUME c \notin T, c \in S PROVE Cardinality(T) = Cardinality(S) - 1
  <2>1. Cardinality(S) = Cardinality(T) + 1
    BY <1>3, OneJoins
  <2> QED
    BY <2>1, <1>1
<1>4. ASSUME c \in T <=> c \in S PROVE Cardinality(T) = Cardinality(S)
  <2>1. S = T
    BY <1>4
  <2> QED
    BY <2>1
<1> QED
  BY <1>1, <1>2, <1>3, <1>4

-----------------------------------------------------------------------------

\* The limits of a domain are numbers.
LEMMA LimitsAreNumbers ==
    domain \in Domains => /\ domain.perDay \in Nat /\ domain.perWindow \in Nat
                          /\ domain.cap \in Nat
BY DomainsAssumption

\* The initial states have the types.
LEMMA InitTyped == Init => TypeOK
<1> SUFFICES ASSUME Init PROVE TypeOK
  OBVIOUS
<1>1. stored \in BOOLEAN
  BY Zenon DEF Init
<1>2. 0 \in Windows /\ 0 \in 0..Retries /\ 0 \in 0..MaxRequests /\ 0 \in 0..MaxFaults
  BY BoundsAssumption DEF Windows
<1> QED
  BY <1>1, <1>2 DEF Init, TypeOK, Places

\* Every step keeps them.
LEMMA StepTyped == TypeOK /\ [Next]_vars => TypeOK'
<1> SUFFICES ASSUME TypeOK, [Next]_vars PROVE TypeOK'
  OBVIOUS
<1>1. CASE UNCHANGED vars
  BY <1>1 DEF vars, TypeOK
<1>2. CASE Tick
  BY <1>2, BoundsAssumption DEF Tick, TypeOK, Windows
<1>3. ASSUME NEW c \in Caller, Step(c) PROVE TypeOK'
  <2> USE BoundsAssumption, LimitsAreNumbers DEF TypeOK, Places, Windows, Goto
  <2>1. CASE Ask(c)
    <3>1. asked' \in 0..MaxRequests
      BY <2>1 DEF Ask
    <3>2. pc' \in [Caller -> Places]
      BY <2>1 DEF Ask
    <3> QED
      BY <2>1, <3>1, <3>2 DEF Ask
  <2>2. CASE CacheHit(c)
    BY <2>2 DEF CacheHit
  <2>3. CASE CacheMiss(c)
    BY <2>3 DEF CacheMiss
  <2>4. CASE ReadDay(c)
    BY <2>4 DEF ReadDay
  <2>5. CASE CountDay(c)
    BY <2>5 DEF CountDay
  <2>6. CASE ReadWindow(c)
    BY <2>6 DEF ReadWindow
  <2>7. CASE Wake(c)
    BY <2>7 DEF Wake
  <2>8. CASE CountWindow(c)
    <3>1. key[c] \in Windows
      OBVIOUS
    <3>2. count' \in [Windows -> Nat]
      BY <2>8, <3>1 DEF CountWindow
    <3>3. tries' \in [Caller -> 0..Retries] /\ pc' \in [Caller -> Places]
      BY <2>8 DEF CountWindow
    <3> QED
      BY <2>8, <3>2, <3>3 DEF CountWindow
  <2>9. CASE Send(c)
    <3>1. sent' \in [Windows -> Nat]
      BY <2>9 DEF Send
    <3>2. tries' \in [Caller -> 0..Retries]
      <4>1. tries[c] \in 0..Retries /\ (tries[c] < Retries => tries[c] + 1 \in 0..Retries)
        OBVIOUS
      <4>2. \/ UNCHANGED tries
            \/ tries[c] < Retries /\ tries' = [tries EXCEPT ![c] = tries[c] + 1]
        BY <2>9 DEF Send
      <4> QED
        BY <4>1, <4>2
    <3>3. pc' \in [Caller -> Places] /\ answered' \in Nat
      <4>1. \/ pc' = [pc EXCEPT ![c] = "store"] /\ answered' = answered + 1
            \/ pc' = [pc EXCEPT ![c] = "idle"] /\ answered' = answered
            \/ pc' = pc /\ answered' = answered
        BY <2>9 DEF Send
      <4>2. answered' \in Nat
        BY <4>1
      <4>3. "store" \in Places /\ "idle" \in Places
        OBVIOUS
      <4> HIDE DEF Places
      <4>4. pc' \in [Caller -> Places]
        BY <4>1, <4>3
      <4> QED
        BY <4>2, <4>4
    <3> QED
      BY <2>9, <3>1, <3>2, <3>3 DEF Send
  <2>10. CASE Store(c)
    <3>1. stored' \in BOOLEAN
      BY <2>10, Zenon DEF Store
    <3>2. faults' \in 0..MaxFaults
      BY <2>10 DEF Store
    <3>3. pc' \in [Caller -> Places]
      BY <2>10 DEF Store
    <3> QED
      BY <2>10, <3>1, <3>2, <3>3 DEF Store
  <2>11. CASE Bill(c)
    <3>1. faults' \in 0..MaxFaults /\ spend' \in Nat
      BY <2>11 DEF Bill
    <3>2. pc' \in [Caller -> Places]
      BY <2>11 DEF Bill
    <3> QED
      BY <2>11, <3>1, <3>2 DEF Bill
  <2> QED
    BY <1>3, <2>1, <2>2, <2>3, <2>4, <2>5, <2>6, <2>7, <2>8, <2>9, <2>10, <2>11 DEF Step
<1> QED
  BY <1>1, <1>2, <1>3 DEF Next

\* Every variable of the limiter keeps its type, for any callers and bounds.
THEOREM TypeCorrect == Spec => []TypeOK
<1>1. Init => TypeOK
  BY InitTyped
<1>2. TypeOK /\ [Next]_vars => TypeOK'
  BY StepTyped
<1> QED
  BY <1>1, <1>2, PTL DEF Spec

-----------------------------------------------------------------------------
(* The quota of a day.                                                     *)

\* Callers that have read the day and not yet counted themselves.
DayInv ==
    domain.perDay > 0 => dayCount + Cardinality(At("dayIncr")) <= domain.perDay + N - 1

\* Nobody has counted anything.
LEMMA DayInit == Init => DayInv
<1> SUFFICES ASSUME Init, domain.perDay > 0
             PROVE  dayCount + Cardinality(At("dayIncr")) <= domain.perDay + N - 1
  BY DEF DayInv
<1>1. At("dayIncr") = {}
  BY DEF Init, At
<1>2. domain.perDay \in Nat
  BY LimitsAreNumbers DEF Init
<1> QED
  BY <1>1, <1>2, FS_EmptySet, CallersAreCounted DEF Init

\* A check lets a caller in only below the quota, and an increment is the
\* step of a caller that was let in.
LEMMA DayStep == TypeOK /\ DayInv /\ [Next]_vars => DayInv'
<1> SUFFICES ASSUME TypeOK, DayInv, [Next]_vars, (domain.perDay > 0)'
             PROVE  (dayCount + Cardinality(At("dayIncr")) <= domain.perDay + N - 1)'
  BY DEF DayInv
<1>1. /\ domain' = domain /\ domain.perDay > 0 /\ domain.perDay \in Nat
      /\ dayCount \in Nat
  BY LimitsAreNumbers DEF TypeOK, Next, vars, Tick, Step, Ask, CacheHit, CacheMiss,
     ReadDay, CountDay, ReadWindow, Wake, CountWindow, Send, Store, Bill
<1>2. dayCount + Cardinality(At("dayIncr")) <= domain.perDay + N - 1
  BY <1>1 DEF DayInv
<1>3. CASE UNCHANGED vars \/ Tick
  BY <1>1, <1>2, <1>3 DEF vars, Tick, At
<1>4. ASSUME NEW c \in Caller, Step(c)
      PROVE  (dayCount + Cardinality(At("dayIncr")) <= domain.perDay + N - 1)'
  <2> DEFINE S == At("dayIncr")
             T == At("dayIncr")'
  <2>1. \A d \in Caller \ {c} : d \in S <=> d \in T
    BY <1>4 DEF At, TypeOK, Goto, Step, Ask, CacheHit, CacheMiss, ReadDay, CountDay,
       ReadWindow, Wake, CountWindow, Send, Store, Bill
  <2>2. S \in SUBSET Caller /\ T \in SUBSET Caller
    BY DEF At
  <2>3. /\ Cardinality(S) \in Nat /\ Cardinality(T) \in Nat /\ Cardinality(T) <= N
        /\ c \notin T /\ c \in S => Cardinality(T) = Cardinality(S) - 1
        /\ (c \in T <=> c \in S) => Cardinality(T) = Cardinality(S)
    BY <2>1, <2>2, OneMoves
  <2>4. CASE ReadDay(c)
    <3>1. dayCount' = dayCount /\ (c \in T => dayCount < domain.perDay)
      BY <1>1, <2>4 DEF ReadDay, Goto, At, TypeOK
    <3>2. c \notin S
      BY <2>4 DEF ReadDay, At
    <3> HIDE DEF S, T
    <3>3. CASE c \in T
      BY <3>1, <3>3, <2>3, <1>1, CallersAreCounted DEF T
    <3>4. CASE c \notin T
      BY <3>1, <3>2, <3>4, <2>3, <1>1, <1>2, CallersAreCounted DEF S, T
    <3> QED
      BY <3>3, <3>4
  <2>5. CASE CountDay(c)
    <3>1. dayCount' = dayCount + 1 /\ c \in S /\ c \notin T
      BY <2>5 DEF CountDay, Goto, At, TypeOK
    <3> QED
      BY <3>1, <2>3, <1>1, <1>2, CallersAreCounted
  <2>6. CASE ~ReadDay(c) /\ ~CountDay(c)
    <3>1. dayCount' = dayCount /\ (c \in T <=> c \in S)
      BY <1>4, <2>6 DEF At, TypeOK, Goto, Step, Ask, CacheHit, CacheMiss,
         ReadWindow, Wake, CountWindow, Send, Store, Bill
    <3> QED
      BY <3>1, <2>3, <1>1, <1>2
  <2> QED
    BY <2>4, <2>5, <2>6
<1> QED
  BY <1>3, <1>4 DEF Next

\* The quota of a day is overrun by fewer requests than there are callers.
THEOREM DayIsBounded == Spec => []DayOverrunIsBounded
<1>1. Init => TypeOK /\ DayInv
  BY InitTyped, DayInit
<1>2. TypeOK /\ DayInv /\ [Next]_vars => (TypeOK /\ DayInv)'
  BY StepTyped, DayStep
<1>3. TypeOK /\ DayInv => DayOverrunIsBounded
  <2> SUFFICES ASSUME TypeOK, DayInv, domain.perDay > 0
               PROVE  dayCount <= domain.perDay + N - 1
    BY DEF DayOverrunIsBounded
  <2>1. Cardinality(At("dayIncr")) \in Nat
    BY SetsAreSmall DEF At
  <2>2. dayCount \in Nat /\ domain.perDay \in Nat
    BY LimitsAreNumbers DEF TypeOK
  <2> QED
    BY <2>1, <2>2, CallersAreCounted DEF DayInv
<1> QED
  BY <1>1, <1>2, <1>3, PTL DEF Spec

-----------------------------------------------------------------------------
(* The budget of a run.                                                    *)

Busy == {c \in Caller : pc[c] # "idle"}

\* Callers with an answer that is not billed yet.
Unbilled == {c \in Caller : pc[c] \in {"store", "bill"}}

\* Callers that have passed the check and not yet been billed, and answers
\* that are paid, in hand, or lost with their bill.
BudgetInv ==
    Paid => /\ spend + Cardinality(Busy) <= domain.cap + N - 1
            /\ answered <= spend + Cardinality(Unbilled) + faults

\* Nobody has asked for anything.
LEMMA BudgetInit == Init => BudgetInv
<1> SUFFICES ASSUME Init, Paid
             PROVE  /\ spend + Cardinality(Busy) <= domain.cap + N - 1
                    /\ answered <= spend + Cardinality(Unbilled) + faults
  BY DEF BudgetInv
<1>1. Busy = {} /\ Unbilled = {}
  BY DEF Init, Busy, Unbilled
<1>2. domain.cap \in Nat /\ domain.cap > 0
  BY LimitsAreNumbers DEF Init, Paid
<1> QED
  BY <1>1, <1>2, FS_EmptySet, CallersAreCounted DEF Init

\* The check lets a caller in only below the cap, and whoever leaves has been
\* billed, has no answer, or is one of the faults.
LEMMA BudgetStep == TypeOK /\ BudgetInv /\ [Next]_vars => BudgetInv'
<1> SUFFICES ASSUME TypeOK, BudgetInv, [Next]_vars, Paid'
             PROVE  (/\ spend + Cardinality(Busy) <= domain.cap + N - 1
                     /\ answered <= spend + Cardinality(Unbilled) + faults)'
  BY DEF BudgetInv
<1>1. /\ domain' = domain /\ Paid /\ domain.cap \in Nat
      /\ spend \in Nat /\ answered \in Nat /\ faults \in Nat
  BY LimitsAreNumbers, BoundsAssumption DEF TypeOK, Next, vars, Tick, Step, Ask, CacheHit,
     CacheMiss, ReadDay, CountDay, ReadWindow, Wake, CountWindow, Send, Store, Bill, Paid
<1>2. /\ spend + Cardinality(Busy) <= domain.cap + N - 1
      /\ answered <= spend + Cardinality(Unbilled) + faults
  BY <1>1 DEF BudgetInv
<1>3. CASE UNCHANGED vars \/ Tick
  BY <1>1, <1>2, <1>3 DEF vars, Tick, Busy, Unbilled
<1>4. ASSUME NEW c \in Caller, Step(c)
      PROVE  (/\ spend + Cardinality(Busy) <= domain.cap + N - 1
              /\ answered <= spend + Cardinality(Unbilled) + faults)'
  <2>1. \A d \in Caller \ {c} : pc'[d] = pc[d]
    BY <1>4 DEF TypeOK, Goto, Step, Ask, CacheHit, CacheMiss, ReadDay, CountDay,
       ReadWindow, Wake, CountWindow, Send, Store, Bill
  <2>2. /\ Busy \in SUBSET Caller /\ Busy' \in SUBSET Caller
        /\ \A d \in Caller \ {c} : d \in Busy <=> d \in Busy'
        /\ c \in Busy <=> pc[c] # "idle"
        /\ c \in Busy' <=> pc'[c] # "idle"
    BY <2>1 DEF Busy
  <2>3. /\ Unbilled \in SUBSET Caller /\ Unbilled' \in SUBSET Caller
        /\ \A d \in Caller \ {c} : d \in Unbilled <=> d \in Unbilled'
        /\ c \in Unbilled <=> pc[c] \in {"store", "bill"}
        /\ c \in Unbilled' <=> pc'[c] \in {"store", "bill"}
    BY <2>1 DEF Unbilled
  <2> DEFINE S == Busy
             T == Busy'
             U == Unbilled
             V == Unbilled'
  <2>4. /\ Cardinality(S) \in Nat /\ Cardinality(T) \in Nat /\ Cardinality(T) <= N
        /\ c \notin T /\ c \in S => Cardinality(T) = Cardinality(S) - 1
        /\ (c \in T <=> c \in S) => Cardinality(T) = Cardinality(S)
    BY <2>2, OneMoves
  <2>5. /\ Cardinality(U) \in Nat /\ Cardinality(V) \in Nat
        /\ c \in V /\ c \notin U => Cardinality(V) = Cardinality(U) + 1
        /\ c \notin V /\ c \in U => Cardinality(V) = Cardinality(U) - 1
        /\ (c \in V <=> c \in U) => Cardinality(V) = Cardinality(U)
    BY <2>3, OneMoves
  <2> USE <1>1, <1>2, <2>4, <2>5, CallersAreCounted
  <2>6. CASE Ask(c)
    <3>1. /\ spend' = spend /\ answered' = answered /\ faults' = faults
          /\ c \notin U /\ c \notin V
      BY <2>3, <2>6 DEF Ask, Goto, TypeOK
    <3>2. CASE spend >= domain.cap
      <4>1. c \notin S /\ c \notin T
        BY <1>1, <2>2, <2>6, <3>2 DEF Ask
      <4> QED
        BY <3>1, <4>1
    <3>3. CASE ~(spend >= domain.cap)
      BY <3>1, <3>3
    <3> QED
      BY <3>2, <3>3
  <2>7. CASE Send(c)
    <3>1. /\ spend' = spend /\ faults' = faults
          /\ c \in S /\ c \notin U
          /\ \/ answered' = answered + 1 /\ c \in T /\ c \in V
             \/ answered' = answered /\ c \notin T /\ c \notin V
             \/ answered' = answered /\ c \in T /\ c \notin V
      BY <2>2, <2>3, <2>7 DEF Send, Goto, TypeOK
    <3> QED
      BY <3>1
  <2>8. CASE Store(c)
    <3>1. /\ spend' = spend /\ answered' = answered
          /\ c \in S /\ c \in U
          /\ \/ faults' = faults /\ c \in T /\ c \in V
             \/ faults' = faults + 1 /\ c \notin T /\ c \notin V
      BY <1>1, <2>2, <2>3, <2>8 DEF Store, Goto, TypeOK
    <3> QED
      BY <3>1
  <2>9. CASE Bill(c)
    <3>1. /\ answered' = answered
          /\ c \in S /\ c \in U /\ c \notin T /\ c \notin V
          /\ \/ spend' = spend + 1 /\ faults' = faults
             \/ spend' = spend /\ faults' = faults + 1
      BY <2>2, <2>3, <2>9 DEF Bill, Goto, TypeOK
    <3> QED
      BY <3>1
  <2>10. CASE CacheHit(c)
    <3>1. /\ spend' = spend /\ answered' = answered /\ faults' = faults
          /\ c \in S /\ c \notin U /\ c \in T /\ c \in V
      BY <1>1, <2>2, <2>3, <2>10 DEF CacheHit, Goto, TypeOK
    <3> QED
      BY <3>1
  <2>11. CASE CacheMiss(c) \/ ReadDay(c) \/ CountDay(c) \/ ReadWindow(c) \/ Wake(c)
              \/ CountWindow(c)
    <3>1. /\ spend' = spend /\ answered' = answered /\ faults' = faults
          /\ c \in S /\ c \notin U /\ c \notin V
      BY <2>2, <2>3, <2>11 DEF CacheMiss, ReadDay, CountDay, ReadWindow, Wake, CountWindow,
         Goto, TypeOK
    <3> QED
      BY <3>1
  <2> QED
    BY <1>4, <2>6, <2>7, <2>8, <2>9, <2>10, <2>11 DEF Step
<1> QED
  BY <1>3, <1>4 DEF Next

\* The budget is overrun by fewer calls than there are callers, and what is
\* paid beyond that are answers whose billing failed.
THEOREM BudgetIsBounded == Spec => []BudgetOverrunIsBounded
<1>1. Init => TypeOK /\ BudgetInv
  BY InitTyped, BudgetInit
<1>2. TypeOK /\ BudgetInv /\ [Next]_vars => (TypeOK /\ BudgetInv)'
  BY StepTyped, BudgetStep
<1>3. TypeOK /\ BudgetInv => BudgetOverrunIsBounded
  <2> SUFFICES ASSUME TypeOK, BudgetInv, Paid
               PROVE  /\ spend <= domain.cap + N - 1
                      /\ answered <= domain.cap + N - 1 + faults
    BY DEF BudgetOverrunIsBounded
  <2>1. /\ Cardinality(Busy) \in Nat /\ Cardinality(Unbilled) \in Nat
        /\ Cardinality(Unbilled) <= Cardinality(Busy)
    <3>1. Busy \in SUBSET Caller /\ Unbilled \in SUBSET Busy
      BY DEF Busy, Unbilled
    <3>2. IsFiniteSet(Busy) /\ Cardinality(Busy) \in Nat /\ Cardinality(Unbilled) \in Nat
      BY <3>1, SetsAreSmall
    <3> QED
      BY <3>1, <3>2, FS_Subset
  <2>2. spend \in Nat /\ answered \in Nat /\ faults \in Nat /\ domain.cap \in Nat
    BY LimitsAreNumbers, BoundsAssumption DEF TypeOK
  <2> QED
    BY <2>1, <2>2, CallersAreCounted DEF BudgetInv
<1> QED
  BY <1>1, <1>2, <1>3, PTL DEF Spec

-----------------------------------------------------------------------------
(* The limit of a window.                                                  *)

\* Callers that have looked at the counter of this window and will add to it.
Counting == {c \in Caller : pc[c] = "count" /\ key[c] = now}

\* Callers about to send what this window counts.
Sending == {c \in Caller : pc[c] = "send" /\ tries[c] = 0 /\ key[c] = now}

\* Callers that will send in this window or later what an earlier one counts.
Late == {c \in Caller :
            /\ key[c] < now
            /\ pc[c] \in {"asleep", "count"} \/ (pc[c] = "send" /\ tries[c] = 0)}

Owing == Sending \cup Late

\* Windows to come are empty and nobody has looked at them.
Ahead ==
    /\ \A c \in Caller : key[c] <= now
    /\ \A w \in Windows : w > now => count[w] = 0 /\ sent[w] = 0

\* The counter overruns the limit by the callers that looked at it together,
\* and what is sent overruns the counter by the callers that are late.
WindowInv ==
    domain.perWindow > 0 =>
        /\ count[now] + Cardinality(Counting) <= domain.perWindow + N - 1
        /\ sent[now] + Cardinality(Owing) <= count[now] + N
        /\ \A w \in Windows : w < now => sent[w] <= domain.perWindow + 2 * N - 1

\* Nobody has looked at a window yet.
LEMMA WindowInit == Init => Ahead /\ WindowInv
<1> SUFFICES ASSUME Init PROVE Ahead /\ WindowInv
  OBVIOUS
<1>1. Counting = {} /\ Owing = {}
  BY DEF Init, Counting, Owing, Sending, Late
<1>2. Cardinality({}) = 0 /\ N \in Nat /\ N >= 1
  BY FS_EmptySet, CallersAreCounted
<1>3. 0 \in Windows
  BY BoundsAssumption DEF Windows
<1>4. Ahead
  BY DEF Init, Ahead, Windows
<1>5. WindowInv
  <2>1. count[now] = 0 /\ sent[now] = 0 /\ \A w \in Windows : ~(w < now)
    BY <1>3 DEF Init, Windows
  <2>2. domain.perWindow \in Nat
    BY LimitsAreNumbers DEF Init
  <2> QED
    BY <1>1, <1>2, <2>1, <2>2 DEF WindowInv
<1> QED
  BY <1>4, <1>5

\* Windows stay empty until their time comes.
LEMMA AheadStep == TypeOK /\ Ahead /\ [Next]_vars => Ahead'
<1> SUFFICES ASSUME TypeOK, Ahead, [Next]_vars PROVE Ahead'
  OBVIOUS
<1>1. now \in Int /\ key \in [Caller -> Int] /\ \A w \in Windows : w \in Int
  BY BoundsAssumption DEF TypeOK, Windows
<1>2. CASE UNCHANGED vars
  BY <1>2 DEF vars, Ahead
<1>3. CASE Tick
  BY <1>1, <1>3 DEF Tick, Ahead
<1>4. ASSUME NEW c \in Caller, Step(c) PROVE Ahead'
  <2>1. CASE CountWindow(c)
    <3>1. key[c] <= now /\ key' = key /\ sent' = sent /\ now' = now
      BY <2>1 DEF CountWindow, Ahead
    <3>2. \A w \in Windows : w # key[c] => count'[w] = count[w]
      BY <2>1 DEF CountWindow, TypeOK
    <3> QED
      BY <1>1, <3>1, <3>2 DEF Ahead
  <2>2. CASE Send(c)
    <3>1. count' = count /\ key' = key /\ now' = now
      BY <2>2 DEF Send
    <3>2. \A w \in Windows : w # now => sent'[w] = sent[w]
      BY <2>2 DEF Send, TypeOK
    <3> QED
      BY <1>1, <3>1, <3>2 DEF Ahead
  <2>3. CASE ReadWindow(c)
    BY <1>1, <2>3 DEF ReadWindow, Ahead
  <2>4. CASE ~CountWindow(c) /\ ~Send(c) /\ ~ReadWindow(c)
    BY <1>4, <2>4 DEF Step, Ahead, Ask, CacheHit, CacheMiss, ReadDay, CountDay, Wake,
       Store, Bill
  <2> QED
    BY <2>1, <2>2, <2>3, <2>4
<1> QED
  BY <1>2, <1>3, <1>4 DEF Next

\* The next window starts empty, with everybody late at most.
LEMMA WindowTick ==
    ASSUME TypeOK, Ahead, WindowInv, Tick, domain.perWindow > 0
    PROVE  WindowInv'
<1>1. /\ domain' = domain /\ count' = count /\ sent' = sent /\ key' = key
      /\ now' = now + 1 /\ now' \in Windows
  BY BoundsAssumption DEF Tick, TypeOK, Windows
<1>2. /\ N \in Nat /\ N >= 1 /\ domain.perWindow \in Nat
      /\ now \in Nat /\ key \in [Caller -> Nat] /\ Windows \subseteq Nat
      /\ count \in [Windows -> Nat] /\ sent \in [Windows -> Nat]
  BY CallersAreCounted, LimitsAreNumbers, BoundsAssumption DEF TypeOK, Windows
<1>3. Counting' = {}
  BY <1>1, <1>2 DEF Ahead, Counting
<1>4. Cardinality(Counting') = 0
  BY <1>3, FS_EmptySet
<1>5. Owing' \in SUBSET Caller
  BY DEF Owing, Sending, Late
<1>6. Cardinality(Owing') \in Nat /\ Cardinality(Owing') <= N
  BY <1>5, SetsAreSmall
<1>7. count[now'] = 0 /\ sent[now'] = 0
  BY <1>1, <1>2 DEF Ahead
<1>8. Cardinality(Counting) \in Nat /\ Cardinality(Owing) \in Nat
  BY SetsAreSmall DEF Counting, Owing, Sending, Late
<1>9. sent[now] <= domain.perWindow + 2 * N - 1
  <2>1. now \in Windows
    BY DEF TypeOK
  <2>2. count[now] \in Nat /\ sent[now] \in Nat
    BY <1>2, <2>1
  <2> QED
    BY <1>2, <1>8, <2>2 DEF WindowInv
<1>10. \A w \in Windows : w < now' => sent'[w] <= domain'.perWindow + 2 * N - 1
  <2> SUFFICES ASSUME NEW w \in Windows, w < now'
               PROVE  sent[w] <= domain.perWindow + 2 * N - 1
    BY <1>1
  <2>1. w = now \/ w < now
    BY <1>1, <1>2
  <2> QED
    BY <1>9, <2>1 DEF WindowInv
<1>11. /\ count'[now'] + Cardinality(Counting') <= domain'.perWindow + N - 1
       /\ sent'[now'] + Cardinality(Owing') <= count'[now'] + N
  BY <1>1, <1>2, <1>4, <1>6, <1>7
<1> QED
  BY <1>10, <1>11 DEF WindowInv

\* Within a window a caller is let in only below the limit, counts for the
\* window it looked at, and is late only if it was late before.
LEMMA WindowStep ==
    ASSUME TypeOK, Ahead, WindowInv, domain.perWindow > 0, NEW c \in Caller, Step(c)
    PROVE  WindowInv'
<1>1. /\ domain' = domain /\ now' = now
      /\ \A d \in Caller \ {c} : pc'[d] = pc[d] /\ key'[d] = key[d] /\ tries'[d] = tries[d]
  BY DEF TypeOK, Goto, Step, Ask, CacheHit, CacheMiss, ReadDay, CountDay, ReadWindow,
     Wake, CountWindow, Send, Store, Bill
<1>2. /\ N \in Nat /\ N >= 1 /\ domain.perWindow \in Nat
      /\ now \in Nat /\ now \in Windows /\ key \in [Caller -> Nat] /\ Windows \subseteq Nat
      /\ count \in [Windows -> Nat] /\ sent \in [Windows -> Nat]
      /\ key[c] <= now
  BY CallersAreCounted, LimitsAreNumbers, BoundsAssumption DEF TypeOK, Windows, Ahead
<1>3. /\ count[now] + Cardinality(Counting) <= domain.perWindow + N - 1
      /\ sent[now] + Cardinality(Owing) <= count[now] + N
      /\ \A w \in Windows : w < now => sent[w] <= domain.perWindow + 2 * N - 1
  BY DEF WindowInv
<1> DEFINE S == Counting
           T == Counting'
           U == Owing
           V == Owing'
<1>4. /\ S \in SUBSET Caller /\ T \in SUBSET Caller
      /\ \A d \in Caller \ {c} : d \in S <=> d \in T
      /\ c \in S <=> pc[c] = "count" /\ key[c] = now
      /\ c \in T <=> pc'[c] = "count" /\ key'[c] = now
  BY <1>1 DEF Counting
<1>5. /\ U \in SUBSET Caller /\ V \in SUBSET Caller
      /\ \A d \in Caller \ {c} : d \in U <=> d \in V
      /\ c \in U <=> \/ pc[c] = "send" /\ tries[c] = 0 /\ key[c] = now
                     \/ /\ key[c] < now
                        /\ pc[c] \in {"asleep", "count"} \/ (pc[c] = "send" /\ tries[c] = 0)
      /\ c \in V <=> \/ pc'[c] = "send" /\ tries'[c] = 0 /\ key'[c] = now
                     \/ /\ key'[c] < now
                        /\ pc'[c] \in {"asleep", "count"} \/ (pc'[c] = "send" /\ tries'[c] = 0)
  BY <1>1 DEF Owing, Sending, Late
<1>6. /\ Cardinality(S) \in Nat /\ Cardinality(T) \in Nat /\ Cardinality(T) <= N
      /\ c \notin T /\ c \in S => Cardinality(T) = Cardinality(S) - 1
      /\ (c \in T <=> c \in S) => Cardinality(T) = Cardinality(S)
  BY <1>4, OneMoves
<1>7. /\ Cardinality(U) \in Nat /\ Cardinality(V) \in Nat
      /\ c \in V /\ c \notin U => Cardinality(V) = Cardinality(U) + 1
      /\ c \notin V /\ c \in U => Cardinality(V) = Cardinality(U) - 1
      /\ (c \in V <=> c \in U) => Cardinality(V) = Cardinality(U)
  BY <1>5, OneMoves
<1>8. /\ count[now] \in Nat /\ sent[now] \in Nat
  BY <1>2
<1> SUFFICES /\ count'[now] + Cardinality(T) <= domain.perWindow + N - 1
             /\ sent'[now] + Cardinality(V) <= count'[now] + N
             /\ \A w \in Windows : w < now => sent'[w] <= domain.perWindow + 2 * N - 1
  BY <1>1 DEF WindowInv
<1>9. CASE ReadWindow(c)
  <2>1. /\ count' = count /\ sent' = sent
        /\ c \notin S /\ c \notin U /\ c \notin V
        /\ c \in T => count[now] < domain.perWindow
    BY <1>2, <1>4, <1>5, <1>9 DEF ReadWindow, Goto, TypeOK
  <2>2. Cardinality(V) = Cardinality(U)
    BY <1>7, <2>1
  <2>3. count[now] + Cardinality(T) <= domain.perWindow + N - 1
    <3>1. CASE c \in T
      BY <1>2, <1>6, <1>8, <2>1, <3>1
    <3>2. CASE c \notin T
      BY <1>3, <1>6, <2>1, <3>2
    <3> QED
      BY <3>1, <3>2
  <2> QED
    BY <1>3, <2>1, <2>2, <2>3
<1>10. CASE CountWindow(c)
  <2>1. /\ sent' = sent /\ c \notin T
        /\ key' = key /\ pc[c] = "count" /\ pc'[c] = "send" /\ tries'[c] = 0
        /\ count' = [count EXCEPT ![key[c]] = @ + 1]
    BY <1>4, <1>10 DEF CountWindow, Goto, TypeOK
  <2>2. CASE key[c] = now
    <3>1. count'[now] = count[now] + 1 /\ c \in S /\ c \notin U /\ c \in V
      BY <1>2, <1>4, <1>5, <2>1, <2>2
    <3> HIDE DEF S, T, U, V
    <3> QED
      BY <1>2, <1>3, <1>6, <1>7, <1>8, <2>1, <3>1 DEF S, T, U, V
  <2>3. CASE key[c] # now
    <3>1. key[c] < now
      BY <1>2, <2>3
    <3>2. count'[now] = count[now] /\ key'[c] < now
      BY <1>2, <2>1, <2>3, <3>1
    <3>3. c \notin S
      BY <1>4, <2>3
    <3>4. c \in U
      <4>1. pc[c] \in {"asleep", "count"}
        BY <2>1
      <4> HIDE DEF U, V
      <4> QED
        BY <1>5, <3>1, <4>1
    <3>5. c \in V
      BY <1>5, <2>1, <3>2, Zenon
    <3> QED
      BY <1>3, <1>6, <1>7, <2>1, <3>2, <3>3, <3>4, <3>5
  <2> QED
    BY <2>2, <2>3
<1>11. CASE Send(c)
  <2>1. /\ count' = count /\ key' = key /\ pc[c] = "send"
        /\ sent' = IF tries[c] = 0 THEN [sent EXCEPT ![now] = @ + 1] ELSE sent
        /\ \/ pc'[c] \in {"store", "idle"}
           \/ pc'[c] = "send" /\ tries'[c] = tries[c] + 1
        /\ tries[c] \in Nat
    BY <1>11, BoundsAssumption DEF Send, Goto, TypeOK
  <2>2. c \notin S /\ c \notin T /\ c \notin V
    BY <1>4, <1>5, <2>1
  <2>3. \A w \in Windows : w < now => sent'[w] = sent[w]
    BY <1>2, <2>1
  <2>4. CASE tries[c] = 0
    <3>1. sent'[now] = sent[now] + 1
      BY <1>2, <2>1, <2>4
    <3>2. c \in U
      BY <1>2, <1>5, <2>1, <2>4
    <3> QED
      BY <1>3, <1>6, <1>7, <1>8, <1>2, <2>1, <2>2, <2>3, <3>1, <3>2
  <2>5. CASE tries[c] # 0
    <3>1. sent' = sent /\ c \notin U
      BY <1>5, <2>1, <2>5
    <3> QED
      BY <1>3, <1>6, <1>7, <2>1, <2>2, <3>1
  <2> QED
    BY <2>4, <2>5
<1>12. CASE Wake(c)
  <2>1. /\ count' = count /\ sent' = sent /\ key' = key
        /\ pc[c] = "asleep" /\ pc'[c] = "count" /\ now > key[c]
    BY <1>12 DEF Wake, Goto, TypeOK
  <2>2. key[c] < now /\ key[c] # now /\ key'[c] = key[c]
    BY <1>2, <2>1
  <2>3. c \notin S /\ c \notin T
    BY <1>4, <2>2
  <2>4. pc[c] \in {"asleep", "count"} /\ pc'[c] \in {"asleep", "count"}
    BY <2>1
  <2>5. c \in U
    BY <1>5, <2>2, <2>4
  <2>6. c \in V
    BY <1>5, <2>2, <2>4
  <2> QED
    BY <1>3, <1>6, <1>7, <2>1, <2>3, <2>5, <2>6
<1>13. CASE ~ReadWindow(c) /\ ~CountWindow(c) /\ ~Send(c) /\ ~Wake(c)
  <2>1. /\ count' = count /\ sent' = sent
        /\ c \notin S /\ c \notin T /\ c \notin U /\ c \notin V
    BY <1>4, <1>5, <1>13 DEF Step, Ask, CacheHit, CacheMiss, ReadDay, CountDay, Store,
       Bill, Goto, TypeOK
  <2> QED
    BY <1>3, <1>6, <1>7, <2>1
<1> QED
  BY <1>9, <1>10, <1>11, <1>12, <1>13

\* No window lets out more than its limit, one more for each other caller and
\* one for each that is late.
THEOREM WindowIsBounded == Spec => []WindowOverrunIsBounded
<1> DEFINE Inv == TypeOK /\ Ahead /\ WindowInv
<1>1. Init => Inv
  BY InitTyped, WindowInit
<1>2. Inv /\ [Next]_vars => Inv'
  <2> SUFFICES ASSUME Inv, [Next]_vars PROVE Inv'
    OBVIOUS
  <2>1. TypeOK' /\ Ahead'
    BY StepTyped, AheadStep
  <2>2. CASE UNCHANGED vars
    BY <2>2 DEF vars, WindowInv, Counting, Owing, Sending, Late, TypeOK, Ahead
  <2>3. CASE ~(domain.perWindow > 0) /\ Next
    <3>1. domain' = domain
      BY <2>3 DEF Next, Tick, Step, Ask, CacheHit, CacheMiss, ReadDay, CountDay,
         ReadWindow, Wake, CountWindow, Send, Store, Bill
    <3>2. WindowInv'
      BY <2>3, <3>1 DEF WindowInv
    <3> QED
      BY <2>1, <3>2
  <2>4. CASE domain.perWindow > 0 /\ Next
    BY <2>1, <2>4, WindowTick, WindowStep DEF Next
  <2> QED
    BY <2>2, <2>3, <2>4
<1>3. Inv => WindowOverrunIsBounded
  <2> SUFFICES ASSUME Inv, domain.perWindow > 0, NEW w \in Windows
               PROVE  sent[w] <= domain.perWindow + 2 * N - 1
    BY DEF WindowOverrunIsBounded
  <2>1. /\ N \in Nat /\ N >= 1 /\ domain.perWindow \in Nat
        /\ now \in Nat /\ w \in Nat /\ now \in Windows
        /\ count[now] \in Nat /\ sent[now] \in Nat
    BY CallersAreCounted, LimitsAreNumbers, BoundsAssumption DEF TypeOK, Windows
  <2>2. Cardinality(Counting) \in Nat /\ Cardinality(Owing) \in Nat
    BY SetsAreSmall DEF Counting, Owing, Sending, Late
  <2>3. CASE w < now
    BY <2>3 DEF WindowInv
  <2>4. CASE w = now
    BY <2>1, <2>2, <2>4 DEF WindowInv
  <2>5. CASE w > now
    BY <2>1, <2>5 DEF Ahead
  <2> QED
    BY <2>1, <2>3, <2>4, <2>5
<1> QED
  BY <1>1, <1>2, <1>3, PTL DEF Spec

=============================================================================
