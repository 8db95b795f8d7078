--------------------------- MODULE ProgressProofs ---------------------------
(***************************************************************************)
(* StepsInRange and LastStepReceived for any number of threads and         *)
(* subscribers, any totals and amounts, and a channel of any capacity.     *)
(***************************************************************************)
EXTENDS Progress, Integers, FiniteSetTheorems, TLAPS

\* What a thread computed is at most steps; what it is about to send, and
\* what is in the channel, is at least 1 as well: a step is sent only if it
\* is larger than some step before it.
StepBound ==
    /\ total \in Nat /\ count \in Nat /\ last_step \in Nat
    /\ pc \in [Threads -> {"idle", "load", "swap", "send", "panicked"}]
    /\ mine \in [Threads -> Nat]
    /\ step \in [Threads -> 0..steps]
    /\ \A t \in Threads : pc[t] = "send" => step[t] >= 1
ChannelBound ==
    /\ sent \in Seq(1..steps)
    /\ since \in [Subscribers -> Nat] /\ next \in [Subscribers -> Nat]
    /\ \A u \in Subscribers : since[u] # 0 => next[u] >= 1
    /\ seen \in [Subscribers -> SUBSET (1..steps)]

\* The step that inc computes is at most steps, since the count is capped by
\* the total that is divided by.
LEMMA StepAtMost ==
    ASSUME NEW c \in Nat, NEW n \in Nat \ {0}
    PROVE  StepOf(c, n) \in 0..steps
<1> DEFINE m == IF c < n THEN c ELSE n
<1>1. m \in Nat /\ m <= n
  OBVIOUS
<1>2. steps \in Nat
  BY ProgressAssumption
<1>3. m * steps \in Nat /\ m * steps <= n * steps
  <2> HIDE DEF m
  <2>1. PICK d \in Nat : n = m + d
    <3>1. n - m \in Nat /\ n = m + (n - m)
      BY <1>1
    <3> QED BY <3>1
  <2>2. n * steps = m * steps + d * steps
    BY <2>1, <1>1, <1>2
  <2>3. d * steps \in Nat /\ m * steps \in Nat
    BY <2>1, <1>1, <1>2
  <2> QED BY <2>2, <2>3
<1>4. ASSUME NEW a \in Nat, a <= n * steps
      PROVE  a \div n \in 0..steps
  <2> DEFINE q == a \div n
  <2>1. q \in Int /\ n * q <= a /\ a < n * (q + 1)
    OBVIOUS
  <2> HIDE DEF q
  <2>2. q <= steps
    <3> SUFFICES ASSUME q >= steps + 1 PROVE FALSE
      BY <2>1, <1>2
    <3>1. PICK d \in Nat : q = steps + 1 + d
      <4>1. q - (steps + 1) \in Nat /\ q = steps + 1 + (q - (steps + 1))
        BY <2>1, <1>2
      <4> QED BY <4>1
    <3>2. n * q = n * steps + n + n * d
      BY <3>1, <1>2
    <3>3. n * d \in Nat
      BY <3>1
    <3> QED BY <3>2, <3>3, <2>1, <1>4, <1>2
  <2>3. q >= 0
    <3> SUFFICES ASSUME q <= -1 PROVE FALSE
      BY <2>1
    <3>1. PICK d \in Nat : q + 1 = -d
      <4>1. -(q + 1) \in Nat /\ q + 1 = -(-(q + 1))
        BY <2>1
      <4> QED BY <4>1
    <3>2. n * (q + 1) = -(n * d) /\ n * d \in Nat
      BY <3>1
    <3> QED BY <3>2, <2>1, <1>4
  <2> QED BY <2>1, <2>2, <2>3, <1>2 DEF q
<1> QED
  <2> HIDE DEF m
  <2>1. (m * steps) \div n \in 0..steps
    BY <1>3, <1>4
  <2> QED BY <2>1 DEF StepOf, m

\* An element of a sequence is of the sequence's type.
LEMMA ElementOfSeq ==
    ASSUME NEW S, NEW q \in Seq(S), NEW i \in 1..Len(q)
    PROVE  q[i] \in S
OBVIOUS

\* Both bounds hold when the emitter is new.
LEMMA BoundInit == Init => StepBound /\ ChannelBound
BY ProgressAssumption DEF Init, StepBound, ChannelBound

\* Every access to the atomics keeps the bound on what threads computed.
LEMMA StepBoundStep == StepBound /\ [Next]_progVars => StepBound'
<1> SUFFICES ASSUME StepBound, [Next]_progVars PROVE StepBound'
  OBVIOUS
<1>0. steps \in Nat /\ Amounts \subseteq Nat /\ Totals \subseteq Nat
  BY ProgressAssumption
<1>1. ASSUME NEW t \in Threads, NEW a \in Amounts, FetchAdd(t, a) PROVE StepBound'
  BY <1>0, <1>1 DEF FetchAdd, StepBound, totalVars
<1>2. ASSUME NEW t \in Threads, LoadTotal(t) PROVE StepBound'
  <2>1. StepOf(mine[t], total) \in 0..steps
    BY <1>2, StepAtMost DEF LoadTotal, StepBound
  <2> QED BY <1>0, <1>2, <2>1 DEF LoadTotal, StepBound, totalVars
<1>3. ASSUME NEW t \in Threads, DivideByZero(t) PROVE StepBound'
  BY <1>0, <1>3 DEF DivideByZero, StepBound, totalVars
<1>4. ASSUME NEW t \in Threads, Swap(t) PROVE StepBound'
  BY <1>0, <1>4 DEF Swap, StepBound, totalVars
<1>5. ASSUME NEW t \in Threads, Send(t) PROVE StepBound'
  BY <1>0, <1>5 DEF Send, StepBound, totalVars
<1>6. ASSUME NEW n \in Totals, SetTotal(n) PROVE StepBound'
  BY <1>0, <1>6 DEF SetTotal, StepBound, incVars
<1>7. ASSUME NEW u \in Subscribers, Subscribe(u) \/ Recv(u) \/ RecvLagged(u) PROVE StepBound'
  BY <1>0, <1>7 DEF Subscribe, Recv, RecvLagged, StepBound, incVars, totalVars
<1>8. CASE UNCHANGED progVars
  BY <1>0, <1>8 DEF progVars, StepBound, incVars, totalVars
<1> QED BY <1>1, <1>2, <1>3, <1>4, <1>5, <1>6, <1>7, <1>8 DEF Next, Inc

\* Every send, subscription and recv keeps the bound on the channel.
LEMMA ChannelBoundStep == StepBound /\ ChannelBound /\ [Next]_progVars => ChannelBound'
<1> SUFFICES ASSUME StepBound, ChannelBound, [Next]_progVars PROVE ChannelBound'
  OBVIOUS
<1>0. steps \in Nat /\ CAP \in Nat \ {0}
  BY ProgressAssumption
<1>1. ASSUME NEW t \in Threads, Send(t) PROVE ChannelBound'
  <2>1. step[t] \in 1..steps
    BY <1>0, <1>1 DEF Send, StepBound
  <2>2. sent' \in Seq(1..steps)
    BY <1>1, <2>1 DEF Send, ChannelBound
  <2> QED BY <1>1, <2>2 DEF Send, ChannelBound, rxVars
<1>2. ASSUME NEW u \in Subscribers, Subscribe(u) PROVE ChannelBound'
  <2>1. Len(sent) + 1 \in Nat /\ Len(sent) + 1 >= 1
    BY DEF ChannelBound
  <2> QED BY <1>2, <2>1 DEF Subscribe, ChannelBound, incVars
<1>3. ASSUME NEW u \in Subscribers, Recv(u) PROVE ChannelBound'
  <2>1. next[u] \in 1..Len(sent)
    BY <1>3 DEF Recv, ChannelBound
  <2>2. sent[next[u]] \in 1..steps
    <3>1. sent \in Seq(1..steps)
      BY DEF ChannelBound
    <3> QED BY <2>1, <3>1, ElementOfSeq
  <2>3. next[u] + 1 \in Nat /\ next[u] + 1 >= 1
    BY <2>1
  <2>4. seen' \in [Subscribers -> SUBSET (1..steps)]
    <3> DEFINE x == sent[next[u]]
    <3>1. x \in 1..steps
      BY <2>2
    <3>2. seen' = [seen EXCEPT ![u] = @ \cup {x}]
      BY <1>3 DEF Recv
    <3> HIDE DEF x
    <3>3. seen[u] \cup {x} \in SUBSET (1..steps)
      BY <3>1 DEF ChannelBound
    <3> QED BY <3>2, <3>3 DEF ChannelBound
  <2> QED BY <1>3, <2>3, <2>4 DEF Recv, ChannelBound, incVars
<1>4. ASSUME NEW u \in Subscribers, RecvLagged(u) PROVE ChannelBound'
  <2>1. Len(sent) - CAP + 1 \in Nat /\ Len(sent) - CAP + 1 >= 1
    BY <1>0, <1>4 DEF RecvLagged, Lags, ChannelBound
  <2> QED BY <1>4, <2>1 DEF RecvLagged, ChannelBound, incVars
<1>5. CASE UNCHANGED <<sent, since, next, seen>>
  BY <1>5 DEF ChannelBound
<1>6. ASSUME NEW t \in Threads,
             LoadTotal(t) \/ DivideByZero(t) \/ Swap(t) \/ \E a \in Amounts : FetchAdd(t, a)
      PROVE  ChannelBound'
  BY <1>5, <1>6 DEF LoadTotal, DivideByZero, Swap, FetchAdd, rxVars
<1>7. ASSUME NEW n \in Totals, SetTotal(n) PROVE ChannelBound'
  BY <1>5, <1>7 DEF SetTotal, incVars, rxVars
<1>8. CASE UNCHANGED progVars
  BY <1>5, <1>8 DEF progVars, incVars, rxVars
<1> QED BY <1>1, <1>2, <1>3, <1>4, <1>6, <1>7, <1>8 DEF Next, Inc

\* What threads computed and what is in the channel is in range.
LEMMA BoundInvariant == Spec => [](StepBound /\ ChannelBound)
<1>1. StepBound /\ ChannelBound /\ [Next]_progVars => (StepBound /\ ChannelBound)'
  BY StepBoundStep, ChannelBoundStep
<1> QED BY <1>1, BoundInit, PTL DEF Spec

\* Subscribers get numbers from 1 to steps only: for any number of threads
\* between whose atomic accesses others run, for any changes of the total,
\* and for subscribers that lag behind a channel of any capacity.
THEOREM ProgressStepsInRange == Spec => []StepsInRange
<1>1. ChannelBound => StepsInRange
  BY DEF ChannelBound, StepsInRange
<1> QED BY <1>1, BoundInvariant, PTL

(***************************************************************************)
(* LastStepReceived.                                                       *)
(***************************************************************************)

\* The total has not been set again, and there is something to report.
Steady == sets = 0 /\ total # 0 /\ steps # 0

\* The calls of inc under way, those that add up to less than the total and
\* those that reach it.
Busy(t) == pc[t] \in {"load", "swap", "send"}
Below == {t \in Threads : Busy(t) /\ mine[t] < total}
Reaches(t) == Busy(t) /\ mine[t] >= total

\* The last step is in the channel, with no more values behind it than
\* threads that were below the total may have sent since or are about to.
LastStepKept ==
    \E k \in 1..Len(sent) :
        sent[k] = steps /\ (Len(sent) - k) + Cardinality(Below) < Cardinality(Threads)

\* Once the count has reached the total, the last step was sent, or is about
\* to be, or a thread will find that the last step is still to be sent.
CountInv ==
    sets \in Nat /\ (Steady =>
        /\ \A t \in Threads : Busy(t) => mine[t] <= count
        /\ \A t \in Threads : pc[t] \in {"swap", "send"} => step[t] = StepOf(mine[t], total)
        /\ last_step <= steps /\ (last_step = steps => count >= total)
        /\ count >= total =>
              \/ LastStepKept
              \/ \E t \in Threads : pc[t] = "send" /\ Reaches(t)
              \/ last_step < steps /\ \E t \in Threads : Reaches(t))

\* A subscriber has seen what it has passed, except what the channel forgot.
SeenInv ==
    \A u \in Subscribers : since[u] # 0 =>
        /\ next[u] <= Len(sent) + 1
        /\ \A j \in since[u]..Len(sent) :
              j < next[u] /\ j + CAP > Len(sent) => sent[j] \in seen[u]

\* The step that inc computes is the last one exactly when the count has
\* reached the total.
LEMMA StepReached ==
    ASSUME NEW c \in Nat, NEW n \in Nat \ {0}, steps # 0
    PROVE  StepOf(c, n) = steps <=> c >= n
<1>1. steps \in Nat \ {0}
  BY ProgressAssumption
<1>2. CASE c >= n
  <2> DEFINE q == (n * steps) \div n
  <2>1. StepOf(c, n) = q /\ q \in 0..steps
    BY <1>2, StepAtMost DEF StepOf
  <2>2. n * steps \in Nat
    BY <1>1
  <2>3. \A a \in Nat : a < n * ((a \div n) + 1)
    OBVIOUS
  <2>4. n * steps < n * (q + 1)
    BY <2>2, <2>3
  <2> HIDE DEF q
  <2>5. ASSUME q + 1 <= steps PROVE FALSE
    <3>1. PICK d \in Nat : steps = (q + 1) + d
      <4>1. steps - (q + 1) \in Nat /\ steps = (q + 1) + (steps - (q + 1))
        BY <1>1, <2>1, <2>5
      <4> QED BY <4>1
    <3>2. n * steps = n * (q + 1) + n * d
      BY <2>1, <3>1
    <3>3. n * d \in Nat /\ n * (q + 1) \in Nat
      BY <2>1, <3>1
    <3> QED BY <2>4, <3>2, <3>3
  <2> QED BY <1>1, <1>2, <2>1, <2>5
<1>3. CASE c < n
  <2> DEFINE q == (c * steps) \div n
  <2>1. StepOf(c, n) = q /\ q \in 0..steps
    BY <1>3, StepAtMost DEF StepOf
  <2>2. c * steps \in Nat
    BY <1>1
  <2>3. \A a \in Nat : n * (a \div n) <= a
    OBVIOUS
  <2>4. n * q <= c * steps
    BY <2>2, <2>3
  <2> HIDE DEF q
  <2>5. ASSUME q = steps PROVE FALSE
    <3>1. PICK d \in Nat : n = c + 1 + d
      <4>1. n - (c + 1) \in Nat /\ n = c + 1 + (n - (c + 1))
        BY <1>3
      <4> QED BY <4>1
    <3>2. n * steps = c * steps + steps + d * steps
      BY <1>1, <3>1
    <3>3. d * steps \in Nat
      BY <1>1, <3>1
    <3> QED BY <1>1, <2>2, <2>4, <2>5, <3>2, <3>3
  <2> QED BY <1>3, <2>1, <2>5
<1> QED BY <1>2, <1>3

\* There are finitely many threads, so the ones below the total are counted.
LEMMA BelowFinite ==
    ASSUME NEW T \in SUBSET Threads
    PROVE  /\ Cardinality(Threads) \in Nat /\ Cardinality(T) \in Nat
           /\ Cardinality(T) <= Cardinality(Threads)
           /\ \A t \in Threads \ T : Cardinality(T) < Cardinality(Threads)
           /\ \A t \in T : Cardinality(T \ {t}) = Cardinality(T) - 1
           /\ \A U \in SUBSET T : Cardinality(U) \in Nat /\ Cardinality(U) <= Cardinality(T)
<1>1. IsFiniteSet(Threads) /\ Cardinality(Threads) \in Nat
  BY ProgressAssumption, FS_CardinalityType
<1>2. /\ IsFiniteSet(T) /\ Cardinality(T) <= Cardinality(Threads)
      /\ Cardinality(Threads) = Cardinality(T) => Threads = T
  BY <1>1, FS_Subset
<1>3. Cardinality(T) \in Nat
  BY <1>2, FS_CardinalityType
<1>4. \A t \in Threads \ T : Cardinality(T) < Cardinality(Threads)
  BY <1>1, <1>2, <1>3
<1>5. \A t \in T : Cardinality(T \ {t}) = Cardinality(T) - 1
  BY <1>2, FS_RemoveElement
<1>6. \A U \in SUBSET T : Cardinality(U) \in Nat /\ Cardinality(U) <= Cardinality(T)
  BY <1>2, FS_Subset, FS_CardinalityType
<1> QED BY <1>1, <1>2, <1>3, <1>4, <1>5, <1>6

\* The last step stays in the channel while nothing is sent and no thread
\* begins below the total.
LEMMA KeptStays ==
    ASSUME ChannelBound, LastStepKept, sent' = sent, Below' \subseteq Below
    PROVE  LastStepKept'
<1>1. PICK k \in 1..Len(sent) :
        sent[k] = steps /\ (Len(sent) - k) + Cardinality(Below) < Cardinality(Threads)
  BY DEF LastStepKept
<1>2. Below \in SUBSET Threads
  BY DEF Below
<1>3. /\ Cardinality(Threads) \in Nat /\ Cardinality(Below) \in Nat
      /\ Cardinality(Below') \in Nat /\ Cardinality(Below') <= Cardinality(Below)
  BY <1>2, BelowFinite
<1>4. Len(sent) \in Nat
  BY DEF ChannelBound
<1>5. (Len(sent) - k) + Cardinality(Below') < Cardinality(Threads)
  BY <1>1, <1>3, <1>4
<1> QED BY <1>1, <1>5 DEF LastStepKept

\* A step of t, in its call of inc or at its beginning.
OneThread(t) ==
    /\ UNCHANGED totalVars
    /\ \A r \in Threads \ {t} : pc'[r] = pc[r] /\ mine'[r] = mine[r] /\ step'[r] = step[r]

\* The other threads are where they were.
LEMMA OthersStay ==
    ASSUME NEW t \in Threads, OneThread(t)
    PROVE  /\ Steady' = Steady
           /\ \A r \in Threads \ {t} : Busy(r)' = Busy(r) /\ Reaches(r)' = Reaches(r)
           /\ Below' \ {t} = Below \ {t}
BY DEF OneThread, totalVars, Steady, Busy, Reaches, Below

\* fetch_add: a call begins; the first that reaches the total finds that the
\* last step was not reached before.
LEMMA CountFetchAdd ==
    ASSUME StepBound, ChannelBound, CountInv, NEW t \in Threads, NEW a \in Amounts, FetchAdd(t, a)
    PROVE  CountInv'
<1>1. /\ UNCHANGED <<last_step, sent, step, total, sets>>
      /\ count' = count + a /\ pc[t] = "idle"
      /\ mine' = [mine EXCEPT ![t] = count + a] /\ pc' = [pc EXCEPT ![t] = "load"]
  BY DEF FetchAdd, totalVars
<1>2. /\ a \in Nat /\ count \in Nat /\ count' \in Nat /\ total \in Nat /\ last_step \in Nat
      /\ mine \in [Threads -> Nat]
      /\ mine'[t] = count + a /\ pc'[t] = "load" /\ steps \in Nat
      /\ \A r \in Threads \ {t} : pc'[r] = pc[r] /\ mine'[r] = mine[r]
  BY <1>1, ProgressAssumption DEF StepBound
<1>3. OneThread(t)
  BY <1>1, <1>2 DEF OneThread, totalVars
<1> SUFFICES ASSUME Steady PROVE (CountInv /\ Steady)'
  BY <1>1, <1>3, OthersStay DEF CountInv
<1>4. /\ \A r \in Threads : Busy(r) => mine[r] <= count
      /\ \A r \in Threads : pc[r] \in {"swap", "send"} => step[r] = StepOf(mine[r], total)
      /\ last_step <= steps /\ (last_step = steps => count >= total)
  BY DEF CountInv
<1>5. ASSUME NEW r \in Threads, Busy(r)' PROVE mine'[r] <= count'
  <2>1. CASE r = t
    BY <1>1, <1>2, <2>1
  <2>2. CASE r # t
    <3>1. mine'[r] = mine[r] /\ mine[r] \in Nat /\ mine[r] <= count
      BY <1>2, <1>3, <1>4, <1>5, <2>2, OthersStay
    <3> QED BY <1>1, <1>2, <3>1
  <2> QED BY <2>1, <2>2
<1>6. \A r \in Threads : pc'[r] \in {"swap", "send"} => step'[r] = StepOf(mine'[r], total)
  BY <1>1, <1>2, <1>4
<1>7. ASSUME count' >= total
      PROVE  \/ LastStepKept'
             \/ \E r \in Threads : (pc[r] = "send" /\ Reaches(r))'
             \/ last_step < steps /\ \E r \in Threads : Reaches(r)'
  <2>1. Reaches(t)'
    BY <1>1, <1>2, <1>7 DEF Reaches, Busy
  <2>2. CASE last_step < steps
    BY <2>1, <2>2
  <2>3. CASE last_step = steps
    <3>1. count >= total
      BY <1>4, <2>3
    <3>2. CASE LastStepKept
      <4>1. Below' \subseteq Below
        <5>1. t \notin Below'
          BY <1>1, <1>2, <1>7 DEF Below
        <5>2. Below' \ {t} = Below \ {t}
          BY <1>3, OthersStay
        <5> QED BY <5>1, <5>2
      <4> QED BY <1>1, <3>2, <4>1, KeptStays
    <3>3. CASE \E r \in Threads : pc[r] = "send" /\ Reaches(r)
      <4>1. PICK r \in Threads : pc[r] = "send" /\ Reaches(r)
        BY <3>3
      <4>2. r # t
        BY <1>1, <4>1
      <4> QED BY <1>2, <1>3, <4>1, <4>2, OthersStay
    <3> QED BY <1>2, <2>3, <3>1, <3>2, <3>3 DEF CountInv
  <2> QED BY <1>2, <1>4, <2>2, <2>3
<1>8. Steady'
  BY <1>3, OthersStay
<1>9. sets' \in Nat /\ total' = total /\ last_step' = last_step
  BY <1>1 DEF CountInv
<1>10. last_step <= steps /\ (last_step = steps => count' >= total)
  BY <1>1, <1>2, <1>4
<1> QED BY <1>5, <1>6, <1>7, <1>8, <1>9, <1>10 DEF CountInv

\* total.load: the step is computed.
LEMMA CountLoad ==
    ASSUME StepBound, ChannelBound, CountInv, NEW t \in Threads, LoadTotal(t)
    PROVE  CountInv'
<1>1. /\ UNCHANGED <<count, last_step, sent, mine, total, sets>> /\ pc[t] = "load"
      /\ step' = [step EXCEPT ![t] = StepOf(mine[t], total)] /\ pc' = [pc EXCEPT ![t] = "swap"]
  BY DEF LoadTotal, totalVars
<1>2. /\ pc'[t] = "swap" /\ step'[t] = StepOf(mine[t], total)
      /\ \A r \in Threads \ {t} : pc'[r] = pc[r] /\ step'[r] = step[r]
  BY <1>1 DEF StepBound
<1>3. OneThread(t)
  BY <1>1, <1>2 DEF OneThread, totalVars
<1>4. \A r \in Threads : Busy(r)' = Busy(r) /\ Reaches(r)' = Reaches(r)
  BY <1>1, <1>2 DEF Busy, Reaches
<1>5. Below' \subseteq Below
  BY <1>1, <1>4 DEF Below
<1>6. \A r \in Threads : pc[r] = "send" => pc'[r] = "send"
  BY <1>1, <1>2
<1> SUFFICES ASSUME Steady PROVE (CountInv /\ Steady)'
  BY <1>1, <1>3, OthersStay DEF CountInv
<1>7. \A r \in Threads : pc'[r] \in {"swap", "send"} => step'[r] = StepOf(mine'[r], total)
  BY <1>1, <1>2 DEF CountInv
<1>8. LastStepKept => LastStepKept'
  BY <1>1, <1>5, KeptStays
<1> QED BY <1>1, <1>3, <1>4, <1>6, <1>7, <1>8, OthersStay DEF CountInv

\* last_step.swap: of the threads that reach the total the first to swap
\* sends the last step; one below the total may take the step back, and then
\* the last step was sent or is being sent.
LEMMA CountSwap ==
    ASSUME StepBound, ChannelBound, CountInv, NEW t \in Threads, Swap(t)
    PROVE  CountInv'
<1>1. /\ UNCHANGED <<count, sent, mine, step, total, sets>> /\ pc[t] = "swap"
      /\ last_step' = step[t]
      /\ pc' = [pc EXCEPT ![t] = IF step[t] > last_step THEN "send" ELSE "idle"]
  BY DEF Swap, totalVars
<1>2. /\ pc'[t] = IF step[t] > last_step THEN "send" ELSE "idle"
      /\ \A r \in Threads \ {t} : pc'[r] = pc[r]
  BY <1>1 DEF StepBound
<1>3. /\ OneThread(t) /\ Busy(t)
      /\ steps \in Nat /\ last_step \in Nat /\ step[t] \in 0..steps
      /\ mine[t] \in Nat /\ total \in Nat /\ count \in Nat
  BY <1>1, <1>2, ProgressAssumption DEF OneThread, totalVars, Busy, StepBound
<1> SUFFICES ASSUME Steady PROVE (CountInv /\ Steady)'
  BY <1>1, <1>3, OthersStay DEF CountInv
<1>4. /\ \A r \in Threads : Busy(r) => mine[r] <= count
      /\ \A r \in Threads : pc[r] \in {"swap", "send"} => step[r] = StepOf(mine[r], total)
      /\ last_step <= steps /\ (last_step = steps => count >= total)
  BY DEF CountInv
<1>5. step[t] = steps <=> mine[t] >= total
  BY <1>1, <1>3, <1>4, StepReached DEF Steady
<1>6. Busy(t)' => Busy(t)
  BY <1>3
<1>7. Below' \subseteq Below
  BY <1>1, <1>3, OthersStay DEF Below
<1>8. \A r \in Threads : Busy(r)' => mine'[r] <= count'
  BY <1>1, <1>3, <1>4, OthersStay
<1>9. \A r \in Threads : pc'[r] \in {"swap", "send"} => step'[r] = StepOf(mine'[r], total)
  BY <1>1, <1>2, <1>4
<1>10. last_step' <= steps /\ (last_step' = steps => count' >= total)
  BY <1>1, <1>3, <1>4, <1>5
<1>11. ASSUME count >= total
       PROVE  \/ LastStepKept'
              \/ \E r \in Threads : (pc[r] = "send" /\ Reaches(r))'
              \/ last_step' < steps /\ \E r \in Threads : Reaches(r)'
  <2>1. CASE LastStepKept
    BY <1>1, <1>7, <2>1, KeptStays
  <2>2. CASE \E r \in Threads : pc[r] = "send" /\ Reaches(r)
    <3>1. PICK r \in Threads : pc[r] = "send" /\ Reaches(r)
      BY <2>2
    <3>2. r # t
      BY <1>1, <3>1
    <3> QED BY <1>2, <1>3, <3>1, <3>2, OthersStay
  <2>3. CASE last_step < steps /\ mine[t] >= total
    <3>1. pc'[t] = "send" /\ Reaches(t)'
      BY <1>1, <1>2, <1>5, <2>3 DEF Reaches, Busy
    <3> QED BY <3>1
  <2>4. CASE last_step < steps /\ mine[t] < total /\ \E r \in Threads : Reaches(r)
    <3>1. PICK r \in Threads : Reaches(r)
      BY <2>4
    <3>2. r # t
      BY <1>3, <2>4, <3>1 DEF Reaches
    <3>3. Reaches(r)'
      BY <1>3, <3>1, <3>2, OthersStay
    <3>4. last_step' < steps
      BY <1>1, <1>3, <1>5, <2>4
    <3> QED BY <3>3, <3>4
  <2> QED BY <1>3, <1>11, <2>1, <2>2, <2>3, <2>4 DEF CountInv
<1> QED
  BY <1>1, <1>3, <1>8, <1>9, <1>10, <1>11, OthersStay DEF CountInv

\* tx.send: the last step is in the channel with nothing behind it, or a
\* thread below the total has sent what it was counted for.
LEMMA CountSend ==
    ASSUME StepBound, ChannelBound, CountInv, NEW t \in Threads, Send(t)
    PROVE  CountInv'
<1>1. /\ UNCHANGED <<count, last_step, mine, step, total, sets>> /\ pc[t] = "send"
      /\ sent' = Append(sent, step[t]) /\ pc' = [pc EXCEPT ![t] = "idle"]
  BY DEF Send, totalVars
<1>2. /\ pc'[t] = "idle" /\ \A r \in Threads \ {t} : pc'[r] = pc[r]
  BY <1>1 DEF StepBound
<1>3. /\ OneThread(t) /\ Busy(t)
      /\ steps \in Nat /\ last_step \in Nat /\ step[t] \in 0..steps
      /\ mine[t] \in Nat /\ total \in Nat
  BY <1>1, <1>2, ProgressAssumption DEF OneThread, totalVars, Busy, StepBound
<1>4. /\ Len(sent) \in Nat /\ Len(sent') = Len(sent) + 1
      /\ sent'[Len(sent) + 1] = step[t]
      /\ \A k \in 1..Len(sent) : sent'[k] = sent[k]
  BY <1>1, <1>3 DEF ChannelBound
<1> SUFFICES ASSUME Steady PROVE (CountInv /\ Steady)'
  BY <1>1, <1>3, OthersStay DEF CountInv
<1>5. /\ \A r \in Threads : Busy(r) => mine[r] <= count
      /\ \A r \in Threads : pc[r] \in {"swap", "send"} => step[r] = StepOf(mine[r], total)
      /\ last_step <= steps /\ (last_step = steps => count >= total)
  BY DEF CountInv
<1>6. step[t] = steps <=> mine[t] >= total
  BY <1>1, <1>3, <1>5, StepReached DEF Steady
<1>7. \A r \in Threads : Busy(r)' => mine'[r] <= count'
  BY <1>1, <1>3, <1>5, OthersStay
<1>8. \A r \in Threads : pc'[r] \in {"swap", "send"} => step'[r] = StepOf(mine'[r], total)
  BY <1>1, <1>2, <1>5
<1>9. Below' = Below \ {t} /\ Below \in SUBSET Threads /\ Below' \in SUBSET Threads
  <2>1. t \notin Below'
    BY <1>2 DEF Below, Busy
  <2>2. Below' \ {t} = Below \ {t}
    BY <1>3, OthersStay
  <2> QED BY <2>1, <2>2 DEF Below
<1>10. ASSUME count >= total
       PROVE  \/ LastStepKept'
              \/ \E r \in Threads : (pc[r] = "send" /\ Reaches(r))'
              \/ last_step < steps /\ \E r \in Threads : Reaches(r)'
  <2>1. CASE mine[t] >= total
    <3>1. Cardinality(Below') < Cardinality(Threads) /\ Cardinality(Below') \in Nat
      BY <1>9, BelowFinite
    <3>2. /\ Len(sent) + 1 \in 1..Len(sent') /\ sent'[Len(sent) + 1] = steps
          /\ Len(sent') - (Len(sent) + 1) = 0
      BY <1>4, <1>6, <2>1
    <3>3. (Len(sent') - (Len(sent) + 1)) + Cardinality(Below') < Cardinality(Threads)
      BY <3>1, <3>2
    <3> QED BY <3>2, <3>3 DEF LastStepKept
  <2>2. CASE mine[t] < total /\ LastStepKept
    <3>1. PICK k \in 1..Len(sent) :
            sent[k] = steps /\ (Len(sent) - k) + Cardinality(Below) < Cardinality(Threads)
      BY <2>2 DEF LastStepKept
    <3>2. t \in Below
      BY <1>3, <2>2 DEF Below
    <3>3. /\ Cardinality(Below') = Cardinality(Below) - 1
          /\ Cardinality(Below) \in Nat /\ Cardinality(Threads) \in Nat
      BY <1>9, <3>2, BelowFinite
    <3>4. (Len(sent') - k) + Cardinality(Below') < Cardinality(Threads)
      BY <1>4, <3>1, <3>3
    <3>5. k \in 1..Len(sent') /\ sent'[k] = steps
      BY <1>4, <3>1
    <3> QED BY <3>4, <3>5 DEF LastStepKept
  <2>3. CASE mine[t] < total /\ \E r \in Threads : pc[r] = "send" /\ Reaches(r)
    <3>1. PICK r \in Threads : pc[r] = "send" /\ Reaches(r)
      BY <2>3
    <3>2. r # t
      BY <1>3, <2>3, <3>1 DEF Reaches
    <3> QED BY <1>2, <1>3, <3>1, <3>2, OthersStay
  <2>4. CASE mine[t] < total /\ last_step < steps /\ \E r \in Threads : Reaches(r)
    <3>1. PICK r \in Threads : Reaches(r)
      BY <2>4
    <3>2. r # t
      BY <1>3, <2>4, <3>1 DEF Reaches
    <3>3. Reaches(r)'
      BY <1>3, <3>1, <3>2, OthersStay
    <3> QED BY <2>4, <3>3
  <2> QED BY <1>3, <1>10, <2>1, <2>2, <2>3, <2>4 DEF CountInv
<1>11. Steady'
  BY <1>3, OthersStay
<1>12. sets' \in Nat /\ total' = total /\ last_step' = last_step /\ count' = count
  BY <1>1 DEF CountInv
<1> QED BY <1>5, <1>7, <1>8, <1>10, <1>11, <1>12 DEF CountInv

\* Every step keeps CountInv.
LEMMA CountStep == StepBound /\ ChannelBound /\ CountInv /\ [Next]_progVars => CountInv'
<1> SUFFICES ASSUME StepBound, ChannelBound, CountInv, [Next]_progVars PROVE CountInv'
  OBVIOUS
<1>1. CASE UNCHANGED <<incVars, totalVars>>
  <2>1. UNCHANGED <<count, last_step, sent, pc, mine, step, total, sets>>
    BY <1>1 DEF incVars, totalVars
  <2>2. /\ Steady' = Steady /\ \A t : Busy(t)' = Busy(t) /\ Reaches(t)' = Reaches(t)
    BY <2>1 DEF Steady, Busy, Reaches
  <2>3. Below' = Below
    BY <2>1, <2>2 DEF Below
  <2>4. LastStepKept' = LastStepKept
    BY <2>1, <2>3 DEF LastStepKept
  <2> QED BY <2>1, <2>2, <2>4 DEF CountInv
<1>2. ASSUME NEW t \in Threads, DivideByZero(t) PROVE CountInv'
  <2>1. total' = total /\ total = 0 /\ sets' = sets
    BY <1>2 DEF DivideByZero, totalVars
  <2> QED BY <2>1 DEF CountInv, Steady
<1>3. ASSUME NEW n \in Totals, SetTotal(n) PROVE CountInv'
  <2>1. sets' \in Nat /\ sets' # 0
    BY <1>3 DEF SetTotal, CountInv
  <2> QED BY <2>1 DEF CountInv, Steady
<1>4. ASSUME NEW u \in Subscribers, Subscribe(u) \/ Recv(u) \/ RecvLagged(u) PROVE CountInv'
  BY <1>1, <1>4 DEF Subscribe, Recv, RecvLagged
<1>5. CASE UNCHANGED progVars
  BY <1>1, <1>5 DEF progVars
<1> QED BY <1>2, <1>3, <1>4, <1>5, CountFetchAdd, CountLoad, CountSwap, CountSend DEF Next, Inc

\* Sends, subscriptions and recv keep SeenInv: a value is passed unseen only
\* when the channel has forgotten it.
LEMMA SeenStep == StepBound /\ ChannelBound /\ SeenInv /\ [Next]_progVars => SeenInv'
<1> SUFFICES ASSUME StepBound, ChannelBound, SeenInv, [Next]_progVars PROVE SeenInv'
  OBVIOUS
<1>0. CAP \in Nat \ {0} /\ steps \in Nat
  BY ProgressAssumption
<1>1. CASE UNCHANGED <<sent, rxVars>>
  BY <1>1 DEF SeenInv, rxVars
<1>2. ASSUME NEW t \in Threads, Send(t) PROVE SeenInv'
  <2>1. sent' = Append(sent, step[t]) /\ since' = since /\ next' = next /\ seen' = seen
    BY <1>2 DEF Send, rxVars
  <2>2. /\ Len(sent) \in Nat /\ Len(sent') = Len(sent) + 1
        /\ \A j \in 1..Len(sent) : sent'[j] = sent[j]
    BY <2>1 DEF ChannelBound, StepBound
  <2> SUFFICES ASSUME NEW u \in Subscribers, since[u] # 0
               PROVE  /\ next[u] <= Len(sent') + 1
                      /\ \A j \in since[u]..Len(sent') :
                            j < next[u] /\ j + CAP > Len(sent') => sent'[j] \in seen[u]
    BY <2>1 DEF SeenInv
  <2>3. /\ next[u] \in Nat /\ since[u] \in Nat /\ next[u] <= Len(sent) + 1
        /\ \A j \in since[u]..Len(sent) :
              j < next[u] /\ j + CAP > Len(sent) => sent[j] \in seen[u]
    BY DEF SeenInv, ChannelBound
  <2>4. ASSUME NEW j \in since[u]..Len(sent'), j < next[u], j + CAP > Len(sent')
        PROVE  sent'[j] \in seen[u]
    <3>1. j \in since[u]..Len(sent) /\ j + CAP > Len(sent) /\ j \in 1..Len(sent)
      BY <1>0, <2>2, <2>3, <2>4
    <3> QED BY <2>2, <2>3, <2>4, <3>1
  <2> QED BY <2>2, <2>3, <2>4
<1>3. ASSUME NEW u \in Subscribers, Subscribe(u) PROVE SeenInv'
  <2>1. /\ since' = [since EXCEPT ![u] = Len(sent) + 1] /\ next' = [next EXCEPT ![u] = Len(sent) + 1]
        /\ sent' = sent /\ seen' = seen /\ Len(sent) \in Nat
    BY <1>3 DEF Subscribe, incVars, ChannelBound
  <2> SUFFICES ASSUME NEW v \in Subscribers, since'[v] # 0
               PROVE  /\ next'[v] <= Len(sent) + 1
                      /\ \A j \in since'[v]..Len(sent) :
                            j < next'[v] /\ j + CAP > Len(sent) => sent[j] \in seen[v]
    BY <2>1 DEF SeenInv
  <2>2. CASE v = u
    BY <2>1, <2>2 DEF ChannelBound
  <2>3. CASE v # u
    BY <2>1, <2>3 DEF SeenInv, ChannelBound
  <2> QED BY <2>2, <2>3
<1>4. ASSUME NEW u \in Subscribers, Recv(u) \/ RecvLagged(u) PROVE SeenInv'
  <2>1. /\ since' = since /\ sent' = sent /\ Len(sent) \in Nat
        /\ \A v \in Subscribers \ {u} : next'[v] = next[v] /\ seen'[v] = seen[v]
        /\ next[u] \in Nat /\ since[u] \in Nat
    BY <1>4 DEF Recv, RecvLagged, incVars, ChannelBound
  <2>2. \/ /\ next[u] <= Len(sent) /\ next'[u] = next[u] + 1
           /\ seen'[u] = seen[u] \cup {sent[next[u]]}
        \/ next'[u] = Len(sent) - CAP + 1 /\ seen'[u] = seen[u]
    BY <1>4 DEF Recv, RecvLagged, ChannelBound
  <2> SUFFICES ASSUME NEW v \in Subscribers, since[v] # 0
               PROVE  /\ next'[v] <= Len(sent) + 1
                      /\ \A j \in since[v]..Len(sent) :
                            j < next'[v] /\ j + CAP > Len(sent) => sent[j] \in seen'[v]
    BY <2>1 DEF SeenInv
  <2>3. CASE v # u
    BY <2>1, <2>3 DEF SeenInv
  <2>4. CASE v = u
    <3>1. next'[u] <= Len(sent) + 1
      BY <1>0, <2>1, <2>2
    <3>2. ASSUME NEW j \in since[u]..Len(sent), j < next'[u], j + CAP > Len(sent)
          PROVE  sent[j] \in seen'[u]
      <4>1. /\ next'[u] = next[u] + 1 /\ seen'[u] = seen[u] \cup {sent[next[u]]}
        BY <1>0, <2>1, <2>2, <3>2
      <4>2. j = next[u] \/ j < next[u]
        BY <2>1, <3>2, <4>1
      <4> QED BY <2>4, <3>2, <4>1, <4>2 DEF SeenInv
    <3> QED BY <2>4, <3>1, <3>2
  <2> QED BY <2>3, <2>4
<1>5. ASSUME NEW t \in Threads,
             LoadTotal(t) \/ DivideByZero(t) \/ Swap(t) \/ \E a \in Amounts : FetchAdd(t, a)
      PROVE  SeenInv'
  BY <1>1, <1>5 DEF LoadTotal, DivideByZero, Swap, FetchAdd
<1>6. ASSUME NEW n \in Totals, SetTotal(n) PROVE SeenInv'
  BY <1>1, <1>6 DEF SetTotal, incVars
<1>7. CASE UNCHANGED progVars
  BY <1>1, <1>7 DEF progVars, incVars
<1> QED BY <1>2, <1>3, <1>4, <1>5, <1>6, <1>7 DEF Next, Inc

\* The last step reaches every subscriber that was there from the beginning
\* and keeps up with the end of the channel: threads may overtake each other
\* between any two of their four accesses, and take last_step back, as long
\* as there are no more of them than the channel keeps values.
THEOREM ProgressLastStepReceived == Spec => []LastStepReceived
<1>1. Init => CountInv /\ SeenInv
  <2> SUFFICES ASSUME Init PROVE CountInv /\ SeenInv
    OBVIOUS
  <2>1. /\ \A t \in Threads : ~Busy(t) /\ pc[t] \notin {"swap", "send"}
        /\ sets \in Nat /\ last_step = 0 /\ count = 0 /\ total \in Nat /\ steps \in Nat
    BY ProgressAssumption DEF Init, Busy
  <2>2. CountInv
    BY <2>1 DEF CountInv, Steady
  <2>3. SeenInv
    BY DEF Init, SeenInv
  <2> QED BY <2>2, <2>3
<1>2. StepBound /\ ChannelBound /\ CountInv /\ SeenInv => LastStepReceived
  <2> SUFFICES ASSUME StepBound, ChannelBound, CountInv, SeenInv, Steady, count >= total,
                      \A t \in Threads : pc[t] = "idle", Cardinality(Threads) <= CAP,
                      NEW u \in Subscribers, since[u] = 1, next[u] > Len(sent)
               PROVE  steps \in seen[u]
    BY DEF LastStepReceived, Steady
  <2>1. LastStepKept
    BY DEF CountInv, Reaches, Busy
  <2>2. PICK k \in 1..Len(sent) :
          sent[k] = steps /\ (Len(sent) - k) + Cardinality(Below) < Cardinality(Threads)
    BY <2>1 DEF LastStepKept
  <2>3. Cardinality(Below) \in Nat /\ Cardinality(Threads) \in Nat
    <3>1. Below \in SUBSET Threads
      BY DEF Below
    <3> QED BY <3>1, BelowFinite
  <2>4. /\ CAP \in Nat /\ Len(sent) \in Nat /\ next[u] \in Nat
    BY ProgressAssumption DEF ChannelBound
  <2>5. k + CAP > Len(sent) /\ k < next[u]
    BY <2>2, <2>3, <2>4
  <2> QED BY <2>2, <2>5 DEF SeenInv
<1> QED BY <1>1, <1>2, BoundInvariant, CountStep, SeenStep, PTL DEF Spec
=============================================================================
