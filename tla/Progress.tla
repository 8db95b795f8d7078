------------------------------ MODULE Progress ------------------------------
(***************************************************************************)
(* The progress emitter (progress.rs).  Its clones may be used by several  *)
(* threads at once; `inc' is four accesses to shared atomics, here one     *)
(* action each:                                                            *)
(*    count.fetch_add, total.load, last_step.swap, tx.send.                *)
(* A read through wrap_async_read calls inc with the bytes it got, which   *)
(* is 0 at the end of the data.                                            *)
(*                                                                         *)
(* Subscribers read from tokio's broadcast channel (external, modelled     *)
(* from its use): it keeps the last CAP values, and a receiver that is     *)
(* further behind is told so and goes on with the oldest one kept.         *)
(***************************************************************************)
EXTENDS Naturals, Sequences, FiniteSets

CONSTANTS
    Threads,     \* users of clones of the emitter
    Subscribers, \* receivers
    Amounts,     \* amounts one call adds
    Totals,      \* totals given to new and set_total
    steps,       \* the number of steps given to new
    CAP,         \* the values the channel keeps (16)
    MaxCalls,    \* bound: calls of inc by one thread
    MaxSets      \* bound: calls of set_total

ASSUME ProgressAssumption ==
    /\ IsFiniteSet(Threads) /\ Amounts \subseteq Nat /\ Totals \subseteq Nat
    /\ steps \in Nat /\ CAP \in Nat \ {0} /\ MaxCalls \in Nat /\ MaxSets \in Nat

VARIABLES
    total,     \* the total to reach
    count,     \* the sum of all increments so far
    last_step, \* the step of the last swap
    sent,      \* the values sent to the channel, in order
    pc,        \* pc[t]: the access thread t does next
    mine,      \* mine[t]: its local copy of count
    step,      \* step[t]: the step it computed
    calls,     \* calls[t]: its calls of inc
    sets,      \* calls of set_total
    since,     \* since[u]: the place in sent at which u subscribed, or 0
    next,      \* next[u]: the place of the next value u reads
    seen       \* seen[u]: the values u received

incVars == <<count, last_step, sent, pc, mine, step, calls>>
totalVars == <<total, sets>>
rxVars == <<since, next, seen>>
progVars == <<totalVars, incVars, rxVars>>

\* ProgressEmitter::new; the receiver that comes with the channel is dropped.
Init ==
    /\ total \in Totals
    /\ count = 0
    /\ last_step = 0
    /\ sent = <<>>
    /\ pc = [t \in Threads |-> "idle"]
    /\ mine = [t \in Threads |-> 0]
    /\ step = [t \in Threads |-> 0]
    /\ calls = [t \in Threads |-> 0]
    /\ sets = 0
    /\ since = [u \in Subscribers |-> 0]
    /\ next = [u \in Subscribers |-> 0]
    /\ seen = [u \in Subscribers |-> {}]

(***************************************************************************)
(* inc                                                                     *)
(***************************************************************************)
FetchAdd(t, amount) ==
    /\ pc[t] = "idle" /\ calls[t] < MaxCalls
    /\ count' = count + amount
    /\ mine' = [mine EXCEPT ![t] = count + amount]
    /\ pc' = [pc EXCEPT ![t] = "load"]
    /\ calls' = [calls EXCEPT ![t] = @ + 1]
    /\ UNCHANGED <<last_step, sent, step, totalVars, rxVars>>

\* Mutant of StepOf: the count is not capped by the total.
StepOfUncapped(c, n) == (c * steps) \div n

StepOf(c, n) == ((IF c < n THEN c ELSE n) * steps) \div n

LoadTotal(t) ==
    /\ pc[t] = "load" /\ total # 0
    /\ step' = [step EXCEPT ![t] = StepOf(mine[t], total)]
    /\ pc' = [pc EXCEPT ![t] = "swap"]
    /\ UNCHANGED <<count, last_step, sent, mine, calls, totalVars, rxVars>>

\* The division panics.
DivideByZero(t) ==
    /\ pc[t] = "load" /\ total = 0
    /\ pc' = [pc EXCEPT ![t] = "panicked"]
    /\ UNCHANGED <<count, last_step, sent, mine, step, calls, totalVars, rxVars>>

\* Mutant of Swap: a step that skips some is not sent.
SwapNext(t) ==
    /\ pc[t] = "swap"
    /\ last_step' = step[t]
    /\ pc' = [pc EXCEPT ![t] = IF step[t] = last_step + 1 THEN "send" ELSE "idle"]
    /\ UNCHANGED <<count, sent, mine, step, calls, totalVars, rxVars>>

Swap(t) ==
    /\ pc[t] = "swap"
    /\ last_step' = step[t]
    /\ pc' = [pc EXCEPT ![t] = IF step[t] > last_step THEN "send" ELSE "idle"]
    /\ UNCHANGED <<count, sent, mine, step, calls, totalVars, rxVars>>

\* Without receivers the channel drops the value, which nobody could read
\* later either: a receiver starts behind what was sent.
Send(t) ==
    /\ pc[t] = "send"
    /\ sent' = Append(sent, step[t])
    /\ pc' = [pc EXCEPT ![t] = "idle"]
    /\ UNCHANGED <<count, last_step, mine, step, calls, totalVars, rxVars>>

SetTotal(value) ==
    /\ sets < MaxSets
    /\ total' = value
    /\ sets' = sets + 1
    /\ UNCHANGED <<incVars, rxVars>>

(***************************************************************************)
(* subscribe, and recv on the receiver.                                    *)
(***************************************************************************)
Subscribe(u) ==
    /\ since[u] = 0
    /\ since' = [since EXCEPT ![u] = Len(sent) + 1]
    /\ next' = [next EXCEPT ![u] = Len(sent) + 1]
    /\ UNCHANGED <<seen, incVars, totalVars>>

Lags(u) == next[u] + CAP <= Len(sent)

Recv(u) ==
    /\ since[u] # 0 /\ next[u] <= Len(sent) /\ ~Lags(u)
    /\ seen' = [seen EXCEPT ![u] = @ \cup {sent[next[u]]}]
    /\ next' = [next EXCEPT ![u] = @ + 1]
    /\ UNCHANGED <<since, incVars, totalVars>>

\* RecvError::Lagged: the receiver goes on with the oldest value kept.
RecvLagged(u) ==
    /\ since[u] # 0 /\ Lags(u)
    /\ next' = [next EXCEPT ![u] = Len(sent) - CAP + 1]
    /\ UNCHANGED <<since, seen, incVars, totalVars>>

Inc(t) == LoadTotal(t) \/ DivideByZero(t) \/ Swap(t) \/ Send(t)

Next ==
    \/ \E t \in Threads : Inc(t) \/ \E a \in Amounts : FetchAdd(t, a)
    \/ \E n \in Totals : SetTotal(n)
    \/ \E u \in Subscribers : Subscribe(u) \/ Recv(u) \/ RecvLagged(u)

Spec == Init /\ [][Next]_progVars

(***************************************************************************)
(* Properties.                                                             *)
(***************************************************************************)

\* Subscribers get numbers from 1 to steps only, from any number of threads
\* and whatever set_total does meanwhile, below the count or to zero.
StepsInRange == \A u \in Subscribers : seen[u] \subseteq 1..steps

\* The last step reaches a subscriber that was there from the beginning and
\* has read everything, although threads overtake each other between their
\* four accesses and the channel forgets what the subscriber is too slow
\* for - as long as the total stays what it was and no more threads use the
\* emitter than the channel keeps values.
LastStepReceived ==
    (/\ sets = 0 /\ total # 0 /\ steps # 0 /\ count >= total
     /\ \A t \in Threads : pc[t] = "idle"
     /\ Cardinality(Threads) <= CAP)
      => \A u \in Subscribers :
            since[u] = 1 /\ next[u] > Len(sent) => steps \in seen[u]
=============================================================================
