----------------------------- MODULE TimerThread ----------------------------
(***************************************************************************)
(* Timer/version01: start launches a detached thread that sleeps and calls *)
(* m_func until m_active goes false, or m_repeat times.  The threads of    *)
(* successive starts share m_active, m_repeat and m_func; sleeping takes   *)
(* any time.                                                               *)
(***************************************************************************)
EXTENDS Integers

CONSTANTS MaxStarts,   \* calls of start that launch a thread
          Repeats      \* arguments of the constructor, -1 for no limit

VARIABLES m_active, m_repeat, at, old, since

timerVars == <<m_active, m_repeat, at, old, since>>

Runs == 1 .. MaxStarts
TimerInit ==
    /\ m_active = FALSE
    /\ m_repeat \in Repeats
    /\ at = [t \in Runs |-> "none"]
    /\ old = [t \in Runs |-> 0]      \* m_repeat as read by m_repeat--
    /\ since = [t \in Runs |-> 0]    \* calls of m_func since the last stop

Goto(t, l) == at' = [at EXCEPT ![t] = l]
m_func(t) == since' = [since EXCEPT ![t] = IF m_active THEN 0 ELSE @ + 1]

\* start returns at once while the timer is active.
start ==
    /\ ~m_active
    /\ m_active' = TRUE
    /\ \E t \in Runs : at[t] = "none" /\ (\A u \in Runs : u < t => at[u] # "none") /\ Goto(t, "begin")
    /\ UNCHANGED <<m_repeat, old, since>>

stop ==
    /\ m_active' = FALSE
    /\ since' = IF m_active THEN [t \in Runs |-> 0] ELSE since
    /\ UNCHANGED <<m_repeat, at, old>>

Begin(t) ==
    /\ at[t] = "begin"
    /\ Goto(t, IF m_repeat < 0 THEN "while" ELSE "repeat")
    /\ UNCHANGED <<m_active, m_repeat, old, since>>

\* The timer without a limit: test, sleep, test, call.
While(t) ==
    /\ at[t] = "while"
    /\ Goto(t, IF m_active THEN "sleep" ELSE "ended")
    /\ UNCHANGED <<m_active, m_repeat, old, since>>

Sleep(t) ==
    /\ at[t] = "sleep"
    /\ Goto(t, IF m_active THEN "call" ELSE "ended")
    /\ UNCHANGED <<m_active, m_repeat, old, since>>

Call(t) ==
    /\ at[t] = "call"
    /\ m_func(t) /\ Goto(t, "while")
    /\ UNCHANGED <<m_active, m_repeat, old>>

\* The timer with a limit: test, sleep, call, test, call again, count.
Repeat(t) ==
    /\ at[t] = "repeat"
    /\ Goto(t, IF m_repeat > 0 /\ m_active THEN "sleep1" ELSE "ended")
    /\ UNCHANGED <<m_active, m_repeat, old, since>>

CallFirst(t) ==
    /\ at[t] = "sleep1"
    /\ m_func(t) /\ Goto(t, "between")
    /\ UNCHANGED <<m_active, m_repeat, old>>

\* Mutant: the second call of a round is made without testing m_active again.
Mut_Between(t) ==
    /\ at[t] = "between"
    /\ Goto(t, "again")
    /\ UNCHANGED <<m_active, m_repeat, old, since>>

Between(t) ==
    /\ at[t] = "between"
    /\ Goto(t, IF m_active THEN "again" ELSE "ended")
    /\ UNCHANGED <<m_active, m_repeat, old, since>>

CallAgain(t) ==
    /\ at[t] = "again"
    /\ m_func(t) /\ Goto(t, "count")
    /\ old' = [old EXCEPT ![t] = m_repeat]
    /\ UNCHANGED <<m_active, m_repeat>>

Count(t) ==
    /\ at[t] = "count"
    /\ m_repeat' = old[t] - 1
    /\ Goto(t, "repeat")
    /\ UNCHANGED <<m_active, old, since>>

TimerNext ==
    \/ start \/ stop
    \/ \E t \in Runs : Begin(t) \/ While(t) \/ Sleep(t) \/ Call(t) \/ Repeat(t) \/ CallFirst(t)
                         \/ Between(t) \/ CallAgain(t) \/ Count(t)

\* Safety.  After stop, and until the next start, each thread still alive calls
\* the function at most once more, wherever stop found it.
CallsAfterStop == ~m_active => \A t \in Runs : since[t] <= 1

=============================================================================
