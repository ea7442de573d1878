---------------------------- MODULE TimerManager ----------------------------
(***************************************************************************)
(* Timer/version02: timers in a multimap ordered by the time at which they *)
(* are due; update calls those that are due, and puts each back at its     *)
(* next time, while it walks over the same map.                            *)
(***************************************************************************)
EXTENDS Integers, Sequences, SequencesExt

CONSTANTS Ids,         \* timers that are scheduled
          Periods,     \* in units of the clock
          Limits,      \* how often a timer is called, -1 for no limit
          Horizon      \* the clock stops here

ASSUME PeriodsAssumption == Periods \subseteq Nat \ {0}
ASSUME LimitsAssumption == Limits \subseteq Int

VARIABLES
    clock,
    m_timers,  \* the multimap: a sequence of [time, id], by time, then insertion
    timer,     \* timer[i]: [period, repeat] and, for the record, total, born and calls
    upd        \* update: [on, now, it], `it' an index of m_timers

managerVars == <<clock, m_timers, timer, upd>>

NoTimer == [period |-> 0, repeat |-> 0, total |-> 0, born |-> -1, calls |-> 0]

ManagerInit ==
    /\ clock = 0 /\ m_timers = <<>>
    /\ timer = [i \in Ids |-> NoTimer]
    /\ upd = [on |-> FALSE, now |-> 0, it |-> 1]

\* multimap::insert: after the entries with the same key.
Position(s, time) == LET before == {k \in 1 .. Len(s) : s[k].time <= time}
                     IN  1 + (IF before = {} THEN 0 ELSE CHOOSE k \in before : \A j \in before : j <= k)

Tick == clock < Horizon /\ clock' = clock + 1 /\ UNCHANGED <<m_timers, timer, upd>>

\* A new timer is due at once: m_time is the time of its construction.
schedule(i) ==
    /\ ~upd.on /\ timer[i] = NoTimer
    /\ \E p \in Periods, r \in Limits :
          timer' = [timer EXCEPT ![i] = [period |-> p, repeat |-> r, total |-> r, born |-> clock, calls |-> 0]]
    /\ m_timers' = InsertAt(m_timers, Position(m_timers, clock), [time |-> clock, id |-> i])
    /\ UNCHANGED <<clock, upd>>

UpdateStarts ==
    /\ ~upd.on /\ m_timers # <<>>
    /\ upd' = [on |-> TRUE, now |-> clock, it |-> 1]
    /\ UNCHANGED <<clock, m_timers, timer>>

\* A timer whose count is used up neither calls nor moves on.
on_timer(t) == IF t.repeat = 0 THEN t
               ELSE [t EXCEPT !.calls = @ + 1, !.repeat = IF @ > 0 THEN @ - 1 ELSE @]

AtDueTimer == upd.it <= Len(m_timers) /\ m_timers[upd.it].time <= upd.now

\* Mutant: the iterator never goes back to the new entry.
Mut_UpdateStep ==
    /\ upd.on /\ AtDueTimer
    /\ LET e == m_timers[upd.it]
           t == on_timer(timer[e.id])
           rest == RemoveAt(m_timers, upd.it)
           next == e.time + (IF timer[e.id].repeat = 0 THEN 0 ELSE t.period)
       IN  /\ timer' = [timer EXCEPT ![e.id] = t]
           /\ m_timers' = IF t.repeat # 0 THEN InsertAt(rest, Position(rest, next), [time |-> next, id |-> e.id]) ELSE rest
           /\ upd' = IF t.repeat # 0 /\ Position(rest, next) <= upd.it THEN [upd EXCEPT !.it = @ + 1] ELSE upd
    /\ UNCHANGED clock

\* One turn of the loop.  The iterator goes on behind the erased entry, or
\* back to the new one if that comes first.
UpdateStep ==
    /\ upd.on /\ AtDueTimer
    /\ LET e == m_timers[upd.it]
           t == on_timer(timer[e.id])
           rest == RemoveAt(m_timers, upd.it)
           next == e.time + (IF timer[e.id].repeat = 0 THEN 0 ELSE t.period)
           new == Position(rest, next)
       IN  /\ timer' = [timer EXCEPT ![e.id] = t]
           /\ IF t.repeat # 0
              THEN /\ m_timers' = InsertAt(rest, new, [time |-> next, id |-> e.id])
                   /\ upd' = [upd EXCEPT !.it =
                        IF upd.it > Len(rest) \/ next < rest[upd.it].time THEN new ELSE @]
              ELSE m_timers' = rest /\ upd' = upd
    /\ UNCHANGED clock

UpdateReturns ==
    /\ upd.on /\ ~AtDueTimer
    /\ upd' = [upd EXCEPT !.on = FALSE]
    /\ UNCHANGED <<clock, m_timers, timer>>

ManagerNext == Tick \/ UpdateStarts \/ UpdateStep \/ UpdateReturns \/ \E i \in Ids : schedule(i)

-----------------------------------------------------------------------------
\* How often a timer must have been called by the time `now'.
Due(t, now) == LET n == (now - t.born) \div t.period + 1
               IN  IF t.total >= 0 /\ t.total < n THEN t.total ELSE n

\* Action property.  When update returns, every timer has been called exactly
\* as often as its period and its limit say, however late update was called
\* and however the entries moved while it walked over them.
FiredExactly ==
    [][upd.on /\ ~upd'.on => \A i \in Ids : timer[i] # NoTimer => timer[i].calls = Due(timer[i], upd.now)]_managerVars

=============================================================================
