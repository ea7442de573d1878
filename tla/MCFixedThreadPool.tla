-------------------------- MODULE MCFixedThreadPool --------------------------
(* The two pools of a fixed number of threads.  They share nothing; a      *)
(* behaviour is one of one of them, chosen by `which'.                     *)
EXTENDS FixedThreadPool, DetachedPool

VARIABLE which

PoolsInit == which \in {"joined", "detached"} /\ Init /\ DetachedInit

PoolsNext ==
  /\ which' = which
  /\ \/ which = "joined" /\ Next /\ UNCHANGED poolState
     \/ which = "detached" /\ DetachedNext /\ UNCHANGED vars

(* The operating system runs every runnable thread: a worker that can step *)
(* steps, a caller that pushed reaches its notify_one, and the destructor, *)
(* once called, goes on.  Nothing forces a client to call anything, and no *)
(* wakeup comes without a notification unless the library likes.           *)
PoolsSpec ==
  /\ PoolsInit /\ [][PoolsNext]_<<which, vars, poolState>>
  /\ \A w \in Workers : WF_vars(which = "joined" /\ WorkerStep(w))
  /\ \A c \in Callers : WF_vars(which = "joined" /\ NotifyOne(c))
  /\ WF_vars(which = "joined" /\ DtorNotifyAll)
  /\ WF_vars(which = "joined" /\ DtorJoin)
  /\ \A t \in PoolThreads : WF_poolState(which = "detached" /\ PoolThreadStep(t))
  /\ \A o \in Owners : WF_poolState(which = "detached" /\ AddNotifies(o))
  /\ WF_poolState(which = "detached" /\ DtorNotifies)

(* Liveness.  In both pools what was handed in is run and closing ends: a  *)
(* caller of the first waits for its future and its destructor for the     *)
(* workers, in the second the threads drain the queue and leave.           *)
PoolsServe == CallersServed /\ DetachedDrains
=============================================================================
