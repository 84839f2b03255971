------------------------------ MODULE Lifespan ------------------------------
(***************************************************************************)
(* The lifespan of src/main.py around PublisherSupervisor: what runs while *)
(* the service is up, and the order in which the finally block stops it.   *)
(*                                                                         *)
(*   starting --> serving --> stopSiblings --> stopSupervisor              *)
(*        --> stopWorker --> closeRedis --> closePool --> down             *)
(*                                                                         *)
(* The Yahoo publishers ("siblings": US, extra, KRX and universe) start    *)
(* after the supervisor and stop before it, each if its setting enables    *)
(* it.  Nothing guards the finally block: a stop() that re-raises the      *)
(* exception its publisher died of leaves it at once ("aborted").          *)
(***************************************************************************)
EXTENDS PublisherSupervisor, Sequences

CONSTANT Siblings   \* the Yahoo publishers, in the order they are stopped

ASSUME SiblingsAssumption == Len(Siblings) \in Nat \ {0}

VARIABLES
  life,      \* progress of lifespan()
  sibling,   \* sibling[i] = the _task of Siblings[i]
  nextStop,  \* the sibling to stop next
  worker,    \* PersistenceWorker
  redis,     \* the Redis client is open
  pool       \* the database pool is open

lifeVars == <<life, sibling, nextStop, worker, redis, pool>>
vars     == <<supVars, lifeVars>>

Index == 1..Len(Siblings)

\* The pool and the client are open and the worker has been started.
Init ==
  /\ SupInit
  /\ life = "starting"
  /\ sibling = [i \in Index |-> "none"]
  /\ nextStop = 1
  /\ worker = "running"
  /\ redis = TRUE /\ pool = TRUE

\* The supervisor is up; the enabled siblings start (the universe publisher
\* stays off when it reads no ticker).
StartSiblings ==
  /\ life = "starting"
  /\ sup = "up"
  /\ life' = "serving"
  /\ \E enabled \in SUBSET Index :
       sibling' = [i \in Index |-> IF i \in enabled THEN "running" ELSE "none"]
  /\ UNCHANGED <<supVars, nextStop, worker, redis, pool>>

\* UsPublisher._run re-raises what publish() raises.
SiblingRaises(i) ==
  /\ sibling[i] = "running"
  /\ sibling' = [sibling EXCEPT ![i] = "raised"]
  /\ UNCHANGED <<supVars, life, nextStop, worker, redis, pool>>

Shutdown ==
  /\ life = "serving"
  /\ life' = "stopSiblings"
  /\ UNCHANGED <<supVars, sibling, nextStop, worker, redis, pool>>

\* Faulty variant: the supervisor is stopped without the siblings.
StopSiblingSkips ==
  /\ life = "stopSiblings"
  /\ nextStop \in Index
  /\ nextStop' = nextStop + 1
  /\ UNCHANGED <<supVars, life, sibling, worker, redis, pool>>

\* The next sibling's stop(): its task is cancelled and awaited.
StopSibling ==
  /\ life = "stopSiblings"
  /\ nextStop \in Index
  /\ IF sibling[nextStop] = "raised"
     THEN life' = "aborted" /\ UNCHANGED <<sibling, nextStop>>
     ELSE /\ sibling' = [sibling EXCEPT ![nextStop] = "none"]
          /\ nextStop' = nextStop + 1
          /\ UNCHANGED life
  /\ UNCHANGED <<supVars, worker, redis, pool>>

StopSupervisor ==
  /\ life = "stopSiblings"
  /\ nextStop \notin Index
  /\ life' = "stopSupervisor"
  /\ Stop
  /\ UNCHANGED <<sibling, nextStop, worker, redis, pool>>

\* Faulty variant: the finally block waits for a supervisor that raised.
SupervisorStopsOnly ==
  /\ life = "stopSupervisor"
  /\ sup = "stopped"
  /\ life' = "stopWorker"
  /\ UNCHANGED <<supVars, sibling, nextStop, worker, redis, pool>>

\* supervisor.stop() returned, or raised.
SupervisorStops ==
  /\ life = "stopSupervisor"
  /\ sup \in {"stopped", "raised"}
  /\ life' = IF sup = "stopped" THEN "stopWorker" ELSE "aborted"
  /\ UNCHANGED <<supVars, sibling, nextStop, worker, redis, pool>>

\* Faulty variant: the client is closed under the worker.
StopWorkerLast ==
  /\ life = "stopWorker"
  /\ life' = "closeRedis"
  /\ redis' = FALSE
  /\ UNCHANGED <<supVars, sibling, nextStop, worker, pool>>

\* persistence_worker.stop() drains the buffer and never raises.
StopWorker ==
  /\ life = "stopWorker"
  /\ life' = "closeRedis"
  /\ worker' = "drained"
  /\ UNCHANGED <<supVars, sibling, nextStop, redis, pool>>

CloseRedis ==
  /\ life = "closeRedis"
  /\ life' = "closePool"
  /\ redis' = FALSE
  /\ UNCHANGED <<supVars, sibling, nextStop, worker, pool>>

ClosePool ==
  /\ life = "closePool"
  /\ life' = "down"
  /\ pool' = FALSE
  /\ UNCHANGED <<supVars, sibling, nextStop, worker, redis>>

ShutdownStep ==
  \/ StopSibling
  \/ StopSupervisor
  \/ StopStep /\ UNCHANGED lifeVars
  \/ SupervisorStops
  \/ StopWorker
  \/ CloseRedis
  \/ ClosePool

Next ==
  \/ Start /\ UNCHANGED lifeVars
  \/ SupTasks /\ UNCHANGED lifeVars
  \/ StartSiblings
  \/ \E i \in Index : SiblingRaises(i)
  \/ Shutdown
  \/ ShutdownStep

\* What the finally block awaits ends, and the watchdog's sleep ends.
Fairness == WF_vars(Watchdog /\ UNCHANGED lifeVars) /\ WF_vars(ShutdownStep)

Spec     == Init /\ [][Next]_vars
FairSpec == Spec /\ Fairness

-----------------------------------------------------------------------------
(* Properties.                                                             *)

TypeOK ==
  /\ SupTypeOK
  /\ life \in {"starting", "serving", "stopSiblings", "stopSupervisor", "stopWorker",
               "closeRedis", "closePool", "down", "aborted"}
  /\ sibling \in [Index -> {"none", "running", "raised"}]
  /\ nextStop \in 1..Len(Siblings) + 1
  /\ worker \in {"running", "drained"}
  /\ redis \in BOOLEAN /\ pool \in BOOLEAN

\* main.py: when the worker takes its last flush, no publisher is left that
\* could put another tick on the channel.
QuietBeforeDrain ==
  worker = "drained" =>
    /\ \A i \in Index : sibling[i] # "running"
    /\ kisTask \notin KisLive
    /\ mockTask # "running"

\* Whoever uses Redis or the database is done before it is closed.
ResourcesOutliveUsers ==
  (~redis \/ ~pool) =>
    /\ worker = "drained"
    /\ sup \in {"stopped", "raised"}
    /\ refreshTask \in {"none", "cancelled"}

\* A shutdown ends.
ShutdownEnds == life = "stopSiblings" ~> life \in {"down", "aborted"}

\* main.py: the finally block "drains pending tick buffer"; persistence_worker:
\* "Final drain -- never lose what's in the buffer at shutdown".
DrainedAtExit == life \in {"down", "aborted"} => worker = "drained"
=============================================================================
