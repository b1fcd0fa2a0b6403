----------------------------- MODULE Orchestrator ------------------------------
(***************************************************************************)
(* The runner orchestrator: the job queue, the entitlements, the worker    *)
(* manager, the processing interval and the health check interval.  Users  *)
(* only share the queue, so the model has one.                             *)
(***************************************************************************)
EXTENDS Naturals, Sequences, FiniteSets, SequencesExt

CONSTANTS
  Tiers,           (* worker limits of the tiers the user may have         *)
  HealthChecks,    (* health checks that may overlap                       *)
  RestartLimit,    (* restarts of one worker (3 in the code)               *)
  MaxJobs, MaxStalls (* bounds on jobs and on stalls of the process        *)

ASSUME OrchestratorAssumption ==
  Tiers \subseteq Nat \ {0} /\ Tiers # {} /\ {RestartLimit, MaxJobs, MaxStalls} \subseteq Nat

VARIABLES
  job,      (* job -> status                                               *)
  jobOrder, (* queued jobs, oldest first                                   *)
  proc,     (* isProcessing, and the job in hand                           *)
  workers,  (* worker id -> [job, status, restarts], as in WorkerManager   *)
  spawned,  (* worker ids given out                                        *)
  health,   (* health check -> the workers it found crashed, and where     *)
  ent,      (* the entitlement: [max, active]                              *)
  top,      (* history: the highest limit the user ever had                *)
  stalls
orchestratorVars == <<job, jobOrder, proc, workers, spawned, health, ent, top, stalls>>

Asleep == [pc |-> "asleep", todo |-> {}, w |-> 0, restarts |-> 0]
NoJob == [pc |-> "idle", j |-> 0]
Smallest(S) == CHOOSE x \in S : \A y \in S : x <= y

OrchestratorInit ==
  /\ job = <<>> /\ jobOrder = <<>> /\ proc = NoJob
  /\ workers = <<>> /\ spawned = 0
  /\ health = [h \in HealthChecks |-> Asleep]
  /\ ent = [max |-> Smallest(Tiers), active |-> TRUE] /\ top = Smallest(Tiers)
  /\ stalls = 0

(* checkEntitlement; stopped workers stay in the map and count. *)
Entitled(count) == ent.active /\ count < ent.max
Count == Cardinality(DOMAIN workers)
Put2(f, x, v) == [y \in DOMAIN f \cup {x} |-> IF y = x THEN v ELSE f[y]]
Forget(f, x) == [y \in DOMAIN f \ {x} |-> f[y]]

StartRunner ==
  /\ Len(job) < MaxJobs /\ Entitled(Count)
  /\ job' = Append(job, "queued")
  /\ jobOrder' = Append(jobOrder, Len(job'))
  /\ UNCHANGED <<proc, workers, spawned, health, ent, top, stalls>>

(* processQueue, one at a time: dequeue, check again, spawn. *)
ProcessTake ==
  /\ proc = NoJob /\ jobOrder # <<>>
  /\ proc' = [pc |-> "check", j |-> Head(jobOrder)]
  /\ jobOrder' = Tail(jobOrder)
  /\ UNCHANGED <<job, workers, spawned, health, ent, top, stalls>>

(* Mutant: the lock is not given back to a user who is not entitled. *)
ProcessKeepsLock ==
  /\ proc.pc = "check"
  /\ IF Entitled(Count)
       THEN job' = [job EXCEPT ![proc.j] = "running"] /\ proc' = [proc EXCEPT !.pc = "spawn"]
       ELSE job' = [job EXCEPT ![proc.j] = "failed"] /\ proc' = [proc EXCEPT !.pc = "idle"]
  /\ UNCHANGED <<jobOrder, workers, spawned, health, ent, top, stalls>>

(* Mutant: only startRunner checks the limit. *)
ProcessUnchecked ==
  /\ proc.pc = "check"
  /\ job' = [job EXCEPT ![proc.j] = "running"] /\ proc' = [proc EXCEPT !.pc = "spawn"]
  /\ UNCHANGED <<jobOrder, workers, spawned, health, ent, top, stalls>>

ProcessCheck ==
  /\ proc.pc = "check"
  /\ IF Entitled(Count)
       THEN job' = [job EXCEPT ![proc.j] = "running"] /\ proc' = [proc EXCEPT !.pc = "spawn"]
       ELSE job' = [job EXCEPT ![proc.j] = "failed"] /\ proc' = NoJob
  /\ UNCHANGED <<jobOrder, workers, spawned, health, ent, top, stalls>>

(* spawnWorker registers the worker after all its awaits. *)
Spawn(j, restarts) ==
  /\ spawned' = spawned + 1
  /\ workers' = Put2(workers, spawned', [job |-> j, status |-> "running", restarts |-> restarts])

ProcessSpawn ==
  /\ proc.pc = "spawn"
  /\ \/ Spawn(proc.j, 0) /\ UNCHANGED job
     \/ job' = [job EXCEPT ![proc.j] = "failed"] /\ UNCHANGED <<workers, spawned>>
  /\ proc' = NoJob
  /\ UNCHANGED <<jobOrder, health, ent, top, stalls>>

(* The process stalls for longer than the stale threshold, and the health  *)
(* check marks a worker; its runner is still there.                        *)
MarkStale(w) ==
  /\ stalls < MaxStalls /\ stalls' = stalls + 1
  /\ workers[w].status = "running"
  /\ workers' = [workers EXCEPT ![w].status = "crashed"]
  /\ UNCHANGED <<job, jobOrder, proc, spawned, health, ent, top>>

(* performHealthCheck takes the crashed workers one after the other; the   *)
(* interval starts another check whether or not the last has ended.        *)
HealthBegin(h) ==
  /\ health[h] = Asleep
  /\ \E w \in DOMAIN workers : workers[w].status = "crashed"
  /\ health' = [health EXCEPT ![h].pc = "next",
                  ![h].todo = {[id |-> w, job |-> workers[w].job, restarts |-> workers[w].restarts] :
                                 w \in {v \in DOMAIN workers : workers[v].status = "crashed"}}]
  /\ UNCHANGED <<job, jobOrder, proc, workers, spawned, ent, top, stalls>>

(* The limit is checked without this worker, which is terminated before    *)
(* the new one is spawned; what is known of it is what the check found.    *)
HealthNext(h) ==
  /\ health[h].pc = "next"
  /\ \E w \in health[h].todo :
       /\ \A v \in health[h].todo : w.id <= v.id
       /\ IF ent.active /\ Count <= ent.max /\ w.restarts < RestartLimit
            THEN /\ workers' = Forget(workers, w.id)
                 /\ health' = [health EXCEPT ![h] = [pc |-> "spawn", todo |-> @.todo \ {w}, w |-> w.job,
                       restarts |-> IF w.id \in DOMAIN workers THEN w.restarts + 1 ELSE 1]]
                 /\ UNCHANGED job
            ELSE /\ job' = [job EXCEPT ![w.job] = "crashed"]
                 /\ health' = [health EXCEPT ![h].todo = @ \ {w}]
                 /\ UNCHANGED workers
  /\ UNCHANGED <<jobOrder, proc, spawned, ent, top, stalls>>

HealthSpawn(h) ==
  LET j == health[h].w IN
  /\ health[h].pc = "spawn"
  /\ \/ Spawn(j, health[h].restarts) /\ job' = [job EXCEPT ![j] = "running"]
     \/ job' = [job EXCEPT ![j] = "crashed"] /\ UNCHANGED <<workers, spawned>>
  /\ health' = [health EXCEPT ![h].pc = "next"]
  /\ UNCHANGED <<jobOrder, proc, ent, top, stalls>>

HealthEnd(h) ==
  /\ health[h].pc = "next" /\ health[h].todo = {}
  /\ health' = [health EXCEPT ![h] = Asleep]
  /\ UNCHANGED <<job, jobOrder, proc, workers, spawned, ent, top, stalls>>

(* stopRunner: the runner stops, the worker stays in the map. *)
StopRunner(w) ==
  /\ workers[w].status # "stopped"
  /\ workers' = [workers EXCEPT ![w].status = "stopped"]
  /\ job' = [job EXCEPT ![workers[w].job] = "stopped"]
  /\ UNCHANGED <<jobOrder, proc, spawned, health, ent, top, stalls>>

Upgrade(t) ==
  /\ ent' = [max |-> t, active |-> TRUE]
  /\ top' = IF t > top THEN t ELSE top
  /\ UNCHANGED <<job, jobOrder, proc, workers, spawned, health, stalls>>

(* The subscription expires: downgradeExpired. *)
Expire ==
  /\ ent.active
  /\ ent' = [max |-> Smallest(Tiers), active |-> FALSE]
  /\ UNCHANGED <<job, jobOrder, proc, workers, spawned, health, top, stalls>>

Processing == ProcessTake \/ ProcessCheck \/ ProcessSpawn
OrchestratorNext ==
  \/ StartRunner \/ Processing \/ Expire
  \/ \E w \in DOMAIN workers : MarkStale(w) \/ StopRunner(w)
  \/ \E h \in HealthChecks : HealthBegin(h) \/ HealthNext(h) \/ HealthSpawn(h) \/ HealthEnd(h)
  \/ \E t \in Tiers : Upgrade(t)

(* setInterval keeps calling processQueue, and the awaits of a spawn end. *)
OrchestratorFairness == WF_orchestratorVars(Processing)
OrchestratorSpec == OrchestratorInit /\ [][OrchestratorNext]_orchestratorVars

-----------------------------------------------------------------------------
Live(w) == workers[w].status # "stopped"
LiveCount == Cardinality({w \in DOMAIN workers : Live(w)})

OrchestratorTypeOK ==
  /\ \A j \in DOMAIN job : job[j] \in {"queued", "running", "stopped", "failed", "crashed"}
  /\ \A w \in DOMAIN workers : w <= spawned /\ workers[w].job \in DOMAIN job
  /\ \A w \in DOMAIN workers : workers[w].restarts \in 0..RestartLimit

(* The lock of processQueue keeps the check and the spawn together: while  *)
(* no worker was restarted, a user never has more workers than the highest *)
(* limit he ever had, however many jobs he queued.                         *)
QueueNeverOverbooks == stalls = 0 => LiveCount <= top

(* "Hard limits on concurrent workers per user." *)
WithinLimit == LiveCount <= top

(* Between spawns, a job the queue calls running has a worker that runs it. *)
RunningJobsHaveWorkers ==
  proc.pc # "spawn" /\ (\A h \in HealthChecks : health[h].pc # "spawn") =>
    \A j \in DOMAIN job : job[j] = "running" =>
      \E w \in DOMAIN workers : workers[w].job = j /\ Live(w)

(* Every queued job is taken and decided. *)
JobsDecided ==
  \A j \in 1..MaxJobs :
    (j \in DOMAIN job /\ job[j] = "queued") ~> (j \in DOMAIN job /\ job[j] # "queued")

=============================================================================
