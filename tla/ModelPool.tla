----------------------------- MODULE ModelPool -----------------------------
(***************************************************************************)
(* ModelPool (model_pool.rs) with its loader threads, in one of its two    *)
(* uses: inside the scheduler's worker, which reads administrative         *)
(* commands at the top of its loop (scheduler.rs), or in the hands of a    *)
(* caller that has a MetalBackend.  Of the worker's loop only the order of *)
(* its parts counts here; Scheduler.tla has the rest.  A model is named by *)
(* the file it was loaded from.                                            *)
(***************************************************************************)
EXTENDS ModelFile

CONSTANTS
    PoolFiles,        \* the files that may be loaded, by name
    Loaded,           \* what load_gguf returns for each of them
    Names,            \* names of models
    MaxPrefetches,    \* bound: calls of prefetch
    MaxSwitches,      \* bound: SwitchModels commands
    MaxRequests       \* bound: requests that are not finished

ASSUME LoadedAssumption == Loaded = [f \in DOMAIN PoolFiles |-> LoadGguf(PoolFiles[f])]

ASSUME PoolAssumption ==
    /\ "absent" \notin DOMAIN PoolFiles
    /\ \A name \in DOMAIN PoolFiles : Unsigned(PoolFiles[name])

VARIABLES
    owner,            \* "scheduler" or "caller"
    handles,          \* the pool has a device, a queue and a library
    commands,         \* the command channel
    inbox,            \* requests in the request channel
    waiting,          \* requests that are pending or active
    workerPc,         \* "commands", "intake", "idle" or "step"
    loads,            \* by prefetch: [name, file, stage]
    pool,             \* the models that are resident, by name
    service,          \* the file of the model in the target and in the draft backend
    lastSwitch,       \* history: the last SwitchModels that was carried out
    switches

poolVars == <<owner, handles, commands, inbox, waiting, workerPc, loads, pool, service,
              lastSwitch, switches>>

Absent == "absent"
FirstModel == "first"     \* the model both backends start with

PoolInit ==
    /\ owner \in {"scheduler", "caller"}
    /\ handles \in BOOLEAN
    /\ commands = <<>>
    /\ inbox = 0 /\ waiting = 0
    /\ workerPc = "commands"
    /\ loads = <<>>
    /\ pool = [n \in Names |-> Absent]
    /\ service = [target |-> FirstModel, draft |-> FirstModel]
    /\ lastSwitch = [target |-> Absent, draft |-> Absent]
    /\ switches = 0

-----------------------------------------------------------------------------
(***************************************************************************)
(* The clients of the scheduler.                                           *)
(***************************************************************************)
ByScheduler == owner = "scheduler"

\* VeloScheduler::prefetch.
SendPrefetch(name, file) ==
    /\ ByScheduler /\ Len(loads) < MaxPrefetches
    /\ loads' = Append(loads, [name |-> name, file |-> file, stage |-> "sent"])
    /\ commands' = Append(commands, [kind |-> "Prefetch", load |-> Len(loads')])
    /\ UNCHANGED <<owner, handles, inbox, waiting, workerPc, pool, service, lastSwitch, switches>>

\* VeloScheduler::switch_models.
SendSwitch(target, draft) ==
    /\ ByScheduler /\ switches < MaxSwitches
    /\ switches' = switches + 1
    /\ commands' = Append(commands, [kind |-> "SwitchModels", target |-> target, draft |-> draft])
    /\ UNCHANGED <<owner, handles, inbox, waiting, workerPc, loads, pool, service, lastSwitch>>

\* VeloScheduler::submit.
SubmitRequest ==
    /\ ByScheduler /\ inbox + waiting < MaxRequests
    /\ inbox' = inbox + 1
    /\ UNCHANGED <<owner, handles, commands, waiting, workerPc, loads, pool, service, lastSwitch,
                   switches>>

-----------------------------------------------------------------------------
(***************************************************************************)
(* The worker.                                                             *)
(***************************************************************************)

\* Mutant of Spawned: a name that is resident is not loaded again.
SpawnedOnce(load) ==
    IF pool[loads[load].name] = Absent THEN [loads EXCEPT ![load].stage = "started"] ELSE loads

\* ModelPool::prefetch: a thread of its own; the scheduler drops the receiver.
Spawned(load) == [loads EXCEPT ![load].stage = "started"]

\* switch_model of GreedyDraft and GreedyTarget asks the backend, which has the
\* default of CausalLmBackend: MetalBackend::switch_model is no method of it.
SwitchedByTrait(backend, name) == service[backend]

\* One turn of the loop over the commands.
TakeCommand ==
    /\ ByScheduler /\ workerPc = "commands" /\ commands # <<>>
    /\ commands' = Tail(commands)
    /\ LET c == Head(commands)
       IN  IF c.kind = "Prefetch"
           THEN loads' = Spawned(c.load) /\ UNCHANGED <<service, lastSwitch>>
           ELSE /\ service' = [target |-> SwitchedByTrait("target", c.target),
                               draft |-> IF c.draft = Absent THEN service.draft
                                         ELSE SwitchedByTrait("draft", c.draft)]
                /\ lastSwitch' = [target |-> pool[c.target],
                                  draft |-> IF c.draft = Absent THEN Absent ELSE pool[c.draft]]
                /\ UNCHANGED loads
    /\ UNCHANGED <<owner, handles, inbox, waiting, workerPc, pool, switches>>

EndCommands ==
    /\ ByScheduler /\ workerPc = "commands" /\ commands = <<>>
    /\ workerPc' = "intake"
    /\ UNCHANGED <<owner, handles, commands, inbox, waiting, loads, pool, service, lastSwitch, switches>>

\* The requests are taken; with none the worker sleeps in recv, which the
\* command channel does not end.
Intake ==
    /\ ByScheduler /\ workerPc = "intake"
    /\ waiting' = waiting + inbox
    /\ inbox' = 0
    /\ workerPc' = IF waiting' = 0 THEN "idle" ELSE "step"
    /\ UNCHANGED <<owner, handles, commands, loads, pool, service, lastSwitch, switches>>

Wake ==
    /\ ByScheduler /\ workerPc = "idle" /\ inbox > 0
    /\ inbox' = inbox - 1
    /\ waiting' = waiting + 1
    /\ workerPc' = "commands"
    /\ UNCHANGED <<owner, handles, commands, loads, pool, service, lastSwitch, switches>>

\* A round, after which some of the requests are gone.  (Requests that could
\* not be admitted went before it.)
Round ==
    /\ ByScheduler /\ workerPc = "step"
    /\ \E n \in 0..waiting : waiting' = n
    /\ workerPc' = "commands"
    /\ UNCHANGED <<owner, handles, commands, inbox, loads, pool, service, lastSwitch, switches>>

-----------------------------------------------------------------------------
(***************************************************************************)
(* A loader thread.                                                        *)
(***************************************************************************)
MoveLoad(i, stage) == loads' = [loads EXCEPT ![i].stage = stage]

ThreadRest == UNCHANGED <<owner, handles, commands, inbox, waiting, workerPc, service, lastSwitch, switches>>

\* The handles, then load_gguf.  A panic ends the thread without an answer.
ThreadLoad(i) ==
    /\ loads[i].stage = "started"
    /\ LET outcome == Loaded[loads[i].file].outcome
       IN  MoveLoad(i, IF ~handles THEN "failed"
                       ELSE IF outcome = "panic" THEN "died"
                       ELSE IF outcome = "ok" THEN "read" ELSE "failed")
    /\ UNCHANGED pool /\ ThreadRest

\* upload_weights may find no memory on the GPU.
ThreadUpload(i) ==
    /\ loads[i].stage = "read"
    /\ MoveLoad(i, "uploaded") \/ MoveLoad(i, "failed")
    /\ UNCHANGED pool /\ ThreadRest

\* The model replaces one of its name, and the thread answers.
ThreadInsert(i) ==
    /\ loads[i].stage = "uploaded"
    /\ pool' = [pool EXCEPT ![loads[i].name] = loads[i].file]
    /\ MoveLoad(i, "loaded")
    /\ ThreadRest

-----------------------------------------------------------------------------
(***************************************************************************)
(* A caller with a pool and a MetalBackend of its own.                     *)
(***************************************************************************)
ByCaller == owner = "caller"

CallerRest == UNCHANGED <<owner, handles, commands, inbox, waiting, workerPc, lastSwitch, switches>>

Prefetch(name, file) ==
    /\ ByCaller /\ Len(loads) < MaxPrefetches
    /\ loads' = Append(loads, [name |-> name, file |-> file, stage |-> "started"])
    /\ UNCHANGED <<pool, service>> /\ CallerRest

\* load_sync, and add of a model that was uploaded from a loaded store.
LoadSync(name, file) ==
    /\ ByCaller /\ handles /\ Loaded[file].outcome = "ok"
    /\ pool' = [pool EXCEPT ![name] = file]
    /\ UNCHANGED <<loads, service>> /\ CallerRest

RemoveModel(name) ==
    /\ ByCaller
    /\ pool' = [pool EXCEPT ![name] = Absent]
    /\ UNCHANGED <<loads, service>> /\ CallerRest

\* MetalBackend::switch_model; a name that is not resident is an error.
SwitchModel(name) ==
    /\ ByCaller /\ pool[name] # Absent
    /\ service' = [service EXCEPT !.target = pool[name]]
    /\ UNCHANGED <<loads, pool>> /\ CallerRest

Worker == TakeCommand \/ EndCommands \/ Intake \/ Wake \/ Round
Thread(i) == ThreadLoad(i) \/ ThreadUpload(i) \/ ThreadInsert(i)

PoolNext ==
    \/ SubmitRequest \/ Worker
    \/ \E name \in Names, file \in DOMAIN PoolFiles :
          SendPrefetch(name, file) \/ Prefetch(name, file) \/ LoadSync(name, file)
    \/ \E name \in Names : RemoveModel(name) \/ SwitchModel(name)
    \/ \E name \in Names, draft \in Names \cup {Absent} : SendSwitch(name, draft)
    \/ \E i \in DOMAIN loads : Thread(i)

\* The worker and the threads keep running.
PoolFairness == WF_poolVars(Worker) /\ \A i \in 1..MaxPrefetches : WF_poolVars(i \in DOMAIN loads /\ Thread(i))

-----------------------------------------------------------------------------
Resident(file) ==
    \/ \E n \in Names : pool[n] = file
    \/ file \in {service.target, service.draft} \ {FirstModel}

\* A model that is resident or in service came from a file that load_gguf
\* accepts, and the forward passes stay within its tensors and its data if its
\* rows are whole blocks: no load that failed or died leaves anything behind,
\* and no accepted file makes a pass read out of bounds.
PoolRunnable ==
    \A file \in DOMAIN PoolFiles : Resident(file) =>
        LET store == Loaded[file]
        IN  /\ store.outcome = "ok"
            /\ WholeBlocks(store) => InBounds(store)

\* The worker sleeps in recv on the Prefetch command of load i.
SleepsOn(i) ==
    /\ workerPc = "idle" /\ inbox = 0
    /\ \E j \in DOMAIN commands : commands[j].kind = "Prefetch" /\ commands[j].load = i

\* Every prefetch ends: the model is resident, or the load failed, whatever the
\* other loads, commands and requests do.  The one exception is a worker that
\* sleeps on the command for ever, because no request comes: a command does not
\* wake it.
PrefetchSettles ==
    \A i \in 1..MaxPrefetches :
        \/ (i \in DOMAIN loads) ~>
              (i \in DOMAIN loads /\ loads[i].stage \in {"loaded", "failed", "died"})
        \/ <>[]SleepsOn(i)

\* The model that a carried out SwitchModels named, if it was resident, is the
\* one the backend runs.
SwitchTakesEffect ==
    \A backend \in DOMAIN service :
        lastSwitch[backend] # Absent => service[backend] = lastSwitch[backend]
=============================================================================
