----------------------------- MODULE JobsManager -----------------------------
(***************************************************************************)
(* The tasks of the protocols of one channel and the managers that are to  *)
(* stop them (src/net/protocols/protocol_jobs_manager.rs).  A protocol     *)
(* starts its manager and spawns its jobs one after the other; the manager *)
(* subscribes to the stop event in a task of its own; the channel may be   *)
(* stopped at any moment.                                                  *)
(***************************************************************************)
EXTENDS Naturals, FiniteSets

CONSTANTS
  Managers,    \* one per protocol attached to the channel
  JobsOf,      \* the jobs a manager's protocol spawns
  Pingers,     \* the jobs that send before they wait: run_ping_pong
  Repliers     \* the jobs that send after they waited

Jobs == UNION {JobsOf[m] : m \in Managers}
Senders == Pingers \cup Repliers

ASSUME JobsAssumption ==
  /\ \A m, n \in Managers : m # n => JobsOf[m] \cap JobsOf[n] = {}
  /\ Senders \subseteq Jobs

VARIABLES
  link,      \* "up" or "down"
  chan,      \* "open"; "notified": stop events sent; "closed": readers told;
             \* "mute": nobody is left to tell them
  manager,   \* what the manager's handle_stop task is doing
  told,      \* has the manager's subscription been sent a stop event?
  tasks,     \* the manager's list of tasks
  taken,     \* the tasks close_all_tasks took and has not cancelled yet
  job,       \* what each job is doing
  error      \* the jobs whose subscription holds an error

jobsVars == <<link, chan, manager, told, tasks, taken, job, error>>

Over == {"ended", "cancelled"}
Live == {"new", "waiting", "busy"}

JobsTypeOK ==
  /\ link \in {"up", "down"}
  /\ chan \in {"open", "notified", "closed", "mute"}
  /\ manager \in [Managers -> {"idle", "starting", "subscribed", "cancelling", "done"}]
  /\ told \subseteq Managers
  /\ tasks \in [Managers -> SUBSET Jobs]
  /\ taken \in [Managers -> SUBSET Jobs]
  /\ job \in [Jobs -> {"none"} \cup Live \cup Over]
  /\ error \subseteq Jobs

JobsInit ==
  /\ link = "up"
  /\ chan = "open"
  /\ manager = [m \in Managers |-> "idle"]
  /\ told = {}
  /\ tasks = [m \in Managers |-> {}]
  /\ taken = [m \in Managers |-> {}]
  /\ job = [j \in Jobs |-> "none"]
  /\ error = {}

----------------------------------------------------------------------------
(* The channel.                                                            *)

\* notify reaches all watchers; but a watcher that is gone makes it panic,
\* and who comes before it is up to the hash map.
Watching == {m \in Managers : manager[m] \in {"subscribed", "cancelling"}}
Gone == {m \in Managers : manager[m] = "done"}
Notify == \E S \in SUBSET Watching : (Gone = {} => S = Watching) /\ told' = told \cup S

\* The receive loop fails, or somebody stops a sound connection.
StopChannel ==
  /\ chan = "open"
  /\ chan' = "notified"
  /\ Notify
  /\ UNCHANGED <<link, manager, tasks, taken, job, error>>

\* The jobs with a message subscription, whether they wait on it or not.
Subscribed == {j \in Jobs : job[j] \in {"waiting", "busy"}}

\* An error only for those who wait at that moment.
TriggerWaiting ==
  /\ chan = "notified"
  /\ chan' = "closed"
  /\ error' = error \cup {j \in Jobs : job[j] = "waiting"}
  /\ UNCHANGED <<link, manager, told, tasks, taken, job>>
\* trigger_error, in the stopping task and again in the handler of the
\* receive task, after which no message comes any more.  Nobody subscribes
\* meanwhile, because it holds the lock of the dispatchers.
TriggerErrors ==
  /\ chan = "notified"
  /\ chan' \in {"notified", "closed"}
  /\ error' = error \cup Subscribed
  /\ UNCHANGED <<link, manager, told, tasks, taken, job>>

\* The stopping task is cancelled by its manager before it has told all, and
\* the receive loop, in a stop of its own, has panicked on a manager that is
\* gone, so that its handler does not run.
ErrorsLost ==
  /\ chan = "notified" /\ Gone # {}
  /\ chan' = "mute"
  /\ \E E \in SUBSET Subscribed : error' = error \cup E
  /\ UNCHANGED <<link, manager, told, tasks, taken, job>>

LinkBreaks ==
  /\ link = "up" /\ link' = "down"
  /\ UNCHANGED <<chan, manager, told, tasks, taken, job, error>>

----------------------------------------------------------------------------
(* The protocol's start() and its manager.                                 *)

StartManager(m) ==
  /\ manager[m] = "idle"
  /\ manager' = [manager EXCEPT ![m] = "starting"]
  /\ UNCHANGED <<link, chan, told, tasks, taken, job, error>>

\* The list is locked while the task is spawned and pushed.  A protocol
\* spawns its jobs in a fixed order; any order is allowed here.
Spawn(m, j) ==
  /\ manager[m] # "idle" /\ job[j] = "none"
  /\ job' = [job EXCEPT ![j] = "new"]
  /\ tasks' = [tasks EXCEPT ![m] = @ \cup {j}]
  /\ UNCHANGED <<link, chan, manager, told, taken, error>>

ManagerSubscribes(m) ==
  /\ manager[m] = "starting"
  /\ manager' = [manager EXCEPT ![m] = "subscribed"]
  /\ UNCHANGED <<link, chan, told, tasks, taken, job, error>>

\* A manager that takes its tasks and lets go of them.
DetachTasks(m) ==
  /\ manager[m] = "subscribed" /\ m \in told
  /\ manager' = [manager EXCEPT ![m] = "cancelling"]
  /\ tasks' = [tasks EXCEPT ![m] = {}]
  /\ UNCHANGED <<link, chan, told, taken, job, error>>
\* mem::take under the lock of the list.
TakeTasks(m) ==
  /\ manager[m] = "subscribed" /\ m \in told
  /\ manager' = [manager EXCEPT ![m] = "cancelling"]
  /\ taken' = [taken EXCEPT ![m] = tasks[m]]
  /\ tasks' = [tasks EXCEPT ![m] = {}]
  /\ UNCHANGED <<link, chan, told, job, error>>

CancelTask(m, j) ==
  /\ manager[m] = "cancelling" /\ j \in taken[m]
  /\ taken' = [taken EXCEPT ![m] = @ \ {j}]
  /\ job' = [job EXCEPT ![j] = IF @ \in Over THEN @ ELSE "cancelled"]
  /\ UNCHANGED <<link, chan, manager, told, tasks, error>>

ManagerDone(m) ==
  /\ manager[m] = "cancelling" /\ taken[m] = {}
  /\ manager' = [manager EXCEPT ![m] = "done"]
  /\ UNCHANGED <<link, chan, told, tasks, taken, job, error>>

----------------------------------------------------------------------------
(* The jobs.                                                               *)

\* A pinger and a replier subscribe in their own task.  (The address protocol
\* subscribes for its jobs before it spawns them: they see errors earlier.)
SubscribeMessage(j) ==
  /\ job[j] = "new"
  /\ job' = [job EXCEPT ![j] = IF j \in Pingers THEN "busy" ELSE "waiting"]
  /\ UNCHANGED <<link, chan, manager, told, tasks, taken, error>>

\* Messages come while the receive loop runs.
GetMessage(j) ==
  /\ job[j] = "waiting" /\ chan \in {"open", "notified"}
  /\ job' = [job EXCEPT ![j] = "busy"]
  /\ UNCHANGED <<link, chan, manager, told, tasks, taken, error>>

GetError(j) ==
  /\ job[j] = "waiting" /\ j \in error
  /\ job' = [job EXCEPT ![j] = "ended"]
  /\ UNCHANGED <<link, chan, manager, told, tasks, taken, error>>

Work(j) ==
  /\ job[j] = "busy" /\ (j \in Senders => link = "up")
  /\ job' = [job EXCEPT ![j] = "waiting"]
  /\ UNCHANGED <<link, chan, manager, told, tasks, taken, error>>

\* A failed send stops the channel, again if it has been stopped before.
JobSendFails(j) ==
  /\ job[j] = "busy" /\ j \in Senders /\ link = "down"
  /\ job' = [job EXCEPT ![j] = "ended"]
  /\ chan' = IF chan = "open" THEN "notified" ELSE chan
  /\ Notify
  /\ UNCHANGED <<link, manager, tasks, taken, error>>

ManagerStep(m) ==
  \/ StartManager(m) \/ ManagerSubscribes(m) \/ TakeTasks(m) \/ ManagerDone(m)
  \/ \E j \in JobsOf[m] : Spawn(m, j) \/ CancelTask(m, j)

JobStep(j) ==
  SubscribeMessage(j) \/ GetMessage(j) \/ GetError(j) \/ Work(j) \/ JobSendFails(j)

JobsNext ==
  \/ StopChannel \/ TriggerErrors \/ ErrorsLost \/ LinkBreaks
  \/ \E m \in Managers : ManagerStep(m)
  \/ \E j \in Jobs : JobStep(j)

JobsSpec == JobsInit /\ [][JobsNext]_jobsVars

\* Every task that can go on is scheduled; nobody need stop the channel and
\* the peer need not send anything.
JobsFairness ==
  /\ WF_jobsVars(TriggerErrors)
  /\ \A m \in Managers :
       /\ WF_jobsVars(ManagerSubscribes(m)) /\ WF_jobsVars(TakeTasks(m)) /\ WF_jobsVars(ManagerDone(m))
       /\ \A j \in JobsOf[m] : WF_jobsVars(Spawn(m, j)) /\ WF_jobsVars(CancelTask(m, j))
  /\ \A j \in Jobs :
       WF_jobsVars(SubscribeMessage(j)) /\ WF_jobsVars(GetError(j)) /\ WF_jobsVars(Work(j)) /\ WF_jobsVars(JobSendFails(j))

JobsFairSpec == JobsSpec /\ JobsFairness

----------------------------------------------------------------------------
(* What holds.                                                             *)

(* However spawning, taking and cancelling interleave, a running job is in *)
(* its manager's list or among the tasks the manager is cancelling.        *)
Accounted ==
  \A m \in Managers : \A j \in JobsOf[m] : job[j] \in Live => j \in tasks[m] \cup taken[m]

(* A job is only cancelled on a stopped channel.                           *)
CancelledWithCause ==
  (\E j \in Jobs : job[j] = "cancelled") => chan # "open"

(* Behind it: events only go out when a channel stops.                     *)
JobsInv ==
  /\ JobsTypeOK
  /\ Accounted
  /\ told # {} => chan # "open"
  /\ \A m \in Managers :
       /\ manager[m] \in {"cancelling", "done"} => m \in told
       /\ taken[m] # {} => manager[m] = "cancelling"
       /\ tasks[m] \cup taken[m] \subseteq JobsOf[m]
  /\ CancelledWithCause

(* A job in the list of a manager that watches is stopped with it: when    *)
(* the manager has finished, the job runs no more, whatever was spawned,   *)
(* taken and cancelled in between (handle_stop, close_all_tasks).          *)
ListedJobsAreStopped ==
  \A m \in Managers : \A j \in JobsOf[m] :
    [](manager[m] = "subscribed" /\ j \in tasks[m]
         => [](manager[m] = "done" => job[j] \in Over))

(* If a manager watches and has a job in its list when the channel is      *)
(* stopped, the job ends, whoever stops the channel and however often.     *)
WatchedJobsEnd ==
  \A m \in Managers : \A j \in JobsOf[m] :
    (chan = "open" /\ manager[m] = "subscribed" /\ j \in tasks[m])
      ~> ([](chan = "open") \/ job[j] \in Over)

(* A job that has subscribed before the errors of a stop went out ends     *)
(* too, even if its manager missed the stop event or took its list before  *)
(* the job was spawned: its queue gets an error it will come upon, also    *)
(* when it is busy.  The exception is a stop whose errors are lost.        *)
SubscribedJobsEnd ==
  \A j \in Jobs :
    (chan \in {"open", "notified"} /\ job[j] \in {"waiting", "busy"})
      ~> (job[j] \in Over \/ chan = "mute" \/ [](chan = "open"))

----------------------------------------------------------------------------
(* What the docs say and the code does not do.                             *)

(* handle_stop: "Insures that all tasks are stopped when a channel closes" *)
AllTasksStopped ==
  \A j \in Jobs : (chan \in {"closed", "mute"} /\ job[j] # "none") ~> job[j] \in Over
=============================================================================
