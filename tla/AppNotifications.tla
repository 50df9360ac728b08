-------------------------- MODULE AppNotifications --------------------------
(* The AppNotifications plugin, for one event of one module: the clients    *)
(* that listen to it, and whether the module has been asked to report it.   *)
(* SubscriberMap is behind mSubscriberMutex; the jobs that register with the*)
(* module run on several threads of the worker pool and take                *)
(* mThunderSubscriberMutex only to look and to record.                      *)
EXTENDS Naturals

CONSTANTS
  Client,         \* the contexts that subscribe, each once
  Failing         \* "module": the module may refuse, or not be activated

ModuleAssumption == Failing \subseteq {"module"}

VARIABLES
  mSubscribers,               \* clients of the event
  leaving,                    \* clients removed whose Subscribe is not over
  subscriberJobs,             \* SubscriberJobs of the worker pool
  mRegisteredNotifications,   \* how often the event stands in the vector
  listening,                  \* the module reports the event
  emitJob,                    \* what became of the module's report
  stopped                     \* history: some client has stopped listening

notifyVars == <<mSubscribers, leaving, subscriberJobs, mRegisteredNotifications, listening,
                emitJob, stopped>>

SubscriberJob == [of : Client, listen : BOOLEAN, at : {"check", "notify", "record"}]

TypeOK ==
  /\ mSubscribers \subseteq Client
  /\ leaving \subseteq Client
  /\ subscriberJobs \subseteq SubscriberJob
  /\ mRegisteredNotifications \in Nat
  /\ listening \in BOOLEAN /\ stopped \in BOOLEAN
  /\ emitJob \in {"none", "submitted", "run"}

Init ==
  /\ mSubscribers = {} /\ leaving = {} /\ subscriberJobs = {}
  /\ mRegisteredNotifications = 0
  /\ listening = FALSE /\ stopped = FALSE
  /\ emitJob = "none"

-----------------------------------------------------------------------------
(* Subscribe of a new client.  The map has the names of events for keys and *)
(* is asked for the module: a job is submitted every time.                  *)
Subscribe(c) ==
  /\ mSubscribers' = mSubscribers \cup {c}
  /\ subscriberJobs' = subscriberJobs \cup {[of |-> c, listen |-> TRUE, at |-> "check"]}
  /\ UNCHANGED <<leaving, mRegisteredNotifications, listening, emitJob, stopped>>

(* Subscribe of a client that stops: Remove, and then Exists.               *)
Remove(c) ==
  /\ mSubscribers' = mSubscribers \ {c}
  /\ leaving' = leaving \cup {c}
  /\ stopped' = TRUE
  /\ UNCHANGED <<subscriberJobs, mRegisteredNotifications, listening, emitJob>>

Unused(c) ==
  /\ c \in leaving
  /\ leaving' = leaving \ {c}
  /\ subscriberJobs' = IF mSubscribers # {} THEN subscriberJobs
                       ELSE subscriberJobs \cup {[of |-> c, listen |-> FALSE, at |-> "check"]}
  /\ UNCHANGED <<mSubscribers, mRegisteredNotifications, listening, emitJob, stopped>>

(* Slip: the module is told to stop for everybody.                          *)
CleanupForAll(c) ==
  /\ mSubscribers' = mSubscribers \ {c}
  /\ listening' = FALSE
  /\ UNCHANGED <<leaving, subscriberJobs, mRegisteredNotifications, emitJob, stopped>>

(* Cleanup of a connection: the module keeps reporting.                     *)
CleanupNotifications(c) ==
  /\ mSubscribers' = mSubscribers \ {c}
  /\ UNCHANGED <<leaving, subscriberJobs, mRegisteredNotifications, listening, emitJob, stopped>>

-----------------------------------------------------------------------------
Goto(job, at) == subscriberJobs' = (subscriberJobs \ {job}) \cup {[job EXCEPT !.at = at]}
Done(job)     == subscriberJobs' = subscriberJobs \ {job}

(* ThunderSubscriptionManager::Subscribe and Unsubscribe.                   *)
IsNotificationRegistered(job) ==
  /\ job.at = "check"
  /\ IF (mRegisteredNotifications > 0) = job.listen THEN Done(job) ELSE Goto(job, "notify")
  /\ UNCHANGED <<mSubscribers, leaving, mRegisteredNotifications, listening, emitJob, stopped>>

HandleNotifier(job) ==
  /\ job.at = "notify"
  /\ \/ Goto(job, "record") /\ listening' = job.listen
     \/ "module" \in Failing /\ Done(job) /\ UNCHANGED listening
  /\ UNCHANGED <<mSubscribers, leaving, mRegisteredNotifications, emitJob, stopped>>

(* RegisterNotification adds the event once more; UnregisterNotification    *)
(* removes it as often as it is there.                                      *)
RecordNotification(job) ==
  /\ job.at = "record"
  /\ Done(job)
  /\ mRegisteredNotifications' = IF job.listen THEN mRegisteredNotifications + 1 ELSE 0
  /\ UNCHANGED <<mSubscribers, leaving, listening, emitJob, stopped>>

(* Emit, called by the module, and its job; EventUpdate finds the clients of*)
(* the moment.                                                              *)
Emit ==
  /\ listening /\ emitJob = "none"
  /\ emitJob' = "submitted"
  /\ UNCHANGED <<mSubscribers, leaving, subscriberJobs, mRegisteredNotifications, listening, stopped>>

EventUpdate ==
  /\ emitJob = "submitted"
  /\ emitJob' = "run"
  /\ UNCHANGED <<mSubscribers, leaving, subscriberJobs, mRegisteredNotifications, listening, stopped>>

RunJob(job) ==
  /\ job \in subscriberJobs
  /\ IsNotificationRegistered(job) \/ HandleNotifier(job) \/ RecordNotification(job)
=============================================================================
