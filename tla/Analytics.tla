----------------------------- MODULE Analytics ------------------------------
(* The Analytics plugin: SendEvent queues an action, and one thread, the    *)
(* ActionLoop, hands the events to the backend.  Until the system time is   *)
(* known, an event that has no epoch timestamp waits in a second queue.     *)
(* Formats, the mapping of names and the backend itself are left out.  The  *)
(* order is that of Event; any number of other events may be sent between.  *)
EXTENDS Naturals, Sequences, SequencesExt

CONSTANTS
  Event,          \* the events watched, each sent once
  Epoch           \* those that come with an epoch timestamp

EpochAssumption ==
  Epoch \subseteq Event /\ {"none", "populate", "other", "shutdown", "ended"} \cap Event = {}

VARIABLES
  accepted,       \* history: the events in the order of SendEvent
  mActionQueue, mEventQueue,
  mSysTimeValid,
  timeAvailable,  \* system time and time zone are known (SystemTime)
  action,         \* what the loop is at
  sent            \* what the backend got, in order

analyticsVars == <<accepted, mActionQueue, mEventQueue, mSysTimeValid, timeAvailable, action, sent>>

TypeOK ==
  /\ accepted \in Seq(Event)
  /\ mActionQueue \in Seq(Event \cup {"shutdown"})
  /\ mEventQueue \in Seq(Event \ Epoch)
  /\ mSysTimeValid \in BOOLEAN /\ timeAvailable \in BOOLEAN
  /\ action \in Event \cup {"none", "populate", "other", "shutdown", "ended"}
  /\ sent \in Seq(Event)

Init ==
  /\ accepted = <<>> /\ mActionQueue = <<>> /\ mEventQueue = <<>>
  /\ mSysTimeValid = FALSE /\ timeAvailable = FALSE
  /\ action = "none" /\ sent = <<>>

-----------------------------------------------------------------------------
SendEvent(e) ==
  /\ "shutdown" \notin ToSet(mActionQueue) /\ action \notin {"shutdown", "ended"}
  /\ e \notin ToSet(accepted)
  /\ accepted' = Append(accepted, e)
  /\ mActionQueue' = Append(mActionQueue, e)
  /\ UNCHANGED <<mEventQueue, mSysTimeValid, timeAvailable, action, sent>>

(* The destructor, which then joins the thread.                             *)
Shutdown ==
  /\ "shutdown" \notin ToSet(mActionQueue) /\ action \notin {"shutdown", "ended"}
  /\ mActionQueue' = Append(mActionQueue, "shutdown")
  /\ UNCHANGED <<accepted, mEventQueue, mSysTimeValid, timeAvailable, action, sent>>

TimeBecomesAvailable ==
  /\ ~timeAvailable
  /\ timeAvailable' = TRUE
  /\ UNCHANGED <<accepted, mActionQueue, mEventQueue, mSysTimeValid, action, sent>>

-----------------------------------------------------------------------------
(* ActionLoop, with mQueueMutex: the next action; when the wait for one has *)
(* timed out, and only then, the system time is looked at.                  *)
TakeAction ==
  /\ action = "none" /\ mActionQueue # <<>>
  /\ action' = Head(mActionQueue)
  /\ mActionQueue' = Tail(mActionQueue)
  /\ UNCHANGED <<accepted, mEventQueue, mSysTimeValid, timeAvailable, sent>>

(* Another event, one that the model keeps no record of, comes while the    *)
(* loop waits: then the wait does not time out.                             *)
OtherEvent ==
  /\ action = "none" /\ mActionQueue = <<>>
  /\ action' = "other"
  /\ UNCHANGED <<accepted, mActionQueue, mEventQueue, mSysTimeValid, timeAvailable, sent>>

TimeOut ==
  /\ action = "none" /\ mActionQueue = <<>> /\ ~mSysTimeValid
  /\ action' = "populate"
  /\ UNCHANGED <<accepted, mActionQueue, mEventQueue, mSysTimeValid, timeAvailable, sent>>

(* Slip: the waiting events are not flushed.                                *)
PopulateOnly ==
  /\ action = "populate"
  /\ action' = "none"
  /\ mSysTimeValid' = timeAvailable
  /\ UNCHANGED <<accepted, mActionQueue, mEventQueue, timeAvailable, sent>>

(* ActionLoop, without the mutex.  The waiting events go to the backend when*)
(* the time has become valid.                                               *)
PopulateTimeInfo ==
  /\ action = "populate"
  /\ action' = "none"
  /\ mSysTimeValid' = timeAvailable
  /\ IF timeAvailable THEN sent' = sent \o mEventQueue /\ mEventQueue' = <<>>
     ELSE UNCHANGED <<sent, mEventQueue>>
  /\ UNCHANGED <<accepted, mActionQueue, timeAvailable>>

(* Slip: the system time itself is looked at.                               *)
HandleByTime ==
  /\ action \in Event
  /\ action' = "none"
  /\ IF timeAvailable \/ action \in Epoch
     THEN sent' = Append(sent, action) /\ UNCHANGED mEventQueue
     ELSE mEventQueue' = Append(mEventQueue, action) /\ UNCHANGED sent
  /\ UNCHANGED <<accepted, mActionQueue, mSysTimeValid, timeAvailable>>

HandleEvent ==
  /\ action \in Event
  /\ action' = "none"
  /\ IF mSysTimeValid \/ action \in Epoch
     THEN sent' = Append(sent, action) /\ UNCHANGED mEventQueue
     ELSE mEventQueue' = Append(mEventQueue, action) /\ UNCHANGED sent
  /\ UNCHANGED <<accepted, mActionQueue, mSysTimeValid, timeAvailable>>

HandleOther ==
  /\ action = "other"
  /\ action' = "none"
  /\ UNCHANGED <<accepted, mActionQueue, mEventQueue, mSysTimeValid, timeAvailable, sent>>

(* The loop ends; events that wait for the time are dropped.                *)
EndLoop ==
  /\ action = "shutdown"
  /\ action' = "ended"
  /\ UNCHANGED <<accepted, mActionQueue, mEventQueue, mSysTimeValid, timeAvailable, sent>>

Loop == TakeAction \/ TimeOut \/ PopulateTimeInfo \/ HandleEvent \/ HandleOther \/ EndLoop
Next ==
  \/ Loop
  \/ (\E e \in Event : SendEvent(e)) \/ OtherEvent \/ Shutdown
  \/ TimeBecomesAvailable

(* The thread gets on.                                                      *)
Spec == Init /\ [][Next]_analyticsVars /\ WF_analyticsVars(Loop)
-----------------------------------------------------------------------------
(* The events without an epoch timestamp reach the backend in the order they*)
(* were sent in, those that waited and those that did not, none is passed   *)
(* over, and no event reaches it twice (AnalyticsImplementation::ActionLoop)*)
Precedes(s, e, f) == \E i, j \in DOMAIN s : i < j /\ s[i] = e /\ s[j] = f

UptimeEventsInOrder ==
  /\ IsInjective(sent) /\ ToSet(sent) \subseteq ToSet(accepted)
  /\ \A f \in ToSet(sent) \ Epoch, e \in Event \ Epoch :
       Precedes(accepted, e, f) => Precedes(sent, e, f)

(* Once the time is available all accepted events reach the backend, also   *)
(* one that is sent while the loop finds out, unless the plugin is destroyed*)
(* first, or, until the loop knows of the time, its wait never again times  *)
(* out since events come more often than that (AnalyticsImplementation::    *)
(* ActionLoop).                                                             *)
EventIsSent ==
  []<>(mSysTimeValid \/ action \in {"populate", "ended"}) =>
    (timeAvailable ~> ToSet(accepted) \subseteq ToSet(sent) \/ action = "ended")
=============================================================================
