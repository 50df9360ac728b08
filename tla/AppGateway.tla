----------------------------- MODULE AppGateway -----------------------------
(* The AppGateway plugin with AppNotifications: what an application's       *)
(* connection asks for, is answered and is told of.  The thread of a        *)
(* connection hands its messages to the worker pool, whose jobs may overtake*)
(* each other.  The notifications of connections that open and close, jobs  *)
(* without effect on the rest, are left out.  A connection asks to listen to*)
(* the event, to stop, and for a method of another plugin.                  *)
EXTENDS AppNotifications

CONSTANTS
  Asks,           \* bound: the sets of requests that a client makes, each request once
  Missing         \* "resolver", "responder": an interface that may not be there; "resolution":
                  \* a method's handler may succeed with an empty one

VARIABLES
  connection,     \* the web socket, seen by the gateway
  mAppIdMap,      \* AppIdRegistry: connections with an authenticated app
  wsJobs,         \* WsMsgJob and RespondJob, and the request being resolved
  asked,          \* what a connection has asked for
  received,       \* what has been sent to a connection
  dropped         \* history: the requests given up with a line in the log

gatewayVars == <<connection, mAppIdMap, wsJobs, asked, received, dropped>>
vars == <<notifyVars, gatewayVars>>

Method == {"listen", "stop", "call"}
AsksAssumption == Asks \in [Client -> SUBSET SUBSET Method]
MissingAssumption == Missing \subseteq {"resolver", "responder", "resolution"}

WsJob == [kind : {"WsMsg", "Resolve", "Respond"}, of : Client, what : Method \cup {"event"}]

GatewayTypeOK ==
  /\ TypeOK
  /\ connection \in [Client -> {"none", "open", "closing", "closed"}]
  /\ mAppIdMap \subseteq Client
  /\ wsJobs \subseteq WsJob
  /\ asked \in [Client -> SUBSET Method]
  /\ received \in [Client -> SUBSET (Method \cup {"event"})]
  /\ dropped \in [Client -> SUBSET Method]

GatewayInit ==
  /\ Init
  /\ connection = [c \in Client |-> "none"]
  /\ mAppIdMap = {} /\ wsJobs = {}
  /\ asked = [c \in Client |-> {}]
  /\ received = [c \in Client |-> {}]
  /\ dropped = [c \in Client |-> {}]

Message(kind, c, what) == [kind |-> kind, of |-> c, what |-> what]

-----------------------------------------------------------------------------
(* The handlers of the connection manager, on the thread of the connection. *)
AuthHandler(c) ==
  /\ connection[c] = "none"
  /\ connection' = [connection EXCEPT ![c] = "open"]
  /\ mAppIdMap' = mAppIdMap \cup {c}
  /\ UNCHANGED <<notifyVars, wsJobs, asked, received, dropped>>

MessageHandler(c, what) ==
  /\ connection[c] = "open" /\ what \notin asked[c] /\ asked[c] \cup {what} \in Asks[c]
  /\ what = "stop" => "listen" \in received[c]
  /\ asked' = [asked EXCEPT ![c] = @ \cup {what}]
  /\ wsJobs' = wsJobs \cup {Message("WsMsg", c, what)}
  /\ UNCHANGED <<notifyVars, connection, mAppIdMap, received, dropped>>

(* The application goes: first the registry, then AppNotifications.         *)
DisconnectHandler(c) ==
  /\ connection[c] = "open"
  /\ connection' = [connection EXCEPT ![c] = "closing"]
  /\ mAppIdMap' = mAppIdMap \ {c}
  /\ UNCHANGED <<notifyVars, wsJobs, asked, received, dropped>>

Cleanup(c) ==
  /\ connection[c] = "closing"
  /\ connection' = [connection EXCEPT ![c] = "closed"]
  /\ CleanupNotifications(c)
  /\ UNCHANGED <<mAppIdMap, wsJobs, asked, received, dropped>>

-----------------------------------------------------------------------------
(* A request that may be given up: it has no answer.                        *)
Drop(job) ==
  /\ wsJobs' = wsJobs \ {job}
  /\ dropped' = [dropped EXCEPT ![job.of] = @ \cup {job.what}]

GoOn(job, kind) ==
  /\ wsJobs' = (wsJobs \ {job}) \cup {[job EXCEPT !.kind = kind]}
  /\ UNCHANGED dropped

(* DispatchWsMsg: the application of the connection is looked up, and then  *)
(* the request is resolved, whatever happens to the connection meanwhile.   *)
DispatchWsMsg(job) ==
  /\ job.kind = "WsMsg"
  /\ \/ job.of \in mAppIdMap /\ GoOn(job, "Resolve")
     \/ job.of \in mAppIdMap /\ "resolver" \in Missing /\ Drop(job)
     \/ job.of \notin mAppIdMap /\ wsJobs' = wsJobs \ {job} /\ UNCHANGED dropped
  /\ UNCHANGED <<notifyVars, connection, mAppIdMap, asked, received>>

(* HandleEvent: an event with `listen' changes the subscription.            *)
HandleEvent(job) ==
  CASE job.what = "listen" -> Subscribe(job.of)
    [] job.what = "stop"   -> Remove(job.of)
    [] OTHER               -> UNCHANGED notifyVars

(* Slip: the job of a subscription is left to answer it.                    *)
ResolveSilently(job) ==
  /\ job.kind = "Resolve"
  /\ wsJobs' = (wsJobs \ {job}) \cup
                 (IF job.what = "call" THEN {[job EXCEPT !.kind = "Respond"]} ELSE {})
  /\ HandleEvent(job)
  /\ UNCHANGED <<connection, mAppIdMap, asked, received, dropped>>

(* FetchResolvedData and InternalResolve: a result that is not empty, an    *)
(* error too, becomes a job that responds.                                  *)
Resolve(job) ==
  /\ job.kind = "Resolve"
  /\ \/ GoOn(job, "Respond")
     \/ "resolution" \in Missing /\ job.what = "call" /\ Drop(job)
  /\ HandleEvent(job)
  /\ UNCHANGED <<connection, mAppIdMap, asked, received>>

ReturnMessageInSocket(job) ==
  /\ job.kind = "Respond"
  /\ \/ /\ received' = IF connection[job.of] = "open"
                       THEN [received EXCEPT ![job.of] = @ \cup {job.what}] ELSE received
        /\ wsJobs' = wsJobs \ {job} /\ UNCHANGED dropped
     \/ "responder" \in Missing /\ job.what # "event" /\ Drop(job) /\ UNCHANGED received
  /\ UNCHANGED <<notifyVars, connection, mAppIdMap, asked>>

(* SubscriberMap::Dispatch of an event: Respond of every client.            *)
DispatchEvent ==
  /\ EventUpdate
  /\ wsJobs' = wsJobs \cup {Message("Respond", c, "event") : c \in mSubscribers}
  /\ UNCHANGED <<connection, mAppIdMap, asked, received, dropped>>

-----------------------------------------------------------------------------
RunWsJob(job) ==
  /\ job \in wsJobs
  /\ DispatchWsMsg(job) \/ Resolve(job) \/ ReturnMessageInSocket(job)

Background ==
  \/ \E job \in wsJobs : RunWsJob(job)
  \/ DispatchEvent
  \/ /\ \/ \E job \in subscriberJobs : RunJob(job)
        \/ \E c \in Client : Unused(c)
     /\ UNCHANGED gatewayVars

Next ==
  \/ Background
  \/ \E c \in Client :
       \/ AuthHandler(c) \/ DisconnectHandler(c) \/ Cleanup(c)
       \/ \E what \in Method : MessageHandler(c, what)
  \/ Emit /\ UNCHANGED gatewayVars

(* The worker pool and the threads of the connections get on.  What they do *)
(* is finitely much, so fairness of the union is enough.                    *)
Progress == Background \/ \E c \in Client : Cleanup(c)

Spec == GatewayInit /\ [][Next]_vars /\ WF_vars(Progress)
-----------------------------------------------------------------------------
(* Every request is answered, with a result or an error, in whatever order  *)
(* the jobs run, unless the connection is closed first, its handler gave an *)
(* empty resolution or an interface was missing: from every state the       *)
(* gateway comes to one in which no request is open                         *)
(* (AppGatewayResponderImplementation::DispatchWsMsg, Respond,              *)
(* AppGatewayImplementation::InternalResolve, ReturnMessageInSocket).       *)
RequestIsAnswered ==
  []<>(\A c \in Client : connection[c] = "open" => asked[c] \subseteq received[c] \cup dropped[c])

(* A module is asked to report an event that has a client, as long as no    *)
(* client has stopped to listen: then the jobs of one that stops and of one *)
(* that starts may pass each other (AppNotificationsImplementation::        *)
(* Subscribe, ThunderSubscriptionManager).                                  *)
SubscriberIsServed == mSubscribers # {} ~> listening \/ stopped
=============================================================================
