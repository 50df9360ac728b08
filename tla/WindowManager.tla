--------------------------- MODULE WindowManager ----------------------------
(* CreateDisplay of the RDKWindowManager plugin: callers queue a request and*)
(* wait on its semaphore; the compositor's thread, shellThread, serves the  *)
(* queue in every frame.  gRdkWindowManagerMutex guards both.  Initialize   *)
(* starts the thread and Deinitialize ends it; sRunning is static and is    *)
(* never set again.  Windows, keys and the other calls, each one call of the*)
(* compositor with the mutex held, are left out.                            *)
EXTENDS Naturals, Sequences, SequencesExt

CONSTANTS
  Caller,
  ClientOf,       \* the client that a caller creates a display for
  MaxDeinits,     \* bound: how often the plugin is deinitialised
  Failing         \* "create": the compositor may refuse a display

ClientAssumption == DOMAIN ClientOf = Caller
CompositorAssumption == MaxDeinits \in Nat /\ Failing \subseteq {"create"}

VARIABLES
  gCreateDisplayRequests,
  clients,        \* CompositorController: the clients with a display
  pc,             \* per caller
  posted,         \* callers whose semaphore is posted
  mResult,        \* callers whose display was made
  sRunning,
  shellThread,
  deinitialize,   \* where Deinitialize is
  deinits

callerVars == <<pc, posted, mResult>>
threadVars == <<sRunning, shellThread, deinitialize, deinits>>
windowVars == <<gCreateDisplayRequests, clients, callerVars, threadVars>>

Client == {ClientOf[c] : c \in Caller}

TypeOK ==
  /\ gCreateDisplayRequests \in Seq(Caller)
  /\ clients \subseteq Client
  /\ pc \in [Caller -> {"idle", "listed", "missing", "waiting", "created", "refused"}]
  /\ posted \subseteq Caller /\ mResult \subseteq Caller
  /\ sRunning \in BOOLEAN
  /\ shellThread \in {"none", "starting", "frame", "ended"}
  /\ deinitialize \in {"none", "joining", "joined"}
  /\ deinits \in 0..MaxDeinits

Init ==
  /\ gCreateDisplayRequests = <<>> /\ clients = {}
  /\ pc = [c \in Caller |-> "idle"] /\ posted = {} /\ mResult = {}
  /\ sRunning = TRUE /\ shellThread = "none"
  /\ deinitialize = "none" /\ deinits = 0

-----------------------------------------------------------------------------
(* isClientExists: first the queue, then the compositor is asked; a request *)
(* that is served in between is found there.                                *)
Goto(c, from, to) == pc[c] = from /\ pc' = [pc EXCEPT ![c] = to]

IsRequested(c) ==
  /\ shellThread # "none"
  /\ Goto(c, "idle", IF \E r \in ToSet(gCreateDisplayRequests) : ClientOf[r] = ClientOf[c]
                     THEN "refused" ELSE "listed")
  /\ UNCHANGED <<gCreateDisplayRequests, clients, posted, mResult, threadVars>>

IsClient(c) ==
  /\ Goto(c, "listed", IF ClientOf[c] \in clients THEN "refused" ELSE "missing")
  /\ UNCHANGED <<gCreateDisplayRequests, clients, posted, mResult, threadVars>>

(* createDisplay, with a request of its own: another caller may have asked  *)
(* for the same client meanwhile.                                           *)
PushRequest(c) ==
  /\ Goto(c, "missing", "waiting")
  /\ gCreateDisplayRequests' = Append(gCreateDisplayRequests, c)
  /\ UNCHANGED <<clients, posted, mResult, threadVars>>

SemWait(c) ==
  /\ c \in posted
  /\ Goto(c, "waiting", IF c \in mResult THEN "created" ELSE "refused")
  /\ UNCHANGED <<gCreateDisplayRequests, clients, posted, mResult, threadVars>>

-----------------------------------------------------------------------------
(* shellThread looks at sRunning once before its first frame.               *)
StartThread ==
  /\ shellThread = "starting"
  /\ shellThread' = IF sRunning THEN "frame" ELSE "ended"
  /\ UNCHANGED <<gCreateDisplayRequests, clients, callerVars, sRunning, deinitialize, deinits>>

(* A frame serves the whole queue and posts every semaphore, whatever the   *)
(* compositor says; a display that exists may be refused.                   *)
ServedRequests == ToSet(gCreateDisplayRequests)

(* Slip: a refused request is not posted.                                   *)
FrameOfSuccess ==
  /\ shellThread = "frame"
  /\ \E made \in SUBSET ServedRequests :
       /\ \A r \in ServedRequests \ made :
            \/ "create" \in Failing \/ ClientOf[r] \in clients
            \/ \E s \in made : ClientOf[s] = ClientOf[r]
       /\ posted' = posted \cup made
       /\ mResult' = mResult \cup made
       /\ clients' = clients \cup {ClientOf[r] : r \in made}
  /\ gCreateDisplayRequests' = <<>>
  /\ shellThread' = IF sRunning THEN "frame" ELSE "ended"
  /\ UNCHANGED <<pc, sRunning, deinitialize, deinits>>

Frame ==
  /\ shellThread = "frame"
  /\ posted' = posted \cup ServedRequests
  /\ \E made \in SUBSET ServedRequests :
       /\ \A r \in ServedRequests \ made :
            \/ "create" \in Failing \/ ClientOf[r] \in clients
            \/ \E s \in made : ClientOf[s] = ClientOf[r]
       /\ mResult' = mResult \cup made
       /\ clients' = clients \cup {ClientOf[r] : r \in made}
  /\ gCreateDisplayRequests' = <<>>
  /\ shellThread' = IF sRunning THEN "frame" ELSE "ended"
  /\ UNCHANGED <<pc, sRunning, deinitialize, deinits>>

-----------------------------------------------------------------------------
Initialize ==
  /\ shellThread = "none" /\ deinitialize = "none"
  /\ shellThread' = "starting"
  /\ UNCHANGED <<gCreateDisplayRequests, clients, callerVars, sRunning, deinitialize, deinits>>

(* Deinitialize: the displays go, the thread is joined, and the requests    *)
(* that came too late are dropped without a post.                           *)
BeginDeinitialize ==
  /\ shellThread # "none" /\ deinitialize = "none" /\ deinits < MaxDeinits
  /\ deinitialize' = "joining" /\ deinits' = deinits + 1
  /\ sRunning' = FALSE
  /\ clients' = {}
  /\ UNCHANGED <<gCreateDisplayRequests, callerVars, shellThread>>

Join ==
  /\ deinitialize = "joining" /\ shellThread = "ended"
  /\ deinitialize' = "joined"
  /\ UNCHANGED <<gCreateDisplayRequests, clients, callerVars, sRunning, shellThread, deinits>>

DropRequests ==
  /\ deinitialize = "joined"
  /\ deinitialize' = "none" /\ shellThread' = "none"
  /\ gCreateDisplayRequests' = <<>>
  /\ UNCHANGED <<clients, callerVars, sRunning, deinits>>
-----------------------------------------------------------------------------
Background ==
  \/ StartThread \/ Frame \/ Join \/ DropRequests
  \/ \E c \in Caller : IsClient(c) \/ PushRequest(c) \/ SemWait(c)

Next ==
  \/ Background
  \/ Initialize \/ BeginDeinitialize
  \/ \E c \in Caller : IsRequested(c)

(* The compositor's thread draws its frames and threads get on.  What they  *)
(* do is finitely much, so fairness of the union is enough.                 *)
Spec == Init /\ [][Next]_windowVars /\ WF_windowVars(Background)
-----------------------------------------------------------------------------
(* Callers that wait for a display are answered, also when it is refused and*)
(* when others ask for the same client at the same time, unless the plugin  *)
(* is deinitialised (createDisplay, isClientExists, shellThread).           *)
Waiting == {c \in Caller : pc[c] = "waiting"}

DisplayIsAnswered == Waiting # {} ~> Waiting = {} \/ ~sRunning
=============================================================================
