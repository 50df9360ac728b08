--------------------------- MODULE DownloadManager ---------------------------
(* The DownloadManager plugin: two FIFO queues of accepted downloads, one   *)
(* downloader thread that takes them one at a time (downloaderRoutine), the *)
(* API calls under mAdminLock, and Deinitialize, which stops and joins the  *)
(* thread.                                                                  *)
(*                                                                          *)
(* Granularity.  mQueueMutex guards only the queues, so Download and        *)
(* pickDownloadJob are atomic.  mCurrentDownload is written by the thread   *)
(* without mAdminLock: a call that tests it, compares its id and uses it is *)
(* three steps.  Only one call at a time owns mAdminLock, and the thread    *)
(* needs it to notify.  A download is named by its number, counted from the *)
(* configured first id; its file locator is derived from it.                *)
EXTENDS Naturals, Sequences

CONSTANTS
  RetryOptions,   \* values of options.retries
  ControlOp,      \* the calls on the download in hand that clients make
  MaxDownloads,   \* bound: downloads accepted in a behaviour
  MayDeinitialize \* whether the plugin may be deinitialised

ASSUME OptionAssumption ==
  /\ RetryOptions \subseteq Nat
  /\ ControlOp \subseteq {"pause", "resume", "cancel", "progress", "rateLimit"}
ASSUME DownloadBoundAssumption ==
  MaxDownloads \in Nat /\ MayDeinitialize \in BOOLEAN

Id   == 1..MaxDownloads
None == 0

VARIABLES
  \* ---- the plugin ----------------------------------------------------------
  mDownloadId,            \* number of the last accepted download
  mPriorityDownloadQueue,
  mRegularDownloadQueue,
  mCurrentDownload,       \* the download in hand, or None
  priority, retries,      \* per download: the fields of DownloadInfo
  isCancelled,
  mDownloaderRunFlag,
  wpc,                    \* where the downloader thread is
  attempt,                \* i, the index of the attempt
  status,                 \* status of the last attempt
  \* ---- mHttpClient -----------------------------------------------------------
  bCancel, paused,
  \* ---- callers ---------------------------------------------------------------
  call,                   \* the API call that owns mAdminLock
  life,                   \* where the plugin's life is
  \* ---- the world -------------------------------------------------------------
  file,                   \* what the file system holds at a locator
  reported,               \* per download: what OnAppDownloadStatus said
  dropped                 \* downloads Deinitialize removed from the queues

queueVars == <<mDownloadId, mPriorityDownloadQueue, mRegularDownloadQueue>>
infoVars  == <<priority, retries>>
runVars   == <<wpc, attempt, status>>
httpVars  == <<bCancel, paused>>
lifeVars  == <<mDownloaderRunFlag, life, dropped>>
worldVars == <<file, reported>>
vars == <<queueVars, infoVars, isCancelled, mCurrentDownload, runVars, httpVars, call,
          lifeVars, worldVars>>

NoCall == [op |-> "none", id |-> None, pc |-> "idle"]

MIN_RETRIES == 2

TypeOK ==
  /\ mDownloadId \in 0..MaxDownloads
  /\ mPriorityDownloadQueue \in Seq(Id) /\ mRegularDownloadQueue \in Seq(Id)
  /\ mCurrentDownload \in Id \cup {None}
  /\ priority \in [Id -> BOOLEAN] /\ retries \in [Id -> Nat]
  /\ isCancelled \in [Id -> BOOLEAN]
  /\ mDownloaderRunFlag \in BOOLEAN
  /\ wpc \in {"top", "pick", "park", "wait", "begin", "retry", "open", "perform",
              "report", "reset", "exited"}
  /\ attempt \in Nat /\ status \in {"Success", "HttpError", "DiskError"}
  /\ bCancel \in BOOLEAN /\ paused \in BOOLEAN
  /\ call \in [op : ControlOp \cup {"delete", "none"}, id : Id \cup {None},
               pc : {"idle", "compare", "use"}]
  /\ life \in {"running", "joining", "stopped", "crashed"}
  /\ file \in [Id -> {"absent", "partial", "complete"}]
  /\ reported \in [Id -> {"no", "done", "failed"}]
  /\ dropped \subseteq Id

(* The members after construction and Initialize.                          *)
Init ==
  /\ mDownloadId = 0
  /\ mPriorityDownloadQueue = <<>> /\ mRegularDownloadQueue = <<>>
  /\ mCurrentDownload = None
  /\ priority = [d \in Id |-> FALSE] /\ retries = [d \in Id |-> 0]
  /\ isCancelled = [d \in Id |-> FALSE]
  /\ mDownloaderRunFlag = TRUE
  /\ wpc = "top" /\ attempt = 0 /\ status = "Success"
  /\ bCancel = FALSE /\ paused = FALSE
  /\ call = NoCall /\ life = "running"
  /\ file = [d \in Id |-> "absent"]
  /\ reported = [d \in Id |-> "no"] /\ dropped = {}

-----------------------------------------------------------------------------
(* API calls. *)

AdminLockFree == call = NoCall

Accepting == life \in {"running", "joining"} /\ AdminLockFree

(* Slip: the latest request goes first.                                    *)
EnqueueFront(q, d) == <<d>> \o q

Enqueue(q, d) == Append(q, d)

(* Download: a new id, the queue of its priority, and a notification that   *)
(* only reaches a thread that is already waiting.                           *)
Download(p, r) ==
  /\ Accepting /\ mDownloadId < MaxDownloads
  /\ LET d == mDownloadId + 1 IN
     /\ mDownloadId' = d
     /\ priority' = [priority EXCEPT ![d] = p]
     /\ retries' = [retries EXCEPT ![d] = IF r = 0 THEN MIN_RETRIES ELSE r]
     /\ IF p THEN /\ mPriorityDownloadQueue' = Enqueue(mPriorityDownloadQueue, d)
                  /\ UNCHANGED mRegularDownloadQueue
             ELSE /\ mRegularDownloadQueue' = Enqueue(mRegularDownloadQueue, d)
                  /\ UNCHANGED mPriorityDownloadQueue
  /\ wpc' = IF wpc = "wait" THEN "pick" ELSE wpc
  /\ UNCHANGED <<isCancelled, mCurrentDownload, attempt, status, httpVars, call,
                 lifeVars, worldVars>>

(* Pause, Resume, Cancel, Progress, RateLimit: refused when nothing is in   *)
(* hand (nothing changes then), otherwise go on with mAdminLock held.       *)
CallControl(op, d) ==
  /\ Accepting /\ d \in 1..mDownloadId
  /\ mCurrentDownload # None
  /\ call' = [op |-> op, id |-> d, pc |-> "compare"]
  /\ UNCHANGED <<queueVars, infoVars, isCancelled, mCurrentDownload, runVars, httpVars,
                 lifeVars, worldVars>>

(* Delete of a locator that clients were told; with no download in hand     *)
(* there is nothing to compare it with.                                     *)
CallDelete(d) ==
  /\ Accepting /\ reported[d] # "no"
  /\ call' = [op |-> "delete", id |-> d,
              pc |-> IF mCurrentDownload = None THEN "use" ELSE "compare"]
  /\ UNCHANGED <<queueVars, infoVars, isCancelled, mCurrentDownload, runVars, httpVars,
                 lifeVars, worldVars>>

(* The comparison with mCurrentDownload: a match lets the control calls go  *)
(* on and refuses a delete.                                                 *)
Compare ==
  /\ call.pc = "compare" /\ mCurrentDownload # None
  /\ call' = IF (mCurrentDownload = call.id) # (call.op = "delete")
             THEN [call EXCEPT !.pc = "use"] ELSE NoCall
  /\ UNCHANGED <<queueVars, infoVars, isCancelled, mCurrentDownload, runVars, httpVars,
                 lifeVars, worldVars>>

(* Pause and Resume reach the transfer only while curl_easy_perform runs.   *)
UseTransfer ==
  /\ call.pc = "use" /\ call.op \in {"pause", "resume", "progress", "rateLimit"}
  /\ call.op = "rateLimit" => mCurrentDownload # None
  /\ paused' = IF wpc # "perform" THEN paused
               ELSE CASE call.op = "pause"  -> TRUE
                      [] call.op = "resume" -> FALSE
                      [] OTHER -> paused
  /\ call' = NoCall
  /\ UNCHANGED <<queueVars, infoVars, isCancelled, mCurrentDownload, runVars, bCancel,
                 lifeVars, worldVars>>

(* Cancel marks the download in hand, read again, and aborts the transfer.  *)
UseCancel ==
  /\ call.pc = "use" /\ call.op = "cancel" /\ mCurrentDownload # None
  /\ isCancelled' = [isCancelled EXCEPT ![mCurrentDownload] = TRUE]
  /\ bCancel' = TRUE
  /\ call' = NoCall
  /\ UNCHANGED <<queueVars, infoVars, mCurrentDownload, runVars, paused, lifeVars,
                 worldVars>>

UseDelete ==
  /\ call.pc = "use" /\ call.op = "delete"
  /\ file' = [file EXCEPT ![call.id] = "absent"]
  /\ call' = NoCall
  /\ UNCHANGED <<queueVars, infoVars, isCancelled, mCurrentDownload, runVars, httpVars,
                 lifeVars, reported>>

(* The thread has reset mCurrentDownload since it was tested.              *)
UseNull ==
  /\ mCurrentDownload = None
  /\ \/ call.pc = "compare"
     \/ call.pc = "use" /\ call.op \in {"cancel", "rateLimit"}
  /\ life' = "crashed"
  /\ UNCHANGED <<queueVars, infoVars, isCancelled, mCurrentDownload, runVars, httpVars,
                 call, mDownloaderRunFlag, dropped, worldVars>>

-----------------------------------------------------------------------------
(* The downloader thread. *)

Goto(from, to) == wpc = from /\ wpc' = to

(* The conditions of the loops.                                            *)
CheckFlag ==
  /\ \/ mDownloaderRunFlag /\ Goto("top", "pick")
     \/ ~mDownloaderRunFlag /\ Goto("top", "exited")
     \/ mDownloaderRunFlag /\ mCurrentDownload = None /\ Goto("begin", "park")
     \/ ~mDownloaderRunFlag /\ Goto("begin", "exited")
  /\ UNCHANGED <<queueVars, infoVars, isCancelled, mCurrentDownload, attempt, status,
                 httpVars, call, lifeVars, worldVars>>

(* pickDownloadJob: priority first, and only when nothing is in hand.       *)
pickDownloadJob ==
  /\ Goto("pick", "begin")
  /\ LET idle == mCurrentDownload = None
         fromPriority == idle /\ mPriorityDownloadQueue # <<>>
         fromRegular == idle /\ mPriorityDownloadQueue = <<>>
                             /\ mRegularDownloadQueue # <<>>
     IN /\ mCurrentDownload' = IF fromPriority THEN Head(mPriorityDownloadQueue)
                               ELSE IF fromRegular THEN Head(mRegularDownloadQueue)
                               ELSE mCurrentDownload
        /\ mPriorityDownloadQueue' = IF fromPriority THEN Tail(mPriorityDownloadQueue)
                                     ELSE mPriorityDownloadQueue
        /\ mRegularDownloadQueue' = IF fromRegular THEN Tail(mRegularDownloadQueue)
                                    ELSE mRegularDownloadQueue
  /\ UNCHANGED <<mDownloadId, infoVars, isCancelled, attempt, status, httpVars, call,
                 lifeVars, worldVars>>

(* The wait on mDownloadThreadCV has no predicate: it takes mQueueMutex     *)
(* after the decision to wait, and may end without a notification.          *)
Wait ==
  /\ Goto("park", "wait")
  /\ UNCHANGED <<queueVars, infoVars, isCancelled, mCurrentDownload, attempt, status,
                 httpVars, call, lifeVars, worldVars>>

SpuriousWakeup ==
  /\ Goto("wait", "pick")
  /\ UNCHANGED <<queueVars, infoVars, isCancelled, mCurrentDownload, attempt, status,
                 httpVars, call, lifeVars, worldVars>>

(* Slip: a cancelled download is given up before the first attempt, too,    *)
(* where status still has its initial value.                                *)
BeginUnlessCancelled ==
  /\ mDownloaderRunFlag /\ mCurrentDownload # None /\ Goto("begin", "retry")
  /\ UNCHANGED <<queueVars, infoVars, isCancelled, mCurrentDownload, attempt, status,
                 httpVars, call, lifeVars, worldVars>>

(* A job in hand, and the flag still set: the first attempt.                *)
BeginDownload ==
  /\ mDownloaderRunFlag /\ mCurrentDownload # None /\ Goto("begin", "open")
  /\ UNCHANGED <<queueVars, infoVars, isCancelled, mCurrentDownload, attempt, status,
                 httpVars, call, lifeVars, worldVars>>

(* After the delay before a retry, and only then, a cancelled download is   *)
(* given up.                                                                *)
Retry ==
  /\ wpc = "retry"
  /\ wpc' = IF isCancelled[mCurrentDownload] THEN "report" ELSE "open"
  /\ UNCHANGED <<queueVars, infoVars, isCancelled, mCurrentDownload, attempt, status,
                 httpVars, call, lifeVars, worldVars>>

(* Slip: the index is not advanced.                                         *)
RetryForever(failure) ==
  /\ status' = failure
  /\ paused' = FALSE
  /\ wpc' = IF attempt + 1 < retries[mCurrentDownload] THEN "retry" ELSE "report"
  /\ UNCHANGED attempt

(* The loop over the attempts goes on, unless this was the last one.        *)
NextAttempt(failure) ==
  /\ status' = failure
  /\ attempt' = attempt + 1
  /\ paused' = FALSE
  /\ wpc' = IF attempt + 1 < retries[mCurrentDownload] THEN "retry" ELSE "report"

(* downloadFile: bCancel is reset, the file truncated, the transfer begun.  *)
OpenFile ==
  /\ Goto("open", "perform")
  /\ bCancel' = FALSE /\ paused' = FALSE
  /\ file' = [file EXCEPT ![mCurrentDownload] = "partial"]
  /\ UNCHANGED <<queueVars, infoVars, isCancelled, mCurrentDownload, attempt, status,
                 call, lifeVars, reported>>

OpenFails ==
  /\ wpc = "open"
  /\ bCancel' = FALSE
  /\ NextAttempt("DiskError")
  /\ UNCHANGED <<queueVars, infoVars, isCancelled, mCurrentDownload, call,
                 lifeVars, worldVars>>

(* Everything has arrived; the HTTP status may be any but 404.  A file      *)
(* removed meanwhile stays removed.                                         *)
TransferSucceeds ==
  /\ wpc = "perform" /\ ~paused
  /\ file' = [file EXCEPT ![mCurrentDownload] = IF @ = "absent" THEN @ ELSE "complete"]
  /\ status' = "Success"
  /\ wpc' = "report"
  /\ UNCHANGED <<queueVars, infoVars, isCancelled, mCurrentDownload, attempt, httpVars,
                 call, lifeVars, reported>>

(* The transfer, paused or not, breaks off: an error of the network or of   *)
(* the disk, or the progress callback saw bCancel.                          *)
TransferFails(failure) ==
  /\ wpc = "perform"
  /\ NextAttempt(failure)
  /\ UNCHANGED <<queueVars, infoVars, isCancelled, mCurrentDownload, bCancel, call,
                 lifeVars, worldVars>>

(* The answer is a 404, complete or broken off: it is not tried again.      *)
NotFound ==
  /\ Goto("perform", "report")
  /\ status' = "HttpError" /\ paused' = FALSE
  /\ UNCHANGED <<queueVars, infoVars, isCancelled, mCurrentDownload, attempt, bCancel,
                 call, lifeVars, worldVars>>

notifyDownloadStatus ==
  /\ Goto("report", "reset") /\ AdminLockFree
  /\ reported' = [reported EXCEPT ![mCurrentDownload] =
                    IF status = "Success" THEN "done" ELSE "failed"]
  /\ UNCHANGED <<queueVars, infoVars, isCancelled, mCurrentDownload, attempt, status,
                 httpVars, call, lifeVars, file>>

(* Slip: mCurrentDownload is not reset.                                    *)
ResetNothing ==
  /\ Goto("reset", "top")
  /\ attempt' = 0 /\ status' = "Success"
  /\ UNCHANGED <<queueVars, infoVars, isCancelled, mCurrentDownload, httpVars, call,
                 lifeVars, worldVars>>

(* The end of an iteration; attempt and status are local to it.             *)
ResetCurrent ==
  /\ Goto("reset", "top")
  /\ mCurrentDownload' = None
  /\ attempt' = 0 /\ status' = "Success"
  /\ UNCHANGED <<queueVars, infoVars, isCancelled, httpVars, call,
                 lifeVars, worldVars>>

-----------------------------------------------------------------------------
(* Deinitialize. *)

(* The flag and the notification, without mQueueMutex.                      *)
StopDownloader ==
  /\ MayDeinitialize /\ life = "running"
  /\ life' = "joining"
  /\ mDownloaderRunFlag' = FALSE
  /\ wpc' = IF wpc = "wait" THEN "pick" ELSE wpc
  /\ UNCHANGED <<queueVars, infoVars, isCancelled, mCurrentDownload, attempt, status,
                 httpVars, call, dropped, worldVars>>

InQueue(d) ==
  \/ \E k \in 1..Len(mPriorityDownloadQueue) : mPriorityDownloadQueue[k] = d
  \/ \E k \in 1..Len(mRegularDownloadQueue) : mRegularDownloadQueue[k] = d

JoinAndClear ==
  /\ life = "joining" /\ wpc = "exited"
  /\ life' = "stopped"
  /\ dropped' = dropped \cup {d \in Id : InQueue(d)}
  /\ mPriorityDownloadQueue' = <<>> /\ mRegularDownloadQueue' = <<>>
  /\ UNCHANGED <<mDownloadId, infoVars, isCancelled, mCurrentDownload, runVars, httpVars,
                 call, mDownloaderRunFlag, worldVars>>

-----------------------------------------------------------------------------
ClientStep ==
  \/ \E p \in BOOLEAN, r \in RetryOptions : Download(p, r)
  \/ \E d \in Id : CallDelete(d) \/ \E op \in ControlOp : CallControl(op, d)

CallStep == Compare \/ UseTransfer \/ UseCancel \/ UseDelete

Transfer ==
  TransferSucceeds \/ NotFound \/ \E f \in {"HttpError", "DiskError"} : TransferFails(f)

DownloaderStep ==
  \/ CheckFlag \/ pickDownloadJob \/ Wait \/ BeginDownload \/ Retry
  \/ OpenFile \/ OpenFails \/ notifyDownloadStatus \/ ResetCurrent

Next ==
  /\ life # "crashed"
  /\ \/ ClientStep \/ CallStep \/ UseNull
     \/ DownloaderStep \/ Transfer \/ SpuriousWakeup
     \/ StopDownloader \/ JoinAndClear

Spec == Init /\ [][Next]_vars

(* The thread and the call that owns the lock keep running; a transfer ends *)
(* unless it is paused (an answer comes, or a failure does), and a paused   *)
(* one ends when it is cancelled; the thread gets mAdminLock although other *)
(* calls may take it again and again.  Nothing promises a client's next     *)
(* call, or a spurious wake-up.                                             *)
Running(A) == life # "crashed" /\ A

Fairness ==
  /\ SF_vars(Running(DownloaderStep))
  /\ WF_vars(Running(CallStep))
  /\ SF_vars(Running((~paused \/ bCancel) /\ Transfer))
  /\ WF_vars(Running(JoinAndClear))

FairSpec == Spec /\ Fairness
=============================================================================
