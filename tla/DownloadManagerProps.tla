------------------------ MODULE DownloadManagerProps ------------------------
(* The properties of DownloadManager.                                      *)
EXTENDS DownloadManager

(* What the queues hold: ids that were given out, oldest first, each in the *)
(* queue of its priority, not started and not reported (Download,           *)
(* pickDownloadJob).                                                        *)
QueueOf(q, p) ==
  /\ \A k \in 1..Len(q) :
       /\ q[k] \in 1..mDownloadId /\ priority[q[k]] = p
       /\ q[k] # mCurrentDownload /\ reported[q[k]] = "no" /\ q[k] \notin dropped
  /\ \A j, k \in 1..Len(q) : j < k => q[j] < q[k]

(* No accepted download is lost or handled twice: each is in one place in   *)
(* one of the queues, or in the downloader thread's hands, or its status    *)
(* has been reported, or Deinitialize removed it from a queue.  It is both  *)
(* in hand and reported only until the thread lets go of it                 *)
(* (downloaderRoutine, lines 535 and 536).                                  *)
Accounted ==
  /\ QueueOf(mPriorityDownloadQueue, TRUE)
  /\ QueueOf(mRegularDownloadQueue, FALSE)
  /\ \A d \in 1..mDownloadId :
       InQueue(d) \/ d = mCurrentDownload \/ reported[d] # "no" \/ d \in dropped
  /\ mCurrentDownload # None =>
       /\ mCurrentDownload \in 1..mDownloadId /\ mCurrentDownload \notin dropped
       /\ reported[mCurrentDownload] # "no" <=> wpc = "reset"
  /\ \A d \in dropped : reported[d] = "no"

(* Downloads of one priority are reported in the order they were accepted,  *)
(* whatever is retried, paused, cancelled or dropped in between.            *)
InOrder ==
  \A d, e \in 1..mDownloadId :
    d < e /\ priority[d] = priority[e] /\ reported[e] # "no" => reported[d] # "no"

(* A download is reported without a failure only when its file is complete: *)
(* neither a retry, nor a cancel that came too early or too late, nor a     *)
(* Delete of another locator makes a success of it.  (Within one run of the *)
(* plugin; the ids, and the locators with them, start again with the next.) *)
SuccessHasFile ==
  [][\A d \in Id :
       reported'[d] = "done" /\ reported[d] # "done" => file[d] = "complete"]_vars

(* A download in hand is reported, whatever fails: the attempts are         *)
(* bounded, and nothing but a pause holds a transfer up.                    *)
InHandIsReported ==
  \A d \in Id :
    mCurrentDownload = d /\ wpc \in {"open", "perform", "retry"}
      ~> reported[d] # "no" \/ paused \/ life = "crashed"

(* A download accepted while another one is in hand is taken in the end.    *)
(* (One that is accepted while the thread is about to wait is not: its      *)
(* notification is lost.)                                                   *)
QueuedWhileBusyIsTaken ==
  \A d \in Id :
    InQueue(d) /\ mCurrentDownload # None
      ~> mCurrentDownload = d \/ paused \/ life # "running"

=============================================================================
