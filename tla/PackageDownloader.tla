-------------------------- MODULE PackageDownloader -------------------------
(* The downloads of the PackageManager plugin: a queue, one thread, the     *)
(* downloader, that serves it with the HttpClient, and callers that queue,  *)
(* pause, resume, cancel and delete.  mMutex guards the queue alone: the    *)
(* download in hand and done are read and written without it.  That curl is *)
(* called from two threads, RateLimit and Progress are left out.            *)
EXTENDS Naturals, Sequences, SequencesExt

CONSTANTS
  DownloadId,     \* the downloads asked for, each once
  Caller,         \* threads that call Pause, Resume, Cancel and Delete
  Retries,        \* GetRetries: what was asked for, or MIN_RETRIES
  MayDeinitialize,
  Failing         \* "http", "notFound", "disk": how an attempt may fail

RetriesAssumption == Retries \in Nat \ {0} /\ MayDeinitialize \in BOOLEAN
DownloadIdAssumption == "none" \notin DownloadId
AttemptFailingAssumption == Failing \subseteq {"http", "notFound", "disk"}

VARIABLES
  mDownloadQueue,
  mInprogressDownload,
  at,             \* where the downloader is
  done,           \* Deinitialize has begun
  attempt,        \* attempts of the download in hand
  httpStatus,     \* status and getStatusCode of the last attempt
  cancelled,      \* DownloadInfo: downloads whose cancel is set
  bCancel,        \* HttpClient: the transfer is to be aborted
  file,           \* what is in the file of a download
  reason,         \* what OnAppDownloadStatus said of a download
  paused,         \* external: curl has paused the transfer
  calling,        \* per caller: its call, when that has found a download in hand
  aborted         \* a call used the download in hand when there was none

queueVars   == <<mDownloadQueue, mInprogressDownload>>
attemptVars == <<attempt, httpStatus, file>>
cancelVars  == <<cancelled, bCancel>>
callerVars  == <<calling, aborted>>
downloaderVars == <<queueVars, at, done, attemptVars, reason, cancelVars, paused, callerVars>>

NoDownload == "none"
NoCall     == "none"
Status == {"Success", "HttpError", "DiskError", "notFound"}

TypeOK ==
  /\ mDownloadQueue \in Seq(DownloadId)
  /\ mInprogressDownload \in DownloadId \cup {NoDownload}
  /\ at \in {"next", "look", "locked", "block", "attempt", "perform", "sleep", "notify",
             "reset", "ended"}
  /\ done \in BOOLEAN /\ bCancel \in BOOLEAN /\ aborted \in BOOLEAN
  /\ attempt \in 0..Retries
  /\ httpStatus \in Status
  /\ cancelled \subseteq DownloadId
  /\ file \in [DownloadId -> {"absent", "partial", "page", "complete"}]
  /\ reason \in [DownloadId -> {"none", "NONE", "DOWNLOAD_FAILURE", "DISK_PERSISTENCE_FAILURE"}]
  /\ paused \in BOOLEAN
  /\ calling \in [Caller -> {"Pause", "Resume", "Cancel", "Delete", NoCall}]

Init ==
  /\ mDownloadQueue = <<>> /\ mInprogressDownload = NoDownload
  /\ at = "next" /\ done = FALSE
  /\ attempt = 0 /\ httpStatus = "Success"
  /\ cancelled = {} /\ bCancel = FALSE
  /\ file = [d \in DownloadId |-> "absent"]
  /\ reason = [d \in DownloadId |-> "none"]
  /\ paused = FALSE
  /\ calling = [c \in Caller |-> NoCall] /\ aborted = FALSE

Goto(from, to) == at = from /\ at' = to
Queued(d) == d \in ToSet(mDownloadQueue)
Accepted(d) == Queued(d) \/ d = mInprogressDownload \/ reason[d] # "none"

-----------------------------------------------------------------------------
(* Download, with mMutex: the thread is woken if it blocks.                 *)
mMutexFree == at # "locked"

Woken == at' = IF at = "block" THEN "next" ELSE at

Download(d, priority) ==
  /\ ~Accepted(d) /\ mMutexFree
  /\ mDownloadQueue' = IF priority THEN <<d>> \o mDownloadQueue ELSE Append(mDownloadQueue, d)
  /\ Woken
  /\ UNCHANGED <<mInprogressDownload, done, attemptVars, reason, cancelVars, paused, callerVars>>

(* The other calls look whether a download is in hand, and then use what is *)
(* in hand.                                                                 *)
FindInprogress(c, call) ==
  /\ calling[c] = NoCall /\ mInprogressDownload # NoDownload
  /\ calling' = [calling EXCEPT ![c] = call]
  /\ UNCHANGED <<queueVars, at, done, attemptVars, reason, cancelVars, paused, aborted>>

Uses(c, call) ==
  /\ calling[c] = call
  /\ calling' = [calling EXCEPT ![c] = NoCall]
  /\ aborted' = (mInprogressDownload = NoDownload)
  /\ UNCHANGED <<queueVars, at, done, attempt, httpStatus, reason>>

(* curl has only a transfer to pause while it performs one, be it another   *)
(* download's by now.                                                       *)
Pause(c) ==
  /\ Uses(c, "Pause")
  /\ paused' = (paused \/ at = "perform")
  /\ UNCHANGED <<file, cancelVars>>

Resume(c) ==
  /\ Uses(c, "Resume")
  /\ paused' = FALSE
  /\ UNCHANGED <<file, cancelVars>>

Cancel(c) ==
  /\ Uses(c, "Cancel")
  /\ IF mInprogressDownload = NoDownload THEN UNCHANGED cancelVars
     ELSE cancelled' = cancelled \cup {mInprogressDownload} /\ bCancel' = TRUE
  /\ UNCHANGED <<file, paused>>

(* Delete, of a download that is known from its OnAppDownloadStatus.        *)
RemoveFile(d) ==
  /\ reason[d] # "none" /\ file[d] # "absent"
  /\ file' = [file EXCEPT ![d] = "absent"]

Delete(c) ==
  /\ \/ /\ Uses(c, "Delete")
        /\ UNCHANGED file \/ (\E d \in DownloadId \ {mInprogressDownload} : RemoveFile(d))
     \/ /\ calling[c] = NoCall /\ mInprogressDownload = NoDownload
        /\ \E d \in DownloadId : RemoveFile(d)
        /\ UNCHANGED <<queueVars, at, done, attempt, httpStatus, reason, callerVars>>
  /\ UNCHANGED <<cancelVars, paused>>

(* Deinitialize: done is set and cv notified without mMutex; then the       *)
(* thread is joined.                                                        *)
Deinitialize ==
  /\ MayDeinitialize /\ ~done
  /\ done' = TRUE
  /\ Woken
  /\ UNCHANGED <<queueVars, attemptVars, reason, cancelVars, paused, callerVars>>

-----------------------------------------------------------------------------
(* downloader: done, then getNext.                                          *)
getNext ==
  /\ at = "next"
  /\ IF done THEN at' = "ended" /\ UNCHANGED queueVars
     ELSE IF mDownloadQueue = <<>> THEN at' = "look" /\ UNCHANGED queueVars
     ELSE /\ mInprogressDownload' = Head(mDownloadQueue)
          /\ mDownloadQueue' = Tail(mDownloadQueue)
          /\ at' = "attempt"
  /\ attempt' = 0
  /\ UNCHANGED <<done, httpStatus, file, reason, cancelVars, paused, callerVars>>

(* Slip: the wait has no condition.                                         *)
WaitForNotify ==
  /\ at = "look"
  /\ at' = "locked"
  /\ UNCHANGED <<queueVars, done, attemptVars, reason, cancelVars, paused, callerVars>>

(* The wait looks at its condition with mMutex held until the thread blocks;*)
(* done may change in between, and then nobody wakes the thread.            *)
LookForWork ==
  /\ at = "look"
  /\ at' = IF done \/ mDownloadQueue # <<>> THEN "next" ELSE "locked"
  /\ UNCHANGED <<queueVars, done, attemptVars, reason, cancelVars, paused, callerVars>>

Block ==
  /\ Goto("locked", "block")
  /\ UNCHANGED <<queueVars, done, attemptVars, reason, cancelVars, paused, callerVars>>

(* downloadFile forgets a Cancel that came before it.                       *)
StartAttempt ==
  /\ Goto("attempt", "perform")
  /\ bCancel' = FALSE
  /\ attempt' = attempt + 1
  /\ UNCHANGED <<queueVars, done, httpStatus, file, reason, cancelled, paused, callerVars>>

(* curl_easy_perform: a server that has no such file answers with a page,   *)
(* which is a success for curl.  A disk error comes before or after the file*)
(* was opened.  A transfer that is paused ends only when it is cancelled.   *)
Attempted(status, content) ==
  /\ at = "perform"
  /\ httpStatus' = status
  /\ file' = [file EXCEPT ![mInprogressDownload] = content]
  /\ at' = IF status \in {"Success", "notFound"} \/ attempt = Retries THEN "notify" ELSE "sleep"
  /\ paused' = FALSE
  /\ UNCHANGED <<queueVars, done, attempt, reason, cancelVars, callerVars>>

Perform ==
  \/ ~paused /\ Attempted("Success", "complete")
  \/ ~paused /\ "notFound" \in Failing /\ Attempted("notFound", "page")
  \/ ~paused /\ "http" \in Failing /\ Attempted("HttpError", "partial")
  \/ bCancel /\ Attempted("HttpError", "partial")
  \/ ~paused /\ "disk" \in Failing /\ \E content \in {"partial", file[mInprogressDownload]} :
                                         Attempted("DiskError", content)

(* The next attempt comes after a pause, unless the download was cancelled. *)
Sleep ==
  /\ at = "sleep"
  /\ at' = IF mInprogressDownload \in cancelled THEN "notify" ELSE "attempt"
  /\ UNCHANGED <<queueVars, done, attemptVars, reason, cancelVars, paused, callerVars>>

Reason(status) ==
  CASE status = "Success"   -> "NONE"
    [] status = "DiskError" -> "DISK_PERSISTENCE_FAILURE"
    [] OTHER                -> "DOWNLOAD_FAILURE"

NotifyDownloadStatus ==
  /\ Goto("notify", "reset")
  /\ reason' = [reason EXCEPT ![mInprogressDownload] = Reason(httpStatus)]
  /\ UNCHANGED <<queueVars, done, attemptVars, cancelVars, paused, callerVars>>

ResetInprogress ==
  /\ Goto("reset", "next")
  /\ mInprogressDownload' = NoDownload
  /\ UNCHANGED <<mDownloadQueue, done, attemptVars, reason, cancelVars, paused, callerVars>>

-----------------------------------------------------------------------------
Downloader ==
  \/ getNext \/ LookForWork \/ Block \/ StartAttempt \/ Sleep
  \/ NotifyDownloadStatus \/ ResetInprogress

Callers ==
  \/ \E d \in DownloadId : \E priority \in BOOLEAN : Download(d, priority)
  \/ \E c \in Caller :
       \/ \E call \in {"Pause", "Resume", "Cancel", "Delete"} : FindInprogress(c, call)
       \/ Pause(c) \/ Resume(c) \/ Cancel(c) \/ Delete(c)
  \/ Deinitialize

Next == ~aborted /\ (Downloader \/ Perform \/ Callers)

(* The thread gets on.  Of a transfer that is not assumed: HttpClient sets  *)
(* curl no time limit.                                                      *)
DownloaderRuns == ~aborted /\ Downloader

Spec == Init /\ [][Next]_downloaderVars /\ WF_downloaderVars(DownloaderRuns)
-----------------------------------------------------------------------------
(* Every download that was accepted is reported, whatever overtakes it, is  *)
(* paused, resumed or cancelled, unless the plugin is deinitialised first or*)
(* a transfer never ends: from every state the downloader comes to one in   *)
(* which none is open (PackageManagerImplementation::Download, downloader,  *)
(* getNext).                                                                *)
DownloadIsReported ==
  \/ <>[](at = "perform")
  \/ []<>(done \/ aborted \/ \A d \in DownloadId : Accepted(d) => reason[d] # "none")
=============================================================================
