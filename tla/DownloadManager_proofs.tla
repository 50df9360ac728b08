----------------------- MODULE DownloadManager_proofs -----------------------
(* Proofs about DownloadManager, for any number of downloads and any retry  *)
(* options.  Accounted and InOrder need to know, besides, where the thread  *)
(* can be with and without a download in hand, and that nothing is dropped  *)
(* before the thread has ended; SuccessHasFile, that a Success in hand is   *)
(* reported before anybody can be told to delete its file (FileInv).        *)
EXTENDS DownloadManagerProps, TLAPS

(* What NextAttempt leaves behind.                                         *)
LEMMA Attempt ==
  ASSUME TypeOK, NEW f \in {"HttpError", "DiskError"}, NextAttempt(f)
  PROVE  /\ attempt' \in Nat /\ status' \in {"Success", "HttpError", "DiskError"}
         /\ paused' \in BOOLEAN /\ wpc' \in {"retry", "report"}
<1>1. attempt' \in Nat
  BY DEF TypeOK, NextAttempt
<1>2. status' \in {"Success", "HttpError", "DiskError"} /\ paused' \in BOOLEAN
  BY DEF NextAttempt
<1>3. wpc' \in {"retry", "report"}
  BY DEF NextAttempt
<1> QED
  BY <1>1, <1>2, <1>3

(* TypeOK is inductive: every variable keeps its type.                     *)
LEMMA TypeInit == Init => TypeOK
<1> SUFFICES ASSUME Init PROVE TypeOK
  OBVIOUS
<1>1. mDownloadId \in 0..MaxDownloads
  BY DownloadBoundAssumption DEF Init
<1>2. call \in [op : ControlOp \cup {"delete", "none"}, id : Id \cup {None},
                pc : {"idle", "compare", "use"}]
  BY DEF Init, NoCall
<1>3. mPriorityDownloadQueue \in Seq(Id) /\ mRegularDownloadQueue \in Seq(Id)
  BY DEF Init
<1> QED
  BY <1>1, <1>2, <1>3 DEF Init, TypeOK

LEMMA TypeStep == ASSUME TypeOK, [Next]_vars PROVE TypeOK'
<1> USE DownloadBoundAssumption, OptionAssumption
<1> USE DEF TypeOK, NoCall, Goto, queueVars, infoVars, runVars, httpVars,
            lifeVars, worldVars
<1>1. ASSUME NEW p \in BOOLEAN, NEW r \in RetryOptions, Download(p, r)
      PROVE  TypeOK'
  <2>1. mDownloadId + 1 \in Id /\ r \in Nat
    BY <1>1 DEF Download, Id
  <2>2. mDownloadId' \in 0..MaxDownloads /\ priority' \in [Id -> BOOLEAN]
        /\ retries' \in [Id -> Nat]
    BY <1>1, <2>1 DEF Download, MIN_RETRIES
  <2>3. /\ Append(mPriorityDownloadQueue, mDownloadId + 1) \in Seq(Id)
        /\ Append(mRegularDownloadQueue, mDownloadId + 1) \in Seq(Id)
    BY <2>1
  <2>4. mPriorityDownloadQueue' \in Seq(Id) /\ mRegularDownloadQueue' \in Seq(Id)
    BY <1>1, <2>3 DEF Download, Enqueue
  <2> QED
    BY <1>1, <2>2, <2>4 DEF Download
<1>2. ASSUME NEW d \in Id, CallDelete(d) PROVE TypeOK'
  BY <1>2 DEF CallDelete
<1>3. ASSUME NEW d \in Id, NEW op \in ControlOp, CallControl(op, d) PROVE TypeOK'
  BY <1>3 DEF CallControl
<1>4. CASE Compare
  <2>1. call' \in [op : ControlOp \cup {"delete", "none"}, id : Id \cup {None},
                   pc : {"idle", "compare", "use"}]
    <3>1. CASE call' = NoCall
      BY <3>1
    <3>2. CASE call' = [call EXCEPT !.pc = "use"]
      BY <3>2
    <3> QED
      BY <1>4, <3>1, <3>2 DEF Compare
  <2> QED
    BY <1>4, <2>1 DEF Compare
<1>5. CASE UseTransfer
  <2>1. paused' \in BOOLEAN
    <3>1. paused \in BOOLEAN
      OBVIOUS
    <3>2. paused' \in {paused, TRUE, FALSE}
      BY <1>5, Zenon DEF UseTransfer
    <3> QED
      BY <3>1, <3>2
  <2>2. call' = NoCall
    BY <1>5, Zenon DEF UseTransfer
  <2>3. call' \in [op : ControlOp \cup {"delete", "none"}, id : Id \cup {None},
                   pc : {"idle", "compare", "use"}]
    BY <2>2
  <2>4. UNCHANGED <<queueVars, infoVars, isCancelled, mCurrentDownload, runVars,
                    bCancel, lifeVars, worldVars>>
    BY <1>5, Zenon DEF UseTransfer
  <2> QED
    BY <2>1, <2>3, <2>4
<1>6. CASE UseCancel
  <2>1. isCancelled' \in [Id -> BOOLEAN] /\ bCancel' \in BOOLEAN
    BY <1>6 DEF UseCancel
  <2>2. call' \in [op : ControlOp \cup {"delete", "none"}, id : Id \cup {None},
                   pc : {"idle", "compare", "use"}]
    BY <1>6 DEF UseCancel
  <2>3. UNCHANGED <<queueVars, infoVars, mCurrentDownload, runVars, paused, lifeVars,
                    worldVars>>
    BY <1>6, Zenon DEF UseCancel
  <2> QED
    BY <2>1, <2>2, <2>3
<1>7. CASE UseDelete
  <2>1. file' \in [Id -> {"absent", "partial", "complete"}]
    BY <1>7 DEF UseDelete
  <2>2. call' \in [op : ControlOp \cup {"delete", "none"}, id : Id \cup {None},
                   pc : {"idle", "compare", "use"}]
    BY <1>7 DEF UseDelete
  <2>3. UNCHANGED <<queueVars, infoVars, isCancelled, mCurrentDownload, runVars,
                    httpVars, lifeVars, reported>>
    BY <1>7, Zenon DEF UseDelete
  <2> QED
    BY <2>1, <2>2, <2>3
<1>8. CASE UseNull
  BY <1>8 DEF UseNull
<1>9. CASE pickDownloadJob
  <2>1. mPriorityDownloadQueue # <<>> =>
          /\ Head(mPriorityDownloadQueue) \in Id
          /\ Tail(mPriorityDownloadQueue) \in Seq(Id)
    OBVIOUS
  <2>2. mRegularDownloadQueue # <<>> =>
          /\ Head(mRegularDownloadQueue) \in Id
          /\ Tail(mRegularDownloadQueue) \in Seq(Id)
    OBVIOUS
  <2> QED
    BY <1>9, <2>1, <2>2 DEF pickDownloadJob
<1>10. CASE CheckFlag \/ Wait \/ BeginDownload \/ Retry \/ SpuriousWakeup
  BY <1>10 DEF CheckFlag, Wait, BeginDownload, Retry, SpuriousWakeup
<1>11. CASE OpenFile
  <2>1. file' \in [Id -> {"absent", "partial", "complete"}]
    BY <1>11 DEF OpenFile
  <2>2. wpc' = "perform" /\ bCancel' = FALSE /\ paused' = FALSE
    BY <1>11 DEF OpenFile
  <2>3. UNCHANGED <<queueVars, infoVars, isCancelled, mCurrentDownload, attempt,
                    status, call, lifeVars, reported>>
    BY <1>11, Zenon DEF OpenFile
  <2> HIDE <1>11
  <2> QED
    BY <2>1, <2>2, <2>3
<1>12. CASE OpenFails
  <2>1. NextAttempt("DiskError")
    BY <1>12 DEF OpenFails
  <2>2. /\ attempt' \in Nat /\ status' \in {"Success", "HttpError", "DiskError"}
        /\ paused' \in BOOLEAN /\ wpc' \in {"retry", "report"}
    BY <2>1, Attempt
  <2> QED
    BY <1>12, <2>2 DEF OpenFails
<1>13. CASE notifyDownloadStatus
  <2>1. reported' \in [Id -> {"no", "done", "failed"}]
    BY <1>13 DEF notifyDownloadStatus
  <2>2. wpc' = "reset"
    BY <1>13 DEF notifyDownloadStatus
  <2>3. UNCHANGED <<queueVars, infoVars, isCancelled, mCurrentDownload, attempt,
                    status, httpVars, call, lifeVars, file>>
    BY <1>13 DEF notifyDownloadStatus
  <2> QED
    BY <2>1, <2>2, <2>3
<1>14. CASE ResetCurrent
  BY <1>14 DEF ResetCurrent
<1>15. CASE TransferSucceeds
  BY <1>15 DEF TransferSucceeds
<1>16. CASE NotFound
  BY <1>16 DEF NotFound
<1>17. ASSUME NEW f \in {"HttpError", "DiskError"}, TransferFails(f) PROVE TypeOK'
  <2>1. /\ attempt' \in Nat /\ status' \in {"Success", "HttpError", "DiskError"}
        /\ paused' \in BOOLEAN /\ wpc' \in {"retry", "report"}
    BY <1>17, Attempt DEF TransferFails
  <2> QED
    BY <1>17, <2>1 DEF TransferFails
<1>18. CASE StopDownloader
  <2>1. /\ life' = "joining" /\ mDownloaderRunFlag' = FALSE
        /\ wpc' \in {"top", "pick", "park", "wait", "begin", "retry", "open", "perform",
                     "report", "reset", "exited"}
    BY <1>18 DEF StopDownloader
  <2>2. UNCHANGED <<queueVars, infoVars, isCancelled, mCurrentDownload, attempt,
                    status, httpVars, call, dropped, worldVars>>
    BY <1>18, Zenon DEF StopDownloader
  <2> HIDE <1>18
  <2> QED
    BY <2>1, <2>2
<1>19. CASE JoinAndClear
  BY <1>19 DEF JoinAndClear
<1>20. CASE UNCHANGED vars
  BY <1>20 DEF vars
<1> QED
  BY <1>1, <1>2, <1>3, <1>4, <1>5, <1>6, <1>7, <1>8, <1>9, <1>10, <1>11, <1>12,
     <1>13, <1>14, <1>15, <1>16, <1>17, <1>18, <1>19, <1>20
     DEF Next, ClientStep, CallStep, DownloaderStep, Transfer

(* Every variable keeps its type in every behaviour.                        *)
THEOREM TypeCorrect == Spec => []TypeOK
  BY TypeInit, TypeStep, PTL DEF Spec

-----------------------------------------------------------------------------
(* Where the thread is without and with a download in hand, and that        *)
(* nothing is dropped, or reported, too early.                              *)
Thread ==
  /\ wpc \in {"top", "pick", "park", "wait"} => mCurrentDownload = None
  /\ wpc \in {"open", "retry", "perform", "report", "reset"} => mCurrentDownload # None
  /\ dropped # {} => wpc = "exited"
  /\ dropped \subseteq 1..mDownloadId
  /\ \A d \in Id : d > mDownloadId => reported[d] = "no"

(* InOrder, one step ahead: what precedes the download in hand is reported. *)
HandInOrder ==
  mCurrentDownload # None =>
    \A d \in 1..mDownloadId :
      d < mCurrentDownload /\ priority[d] = priority[mCurrentDownload]
        => reported[d] # "no"

IInv == TypeOK /\ Thread /\ Accounted /\ HandInOrder /\ InOrder

(* The steps that leave the queues, the reports and the download in hand    *)
(* alone only have to keep the thread where Thread and Accounted want it.   *)
LEMMA Quiet ==
  ASSUME IInv, TypeOK', UNCHANGED <<queueVars, priority, mCurrentDownload, reported, dropped>>,
         wpc' \in {"top", "pick", "park", "wait"} => mCurrentDownload = None,
         wpc' \in {"open", "retry", "perform", "report"} => mCurrentDownload # None,
         wpc' = "reset" <=> wpc = "reset",
         wpc = "exited" => wpc' = "exited"
  PROVE  IInv'
<1> USE DEF IInv, queueVars
<1>1. Thread'
  BY DEF Thread
<1>2. Accounted'
  <2>1. QueueOf(mPriorityDownloadQueue, TRUE)' /\ QueueOf(mRegularDownloadQueue, FALSE)'
    BY DEF Accounted, QueueOf
  <2> QED
    BY <2>1 DEF Accounted, InQueue
<1>3. HandInOrder' /\ InOrder'
  BY DEF HandInOrder, InOrder
<1> QED
  BY <1>1, <1>2, <1>3

(* What a queue in order says of its head and of the rest.                  *)
LEMMA HeadOfQueue ==
  ASSUME NEW q \in Seq(Id), NEW p \in BOOLEAN, QueueOf(q, p), q # <<>>
  PROVE  /\ Head(q) \in 1..mDownloadId /\ priority[Head(q)] = p
         /\ Head(q) # mCurrentDownload /\ reported[Head(q)] = "no" /\ Head(q) \notin dropped
         /\ \A k \in 1..Len(Tail(q)) : Head(q) < Tail(q)[k] /\ Tail(q)[k] = q[k + 1]
                                       /\ k + 1 \in 1..Len(q)
         /\ \A k \in 1..Len(q) : q[k] = Head(q) \/ \E j \in 1..Len(Tail(q)) : Tail(q)[j] = q[k]
<1>1. 1 \in 1..Len(q) /\ Head(q) = q[1]
  OBVIOUS
<1>2. Len(Tail(q)) = Len(q) - 1 /\ \A k \in 1..Len(Tail(q)) : Tail(q)[k] = q[k + 1]
  OBVIOUS
<1>3. \A k \in 1..Len(Tail(q)) : k + 1 \in 1..Len(q) /\ 1 < k + 1
  BY <1>2
<1>4. \A k \in 1..Len(q) : k = 1 \/ (k - 1 \in 1..Len(Tail(q)) /\ Tail(q)[k - 1] = q[k])
  BY <1>2
<1>5. /\ Head(q) \in 1..mDownloadId /\ priority[Head(q)] = p
      /\ Head(q) # mCurrentDownload /\ reported[Head(q)] = "no" /\ Head(q) \notin dropped
  BY <1>1 DEF QueueOf
<1>6. \A k \in 1..Len(Tail(q)) : Head(q) < Tail(q)[k]
  BY <1>1, <1>2, <1>3 DEF QueueOf
<1>7. \A k \in 1..Len(q) : q[k] = Head(q) \/ \E j \in 1..Len(Tail(q)) : Tail(q)[j] = q[k]
  BY <1>1, <1>4
<1> QED
  BY <1>2, <1>3, <1>5, <1>6, <1>7

(* Download adds the newest id at the end of its queue.                     *)
LEMMA DownloadStep ==
  ASSUME IInv, NEW p \in BOOLEAN, NEW r \in RetryOptions, Download(p, r), TypeOK'
  PROVE  IInv'
<1> DEFINE d == mDownloadId + 1
<1> USE DEF IInv
<1>1. /\ mDownloadId \in Nat /\ d \in Id /\ mDownloadId' = d
      /\ priority' = [priority EXCEPT ![d] = p]
      /\ UNCHANGED <<mCurrentDownload, reported, dropped>>
  BY DownloadBoundAssumption DEF Download, TypeOK, Id, worldVars, lifeVars
<1>2. /\ priority'[d] = p /\ \A e \in 1..mDownloadId : e \in Id /\ priority'[e] = priority[e]
      /\ reported[d] = "no" /\ d \notin dropped /\ d # mCurrentDownload
      /\ 1..mDownloadId \subseteq 1..d /\ d \in 1..d
      /\ \A e \in 1..d : e \in 1..mDownloadId \/ e = d
  <2>1. 1..mDownloadId \subseteq Id /\ d \notin 1..mDownloadId /\ d # 0
    BY <1>1, DownloadBoundAssumption DEF TypeOK, Id
  <2>2. priority'[d] = p /\ \A e \in 1..mDownloadId : e \in Id /\ priority'[e] = priority[e]
    BY <1>1, <2>1 DEF TypeOK
  <2>3. reported[d] = "no" /\ d \notin dropped
    BY <1>1, <2>1 DEF Thread
  <2>4. d # mCurrentDownload
    BY <2>1 DEF Accounted, None
  <2>5. 1..mDownloadId \subseteq 1..d /\ d \in 1..d /\ \A e \in 1..d : e \in 1..mDownloadId \/ e = d
    BY <1>1
  <2> QED
    BY <2>2, <2>3, <2>4, <2>5
<1>3. Thread'
  <2>1. \A e \in Id : e > mDownloadId' => reported'[e] = "no"
    BY <1>1 DEF Thread, Id
  <2>2. dropped' \subseteq 1..mDownloadId' /\ (dropped' # {} => wpc' = "exited")
    BY <1>1, <1>2 DEF Thread, Download
  <2>3. /\ wpc' \in {"top", "pick", "park", "wait"} => mCurrentDownload' = None
        /\ wpc' \in {"open", "retry", "perform", "report", "reset"} => mCurrentDownload' # None
    BY <1>1 DEF Thread, Download
  <2> QED
    BY <2>1, <2>2, <2>3 DEF Thread
<1>4. QueueOf(mPriorityDownloadQueue, TRUE)'
  <2>1. CASE p = TRUE
    <3> DEFINE q == mPriorityDownloadQueue
    <3>1. q \in Seq(Id) /\ mPriorityDownloadQueue' = Append(q, d)
      BY <2>1 DEF Download, Enqueue, TypeOK
    <3>2. /\ Len(Append(q, d)) = Len(q) + 1 /\ Len(q) \in Nat
          /\ \A k \in 1..Len(q) : Append(q, d)[k] = q[k]
          /\ Append(q, d)[Len(q) + 1] = d
      BY <3>1, <1>1
    <3>3. \A k \in 1..(Len(q) + 1) : k \in 1..Len(q) \/ k = Len(q) + 1
      BY <3>2
    <3>4. \A k \in 1..Len(q) :
            /\ q[k] \in 1..mDownloadId /\ priority[q[k]] = TRUE
            /\ q[k] # mCurrentDownload /\ reported[q[k]] = "no" /\ q[k] \notin dropped
      BY DEF Accounted, QueueOf
    <3>5. \A k \in 1..Len(q) : priority'[q[k]] = TRUE /\ q[k] \in 1..d /\ q[k] < d
      BY <1>1, <1>2, <3>4
    <3>6. \A j, k \in 1..Len(q) : j < k => q[j] < q[k]
      BY DEF Accounted, QueueOf
    <3>7. \A k \in 1..Len(mPriorityDownloadQueue') :
            LET e == mPriorityDownloadQueue'[k] IN
            /\ e \in 1..d /\ priority'[e] = TRUE
            /\ e # mCurrentDownload /\ reported[e] = "no" /\ e \notin dropped
      <4> SUFFICES ASSUME NEW k \in 1..(Len(q) + 1)
                   PROVE  LET e == Append(q, d)[k] IN
                          /\ e \in 1..d /\ priority'[e] = TRUE
                          /\ e # mCurrentDownload /\ reported[e] = "no" /\ e \notin dropped
        BY <3>1, <3>2
      <4>1. CASE k \in 1..Len(q)
        BY <3>2, <3>4, <3>5, <4>1
      <4>2. CASE k = Len(q) + 1
        <5>1. Append(q, d)[k] = d
          BY <3>2, <4>2
        <5>2. priority'[d] = TRUE
          BY <1>2, <2>1
        <5> QED
          BY <1>2, <5>1, <5>2
      <4> QED
        BY <3>3, <4>1, <4>2
    <3>8. \A j, k \in 1..Len(mPriorityDownloadQueue') :
            j < k => mPriorityDownloadQueue'[j] < mPriorityDownloadQueue'[k]
      BY <3>1, <3>2, <3>3, <3>5, <3>6
    <3> QED
      BY <1>1, <3>7, <3>8 DEF QueueOf
  <2>2. CASE p = FALSE
    <3>1. UNCHANGED mPriorityDownloadQueue
      BY <2>2 DEF Download
    <3> QED
      BY <1>1, <1>2, <3>1 DEF Accounted, QueueOf
  <2> QED
    BY <2>1, <2>2
<1>5. QueueOf(mRegularDownloadQueue, FALSE)'
  <2>1. CASE p = FALSE
    <3> DEFINE q == mRegularDownloadQueue
    <3>1. q \in Seq(Id) /\ mRegularDownloadQueue' = Append(q, d)
      BY <2>1 DEF Download, Enqueue, TypeOK
    <3>2. /\ Len(Append(q, d)) = Len(q) + 1 /\ Len(q) \in Nat
          /\ \A k \in 1..Len(q) : Append(q, d)[k] = q[k]
          /\ Append(q, d)[Len(q) + 1] = d
      BY <3>1, <1>1
    <3>3. \A k \in 1..(Len(q) + 1) : k \in 1..Len(q) \/ k = Len(q) + 1
      BY <3>2
    <3>4. \A k \in 1..Len(q) :
            /\ q[k] \in 1..mDownloadId /\ priority[q[k]] = FALSE
            /\ q[k] # mCurrentDownload /\ reported[q[k]] = "no" /\ q[k] \notin dropped
      BY DEF Accounted, QueueOf
    <3>5. \A k \in 1..Len(q) : priority'[q[k]] = FALSE /\ q[k] \in 1..d /\ q[k] < d
      BY <1>1, <1>2, <3>4
    <3>6. \A j, k \in 1..Len(q) : j < k => q[j] < q[k]
      BY DEF Accounted, QueueOf
    <3>7. \A k \in 1..Len(mRegularDownloadQueue') :
            LET e == mRegularDownloadQueue'[k] IN
            /\ e \in 1..d /\ priority'[e] = FALSE
            /\ e # mCurrentDownload /\ reported[e] = "no" /\ e \notin dropped
      BY <1>2, <2>1, <3>1, <3>2, <3>3, <3>4, <3>5
    <3>8. \A j, k \in 1..Len(mRegularDownloadQueue') :
            j < k => mRegularDownloadQueue'[j] < mRegularDownloadQueue'[k]
      BY <3>1, <3>2, <3>3, <3>5, <3>6
    <3> QED
      BY <1>1, <3>7, <3>8 DEF QueueOf
  <2>2. CASE p = TRUE
    <3>1. UNCHANGED mRegularDownloadQueue
      BY <2>2 DEF Download
    <3> QED
      BY <1>1, <1>2, <3>1 DEF Accounted, QueueOf
  <2> QED
    BY <2>1, <2>2
<1>6. \A e \in 1..mDownloadId' : InQueue(e)' \/ (e = mCurrentDownload \/ reported[e] # "no" \/ e \in dropped)'
  <2>1. \A q \in Seq(Id) :
          /\ \A k \in 1..Len(q) : k \in 1..Len(Append(q, d)) /\ Append(q, d)[k] = q[k]
          /\ Len(q) + 1 \in 1..Len(Append(q, d)) /\ Append(q, d)[Len(q) + 1] = d
    BY <1>1
  <2>2. mPriorityDownloadQueue \in Seq(Id) /\ mRegularDownloadQueue \in Seq(Id)
    BY DEF TypeOK
  <2>3. CASE p = TRUE
    <3>1. mPriorityDownloadQueue' = Append(mPriorityDownloadQueue, d)
          /\ mRegularDownloadQueue' = mRegularDownloadQueue
      BY <2>3 DEF Download, Enqueue
    <3>2. \A e : e = d \/ InQueue(e) => InQueue(e)'
      BY <2>1, <2>2, <3>1 DEF InQueue
    <3> QED
      BY <1>1, <1>2, <3>2 DEF Accounted
  <2>4. CASE p = FALSE
    <3>1. mRegularDownloadQueue' = Append(mRegularDownloadQueue, d)
          /\ mPriorityDownloadQueue' = mPriorityDownloadQueue
      BY <2>4 DEF Download, Enqueue
    <3>2. \A e : e = d \/ InQueue(e) => InQueue(e)'
      BY <2>1, <2>2, <3>1 DEF InQueue
    <3> QED
      BY <1>1, <1>2, <3>2 DEF Accounted
  <2> QED
    BY <2>3, <2>4
<1>7. Accounted'
  <2>1. wpc' = "reset" <=> wpc = "reset"
    BY DEF Download
  <2> QED
    BY <1>1, <1>2, <1>4, <1>5, <1>6, <2>1 DEF Accounted
<1>8. HandInOrder' /\ InOrder'
  BY <1>1, <1>2 DEF HandInOrder, InOrder, Accounted, None
<1> QED
  BY <1>3, <1>7, <1>8

(* The thread takes the oldest download of the queue it looks at.          *)
LEMMA PickStep == ASSUME IInv, pickDownloadJob, TypeOK' PROVE IInv'
<1> USE DEF IInv
<1>1. wpc = "pick" /\ wpc' = "begin" /\ mCurrentDownload = None /\ dropped = {}
  BY DEF pickDownloadJob, Goto, Thread
<1>2. CASE mPriorityDownloadQueue # <<>>
  <2> DEFINE q == mPriorityDownloadQueue
             h == Head(q)
  <2>1. q \in Seq(Id) /\ q # <<>> /\ QueueOf(q, TRUE) /\ QueueOf(mRegularDownloadQueue, FALSE)
    BY <1>1, <1>2 DEF TypeOK, Accounted
  <2>2. /\ h \in 1..mDownloadId /\ priority[h] = TRUE
        /\ h # mCurrentDownload /\ reported[h] = "no" /\ h \notin dropped
        /\ \A k \in 1..Len(Tail(q)) : h < Tail(q)[k] /\ Tail(q)[k] = q[k + 1]
                                      /\ k + 1 \in 1..Len(q)
        /\ \A k \in 1..Len(q) : q[k] = h \/ \E j \in 1..Len(Tail(q)) : Tail(q)[j] = q[k]
    BY <2>1, HeadOfQueue
  <2>3. /\ mCurrentDownload' = h /\ mPriorityDownloadQueue' = Tail(q)
        /\ UNCHANGED <<mRegularDownloadQueue, mDownloadId, priority, reported, dropped>>
    BY <1>2, <1>1 DEF pickDownloadJob, infoVars, lifeVars, worldVars
  <2>4. Thread'
    BY <1>1, <2>3 DEF Thread
  <2>5. QueueOf(mPriorityDownloadQueue, TRUE)'
    <3>1. \A k \in 1..Len(Tail(q)) :
            /\ q[k + 1] \in 1..mDownloadId /\ priority[q[k + 1]] = TRUE /\ q[k + 1] # h
            /\ reported[q[k + 1]] = "no" /\ q[k + 1] \notin dropped
      BY <2>1, <2>2 DEF QueueOf
    <3>2. \A j, k \in 1..Len(Tail(q)) : j < k => j + 1 < k + 1
      OBVIOUS
    <3>3. \A j, k \in 1..Len(Tail(q)) : j < k => Tail(q)[j] < Tail(q)[k]
      BY <2>1, <2>2, <3>2 DEF QueueOf
    <3> QED
      BY <2>2, <2>3, <3>1, <3>3 DEF QueueOf
  <2>6. QueueOf(mRegularDownloadQueue, FALSE)'
    <3>1. \A k \in 1..Len(mRegularDownloadQueue) : mRegularDownloadQueue[k] # h
      BY <2>1, <2>2 DEF QueueOf
    <3> QED
      BY <2>1, <2>3, <3>1 DEF QueueOf
  <2>7. \A d \in 1..mDownloadId : InQueue(d) => InQueue(d)' \/ d = h
    BY <2>2, <2>3 DEF InQueue
  <2>8. Accounted'
    <3>1. \A d \in 1..mDownloadId :
            InQueue(d)' \/ d = h \/ reported[d] # "no" \/ d \in dropped
      BY <1>1, <2>7 DEF Accounted, None
    <3> QED
      BY <1>1, <2>2, <2>3, <2>5, <2>6, <3>1 DEF Accounted
  <2>9. HandInOrder' /\ InOrder'
    <3>1. ASSUME NEW d \in 1..mDownloadId, d < h, priority[d] = TRUE, reported[d] = "no"
          PROVE  FALSE
      <4>1. InQueue(d)
        BY <1>1, <3>1 DEF Accounted, None
      <4>2. \A k \in 1..Len(mRegularDownloadQueue) : mRegularDownloadQueue[k] # d
        BY <2>1, <3>1 DEF QueueOf
      <4>3. \A k \in 1..Len(q) : q[k] = h \/ h < q[k]
        BY <2>2
      <4>4. \A k \in 1..Len(q) : q[k] # d
        BY <2>1, <2>2, <3>1, <4>3 DEF QueueOf
      <4> QED
        BY <4>1, <4>2, <4>4 DEF InQueue
    <3> QED
      BY <2>2, <2>3, <3>1 DEF HandInOrder, InOrder
  <2> QED
    BY <2>4, <2>8, <2>9
<1>3. CASE mPriorityDownloadQueue = <<>> /\ mRegularDownloadQueue # <<>>
  <2> DEFINE q == mRegularDownloadQueue
             h == Head(q)
  <2>1. q \in Seq(Id) /\ q # <<>> /\ QueueOf(q, FALSE) /\ QueueOf(mPriorityDownloadQueue, TRUE)
    BY <1>1, <1>3 DEF TypeOK, Accounted
  <2>2. /\ h \in 1..mDownloadId /\ priority[h] = FALSE
        /\ h # mCurrentDownload /\ reported[h] = "no" /\ h \notin dropped
        /\ \A k \in 1..Len(Tail(q)) : h < Tail(q)[k] /\ Tail(q)[k] = q[k + 1]
                                      /\ k + 1 \in 1..Len(q)
        /\ \A k \in 1..Len(q) : q[k] = h \/ \E j \in 1..Len(Tail(q)) : Tail(q)[j] = q[k]
    BY <2>1, HeadOfQueue
  <2>3. /\ mCurrentDownload' = h /\ mRegularDownloadQueue' = Tail(q)
        /\ UNCHANGED <<mPriorityDownloadQueue, mDownloadId, priority, reported, dropped>>
    BY <1>3, <1>1 DEF pickDownloadJob, infoVars, lifeVars, worldVars
  <2>4. Thread'
    BY <1>1, <2>3 DEF Thread
  <2>5. QueueOf(mRegularDownloadQueue, FALSE)'
    <3>1. \A k \in 1..Len(Tail(q)) :
            /\ q[k + 1] \in 1..mDownloadId /\ priority[q[k + 1]] = FALSE /\ q[k + 1] # h
            /\ reported[q[k + 1]] = "no" /\ q[k + 1] \notin dropped
      BY <2>1, <2>2 DEF QueueOf
    <3>2. \A j, k \in 1..Len(Tail(q)) : j < k => j + 1 < k + 1
      OBVIOUS
    <3>3. \A j, k \in 1..Len(Tail(q)) : j < k => Tail(q)[j] < Tail(q)[k]
      BY <2>1, <2>2, <3>2 DEF QueueOf
    <3> QED
      BY <2>2, <2>3, <3>1, <3>3 DEF QueueOf
  <2>6. QueueOf(mPriorityDownloadQueue, TRUE)'
    <3>1. \A k \in 1..Len(mPriorityDownloadQueue) : mPriorityDownloadQueue[k] # h
      BY <2>1, <2>2 DEF QueueOf
    <3> QED
      BY <2>1, <2>3, <3>1 DEF QueueOf
  <2>7. \A d \in 1..mDownloadId : InQueue(d) => InQueue(d)' \/ d = h
    BY <2>2, <2>3 DEF InQueue
  <2>8. Accounted'
    <3>1. \A d \in 1..mDownloadId :
            InQueue(d)' \/ d = h \/ reported[d] # "no" \/ d \in dropped
      BY <1>1, <2>7 DEF Accounted, None
    <3> QED
      BY <1>1, <2>2, <2>3, <2>5, <2>6, <3>1 DEF Accounted
  <2>9. HandInOrder' /\ InOrder'
    <3>1. ASSUME NEW d \in 1..mDownloadId, d < h, priority[d] = FALSE, reported[d] = "no"
          PROVE  FALSE
      <4>1. InQueue(d)
        BY <1>1, <3>1 DEF Accounted, None
      <4>2. \A k \in 1..Len(mPriorityDownloadQueue) : mPriorityDownloadQueue[k] # d
        BY <2>1, <3>1 DEF QueueOf
      <4>3. \A k \in 1..Len(q) : q[k] = h \/ h < q[k]
        BY <2>2
      <4>4. \A k \in 1..Len(q) : q[k] # d
        BY <2>1, <2>2, <3>1, <4>3 DEF QueueOf
      <4> QED
        BY <4>1, <4>2, <4>4 DEF InQueue
    <3> QED
      BY <2>2, <2>3, <3>1 DEF HandInOrder, InOrder
  <2> QED
    BY <2>4, <2>8, <2>9
<1>4. CASE mPriorityDownloadQueue = <<>> /\ mRegularDownloadQueue = <<>>
  BY <1>1, <1>4, Quiet
     DEF pickDownloadJob, queueVars, infoVars, lifeVars, worldVars
<1> QED
  BY <1>2, <1>3, <1>4

(* A report moves the download in hand to the reported ones.               *)
LEMMA NotifyStep == ASSUME IInv, notifyDownloadStatus, TypeOK' PROVE IInv'
<1> USE DEF IInv
<1>1. /\ wpc = "report" /\ wpc' = "reset" /\ mCurrentDownload \in 1..mDownloadId
      /\ UNCHANGED <<queueVars, priority, mCurrentDownload, dropped>> /\ dropped = {}
  BY DEF notifyDownloadStatus, Goto, Thread, Accounted, infoVars, lifeVars
<1>2. mCurrentDownload \in Id /\ mDownloadId' = mDownloadId
  BY <1>1, DownloadBoundAssumption DEF TypeOK, Id, queueVars
<1>3. /\ reported'[mCurrentDownload] # "no"
      /\ \A d \in Id : d # mCurrentDownload => reported'[d] = reported[d]
  BY <1>2 DEF notifyDownloadStatus, TypeOK
<1>4. 1..mDownloadId \subseteq Id
  BY DownloadBoundAssumption DEF TypeOK, Id
<1>5. Thread'
  <2>1. \A d \in Id : d > mDownloadId => d # mCurrentDownload
    BY <1>1 DEF TypeOK, Id
  <2> QED
    BY <1>1, <1>2, <1>3, <2>1 DEF Thread
<1>6. QueueOf(mPriorityDownloadQueue, TRUE)' /\ QueueOf(mRegularDownloadQueue, FALSE)'
  BY <1>1, <1>2, <1>3, <1>4 DEF Accounted, QueueOf, queueVars
<1>7. Accounted'
  BY <1>1, <1>2, <1>3, <1>4, <1>6 DEF Accounted, InQueue, queueVars
<1>8. HandInOrder' /\ InOrder'
  BY <1>1, <1>2, <1>3, <1>4 DEF HandInOrder, InOrder, None
<1> QED
  BY <1>5, <1>7, <1>8

(* The thread lets go of a download only when it has been reported.        *)
LEMMA ResetStep == ASSUME IInv, ResetCurrent, TypeOK' PROVE IInv'
<1> USE DEF IInv
<1>1. /\ wpc = "reset" /\ wpc' = "top" /\ mCurrentDownload # None /\ mCurrentDownload' = None
      /\ reported[mCurrentDownload] # "no"
      /\ UNCHANGED <<queueVars, priority, reported, dropped>>
  BY DEF ResetCurrent, Goto, Thread, Accounted, infoVars, lifeVars, worldVars
<1>2. Thread'
  BY <1>1 DEF Thread, queueVars
<1>3. QueueOf(mPriorityDownloadQueue, TRUE)' /\ QueueOf(mRegularDownloadQueue, FALSE)'
  BY <1>1 DEF Accounted, QueueOf, queueVars, None
<1>4. Accounted'
  BY <1>1, <1>3 DEF Accounted, InQueue, queueVars
<1>5. HandInOrder' /\ InOrder'
  BY <1>1 DEF HandInOrder, InOrder, queueVars
<1> QED
  BY <1>2, <1>4, <1>5

(* Deinitialize drops what is still queued, after the thread has ended.    *)
LEMMA JoinStep == ASSUME IInv, JoinAndClear, TypeOK' PROVE IInv'
<1> USE DEF IInv
<1>1. /\ wpc = "exited" /\ wpc' = "exited"
      /\ mPriorityDownloadQueue' = <<>> /\ mRegularDownloadQueue' = <<>>
      /\ dropped' = dropped \cup {d \in Id : InQueue(d)}
      /\ UNCHANGED <<mDownloadId, mCurrentDownload, priority, reported>>
  BY DEF JoinAndClear, infoVars, runVars, worldVars
<1>2. /\ 1..mDownloadId \subseteq Id
      /\ \A d : InQueue(d) => /\ d \in 1..mDownloadId /\ d # mCurrentDownload
                               /\ reported[d] = "no"
  <2>1. 1..mDownloadId \subseteq Id
    BY DownloadBoundAssumption DEF TypeOK, Id
  <2>2. ASSUME NEW k \in 1..Len(mPriorityDownloadQueue)
        PROVE  LET d == mPriorityDownloadQueue[k] IN
               d \in 1..mDownloadId /\ d # mCurrentDownload /\ reported[d] = "no"
    BY DEF Accounted, QueueOf
  <2>3. ASSUME NEW k \in 1..Len(mRegularDownloadQueue)
        PROVE  LET d == mRegularDownloadQueue[k] IN
               d \in 1..mDownloadId /\ d # mCurrentDownload /\ reported[d] = "no"
    BY DEF Accounted, QueueOf
  <2> QED
    BY <2>1, <2>2, <2>3 DEF InQueue
<1>3. Thread'
  BY <1>1, <1>2 DEF Thread
<1>4. QueueOf(mPriorityDownloadQueue, TRUE)' /\ QueueOf(mRegularDownloadQueue, FALSE)'
  BY <1>1 DEF QueueOf
<1>5. Accounted'
  BY <1>1, <1>2, <1>4 DEF Accounted
<1>6. HandInOrder' /\ InOrder'
  BY <1>1 DEF HandInOrder, InOrder
<1> QED
  BY <1>3, <1>5, <1>6

LEMMA InductiveInit == Init => IInv
<1> SUFFICES ASSUME Init PROVE IInv
  OBVIOUS
<1>1. TypeOK
  BY TypeInit
<1>2. Thread /\ HandInOrder /\ InOrder
  BY DEF Init, Thread, HandInOrder, InOrder
<1>3. Accounted
  BY DEF Init, Accounted, QueueOf
<1> QED
  BY <1>1, <1>2, <1>3 DEF IInv

LEMMA InductiveStep == ASSUME IInv, [Next]_vars PROVE IInv'
<1>1. TypeOK'
  BY TypeStep DEF IInv
<1> USE <1>1 DEF Goto, queueVars, infoVars, runVars, httpVars, lifeVars, worldVars
<1>2. ASSUME NEW p \in BOOLEAN, NEW r \in RetryOptions, Download(p, r) PROVE IInv'
  BY <1>2, DownloadStep
<1>3. CASE pickDownloadJob
  BY <1>3, PickStep
<1>4. CASE notifyDownloadStatus
  BY <1>4, NotifyStep
<1>5. CASE ResetCurrent
  BY <1>5, ResetStep
<1>6. CASE JoinAndClear
  BY <1>6, JoinStep
<1>7. ASSUME NEW d \in Id, CallDelete(d) PROVE IInv'
  BY <1>7, Quiet DEF CallDelete, IInv, Thread
<1>8. ASSUME NEW d \in Id, NEW op \in ControlOp, CallControl(op, d) PROVE IInv'
  BY <1>8, Quiet DEF CallControl, IInv, Thread
<1>9. CASE CallStep
  BY <1>9, Quiet DEF CallStep, Compare, UseTransfer, UseCancel, UseDelete, IInv, Thread
<1>10. CASE UseNull
  BY <1>10, Quiet DEF UseNull, IInv, Thread
<1>11. CASE CheckFlag
  BY <1>11, Quiet DEF CheckFlag, IInv, Thread
<1>12. CASE Wait \/ SpuriousWakeup \/ BeginDownload \/ Retry
  BY <1>12, Quiet DEF Wait, SpuriousWakeup, BeginDownload, Retry, IInv, Thread
<1>13. CASE OpenFile \/ OpenFails
  BY <1>13, Quiet DEF OpenFile, OpenFails, NextAttempt, IInv, Thread
<1>14. CASE Transfer
  BY <1>14, Quiet
     DEF Transfer, TransferSucceeds, NotFound, TransferFails, NextAttempt, IInv, Thread
<1>15. CASE StopDownloader
  BY <1>15, Quiet DEF StopDownloader, IInv, Thread
<1>16. CASE UNCHANGED vars
  BY <1>16, Quiet DEF vars, IInv, Thread
<1> QED
  BY <1>2, <1>3, <1>4, <1>5, <1>6, <1>7, <1>8, <1>9, <1>10, <1>11, <1>12, <1>13, <1>14,
     <1>15, <1>16
     DEF Next, ClientStep, DownloaderStep

(* No accepted download is ever lost or handled twice.                     *)
THEOREM NothingLost == Spec => []Accounted
<1>1. IInv => Accounted
  BY DEF IInv
<1> QED
  BY <1>1, InductiveInit, InductiveStep, PTL DEF Spec

(* Downloads of one priority are reported in the order of their acceptance. *)
THEOREM ReportedInOrder == Spec => []InOrder
<1>1. IInv => InOrder
  BY DEF IInv
<1> QED
  BY <1>1, InductiveInit, InductiveStep, PTL DEF Spec

-----------------------------------------------------------------------------
(* What a success says of the file: that a transfer has an open file, that  *)
(* the status at the report is that of the last attempt, and that a Delete  *)
(* is after a locator that was reported, which the download in hand is not. *)
FileInv ==
  /\ wpc = "perform" => file[mCurrentDownload] # "absent"
  /\ wpc = "report" /\ status = "Success" => file[mCurrentDownload] = "complete"
  /\ wpc = "retry" => status # "Success"
  /\ call.op = "delete" => call.id \in Id /\ reported[call.id] # "no"

(* Steps that touch neither a file nor a report, nor bring the thread to    *)
(* where FileInv looks.                                                     *)
LEMMA FileAside ==
  ASSUME IInv, FileInv, UNCHANGED <<file, reported, mCurrentDownload>>,
         wpc' = "perform" => wpc = "perform",
         wpc' = "report" => status' # "Success" \/ (wpc = "report" /\ status' = status),
         wpc' = "retry" => status' # "Success",
         call'.op = "delete" => (call.op = "delete" /\ call'.id = call.id)
                                  \/ (call'.id \in Id /\ reported[call'.id] # "no")
  PROVE  FileInv'
BY DEF FileInv

LEMMA FileStep ==
  ASSUME IInv, FileInv, [Next]_vars
  PROVE  FileInv'
<1> USE DEF Goto, queueVars, infoVars, runVars, httpVars, lifeVars, worldVars
<1>1. CASE ClientStep
  <2>1. /\ UNCHANGED <<file, reported, mCurrentDownload, status>>
        /\ wpc' \in {"perform", "report", "retry"} => wpc' = wpc
    BY <1>1 DEF ClientStep, Download, CallDelete, CallControl
  <2>2. call'.op = "delete" => (call.op = "delete" /\ call'.id = call.id)
                                 \/ (call'.id \in Id /\ reported[call'.id] # "no")
    <3>1. ASSUME NEW p \in BOOLEAN, NEW r \in RetryOptions, Download(p, r) PROVE call' = call
      BY <3>1 DEF Download
    <3>2. ASSUME NEW d \in Id, CallDelete(d) PROVE call'.id = d /\ reported[d] # "no"
      BY <3>2 DEF CallDelete
    <3>3. ASSUME NEW d \in Id, NEW op \in ControlOp, CallControl(op, d)
          PROVE  call'.op # "delete"
      BY <3>3, OptionAssumption DEF CallControl
    <3> QED
      BY <1>1, <3>1, <3>2, <3>3 DEF ClientStep
  <2> QED
    BY <2>1, <2>2, FileAside DEF FileInv
<1>2. CASE CallStep /\ ~UseDelete
  <2>1. /\ UNCHANGED <<file, reported, mCurrentDownload, status, wpc>>
        /\ call' \in {call, [call EXCEPT !.pc = "use"], NoCall}
    BY <1>2 DEF CallStep, Compare, UseTransfer, UseCancel
  <2>2. call'.op = "delete" => call.op = "delete" /\ call'.id = call.id
    <3>1. CASE call' = [call EXCEPT !.pc = "use"]
      BY <3>1 DEF IInv, TypeOK
    <3> QED
      BY <2>1, <3>1 DEF NoCall
  <2> QED
    BY <2>1, <2>2, FileAside DEF FileInv
<1>3. CASE UseDelete
  <2>1. /\ file' = [file EXCEPT ![call.id] = "absent"] /\ call' = NoCall /\ call.op = "delete"
        /\ UNCHANGED <<wpc, status, mCurrentDownload, reported>>
    BY <1>3 DEF UseDelete
  <2>2. wpc \in {"perform", "report"} => call.id # mCurrentDownload
    BY <2>1 DEF FileInv, IInv, Thread, Accounted
  <2> QED
    BY <2>1, <2>2 DEF FileInv, NoCall, IInv, TypeOK
<1>4. CASE OpenFile
  <2>1. /\ wpc = "open" /\ wpc' = "perform" /\ mCurrentDownload \in Id
        /\ file' = [file EXCEPT ![mCurrentDownload] = "partial"]
        /\ UNCHANGED <<mCurrentDownload, reported, call>>
    BY <1>4 DEF OpenFile, IInv, TypeOK, Thread
  <2> QED
    BY <2>1 DEF FileInv, IInv, TypeOK
<1>5. CASE TransferSucceeds
  <2>1. /\ wpc = "perform" /\ wpc' = "report" /\ mCurrentDownload \in Id
        /\ file' = [file EXCEPT ![mCurrentDownload] = IF @ = "absent" THEN @ ELSE "complete"]
        /\ UNCHANGED <<mCurrentDownload, reported, call>>
    BY <1>5 DEF TransferSucceeds, IInv, TypeOK, Thread
  <2> QED
    BY <2>1 DEF FileInv, IInv, TypeOK
<1>6. CASE OpenFails \/ NotFound \/ \E f \in {"HttpError", "DiskError"} : TransferFails(f)
  <2>1. /\ UNCHANGED <<file, reported, mCurrentDownload, call>>
        /\ wpc' \in {"retry", "report"} /\ status' \in {"HttpError", "DiskError"}
    BY <1>6 DEF OpenFails, NotFound, TransferFails, NextAttempt
  <2> QED
    BY <2>1, FileAside
<1>7. CASE Retry
  <2>1. /\ UNCHANGED <<file, reported, mCurrentDownload, call, status>>
        /\ wpc = "retry" /\ wpc' \in {"report", "open"}
    BY <1>7 DEF Retry
  <2> QED
    BY <2>1, FileAside DEF FileInv
<1>8. CASE notifyDownloadStatus
  <2>1. /\ wpc' = "reset" /\ call = NoCall /\ call' = NoCall
    BY <1>8 DEF notifyDownloadStatus, AdminLockFree
  <2> QED
    BY <2>1 DEF FileInv, NoCall
<1>9. CASE pickDownloadJob \/ ResetCurrent
  <2>1. wpc' \in {"begin", "top"} /\ UNCHANGED <<call, reported>>
    BY <1>9 DEF pickDownloadJob, ResetCurrent
  <2> QED
    BY <2>1 DEF FileInv
<1>10. CASE CheckFlag \/ Wait \/ SpuriousWakeup \/ BeginDownload
  <2>1. /\ wpc' \notin {"perform", "report", "retry"}
        /\ UNCHANGED <<file, reported, mCurrentDownload, call>>
    BY <1>10 DEF CheckFlag, Wait, SpuriousWakeup, BeginDownload
  <2> QED
    BY <2>1, FileAside
<1>11. CASE UseNull \/ StopDownloader \/ JoinAndClear \/ UNCHANGED vars
  <2>1. /\ wpc' \in {"perform", "report", "retry"} => wpc' = wpc
        /\ UNCHANGED <<file, reported, mCurrentDownload, call, status>>
    BY <1>11 DEF UseNull, StopDownloader, JoinAndClear, vars
  <2> QED
    BY <2>1, FileAside DEF FileInv
<1> QED
  BY <1>1, <1>2, <1>3, <1>4, <1>5, <1>6, <1>7, <1>8, <1>9, <1>10, <1>11
     DEF Next, DownloaderStep, Transfer

(* A download is reported without a failure only when its file is complete, *)
(* whatever was retried, cancelled or deleted meanwhile (downloaderRoutine, *)
(* DownloadManagerHttpClient::downloadFile, Delete).                        *)
THEOREM SuccessesHaveTheirFile == Spec => SuccessHasFile
<1> DEFINE Reports ==
      \A d \in Id : reported'[d] = "done" /\ reported[d] # "done" => file[d] = "complete"
<1>1. Init => FileInv
  BY DEF Init, FileInv, NoCall
<1>2. IInv /\ FileInv /\ [Next]_vars => [Reports]_vars
  <2> SUFFICES ASSUME IInv, FileInv, Next PROVE Reports
    OBVIOUS
  <2>1. CASE notifyDownloadStatus
    <3>1. /\ wpc = "report" /\ mCurrentDownload \in Id
          /\ reported' = [reported EXCEPT ![mCurrentDownload] =
                            IF status = "Success" THEN "done" ELSE "failed"]
      BY <2>1 DEF notifyDownloadStatus, Goto, IInv, TypeOK, Thread
    <3> QED
      BY <3>1 DEF FileInv, IInv, TypeOK
  <2>2. CASE ~notifyDownloadStatus
    <3>1. reported' = reported
      BY <2>2 DEF Next, ClientStep, CallStep, DownloaderStep, Transfer, Download, CallDelete,
                  CallControl, Compare, UseTransfer, UseCancel, UseDelete, UseNull, CheckFlag,
                  pickDownloadJob, Wait, SpuriousWakeup, BeginDownload, Retry, OpenFile,
                  OpenFails, TransferSucceeds, TransferFails, NotFound, ResetCurrent,
                  StopDownloader, JoinAndClear, worldVars
    <3> QED
      BY <3>1
  <2> QED
    BY <2>1, <2>2
<1> QED
  BY <1>1, <1>2, InductiveInit, InductiveStep, FileStep, PTL DEF Spec, SuccessHasFile
=============================================================================
