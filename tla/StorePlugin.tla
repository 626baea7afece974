----------------------------- MODULE StorePlugin -----------------------------
(***************************************************************************)
(* The StorePlugin of src/store/dests/kafkadest.go (lines 1051-1113): a    *)
(* PluginController for the Store child plus a MessageQueue that the       *)
(* services fill with Stash, and a push goroutine that drains it into the *)
(* message pipe of the child (the pipe Create makes, lines 949-983).       *)
(* StorePlugin.Shutdown overrides the controller's: close stopChan, wait  *)
(* for push to return, drain the queue once more, close the pipe, then    *)
(* the controller's Shutdown.                                             *)
(*                                                                         *)
(* The module composes PluginController: every controller action but      *)
(* CallShutdown (shadowed by the store's Shutdown) is a step of this one. *)
(* utils.MessageQueue is not in the repository; it is modelled as its use *)
(* here requires: Put appends, GetMany(n) removes up to n from the front, *)
(* Wait(stop) returns TRUE once the queue is not empty and FALSE once     *)
(* stop is closed (either when both hold).  Messages are numbered in      *)
(* Stash order.  The pipe is never full: a write succeeds while the pipe  *)
(* is open and the child runs, and fails (EPIPE, closed or nil file)      *)
(* otherwise; a failed write drops the message (line 1073).               *)
(***************************************************************************)
EXTENDS PluginController
LOCAL INSTANCE SequencesExt

CONSTANTS
    MaxMsgs,   \* bound on Stash calls
    Batch      \* GetMany's limit (1000 in the code; small so the loop turns)

ASSUME MaxMsgs \in Nat /\ Batch \in Nat \ {0}

VARIABLES
    queue,      \* the MessageQueue: message numbers, oldest first
    nStashed,   \* Stash calls so far
    ppc,        \* push goroutine: "wait" (in Wait), "drain" (in pushqueue), "done"
    spc,        \* supervisor in StorePlugin.Shutdown: "none", "waitPush", "flush"
    batch,      \* per pushqueue caller ("push", "shut"): GetMany's slice not yet written
    stopClosed, \* stopChan is closed
    pipe,       \* s.pipe: "nil" (before Create), "open", "closed"
    written,    \* the messages the child received on its pipe, in order
    dropped,    \* the messages a failed write dropped
    preStop     \* ghost: Stash calls made before stopChan was closed

storeVars == <<queue, nStashed, ppc, spc, batch, stopClosed, pipe, written,
               dropped, preStop>>
allVars == <<vars, storeVars>>

Pushers == {"push", "shut"}

StoreInit ==
    /\ Init
    /\ queue = <<>> /\ nStashed = 0 /\ ppc = "wait" /\ spc = "none"
    /\ batch = [a \in Pushers |-> <<>>] /\ stopClosed = FALSE
    /\ pipe = "nil" /\ written = <<>> /\ dropped = {} /\ preStop = 0

(* Create of a Store plugin also makes the message pipe: a new open pipe  *)
(* with a new child; a spawn failure after os.Pipe leaves s.pipe closed,  *)
(* a failure of os.Pipe itself leaves it as it was.                       *)
StoreCreate ==
    /\ Create
    /\ IF created THEN UNCHANGED pipe
       ELSE IF created' THEN pipe' = "open"
       ELSE pipe' \in {pipe, "closed"}
    /\ UNCHANGED <<queue, nStashed, ppc, spc, batch, stopClosed, written,
                   dropped, preStop>>

(* Stash: Put on the MessageQueue, no lock, always (nil, nil). *)
Stash ==
    /\ Up /\ nStashed < MaxMsgs
    /\ nStashed' = nStashed + 1
    /\ queue' = Append(queue, nStashed + 1)
    /\ preStop' = IF stopClosed THEN preStop ELSE nStashed + 1
    /\ UNCHANGED <<vars, ppc, spc, batch, stopClosed, pipe, written, dropped>>

(* pipe.Write of one message: it reaches the child only through an open  *)
(* pipe to a running child.                                              *)
WriteMsg(m) ==
    IF pipe = "open" /\ child = "running"
      THEN written' = Append(written, m) /\ UNCHANGED dropped
      ELSE dropped' = dropped \cup {m} /\ UNCHANGED written

(* pushqueue, for caller a: GetMany(Batch) when the slice is written. *)
PqGet(a) ==
    /\ batch[a] = <<>> /\ queue # <<>>
    /\ LET k == IF Len(queue) < Batch THEN Len(queue) ELSE Batch
       IN /\ batch' = [batch EXCEPT ![a] = SubSeq(queue, 1, k)]
          /\ queue' = SubSeq(queue, k + 1, Len(queue))
    /\ UNCHANGED <<written, dropped>>

(* pushqueue: marshal and write the next message of the slice. *)
PqWrite(a) ==
    /\ batch[a] # <<>>
    /\ WriteMsg(Head(batch[a]))
    /\ batch' = [batch EXCEPT ![a] = Tail(@)]
    /\ UNCHANGED queue

(* pushqueue returns once GetMany comes back empty. *)
PqEmpty(a) == batch[a] = <<>> /\ queue = <<>>

pushOnly == <<vars, nStashed, spc, stopClosed, pipe, preStop>>

(* push: Wait returns TRUE on a non-empty queue, then pushqueue. *)
PushWake ==
    /\ Up /\ ppc = "wait" /\ queue # <<>>
    /\ ppc' = "drain"
    /\ UNCHANGED <<pushOnly, queue, batch, written, dropped>>

(* Mutant: Wait returns FALSE on an empty queue as well. *)
PushStopOnEmpty ==
    /\ Up /\ ppc = "wait" /\ (stopClosed \/ queue = <<>>)
    /\ ppc' = "done"
    /\ UNCHANGED <<pushOnly, queue, batch, written, dropped>>

(* push: Wait returns FALSE once stopChan is closed; pushwg.Done. *)
PushStop ==
    /\ Up /\ ppc = "wait" /\ stopClosed
    /\ ppc' = "done"
    /\ UNCHANGED <<pushOnly, queue, batch, written, dropped>>

PushGet   == Up /\ ppc = "drain" /\ PqGet("push") /\ UNCHANGED <<pushOnly, ppc>>
PushWrite == Up /\ ppc = "drain" /\ PqWrite("push") /\ UNCHANGED <<pushOnly, ppc>>
PushBack  ==
    /\ Up /\ ppc = "drain" /\ PqEmpty("push")
    /\ ppc' = "wait"
    /\ UNCHANGED <<pushOnly, queue, batch, written, dropped>>

(* StorePlugin.Shutdown, called by the supervisor: close(stopChan); a    *)
(* second call closes a closed channel and panics.                       *)
StoreShutdown ==
    /\ Call /\ stopCh # "nil"
    /\ IF stopClosed
         THEN panicked' = TRUE /\ UNCHANGED <<cpc, spc, stopClosed, preStop>>
         ELSE /\ stopClosed' = TRUE /\ preStop' = nStashed
              /\ cpc' = "store" /\ spc' = "waitPush"
              /\ UNCHANGED panicked
    /\ UNCHANGED <<ckt, cmu, smu, created, started, shutClosed, stopCh,
                   metricsClosed, lstVars, gpc, nGathers, childVars, startRes,
                   shutReq, queue, nStashed, ppc, batch, pipe, written, dropped>>

shutOnly == <<vars, nStashed, ppc, stopClosed, pipe, preStop>>

(* Mutant: Shutdown drains the queue without waiting for push to return. *)
StoreWaitPushNoWait ==
    /\ Up /\ spc = "waitPush"
    /\ spc' = "flush"
    /\ UNCHANGED <<shutOnly, queue, batch, written, dropped>>

(* pipe.Close (an error on a nil or closed file, ignored), then          *)
(* PluginController.Shutdown(killTimeOut).                                *)
ClosePipeShutdown ==
    /\ pipe' = IF pipe = "open" THEN "closed" ELSE pipe
    /\ spc' = "none" /\ cpc' = "shutBegin"
    /\ \E kt \in {"zero", "nonzero"} : ckt' = kt
    /\ UNCHANGED <<nCalls, cmu, smu, created, started, shutClosed, stopCh,
                   metricsClosed, panicked, lstVars, gpc, nGathers, childVars,
                   startRes, shutReq, queue, nStashed, ppc, batch, stopClosed,
                   written, dropped, preStop>>

(* Mutant: Shutdown goes on to the pipe without its final pushqueue. *)
StoreWaitPushSkipFlush ==
    Up /\ spc = "waitPush" /\ ppc = "done" /\ ClosePipeShutdown

(* pushwg.Wait: push has returned. *)
StoreWaitPush ==
    /\ Up /\ spc = "waitPush" /\ ppc = "done"
    /\ spc' = "flush"
    /\ UNCHANGED <<shutOnly, queue, batch, written, dropped>>

FlushGet   == Up /\ spc = "flush" /\ PqGet("shut") /\ UNCHANGED <<shutOnly, spc>>
FlushWrite == Up /\ spc = "flush" /\ PqWrite("shut") /\ UNCHANGED <<shutOnly, spc>>

(* The final pushqueue has returned. *)
FlushEnd == Up /\ spc = "flush" /\ PqEmpty("shut") /\ ClosePipeShutdown

(* The controller's steps but Create and CallShutdown, with the store's *)
(* variables left alone.                                                  *)
StoreNext ==
    \/ StoreCreate
    \/ CtrlSteps /\ UNCHANGED storeVars
    \/ Stash \/ PushWake \/ PushStop \/ PushGet \/ PushWrite \/ PushBack
    \/ StoreShutdown \/ StoreWaitPush \/ FlushGet \/ FlushWrite \/ FlushEnd

(* The controller's fairness, and the push goroutine's and the           *)
(* supervisor's steps inside Shutdown; Stash and the calls are not fair. *)
StoreFairness ==
    /\ Fairness
    /\ WF_allVars(PushWake) /\ WF_allVars(PushStop) /\ WF_allVars(PushGet)
    /\ WF_allVars(PushWrite) /\ WF_allVars(PushBack)
    /\ WF_allVars(StoreWaitPush) /\ WF_allVars(FlushGet)
    /\ WF_allVars(FlushWrite) /\ WF_allVars(FlushEnd)

StoreSpec == StoreInit /\ [][StoreNext]_allVars /\ StoreFairness

-----------------------------------------------------------------------------
(* Properties.                                                            *)

StoreTypeOK ==
    /\ TypeOK
    /\ queue \in Seq(1..MaxMsgs) /\ nStashed \in 0..MaxMsgs
    /\ ppc \in {"wait", "drain", "done"} /\ spc \in {"none", "waitPush", "flush"}
    /\ batch \in [Pushers -> Seq(1..MaxMsgs)] /\ stopClosed \in BOOLEAN
    /\ pipe \in {"nil", "open", "closed"} /\ written \in Seq(1..MaxMsgs)
    /\ dropped \subseteq 1..MaxMsgs /\ preStop \in 0..nStashed

Delivered(m) == m \in ToSet(written) \cup dropped

(* The comment of Stash: "the MessageQueue ensures that we write the     *)
(* messages sequentially to the store child".  The child receives the    *)
(* messages in Stash order, never one twice, although push and           *)
(* Shutdown's final pushqueue both drain the queue.                      *)
PipeInStashOrder ==
    \A i, j \in 1..Len(written) : i < j => written[i] < written[j]

(* Once Shutdown has closed the pipe, no message stashed before it       *)
(* closed stopChan is left behind: each was written or failed to be.     *)
ShutdownFlushes ==
    (stopClosed /\ spc = "none") => \A m \in 1..preStop : Delivered(m)

(* A message stashed while the store runs is eventually written or       *)
(* dropped, by push or by Shutdown's final pushqueue, whether or not     *)
(* Shutdown is ever called.                                              *)
StashDelivered ==
    \A m \in 1..MaxMsgs :
        (m \in ToSet(queue) /\ ~stopClosed) ~> (Delivered(m) \/ panicked)

====
